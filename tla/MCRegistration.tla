-------------------------- MODULE MCRegistration --------------------------
(* An instance of Registration for TLC: a node that subscribes to a topic    *)
(* and advertises three, among other nodes that do much the same.            *)
EXTENDS Registration

\* The first two share a name; the third has the truncated hash of the second,
\* which no header tells apart; the fourth has another.
SomeTopics ==
  << [ctrl |-> "SUBSCRIBE_TOPIC", hash |-> 107],
     [ctrl |-> "ADVERTISE_TOPIC", hash |-> 107],
     [ctrl |-> "ADVERTISE_TOPIC", hash |-> 115],
     [ctrl |-> "ADVERTISE_TOPIC", hash |-> 108] >>

SomeIds == <<5, 21, 22, 23, 24>>

\* Other nodes: one registers under this node's hash and one under another; one
\* subscribes to and one advertises the same topic.
OtherNodes ==
  { [head |-> [ctrl |-> "REGISTER_NODE", node_id |-> 0, step |-> 1, hash |-> 75], id |-> 6],
    [head |-> [ctrl |-> "REGISTER_NODE", node_id |-> 0, step |-> 1, hash |-> 76], id |-> 7],
    [head |-> [ctrl |-> "SUBSCRIBE_TOPIC", node_id |-> 7, step |-> 1, hash |-> 3], id |-> 31],
    [head |-> [ctrl |-> "ADVERTISE_TOPIC", node_id |-> 6, step |-> 1, hash |-> 3], id |-> 32] }
=============================================================================
