---------------------------- MODULE Registration ----------------------------
(***************************************************************************)
(* How a node registers itself, its publishers and its subscribers with    *)
(* the controller: for each, the application task creates a promise for    *)
(* the response, sends the request and waits; the can_wait task matches    *)
(* every frame it takes from the ring against the promises and triggers    *)
(* the one that is answered.                                               *)
(*                                                                         *)
(* can_wait preempts the application task between any two statements, and  *)
(* handles a frame completely before the application task runs again.      *)
(* Only the first element of the promise buffer is ever visited (the       *)
(* pointer arithmetic of both loops strides past the others), so the       *)
(* manager holds one promise.                                              *)
(*                                                                         *)
(* Request 1 registers the node, the others register Topics in turn.  A    *)
(* response is a header and the id the controller assigned; the node uses  *)
(* the id of its first response in every header after it.                  *)
(***************************************************************************)
EXTENDS Naturals, Sequences

CONSTANTS
  NodeHash,      \* hash of the node's name
  Topics,        \* what the node registers: a function, a topic name's hash
  Assigned,      \* the id the controller assigns to each request
  Strangers,     \* responses to other nodes that appear on the bus
  MaxReplays     \* bound of the model on stale frames (see CanReceive)

TopicFunction == {"SUBSCRIBE_TOPIC", "ADVERTISE_TOPIC"}
NodeHeader  == [ctrl : {"REGISTER_NODE"}, node_id : {0}, step : 0 .. 1, hash : 0 .. 255]
TopicHeader == [ctrl : TopicFunction, node_id : 0 .. 15, step : 0 .. 1, hash : 0 .. 7]
Header == NodeHeader \cup TopicHeader
Frame  == [head : Header, id : Nat]

Request == 1 .. Len(Topics) + 1
None == 0

ASSUME RegistrationAssumption ==
  /\ NodeHash \in 0 .. 255
  /\ Topics \in Seq([ctrl : TopicFunction, hash : 0 .. 255])
  /\ Assigned \in [Request -> Nat \ {None}] /\ Assigned[1] <= 15
  /\ Strangers \subseteq Frame
  /\ \A frame \in Strangers : frame.head.ctrl = "REGISTER_NODE" => frame.id <= 15
  /\ MaxReplays \in Nat

VARIABLES
  request,      \* the request the application task is at
  pc,           \* the application task's next statement
  occupied,     \* bit 0 of promise_bitmask
  promise,      \* element 0 of the promise buffer
  accepts,      \* headers the control message object accepts
  signal,       \* ros_promise_signal is pending on the application task
  bus,          \* requests the controller has not answered yet
  strangers,    \* responses to other nodes still to come
  ring,         \* responses in the node's ring, not yet handled
  handled,      \* responses handled so far: what a replay may bring back
  replays,      \* stale responses put back into the ring
  answer        \* node_id, and the topic_id of each publisher and subscriber

application == <<request, pc>>
manager == <<occupied, promise, accepts>>
network == <<bus, strangers, ring, handled, replays>>
vars == <<application, manager, signal, network, answer>>

NoHeader == [ctrl |-> "NONE", node_id |-> 0, step |-> 0, hash |-> 0]
NoFrame  == [head |-> NoHeader, id |-> None]

\* What the buffer holds before a promise is made and after one is destroyed.
Zero == [mask |-> NoHeader, signal |-> FALSE, msg |-> NoFrame]

Init ==
  /\ request = 1 /\ pc = "match"
  /\ occupied = FALSE /\ promise = Zero /\ accepts = {}
  /\ signal = FALSE
  /\ bus = {} /\ strangers = Strangers /\ ring = <<>> /\ handled = {} /\ replays = 0
  /\ answer = [r \in Request |-> None]

----------------------------------------------------------------------------
(* Headers.  The topic's hash is cut to three bits. *)

RegisterHeader ==
  [ctrl |-> "REGISTER_NODE", node_id |-> 0, step |-> 0, hash |-> NodeHash]

SubscribeHeader(t, node) ==
  [ctrl |-> "SUBSCRIBE_TOPIC", node_id |-> node, step |-> 0, hash |-> t.hash % 8]

AdvertiseHeader(t, node) ==
  [ctrl |-> "ADVERTISE_TOPIC", node_id |-> node, step |-> 0, hash |-> t.hash % 8]

HeaderOf(r, node) ==
  IF r = 1 THEN RegisterHeader
  ELSE LET t == Topics[r - 1]
       IN  IF t.ctrl = "SUBSCRIBE_TOPIC" THEN SubscribeHeader(t, node)
           ELSE AdvertiseHeader(t, node)

RequestHeader == HeaderOf(request, answer[1])

\* "it will be the same apart from the step number"
ResponseTo(header) == [header EXCEPT !.step = 1]

\* A plausible bug: responses to other nodes agree too.
AgreeForAnyNode(h, mask) ==
  h.ctrl = mask.ctrl /\ h.step = mask.step /\ h.hash = mask.hash

\* The bits that mask and filter compare: all but the length and the priority.
Agree(h, mask) ==
  h.ctrl = mask.ctrl /\ h.step = mask.step /\ h.hash = mask.hash /\ h.node_id = mask.node_id

----------------------------------------------------------------------------
(* The application task: do_register_node and the two register_topic. *)

\* CANPromiseManager::match.  The constructor writes the header only.  With
\* element 0 occupied, match returns a pointer it never set.
Match ==
  /\ pc = "match" /\ request \in Request
  /\ IF occupied
       THEN pc' = "unset" /\ UNCHANGED manager
       ELSE /\ occupied' = TRUE
            /\ promise' = [promise EXCEPT !.mask = ResponseTo(RequestHeader)]
            /\ accepts' = {ResponseTo(RequestHeader)}
            /\ pc' = "send"
  /\ UNCHANGED <<request, signal, network, answer>>

\* All packets of the request: can_wait gets no response before the last.
SendRequest ==
  /\ pc = "send"
  /\ bus' = bus \cup {[head |-> RequestHeader, id |-> Assigned[request]]}
  /\ pc' = "then"
  /\ UNCHANGED <<request, manager, signal, strangers, ring, handled, replays, answer>>

\* then() and on_error() store the callbacks, wait() stores its signal.
StoreSignal ==
  /\ pc = "then"
  /\ promise' = [promise EXCEPT !.signal = TRUE]
  /\ pc' = "wait"
  /\ UNCHANGED <<request, occupied, accepts, signal, network, answer>>

\* rtos_signal_wait.
SignalWait ==
  /\ pc \in {"wait", "blocked"}
  /\ IF signal
       THEN signal' = FALSE /\ pc' = "run"
       ELSE pc = "wait" /\ pc' = "blocked" /\ UNCHANGED signal
  /\ UNCHANGED <<request, manager, network, answer>>

\* The callback stores the answer; error is never set, so on_error never runs.
\* The promise destroys itself.
RunCallback ==
  /\ pc = "run"
  /\ answer' = [answer EXCEPT ![request] = promise.msg.id]
  /\ promise' = Zero
  /\ request' = request + 1
  /\ pc' = "match"
  /\ UNCHANGED <<occupied, accepts, signal, network>>

----------------------------------------------------------------------------
(* The controller, and the node's frames (see CanReceive). *)

\* The control object takes a response if its header passes the filter.
Receive(frame) ==
  ring' = IF \E mask \in accepts : Agree(frame.head, mask) THEN Append(ring, frame) ELSE ring

\* The controller answers a request.  Not part of the repository's code.
Respond ==
  \E q \in bus :
    /\ bus' = bus \ {q}
    /\ Receive([q EXCEPT !.head = ResponseTo(q.head)])
    /\ UNCHANGED <<application, manager, signal, strangers, handled, replays, answer>>

\* The controller answers another node.
RespondToStranger ==
  \E frame \in strangers :
    /\ strangers' = strangers \ {frame}
    /\ Receive(frame)
    /\ UNCHANGED <<application, manager, signal, bus, handled, replays, answer>>

\* A pop of the empty ring brings back a frame that was handled before.
Replay ==
  /\ ring = <<>>
  /\ replays < MaxReplays
  /\ \E frame \in handled : ring' = <<frame>>
  /\ replays' = replays + 1
  /\ UNCHANGED <<application, manager, signal, bus, strangers, handled, answer>>

----------------------------------------------------------------------------
(* The can_wait task: match_message on the next frame. *)

Matches(frame) == occupied /\ Agree(frame.head, promise.mask)

\* A plausible bug: the message is recorded but nobody is signalled.
TriggerSilently(frame) ==
  /\ promise' = [promise EXCEPT !.msg = frame]
  /\ UNCHANGED signal

\* trigger_match: a signal is sent only if wait() has stored one.
Trigger(frame) ==
  /\ promise' = [promise EXCEPT !.msg = frame]
  /\ signal' = (signal \/ promise.signal)

\* A plausible bug: the control object goes on accepting responses.
HandleFrameOpen ==
  /\ ring # <<>>
  /\ LET frame == Head(ring)
     IN  /\ handled' = handled \cup {frame}
         /\ IF Matches(frame)
              THEN Trigger(frame) /\ occupied' = FALSE
              ELSE UNCHANGED <<promise, occupied, signal>>
  /\ ring' = Tail(ring)
  /\ UNCHANGED <<application, accepts, bus, strangers, replays, answer>>

\* A plausible bug: the promise keeps its place in the buffer.
HandleFrameOccupied ==
  /\ ring # <<>>
  /\ LET frame == Head(ring)
     IN  /\ handled' = handled \cup {frame}
         /\ IF Matches(frame) THEN Trigger(frame) ELSE UNCHANGED <<promise, signal>>
  /\ ring' = Tail(ring)
  /\ UNCHANGED <<application, occupied, accepts, bus, strangers, replays, answer>>

\* No promise is left after a match, so the control object is cleared.
HandleFrame ==
  /\ ring # <<>>
  /\ LET frame == Head(ring)
     IN  /\ handled' = handled \cup {frame}
         /\ IF Matches(frame)
              THEN Trigger(frame) /\ occupied' = FALSE /\ accepts' = {}
              ELSE UNCHANGED <<manager, signal>>
  /\ ring' = Tail(ring)
  /\ UNCHANGED <<application, bus, strangers, replays, answer>>

Application ==
  Match \/ SendRequest \/ StoreSignal \/ SignalWait \/ RunCallback

Next == Application \/ Respond \/ RespondToStranger \/ Replay \/ HandleFrame

Spec == Init /\ [][Next]_vars

\* Both tasks run when they can, and the controller answers every request.
FairSpec ==
  Spec /\ WF_vars(Application) /\ WF_vars(HandleFrame) /\ WF_vars(Respond)

----------------------------------------------------------------------------
\* The application task finds the one usable place of the promise buffer free
\* whenever it makes a promise: match never returns an unset pointer.
PlaceIsFree == pc = "match" => ~occupied

\* The responses that carry the header request r waits for: the one to it, and those
\* to other nodes and to earlier requests that ask the same with the same hash.
Response(q) == [head |-> ResponseTo(HeaderOf(q, answer[1])), id |-> Assigned[q]]

Alike(r) ==
  {frame \in Strangers \cup {Response(q) : q \in 1 .. r} : frame.head = Response(r).head}

\* Registrations get neither each other's answers nor those of other nodes,
\* whatever stale responses come back, as far as headers tell them apart: a
\* completed request has the id of a response with the very header it waited for,
\* which is its own unless the truncated hash (or the whole hash of a node's name)
\* gives an earlier request or another node the same.
OwnAnswer ==
  \A r \in Request : r < request => \E frame \in Alike(r) : answer[r] = frame.id

\* The controller's filter and the promise buffer agree: the control object
\* accepts exactly the response that is waited for.
FilterFollowsPromise == accepts = IF occupied THEN {promise.mask} ELSE {}

\* A registration that has fallen asleep before its response came is woken up
\* and completes.
WokenOnceAsleep ==
  \A r \in Request :
    (request = r /\ pc = "blocked" /\ occupied) ~> (request > r)

\* "register the check before we send so we don't mis it", "we register the
\* signal here so we can catch it anyway" (NodeHandle.cpp): a response that
\* comes early is not missed, so a task asleep has something to wait for.
NeverWaitsInVain == pc = "blocked" => occupied \/ signal
=============================================================================
