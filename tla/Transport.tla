----------------------------- MODULE Transport -----------------------------
(***************************************************************************)
(* A ROS message on the CAN bus: publishers of one topic, each on a node   *)
(* of its own, cut their messages into CAN packets; a subscriber puts the  *)
(* packets together again in a small number of construction slots.  A      *)
(* packet carries the node, a 2-bit message number, a 3-bit sequence       *)
(* number and the message's length in packets; the receiver never sees     *)
(* which message a packet really belongs to.  The model's packets also     *)
(* carry that (piece), for the properties only.                            *)
(*                                                                         *)
(* send_can waits until the controller has sent the node's last packet, so *)
(* a node has at most one packet waiting for the bus; arbitration sends    *)
(* the waiting packets in any order.  From there to receive_message a      *)
(* packet passes the message objects (CanObjects) and the ring of incoming *)
(* frames (CanReceive) of the subscriber's node, and not every packet      *)
(* leaves them in its turn:                                                *)
(*   - one may be missed, overwritten in an object or in the ring;         *)
(*   - one may be handed over a second time, or late and out of order: a   *)
(*     stale signal makes the message loop pop an empty ring, which hands  *)
(*     over what its array holds, and the interrupt handler reads the      *)
(*     lowest message object first, so that packets overtake each other.   *)
(* Here a packet that reaches its turn is handed over or missed, and from  *)
(* then on it may be handed over out of turn, as a stray, MaxStrays times  *)
(* at most in a behaviour.  A stray's age has no bound in the model: the   *)
(* ring keeps as many frames as it has slots, and a message object its     *)
(* frame for as long as lower ones have frames too.  What the ring's array *)
(* holds before its first frames is taken to be no packet of the topic.    *)
(***************************************************************************)
EXTENDS Integers, Sequences, FiniteSets

CONSTANTS
  Nodes,          \* nodes that publish on the topic
  SlotCount,      \* construction slots of the subscriber (half its buffer)
  Lengths,        \* the lengths in packets of each node's messages
  MaxMessages,    \* bound of the model on the messages of each node
  MaxLost,        \* bound of the model on the packets lost
  MaxStrays,      \* bound of the model on the packets handed over out of turn
  FirstNums       \* the message numbers a publisher may begin with

ASSUME TransportAssumption ==
  /\ IsFiniteSet(Nodes)
  /\ SlotCount \in Nat
  /\ Lengths \in [Nodes -> SUBSET (0 .. 31)]     \* its size in bytes is a uint8_t
  /\ MaxMessages \in [Nodes -> Nat]
  /\ MaxLost \in Nat /\ MaxStrays \in Nat
  /\ FirstNums \subseteq 0 .. 3

VARIABLES
  publisher,    \* the publisher of each node
  tx,           \* the packet each node's controller is to send, if any
  slot,         \* slots under construction: the domain is mask, the used ones
  delivered,    \* messages put into ready_msgs, in order
  halted,       \* the subscriber's processor has faulted
  past,         \* packets that have had their turn: memory may still hold them
  lost,         \* packets that were missed in their turn (ghost)
  strays,       \* packets that were handed over out of turn (ghost)
  owed          \* packets that slots were promised and nobody will send (ghost)

ghosts == <<lost, strays, owed>>
vars == <<publisher, tx, slot, delivered, halted, past, ghosts>>

MessageNums == 4            \* message_num has 2 bits
SequenceNums == 8           \* seq_num has 3 bits

\* A plausible bug: special mode begins one packet early.
SpecialModeEarly == 6

SEQ_NUM_SPECIAL_MODE == 7

SlotIds == 1 .. SlotCount

\* The packets of a message: one even if it has no bytes at all, although
\* message_size() then says 0.
Blocks(length) == IF length = 0 THEN 1 ELSE length

Piece == [node : Nodes, id : Nat \ {0}, index : 0 .. 31, stray : BOOLEAN]

Packet == [node : Nodes, message_num : 0 .. MessageNums - 1,
           seq_num : 0 .. SEQ_NUM_SPECIAL_MODE, message_length : 0 .. 32,
           piece : Piece]

Construction == [from_node : Nodes, from_msg_num : 0 .. MessageNums - 1,
                 size : 0 .. 32, decode_index : 1 .. 32, pieces : Seq(Piece)]

Publisher == [id : Nat, length : 0 .. 31, seq_num : 0 .. 31, msg_num : 0 .. MessageNums - 1,
              in_progress : BOOLEAN]

TypeOK ==
  /\ publisher \in [Nodes -> Publisher]
  /\ tx \in [Nodes -> Seq(Packet)] /\ \A n \in Nodes : Len(tx[n]) <= 1
  /\ DOMAIN slot \subseteq SlotIds
  /\ \A i \in DOMAIN slot : slot[i] \in Construction
  /\ delivered \in Seq(Construction)
  /\ halted \in BOOLEAN
  /\ past \subseteq Packet
  /\ lost \in 0 .. MaxLost /\ strays \in 0 .. MaxStrays /\ owed \in Nat

\* msg_num starts at whatever the memory holds ("it doesn't actually matter"),
\* and FirstNums says what that may be.
Init ==
  /\ publisher \in [Nodes -> [id : {0}, length : {0}, seq_num : {0},
                              msg_num : FirstNums,
                              in_progress : {FALSE}]]
  /\ tx = [n \in Nodes |-> <<>>]
  /\ slot = <<>>
  /\ delivered = <<>>
  /\ halted = FALSE
  /\ past = {} /\ lost = 0 /\ strays = 0 /\ owed = 0

----------------------------------------------------------------------------
(* The publisher. *)

\* The header get_next_message builds for the next packet of a message.  The
\* sequence number is cut to 3 bits before it is compared, and the length that
\* replaces it in special mode is read after it was incremented.
NextPacket(n, p) ==
  LET seq     == p.seq_num % SequenceNums
      special == seq >= SEQ_NUM_SPECIAL_MODE
  IN  [node |-> n, message_num |-> p.msg_num,
       seq_num        |-> IF special THEN SEQ_NUM_SPECIAL_MODE ELSE seq,
       message_length |-> IF special THEN p.seq_num + 1 ELSE p.length,
       piece |-> [node |-> n, id |-> p.id, index |-> p.seq_num, stray |-> FALSE]]

\* A plausible bug: the message number outgrows its two bits.
NextMessageWideNum(p, length) ==
  [id |-> p.id + 1, length |-> length, seq_num |-> 0,
   msg_num |-> p.msg_num + 1, in_progress |-> FALSE]

\* The publisher with the next message of its queue as current_message.
NextMessage(p, length) ==
  [id |-> p.id + 1, length |-> length, seq_num |-> 0,
   msg_num |-> (p.msg_num + 1) % MessageNums, in_progress |-> FALSE]

\* spin() takes the next packet of the publisher and sends it.
Send(n, length) ==
  LET p == IF publisher[n].in_progress THEN publisher[n]
           ELSE NextMessage(publisher[n], length)
  IN  /\ tx[n] = <<>>
      /\ IF publisher[n].in_progress THEN length = publisher[n].length
         ELSE publisher[n].id < MaxMessages[n]
      /\ tx' = [tx EXCEPT ![n] = <<NextPacket(n, p)>>]
      /\ publisher' = [publisher EXCEPT ![n] =
           [p EXCEPT !.seq_num = @ + 1,
                     !.in_progress = p.seq_num + 1 < Blocks(length)]]
      /\ UNCHANGED <<slot, delivered, halted, past, ghosts>>

----------------------------------------------------------------------------
(* The subscriber. *)

Without(slots, cleared) == [i \in DOMAIN slots \ cleared |-> slots[i]]

With(slots, i, construction) ==
  [j \in DOMAIN slots \cup {i} |-> IF j = i THEN construction ELSE slots[j]]

\* Message::fill on a slot whose construction has just begun.
Begin(p) ==
  [from_node |-> p.node, from_msg_num |-> p.message_num,
   size |-> p.message_length, decode_index |-> 1, pieces |-> <<p.piece>>]

\* Message::fill on a slot that holds the packets before.
Extend(construction, p) ==
  [construction EXCEPT !.decode_index = @ + 1, !.pieces = Append(@, p.piece)]

\* A plausible bug: a complete message keeps its slot.
FilledKeeping(slots, i, construction) ==
  /\ delivered' = IF construction.decode_index = construction.size
                  THEN Append(delivered, construction) ELSE delivered
  /\ slot' = With(slots, i, construction)

\* The end of receive_message: a complete message moves to ready_msgs.
Filled(slots, i, construction) ==
  IF construction.decode_index = construction.size
    THEN /\ delivered' = Append(delivered, construction)
         /\ slot' = Without(slots, {i})
    ELSE /\ slot' = With(slots, i, construction)
         /\ UNCHANGED delivered

IsFirst(i, S) == i \in S /\ \A j \in S : i <= j

\* The first packet of a message takes the first free slot.  With none free,
\* the message is constructed at address NULL: depending on the compiler the
\* packet is ignored, or the write to address 0 faults.
ReceiveFirst(p) ==
  LET free == SlotIds \ DOMAIN slot
  IN  \/ /\ \E i \in free : IsFirst(i, free) /\ Filled(slot, i, Begin(p))
         /\ UNCHANGED halted
      \/ /\ free = {}
         /\ halted' \in BOOLEAN
         /\ UNCHANGED <<slot, delivered>>

\* The sequence number of a packet, which in special mode is in its length.
SeqNum(p) ==
  IF p.seq_num # SEQ_NUM_SPECIAL_MODE THEN p.seq_num ELSE p.message_length

\* A plausible bug: the message number is not compared.
ExpectsAnyMessage(i, p) ==
  /\ i \in DOMAIN slot
  /\ slot[i].from_node = p.node
  /\ slot[i].decode_index = SeqNum(p)

\* The packet is the next one of the message in slot i.
Expects(i, p) ==
  /\ i \in DOMAIN slot
  /\ slot[i].from_node = p.node
  /\ slot[i].from_msg_num = p.message_num
  /\ slot[i].decode_index = SeqNum(p)

\* Any other packet: the slots are scanned in order for messages of the node.
\* One that does not expect this packet has missed one and is dropped; the
\* first that does gets the packet, and the scan ends.
ReceiveNext(p) ==
  LET ofNode  == {i \in DOMAIN slot : slot[i].from_node = p.node}
      fitting == {i \in ofNode : Expects(i, p)}
  IN  /\ \/ \E i \in fitting :
               /\ IsFirst(i, fitting)
               /\ Filled(Without(slot, {j \in ofNode : j < i}), i, Extend(slot[i], p))
         \/ fitting = {} /\ slot' = Without(slot, ofNode) /\ UNCHANGED delivered
      /\ UNCHANGED halted

ReceiveMessage(p) == IF p.seq_num = 0 THEN ReceiveFirst(p) ELSE ReceiveNext(p)

\* The packets that the message in a new slot may still take.  A size of 0 is
\* never reached: such a message goes on for as long as there are numbers.
Room(construction) ==
  (IF construction.size = 0 THEN SequenceNums ELSE construction.size)
    - construction.decode_index

\* What a packet asks for that begins a message and announces no packets of its
\* node: it is a stray, or its message is empty.
Promised(p) ==
  IF p.seq_num = 0 /\ (p.piece.stray \/ p.message_length = 0) THEN Room(Begin(p)) ELSE 0

\* A plausible bug: reading a packet leaves it pending in the controller.
DeliverKeeping(n) ==
  /\ ~halted
  /\ tx[n] # <<>>
  /\ ReceiveMessage(tx[n][1])
  /\ past' = past \cup {tx[n][1]}
  /\ owed' = owed + Promised(tx[n][1])
  /\ UNCHANGED <<publisher, tx, lost, strays>>

\* The message loop hands over a node's packet in its turn.
Deliver(n) ==
  /\ ~halted
  /\ tx[n] # <<>>
  /\ ReceiveMessage(tx[n][1])
  /\ tx' = [tx EXCEPT ![n] = <<>>]
  /\ past' = past \cup {tx[n][1]}
  /\ owed' = owed + Promised(tx[n][1])
  /\ UNCHANGED <<publisher, lost, strays>>

Lose(n) ==
  /\ tx[n] # <<>>
  /\ lost < MaxLost
  /\ lost' = lost + 1
  /\ tx' = [tx EXCEPT ![n] = <<>>]
  /\ past' = past \cup {tx[n][1]}
  /\ UNCHANGED <<publisher, slot, delivered, halted, strays, owed>>

\* A packet as it is when it comes out of turn: receive_message sees no
\* difference.
AsStray(p) == [p EXCEPT !.piece.stray = TRUE]

\* The message loop hands over a packet that has had its turn: again, or late.
Stray(p) ==
  /\ ~halted
  /\ strays < MaxStrays
  /\ ReceiveMessage(AsStray(p))
  /\ strays' = strays + 1
  /\ owed' = owed + Promised(AsStray(p))
  /\ UNCHANGED <<publisher, tx, past, lost>>

Next ==
  \/ \E n \in Nodes : Deliver(n) \/ Lose(n) \/ \E length \in Lengths[n] : Send(n, length)
  \/ \E p \in past : Stray(p)

Spec == Init /\ [][Next]_vars

----------------------------------------------------------------------------
\* No message has more packets than the sequence number can tell apart.
ShortMessages == \A n \in Nodes : Lengths[n] \subseteq 0 .. SequenceNums

\* No message needs special mode, whose packets the subscriber never expects.
NoSpecialMode == \A n \in Nodes : Lengths[n] \subseteq 0 .. SequenceNums - 1

\* Whatever is lost, a delivered message has as many packets as its first
\* packet announced, all from one node, with one message number, in sequence.
WellFormed(m) ==
  /\ Len(m.pieces) = m.size
  /\ \A k \in 1 .. Len(m.pieces) :
       /\ m.pieces[k].node = m.pieces[1].node
       /\ m.pieces[k].index = k - 1
       /\ (m.pieces[k].id - m.pieces[1].id) % MessageNums = 0

DeliveredWellFormed == \A k \in DOMAIN delivered : WellFormed(delivered[k])

\* A message is as late as its last packet, which completed it.
Completes(m) == m.pieces[Len(m.pieces)]

SentBefore(p, q) == p.id < q.id \/ (p.id = q.id /\ p.index < q.index)

\* The messages that were delivered after one of their node which was completed
\* later than they were, or by the same packet.
Belated ==
  {k \in DOMAIN delivered : \E j \in 1 .. k - 1 :
     /\ delivered[j].from_node = delivered[k].from_node
     /\ ~SentBefore(Completes(delivered[j]), Completes(delivered[k]))}

\* The messages of one node arrive in the order they were sent and no packet
\* completes two, but for one message for each packet handed over out of turn:
\* losses alone neither repeat nor reorder a message.
DeliveredInOrder == Cardinality(Belated) <= strays

\* A node is in the middle of a message the subscriber may be constructing.
Active(n) == publisher[n].in_progress \/ tx[n] # <<>>

\* Construction slots do not leak: each one in use belongs to the message its
\* node is sending, or still waits for a packet that was lost, or that it was
\* promised by a stray or by an empty message.
SlotsAccountedFor ==
  Cardinality(DOMAIN slot) <= Cardinality({n \in Nodes : Active(n)}) + lost + owed

\* A node's messages that it has sent to the end.
Sent(n) == publisher[n].id - (IF Active(n) THEN 1 ELSE 0)

\* Every message sent to its end has been delivered, if every packet was handed
\* over in its turn and no other, no message was empty, and the subscriber has
\* a construction slot for each node.
NothingMissing ==
  lost = 0 /\ strays = 0 /\ owed = 0 /\ Cardinality(Nodes) <= SlotCount =>
    \A n \in Nodes :
      Sent(n) <= Cardinality({k \in DOMAIN delivered : delivered[k].from_node = n})
=============================================================================
