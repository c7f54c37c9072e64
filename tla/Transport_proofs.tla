-------------------------- MODULE Transport_proofs --------------------------
(***************************************************************************)
(* For any number of nodes, construction slots, messages, losses and       *)
(* packets handed over out of turn: what is delivered is well formed while *)
(* messages are short enough for the sequence number, and comes once and   *)
(* in the order it was sent but for one message for each packet out of     *)
(* turn; slots do not leak; and where every packet has its turn nothing is *)
(* missing.  And, in the last part, the bytes of a message end where they  *)
(* were sent from.                                                         *)
(*                                                                         *)
(* Which slot of a scan has the lowest number plays no part in any of it:  *)
(* the proofs do not use IsFirst.                                          *)
(***************************************************************************)
EXTENDS Transport, Descriptor, SequenceTheorems, FiniteSetTheorems, TLAPS

\* A packet's number in three bits, and what its header says of it.
SeqOf(index) == index % SequenceNums

\* A message number and the message it was given to are as far apart, modulo
\* four, as the publisher's now are.
Congruent(n, num, id) ==
  (publisher[n].msg_num - num - (publisher[n].id - id)) % MessageNums = 0

PublishersOK ==
  \A n \in Nodes :
    /\ publisher[n].in_progress => /\ publisher[n].seq_num < Blocks(publisher[n].length)
                                   /\ publisher[n].id > 0
    /\ ShortMessages => publisher[n].length <= SequenceNums

\* A waiting packet is the last one its publisher has made.
Pending(n, p) ==
  /\ p.node = n /\ p.piece.node = n
  /\ p.message_num = publisher[n].msg_num /\ p.piece.id = publisher[n].id
  /\ p.piece.index = publisher[n].seq_num - 1
  /\ p.seq_num = SeqOf(p.piece.index)
  /\ p.seq_num = SEQ_NUM_SPECIAL_MODE => p.message_length = p.piece.index + 1
  /\ ShortMessages => p.piece.index < SequenceNums
  /\ p.piece.stray = FALSE

TxOK == \A n \in Nodes : tx[n] # <<>> => Pending(n, tx[n][1])

\* A message under construction: its packets are of one node, numbered from 0
\* and of messages whose numbers agree.
GoodPiece(m, k) ==
  /\ m.pieces[k].node = m.from_node
  /\ SeqOf(m.pieces[k].index) = k - 1
  /\ ShortMessages => m.pieces[k].index < SequenceNums
  /\ Congruent(m.from_node, m.from_msg_num, m.pieces[k].id)

Good(m) ==
  /\ m \in Construction
  /\ Len(m.pieces) = m.decode_index /\ m.decode_index < SequenceNums
  /\ \A k \in 1 .. Len(m.pieces) : GoodPiece(m, k)

SlotsOK == DOMAIN slot \subseteq SlotIds /\ \A i \in DOMAIN slot : Good(slot[i])

\* What has been delivered was completed by a packet that is no longer waiting.
HasCome(n, p) ==
  /\ p \in Piece
  /\ \/ p.id < publisher[n].id
     \/ p.id = publisher[n].id /\ p.index < publisher[n].seq_num - Len(tx[n])

\* A packet that its node has made, whenever that was.
Valid(p) ==
  /\ p \in Packet /\ p.piece.node = p.node
  /\ Congruent(p.node, p.message_num, p.piece.id)
  /\ p.seq_num = SeqOf(p.piece.index)
  /\ p.seq_num = SEQ_NUM_SPECIAL_MODE => p.message_length = p.piece.index + 1
  /\ ShortMessages => p.piece.index < SequenceNums

PastOK == \A p \in past : Valid(p) /\ HasCome(p.node, p.piece)

DeliveredOK ==
  /\ delivered \in Seq(Construction)
  /\ \A k \in DOMAIN delivered : HasCome(delivered[k].from_node, Completes(delivered[k]))
  /\ DeliveredInOrder
  /\ ShortMessages => DeliveredWellFormed

IInv == TypeOK /\ PublishersOK /\ TxOK /\ PastOK /\ SlotsOK /\ DeliveredOK

USE DEF MessageNums, SequenceNums, SEQ_NUM_SPECIAL_MODE

----------------------------------------------------------------------------
(* Facts about numbers. *)

LEMMA ModDiff ==
  ASSUME NEW a \in Int, NEW b \in Int, a % 4 = 0, b % 4 = 0 PROVE (a - b) % 4 = 0
OBVIOUS

\* The message number and the message's id go on together.
LEMMA NextIsCongruent ==
  ASSUME NEW m \in Int, NEW c \in Int, NEW i \in Int, NEW x \in Int,
         (m - c - (i - x)) % 4 = 0
  PROVE  (((m + 1) % 4) - c - ((i + 1) - x)) % 4 = 0
OBVIOUS

LEMMA Subtract == \A b \in 0 .. 31 : \A a : a = b + 1 => b = a - 1
OBVIOUS

LEMMA Positive == \A a \in 1 .. 32 : a \in Nat /\ a >= 1 /\ a \in Int
OBVIOUS

LEMMA IntervalNat == \A a \in 0 .. 31 : a \in Nat /\ a \in Int
OBVIOUS

LEMMA OneLong == ASSUME NEW S, NEW s \in Seq(S), s # <<>>, Len(s) <= 1 PROVE Len(s) = 1
<1>1. Len(s) \in Nat \ {0}
  BY EmptySeq
<1> QED
  BY <1>1

\* Two messages congruent to the same one are congruent to each other.
LEMMA CongruentToEachOther ==
  ASSUME NEW u \in Int, NEW v \in Int, NEW w \in Int, NEW x \in Int, NEW y \in Int,
         (u - w - (v - x)) % 4 = 0, (u - w - (v - y)) % 4 = 0
  PROVE  (x - y) % 4 = 0
<1>1. ((u - w - (v - x)) - (u - w - (v - y))) % 4 = 0
  BY ModDiff
<1>2. (u - w - (v - x)) - (u - w - (v - y)) = x - y
  OBVIOUS
<1> QED
  BY <1>1, <1>2

LEMMA SeqOfType ==
  ASSUME NEW i \in Nat PROVE SeqOf(i) \in 0 .. 7 /\ (i < 8 => SeqOf(i) = i)
BY DEF SeqOf

----------------------------------------------------------------------------
(* Initially. *)

LEMMA InitIInv == Init => IInv
<1> SUFFICES ASSUME Init PROVE IInv
  OBVIOUS
<1>1. TypeOK
  <2>1. publisher \in [Nodes -> Publisher]
    <3>1. [id : {0}, length : {0}, seq_num : {0}, msg_num : FirstNums,
           in_progress : {FALSE}] \subseteq Publisher
      <4> SUFFICES ASSUME NEW x \in [id : {0}, length : {0}, seq_num : {0},
                                     msg_num : FirstNums, in_progress : {FALSE}]
                   PROVE  x \in Publisher
        OBVIOUS
      <4>1. /\ x.id \in Nat /\ x.length \in 0 .. 31 /\ x.seq_num \in 0 .. 31
            /\ x.msg_num \in 0 .. MessageNums - 1
        <5>1. x.msg_num \in FirstNums /\ FirstNums \subseteq 0 .. 3
          BY TransportAssumption DEF TransportAssumption
        <5>2. x.msg_num \in 0 .. 3
          BY <5>1
        <5> QED
          BY <5>2
      <4>3. x.in_progress = FALSE
        OBVIOUS
      <4>4. x.in_progress \in BOOLEAN
        BY <4>3
      <4>2. x = [id |-> x.id, length |-> x.length, seq_num |-> x.seq_num,
                 msg_num |-> x.msg_num, in_progress |-> x.in_progress]
        OBVIOUS
      <4> QED
        BY <4>1, <4>2, <4>4 DEF Publisher
    <3> QED
      BY <3>1 DEF Init
  <2>2. tx \in [Nodes -> Seq(Packet)] /\ \A n \in Nodes : Len(tx[n]) <= 1
    BY DEF Init
  <2>3. DOMAIN slot = {} /\ delivered \in Seq(Construction)
    BY DEF Init
  <2>4. MaxLost \in Nat /\ MaxStrays \in Nat
    BY TransportAssumption DEF TransportAssumption
  <2>5. lost \in 0 .. MaxLost /\ strays \in 0 .. MaxStrays /\ owed \in Nat
    BY <2>4 DEF Init
  <2>6. halted \in BOOLEAN /\ past \subseteq Packet
    BY DEF Init
  <2> QED
    BY <2>1, <2>2, <2>3, <2>5, <2>6 DEF TypeOK
<1>2. PublishersOK /\ TxOK
  <2>1. \A n \in Nodes : publisher[n].in_progress = FALSE /\ publisher[n].length = 0
    BY DEF Init
  <2> QED
    BY <2>1 DEF Init, PublishersOK, TxOK
<1>3. SlotsOK /\ PastOK
  BY DEF Init, SlotsOK, PastOK
<1>4. DeliveredOK
  <2>1. Belated = {}
    BY DEF Init, Belated
  <2>2. DeliveredInOrder
    BY <2>1, FS_EmptySet DEF Init, DeliveredInOrder
  <2> QED
    BY <2>2 DEF Init, DeliveredOK, DeliveredWellFormed
<1> QED
  BY <1>1, <1>2, <1>3, <1>4 DEF IInv

----------------------------------------------------------------------------
(* The publisher makes a packet. *)

LEMMA BelatedFinite ==
  ASSUME delivered \in Seq(Construction)
  PROVE  IsFiniteSet(Belated) /\ Cardinality(Belated) \in Nat
<1>1. DOMAIN delivered = 1 .. Len(delivered) /\ Len(delivered) \in Int /\ 1 \in Int
  OBVIOUS
<1>2. IsFiniteSet(DOMAIN delivered)
  BY <1>1, FS_Interval
<1>3. Belated \in SUBSET DOMAIN delivered
  BY DEF Belated
<1> QED
  BY <1>2, <1>3, FS_Subset, FS_CardinalityType

LEMMA CountsAreNumbers ==
  ASSUME IInv
  PROVE  /\ lost \in Nat /\ strays \in Nat /\ owed \in Nat
         /\ MaxLost \in Nat /\ MaxStrays \in Nat
BY TransportAssumption DEF TransportAssumption, IInv, TypeOK

\* While nothing is delivered, only HasCome can change of what has been.
LEMMA SameDelivered ==
  ASSUME DeliveredOK, UNCHANGED delivered, strays \in Nat,
         strays' = strays \/ strays' = strays + 1,
         \A k \in DOMAIN delivered : HasCome(delivered[k].from_node, Completes(delivered[k]))'
  PROVE  DeliveredOK'
<1>1. DeliveredInOrder'
  <2>1. Belated' = Belated
    BY DEF Belated, Completes, SentBefore
  <2>2. IsFiniteSet(Belated) /\ Cardinality(Belated) \in Nat
    BY BelatedFinite DEF DeliveredOK
  <2> QED
    BY <2>1, <2>2 DEF DeliveredOK, DeliveredInOrder
<1>2. ShortMessages => DeliveredWellFormed'
  BY DEF DeliveredOK, DeliveredWellFormed, WellFormed
<1> QED
  BY <1>1, <1>2 DEF DeliveredOK

\* What is so of a message under construction, and of a packet, goes on to be so
\* while the numbers of the node's messages go on together.
LEMMA GoodStays ==
  ASSUME \A o \in Nodes, num \in 0 .. 3, x \in Nat :
           Congruent(o, num, x) => Congruent(o, num, x)',
         NEW m, Good(m)
  PROVE  Good(m)'
<1>1. m \in Construction /\ m.pieces \in Seq(Piece) /\ m.from_node \in Nodes
      /\ m.from_msg_num \in 0 .. 3
  BY DEF Good, Construction
<1>2. ASSUME NEW k \in 1 .. Len(m.pieces) PROVE GoodPiece(m, k)'
  <2>1. GoodPiece(m, k)
    BY DEF Good
  <2>2. m.pieces[k] \in Piece
    BY <1>1
  <2>3. m.pieces[k].id \in Nat
    BY <2>2 DEF Piece
  <2> QED
    BY <1>1, <2>1, <2>3 DEF GoodPiece
<1> QED
  BY <1>2 DEF Good

LEMMA ValidStays ==
  ASSUME \A o \in Nodes, num \in 0 .. 3, x \in Nat :
           Congruent(o, num, x) => Congruent(o, num, x)',
         NEW p, Valid(p)
  PROVE  Valid(p)'
<1>1. p.node \in Nodes /\ p.message_num \in 0 .. 3 /\ p.piece.id \in Nat
  BY DEF Valid, Packet, Piece
<1> QED
  BY <1>1 DEF Valid

\* A step that hands nothing over leaves the subscriber's part as it was.
LEMMA OthersStay ==
  ASSUME IInv, UNCHANGED <<slot, delivered, strays>>,
         \A o \in Nodes, num \in 0 .. 3, x \in Nat :
           Congruent(o, num, x) => Congruent(o, num, x)',
         \A o \in Nodes : \A c : HasCome(o, c) => HasCome(o, c)'
  PROVE  SlotsOK' /\ DeliveredOK' /\ \A p \in past : (Valid(p) /\ HasCome(p.node, p.piece))'
<1>1. SlotsOK'
  <2> SUFFICES ASSUME NEW i \in DOMAIN slot PROVE Good(slot[i])'
    BY DEF IInv, SlotsOK
  <2>1. PICK m : m = slot[i]
    OBVIOUS
  <2>2. Good(m)
    BY <2>1 DEF IInv, SlotsOK
  <2>3. Good(m)'
    BY <2>2, GoodStays
  <2> QED
    BY <2>1, <2>3
<1>2. DeliveredOK'
  <2>1. \A k \in DOMAIN delivered :
          HasCome(delivered[k].from_node, Completes(delivered[k]))'
    <3> SUFFICES ASSUME NEW k \in DOMAIN delivered
                 PROVE  HasCome(delivered[k].from_node, Completes(delivered[k]))'
      OBVIOUS
    <3>1. PICK o, c : o = delivered[k].from_node /\ c = Completes(delivered[k])
      OBVIOUS
    <3>2. HasCome(o, c) /\ o \in Nodes
      <4>1. delivered[k] \in Construction
        BY DEF IInv, DeliveredOK
      <4> QED
        BY <3>1, <4>1 DEF IInv, DeliveredOK, Construction
    <3>3. HasCome(o, c)'
      BY <3>2
    <3>4. o = delivered'[k].from_node /\ c = Completes(delivered'[k])
      BY <3>1
    <3> QED
      BY <3>3, <3>4 DEF Completes
  <2> QED
    BY <2>1, SameDelivered, CountsAreNumbers DEF IInv
<1>3. ASSUME NEW p \in past PROVE (Valid(p) /\ HasCome(p.node, p.piece))'
  <2>1. Valid(p) /\ HasCome(p.node, p.piece) /\ p.node \in Nodes
    BY DEF IInv, PastOK, Valid, Packet
  <2> QED
    BY <2>1, ValidStays
<1> QED
  BY <1>1, <1>2, <1>3

LEMMA SendIInv ==
  ASSUME IInv, NEW n \in Nodes, NEW length \in Lengths[n], Send(n, length)
  PROVE  IInv'
<1> DEFINE p == IF publisher[n].in_progress THEN publisher[n]
                ELSE NextMessage(publisher[n], length)
           q == NextPacket(n, p)
<1>1. /\ tx[n] = <<>>
      /\ tx' = [tx EXCEPT ![n] = <<q>>]
      /\ publisher' = [publisher EXCEPT ![n] =
           [p EXCEPT !.seq_num = @ + 1, !.in_progress = p.seq_num + 1 < Blocks(length)]]
      /\ publisher[n].in_progress => length = publisher[n].length
      /\ UNCHANGED <<slot, delivered, halted, past, lost, strays, owed>>
  BY DEF Send, ghosts
<1>2. length \in 0 .. 31 /\ (ShortMessages => length <= 8)
  BY TransportAssumption DEF TransportAssumption, ShortMessages
<1>3. publisher[n] \in Publisher /\ publisher \in [Nodes -> Publisher]
  BY DEF IInv, TypeOK
<1>4. /\ p \in Publisher /\ p.length = length /\ p.id > 0
      /\ p.seq_num < Blocks(length)
  <2>1. CASE publisher[n].in_progress
    BY <1>1, <1>3, <2>1 DEF IInv, PublishersOK
  <2>2. CASE ~publisher[n].in_progress
    BY <1>2, <1>3, <2>2 DEF NextMessage, Publisher, Blocks
  <2> QED
    BY <2>1, <2>2
<1>5. \A num \in 0 .. 3, x \in Nat :
        (publisher[n].msg_num - num - (publisher[n].id - x)) % 4 = 0
          => (p.msg_num - num - (p.id - x)) % 4 = 0
  <2>1. CASE publisher[n].in_progress
    BY <2>1
  <2>2. CASE ~publisher[n].in_progress
    <3>1. p.msg_num = (publisher[n].msg_num + 1) % 4 /\ p.id = publisher[n].id + 1
      BY <2>2 DEF NextMessage
    <3>2. publisher[n].msg_num \in Int /\ publisher[n].id \in Int
      BY <1>3 DEF Publisher
    <3> HIDE DEF p
    <3> QED
      BY <3>1, <3>2, NextIsCongruent
  <2> QED
    BY <2>1, <2>2
<1>6. \/ p.id = publisher[n].id /\ p.seq_num = publisher[n].seq_num
      \/ p.id = publisher[n].id + 1
  BY DEF NextMessage
<1> HIDE DEF p
<1>7. /\ p.seq_num \in 0 .. 30 /\ p.id \in Nat \ {0} /\ p.msg_num \in 0 .. 3
      /\ ShortMessages => p.seq_num < 8
  BY <1>2, <1>4 DEF Publisher, Blocks
<1>8. /\ publisher'[n] = [p EXCEPT !.seq_num = p.seq_num + 1,
                                   !.in_progress = p.seq_num + 1 < Blocks(length)]
      /\ \A m \in Nodes \ {n} : publisher'[m] = publisher[m]
  BY <1>1, <1>3
<1>9. /\ publisher'[n].id = p.id /\ publisher'[n].msg_num = p.msg_num
      /\ publisher'[n].length = length /\ publisher'[n].seq_num = p.seq_num + 1
      /\ publisher'[n].in_progress => p.seq_num + 1 < Blocks(length)
  BY <1>4, <1>8 DEF Publisher
<1>10. /\ tx'[n] = <<q>> /\ Len(tx'[n]) = 1 /\ tx'[n][1] = q
       /\ \A m \in Nodes \ {n} : tx'[m] = tx[m]
  BY <1>1 DEF IInv, TypeOK
<1>11. /\ q.node = n /\ q.message_num = p.msg_num
       /\ q.piece = [node |-> n, id |-> p.id, index |-> p.seq_num, stray |-> FALSE]
       /\ q.seq_num = SeqOf(p.seq_num)
       /\ q.seq_num = 7 => q.message_length = p.seq_num + 1
       /\ q.seq_num # 7 => q.message_length = p.length
       /\ q = [node |-> n, message_num |-> q.message_num, seq_num |-> q.seq_num,
               message_length |-> q.message_length, piece |-> q.piece]
  <2>1. SeqOf(p.seq_num) \in 0 .. 7
    BY <1>7, SeqOfType
  <2>2. SeqOf(p.seq_num) = p.seq_num % 8
    BY DEF SeqOf
  <2> QED
    BY <2>1, <2>2 DEF NextPacket
<1> HIDE DEF q
<1>12. TypeOK'
  <2>1. publisher' \in [Nodes -> Publisher]
    <3>1. [p EXCEPT !.seq_num = p.seq_num + 1, !.in_progress = p.seq_num + 1 < Blocks(length)]
            \in Publisher
      <4> DEFINE b == p.seq_num + 1 < Blocks(length)
      <4>1. b \in BOOLEAN /\ p.seq_num + 1 \in 0 .. 31
        BY <1>7
      <4> HIDE DEF b
      <4>2. [p EXCEPT !.seq_num = p.seq_num + 1, !.in_progress = b] \in Publisher
        BY <1>4, <4>1 DEF Publisher
      <4> QED
        BY <4>2 DEF b
    <3> QED
      BY <1>1, <1>3, <3>1
  <2>2. q.piece \in Piece
    <3>1. FALSE \in BOOLEAN
      OBVIOUS
    <3> QED
      BY <1>7, <1>11, <3>1 DEF Piece
  <2>3. q.seq_num \in 0 .. 7 /\ q.message_length \in 0 .. 32
    BY <1>2, <1>4, <1>7, <1>11, SeqOfType
  <2>4. q \in Packet
    <3>1. /\ q = [node |-> n, message_num |-> q.message_num, seq_num |-> q.seq_num,
                  message_length |-> q.message_length, piece |-> q.piece]
          /\ q.message_num \in 0 .. 3
      BY <1>7, <1>11
    <3> QED
      BY <2>2, <2>3, <3>1 DEF Packet
  <2>5. tx' \in [Nodes -> Seq(Packet)] /\ \A m \in Nodes : Len(tx'[m]) <= 1
    BY <1>1, <1>10, <2>4 DEF IInv, TypeOK
  <2> QED
    BY <1>1, <2>1, <2>5 DEF IInv, TypeOK
<1>13. PublishersOK'
  <2> SUFFICES ASSUME NEW m \in Nodes
               PROVE  /\ publisher'[m].in_progress =>
                           /\ publisher'[m].seq_num < Blocks(publisher'[m].length)
                           /\ publisher'[m].id > 0
                      /\ ShortMessages => publisher'[m].length <= SequenceNums
    BY DEF PublishersOK
  <2>1. CASE m = n
    BY <1>2, <1>7, <1>9, <2>1
  <2>2. CASE m # n
    BY <1>8, <2>2 DEF IInv, PublishersOK
  <2> QED
    BY <2>1, <2>2
<1>14. TxOK'
  <2> SUFFICES ASSUME NEW m \in Nodes, tx'[m] # <<>> PROVE Pending(m, tx[m][1])'
    BY DEF TxOK
  <2>1. CASE m = n
    <3>1. /\ q.piece.node = n /\ q.piece.id = p.id /\ q.piece.index = p.seq_num
          /\ q.piece.stray = FALSE
      BY <1>11
    <3>2. p.seq_num = publisher'[n].seq_num - 1
      <4>1. publisher'[n].seq_num = p.seq_num + 1
        BY <1>9
      <4>2. p.seq_num \in 0 .. 31
        BY <1>4 DEF Publisher
      <4> QED
        BY <4>1, <4>2, Subtract
    <3> QED
      BY <1>7, <1>9, <1>10, <1>11, <2>1, <3>1, <3>2 DEF Pending
  <2>2. CASE m # n
    BY <1>8, <1>10, <2>2 DEF IInv, TxOK, Pending
  <2> QED
    BY <2>1, <2>2
<1>15. ASSUME NEW o \in Nodes, NEW num \in 0 .. 3, NEW x \in Nat, Congruent(o, num, x)
       PROVE  Congruent(o, num, x)'
  <2>1. CASE o = n
    BY <1>5, <1>9, <1>15, <2>1 DEF Congruent
  <2>2. CASE o # n
    BY <1>8, <1>15, <2>2 DEF Congruent
  <2> QED
    BY <2>1, <2>2
<1>16. ASSUME NEW o \in Nodes, NEW c, HasCome(o, c) PROVE HasCome(o, c)'
  <2>1. CASE o = n
    <3>1. /\ c \in Piece
          /\ \/ c.id < publisher[n].id
             \/ c.id = publisher[n].id /\ c.index < publisher[n].seq_num
      <4>1. Len(tx[n]) = 0
        BY <1>1
      <4>2. publisher[n].seq_num \in Int
        BY <1>3 DEF Publisher
      <4> QED
        BY <1>16, <2>1, <4>1, <4>2 DEF HasCome
    <3>2. c.id < p.id \/ (c.id = p.id /\ c.index < p.seq_num)
      <4>1. publisher[n].id \in Nat /\ c.id \in Nat
        BY <1>3, <3>1 DEF Publisher, Piece
      <4>2. CASE c.id < publisher[n].id
        BY <1>6, <4>1, <4>2
      <4>3. CASE c.id = publisher[n].id /\ c.index < publisher[n].seq_num
        BY <1>6, <4>1, <4>3
      <4> QED
        BY <3>1, <4>2, <4>3
    <3>3. publisher'[n].seq_num - Len(tx'[n]) = p.seq_num
      BY <1>7, <1>9, <1>10
    <3> QED
      BY <1>9, <2>1, <3>1, <3>2, <3>3 DEF HasCome
  <2>2. CASE o # n
    BY <1>8, <1>10, <1>16, <2>2 DEF HasCome
  <2> QED
    BY <2>1, <2>2
<1>17. SlotsOK' /\ DeliveredOK' /\ PastOK'
  BY <1>1, <1>15, <1>16, OthersStay DEF PastOK
<1> QED
  BY <1>12, <1>13, <1>14, <1>17 DEF IInv

----------------------------------------------------------------------------
(* The bus and the subscriber. *)

LEMMA PendingIsValid ==
  ASSUME IInv, NEW n \in Nodes, tx[n] # <<>>
  PROVE  /\ tx[n][1] \in Packet /\ Pending(n, tx[n][1]) /\ Valid(tx[n][1])
         /\ Len(tx[n]) = 1 /\ publisher[n].seq_num \in Nat
<1>1. tx[n] \in Seq(Packet) /\ Len(tx[n]) <= 1 /\ publisher[n] \in Publisher
  BY DEF IInv, TypeOK
<1>2. Len(tx[n]) = 1
  BY <1>1, OneLong
<1>3. tx[n][1] \in Packet
  BY <1>1, <1>2
<1>4. Pending(n, tx[n][1])
  BY DEF IInv, TxOK
<1>5. Congruent(n, tx[n][1].message_num, tx[n][1].piece.id)
  <2>1. publisher[n].msg_num \in Int /\ publisher[n].id \in Int
    BY <1>1 DEF Publisher
  <2>2. publisher[n].msg_num - tx[n][1].message_num - (publisher[n].id - tx[n][1].piece.id) = 0
    BY <1>4, <2>1 DEF Pending
  <2> QED
    BY <2>2 DEF Congruent
<1>6. Valid(tx[n][1])
  BY <1>3, <1>4, <1>5 DEF Valid, Pending
<1>7. publisher[n].seq_num \in Nat
  <2>1. publisher[n].seq_num \in 0 .. 31
    BY <1>1 DEF Publisher
  <2> QED
    BY <2>1, IntervalNat
<1> QED
  BY <1>2, <1>3, <1>4, <1>6, <1>7

\* A packet has its turn, whatever becomes of it.
LEMMA HasTurn ==
  ASSUME IInv, NEW n \in Nodes, tx[n] # <<>>, tx' = [tx EXCEPT ![n] = <<>>],
         UNCHANGED publisher, past' = past \cup {tx[n][1]}
  PROVE  /\ PublishersOK' /\ TxOK' /\ past' \subseteq Packet
         /\ tx' \in [Nodes -> Seq(Packet)] /\ \A m \in Nodes : Len(tx'[m]) <= 1
         /\ \A o \in Nodes : \A c : HasCome(o, c) => HasCome(o, c)'
         /\ \A c : c = tx[n][1].piece => HasCome(n, c)'
         /\ \A c : HasCome(n, c) => SentBefore(c, tx[n][1].piece)
<1>1. /\ tx'[n] = <<>> /\ Len(tx'[n]) = 0 /\ \A k \in Nodes \ {n} : tx'[k] = tx[k]
      /\ tx' \in [Nodes -> Seq(Packet)] /\ \A k \in Nodes : Len(tx'[k]) <= 1
  BY DEF IInv, TypeOK
<1>2. PublishersOK' /\ TxOK'
  BY <1>1 DEF IInv, PublishersOK, TxOK, Pending
<1>3. PICK p : p = tx[n][1]
  OBVIOUS
<1>4. /\ p \in Packet /\ Pending(n, p) /\ Len(tx[n]) = 1 /\ publisher[n].seq_num \in Nat
  BY <1>3, PendingIsValid
<1>5. past' \subseteq Packet
  BY <1>3, <1>4 DEF IInv, TypeOK
<1>6. /\ p.piece \in Piece /\ p.piece.id = publisher[n].id
      /\ p.piece.index = publisher[n].seq_num - 1
  BY <1>4 DEF Pending, Packet
<1>7. ASSUME NEW k \in Nodes, NEW c, HasCome(k, c) PROVE HasCome(k, c)'
  <2>1. CASE k = n
    <3>1. c \in Piece
      BY <1>7 DEF HasCome
    <3>2. c.index \in 0 .. 31
      BY <3>1 DEF Piece
    <3>3. c.id < publisher[n].id
          \/ (c.id = publisher[n].id /\ c.index < publisher[n].seq_num - 1)
      BY <1>4, <1>7, <2>1 DEF HasCome
    <3>4. c.id < publisher[n].id
          \/ (c.id = publisher[n].id /\ c.index < publisher[n].seq_num - 0)
      <4>1. publisher[n].seq_num \in Nat
        BY <1>4
      <4> DEFINE a == publisher[n].seq_num
                 b == c.index
      <4>2. a \in Nat /\ b \in 0 .. 31
        BY <3>2, <4>1
      <4> HIDE DEF a, b
      <4>3. b < a - 1 => b < a - 0
        BY <4>2
      <4> QED
        BY <3>3, <4>3 DEF a, b
    <3> QED
      BY <1>1, <2>1, <3>1, <3>4 DEF HasCome
  <2>2. CASE k # n
    BY <1>1, <1>7, <2>2 DEF HasCome
  <2> QED
    BY <2>1, <2>2
<1>8. ASSUME NEW c, c = p.piece PROVE HasCome(n, c)'
  <2>1. publisher[n].seq_num - 1 < publisher[n].seq_num - 0
    BY <1>4
  <2>2. c \in Piece /\ c.id = publisher'[n].id /\ c.index < publisher'[n].seq_num - Len(tx'[n])
    BY <1>1, <1>6, <1>8, <2>1
  <2> QED
    BY <2>2 DEF HasCome
<1>9. ASSUME NEW c, HasCome(n, c) PROVE SentBefore(c, p.piece)
  BY <1>4, <1>6, <1>9 DEF HasCome, SentBefore
<1> QED
  BY <1>1, <1>2, <1>3, <1>5, <1>7, <1>8, <1>9

\* The packet joins those that have had their turn.
LEMMA PastStays ==
  ASSUME IInv, NEW n \in Nodes, tx[n] # <<>>, past' = past \cup {tx[n][1]},
         UNCHANGED publisher,
         \A o \in Nodes : \A c : HasCome(o, c) => HasCome(o, c)',
         \A c : c = tx[n][1].piece => HasCome(n, c)'
  PROVE  PastOK'
<1>1. \A o \in Nodes, num \in 0 .. 3, x \in Nat : Congruent(o, num, x) => Congruent(o, num, x)'
  BY DEF Congruent
<1> SUFFICES ASSUME NEW q \in past' PROVE Valid(q)' /\ HasCome(q.node, q.piece)'
  BY DEF PastOK
<1>2. CASE q \in past
  <2>1. Valid(q) /\ HasCome(q.node, q.piece) /\ q.node \in Nodes
    BY <1>2 DEF IInv, PastOK, Valid, Packet
  <2> QED
    BY <1>1, <2>1, ValidStays
<1>3. CASE q = tx[n][1]
  <2>1. Valid(q) /\ q.node = n
    BY <1>3, PendingIsValid DEF Pending
  <2>2. Valid(q)'
    BY <1>1, <2>1, ValidStays
  <2>3. PICK c : c = q.piece
    OBVIOUS
  <2>4. HasCome(n, c)'
    BY <1>3, <2>3
  <2> QED
    BY <2>1, <2>2, <2>3, <2>4
<1> QED
  BY <1>2, <1>3

\* A lost packet leaves the subscriber as it was.
LEMMA LoseIInv ==
  ASSUME IInv, NEW n \in Nodes, Lose(n) PROVE IInv'
<1>1. /\ tx[n] # <<>> /\ tx' = [tx EXCEPT ![n] = <<>>] /\ lost < MaxLost /\ lost' = lost + 1
      /\ past' = past \cup {tx[n][1]}
      /\ UNCHANGED <<publisher, slot, delivered, halted, strays, owed>>
  BY DEF Lose
<1>2. /\ PublishersOK' /\ TxOK' /\ past' \subseteq Packet
      /\ tx' \in [Nodes -> Seq(Packet)] /\ \A m \in Nodes : Len(tx'[m]) <= 1
      /\ \A o \in Nodes : \A c : HasCome(o, c) => HasCome(o, c)'
      /\ \A c : c = tx[n][1].piece => HasCome(n, c)'
  BY <1>1, HasTurn
<1>3. TypeOK'
  <2>1. lost' \in 0 .. MaxLost
    BY <1>1, CountsAreNumbers
  <2> QED
    BY <1>1, <1>2, <2>1 DEF IInv, TypeOK
<1>4. PastOK'
  BY <1>1, <1>2, PastStays
<1>5. \A o \in Nodes, num \in 0 .. 3, x \in Nat : Congruent(o, num, x) => Congruent(o, num, x)'
  BY <1>1 DEF Congruent
<1>6. SlotsOK' /\ DeliveredOK'
  BY <1>1, <1>2, <1>5, OthersStay
<1> QED
  BY <1>2, <1>3, <1>4, <1>6 DEF IInv

\* What a packet does to the slots: each is dropped, kept, or becomes m; and m
\* may be delivered, once it has all its packets.
Receives(m) ==
  /\ DOMAIN slot' \subseteq SlotIds
  /\ \A i \in DOMAIN slot' : slot'[i] = m \/ (i \in DOMAIN slot /\ slot'[i] = slot[i])
  /\ \/ delivered' = delivered
     \/ m.decode_index = m.size /\ delivered' = Append(delivered, m)

LEMMA FilledReceives ==
  ASSUME SlotsOK, NEW i \in SlotIds, NEW m, NEW S, Filled(Without(slot, S), i, m)
  PROVE  Receives(m)
<1>1. CASE m.decode_index = m.size
  BY <1>1 DEF Filled, Without, Receives, SlotsOK
<1>2. CASE m.decode_index # m.size
  <2> DEFINE W == Without(slot, S)
  <2>1. DOMAIN W \subseteq DOMAIN slot /\ \A j \in DOMAIN W : W[j] = slot[j]
    BY DEF Without
  <2>2. slot' = With(W, i, m) /\ delivered' = delivered
    BY <1>2 DEF Filled
  <2> HIDE DEF W
  <2>3. DOMAIN slot' = DOMAIN W \cup {i}
    BY <2>2 DEF With
  <2>4. \A j \in DOMAIN W \cup {i} : slot'[j] = m \/ (j \in DOMAIN W /\ slot'[j] = W[j])
    BY <2>2 DEF With
  <2> QED
    BY <2>1, <2>2, <2>3, <2>4 DEF Receives, SlotsOK
<1> QED
  BY <1>1, <1>2

\* A message that takes up a packet.
TakesUp(m, p) == Good(m) /\ m.from_node = p.node /\ Completes(m) = p.piece

LEMMA BeginIsGood ==
  ASSUME NEW p, Valid(p), p.seq_num = 0 PROVE TakesUp(Begin(p), p)
<1> DEFINE m == Begin(p)
<1>1. /\ m.from_node = p.node /\ m.from_msg_num = p.message_num /\ m.size = p.message_length
      /\ m.decode_index = 1 /\ m.pieces = <<p.piece>>
      /\ Len(m.pieces) = 1 /\ m.pieces[1] = p.piece /\ p.piece \in Piece
  BY DEF Begin, Valid, Packet
<1>2. m \in Construction
  BY DEF Begin, Construction, Packet, Valid
<1>3. GoodPiece(m, 1)
  <2>1. Congruent(p.node, p.message_num, p.piece.id)
    BY DEF Valid
  <2>2. SeqOf(p.piece.index) = 0 /\ p.piece.node = p.node
    BY DEF Valid
  <2>3. ShortMessages => p.piece.index < 8
    BY DEF Valid
  <2> HIDE DEF m
  <2> QED
    BY <1>1, <2>1, <2>2, <2>3 DEF GoodPiece
<1> HIDE DEF m
<1>4. Good(m)
  BY <1>1, <1>2, <1>3 DEF Good
<1>5. m.from_node = p.node /\ Completes(m) = p.piece
  BY <1>1 DEF Completes
<1> QED
  BY <1>4, <1>5 DEF TakesUp, m

LEMMA ExtendIsGood ==
  ASSUME NEW p, Valid(p), p.seq_num # 0, NEW i \in DOMAIN slot, Good(slot[i]), Expects(i, p)
  PROVE  TakesUp(Extend(slot[i], p), p)
<1> DEFINE s == slot[i]
           m == Extend(s, p)
           d == s.decode_index
<1>1. /\ s.from_node = p.node /\ s.from_msg_num = p.message_num /\ d = SeqNum(p)
      /\ s \in Construction /\ Len(s.pieces) = d /\ d < 8
      /\ s.pieces \in Seq(Piece) /\ d \in Nat /\ d >= 1
      /\ \A k \in 1 .. d : GoodPiece(s, k)
  <2>1. s.from_node = p.node /\ s.from_msg_num = p.message_num /\ d = SeqNum(p)
    BY DEF Expects
  <2>2. /\ s \in Construction /\ Len(s.pieces) = d /\ d < 8
        /\ \A k \in 1 .. Len(s.pieces) : GoodPiece(s, k)
    BY DEF Good
  <2> HIDE DEF s
  <2>3. s.pieces \in Seq(Piece) /\ d \in 1 .. 32
    BY <2>2 DEF Construction
  <2>4. d \in Nat /\ d >= 1
    BY <2>3, Positive
  <2>5. \A k \in 1 .. d : GoodPiece(s, k)
    BY <2>2
  <2> HIDE DEF d
  <2> QED
    BY <2>1, <2>2, <2>3, <2>4, <2>5
<1>2. p.piece \in Piece /\ p.piece.index \in Nat /\ p.piece.node = p.node
  BY DEF Packet, Piece, Valid
<1>3. SeqOf(p.piece.index) = d /\ d < 7
  <2>1. p.seq_num = SeqOf(p.piece.index) /\ SeqOf(p.piece.index) = p.piece.index % 8
    BY DEF Valid, SeqOf
  <2>2. CASE p.seq_num = 7
    <3>1. d = p.piece.index + 1
      BY <1>1, <2>2 DEF SeqNum, Valid
    <3> QED
      BY <1>1, <1>2, <2>1, <2>2, <3>1
  <2>3. CASE p.seq_num # 7
    <3>1. d = p.seq_num
      BY <1>1, <2>3 DEF SeqNum
    <3>2. p.piece.index % 8 \in 0 .. 7
      BY <1>2
    <3> QED
      BY <2>1, <2>3, <3>1, <3>2
  <2> QED
    BY <2>2, <2>3
<1>4. /\ m = [s EXCEPT !.decode_index = d + 1, !.pieces = Append(s.pieces, p.piece)]
      /\ m \in Construction
      /\ m.from_node = p.node /\ m.from_msg_num = p.message_num /\ m.decode_index = d + 1
      /\ m.pieces = Append(s.pieces, p.piece)
  <2> HIDE DEF s, d
  <2>1. m = [s EXCEPT !.decode_index = d + 1, !.pieces = Append(s.pieces, p.piece)]
    BY DEF Extend, d
  <2>2. d + 1 \in 1 .. 32
    <3>1. d \in Nat /\ d < 8
      BY <1>1
    <3> QED
      BY <3>1
  <2>3. Append(s.pieces, p.piece) \in Seq(Piece)
    BY <1>1, <1>2
  <2> HIDE DEF m
  <2> QED
    BY <1>1, <2>1, <2>2, <2>3 DEF Construction
<1> HIDE DEF m, s, d
<1>5. /\ Len(m.pieces) = d + 1 /\ m.pieces[d + 1] = p.piece
      /\ \A k \in 1 .. d : m.pieces[k] = s.pieces[k]
  BY <1>1, <1>2, <1>4
<1>6. ASSUME NEW k \in 1 .. d + 1 PROVE GoodPiece(m, k)
  <2>1. CASE k = d + 1
    <3>1. Congruent(p.node, p.message_num, p.piece.id)
      BY DEF Valid
    <3>2. ShortMessages => p.piece.index < 8
      BY DEF Valid
    <3> QED
      BY <1>1, <1>2, <1>3, <1>4, <1>5, <2>1, <3>1, <3>2 DEF GoodPiece
  <2>2. CASE k # d + 1
    <3>1. k \in 1 .. d
      BY <1>1, <2>2
    <3> QED
      BY <1>1, <1>4, <1>5, <3>1 DEF GoodPiece
  <2> QED
    BY <2>1, <2>2
<1>7. Good(m)
  BY <1>1, <1>3, <1>4, <1>5, <1>6 DEF Good
<1>8. m.from_node = p.node /\ Completes(m) = p.piece
  BY <1>1, <1>4, <1>5 DEF Completes
<1> QED
  BY <1>7, <1>8 DEF TakesUp, m, s

\* Whatever packet is delivered, some message has taken it up if any changes.
LEMMA ReceiveReceives ==
  ASSUME IInv, NEW p, Valid(p), ReceiveMessage(p)
  PROVE  \/ UNCHANGED delivered /\ DOMAIN slot' \subseteq DOMAIN slot
            /\ \A i \in DOMAIN slot' : slot'[i] = slot[i]
         \/ \E m : TakesUp(m, p) /\ Receives(m)
<1> USE DEF IInv
<1>2. CASE p.seq_num = 0
  <2>1. CASE \E i \in SlotIds \ DOMAIN slot : Filled(slot, i, Begin(p))
    <3>1. PICK i \in SlotIds \ DOMAIN slot : Filled(slot, i, Begin(p))
      BY <2>1
    <3>2. Receives(Begin(p))
      <4>1. CASE Begin(p).decode_index = Begin(p).size
        BY <3>1, <4>1 DEF Filled, Without, Receives, SlotsOK
      <4>2. CASE Begin(p).decode_index # Begin(p).size
        <5>1. slot' = With(slot, i, Begin(p)) /\ delivered' = delivered
          BY <3>1, <4>2 DEF Filled
        <5>2. /\ DOMAIN slot' = DOMAIN slot \cup {i}
              /\ \A j \in DOMAIN slot' : slot'[j] = Begin(p)
                                         \/ (j \in DOMAIN slot /\ slot'[j] = slot[j])
          BY <5>1 DEF With
        <5> QED
          BY <5>1, <5>2 DEF Receives, SlotsOK
      <4> QED
        BY <4>1, <4>2
    <3> QED
      BY <1>2, <3>2, BeginIsGood
  <2>2. CASE UNCHANGED <<slot, delivered>>
    BY <2>2
  <2> QED
    BY <1>2, <2>1, <2>2 DEF ReceiveMessage, ReceiveFirst
<1>3. CASE p.seq_num # 0
  <2> DEFINE ofNode == {i \in DOMAIN slot : slot[i].from_node = p.node}
             fitting == {i \in ofNode : Expects(i, p)}
  <2>1. CASE \E i \in fitting :
               Filled(Without(slot, {j \in ofNode : j < i}), i, Extend(slot[i], p))
    <3>1. PICK i \in fitting :
            Filled(Without(slot, {j \in ofNode : j < i}), i, Extend(slot[i], p))
      BY <2>1
    <3>2. i \in DOMAIN slot /\ i \in SlotIds /\ Good(slot[i]) /\ Expects(i, p)
      BY DEF SlotsOK
    <3>3. Receives(Extend(slot[i], p))
      BY <3>1, <3>2, FilledReceives
    <3>4. TakesUp(Extend(slot[i], p), p)
      BY <1>3, <3>2, ExtendIsGood
    <3> QED
      BY <3>3, <3>4
  <2>2. CASE slot' = Without(slot, ofNode) /\ UNCHANGED delivered
    BY <2>2 DEF Without
  <2> QED
    BY <1>3, <2>1, <2>2 DEF ReceiveMessage, ReceiveNext
<1> QED
  BY <1>2, <1>3

\* One more in a set.
LEMMA OneMore ==
  ASSUME NEW S, IsFiniteSet(S), NEW T, NEW x, T \subseteq S \cup {x}
  PROVE  Cardinality(T) <= Cardinality(S) + 1 /\ IsFiniteSet(T)
<1>1. IsFiniteSet(S \cup {x}) /\ Cardinality(S \cup {x}) <= Cardinality(S) + 1
  <2>1. Cardinality(S) \in Nat
    BY FS_CardinalityType
  <2> QED
    BY <2>1, FS_AddElement
<1>2. IsFiniteSet(T) /\ Cardinality(T) <= Cardinality(S \cup {x})
  BY <1>1, FS_Subset
<1>3. Cardinality(S) \in Nat /\ Cardinality(T) \in Nat /\ Cardinality(S \cup {x}) \in Nat
  BY <1>1, <1>2, FS_CardinalityType
<1> QED
  BY <1>1, <1>2, <1>3

\* One more message in the queue is at most one more that comes late, and none
\* if it is later than all those of its node.
LEMMA OneDelivered ==
  ASSUME delivered \in Seq(Construction), NEW m \in Construction,
         delivered' = Append(delivered, m), DeliveredInOrder, strays \in Nat,
         \/ strays' = strays + 1
         \/ /\ strays' = strays
            /\ \A j \in DOMAIN delivered : delivered[j].from_node = m.from_node =>
                 SentBefore(Completes(delivered[j]), Completes(m))
  PROVE  DeliveredInOrder'
<1> DEFINE last == Len(delivered) + 1
           B == {k \in DOMAIN delivered' : \E j \in 1 .. k - 1 :
                   /\ delivered'[j].from_node = delivered'[k].from_node
                   /\ ~SentBefore(Completes(delivered'[j]), Completes(delivered'[k]))}
<1>1. /\ DOMAIN delivered' = DOMAIN delivered \cup {last}
      /\ DOMAIN delivered = 1 .. Len(delivered) /\ Len(delivered) \in Nat
      /\ \A k \in DOMAIN delivered : delivered'[k] = delivered[k]
      /\ delivered'[last] = m
  OBVIOUS
<1>2. Belated' = B
  BY DEF Belated, Completes, SentBefore
<1> HIDE DEF last
<1>3. ASSUME NEW k \in B, k # last PROVE k \in Belated
  <2>1. k \in DOMAIN delivered /\ \A j \in 1 .. k - 1 : j \in DOMAIN delivered
    BY <1>1, <1>3
  <2> QED
    BY <1>1, <1>3, <2>1 DEF Belated
<1>4. CASE strays' = strays + 1
  <2>1. B \subseteq Belated \cup {last}
    BY <1>3
  <2> HIDE DEF B
  <2>2. IsFiniteSet(Belated) /\ Cardinality(Belated) \in Nat
    BY BelatedFinite
  <2>3. Cardinality(B) <= Cardinality(Belated) + 1 /\ IsFiniteSet(B)
    BY <2>1, <2>2, OneMore
  <2>4. Cardinality(B) \in Nat
    BY <2>3, FS_CardinalityType
  <2> QED
    BY <1>2, <1>4, <2>2, <2>3, <2>4 DEF DeliveredInOrder
<1>5. CASE /\ strays' = strays
           /\ \A j \in DOMAIN delivered : delivered[j].from_node = m.from_node =>
                SentBefore(Completes(delivered[j]), Completes(m))
  <2>1. last \notin B
    <3>1. \A j \in 1 .. last - 1 : j \in DOMAIN delivered
      BY <1>1 DEF last
    <3> QED
      BY <1>1, <1>5, <3>1
  <2>2. B \subseteq Belated
    BY <1>3, <2>1
  <2> HIDE DEF B
  <2>3. IsFiniteSet(Belated) /\ Cardinality(Belated) \in Nat
    BY BelatedFinite
  <2>4. Cardinality(B) <= Cardinality(Belated) /\ Cardinality(B) \in Nat
    BY <2>2, <2>3, FS_Subset, FS_CardinalityType
  <2> QED
    BY <1>2, <1>5, <2>3, <2>4 DEF DeliveredInOrder
<1> QED
  BY <1>4, <1>5

\* A packet handed over, in its turn or not: a message that has all its packets
\* is whole; and if the packet is later than all that came before of its node,
\* so is the message.
LEMMA ReceiveKeeps ==
  ASSUME IInv, NEW p, Valid(p), ReceiveMessage(p), UNCHANGED publisher,
         \A o \in Nodes : \A c : HasCome(o, c) => HasCome(o, c)',
         \A c : c = p.piece => HasCome(p.node, c)',
         \/ strays' = strays + 1
         \/ strays' = strays /\ \A c : HasCome(p.node, c) => SentBefore(c, p.piece)
  PROVE  /\ SlotsOK' /\ DeliveredOK' /\ halted' \in BOOLEAN
         /\ DOMAIN slot' \subseteq SlotIds /\ \A i \in DOMAIN slot' : slot'[i] \in Construction
         /\ delivered' \in Seq(Construction)
<1>1. halted' \in BOOLEAN
  BY DEF ReceiveMessage, ReceiveFirst, ReceiveNext, IInv, TypeOK
<1>2. \/ UNCHANGED delivered /\ DOMAIN slot' \subseteq DOMAIN slot
         /\ \A i \in DOMAIN slot' : slot'[i] = slot[i]
      \/ \E m : TakesUp(m, p) /\ Receives(m)
  BY ReceiveReceives
<1>3. \A m : Good(m) => Good(m)'
  BY GoodStays DEF Congruent
<1>4. SlotsOK'
  <2>1. CASE /\ UNCHANGED delivered /\ DOMAIN slot' \subseteq DOMAIN slot
             /\ \A i \in DOMAIN slot' : slot'[i] = slot[i]
    BY <1>3, <2>1 DEF IInv, SlotsOK
  <2>2. ASSUME NEW m, TakesUp(m, p), Receives(m) PROVE SlotsOK'
    BY <1>3, <2>2 DEF IInv, SlotsOK, TakesUp, Receives
  <2> QED
    BY <1>2, <2>1, <2>2
<1>5. ASSUME NEW m, TakesUp(m, p), m.decode_index = m.size, ShortMessages
       PROVE  WellFormed(m)
  <2>1. /\ m \in Construction /\ Len(m.pieces) = m.decode_index
        /\ \A k \in 1 .. Len(m.pieces) : GoodPiece(m, k)
    BY <1>5 DEF TakesUp, Good
  <2>2. m.pieces \in Seq(Piece) /\ Len(m.pieces) >= 1 /\ m.from_node \in Nodes
    <3>1. m.pieces \in Seq(Piece) /\ m.decode_index \in 1 .. 32 /\ m.from_node \in Nodes
      BY <2>1 DEF Construction
    <3> QED
      BY <2>1, <3>1, Positive
  <2>3. 1 \in 1 .. Len(m.pieces)
    BY <2>2
  <2>4. ASSUME NEW k \in 1 .. Len(m.pieces)
        PROVE  /\ m.pieces[k].node = m.pieces[1].node
               /\ m.pieces[k].index = k - 1
               /\ (m.pieces[k].id - m.pieces[1].id) % MessageNums = 0
    <3>1. GoodPiece(m, k) /\ GoodPiece(m, 1)
      BY <2>1, <2>3
    <3>2. m.pieces[k] \in Piece /\ m.pieces[1] \in Piece
      BY <2>2, <2>3
    <3>3. m.pieces[k].index = k - 1
      <4>1. m.pieces[k].index \in 0 .. 31
        BY <3>2 DEF Piece
      <4>3. m.pieces[k].index \in Nat
        BY <4>1, IntervalNat
      <4>2. m.pieces[k].index < 8
        BY <1>5, <3>1 DEF GoodPiece
      <4> QED
        BY <3>1, <4>2, <4>3, SeqOfType DEF GoodPiece
    <3>4. (m.pieces[k].id - m.pieces[1].id) % 4 = 0
      <4> DEFINE u == publisher[m.from_node].msg_num
                 v == publisher[m.from_node].id
                 w == m.from_msg_num
                 x == m.pieces[k].id
                 y == m.pieces[1].id
      <4>1. u \in Int /\ v \in Int
        <5>1. publisher[m.from_node] \in Publisher
          BY <2>2 DEF IInv, TypeOK
        <5> QED
          BY <5>1 DEF Publisher
      <4>2. w \in Int
        BY <2>1 DEF Construction
      <4>3. x \in Int /\ y \in Int
        BY <3>2 DEF Piece
      <4>4. (u - w - (v - x)) % 4 = 0 /\ (u - w - (v - y)) % 4 = 0
        BY <3>1 DEF GoodPiece, Congruent
      <4> HIDE DEF u, v, w, x, y
      <4>5. (x - y) % 4 = 0
        BY <4>1, <4>2, <4>3, <4>4, CongruentToEachOther
      <4> QED
        BY <4>5 DEF x, y
    <3> QED
      BY <3>1, <3>3, <3>4 DEF GoodPiece
  <2> QED
    BY <1>5, <2>1, <2>4 DEF WellFormed
<1>6. \A k \in DOMAIN delivered :
        /\ HasCome(delivered[k].from_node, Completes(delivered[k]))
        /\ delivered[k].from_node \in Nodes
  <2> SUFFICES ASSUME NEW k \in DOMAIN delivered
               PROVE  /\ HasCome(delivered[k].from_node, Completes(delivered[k]))
                      /\ delivered[k].from_node \in Nodes
    OBVIOUS
  <2>1. delivered[k] \in Construction
    BY DEF IInv, DeliveredOK
  <2> QED
    BY <2>1 DEF IInv, DeliveredOK, Construction
<1>7. DeliveredOK'
  <2>1. CASE UNCHANGED delivered
    <3>1. \A k \in DOMAIN delivered :
            HasCome(delivered[k].from_node, Completes(delivered[k]))'
      <4> SUFFICES ASSUME NEW k \in DOMAIN delivered
                   PROVE  HasCome(delivered[k].from_node, Completes(delivered[k]))'
        OBVIOUS
      <4>1. PICK o, c : o = delivered[k].from_node /\ c = Completes(delivered[k])
        OBVIOUS
      <4>2. HasCome(o, c)'
        BY <1>6, <4>1
      <4>3. o = delivered'[k].from_node /\ c = Completes(delivered'[k])
        BY <2>1, <4>1
      <4> QED
        BY <4>2, <4>3 DEF Completes
    <3> QED
      BY <2>1, <3>1, SameDelivered, CountsAreNumbers DEF IInv
  <2>2. ASSUME NEW m, TakesUp(m, p), m.decode_index = m.size,
               delivered' = Append(delivered, m)
        PROVE  DeliveredOK'
    <3>1. /\ m \in Construction /\ m.from_node = p.node /\ Completes(m) = p.piece
      BY <2>2 DEF TakesUp, Good
    <3>2. /\ delivered \in Seq(Construction) /\ delivered' \in Seq(Construction)
          /\ DOMAIN delivered' = 1 .. Len(delivered) + 1
          /\ DOMAIN delivered = 1 .. Len(delivered) /\ Len(delivered) \in Nat
          /\ \A k \in DOMAIN delivered : delivered'[k] = delivered[k]
          /\ delivered'[Len(delivered) + 1] = m
      BY <2>2, <3>1 DEF IInv, DeliveredOK
    <3>3. ASSUME NEW k \in DOMAIN delivered'
          PROVE  HasCome(delivered[k].from_node, Completes(delivered[k]))'
      <4> SUFFICES ASSUME NEW o, NEW c, o = delivered'[k].from_node,
                          c = Completes(delivered'[k])
                   PROVE  HasCome(o, c)'
        BY DEF Completes
      <4>1. CASE k \in DOMAIN delivered
        <5>1. delivered'[k] = delivered[k]
          BY <3>2, <4>1
        <5>2. HasCome(o, c) /\ o \in Nodes
          BY <1>6, <4>1, <5>1
        <5> QED
          BY <5>2
      <4>2. CASE k = Len(delivered) + 1
        <5>1. o = p.node /\ c = p.piece
          BY <3>1, <3>2, <4>2
        <5> QED
          BY <5>1
      <4> QED
        BY <3>2, <4>1, <4>2
    <3>4. DeliveredInOrder'
      <4>1. \/ strays' = strays + 1
            \/ /\ strays' = strays
               /\ \A j \in DOMAIN delivered : delivered[j].from_node = m.from_node =>
                    SentBefore(Completes(delivered[j]), Completes(m))
        BY <1>6, <3>1
      <4>2. DeliveredInOrder /\ strays \in Nat
        BY CountsAreNumbers DEF IInv, DeliveredOK
      <4> QED
        BY <2>2, <3>1, <3>2, <4>1, <4>2, OneDelivered
    <3>5. ASSUME ShortMessages, NEW k \in DOMAIN delivered' PROVE WellFormed(delivered'[k])
      <4>1. CASE k \in DOMAIN delivered
        BY <3>2, <3>5, <4>1 DEF IInv, DeliveredOK, DeliveredWellFormed
      <4>2. CASE k = Len(delivered) + 1
        BY <1>5, <2>2, <3>2, <3>5, <4>2
      <4> QED
        BY <3>2, <4>1, <4>2
    <3>6. ShortMessages => DeliveredWellFormed'
      BY <3>5 DEF DeliveredWellFormed, WellFormed
    <3> QED
      BY <3>2, <3>3, <3>4, <3>6 DEF DeliveredOK
  <2> QED
    BY <1>2, <2>1, <2>2 DEF Receives
<1>8. DOMAIN slot' \subseteq SlotIds /\ \A i \in DOMAIN slot' : slot'[i] \in Construction
  BY <1>4 DEF SlotsOK, Good
<1>9. delivered' \in Seq(Construction)
  BY <1>7 DEF DeliveredOK
<1> QED
  BY <1>1, <1>4, <1>7, <1>8, <1>9

\* What a slot may still take is never less than nothing.
LEMMA PromisedIsNat == ASSUME NEW p \in Packet PROVE Promised(p) \in Nat
<1>1. p.message_length \in 0 .. 32 /\ Begin(p).size = p.message_length
      /\ Begin(p).decode_index = 1
  BY DEF Packet, Begin
<1> QED
  BY <1>1 DEF Promised, Room

LEMMA DeliverIInv ==
  ASSUME IInv, NEW n \in Nodes, Deliver(n) PROVE IInv'
<1>1. PICK p : p = tx[n][1]
  OBVIOUS
<1>2. /\ tx[n] # <<>> /\ ReceiveMessage(p)
      /\ tx' = [tx EXCEPT ![n] = <<>>]
      /\ past' = past \cup {tx[n][1]} /\ owed' = owed + Promised(p)
      /\ UNCHANGED <<publisher, lost, strays>>
  BY <1>1 DEF Deliver
<1>3. Valid(p) /\ p \in Packet /\ p.node = n
  BY <1>1, <1>2, PendingIsValid DEF Pending
<1>4. /\ PublishersOK' /\ TxOK' /\ past' \subseteq Packet
      /\ tx' \in [Nodes -> Seq(Packet)] /\ \A m \in Nodes : Len(tx'[m]) <= 1
      /\ \A o \in Nodes : \A c : HasCome(o, c) => HasCome(o, c)'
      /\ \A c : c = tx[n][1].piece => HasCome(n, c)'
      /\ \A c : HasCome(n, c) => SentBefore(c, tx[n][1].piece)
  BY <1>2, HasTurn
<1>5. PastOK'
  BY <1>2, <1>4, PastStays
<1>6. \A c : c = p.piece => HasCome(p.node, c)'
  BY <1>1, <1>3, <1>4
<1>7. /\ SlotsOK' /\ DeliveredOK' /\ halted' \in BOOLEAN
      /\ DOMAIN slot' \subseteq SlotIds /\ \A i \in DOMAIN slot' : slot'[i] \in Construction
      /\ delivered' \in Seq(Construction)
  <2>1. strays' = strays /\ \A c : HasCome(p.node, c) => SentBefore(c, p.piece)
    BY <1>1, <1>2, <1>3, <1>4
  <2> QED
    BY <1>2, <1>3, <1>4, <1>6, <2>1, ReceiveKeeps
<1>8. TypeOK'
  <2>1. owed' \in Nat
    BY <1>2, <1>3, PromisedIsNat, CountsAreNumbers
  <2> QED
    BY <1>2, <1>4, <1>7, <2>1 DEF IInv, TypeOK
<1> QED
  BY <1>4, <1>5, <1>7, <1>8 DEF IInv

\* A packet out of turn is as valid as it was in its turn.
LEMMA StrayIsValid ==
  ASSUME IInv, NEW p \in past
  PROVE  LET q == AsStray(p)
         IN  /\ Valid(p) /\ Valid(q) /\ q \in Packet /\ q.node = p.node /\ q.node \in Nodes
             /\ q.seq_num = p.seq_num
             /\ q.message_num = p.message_num /\ q.message_length = p.message_length
             /\ q.piece.id = p.piece.id /\ q.piece.index = p.piece.index
             /\ q.piece.stray = TRUE /\ HasCome(q.node, q.piece)
<1> DEFINE q == AsStray(p)
<1>1. Valid(p) /\ HasCome(p.node, p.piece) /\ p \in Packet /\ p.piece \in Piece
  BY DEF IInv, PastOK, Valid, Packet
<1>2. q.piece = [p.piece EXCEPT !.stray = TRUE]
  BY <1>1 DEF AsStray, Packet
<1>3. /\ q.piece \in Piece /\ q.piece.node = p.piece.node /\ q.piece.id = p.piece.id
      /\ q.piece.index = p.piece.index /\ q.piece.stray = TRUE
  BY <1>1, <1>2 DEF Piece
<1>4. /\ q = [p EXCEPT !.piece = q.piece]
  BY <1>1, <1>2 DEF AsStray, Packet
<1> HIDE DEF q
<1>5. /\ q \in Packet /\ q.node = p.node /\ q.seq_num = p.seq_num
      /\ q.message_num = p.message_num /\ q.message_length = p.message_length
  BY <1>1, <1>3, <1>4 DEF Packet
<1>6. Valid(q) /\ HasCome(q.node, q.piece)
  BY <1>1, <1>3, <1>5 DEF Valid, HasCome
<1>7. q.node \in Nodes
  BY <1>5 DEF Packet
<1> QED
  BY <1>1, <1>3, <1>5, <1>6, <1>7 DEF q

LEMMA StrayIInv ==
  ASSUME IInv, NEW p \in past, Stray(p) PROVE IInv'
<1>1. PICK q : q = AsStray(p)
  OBVIOUS
<1>2. /\ ReceiveMessage(q) /\ strays < MaxStrays /\ strays' = strays + 1
      /\ owed' = owed + Promised(q)
      /\ UNCHANGED <<publisher, tx, past, lost>>
  BY <1>1 DEF Stray
<1>3. Valid(q) /\ q \in Packet /\ HasCome(q.node, q.piece)
  BY <1>1, StrayIsValid
<1>4. PublishersOK' /\ TxOK'
  BY <1>2 DEF IInv, PublishersOK, TxOK, Pending
<1>5. \A o \in Nodes : \A c : HasCome(o, c) => HasCome(o, c)'
  BY <1>2 DEF HasCome
<1>6. \A c : c = q.piece => HasCome(q.node, c)'
  BY <1>2, <1>3 DEF HasCome
<1>7. /\ SlotsOK' /\ DeliveredOK' /\ halted' \in BOOLEAN
      /\ DOMAIN slot' \subseteq SlotIds /\ \A i \in DOMAIN slot' : slot'[i] \in Construction
      /\ delivered' \in Seq(Construction)
  BY <1>2, <1>3, <1>5, <1>6, ReceiveKeeps
<1>8. TypeOK'
  <2>1. owed' \in Nat /\ strays' \in 0 .. MaxStrays
    BY <1>2, <1>3, PromisedIsNat, CountsAreNumbers
  <2> QED
    BY <1>2, <1>7, <2>1 DEF IInv, TypeOK
<1>9. PastOK'
  BY <1>2 DEF IInv, PastOK, Valid, Congruent, HasCome
<1> QED
  BY <1>4, <1>7, <1>8, <1>9 DEF IInv

----------------------------------------------------------------------------
(* The invariant, and what follows of it. *)

LEMMA StutterIInv == ASSUME IInv, UNCHANGED vars PROVE IInv'
<1> USE DEF IInv, vars
<1>1. TypeOK'
  BY DEF TypeOK, ghosts
<1>2. PublishersOK' /\ TxOK'
  BY DEF PublishersOK, TxOK, Pending
<1>3. /\ \A o \in Nodes, num \in 0 .. 3, x \in Nat : Congruent(o, num, x) => Congruent(o, num, x)'
      /\ \A o \in Nodes : \A c : HasCome(o, c) => HasCome(o, c)'
      /\ past' = past
  BY DEF Congruent, HasCome
<1>4. SlotsOK' /\ DeliveredOK' /\ PastOK'
  BY <1>3, OthersStay DEF PastOK, ghosts
<1> QED
  BY <1>1, <1>2, <1>4

LEMMA Invariance == Spec => []IInv
<1>1. IInv /\ [Next]_vars => IInv'
  BY SendIInv, LoseIInv, DeliverIInv, StrayIInv, StutterIInv DEF Next
<1> QED
  BY <1>1, InitIInv, PTL DEF Spec

\* Every field of the packets and constructions stays within its width: the
\* publisher's counters, the packets' headers and the decode index.
THEOREM Typing == Spec => []TypeOK
<1>1. IInv => TypeOK
  BY DEF IInv
<1> QED
  BY <1>1, Invariance, PTL

\* Whatever is lost, however the bus arbitrates and whatever is handed over out
\* of turn: the subscriber's queue holds a node's messages once each and in the
\* order their last packets were sent, but for one message for each packet out
\* of turn.
THEOREM InOrder == Spec => []DeliveredInOrder
<1>1. IInv => DeliveredInOrder
  BY DEF IInv, DeliveredOK
<1> QED
  BY <1>1, Invariance, PTL

\* Whatever is lost or out of turn, a message of at most eight packets that is delivered is
\* whole: its packets are of one node, in sequence, as many as announced.
THEOREM WellFormedness == ASSUME ShortMessages PROVE Spec => []DeliveredWellFormed
<1>1. IInv => DeliveredWellFormed
  BY DEF IInv, DeliveredOK
<1> QED
  BY <1>1, Invariance, PTL

----------------------------------------------------------------------------
(* The subscriber's slots, accounted for.  A slot waits for the packets its *)
(* message has still to get.  Those that its node's current message will    *)
(* bring need no explanation if the slot was begun by that message, in its  *)
(* turn; every other is missed: a lost packet accounts for it, or a packet  *)
(* that began a message and announced nothing.                              *)

\* The packets of a publisher's current message.
Parts(q) == IF q.id = 0 THEN 0 ELSE Blocks(q.length)

\* The packet a node's current message goes on with: those before it have
\* reached the subscriber or were lost.
Handled(n) == publisher[n].seq_num - Len(tx[n])

\* The message in s is the current one of publisher q.
Own(s, q) == s.pieces[1].id = q.id /\ ~s.pieces[1].stray /\ s.size # 0

\* The packets the message in s may take.
End(s) == IF s.size = 0 THEN SequenceNums ELSE s.size

\* The message in s waits for packet k in vain.
Misses(s, q, handled, k) ==
  /\ k \in 0 .. 31 /\ s.decode_index <= k /\ k < End(s)
  /\ Own(s, q) => k < handled

MissesIn(i, k) ==
  Misses(slot[i], publisher[slot[i].from_node], Handled(slot[i].from_node), k)

Missed == {m \in SlotIds \X (0 .. 31) : m[1] \in DOMAIN slot /\ MissesIn(m[1], m[2])}

CountersOK ==
  \A n \in Nodes : /\ publisher[n].seq_num <= Parts(publisher[n])
                   /\ publisher[n].in_progress <=> publisher[n].seq_num < Parts(publisher[n])
                   /\ publisher[n].length <= SequenceNums
                   /\ NoSpecialMode => publisher[n].length <= SEQ_NUM_SPECIAL_MODE

\* What the slot of an unfinished message has to do with its node's publisher
\* q: only packets out of turn can bring it further than the packets handled.
OnRecord(s, q, handled, late) ==
  /\ s.decode_index < End(s)
  /\ s.pieces[1].id <= q.id
  /\ Own(s, q) => /\ s.from_msg_num = q.msg_num /\ s.size = Parts(q)
                  /\ handled >= 1
                  /\ late = 0 => s.decode_index <= handled

SlotsOnRecord ==
  \A i \in DOMAIN slot :
    OnRecord(slot[i], publisher[slot[i].from_node], Handled(slot[i].from_node), strays)

\* A node's current message has begun one slot at most.
OneBegun ==
  \A i, j \in DOMAIN slot :
    /\ slot[i].from_node = slot[j].from_node
    /\ Own(slot[i], publisher[slot[i].from_node])
    /\ Own(slot[j], publisher[slot[j].from_node])
    => i = j

AllAccountedFor == Cardinality(Missed) <= lost + owed

\* A waiting packet, unless in special mode, announces the message's length.
LengthsAnnounced ==
  \A n \in Nodes : tx[n] # <<>> /\ tx[n][1].seq_num # SEQ_NUM_SPECIAL_MODE =>
    tx[n][1].message_length = publisher[n].length

Books == CountersOK /\ LengthsAnnounced /\ SlotsOnRecord /\ OneBegun /\ AllAccountedFor

\* What is counted, is a number.
LEMMA Counts == ASSUME IInv PROVE lost \in Nat /\ strays \in Nat /\ owed \in Nat
BY TransportAssumption DEF IInv, TypeOK, TransportAssumption

LEMMA PartsFacts ==
  ASSUME IInv, Books, NEW n \in Nodes
  PROVE  /\ Parts(publisher[n]) \in 0 .. 8
         /\ publisher[n].seq_num <= Parts(publisher[n])
         /\ publisher[n].in_progress <=> publisher[n].seq_num < Parts(publisher[n])
         /\ NoSpecialMode => Parts(publisher[n]) <= 7
         /\ Parts(publisher[n]) # 0 /\ publisher[n].length # 0 =>
              Parts(publisher[n]) = publisher[n].length
         /\ Parts(publisher[n]) # 0 /\ publisher[n].length = 0 => Parts(publisher[n]) = 1
<1> DEFINE l == publisher[n].length
<1>1. l \in 0 .. 31
  BY DEF IInv, TypeOK, Publisher
<1>2. /\ publisher[n].seq_num <= Parts(publisher[n])
      /\ publisher[n].in_progress <=> publisher[n].seq_num < Parts(publisher[n])
      /\ l <= 8 /\ (NoSpecialMode => l <= 7)
  BY DEF Books, CountersOK
<1>3. \/ Parts(publisher[n]) = 0
      \/ Parts(publisher[n]) = IF l = 0 THEN 1 ELSE l
  BY DEF Parts, Blocks
<1> HIDE DEF l
<1>4. l \in 0 .. 8
  BY <1>1, <1>2
<1> QED
  BY <1>2, <1>3, <1>4 DEF l

LEMMA NodeFacts ==
  ASSUME IInv, NEW n \in Nodes
  PROVE  /\ publisher[n].id \in Nat /\ publisher[n].seq_num \in 0 .. 31
         /\ publisher[n].length \in 0 .. 31 /\ publisher[n].msg_num \in 0 .. 3
         /\ publisher[n].in_progress \in BOOLEAN
         /\ Len(tx[n]) \in 0 .. 1 /\ (tx[n] = <<>> <=> Len(tx[n]) = 0)
         /\ tx[n] # <<>> => tx[n][1] \in Packet /\ Pending(n, tx[n][1])
<1>1. publisher[n] \in Publisher /\ tx[n] \in Seq(Packet) /\ Len(tx[n]) <= 1
  BY DEF IInv, TypeOK
<1>2. tx[n] # <<>> => Len(tx[n]) = 1
  BY <1>1, OneLong
<1>3. tx[n] # <<>> => Pending(n, tx[n][1])
  BY DEF IInv, TxOK
<1>4. tx[n] # <<>> => tx[n][1] \in Packet
  BY <1>1, <1>2
<1>5. Len(tx[n]) \in 0 .. 1 /\ (tx[n] = <<>> <=> Len(tx[n]) = 0)
  <2>1. Len(tx[n]) \in Nat /\ (tx[n] = <<>> => Len(tx[n]) = 0)
    BY <1>1
  <2> QED
    BY <1>1, <1>2, <2>1
<1>6. publisher[n].in_progress \in BOOLEAN
  BY <1>1 DEF Publisher
<1>7. /\ publisher[n].id \in Nat /\ publisher[n].seq_num \in 0 .. 31
      /\ publisher[n].length \in 0 .. 31 /\ publisher[n].msg_num \in 0 .. 3
  BY <1>1 DEF Publisher
<1> QED
  BY <1>3, <1>4, <1>5, <1>6, <1>7

LEMMA SlotFacts ==
  ASSUME IInv, NEW i \in DOMAIN slot
  PROVE  /\ i \in SlotIds /\ slot[i].from_node \in Nodes /\ slot[i].from_msg_num \in 0 .. 3
         /\ slot[i].size \in 0 .. 32 /\ slot[i].decode_index \in 1 .. 7
         /\ slot[i].pieces \in Seq(Piece) /\ Len(slot[i].pieces) = slot[i].decode_index
         /\ slot[i].pieces[1] \in Piece /\ slot[i].pieces[1].id \in Nat \ {0}
<1>1. i \in SlotIds /\ Good(slot[i])
  BY DEF IInv, SlotsOK
<1> DEFINE s == slot[i]
<1> HIDE DEF s
<1>2. s \in Construction /\ Len(s.pieces) = s.decode_index /\ s.decode_index < 8
  <2>1. Good(s)
    BY <1>1 DEF s
  <2> QED
    BY <2>1 DEF Good
<1>3. s.from_node \in Nodes /\ s.pieces \in Seq(Piece)
  BY <1>2 DEF Construction
<1>7. s.from_msg_num \in 0 .. 3
  BY <1>2 DEF Construction
<1>8. s.size \in 0 .. 32 /\ s.decode_index \in 1 .. 32
  BY <1>2 DEF Construction
<1>4. s.decode_index \in 1 .. 7
  <2> DEFINE d == s.decode_index
  <2>1. d \in 1 .. 32 /\ d < 8
    BY <1>2, <1>8
  <2> HIDE DEF d
  <2>2. d \in 1 .. 7
    BY <2>1
  <2> QED
    BY <2>2 DEF d
<1>5. s.pieces[1] \in Piece
  BY <1>2, <1>3, <1>4
<1>6. s.pieces[1].id \in Nat \ {0}
  BY <1>5 DEF Piece
<1> QED
  BY <1>1, <1>2, <1>3, <1>4, <1>5, <1>6, <1>7, <1>8 DEF s

LEMMA PairsFinite == \A S \in SUBSET (SlotIds \X (0 .. 31)) : IsFiniteSet(S)
<1>1. IsFiniteSet(SlotIds)
  <2>1. SlotCount \in Int /\ 1 \in Int
    BY TransportAssumption DEF TransportAssumption
  <2> QED
    BY <2>1, FS_Interval DEF SlotIds
<1>2. \A a, b \in Int : IsFiniteSet(a .. b)
  BY FS_Interval
<1>4. IsFiniteSet(0 .. 31)
  <2> DEFINE a == 0
             b == 31
  <2>1. a \in Int /\ b \in Int
    OBVIOUS
  <2> HIDE DEF a, b
  <2>2. IsFiniteSet(a .. b)
    BY <1>2, <2>1
  <2> QED
    BY <2>2 DEF a, b
<1>3. IsFiniteSet(SlotIds \X (0 .. 31))
  BY <1>1, <1>4, FS_Product
<1> QED
  BY <1>3, FS_Subset

\* One in a set exchanged for another.
LEMMA Exchange ==
  ASSUME NEW S, IsFiniteSet(S), NEW T, NEW x, NEW y \in S, T \subseteq (S \ {y}) \cup {x}
  PROVE  Cardinality(T) <= Cardinality(S)
<1>1. IsFiniteSet(S \ {y}) /\ Cardinality(S \ {y}) = Cardinality(S) - 1
  BY FS_RemoveElement
<1>2. Cardinality(T) <= Cardinality(S \ {y}) + 1 /\ IsFiniteSet(T)
  BY <1>1, OneMore
<1>3. Cardinality(S) \in Nat /\ Cardinality(T) \in Nat
  BY <1>2, FS_CardinalityType
<1> QED
  BY <1>1, <1>2, <1>3

LEMMA InitBooks == Init => Books
<1> SUFFICES ASSUME Init PROVE Books
  OBVIOUS
<1>1. DOMAIN slot = {} /\ lost = 0 /\ owed = 0
  BY DEF Init
<1>4. CountersOK
  <2> SUFFICES ASSUME NEW n \in Nodes
               PROVE  /\ publisher[n].seq_num <= Parts(publisher[n])
                      /\ publisher[n].in_progress <=>
                           publisher[n].seq_num < Parts(publisher[n])
                      /\ publisher[n].length <= SequenceNums
                      /\ NoSpecialMode => publisher[n].length <= SEQ_NUM_SPECIAL_MODE
    BY DEF CountersOK
  <2>1. publisher[n].seq_num = 0 /\ publisher[n].length = 0 /\ publisher[n].id = 0
    BY DEF Init
  <2>2. publisher[n].in_progress = FALSE
    BY DEF Init
  <2>3. Parts(publisher[n]) = 0
    BY <2>1 DEF Parts
  <2> QED
    BY <2>1, <2>2, <2>3
<1>5. LengthsAnnounced
  BY DEF Init, LengthsAnnounced
<1>2. Missed = {}
  BY <1>1 DEF Missed
<1>3. Cardinality(Missed) = 0
  BY <1>2, FS_EmptySet
<1> QED
  BY <1>1, <1>3, <1>4, <1>5 DEF Books, SlotsOnRecord, OneBegun, AllAccountedFor

\* A packet sent is the next of a message, or the first of the next message,
\* if the message before has been handled to its end.
LEMMA SentOne ==
  ASSUME IInv, Books, ShortMessages, NEW n \in Nodes, NEW length \in Lengths[n],
         Send(n, length)
  PROVE  /\ tx[n] = <<>> /\ Len(tx'[n]) = 1 /\ tx' \in [Nodes -> Seq(Packet)]
         /\ \A m \in Nodes \ {n} : publisher'[m] = publisher[m] /\ tx'[m] = tx[m]
         /\ UNCHANGED <<slot, delivered, halted, ghosts>>
         /\ length \in 0 .. 8 /\ Blocks(length) \in 1 .. 8
         /\ publisher[n].id \in Nat /\ publisher[n].seq_num \in 0 .. 31
         /\ Parts(publisher[n]) \in 0 .. 8
         /\ publisher[n].seq_num <= Parts(publisher[n])
         /\ publisher[n].in_progress <=> publisher[n].seq_num < Parts(publisher[n])
         /\ Handled(n) = publisher[n].seq_num
         /\ publisher'[n].in_progress <=> publisher'[n].seq_num < Parts(publisher'[n])
         /\ \/ /\ publisher[n].in_progress /\ publisher'[n].id = publisher[n].id
               /\ publisher'[n].msg_num = publisher[n].msg_num
               /\ publisher'[n].length = publisher[n].length
               /\ Parts(publisher'[n]) = Parts(publisher[n])
               /\ publisher'[n].seq_num = publisher[n].seq_num + 1
            \/ /\ ~publisher[n].in_progress /\ publisher'[n].id = publisher[n].id + 1
               /\ publisher'[n].length = length /\ Parts(publisher'[n]) = Blocks(length)
               /\ publisher'[n].seq_num = 1
<1> DEFINE q == publisher[n]
           r == publisher'[n]
           h == Handled(n)
<1>1. /\ tx[n] = <<>> /\ tx' \in [Nodes -> Seq(Packet)]
      /\ \A m \in Nodes \ {n} : publisher'[m] = publisher[m] /\ tx'[m] = tx[m]
      /\ UNCHANGED <<slot, delivered, halted, ghosts>>
  <2>1. IInv'
    BY SendIInv
  <2> QED
    BY <2>1 DEF Send, IInv, TypeOK
<1>2. Len(tx'[n]) = 1 /\ Len(tx[n]) = 0
  BY <1>1 DEF Send, IInv, TypeOK
<1>3. length \in 0 .. 8 /\ Blocks(length) \in 1 .. 8
  <2>1. length \in 0 .. 31 /\ length \in 0 .. 8
    BY TransportAssumption DEF TransportAssumption, ShortMessages
  <2> QED
    BY <2>1 DEF Blocks
<1>4. /\ q.id \in Nat /\ q.seq_num \in 0 .. 31 /\ Parts(q) \in 0 .. 8
      /\ q.seq_num <= Parts(q) /\ (q.in_progress <=> q.seq_num < Parts(q)) /\ h = q.seq_num
  <2>1. q.id \in Nat /\ q.seq_num \in 0 .. 31
    BY NodeFacts
  <2>2. /\ Parts(q) \in 0 .. 8 /\ q.seq_num <= Parts(q)
        /\ (q.in_progress <=> q.seq_num < Parts(q))
    BY PartsFacts
  <2>3. h = q.seq_num - 0
    BY <1>2 DEF Handled
  <2> HIDE DEF q, h
  <2> QED
    BY <2>1, <2>2, <2>3
<1>5. \/ /\ q.in_progress /\ r.id = q.id /\ r.msg_num = q.msg_num /\ r.length = q.length
         /\ Parts(r) = Parts(q)
         /\ r.seq_num = q.seq_num + 1 /\ (r.in_progress <=> r.seq_num < Parts(r))
      \/ /\ ~q.in_progress /\ r.id = q.id + 1 /\ r.length = length
         /\ Parts(r) = Blocks(length)
         /\ r.seq_num = 1 /\ (r.in_progress <=> r.seq_num < Parts(r))
  <2>1. publisher \in [Nodes -> Publisher] /\ q \in Publisher
    BY DEF IInv, TypeOK
  <2>2. CASE q.in_progress
    <3>1. r = [q EXCEPT !.seq_num = q.seq_num + 1, !.in_progress = q.seq_num + 1 < Blocks(length)]
          /\ length = q.length
      BY <2>1, <2>2 DEF Send
    <3>4. q.id > 0
      BY <2>2 DEF IInv, PublishersOK
    <3> HIDE DEF r, q
    <3>2. /\ r.id = q.id /\ r.msg_num = q.msg_num /\ r.length = q.length
          /\ r.seq_num = q.seq_num + 1 /\ r.in_progress = (q.seq_num + 1 < Blocks(length))
      BY <2>1, <3>1 DEF Publisher
    <3>5. q.id # 0
      BY <1>4, <3>4
    <3>3. Parts(r) = Blocks(length) /\ Parts(r) = Parts(q)
      BY <3>1, <3>2, <3>5 DEF Parts
    <3>6. (q.seq_num + 1 < Blocks(length)) = (r.seq_num < Parts(r))
      BY <3>2, <3>3
    <3>7. r.in_progress <=> r.seq_num < Parts(r)
      BY <3>2, <3>6, Zenon
    <3> QED
      BY <2>2, <3>1, <3>2, <3>3, <3>7
  <2>3. CASE ~q.in_progress
    <3>1. r = [NextMessage(q, length) EXCEPT !.seq_num = NextMessage(q, length).seq_num + 1,
                 !.in_progress = NextMessage(q, length).seq_num + 1 < Blocks(length)]
      BY <2>1, <2>3 DEF Send
    <3>2. /\ r.id = q.id + 1 /\ r.length = length
          /\ r.seq_num = 0 + 1 /\ r.in_progress = (0 + 1 < Blocks(length))
      BY <3>1 DEF NextMessage
    <3> HIDE DEF q, r
    <3>3. r.seq_num = 1
      BY <3>2
    <3>5. r.id # 0
      BY <1>4, <3>2
    <3>6. Parts(r) = Blocks(length)
      BY <3>2, <3>5 DEF Parts
    <3>4. r.in_progress <=> r.seq_num < Parts(r)
      <4>1. (0 + 1 < Blocks(length)) = (r.seq_num < Parts(r))
        BY <3>2, <3>6
      <4> QED
        BY <3>2, <4>1, Zenon
    <3> QED
      BY <2>3, <3>2, <3>3, <3>4, <3>6
  <2> QED
    BY <2>2, <2>3
<1> HIDE DEF q, r, h
<1> QED
  BY <1>1, <1>2, <1>3, <1>4, <1>5 DEF q, r, h

\* Sending changes what is known of the sending node's message only.
LEMMA SendBooks ==
  ASSUME IInv, Books, ShortMessages, NEW n \in Nodes, NEW length \in Lengths[n],
         Send(n, length)
  PROVE  Books'
<1> DEFINE q == publisher[n]
           r == publisher'[n]
           h == Handled(n)
           g == r.seq_num - Len(tx'[n])
<1>1. /\ tx[n] = <<>> /\ tx' \in [Nodes -> Seq(Packet)]
      /\ \A m \in Nodes \ {n} : publisher'[m] = publisher[m] /\ tx'[m] = tx[m]
      /\ slot' = slot /\ delivered' = delivered
      /\ lost' = lost /\ strays' = strays /\ owed' = owed
  BY SentOne DEF ghosts
<1>2. Len(tx'[n]) = 1
  BY SentOne
<1>3. length \in 0 .. 8 /\ Blocks(length) \in 1 .. 8
  BY SentOne
<1>4. /\ q.id \in Nat /\ q.seq_num \in 0 .. 31 /\ Parts(q) \in 0 .. 8
      /\ q.seq_num <= Parts(q) /\ (q.in_progress <=> q.seq_num < Parts(q)) /\ h = q.seq_num
  BY SentOne
<1>5. \/ /\ q.in_progress /\ r.id = q.id /\ r.msg_num = q.msg_num /\ r.length = q.length
         /\ Parts(r) = Parts(q)
         /\ r.seq_num = q.seq_num + 1 /\ (r.in_progress <=> r.seq_num < Parts(r))
      \/ /\ ~q.in_progress /\ r.id = q.id + 1 /\ r.length = length
         /\ Parts(r) = Blocks(length)
         /\ r.seq_num = 1 /\ (r.in_progress <=> r.seq_num < Parts(r))
  BY SentOne
<1>6. r.seq_num \in 1 .. 32 /\ g = r.seq_num - 1
  <2>1. g = r.seq_num - 1
    BY <1>2
  <2> HIDE DEF q, r, g, h
  <2> QED
    BY <1>4, <1>5, <2>1
<1>7. CountersOK'
  <2> SUFFICES ASSUME NEW m \in Nodes
               PROVE  /\ publisher'[m].seq_num <= Parts(publisher'[m])
                      /\ publisher'[m].in_progress <=>
                           publisher'[m].seq_num < Parts(publisher'[m])
                      /\ publisher'[m].length <= SequenceNums
                      /\ NoSpecialMode => publisher'[m].length <= SEQ_NUM_SPECIAL_MODE
    BY DEF CountersOK, Parts, Blocks
  <2>1. CASE m = n
    <3>3. q.length <= 8 /\ (NoSpecialMode => q.length <= 7)
      BY DEF Books, CountersOK
    <3> HIDE DEF q, r, h
    <3>1. r.seq_num <= Parts(r) /\ (r.in_progress <=> r.seq_num < Parts(r))
      BY <1>3, <1>4, <1>5
    <3>2. NoSpecialMode => length <= 7
      BY <1>3 DEF NoSpecialMode
    <3>4. r.length <= 8 /\ (NoSpecialMode => r.length <= 7)
      BY <1>3, <1>5, <3>2, <3>3
    <3> QED
      BY <2>1, <3>1, <3>4 DEF r
  <2>2. CASE m # n
    BY <1>1, <2>2 DEF Books, CountersOK
  <2> QED
    BY <2>1, <2>2
<1>8. ASSUME NEW i \in DOMAIN slot, slot[i].from_node = n
      PROVE  /\ OnRecord(slot[i], r, g, strays)
             /\ Own(slot[i], r) => Own(slot[i], q)
             /\ \A k : Misses(slot[i], r, g, k) => Misses(slot[i], q, h, k)
  <2> DEFINE s == slot[i]
  <2>1. /\ s.size \in 0 .. 32 /\ s.decode_index \in 1 .. 7 /\ s.pieces[1].id \in Nat
        /\ OnRecord(s, q, h, strays)
    BY <1>8, SlotFacts DEF Books, SlotsOnRecord
  <2> HIDE DEF s, q, r, h, g
  <2>2. CASE q.in_progress
    <3>1. g = h /\ (Own(s, r) <=> Own(s, q))
      BY <1>4, <1>5, <1>6, <2>2 DEF Own
    <3> QED
      BY <1>5, <2>1, <2>2, <3>1 DEF OnRecord, Misses, s
  <2>3. CASE ~q.in_progress
    <3>1. r.id = q.id + 1 /\ ~(s.pieces[1].id = r.id) /\ h = Parts(q)
      BY <1>4, <1>5, <2>1, <2>3 DEF OnRecord
    <3>2. ~Own(s, r)
      BY <3>1 DEF Own
    <3>4. OnRecord(s, r, g, strays)
      BY <1>4, <2>1, <3>1, <3>2 DEF OnRecord
    <3>3. ASSUME NEW k, Misses(s, r, g, k) PROVE Misses(s, q, h, k)
      <4>1. k \in 0 .. 31 /\ s.decode_index <= k /\ k < End(s)
        BY <3>3 DEF Misses
      <4>2. Own(s, q) => k < h
        BY <2>1, <3>1, <4>1 DEF OnRecord, Own, End
      <4> QED
        BY <4>1, <4>2 DEF Misses
    <3> QED
      BY <3>2, <3>3, <3>4 DEF s
  <2> QED
    BY <2>2, <2>3
<1>9. ASSUME NEW i \in DOMAIN slot, slot[i].from_node # n
      PROVE  /\ publisher'[slot[i].from_node] = publisher[slot[i].from_node]
             /\ tx'[slot[i].from_node] = tx[slot[i].from_node]
  BY <1>1, <1>9, SlotFacts
<1>10. SlotsOnRecord'
  <2> SUFFICES ASSUME NEW i \in DOMAIN slot
               PROVE  OnRecord(slot[i], publisher'[slot[i].from_node],
                               publisher'[slot[i].from_node].seq_num
                                 - Len(tx'[slot[i].from_node]), strays)
    BY <1>1 DEF SlotsOnRecord, Handled
  <2>1. CASE slot[i].from_node = n
    BY <1>8, <2>1
  <2>2. CASE slot[i].from_node # n
    BY <1>9, <2>2 DEF Books, SlotsOnRecord, Handled
  <2> QED
    BY <2>1, <2>2
<1>11. OneBegun'
  <2> SUFFICES ASSUME NEW i \in DOMAIN slot, NEW j \in DOMAIN slot,
                      slot[i].from_node = slot[j].from_node,
                      Own(slot[i], publisher'[slot[i].from_node]),
                      Own(slot[j], publisher'[slot[j].from_node])
               PROVE  i = j
    BY <1>1 DEF OneBegun, Own
  <2>1. CASE slot[i].from_node = n
    BY <1>8, <2>1 DEF Books, OneBegun
  <2>2. CASE slot[i].from_node # n
    BY <1>9, <2>2 DEF Books, OneBegun
  <2> QED
    BY <2>1, <2>2
<1>12. AllAccountedFor'
  <2>1. Missed' \subseteq Missed
    <3> SUFFICES ASSUME NEW m \in Missed' PROVE m \in Missed
      OBVIOUS
    <3>1. /\ m \in SlotIds \X (0 .. 31) /\ m[1] \in DOMAIN slot
          /\ Misses(slot[m[1]], publisher'[slot[m[1]].from_node],
                    publisher'[slot[m[1]].from_node].seq_num
                      - Len(tx'[slot[m[1]].from_node]), m[2])
      BY <1>1 DEF Missed, MissesIn, Misses, Own, Handled
    <3>2. CASE slot[m[1]].from_node = n
      BY <1>8, <3>1, <3>2 DEF Missed, MissesIn
    <3>3. CASE slot[m[1]].from_node # n
      BY <1>9, <3>1, <3>3 DEF Missed, MissesIn, Handled
    <3> QED
      BY <3>2, <3>3
  <2>2. IsFiniteSet(Missed)
    BY PairsFinite DEF Missed
  <2>3. Cardinality(Missed') <= Cardinality(Missed) /\ Cardinality(Missed) \in Nat
        /\ Cardinality(Missed') \in Nat
    BY <2>1, <2>2, FS_Subset, FS_CardinalityType
  <2> QED
    BY <1>1, <2>3, Counts DEF Books, AllAccountedFor
<1>13. LengthsAnnounced'
  <2>1. \A p : NextPacket(n, p).seq_num # 7 => NextPacket(n, p).message_length = p.length
    BY DEF NextPacket
  <2>2. PICK p : /\ tx' = [tx EXCEPT ![n] = <<NextPacket(n, p)>>]
                 /\ p.length = r.length
    <3>1. CASE q.in_progress
      BY <1>5, <3>1 DEF Send
    <3>2. CASE ~q.in_progress
      <4>1. NextMessage(q, length).length = length
        BY DEF NextMessage
      <4>2. tx' = [tx EXCEPT ![n] = <<NextPacket(n, NextMessage(q, length))>>]
        BY <3>2 DEF Send
      <4>3. r.length = length
        BY <1>5, <3>2
      <4> QED
        BY <4>1, <4>2, <4>3
    <3> QED
      BY <3>1, <3>2
  <2>3. tx \in [Nodes -> Seq(Packet)]
    BY DEF IInv, TypeOK
  <2> SUFFICES ASSUME NEW m \in Nodes, tx'[m] # <<>>, tx'[m][1].seq_num # 7
               PROVE  tx'[m][1].message_length = publisher'[m].length
    BY DEF LengthsAnnounced
  <2>4. CASE m = n
    <3>1. tx'[m][1] = NextPacket(n, p)
      BY <2>2, <2>3, <2>4
    <3> QED
      BY <2>1, <2>2, <2>4, <3>1
  <2>5. CASE m # n
    BY <1>1, <2>5 DEF Books, LengthsAnnounced
  <2> QED
    BY <2>4, <2>5
<1> QED
  BY <1>7, <1>10, <1>11, <1>12, <1>13 DEF Books

\* A packet that has its turn: the node's message is one further on.
LEMMA OneHandled ==
  ASSUME IInv, Books, NEW n \in Nodes, Lose(n) \/ Deliver(n)
  PROVE  /\ publisher' = publisher /\ strays' = strays
         /\ \A m \in Nodes \ {n} : tx'[m] = tx[m] /\ Handled(m)' = Handled(m)
         /\ tx'[n] = <<>> /\ tx[n] # <<>> /\ Handled(n) \in 0 .. 7
         /\ Handled(n)' = Handled(n) + 1 /\ Handled(n)' = publisher[n].seq_num
         /\ Handled(n) < Parts(publisher[n])
         /\ publisher[n].in_progress <=> Handled(n) + 1 < Parts(publisher[n])
         /\ Parts(publisher[n]) \in 1 .. 8
<1>1. /\ publisher' = publisher /\ tx' = [tx EXCEPT ![n] = <<>>] /\ tx[n] # <<>>
      /\ tx \in [Nodes -> Seq(Packet)] /\ strays' = strays
  BY DEF Lose, Deliver, IInv, TypeOK
<1>2. tx'[n] = <<>> /\ Len(tx'[n]) = 0 /\ \A m \in Nodes \ {n} : tx'[m] = tx[m]
  BY <1>1
<1>3. /\ Len(tx[n]) = 1 /\ publisher[n].seq_num \in 0 .. 31
      /\ Pending(n, tx[n][1]) /\ tx[n][1] \in Packet
  BY <1>1, NodeFacts
<1>4. /\ publisher[n].seq_num - 1 \in 0 .. 31
  <2>1. tx[n][1].piece.index \in 0 .. 31
    BY <1>3 DEF Packet, Piece
  <2> QED
    BY <1>3, <2>1 DEF Pending
<1>5. /\ publisher[n].seq_num <= Parts(publisher[n])
      /\ publisher[n].in_progress <=> publisher[n].seq_num < Parts(publisher[n])
      /\ Parts(publisher[n]) \in 0 .. 8
  BY PartsFacts
<1>6. /\ Handled(n) = publisher[n].seq_num - 1 /\ Handled(n)' = publisher[n].seq_num - 0
      /\ \A m \in Nodes \ {n} : Handled(m)' = Handled(m)
  BY <1>1, <1>2, <1>3 DEF Handled
<1> DEFINE a == publisher[n].seq_num
           l == Parts(publisher[n])
<1>7. /\ a \in 0 .. 31 /\ l \in 0 .. 8 /\ a - 1 \in 0 .. 31 /\ a <= l
      /\ publisher[n].in_progress <=> a < l
      /\ Handled(n) = a - 1 /\ Handled(n)' = a - 0
  BY <1>3, <1>4, <1>5, <1>6
<1> HIDE DEF a, l
<1>8. /\ Handled(n) \in 0 .. 7 /\ Handled(n)' = Handled(n) + 1 /\ Handled(n)' = a
      /\ Handled(n) < l /\ l \in 1 .. 8 /\ (publisher[n].in_progress <=> Handled(n) + 1 < l)
  BY <1>7
<1> QED
  BY <1>1, <1>2, <1>6, <1>8 DEF a, l

\* What is so of the publishers' counters and packets stays so.
LEMMA HandledKeeps ==
  ASSUME IInv, Books, NEW n \in Nodes, Lose(n) \/ Deliver(n)
  PROVE  CountersOK' /\ LengthsAnnounced'
<1>1. /\ publisher' = publisher /\ tx'[n] = <<>>
      /\ \A m \in Nodes \ {n} : tx'[m] = tx[m]
  BY OneHandled
<1>2. CountersOK'
  BY <1>1 DEF Books, CountersOK, Parts, Blocks
<1>3. LengthsAnnounced'
  BY <1>1 DEF Books, LengthsAnnounced
<1> QED
  BY <1>2, <1>3

\* A slot that is left alone stays on record, whatever is handled.
LEMMA StaysOnRecord ==
  ASSUME NEW s, s.decode_index \in Int, NEW q, NEW h \in Int, NEW g \in Int, h <= g,
         NEW late, OnRecord(s, q, h, late)
  PROVE  OnRecord(s, q, g, late)
BY DEF OnRecord

\* A loss is the packet that the slot begun by the node's message now misses.
LEMMA LoseBooks ==
  ASSUME IInv, Books, NEW n \in Nodes, Lose(n) PROVE Books'
<1> DEFINE x == Handled(n)
<1>1. /\ publisher' = publisher /\ slot' = slot /\ lost' = lost + 1 /\ owed' = owed
      /\ strays' = strays /\ lost \in Nat /\ owed \in Nat
      /\ \A m \in Nodes \ {n} : Handled(m)' = Handled(m)
      /\ x \in 0 .. 7 /\ Handled(n)' = x + 1
  BY OneHandled, Counts DEF Lose
<1> HIDE DEF x
<1>2. SlotsOnRecord'
  <2> SUFFICES ASSUME NEW i \in DOMAIN slot
               PROVE  OnRecord(slot[i], publisher[slot[i].from_node],
                               Handled(slot[i].from_node)', strays)
    BY <1>1 DEF SlotsOnRecord
  <2>1. /\ OnRecord(slot[i], publisher[slot[i].from_node], Handled(slot[i].from_node), strays)
        /\ slot[i].decode_index \in 1 .. 7 /\ slot[i].from_node \in Nodes
    BY SlotFacts DEF Books, SlotsOnRecord
  <2>2. CASE slot[i].from_node = n
    BY <1>1, <2>1, <2>2, StaysOnRecord DEF x
  <2>3. CASE slot[i].from_node # n
    BY <1>1, <2>1, <2>3
  <2> QED
    BY <2>2, <2>3
<1>3. OneBegun'
  BY <1>1 DEF Books, OneBegun, Own
<1>4. AllAccountedFor'
  <2>1. \E i : Missed' \subseteq Missed \cup {<<i, x>>}
    <3>1. ASSUME NEW i, \A j \in DOMAIN slot : slot[j].from_node = n
                          /\ Own(slot[j], publisher[n]) => j = i
          PROVE  Missed' \subseteq Missed \cup {<<i, x>>}
      <4> SUFFICES ASSUME NEW m \in Missed', m # <<i, x>> PROVE m \in Missed
        OBVIOUS
      <4>1. /\ m \in SlotIds \X (0 .. 31) /\ m[1] \in DOMAIN slot
            /\ Misses(slot[m[1]], publisher[slot[m[1]].from_node],
                      Handled(slot[m[1]].from_node)', m[2])
        BY <1>1 DEF Missed, MissesIn, Misses, Own, End
      <4>2. slot[m[1]].from_node \in Nodes /\ m = <<m[1], m[2]>> /\ m[2] \in 0 .. 31
        BY <4>1, SlotFacts
      <4>3. CASE slot[m[1]].from_node = n
        <5>1. Own(slot[m[1]], publisher[n]) => m[2] < x
          <6>1. Own(slot[m[1]], publisher[n]) => m[2] < x + 1 /\ m[2] # x
            BY <1>1, <3>1, <4>1, <4>2, <4>3 DEF Misses
          <6> QED
            BY <1>1, <4>2, <6>1
        <5>2. Misses(slot[m[1]], publisher[n], x, m[2])
          BY <4>1, <4>3, <5>1 DEF Misses
        <5> QED
          BY <4>1, <4>3, <5>2 DEF Missed, MissesIn, x
      <4>4. CASE slot[m[1]].from_node # n
        BY <1>1, <4>1, <4>2, <4>4 DEF Missed, MissesIn
      <4> QED
        BY <4>3, <4>4
    <3>2. \E i : \A j \in DOMAIN slot : slot[j].from_node = n
                          /\ Own(slot[j], publisher[n]) => j = i
      BY DEF Books, OneBegun
    <3> QED
      BY <3>1, <3>2
  <2>2. IsFiniteSet(Missed)
    BY PairsFinite DEF Missed
  <2>3. Cardinality(Missed') <= Cardinality(Missed) + 1 /\ Cardinality(Missed) \in Nat
        /\ Cardinality(Missed') \in Nat
    BY <2>1, <2>2, OneMore, FS_CardinalityType
  <2> QED
    BY <1>1, <2>3 DEF Books, AllAccountedFor
<1> QED
  BY <1>2, <1>3, <1>4, HandledKeeps DEF Books

\* The header of a short message's packet says which one it is.
LEMMA PacketFacts ==
  ASSUME ShortMessages, NEW p, Valid(p)
  PROVE  /\ p.node \in Nodes /\ p.piece \in Piece /\ p.piece.node = p.node
         /\ p.message_length \in 0 .. 32 /\ p.message_num \in 0 .. 3
         /\ p.seq_num = p.piece.index /\ p.seq_num \in 0 .. 7
         /\ SeqNum(p) = IF p.seq_num = 7 THEN 8 ELSE p.seq_num
<1> DEFINE j == p.piece.index
<1>1. /\ p \in Packet /\ p.piece \in Piece /\ p.node \in Nodes /\ p.piece.node = p.node
      /\ p.message_length \in 0 .. 32 /\ p.message_num \in 0 .. 3
  BY DEF Valid, Packet
<1>2. j \in 0 .. 31 /\ j < 8
  BY <1>1 DEF Valid, Piece
<1> HIDE DEF j
<1>3. j \in 0 .. 7 /\ j \in Nat
  BY <1>2
<1>4. SeqOf(j) = j
  BY <1>2, <1>3, SeqOfType
<1>5. p.seq_num = j
  BY <1>4 DEF Valid, j
<1>6. p.seq_num = 7 => p.message_length = 8
  BY <1>5 DEF Valid, j
<1>7. SeqNum(p) = IF p.seq_num = 7 THEN 8 ELSE p.seq_num
  BY <1>6 DEF SeqNum
<1> QED
  BY <1>1, <1>3, <1>5, <1>7 DEF j

\* A waiting packet is the one that the node's message goes on with.
LEMMA TurnFacts ==
  ASSUME IInv, Books, ShortMessages, NEW n \in Nodes, tx[n] # <<>>, NEW p, p = tx[n][1]
  PROVE  /\ Valid(p) /\ p.node = n /\ p.message_num = publisher[n].msg_num
         /\ p.piece.id = publisher[n].id /\ ~p.piece.stray
         /\ p.seq_num = Handled(n) /\ Handled(n) \in 0 .. 7
         /\ Handled(n) # 7 => p.message_length = publisher[n].length
<1>1. /\ p \in Packet /\ Pending(n, p) /\ Valid(p) /\ Len(tx[n]) = 1
  BY PendingIsValid
<1>2. p.seq_num # 7 => p.message_length = publisher[n].length
  BY DEF Books, LengthsAnnounced
<1>3. /\ p.node = n /\ p.message_num = publisher[n].msg_num /\ p.piece.id = publisher[n].id
      /\ p.piece.index = Handled(n) /\ ~p.piece.stray
  BY <1>1 DEF Pending, Handled
<1>4. p.seq_num = Handled(n) /\ Handled(n) \in 0 .. 7
  BY <1>1, <1>3, PacketFacts
<1> QED
  BY <1>1, <1>2, <1>3, <1>4

\* The three things that receiving a packet does to slots.
Drops(p) ==
  /\ DOMAIN slot' \subseteq DOMAIN slot
  /\ \A i \in DOMAIN slot' :
       slot'[i] = slot[i] /\ (p.seq_num # 0 => slot[i].from_node # p.node)

Begins(p, i) ==
  /\ i \in SlotIds \ DOMAIN slot /\ DOMAIN slot' = DOMAIN slot \cup {i}
  /\ \A j \in DOMAIN slot : slot'[j] = slot[j]
  /\ p.seq_num = 0 /\ p.message_length # 1
  /\ slot'[i].from_node = p.node /\ slot'[i].from_msg_num = p.message_num
  /\ slot'[i].size = p.message_length /\ slot'[i].decode_index = 1
  /\ slot'[i].pieces[1] = p.piece

Extends(p, i) ==
  /\ i \in DOMAIN slot /\ slot[i].from_node = p.node
  /\ slot[i].decode_index = p.seq_num /\ p.seq_num \in 1 .. 6
  /\ DOMAIN slot' \subseteq DOMAIN slot
  /\ \A j \in DOMAIN slot' : j # i => slot'[j] = slot[j]
  /\ i \in DOMAIN slot' =>
       /\ slot'[i].from_node = p.node /\ slot'[i].from_msg_num = slot[i].from_msg_num
       /\ slot'[i].size = slot[i].size /\ slot'[i].decode_index = p.seq_num + 1
       /\ slot'[i].decode_index # slot'[i].size
       /\ slot'[i].pieces[1] = slot[i].pieces[1]

LEMMA WhatReceivingDoes ==
  ASSUME IInv, ShortMessages, NEW p, Valid(p), ReceiveMessage(p)
  PROVE  Drops(p) \/ (\E i : Begins(p, i)) \/ (\E i : Extends(p, i))
<1>1. CASE p.seq_num = 0
  <2>2. CASE UNCHANGED slot
    BY <1>1, <2>2 DEF Drops
  <2>3. CASE \E i \in SlotIds \ DOMAIN slot : Filled(slot, i, Begin(p))
    <3>1. PICK i \in SlotIds \ DOMAIN slot : Filled(slot, i, Begin(p))
      BY <2>3
    <3>2. /\ Begin(p).from_node = p.node /\ Begin(p).from_msg_num = p.message_num
          /\ Begin(p).size = p.message_length /\ Begin(p).decode_index = 1
          /\ Begin(p).pieces[1] = p.piece
      BY DEF Begin
    <3>3. CASE Begin(p).decode_index = Begin(p).size
      <4>1. slot' = Without(slot, {i})
        BY <3>1, <3>3 DEF Filled
      <4> QED
        BY <1>1, <4>1 DEF Without, Drops
    <3>4. CASE Begin(p).decode_index # Begin(p).size
      <4>1. slot' = With(slot, i, Begin(p))
        BY <3>1, <3>4 DEF Filled
      <4>2. /\ DOMAIN slot' = DOMAIN slot \cup {i} /\ slot'[i] = Begin(p)
            /\ \A j \in DOMAIN slot : slot'[j] = slot[j]
        BY <3>1, <4>1 DEF With
      <4> QED
        BY <1>1, <3>1, <3>2, <3>4, <4>2 DEF Begins
    <3> QED
      BY <3>3, <3>4
  <2> QED
    BY <1>1, <2>2, <2>3 DEF ReceiveMessage, ReceiveFirst
<1>2. CASE p.seq_num # 0
  <2> DEFINE ofNode == {i \in DOMAIN slot : slot[i].from_node = p.node}
             fitting == {i \in ofNode : Expects(i, p)}
  <2>1. CASE slot' = Without(slot, ofNode)
    BY <1>2, <2>1 DEF Without, Drops
  <2>2. CASE \E i \in fitting :
               Filled(Without(slot, {j \in ofNode : j < i}), i, Extend(slot[i], p))
    <3>1. PICK i \in fitting :
            Filled(Without(slot, {j \in ofNode : j < i}), i, Extend(slot[i], p))
      BY <2>2
    <3> DEFINE W == Without(slot, {j \in ofNode : j < i})
               e == Extend(slot[i], p)
    <3>2. /\ DOMAIN W \subseteq DOMAIN slot /\ \A j \in DOMAIN W : W[j] = slot[j]
      BY DEF Without
    <3>3. Filled(W, i, e)
      BY <3>1
    <3>4. /\ i \in DOMAIN slot /\ slot[i].from_node = p.node
          /\ slot[i].decode_index = p.seq_num /\ p.seq_num \in 1 .. 6
      <4>1. i \in DOMAIN slot /\ slot[i].from_node = p.node
            /\ slot[i].decode_index = SeqNum(p)
        BY <3>1 DEF Expects
      <4>2. slot[i].decode_index \in 1 .. 7
        BY <4>1, SlotFacts
      <4> DEFINE d == slot[i].decode_index
                 x == p.seq_num
      <4>3. d \in 1 .. 7 /\ x \in 0 .. 7 /\ d = IF x = 7 THEN 8 ELSE x
        BY <4>1, <4>2, PacketFacts
      <4> HIDE DEF d, x
      <4>4. d = x /\ x \in 1 .. 6
        BY <4>3
      <4> QED
        BY <4>1, <4>4 DEF d, x
    <3>5. /\ e.from_node = p.node /\ e.from_msg_num = slot[i].from_msg_num
          /\ e.size = slot[i].size /\ e.decode_index = p.seq_num + 1
          /\ e.pieces[1] = slot[i].pieces[1]
      <4>1. slot[i] \in Construction /\ slot[i].from_node = p.node
        BY <3>4 DEF IInv, TypeOK
      <4>2. p.piece \in Piece
        BY PacketFacts
      <4>3. e.pieces = Append(slot[i].pieces, p.piece)
        BY <4>1 DEF Extend, Construction
      <4>4. slot[i].pieces \in Seq(Piece) /\ Len(slot[i].pieces) \in 1 .. 7
        BY <3>4, SlotFacts
      <4>5. e.pieces[1] = slot[i].pieces[1]
        BY <4>2, <4>3, <4>4
      <4> QED
        BY <3>4, <4>1, <4>5 DEF Extend, Construction
    <3> HIDE DEF W, e
    <3>6. CASE e.decode_index = e.size
      <4>1. slot' = Without(W, {i})
        BY <3>3, <3>6 DEF Filled
      <4>2. /\ DOMAIN slot' \subseteq DOMAIN slot /\ i \notin DOMAIN slot'
            /\ \A j \in DOMAIN slot' : slot'[j] = slot[j]
        BY <3>2, <4>1 DEF Without
      <4>3. Extends(p, i)
        BY <3>4, <4>2 DEF Extends
      <4> QED
        BY <4>3
    <3>7. CASE e.decode_index # e.size
      <4>1. slot' = With(W, i, e)
        BY <3>3, <3>7 DEF Filled
      <4>2. /\ DOMAIN slot' \subseteq DOMAIN slot /\ slot'[i] = e
            /\ \A j \in DOMAIN slot' : j # i => slot'[j] = slot[j]
        BY <3>2, <3>4, <4>1 DEF With
      <4>3. Extends(p, i)
        BY <3>4, <3>5, <3>7, <4>2 DEF Extends
      <4> QED
        BY <4>3
    <3> QED
      BY <3>6, <3>7
  <2> QED
    BY <1>2, <2>1, <2>2 DEF ReceiveMessage, ReceiveNext
<1> QED
  BY <1>1, <1>2

\* What a message in a slot still waits for after a packet more.
LEMMA StillWaits ==
  ASSUME IInv, Books, NEW p, NEW i, Extends(p, i), i \in DOMAIN slot'
  PROVE  /\ slot'[i].decode_index < End(slot'[i]) /\ End(slot'[i]) = End(slot[i])
         /\ \A q : Own(slot'[i], q) <=> Own(slot[i], q)
<1> DEFINE d == slot[i].decode_index
           z == slot[i].size
<1>1. /\ d \in 1 .. 6 /\ slot'[i].decode_index = d + 1 /\ slot'[i].size = z /\ d + 1 # z
      /\ slot'[i].pieces[1] = slot[i].pieces[1] /\ i \in DOMAIN slot
  BY DEF Extends
<1>2. z \in 0 .. 32 /\ d < IF z = 0 THEN 8 ELSE z
  BY <1>1, SlotFacts DEF Books, SlotsOnRecord, OnRecord, End
<1>3. End(slot'[i]) = (IF z = 0 THEN 8 ELSE z) /\ End(slot[i]) = (IF z = 0 THEN 8 ELSE z)
  BY <1>1 DEF End
<1>5. \A q : Own(slot'[i], q) <=> Own(slot[i], q)
  BY <1>1 DEF Own
<1> HIDE DEF d, z
<1>4. d + 1 < IF z = 0 THEN 8 ELSE z
  BY <1>1, <1>2
<1>6. slot'[i].decode_index < End(slot'[i])
  BY <1>1, <1>3, <1>4
<1>7. End(slot'[i]) = End(slot[i])
  BY <1>3
<1> QED
  BY <1>5, <1>6, <1>7

\* A set with a one-to-one function into a finite one has no more elements.
LEMMA OneToOne ==
  ASSUME NEW S, NEW T, IsFiniteSet(T), NEW f \in [S -> T],
         \A a, b \in S : f[a] = f[b] => a = b
  PROVE  IsFiniteSet(S) /\ Cardinality(S) <= Cardinality(T)
<1>1. f \in Injection(S, T)
  BY DEF Injection, IsInjective
<1> QED
  BY <1>1, FS_Injection

\* What is added for one slot is no more than the numbers it can wait for.
LEMMA AddedFor ==
  ASSUME NEW S, IsFiniteSet(S), NEW T, NEW i, NEW b \in Nat,
         \A m \in T : m \notin S => m = <<i, m[2]>> /\ m[2] \in 1 .. b
  PROVE  IsFiniteSet(T) /\ Cardinality(T) <= Cardinality(S) + b
<1> DEFINE D == T \ S
           f == [m \in D |-> m[2]]
           B == 1 .. b
<1>1. IsFiniteSet(B) /\ Cardinality(B) <= b
  <2>1. /\ IsFiniteSet(1 .. b) /\ Cardinality(1 .. b) = IF 1 > b THEN 0 ELSE b - 1 + 1
    BY FS_Interval
  <2> QED
    BY <2>1
<1>2. f \in [D -> B] /\ \A u, v \in D : f[u] = f[v] => u = v
  OBVIOUS
<1>3. T \subseteq S \cup D
  OBVIOUS
<1> HIDE DEF f, B, D
<1>4. IsFiniteSet(D) /\ Cardinality(D) <= Cardinality(B)
  BY <1>1, <1>2, OneToOne
<1>5. /\ IsFiniteSet(S \cup D)
      /\ Cardinality(S \cup D) = Cardinality(S) + Cardinality(D) - Cardinality(S \cap D)
  BY <1>4, FS_Union
<1>6. IsFiniteSet(S \cap D)
  BY <1>4, FS_Subset
<1>7. /\ Cardinality(S) \in Nat /\ Cardinality(D) \in Nat /\ Cardinality(S \cap D) \in Nat
      /\ Cardinality(B) \in Nat
  BY <1>1, <1>4, <1>6, FS_CardinalityType
<1>8. IsFiniteSet(T) /\ Cardinality(T) <= Cardinality(S \cup D)
  BY <1>3, <1>5, FS_Subset
<1>9. Cardinality(T) \in Nat
  BY <1>8, FS_CardinalityType
<1> QED
  BY <1>1, <1>4, <1>5, <1>7, <1>8, <1>9

\* What a slot that has just been begun may take is what was promised to it.
LEMMA BegunIsPromised ==
  ASSUME ShortMessages, NEW p, Valid(p), NEW i, Begins(p, i),
         p.piece.stray \/ p.message_length = 0
  PROVE  End(slot'[i]) = Promised(p) + 1 /\ Promised(p) \in Nat
<1>1. /\ slot'[i].size = p.message_length /\ p.seq_num = 0 /\ p.message_length # 1
      /\ p.message_length \in 0 .. 32
  BY PacketFacts DEF Begins
<1>2. Begin(p).size = p.message_length /\ Begin(p).decode_index = 1
  BY DEF Begin
<1>3. Promised(p) = (IF p.message_length = 0 THEN 8 ELSE p.message_length) - 1
  BY <1>1, <1>2 DEF Promised, Room
<1>4. End(slot'[i]) = IF p.message_length = 0 THEN 8 ELSE p.message_length
  BY <1>1 DEF End
<1> QED
  BY <1>1, <1>3, <1>4

\* Sets that were accounted for and have not grown more than what accounts.
LEMMA Accounts ==
  ASSUME IInv, Books, NEW c \in Nat, Cardinality(Missed') <= Cardinality(Missed) + c,
         lost' = lost, owed' >= owed + c, owed' \in Nat
  PROVE  AllAccountedFor'
<1>1. /\ IsFiniteSet(Missed) /\ IsFiniteSet(Missed')
      /\ Cardinality(Missed) \in Nat /\ Cardinality(Missed') \in Nat
  BY PairsFinite, FS_CardinalityType DEF Missed
<1> QED
  BY <1>1, Counts DEF Books, AllAccountedFor

\* A packet received in its turn: the slot that takes it waits for it no
\* longer; another, begun by the same message, may now wait for it in vain.
LEMMA DeliverBooks ==
  ASSUME IInv, Books, ShortMessages, NEW n \in Nodes, Deliver(n) PROVE Books'
<1> DEFINE x == Handled(n)
           q == publisher[n]
           G(m) == publisher[m].seq_num - Len(tx'[m])
<1>1. /\ publisher' = publisher /\ lost' = lost /\ strays' = strays
      /\ \A m \in Nodes \ {n} : G(m) = Handled(m)
      /\ x \in 0 .. 7 /\ G(n) = x + 1
      /\ x < Parts(q) /\ Parts(q) \in 1 .. 8
  BY OneHandled DEF Deliver, Handled
<1>7. \A m : Handled(m)' = G(m)
  BY <1>1 DEF Handled
<1>8. PICK p : p = tx[n][1]
  OBVIOUS
<1>9. ReceiveMessage(p) /\ tx[n] # <<>> /\ owed' = owed + Promised(p)
  BY <1>8 DEF Deliver
<1>10. /\ Valid(p) /\ p.node = n /\ p.message_num = q.msg_num /\ p.piece.id = q.id
       /\ ~p.piece.stray /\ p.seq_num = x /\ (x # 7 => p.message_length = q.length)
  BY <1>8, <1>9, TurnFacts
<1>11. Promised(p) \in Nat /\ owed \in Nat /\ lost \in Nat /\ owed' \in Nat
  <2>1. Promised(p) \in Nat
    BY <1>10, PromisedIsNat DEF Valid
  <2> QED
    BY <1>9, <2>1, Counts
<1>12. q.id \in Nat /\ (q.length # 0 => Parts(q) = q.length)
  BY <1>1, NodeFacts, PartsFacts
<1> HIDE DEF x, q, G
<1>2. Drops(p) \/ (\E i : Begins(p, i)) \/ (\E i : Extends(p, i))
  BY <1>9, <1>10, WhatReceivingDoes
<1>3. ASSUME NEW i \in DOMAIN slot
      PROVE  /\ i \in SlotIds /\ slot[i].from_node \in Nodes /\ slot[i].decode_index \in 1 .. 7
             /\ OnRecord(slot[i], publisher[slot[i].from_node], Handled(slot[i].from_node),
                         strays)
             /\ OnRecord(slot[i], publisher[slot[i].from_node], G(slot[i].from_node), strays)
  <2>1. /\ OnRecord(slot[i], publisher[slot[i].from_node], Handled(slot[i].from_node), strays)
        /\ slot[i].decode_index \in 1 .. 7 /\ slot[i].from_node \in Nodes
        /\ i \in SlotIds
    BY SlotFacts DEF Books, SlotsOnRecord
  <2>2. CASE slot[i].from_node = n
    <3>1. x \in Int /\ x + 1 \in Int /\ x <= x + 1 /\ slot[i].decode_index \in Int
      BY <1>1, <2>1
    <3>2. OnRecord(slot[i], publisher[n], x, strays)
      BY <2>1, <2>2 DEF x
    <3>3. OnRecord(slot[i], publisher[n], x + 1, strays)
      BY <3>1, <3>2, StaysOnRecord
    <3> QED
      BY <1>1, <2>1, <2>2, <3>3
  <2>3. CASE slot[i].from_node # n
    BY <1>1, <2>1, <2>3
  <2> QED
    BY <2>1, <2>2, <2>3
<1>13. x = 0 => \A i \in DOMAIN slot : slot[i].from_node = n => ~Own(slot[i], q)
  BY <1>1, <1>3 DEF OnRecord, x, q
<1> DEFINE Begun(i) ==
             /\ i \notin DOMAIN slot /\ DOMAIN slot' = DOMAIN slot \cup {i}
             /\ \A j \in DOMAIN slot : slot'[j] = slot[j]
             /\ x = 0 /\ slot'[i].from_node = n /\ slot'[i].from_msg_num = q.msg_num
             /\ slot'[i].size = q.length /\ q.length # 1 /\ slot'[i].decode_index = 1
             /\ slot'[i].pieces[1] = p.piece
             /\ Own(slot'[i], q) <=> q.length # 0
<1>14. ASSUME NEW i, Begins(p, i) PROVE Begun(i)
  <2>1. /\ i \notin DOMAIN slot /\ DOMAIN slot' = DOMAIN slot \cup {i}
        /\ \A j \in DOMAIN slot : slot'[j] = slot[j]
        /\ x = 0 /\ slot'[i].from_node = n /\ slot'[i].from_msg_num = q.msg_num
        /\ slot'[i].size = q.length /\ q.length # 1 /\ slot'[i].decode_index = 1
        /\ slot'[i].pieces[1] = p.piece
    BY <1>10, <1>14 DEF Begins
  <2>2. Own(slot'[i], q) <=> q.length # 0
    BY <1>10, <2>1 DEF Own
  <2> QED
    BY <2>1, <2>2
<1>4. SlotsOnRecord'
  <2> SUFFICES ASSUME NEW i \in DOMAIN slot'
               PROVE  OnRecord(slot'[i], publisher[slot'[i].from_node],
                               G(slot'[i].from_node), strays)
    BY <1>1, <1>7 DEF SlotsOnRecord
  <2>1. CASE Drops(p)
    BY <1>3, <2>1 DEF Drops
  <2>2. ASSUME NEW j, Begins(p, j)
        PROVE  OnRecord(slot'[i], publisher[slot'[i].from_node], G(slot'[i].from_node), strays)
    <3>3. Begun(j)
      BY <1>14, <2>2
    <3>1. CASE i = j
      <4>1. /\ slot'[i].from_node = n /\ slot'[i].from_msg_num = q.msg_num
            /\ slot'[i].size = q.length /\ q.length # 1 /\ slot'[i].decode_index = 1
            /\ slot'[i].pieces[1].id = q.id /\ x = 0 /\ (Own(slot'[i], q) <=> q.length # 0)
        BY <1>10, <3>1, <3>3
      <4>2. 1 < End(slot'[i])
        <5>1. q.length # 0 => q.length \in 0 .. 8 /\ q.length # 1
          BY <1>1, <1>12, <4>1
        <5>2. End(slot'[i]) = IF q.length = 0 THEN 8 ELSE q.length
          BY <4>1 DEF End
        <5> QED
          BY <5>1, <5>2
      <4>3. OnRecord(slot'[i], q, x + 1, strays)
        BY <1>1, <1>12, <4>1, <4>2 DEF OnRecord
      <4> QED
        BY <1>1, <4>1, <4>3 DEF q
    <3>2. CASE i # j
      BY <1>3, <3>2, <3>3
    <3> QED
      BY <3>1, <3>2
  <2>3. ASSUME NEW j, Extends(p, j)
        PROVE  OnRecord(slot'[i], publisher[slot'[i].from_node], G(slot'[i].from_node), strays)
    <3>1. CASE i = j
      <4>1. /\ slot'[i].from_node = n /\ slot'[i].from_msg_num = slot[i].from_msg_num
            /\ slot'[i].size = slot[i].size /\ slot'[i].decode_index = x + 1
            /\ slot'[i].pieces[1] = slot[i].pieces[1]
            /\ slot[i].from_node = n /\ i \in DOMAIN slot
        BY <1>10, <2>3, <3>1 DEF Extends
      <4>2. OnRecord(slot[i], q, x, strays)
        BY <1>3, <4>1 DEF x, q
      <4>4. /\ slot'[i].decode_index < End(slot'[i])
            /\ Own(slot'[i], q) <=> Own(slot[i], q)
        BY <2>3, <3>1, StillWaits
      <4>3. OnRecord(slot'[i], q, x + 1, strays)
        BY <1>1, <4>1, <4>2, <4>4 DEF OnRecord
      <4> QED
        BY <1>1, <4>1, <4>3 DEF q
    <3>2. CASE i # j
      BY <1>3, <2>3, <3>2 DEF Extends
    <3> QED
      BY <3>1, <3>2
  <2> QED
    BY <1>2, <2>1, <2>2, <2>3
<1>5. OneBegun'
  <2> SUFFICES ASSUME NEW j \in DOMAIN slot', NEW k \in DOMAIN slot',
                      slot'[j].from_node = slot'[k].from_node,
                      Own(slot'[j], publisher[slot'[j].from_node]),
                      Own(slot'[k], publisher[slot'[k].from_node])
               PROVE  j = k
    BY <1>1 DEF OneBegun, Own
  <2>1. CASE Drops(p)
    BY <2>1 DEF Drops, Books, OneBegun
  <2>2. ASSUME NEW i, Begins(p, i) PROVE j = k
    <3>4. Begun(i)
      BY <1>14, <2>2
    <3>1. CASE j = i /\ k # i
      BY <1>13, <3>1, <3>4 DEF q
    <3>2. CASE j # i /\ k = i
      BY <1>13, <3>2, <3>4 DEF q
    <3>3. CASE j # i /\ k # i
      BY <3>3, <3>4 DEF Books, OneBegun
    <3> QED
      BY <3>1, <3>2, <3>3
  <2>3. ASSUME NEW i, Extends(p, i) PROVE j = k
    <3>1. \A m \in DOMAIN slot' : /\ m \in DOMAIN slot
                                  /\ slot'[m].from_node = slot[m].from_node
                                  /\ \A r : Own(slot'[m], r) => Own(slot[m], r)
      BY <2>3, StillWaits DEF Extends
    <3> QED
      BY <3>1 DEF Books, OneBegun
  <2> QED
    BY <1>2, <2>1, <2>2, <2>3
<1>6. AllAccountedFor'
  <2>1. IsFiniteSet(Missed) /\ IsFiniteSet(Missed') /\ Cardinality(Missed) \in Nat
        /\ Cardinality(Missed') \in Nat
    BY PairsFinite, FS_CardinalityType DEF Missed
  <2>7. ASSUME NEW c \in Nat, c <= Promised(p), Cardinality(Missed') <= Cardinality(Missed) + c
        PROVE  AllAccountedFor'
    BY <1>1, <1>9, <1>11, <2>7, Accounts
  <2>8. ASSUME Missed' \subseteq Missed PROVE AllAccountedFor'
    <3>1. Cardinality(Missed') <= Cardinality(Missed) + 0 /\ 0 \in Nat
      BY <2>1, <2>8, FS_Subset
    <3> QED
      BY <1>11, <2>7, <3>1
  <2>2. ASSUME NEW m \in Missed'
        PROVE  /\ m \in SlotIds \X (0 .. 31) /\ m[1] \in DOMAIN slot'
               /\ Misses(slot'[m[1]], publisher[slot'[m[1]].from_node],
                         G(slot'[m[1]].from_node), m[2])
               /\ m = <<m[1], m[2]>> /\ m[2] \in 0 .. 31
    BY <1>1, <1>7 DEF Missed, MissesIn, Misses, Own, End
  <2>3. ASSUME NEW m \in SlotIds \X (0 .. 31), m[1] \in DOMAIN slot, m \notin Missed,
               Misses(slot[m[1]], publisher[slot[m[1]].from_node],
                      G(slot[m[1]].from_node), m[2])
        PROVE  slot[m[1]].from_node = n /\ Own(slot[m[1]], q) /\ m[2] = x
    <3>1. ~Misses(slot[m[1]], publisher[slot[m[1]].from_node],
                  Handled(slot[m[1]].from_node), m[2])
      BY <2>3 DEF Missed, MissesIn
    <3>2. slot[m[1]].from_node = n
      BY <1>1, <1>3, <2>3, <3>1
    <3>3. Own(slot[m[1]], q) /\ m[2] < x + 1 /\ ~(m[2] < x) /\ m[2] \in 0 .. 31
      BY <1>1, <2>3, <3>1, <3>2 DEF Misses, q, x
    <3> QED
      BY <1>1, <3>2, <3>3
  <2>4. CASE Drops(p)
    <3>1. Missed' \subseteq Missed
      <4> SUFFICES ASSUME NEW m \in Missed', m \notin Missed PROVE FALSE
        OBVIOUS
      <4>1. m[1] \in DOMAIN slot /\ slot'[m[1]] = slot[m[1]]
        BY <2>2, <2>4 DEF Drops
      <4>2. slot[m[1]].from_node = n /\ Own(slot[m[1]], q)
        BY <2>2, <2>3, <4>1
      <4>3. x # 0
        BY <1>13, <4>1, <4>2
      <4> QED
        BY <1>10, <2>2, <2>4, <4>2, <4>3 DEF Drops
    <3> QED
      BY <2>8, <3>1
  <2>5. ASSUME NEW i, Begins(p, i) PROVE AllAccountedFor'
    <3>4. Begun(i)
      BY <1>14, <2>5
    <3>1. ASSUME NEW m \in Missed', m[1] # i PROVE m \in Missed
      <4> SUFFICES ASSUME m \notin Missed PROVE FALSE
        OBVIOUS
      <4>1. m[1] \in DOMAIN slot /\ slot'[m[1]] = slot[m[1]] /\ x = 0
        BY <2>2, <3>1, <3>4
      <4>2. slot[m[1]].from_node = n /\ Own(slot[m[1]], q)
        BY <2>2, <2>3, <4>1
      <4> QED
        BY <1>13, <4>1, <4>2
    <3>2. CASE q.length # 0
      <4>1. ASSUME NEW m \in Missed', m[1] = i PROVE FALSE
        <5>1. /\ slot'[i].from_node = n /\ x = 0 /\ slot'[i].decode_index = 1
              /\ Own(slot'[i], q)
          BY <3>2, <3>4
        <5>2. m[2] < x + 1 /\ 1 <= m[2]
          BY <1>1, <2>2, <4>1, <5>1 DEF Misses, q
        <5> QED
          BY <2>2, <4>1, <5>1, <5>2
      <4>2. Missed' \subseteq Missed
        BY <3>1, <4>1
      <4> QED
        BY <2>8, <4>2
    <3>3. CASE q.length = 0
      <4>1. End(slot'[i]) = Promised(p) + 1
        <5>1. p.message_length = 0
          BY <1>10, <3>3, <3>4
        <5> QED
          BY <1>10, <2>5, <5>1, BegunIsPromised
      <4>2. ASSUME NEW m \in Missed', m \notin Missed
            PROVE  m = <<i, m[2]>> /\ m[2] \in 1 .. Promised(p)
        <5>1. m[1] = i
          BY <3>1, <4>2
        <5>2. /\ slot'[i].decode_index = 1
          BY <3>4
        <5>3. 1 <= m[2] /\ m[2] < Promised(p) + 1 /\ m[2] \in 0 .. 31
          BY <2>2, <4>1, <4>2, <5>1, <5>2 DEF Misses
        <5>4. m[2] \in 1 .. Promised(p)
          BY <1>11, <5>3
        <5> QED
          BY <2>2, <4>2, <5>1, <5>4
      <4>3. Cardinality(Missed') <= Cardinality(Missed) + Promised(p)
        BY <1>11, <2>1, <4>2, AddedFor
      <4> QED
        BY <1>11, <2>7, <4>3
    <3> QED
      BY <3>2, <3>3
  <2>6. ASSUME NEW i, Extends(p, i) PROVE AllAccountedFor'
    <3>1. /\ i \in DOMAIN slot /\ slot[i].from_node = n /\ slot[i].decode_index = x
          /\ DOMAIN slot' \subseteq DOMAIN slot
          /\ \A j \in DOMAIN slot' : j # i => slot'[j] = slot[j]
          /\ i \in DOMAIN slot' => /\ slot'[i].from_node = n /\ slot'[i].decode_index = x + 1
                                   /\ End(slot'[i]) = End(slot[i])
                                   /\ Own(slot'[i], q) <=> Own(slot[i], q)
      BY <1>10, <2>6, StillWaits DEF Extends
    <3>2. \A m \in Missed' : m[1] = i => m \in Missed /\ m[2] # x /\ ~Own(slot[i], q)
      <4> SUFFICES ASSUME NEW m \in Missed', m[1] = i
                   PROVE  m \in Missed /\ m[2] # x /\ ~Own(slot[i], q)
        OBVIOUS
      <4>1. /\ x + 1 <= m[2] /\ m[2] < End(slot[i]) /\ m[2] \in 0 .. 31
            /\ Own(slot[i], q) => m[2] < x + 1
        BY <1>1, <2>2, <3>1 DEF Misses, q
      <4>2. ~Own(slot[i], q) /\ m[2] # x /\ x <= m[2]
        BY <1>1, <4>1
      <4>3. Misses(slot[i], q, x, m[2])
        BY <3>1, <4>1, <4>2 DEF Misses
      <4> QED
        BY <2>2, <3>1, <4>2, <4>3 DEF Missed, MissesIn, q, x
    <3>3. \A m \in Missed' : m[1] # i /\ m \notin Missed =>
            m[2] = x /\ slot[m[1]].from_node = n /\ Own(slot[m[1]], q)
            /\ m[1] \in DOMAIN slot
      <4> SUFFICES ASSUME NEW m \in Missed', m[1] # i, m \notin Missed
                   PROVE  m[2] = x /\ slot[m[1]].from_node = n /\ Own(slot[m[1]], q)
                          /\ m[1] \in DOMAIN slot
        OBVIOUS
      <4> QED
        BY <2>2, <2>3, <3>1
    <3>4. CASE Own(slot[i], q)
      <4>1. Missed' \subseteq Missed
        <5> SUFFICES ASSUME NEW m \in Missed', m \notin Missed PROVE FALSE
          OBVIOUS
        <5>1. m[1] # i
          BY <3>2
        <5> QED
          BY <3>1, <3>3, <3>4, <5>1 DEF Books, OneBegun, q
      <4> QED
        BY <2>8, <4>1
    <3>5. CASE ~Own(slot[i], q)
      <4>1. <<i, x>> \in Missed
        <5>1. x < End(slot[i]) /\ i \in SlotIds
          BY <1>3, <3>1 DEF OnRecord
        <5>2. Misses(slot[i], q, x, x) /\ x \in 0 .. 31
          BY <1>1, <3>1, <3>5, <5>1 DEF Misses
        <5>3. <<i, x>> \in SlotIds \X (0 .. 31)
          BY <5>1, <5>2
        <5> QED
          BY <3>1, <5>2, <5>3 DEF Missed, MissesIn, q, x
      <4>2. PICK k : \A j \in DOMAIN slot : slot[j].from_node = n
                          /\ Own(slot[j], publisher[n]) => j = k
        BY DEF Books, OneBegun
      <4>3. Missed' \subseteq (Missed \ {<<i, x>>}) \cup {<<k, x>>}
        <5> SUFFICES ASSUME NEW m \in Missed', m # <<k, x>>
                     PROVE  m \in Missed /\ m # <<i, x>>
          OBVIOUS
        <5>1. CASE m[1] = i
          BY <3>2, <5>1
        <5>2. CASE m[1] # i
          <6>1. ASSUME m \notin Missed PROVE FALSE
            <7>1. m[2] = x /\ m[1] = k
              BY <3>3, <4>2, <5>2, <6>1 DEF q
            <7> QED
              BY <2>2, <7>1
          <6> QED
            BY <5>2, <6>1
        <5> QED
          BY <5>1, <5>2
      <4>4. Cardinality(Missed') <= Cardinality(Missed)
        BY <2>1, <4>1, <4>3, Exchange
      <4>5. Cardinality(Missed') <= Cardinality(Missed) + 0 /\ 0 \in Nat
        BY <2>1, <4>4
      <4> QED
        BY <1>11, <2>7, <4>5
    <3> QED
      BY <3>4, <3>5
  <2> QED
    BY <1>2, <2>4, <2>5, <2>6
<1> QED
  BY <1>4, <1>5, <1>6, HandledKeeps DEF Books

\* A packet received out of its turn takes a slot further or clears slots, and
\* one that begins a slot waits for what was promised to it, no more.
LEMMA StrayBooks ==
  ASSUME IInv, Books, ShortMessages, NEW o \in past, Stray(o) PROVE Books'
<1>1. /\ publisher' = publisher /\ tx' = tx /\ lost' = lost /\ strays' # 0
  BY Counts DEF Stray
<1>2. PICK p : p = AsStray(o)
  OBVIOUS
<1>3. ReceiveMessage(p) /\ owed' = owed + Promised(p)
  BY <1>2 DEF Stray
<1>4. Valid(p) /\ HasCome(p.node, p.piece) /\ p.piece.stray /\ p.node \in Nodes
  BY <1>2, StrayIsValid
<1>5. Promised(p) \in Nat /\ owed \in Nat /\ lost \in Nat /\ owed' \in Nat
  <2>1. Promised(p) \in Nat
    BY <1>4, PromisedIsNat DEF Valid
  <2> QED
    BY <1>3, <2>1, Counts
<1>6. Drops(p) \/ (\E i : Begins(p, i)) \/ (\E i : Extends(p, i))
  BY <1>3, <1>4, WhatReceivingDoes
<1>7. ASSUME NEW i \in DOMAIN slot
      PROVE  /\ i \in SlotIds /\ slot[i].from_node \in Nodes /\ slot[i].decode_index \in 1 .. 7
             /\ OnRecord(slot[i], publisher[slot[i].from_node], Handled(slot[i].from_node),
                         strays)
             /\ OnRecord(slot[i], publisher[slot[i].from_node], Handled(slot[i].from_node),
                         strays')
  <2>1. /\ OnRecord(slot[i], publisher[slot[i].from_node], Handled(slot[i].from_node), strays)
        /\ slot[i].decode_index \in 1 .. 7 /\ slot[i].from_node \in Nodes /\ i \in SlotIds
    BY <1>7, SlotFacts DEF Books, SlotsOnRecord
  <2>2. OnRecord(slot[i], publisher[slot[i].from_node], Handled(slot[i].from_node), strays')
    BY <1>1, <2>1 DEF OnRecord
  <2> QED
    BY <2>1, <2>2
<1> DEFINE Begun(i) ==
             /\ i \notin DOMAIN slot /\ DOMAIN slot' = DOMAIN slot \cup {i}
             /\ \A j \in DOMAIN slot : slot'[j] = slot[j]
             /\ slot'[i].from_node = p.node /\ slot'[i].decode_index = 1
             /\ slot'[i].pieces[1] = p.piece
             /\ \A q : ~Own(slot'[i], q)
             /\ End(slot'[i]) = Promised(p) + 1 /\ 1 < End(slot'[i])
<1>8. ASSUME NEW i, Begins(p, i) PROVE Begun(i)
  <2>1. /\ i \notin DOMAIN slot /\ DOMAIN slot' = DOMAIN slot \cup {i}
        /\ \A j \in DOMAIN slot : slot'[j] = slot[j]
        /\ slot'[i].from_node = p.node /\ slot'[i].decode_index = 1
        /\ slot'[i].pieces[1] = p.piece
        /\ slot'[i].size = p.message_length /\ p.message_length # 1
    BY <1>8 DEF Begins
  <2>2. \A q : ~Own(slot'[i], q)
    BY <1>4, <2>1 DEF Own
  <2>3. End(slot'[i]) = Promised(p) + 1
    BY <1>4, <1>8, BegunIsPromised
  <2>4. p.message_length \in 0 .. 32
    BY <1>4, PacketFacts
  <2>5. 1 < End(slot'[i])
    BY <2>1, <2>4 DEF End
  <2> QED
    BY <2>1, <2>2, <2>3, <2>5
<1>9. SlotsOnRecord'
  <2> SUFFICES ASSUME NEW i \in DOMAIN slot'
               PROVE  OnRecord(slot'[i], publisher[slot'[i].from_node],
                               Handled(slot'[i].from_node), strays')
    BY <1>1 DEF SlotsOnRecord, Handled
  <2>1. CASE Drops(p)
    BY <1>7, <2>1 DEF Drops
  <2>2. ASSUME NEW j, Begins(p, j)
        PROVE  OnRecord(slot'[i], publisher[slot'[i].from_node],
                        Handled(slot'[i].from_node), strays')
    <3>3. Begun(j)
      BY <1>8, <2>2
    <3>1. CASE i = j
      <4>1. /\ slot'[i].from_node = p.node /\ slot'[i].decode_index = 1
            /\ slot'[i].pieces[1] = p.piece /\ 1 < End(slot'[i])
            /\ ~Own(slot'[i], publisher[p.node])
        BY <3>1, <3>3
      <4>2. p.piece.id <= publisher[p.node].id
        <5>1. publisher[p.node].id \in Nat /\ p.piece.id \in Nat
          BY <1>4, NodeFacts, PacketFacts DEF Piece
        <5> QED
          BY <1>4, <5>1 DEF HasCome
      <4> QED
        BY <4>1, <4>2 DEF OnRecord
    <3>2. CASE i # j
      BY <1>7, <3>2, <3>3
    <3> QED
      BY <3>1, <3>2
  <2>3. ASSUME NEW j, Extends(p, j)
        PROVE  OnRecord(slot'[i], publisher[slot'[i].from_node],
                        Handled(slot'[i].from_node), strays')
    <3>1. CASE i = j
      <4>1. /\ slot'[i].from_node = slot[i].from_node
            /\ slot'[i].from_msg_num = slot[i].from_msg_num
            /\ slot'[i].size = slot[i].size
            /\ slot'[i].pieces[1] = slot[i].pieces[1] /\ i \in DOMAIN slot
        BY <2>3, <3>1 DEF Extends
      <4>2. /\ slot'[i].decode_index < End(slot'[i])
            /\ \A q : Own(slot'[i], q) <=> Own(slot[i], q)
        BY <2>3, <3>1, StillWaits
      <4>3. OnRecord(slot[i], publisher[slot[i].from_node], Handled(slot[i].from_node), strays')
        BY <1>7, <4>1
      <4> QED
        BY <1>1, <4>1, <4>2, <4>3 DEF OnRecord
    <3>2. CASE i # j
      BY <1>7, <2>3, <3>2 DEF Extends
    <3> QED
      BY <3>1, <3>2
  <2> QED
    BY <1>6, <2>1, <2>2, <2>3
<1>10. OneBegun'
  <2> SUFFICES ASSUME NEW j \in DOMAIN slot', NEW k \in DOMAIN slot',
                      slot'[j].from_node = slot'[k].from_node,
                      Own(slot'[j], publisher[slot'[j].from_node]),
                      Own(slot'[k], publisher[slot'[k].from_node])
               PROVE  j = k
    BY <1>1 DEF OneBegun, Own
  <2>1. \A m \in DOMAIN slot' : \A r : Own(slot'[m], r) =>
          m \in DOMAIN slot /\ slot'[m].from_node = slot[m].from_node /\ Own(slot[m], r)
    <3>1. CASE Drops(p)
      BY <3>1 DEF Drops
    <3>2. ASSUME NEW i, Begins(p, i)
          PROVE  \A m \in DOMAIN slot' : \A r : Own(slot'[m], r) =>
                   m \in DOMAIN slot /\ slot'[m].from_node = slot[m].from_node
                   /\ Own(slot[m], r)
      <4>1. Begun(i)
        BY <1>8, <3>2
      <4> QED
        BY <4>1
    <3>3. ASSUME NEW i, Extends(p, i)
          PROVE  \A m \in DOMAIN slot' : \A r : Own(slot'[m], r) =>
                   m \in DOMAIN slot /\ slot'[m].from_node = slot[m].from_node
                   /\ Own(slot[m], r)
      BY <3>3, StillWaits DEF Extends
    <3> QED
      BY <1>6, <3>1, <3>2, <3>3
  <2> QED
    BY <2>1 DEF Books, OneBegun
<1>11. AllAccountedFor'
  <2>1. ASSUME NEW m \in Missed'
        PROVE  /\ m \in SlotIds \X (0 .. 31) /\ m[1] \in DOMAIN slot'
               /\ Misses(slot'[m[1]], publisher[slot'[m[1]].from_node],
                         Handled(slot'[m[1]].from_node), m[2])
               /\ m = <<m[1], m[2]>> /\ m[2] \in 0 .. 31
    BY <1>1 DEF Missed, MissesIn, Misses, Own, End, Handled
  <2>2. ASSUME NEW m \in Missed', m[1] \in DOMAIN slot, slot'[m[1]] = slot[m[1]]
        PROVE  m \in Missed
    BY <2>1, <2>2 DEF Missed, MissesIn
  <2>3. \E c \in Nat : c <= Promised(p) /\ Cardinality(Missed') <= Cardinality(Missed) + c
    <3>1. IsFiniteSet(Missed) /\ Cardinality(Missed) \in Nat
      BY PairsFinite, FS_CardinalityType DEF Missed
    <3>2. ASSUME Missed' \subseteq Missed
          PROVE  Cardinality(Missed') <= Cardinality(Missed) + Promised(p)
      <4>1. Cardinality(Missed') <= Cardinality(Missed) /\ IsFiniteSet(Missed')
        BY <3>1, <3>2, FS_Subset
      <4>2. Cardinality(Missed') \in Nat
        BY <4>1, FS_CardinalityType
      <4> QED
        BY <1>5, <3>1, <4>1, <4>2
    <3>3. CASE Drops(p)
      <4>1. Missed' \subseteq Missed
        BY <2>1, <2>2, <3>3 DEF Drops
      <4> QED
        BY <1>5, <3>2, <4>1
    <3>4. ASSUME NEW i, Begins(p, i)
          PROVE  Cardinality(Missed') <= Cardinality(Missed) + Promised(p)
      <4>2. Begun(i)
        BY <1>8, <3>4
      <4>1. ASSUME NEW m \in Missed', m \notin Missed
            PROVE  m = <<i, m[2]>> /\ m[2] \in 1 .. Promised(p)
        <5>1. m[1] = i
          BY <2>1, <2>2, <4>1, <4>2
        <5>2. slot'[i].decode_index = 1 /\ End(slot'[i]) = Promised(p) + 1
          BY <4>2
        <5>3. 1 <= m[2] /\ m[2] < Promised(p) + 1 /\ m[2] \in 0 .. 31
          BY <2>1, <4>1, <5>1, <5>2 DEF Misses
        <5>4. m[2] \in 1 .. Promised(p)
          BY <1>5, <5>3
        <5> QED
          BY <2>1, <4>1, <5>1, <5>4
      <4> QED
        BY <1>5, <3>1, <4>1, AddedFor
    <3>5. ASSUME NEW i, Extends(p, i) PROVE Missed' \subseteq Missed
      <4> SUFFICES ASSUME NEW m \in Missed' PROVE m \in Missed
        OBVIOUS
      <4>1. CASE m[1] = i
        <5>1. /\ i \in DOMAIN slot /\ slot'[i].from_node = slot[i].from_node
              /\ slot'[i].decode_index = slot[i].decode_index + 1
              /\ slot[i].decode_index \in Int
          BY <2>1, <3>5, <4>1 DEF Extends
        <5>2. /\ End(slot'[i]) = End(slot[i])
              /\ \A q : Own(slot'[i], q) <=> Own(slot[i], q)
          BY <2>1, <3>5, <4>1, StillWaits
        <5>3. Misses(slot[i], publisher[slot[i].from_node], Handled(slot[i].from_node), m[2])
          BY <2>1, <4>1, <5>1, <5>2 DEF Misses
        <5> QED
          BY <2>1, <4>1, <5>1, <5>3 DEF Missed, MissesIn
      <4>2. CASE m[1] # i
        BY <2>1, <2>2, <3>5, <4>2 DEF Extends
      <4> QED
        BY <4>1, <4>2
    <3> QED
      BY <1>5, <1>6, <3>2, <3>3, <3>4, <3>5
  <2> QED
    BY <1>1, <1>3, <1>5, <2>3, Accounts
<1>12. CountersOK' /\ LengthsAnnounced'
  BY <1>1 DEF Books, CountersOK, LengthsAnnounced, Parts, Blocks
<1> QED
  BY <1>9, <1>10, <1>11, <1>12 DEF Books

\* Slots in use: those begun by messages on their way, one for a node at most,
\* and those that miss a packet.
LEMMA BooksCount == ASSUME IInv, Books PROVE SlotsAccountedFor
<1> DEFINE A == {n \in Nodes : Active(n)}
           Live == {i \in DOMAIN slot : /\ Own(slot[i], publisher[slot[i].from_node])
                                        /\ Active(slot[i].from_node)}
           Left == DOMAIN slot \ Live
           f == [i \in Live |-> slot[i].from_node]
           g == [i \in Left |-> <<i, slot[i].decode_index>>]
<1>1. IsFiniteSet(A)
  BY TransportAssumption, FS_Subset DEF TransportAssumption
<1>2. IsFiniteSet(Live) /\ Cardinality(Live) <= Cardinality(A)
  <2>1. f \in [Live -> A]
    BY SlotFacts
  <2>2. \A i, j \in Live : f[i] = f[j] => i = j
    BY DEF Books, OneBegun
  <2> HIDE DEF f, Live, A
  <2> QED
    BY <1>1, <2>1, <2>2, OneToOne
<1>3. IsFiniteSet(Left) /\ Cardinality(Left) <= Cardinality(Missed)
  <2>1. ASSUME NEW i \in Left PROVE <<i, slot[i].decode_index>> \in Missed
    <3> DEFINE n == slot[i].from_node
               d == slot[i].decode_index
    <3>1. /\ i \in DOMAIN slot /\ i \in SlotIds /\ n \in Nodes /\ d \in 1 .. 7
          /\ OnRecord(slot[i], publisher[n], Handled(n), strays) /\ slot[i].size \in 0 .. 32
      BY SlotFacts DEF Books, SlotsOnRecord
    <3>2. Own(slot[i], publisher[n]) => d < Handled(n)
      <4> SUFFICES ASSUME Own(slot[i], publisher[n]) PROVE d < Handled(n)
        OBVIOUS
      <4>1. ~publisher[n].in_progress /\ tx[n] = <<>>
        BY <3>1 DEF Active
      <4>2. Handled(n) = publisher[n].seq_num - 0
        BY <4>1 DEF Handled
      <4>3. /\ publisher[n].seq_num \in 0 .. 31 /\ Parts(publisher[n]) \in 0 .. 8
            /\ ~(publisher[n].seq_num < Parts(publisher[n]))
        BY <3>1, <4>1, NodeFacts, PartsFacts
      <4>4. d < Parts(publisher[n])
        <5>1. Own(slot[i], publisher[n])
          OBVIOUS
        <5> QED
          BY <3>1, <5>1 DEF OnRecord, Own, End
      <4> HIDE DEF n, d
      <4> QED
        BY <3>1, <4>2, <4>3, <4>4
    <3>3. Misses(slot[i], publisher[n], Handled(n), d) /\ d \in 0 .. 31
      <4>1. d < End(slot[i])
        BY <3>1 DEF OnRecord
      <4> QED
        BY <3>1, <3>2, <4>1 DEF Misses
    <3>4. <<i, d>> \in SlotIds \X (0 .. 31)
      BY <3>1, <3>3
    <3> QED
      BY <3>1, <3>3, <3>4 DEF Missed, MissesIn
  <2>2. g \in [Left -> Missed]
    BY <2>1
  <2>3. \A i, j \in Left : g[i] = g[j] => i = j
    OBVIOUS
  <2>4. IsFiniteSet(Missed)
    BY PairsFinite DEF Missed
  <2> HIDE DEF g, Left
  <2> QED
    BY <2>2, <2>3, <2>4, OneToOne
<1>4. Cardinality(DOMAIN slot) <= Cardinality(Live) + Cardinality(Left)
  <2>1. DOMAIN slot = Live \cup Left /\ Live \cap Left = {}
    OBVIOUS
  <2> HIDE DEF Live, Left
  <2>2. Cardinality(Live \cup Left)
          = Cardinality(Live) + Cardinality(Left) - Cardinality(Live \cap Left)
    BY <1>2, <1>3, FS_Union
  <2>3. Cardinality(Live \cap Left) = 0
    BY <2>1, FS_EmptySet
  <2>4. Cardinality(Live) \in Nat /\ Cardinality(Left) \in Nat
    BY <1>2, <1>3, FS_CardinalityType
  <2> QED
    BY <2>1, <2>2, <2>3, <2>4
<1>5. /\ Cardinality(Live) \in Nat /\ Cardinality(Left) \in Nat /\ Cardinality(A) \in Nat
      /\ Cardinality(Missed) \in Nat /\ IsFiniteSet(DOMAIN slot)
      /\ Cardinality(DOMAIN slot) \in Nat
  <2>1. DOMAIN slot = Live \cup Left
    OBVIOUS
  <2> HIDE DEF Live, Left, A
  <2>2. IsFiniteSet(Missed)
    BY PairsFinite DEF Missed
  <2>3. IsFiniteSet(DOMAIN slot)
    BY <1>2, <1>3, <2>1, FS_Union
  <2> QED
    BY <1>1, <1>2, <1>3, <2>2, <2>3, FS_CardinalityType
<1>6. lost \in Nat /\ owed \in Nat
  BY Counts
<1>7. Cardinality(Missed) <= lost + owed
  BY DEF Books, AllAccountedFor
<1>8. SlotsAccountedFor <=> Cardinality(DOMAIN slot) <= Cardinality(A) + lost + owed
  BY DEF SlotsAccountedFor
<1> HIDE DEF Live, Left, A, f, g
<1> QED
  BY <1>2, <1>3, <1>4, <1>5, <1>6, <1>7, <1>8

LEMMA StutterBooks == ASSUME Books, UNCHANGED vars PROVE Books'
<1>1. CountersOK' /\ LengthsAnnounced' /\ SlotsOnRecord' /\ OneBegun'
  BY DEF Books, vars, ghosts, CountersOK, LengthsAnnounced, SlotsOnRecord, OneBegun,
         OnRecord, Own, End, Handled, Parts, Blocks
<1>2. AllAccountedFor'
  <2>1. Missed' = Missed
    BY DEF vars, Missed, MissesIn, Misses, Own, End, Handled
  <2> QED
    BY <2>1 DEF Books, AllAccountedFor, vars, ghosts
<1> QED
  BY <1>1, <1>2 DEF Books

LEMMA BooksAreKept == ASSUME ShortMessages PROVE Spec => [](IInv /\ Books)
<1>1. IInv /\ Books /\ [Next]_vars => (IInv /\ Books)'
  <2> SUFFICES ASSUME IInv, Books, [Next]_vars PROVE (IInv /\ Books)'
    OBVIOUS
  <2>1. ASSUME NEW n \in Nodes, Deliver(n) PROVE (IInv /\ Books)'
    BY <2>1, DeliverIInv, DeliverBooks
  <2>2. ASSUME NEW n \in Nodes, Lose(n) PROVE (IInv /\ Books)'
    BY <2>2, LoseIInv, LoseBooks
  <2>3. ASSUME NEW n \in Nodes, NEW length \in Lengths[n], Send(n, length)
        PROVE  (IInv /\ Books)'
    BY <2>3, SendIInv, SendBooks
  <2>4. ASSUME NEW p \in past, Stray(p) PROVE (IInv /\ Books)'
    BY <2>4, StrayIInv, StrayBooks
  <2>5. CASE UNCHANGED vars
    BY <2>5, StutterIInv, StutterBooks
  <2> QED
    BY <2>1, <2>2, <2>3, <2>4, <2>5 DEF Next
<1> QED
  BY <1>1, InitIInv, InitBooks, PTL DEF Spec

\* Whatever is lost and whatever comes again or late, the construction slots in
\* use are at most one for each node that is sending, one for each packet that
\* was lost and one for each that a message begun by a stray, or by an empty
\* message, was promised and nobody sends; for messages of at most eight packets.
THEOREM SlotsDoNotLeak == ASSUME ShortMessages PROVE Spec => []SlotsAccountedFor
<1>1. IInv /\ Books => SlotsAccountedFor
  BY BooksCount
<1> QED
  BY <1>1, BooksAreKept, PTL

----------------------------------------------------------------------------
(* When every packet has its turn and there is a slot for each node, nothing *)
(* is missing.                                                              *)

Roomy == lost = 0 /\ strays = 0 /\ owed = 0 /\ Cardinality(Nodes) <= SlotCount

\* What has been delivered of a node's messages.
From(n) == {k \in DOMAIN delivered : delivered[k].from_node = n}

\* A message on its way is in a slot, and those sent to the end are delivered.
Arrives ==
  Roomy => \A n \in Nodes :
    /\ 0 < Handled(n) /\ Handled(n) < Parts(publisher[n]) =>
         \E i \in DOMAIN slot : slot[i].from_node = n
    /\ Sent(n) <= Cardinality(From(n))

LEMMA FromFinite ==
  ASSUME IInv, NEW n PROVE IsFiniteSet(From(n)) /\ Cardinality(From(n)) \in Nat
<1>1. delivered \in Seq(Construction)
  BY DEF IInv, TypeOK
<1>2. DOMAIN delivered = 1 .. Len(delivered) /\ Len(delivered) \in Int /\ 1 \in Int
  BY <1>1
<1>3. IsFiniteSet(DOMAIN delivered)
  BY <1>2, FS_Interval
<1>4. From(n) \in SUBSET DOMAIN delivered
  BY DEF From
<1> QED
  BY <1>3, <1>4, FS_Subset, FS_CardinalityType

\* A node is active until the last packet of its message is handled.
LEMMA SentIs ==
  ASSUME IInv, Books, NEW n \in Nodes
  PROVE  /\ Handled(n) \in Int /\ Parts(publisher[n]) \in 0 .. 8 /\ publisher[n].id \in Nat
         /\ Sent(n) = IF Handled(n) < Parts(publisher[n]) THEN publisher[n].id - 1
                      ELSE publisher[n].id
<1> DEFINE a == publisher[n].seq_num
           l == Parts(publisher[n])
           t == Len(tx[n])
<1>1. /\ a \in 0 .. 31 /\ l \in 0 .. 8 /\ t \in 0 .. 1 /\ publisher[n].id \in Nat
      /\ a <= l /\ Handled(n) = a - t
  BY NodeFacts, PartsFacts DEF Handled
<1>2. publisher[n].in_progress <=> a < l
  BY PartsFacts
<1>3. Active(n) <=> (publisher[n].in_progress \/ t # 0)
  BY NodeFacts DEF Active
<1> HIDE DEF a, l, t
<1>4. Active(n) <=> Handled(n) < l
  BY <1>1, <1>2, <1>3
<1>5. Handled(n) \in Int /\ l \in 0 .. 8
  BY <1>1
<1> QED
  BY <1>1, <1>4, <1>5 DEF Sent, l

\* With nothing lost or owed every slot waits for the very packet its node
\* sends next.
LEMMA OnTime ==
  ASSUME IInv, Books, Roomy, NEW i \in DOMAIN slot
  PROVE  /\ slot[i].from_node \in Nodes
         /\ Own(slot[i], publisher[slot[i].from_node])
         /\ slot[i].decode_index = Handled(slot[i].from_node)
         /\ slot[i].from_msg_num = publisher[slot[i].from_node].msg_num
         /\ slot[i].size = Parts(publisher[slot[i].from_node])
<1> DEFINE n == slot[i].from_node
           d == slot[i].decode_index
<1>1. IsFiniteSet(Missed) /\ Cardinality(Missed) \in Nat
  BY PairsFinite, FS_CardinalityType DEF Missed
<1>2. Cardinality(Missed) <= 0
  BY DEF Books, AllAccountedFor, Roomy
<1>3. Cardinality(Missed) = 0
  BY <1>1, <1>2
<1>4. Missed = {}
  BY <1>1, <1>3, FS_EmptySet
<1>5. /\ i \in SlotIds /\ n \in Nodes /\ d \in 1 .. 7
      /\ OnRecord(slot[i], publisher[n], Handled(n), strays)
  BY SlotFacts DEF Books, SlotsOnRecord
<1>6. d \in 0 .. 31 /\ d < End(slot[i]) /\ <<i, d>> \in SlotIds \X (0 .. 31)
  BY <1>5 DEF OnRecord
<1>7. ~Misses(slot[i], publisher[n], Handled(n), d)
  BY <1>4, <1>6 DEF Missed, MissesIn
<1>8. Own(slot[i], publisher[n]) /\ ~(d < Handled(n))
  BY <1>5, <1>6, <1>7 DEF Misses
<1>9. d <= Handled(n) /\ Handled(n) \in Int
  BY <1>5, <1>8, SentIs DEF OnRecord, Roomy
<1>10. d = Handled(n)
  <2> HIDE DEF d, n
  <2> QED
    BY <1>5, <1>8, <1>9
<1> QED
  BY <1>5, <1>8, <1>10 DEF OnRecord

\* There is a free slot for a first packet.
LEMMA RoomForFirst ==
  ASSUME IInv, Books, Roomy, NEW n \in Nodes, Handled(n) = 0
  PROVE  SlotIds \ DOMAIN slot # {}
<1> SUFFICES ASSUME SlotIds \ DOMAIN slot = {} PROVE FALSE
  OBVIOUS
<1>1. DOMAIN slot = SlotIds
  BY DEF IInv, SlotsOK
<1> DEFINE f == [i \in SlotIds |-> slot[i].from_node]
           R == Nodes \ {n}
<1>2. \A i \in SlotIds : /\ slot[i].from_node \in R
                         /\ Own(slot[i], publisher[slot[i].from_node])
  <2> SUFFICES ASSUME NEW i \in SlotIds
               PROVE  /\ slot[i].from_node \in R
                      /\ Own(slot[i], publisher[slot[i].from_node])
    OBVIOUS
  <2>1. slot[i].decode_index # 0
    BY <1>1, SlotFacts
  <2> QED
    BY <1>1, <2>1, OnTime
<1>3. f \in [SlotIds -> R] /\ \A i, j \in SlotIds : f[i] = f[j] => i = j
  BY <1>1, <1>2 DEF Books, OneBegun
<1>4. IsFiniteSet(Nodes) /\ SlotCount \in Nat
  BY TransportAssumption DEF TransportAssumption
<1>5. IsFiniteSet(R) /\ Cardinality(R) = Cardinality(Nodes) - 1 /\ Cardinality(Nodes) \in Nat
  BY <1>4, FS_RemoveElement, FS_CardinalityType
<1> HIDE DEF f, R
<1>6. Cardinality(SlotIds) <= Cardinality(R)
  BY <1>3, <1>5, OneToOne
<1>7. Cardinality(SlotIds) = SlotCount
  BY <1>4, FS_Interval DEF SlotIds
<1> QED
  BY <1>4, <1>5, <1>6, <1>7 DEF Roomy

\* The packet is received where it belongs: the last one delivers its message.
LEMMA WhatArrives ==
  ASSUME IInv, Books, NoSpecialMode, ShortMessages, Roomy, Roomy', Arrives,
         NEW n \in Nodes, Deliver(n)
  PROVE  /\ \A j \in DOMAIN slot : slot[j].from_node # n =>
              j \in DOMAIN slot' /\ slot'[j] = slot[j]
         /\ \/ /\ Handled(n) + 1 = Parts(publisher[n])
               /\ \E m : m.from_node = n /\ delivered' = Append(delivered, m)
                        /\ m \in Construction
            \/ /\ Handled(n) + 1 # Parts(publisher[n]) /\ delivered' = delivered
               /\ \E i \in DOMAIN slot' : slot'[i].from_node = n
<1> DEFINE x == Handled(n)
           l == Parts(publisher[n])
<1>10. PICK p : p = tx[n][1]
  OBVIOUS
<1>1. /\ tx[n] # <<>> /\ ReceiveMessage(p) /\ IInv' /\ owed' = owed + Promised(p)
  BY <1>10, DeliverIInv DEF Deliver
<1>2. /\ Valid(p) /\ p.seq_num = x /\ p.node = n /\ p.message_num = publisher[n].msg_num
      /\ x \in 0 .. 7 /\ SeqNum(p) = (IF p.seq_num = 7 THEN 8 ELSE p.seq_num)
      /\ x # 7 => p.message_length = publisher[n].length
  BY <1>1, <1>10, TurnFacts, PacketFacts
<1>3. x < l /\ l \in 1 .. 8 /\ l <= 7
      /\ (publisher[n].length # 0 => l = publisher[n].length)
      /\ (publisher[n].length = 0 => l = 1)
  <2>1. x < l /\ l \in 1 .. 8
    BY OneHandled
  <2> QED
    BY <2>1, PartsFacts
<1> HIDE DEF x, l
<1>11. publisher[n].length # 0
  <2> SUFFICES ASSUME publisher[n].length = 0 PROVE FALSE
    OBVIOUS
  <2>1. x = 0 /\ p.message_length = 0 /\ p.seq_num = 0
    BY <1>2, <1>3
  <2>2. Begin(p).size = 0 /\ Begin(p).decode_index = 1
    BY <2>1 DEF Begin
  <2>3. Promised(p) = 7
    BY <2>1, <2>2 DEF Promised, Room
  <2> QED
    BY <1>1, <2>3 DEF Roomy
<1>4. x \in 0 .. 6 /\ SeqNum(p) = x
  BY <1>2, <1>3
<1>12. p.message_length = l
  BY <1>2, <1>3, <1>4, <1>11
<1>6. ASSUME NEW m, NEW W, NEW i, m.from_node = n, Filled(W, i, m), i \in SlotIds,
             DOMAIN W \subseteq DOMAIN slot,
             \A j \in DOMAIN W : W[j] = slot[j],
             \A j \in DOMAIN slot : slot[j].from_node # n => j \in DOMAIN W /\ j # i,
             m.size = l, m.decode_index = x + 1
      PROVE  /\ \A j \in DOMAIN slot : slot[j].from_node # n =>
                  j \in DOMAIN slot' /\ slot'[j] = slot[j]
             /\ \/ /\ x + 1 = l
                   /\ \E o : o.from_node = n /\ delivered' = Append(delivered, o)
                            /\ o \in Construction
                \/ /\ x + 1 # l /\ delivered' = delivered
                   /\ \E j \in DOMAIN slot' : slot'[j].from_node = n
  <2>1. CASE m.decode_index = m.size
    <3>1. slot' = Without(W, {i}) /\ delivered' = Append(delivered, m)
      BY <1>6, <2>1 DEF Filled
    <3>2. m \in Construction
      <4>1. delivered \in Seq(Construction) /\ delivered' \in Seq(Construction)
        BY <1>1 DEF IInv, TypeOK
      <4>2. delivered'[Len(delivered) + 1] = m /\ Len(delivered') = Len(delivered) + 1
            /\ Len(delivered) + 1 \in 1 .. Len(delivered')
        BY <3>1, <4>1
      <4> QED
        BY <4>1, <4>2
    <3>3. \A j \in DOMAIN slot : slot[j].from_node # n =>
                  j \in DOMAIN slot' /\ slot'[j] = slot[j]
      BY <1>6, <3>1 DEF Without
    <3> QED
      BY <1>6, <2>1, <3>1, <3>2, <3>3
  <2>2. CASE m.decode_index # m.size
    <3>1. slot' = With(W, i, m) /\ delivered' = delivered
      BY <1>6, <2>2 DEF Filled
    <3>2. i \in DOMAIN slot' /\ slot'[i] = m
      BY <3>1 DEF With
    <3>3. \A j \in DOMAIN slot : slot[j].from_node # n =>
                  j \in DOMAIN slot' /\ slot'[j] = slot[j]
      BY <1>6, <3>1 DEF With
    <3> QED
      BY <1>6, <2>2, <3>1, <3>2, <3>3
  <2> QED
    BY <2>1, <2>2
<1>7. CASE x = 0
  <2>1. SlotIds \ DOMAIN slot # {}
    BY <1>7, RoomForFirst DEF x
  <2>2. PICK i \in SlotIds \ DOMAIN slot : Filled(slot, i, Begin(p))
    BY <1>1, <1>2, <1>7, <2>1 DEF ReceiveMessage, ReceiveFirst
  <2>3. /\ Begin(p).from_node = n /\ Begin(p).size = l /\ Begin(p).decode_index = x + 1
    BY <1>2, <1>7, <1>12 DEF Begin
  <2> QED
    BY <1>6, <2>2, <2>3 DEF x, l
<1>8. CASE x # 0
  <2> DEFINE ofNode == {i \in DOMAIN slot : slot[i].from_node = p.node}
             fitting == {i \in ofNode : Expects(i, p)}
  <2>1. fitting # {}
    <3>1. PICK i \in DOMAIN slot : slot[i].from_node = n
      BY <1>3, <1>4, <1>8 DEF Arrives, x, l
    <3>2. Expects(i, p)
      BY <1>2, <1>4, <3>1, OnTime DEF Expects, x
    <3> QED
      BY <1>2, <3>1, <3>2
  <2>2. PICK i \in fitting :
          Filled(Without(slot, {j \in ofNode : j < i}), i, Extend(slot[i], p))
    BY <1>1, <1>2, <1>8, <2>1 DEF ReceiveMessage, ReceiveNext
  <2> DEFINE W == Without(slot, {j \in ofNode : j < i})
             e == Extend(slot[i], p)
  <2>3. /\ DOMAIN W \subseteq DOMAIN slot /\ \A j \in DOMAIN W : W[j] = slot[j]
        /\ \A j \in DOMAIN slot : slot[j].from_node # n => j \in DOMAIN W /\ j # i
    BY <1>2 DEF Without
  <2>4. i \in SlotIds /\ i \in DOMAIN slot /\ slot[i].from_node = n
    BY <1>2, SlotFacts
  <2>5. slot[i].size = l /\ slot[i].decode_index = x
    BY <2>4, OnTime DEF l, x
  <2>6. e.from_node = n /\ e.size = l /\ e.decode_index = x + 1
    <3>1. slot[i] \in Construction
      BY <2>4 DEF IInv, TypeOK
    <3> QED
      BY <2>4, <2>5, <3>1 DEF Extend, Construction
  <2>7. Filled(W, i, e)
    BY <2>2
  <2> HIDE DEF W, e, ofNode, fitting
  <2> QED
    BY <1>6, <2>3, <2>4, <2>6, <2>7 DEF x, l
<1> QED
  BY <1>7, <1>8

LEMMA InitArrives == Init => Arrives
<1> SUFFICES ASSUME Init, NEW n \in Nodes
             PROVE  /\ ~(0 < Handled(n) /\ Handled(n) < Parts(publisher[n]))
                    /\ Sent(n) <= Cardinality(From(n))
  BY DEF Arrives
<1>1. /\ publisher[n].seq_num = 0 /\ publisher[n].length = 0 /\ publisher[n].id = 0
      /\ tx[n] = <<>> /\ delivered = <<>>
  BY DEF Init
<1>5. publisher[n].in_progress = FALSE
  BY DEF Init
<1>3. From(n) = {}
  BY <1>1 DEF From
<1>4. IInv /\ Books
  BY InitIInv, InitBooks
<1>6. ~Active(n)
  BY <1>1, <1>5 DEF Active
<1>7. Sent(n) = publisher[n].id - 0 /\ publisher[n].id \in Nat
  BY <1>4, <1>6, SentIs DEF Sent
<1>8. Sent(n) = 0
  BY <1>1, <1>7
<1>9. Handled(n) \in Int
  BY <1>4, SentIs
<1>10. ~(0 < Handled(n) /\ Handled(n) < Parts(publisher[n]))
  <2>1. Parts(publisher[n]) = 0
    BY <1>1 DEF Parts
  <2> QED
    BY <1>9, <2>1
<1>11. Cardinality(From(n)) = 0
  BY <1>3, FS_EmptySet
<1> QED
  BY <1>8, <1>10, <1>11

LEMMA Len0 == Len(<<>>) = 0
BY EmptySeq

LEMMA SendArrives ==
  ASSUME IInv, Books, Arrives, ShortMessages, NEW n \in Nodes,
         NEW length \in Lengths[n], Send(n, length)
  PROVE  Arrives'
<1> SUFFICES ASSUME Roomy', NEW m \in Nodes
             PROVE  /\ 0 < Handled(m)' /\ Handled(m)' < Parts(publisher'[m]) =>
                          \E i \in DOMAIN slot' : slot'[i].from_node = m
                    /\ Sent(m)' <= Cardinality(From(m))'
  BY DEF Arrives
<1>1. IInv' /\ Books'
  BY SendIInv, SendBooks
<1>2. /\ slot' = slot /\ delivered' = delivered /\ Roomy
  BY SentOne DEF Roomy, ghosts
<1>3. From(m)' = From(m)
  BY <1>2 DEF From
<1>4. /\ 0 < Handled(m) /\ Handled(m) < Parts(publisher[m]) =>
           \E i \in DOMAIN slot : slot[i].from_node = m
      /\ Sent(m) <= Cardinality(From(m))
  BY <1>2 DEF Arrives
<1>5. CASE m # n
  <2>1. publisher'[m] = publisher[m] /\ tx'[m] = tx[m]
    BY <1>5, SentOne
  <2>2. Handled(m)' = Handled(m) /\ Sent(m)' = Sent(m)
    BY <2>1 DEF Handled, Sent, Active
  <2> QED
    BY <1>2, <1>3, <1>4, <2>1, <2>2
<1>6. CASE m = n
  <2> DEFINE h == Handled(n)
             g == Handled(n)'
             q == publisher[n]
             r == publisher'[n]
  <2>1. /\ h = q.seq_num /\ g = r.seq_num - 1 /\ q.seq_num \in 0 .. 31 /\ Parts(q) \in 0 .. 8
        /\ q.id \in Nat
        /\ (q.in_progress <=> q.seq_num < Parts(q)) /\ Blocks(length) \in 1 .. 8
        /\ \/ /\ q.in_progress /\ r.id = q.id /\ Parts(r) = Parts(q)
              /\ r.seq_num = q.seq_num + 1
           \/ /\ ~q.in_progress /\ r.id = q.id + 1
              /\ Parts(r) = Blocks(length) /\ r.seq_num = 1
    BY SentOne DEF Handled
  <2>2. /\ Sent(n) = IF h < Parts(q) THEN q.id - 1 ELSE q.id
        /\ Sent(n)' = r.id - 1
    <3>1. Sent(n) = IF h < Parts(q) THEN q.id - 1 ELSE q.id
      BY SentIs
    <3>2. tx'[n] # <<>>
      <4>1. Len(tx'[n]) = 1
        BY SentOne
      <4>2. Len(tx'[n]) # 0
        BY <4>1
      <4> QED
        BY <4>2, Len0, Zenon
    <3>3. Sent(n)' = r.id - 1
      BY <3>2 DEF Sent, Active
    <3> QED
      BY <3>1, <3>3
  <2>3. /\ 0 < h /\ h < Parts(q) => \E i \in DOMAIN slot : slot[i].from_node = n
    BY <1>4, <1>6
  <2> HIDE DEF h, g, q, r
  <2>4. CASE q.in_progress
    <3>1. g = h /\ Parts(r) = Parts(q) /\ r.id = q.id /\ h < Parts(q)
      BY <2>1, <2>4
    <3>2. Sent(n)' = Sent(n)
      BY <2>2, <3>1
    <3> QED
      BY <1>2, <1>3, <1>4, <1>6, <2>3, <3>1, <3>2 DEF h, g, q, r
  <2>5. CASE ~q.in_progress
    <3>1. g = 0 /\ Parts(r) \in 1 .. 8 /\ r.id = q.id + 1 /\ ~(h < Parts(q))
      BY <2>1, <2>5
    <3>2. Sent(n)' = Sent(n)
      BY <2>1, <2>2, <3>1
    <3> QED
      BY <1>3, <1>4, <1>6, <3>1, <3>2 DEF g
  <2> QED
    BY <2>4, <2>5
<1> QED
  BY <1>5, <1>6

LEMMA LoseArrives ==
  ASSUME IInv, NEW n \in Nodes, Lose(n) PROVE Arrives'
<1>1. lost' = lost + 1 /\ lost \in 0 .. MaxLost /\ MaxLost \in Nat
  BY TransportAssumption DEF Lose, IInv, TypeOK, TransportAssumption
<1>2. lost' # 0
  BY <1>1
<1> QED
  BY <1>2 DEF Arrives, Roomy

\* Once a packet came out of turn nothing is claimed.
LEMMA StrayArrives ==
  ASSUME IInv, NEW p \in past, Stray(p) PROVE Arrives'
<1>1. strays' = strays + 1 /\ strays \in Nat
  BY Counts DEF Stray
<1>2. strays' # 0
  BY <1>1
<1> QED
  BY <1>2 DEF Arrives, Roomy

LEMMA DeliverArrives ==
  ASSUME IInv, Books, Arrives, NoSpecialMode, ShortMessages, NEW n \in Nodes, Deliver(n)
  PROVE  Arrives'
<1> SUFFICES ASSUME Roomy', NEW m \in Nodes
             PROVE  /\ 0 < Handled(m)' /\ Handled(m)' < Parts(publisher'[m]) =>
                          \E i \in DOMAIN slot' : slot'[i].from_node = m
                    /\ Sent(m)' <= Cardinality(From(m))'
  BY DEF Arrives
<1>1. IInv' /\ Books'
  BY DeliverIInv, DeliverBooks
<1>2. Roomy
  <2>1. PICK p : p = tx[n][1]
    OBVIOUS
  <2>2. owed' = owed + Promised(p) /\ lost' = lost /\ strays' = strays /\ tx[n] # <<>>
    BY <2>1 DEF Deliver
  <2>3. Promised(p) \in Nat /\ owed \in Nat
    BY <2>1, <2>2, PendingIsValid, PromisedIsNat, Counts
  <2>4. owed = 0
    BY <2>2, <2>3 DEF Roomy
  <2> QED
    BY <2>2, <2>4 DEF Roomy
<1>3. /\ \A j \in DOMAIN slot : slot[j].from_node # n =>
           j \in DOMAIN slot' /\ slot'[j] = slot[j]
      /\ \/ /\ Handled(n) + 1 = Parts(publisher[n])
            /\ \E o : o.from_node = n /\ delivered' = Append(delivered, o)
                     /\ o \in Construction
         \/ /\ Handled(n) + 1 # Parts(publisher[n]) /\ delivered' = delivered
            /\ \E i \in DOMAIN slot' : slot'[i].from_node = n
  BY <1>2, WhatArrives
<1>4. /\ publisher' = publisher
      /\ \A k \in Nodes \ {n} : tx'[k] = tx[k] /\ Handled(k)' = Handled(k)
      /\ Handled(n)' = Handled(n) + 1 /\ Handled(n) < Parts(publisher[n])
      /\ Handled(n) \in 0 .. 7 /\ Parts(publisher[n]) \in 1 .. 8
  BY OneHandled
<1>5. /\ 0 < Handled(m) /\ Handled(m) < Parts(publisher[m]) =>
           \E i \in DOMAIN slot : slot[i].from_node = m
      /\ Sent(m) <= Cardinality(From(m))
  BY <1>2 DEF Arrives
<1>6. delivered \in Seq(Construction)
  BY DEF IInv, TypeOK
<1>7. /\ IsFiniteSet(From(m)) /\ Cardinality(From(m)) \in Nat
      /\ IsFiniteSet(From(m)') /\ Cardinality(From(m)') \in Nat
  <2>1. DOMAIN delivered' = 1 .. Len(delivered') /\ Len(delivered') \in Int /\ 1 \in Int
    BY <1>1 DEF IInv, TypeOK
  <2>2. IsFiniteSet(DOMAIN delivered')
    BY <2>1, FS_Interval
  <2>3. From(m)' \in SUBSET DOMAIN delivered'
    BY DEF From
  <2> QED
    BY <2>2, <2>3, FromFinite, FS_Subset, FS_CardinalityType
<1>8. Cardinality(From(m)') >= Cardinality(From(m))
  <2>1. From(m) \subseteq From(m)'
    <3>1. CASE delivered' = delivered
      BY <3>1 DEF From
    <3>2. ASSUME NEW o, o \in Construction, delivered' = Append(delivered, o)
          PROVE  From(m) \subseteq From(m)'
      <4>1. \A k \in DOMAIN delivered : k \in DOMAIN delivered' /\ delivered'[k] = delivered[k]
        BY <1>6, <3>2
      <4> QED
        BY <4>1 DEF From
    <3> QED
      BY <1>3, <3>1, <3>2
  <2>2. Cardinality(From(m)) <= Cardinality(From(m)')
    BY <1>7, <2>1, FS_Subset
  <2> QED
    BY <1>7, <2>2
<1>9. CASE m # n
  <2>1. Handled(m)' = Handled(m) /\ Sent(m)' = Sent(m)
    BY <1>4, <1>9 DEF Sent, Active
  <2>2. Sent(m) \in Int
    BY SentIs
  <2>3. Sent(m)' <= Cardinality(From(m)')
    BY <1>5, <1>7, <1>8, <2>1, <2>2
  <2> QED
    BY <1>3, <1>4, <1>5, <1>9, <2>1, <2>3
<1>10. CASE m = n
  <2> DEFINE x == Handled(n)
             l == Parts(publisher[n])
             d == publisher[n].id
  <2>1. /\ Sent(n) = IF x < l THEN d - 1 ELSE d
        /\ Sent(n)' = IF x + 1 < l THEN d - 1 ELSE d
        /\ x \in 0 .. 7 /\ l \in 1 .. 8 /\ x < l /\ d \in Nat
    <3>1. tx'[n] = <<>> /\ (publisher'[n].in_progress <=> x + 1 < l)
      BY OneHandled
    <3>2. Sent(n)' = IF x + 1 < l THEN d - 1 ELSE d
      <4>1. Active(n)' <=> x + 1 < l
        BY <3>1 DEF Active
      <4>2. Sent(n)' = d - (IF Active(n)' THEN 1 ELSE 0) /\ d \in Nat
        BY <1>4, SentIs DEF Sent
      <4> HIDE DEF x, l, d
      <4> QED
        BY <4>1, <4>2
    <3>3. Sent(n) = IF x < l THEN d - 1 ELSE d
      BY SentIs
    <3>4. d \in Nat
      BY SentIs
    <3> QED
      BY <1>4, <3>2, <3>3, <3>4
  <2>2. CASE x + 1 # l
    <3>1. /\ \E i \in DOMAIN slot' : slot'[i].from_node = n
      BY <1>3, <2>2
    <3>2. Sent(n)' = Sent(n) /\ Sent(n) \in Int
      <4> HIDE DEF x, l, d
      <4> QED
        BY <2>1, <2>2
    <3>3. Sent(n)' <= Cardinality(From(m)')
      BY <1>5, <1>7, <1>8, <1>10, <3>2
    <3> QED
      BY <1>10, <3>1, <3>3
  <2>3. CASE x + 1 = l
    <3>1. PICK o \in Construction : o.from_node = n /\ delivered' = Append(delivered, o)
      BY <1>3, <2>3
    <3> DEFINE k == Len(delivered) + 1
    <3>2. /\ k \in DOMAIN delivered' /\ k \notin DOMAIN delivered /\ delivered'[k] = o
          /\ \A j \in DOMAIN delivered : j \in DOMAIN delivered' /\ delivered'[j] = delivered[j]
      BY <1>6, <3>1
    <3> HIDE DEF k
    <3>3. From(n) \cup {k} \subseteq From(n)' /\ k \notin From(n)
      BY <3>1, <3>2 DEF From
    <3>4. Cardinality(From(n) \cup {k}) = Cardinality(From(n)) + 1
      BY <1>7, <1>10, <3>3, FS_AddElement
    <3>5. Cardinality(From(n)) + 1 <= Cardinality(From(n)')
      BY <1>7, <1>10, <3>3, <3>4, FS_Subset
    <3>6. Sent(n)' = Sent(n) + 1 /\ Sent(n) \in Int /\ ~(x + 1 < l)
      <4> HIDE DEF x, l, d
      <4> QED
        BY <2>1, <2>3
    <3>7. Sent(n)' <= Cardinality(From(n)')
      BY <1>5, <1>7, <1>10, <3>5, <3>6
    <3> QED
      BY <1>4, <1>10, <3>6, <3>7
  <2> QED
    BY <2>2, <2>3
<1> QED
  BY <1>9, <1>10

LEMMA StutterArrives == ASSUME Arrives, UNCHANGED vars PROVE Arrives'
BY DEF Arrives, Roomy, Handled, Parts, Blocks, Sent, Active, From, vars, ghosts

\* Every message sent to its end has been delivered, if every packet was handed
\* over in its turn and no other, and there is a slot for each node, however many
\* nodes and messages: messages of one to seven packets, and whatever the order
\* in which the bus sends them.
THEOREM NoMessageMissing == ASSUME NoSpecialMode PROVE Spec => []NothingMissing
<1>1. ShortMessages
  BY DEF NoSpecialMode, ShortMessages
<1>2. Arrives /\ (IInv /\ Books) /\ [Next]_vars => Arrives'
  <2> SUFFICES ASSUME Arrives, IInv, Books, [Next]_vars PROVE Arrives'
    OBVIOUS
  <2>1. ASSUME NEW n \in Nodes, Deliver(n) PROVE Arrives'
    BY <1>1, <2>1, DeliverArrives
  <2>2. ASSUME NEW n \in Nodes, Lose(n) PROVE Arrives'
    BY <2>2, LoseArrives
  <2>3. ASSUME NEW n \in Nodes, NEW length \in Lengths[n], Send(n, length) PROVE Arrives'
    BY <1>1, <2>3, SendArrives
  <2>4. ASSUME NEW p \in past, Stray(p) PROVE Arrives'
    BY <2>4, StrayArrives
  <2>5. CASE UNCHANGED vars
    BY <2>5, StutterArrives
  <2> QED
    BY <2>1, <2>2, <2>3, <2>4, <2>5 DEF Next
<1>3. Spec => [](IInv /\ Books)
  BY <1>1, BooksAreKept
<1>4. Arrives => NothingMissing
  BY DEF Arrives, Roomy, From, NothingMissing
<1> QED
  BY <1>2, <1>3, <1>4, InitArrives, PTL DEF Spec

----------------------------------------------------------------------------
(* Descriptor.  The bytes of a block are in the order of the fields and of  *)
(* the places in them, and the next byte to be read is the one that the      *)
(* receiver's descriptor expects.                                            *)

Byte == [of : Nat, at : Int, value : Nat]
FirstAt(f) == IF layout[f].array THEN -1 ELSE 1

\* What a byte of the block says of itself is true.
Placed(b) ==
  /\ b.of \in 1 .. generated /\ b.at \in FirstAt(b.of) .. Bytes(b.of)
  /\ b.at = -1 => b.value = layout[b.of].count
  /\ b.at = 0 => b.value = 0

\* The rest of its field follows a byte.
Runs ==
  \A i \in DOMAIN block : \A d \in Nat :
    block[i].at + d <= Bytes(block[i].of) =>
      /\ i + d \in DOMAIN block
      /\ block[i + d].of = block[i].of /\ block[i + d].at = block[i].at + d

\* And the next field its last byte.
Turns ==
  \A i \in DOMAIN block :
    block[i].at = Bytes(block[i].of) /\ i + 1 \in DOMAIN block =>
      block[i + 1].of = block[i].of + 1 /\ block[i + 1].at = FirstAt(block[i].of + 1)

LaidOut ==
  /\ layout \in Layouts /\ generated \in 0 .. Len(layout)
  /\ block \in Seq(Byte)
  /\ Len(block) > 0 <=> generated > 0
  /\ \A i \in DOMAIN block : Placed(block[i])
  /\ Runs /\ Turns
  /\ generated > 0 =>
       /\ block[1].of = 1 /\ block[1].at = FirstAt(1)
       /\ block[Len(block)].of = generated /\ block[Len(block)].at = Bytes(generated)

\* What is left of a packet is what was cut from the block.
Read == offset - Len(body)
Cut ==
  /\ offset \in 0 .. Len(block) /\ body \in Seq(Byte) /\ Len(body) <= offset
  /\ offset > 0 => generated = Len(layout)
  /\ \A k \in DOMAIN body : body[k] = block[Read + k]

Waiting(f) == layout[f].array /\ f \notin switched
NextAt == IF ~Waiting(field_offset) THEN field_internal_offset + 1
          ELSE IF decoding_len THEN 0 ELSE -1

\* The next byte is the one that the descriptor expects.
Expected ==
  Read < Len(block) => block[Read + 1].of = field_offset /\ block[Read + 1].at = NextAt

\* Before the first byte it is at the first field.
Fresh == Read = 0 => field_offset = 1 /\ (1 \in Fields => NextAt = FirstAt(1))

\* The field that is being decoded is as far as its offset says.
Begun(f) ==
  /\ Len(memory[f]) = field_internal_offset
  /\ Waiting(f) => /\ field_internal_offset = 0
                   /\ field_size[f] = (IF decoding_len THEN layout[f].count ELSE 0)
  /\ ~Waiting(f) => /\ field_size[f] = Bytes(f) /\ capacity[f] = Bytes(f)
                    /\ ~decoding_len
                    /\ field_internal_offset < Bytes(f) \/ Bytes(f) = 0

Decoding ==
  /\ field_offset \in Nat \ {0} /\ field_internal_offset \in Nat /\ decoding_len \in BOOLEAN
  /\ field_size \in [Fields -> Nat] /\ capacity \in [Fields -> Nat]
  /\ memory \in [Fields -> Seq(Byte)]
  /\ field_offset \in Fields => Begun(field_offset)
  /\ field_offset \notin Fields => ~decoding_len
  /\ \A f \in Fields : f > field_offset =>
       /\ memory[f] = <<>> /\ f \notin switched
       /\ field_size[f] = (IF layout[f].array THEN 0 ELSE Bytes(f))
       /\ ~layout[f].array => capacity[f] = Bytes(f)
  /\ Fresh /\ Expected /\ InPlace

DescriptorInv == LaidOut /\ Cut /\ Decoding

\* Two sequences, one behind the other.
LEMMA Joined ==
  ASSUME NEW S, NEW s \in Seq(S), NEW t \in Seq(S)
  PROVE  /\ s \o t \in Seq(S) /\ Len(s \o t) = Len(s) + Len(t)
         /\ Len(s) \in Nat /\ Len(t) \in Nat
         /\ DOMAIN (s \o t) = 1 .. Len(s) + Len(t)
         /\ \A k \in 1 .. Len(s) : (s \o t)[k] = s[k]
         /\ \A k \in 1 .. Len(t) : (s \o t)[Len(s) + k] = t[k]
OBVIOUS

\* A sequence of nothing.
LEMMA Nothing == ASSUME NEW S PROVE <<>> \in Seq(S) /\ Len(<<>>) = 0 /\ DOMAIN <<>> = {}
OBVIOUS

\* What is cut out of a sequence.
LEMMA Part ==
  ASSUME NEW S, NEW s \in Seq(S), NEW a \in 0 .. Len(s), NEW b \in a .. Len(s)
  PROVE  /\ SubSeq(s, a + 1, b) \in Seq(S) /\ Len(SubSeq(s, a + 1, b)) = b - a
         /\ DOMAIN SubSeq(s, a + 1, b) = 1 .. b - a
         /\ \A k \in 1 .. b - a : SubSeq(s, a + 1, b)[k] = s[a + k]
OBVIOUS

\* A factor of one.
LEMMA Once == \A w \in Nat : w * 1 = w /\ 1 * w = w
OBVIOUS

\* The fields of the messages in question.
LEMMA FieldsAre ==
  ASSUME OneByteElements, EmptyOnlyLast, layout \in Layouts
  PROVE  /\ Fields = 1 .. Len(layout) /\ Len(layout) \in Nat
         /\ \A f \in Fields :
              /\ layout[f].width \in Nat \ {0} /\ layout[f].count \in Nat
              /\ layout[f].array \in BOOLEAN
              /\ ~layout[f].array => layout[f].count = 1
              /\ layout[f].array => layout[f].width = 1 /\ Bytes(f) = layout[f].count
              /\ layout[f].array /\ layout[f].count = 0 => f = Len(layout)
              /\ Bytes(f) \in Nat /\ (~layout[f].array => Bytes(f) > 0)
              /\ ~layout[f].array => Bytes(f) = layout[f].width
<1>1. layout \in Seq(ScalarField \cup ArrayField)
  BY LayoutAssumption
<1>2. Fields = 1 .. Len(layout) /\ Len(layout) \in Nat
  BY <1>1 DEF Fields
<1> SUFFICES ASSUME NEW f \in Fields
             PROVE  /\ layout[f].width \in Nat \ {0} /\ layout[f].count \in Nat
                    /\ layout[f].array \in BOOLEAN
                    /\ ~layout[f].array => layout[f].count = 1
                    /\ layout[f].array => layout[f].width = 1 /\ Bytes(f) = layout[f].count
                    /\ layout[f].array /\ layout[f].count = 0 => f = Len(layout)
                    /\ Bytes(f) \in Nat /\ (~layout[f].array => Bytes(f) > 0)
                    /\ ~layout[f].array => Bytes(f) = layout[f].width
  BY <1>2
<1>3. layout[f] \in ScalarField \/ layout[f] \in ArrayField
  BY <1>1, <1>2
<1>4. CASE layout[f] \in ScalarField
  <2>0. layout[f].array \in BOOLEAN /\ ~layout[f].array
    BY <1>4 DEF ScalarField
  <2>1. layout[f].width \in Nat \ {0} /\ layout[f].count = 1
    BY <1>4 DEF ScalarField
  <2> DEFINE w == layout[f].width
  <2>2. Bytes(f) = w * 1
    BY <2>1 DEF Bytes
  <2>3. w \in Nat /\ w > 0 /\ layout[f].width \in Nat \ {0}
    BY <2>1
  <2> HIDE DEF w
  <2>4. Bytes(f) = w
    BY <2>2, <2>3, Once
  <2> QED
    BY <2>0, <2>1, <2>3, <2>4 DEF w
<1>5. CASE layout[f] \in ArrayField
  <2>0. layout[f].array \in BOOLEAN /\ layout[f].array
    BY <1>5 DEF ArrayField
  <2>1. layout[f].count \in Nat
    BY <1>5 DEF ArrayField
  <2>2. layout[f].width = 1 /\ (layout[f].count = 0 => f = Len(layout))
    BY <2>0, <2>1 DEF OneByteElements, EmptyOnlyLast, Fields
  <2>3. Bytes(f) = 1 * layout[f].count
    BY <2>2 DEF Bytes
  <2>4. Bytes(f) = layout[f].count
    BY <2>1, <2>3, Once
  <2> QED
    BY <2>0, <2>1, <2>2, <2>4
<1> QED
  BY <1>3, <1>4, <1>5

\* What a field is laid out as.
LEMMA FieldBytesAre ==
  ASSUME OneByteElements, EmptyOnlyLast, layout \in Layouts, NEW f \in Fields
  PROVE  /\ FieldBytes(f) \in Seq(Byte)
         /\ Len(FieldBytes(f)) = Bytes(f) - FirstAt(f) + 1
         /\ \A k \in 1 .. Bytes(f) - FirstAt(f) + 1 :
              /\ FieldBytes(f)[k].of = f /\ FieldBytes(f)[k].at = FirstAt(f) + k - 1
              /\ FieldBytes(f)[k].at = -1 => FieldBytes(f)[k].value = layout[f].count % 256
              /\ FieldBytes(f)[k].at = 0 =>
                   FieldBytes(f)[k].value = (layout[f].count \div 256) % 256
<1>1. f \in Nat /\ Bytes(f) \in Nat /\ layout[f].array \in BOOLEAN /\ layout[f].count \in Nat
  BY FieldsAre
<1>2. /\ Content(f) \in Seq(Byte) /\ Len(Content(f)) = Bytes(f)
      /\ \A k \in 1 .. Bytes(f) : Content(f)[k] = [of |-> f, at |-> k, value |-> 1]
  <2>1. \A k \in 1 .. Bytes(f) : [of |-> f, at |-> k, value |-> 1] \in Byte
    BY <1>1 DEF Byte
  <2> QED
    BY <1>1, <2>1 DEF Content
<1>3. CASE ~layout[f].array
  <2>1. FieldBytes(f) = Content(f) /\ FirstAt(f) = 1
    BY <1>3 DEF FieldBytes, FirstAt
  <2> QED
    BY <1>1, <1>2, <2>1
<1>4. CASE layout[f].array
  <2> DEFINE low == layout[f].count % 256  high == (layout[f].count \div 256) % 256
  <2>1. FieldBytes(f) = Length(f) \o Content(f) /\ FirstAt(f) = -1
    BY <1>4 DEF FieldBytes, FirstAt
  <2>2. low \in Nat /\ high \in Nat
    BY <1>1
  <2>3. Length(f) = <<[of |-> f, at |-> -1, value |-> low], [of |-> f, at |-> 0, value |-> high]>>
    BY DEF Length
  <2> HIDE DEF low, high
  <2>4. /\ Length(f) \in Seq(Byte) /\ Len(Length(f)) = 2
        /\ Length(f)[1] = [of |-> f, at |-> -1, value |-> low]
        /\ Length(f)[2] = [of |-> f, at |-> 0, value |-> high]
    BY <1>1, <2>2, <2>3 DEF Byte
  <2>5. /\ FieldBytes(f) \in Seq(Byte) /\ Len(FieldBytes(f)) = Bytes(f) + 2
        /\ \A k \in 1 .. 2 : FieldBytes(f)[k] = Length(f)[k]
        /\ \A k \in 1 .. Bytes(f) : FieldBytes(f)[2 + k] = Content(f)[k]
    <3>1. /\ Length(f) \o Content(f) \in Seq(Byte)
          /\ Len(Length(f) \o Content(f)) = 2 + Bytes(f)
          /\ \A k \in 1 .. 2 : (Length(f) \o Content(f))[k] = Length(f)[k]
          /\ \A k \in 1 .. Bytes(f) : (Length(f) \o Content(f))[2 + k] = Content(f)[k]
      <4> DEFINE c == Content(f)  l == Length(f)
      <4>1. c \in Seq(Byte) /\ l \in Seq(Byte) /\ Len(l) = 2 /\ Len(c) = Bytes(f)
        BY <1>2, <2>4
      <4> HIDE DEF c, l
      <4>2. /\ l \o c \in Seq(Byte) /\ Len(l \o c) = 2 + Bytes(f)
            /\ \A k \in 1 .. 2 : (l \o c)[k] = l[k]
            /\ \A k \in 1 .. Bytes(f) : (l \o c)[2 + k] = c[k]
        <5>1. l \in Seq(Byte) /\ c \in Seq(Byte)
          BY <4>1
        <5>2. /\ l \o c \in Seq(Byte) /\ Len(l \o c) = Len(l) + Len(c)
              /\ \A k \in 1 .. Len(l) : (l \o c)[k] = l[k]
              /\ \A k \in 1 .. Len(c) : (l \o c)[Len(l) + k] = c[k]
          BY <5>1, Joined
        <5> QED
          BY <4>1, <5>2
      <4> QED
        BY <4>2 DEF c, l
    <3> QED
      BY <1>1, <2>1, <3>1
  <2>6. Bytes(f) - FirstAt(f) + 1 = Bytes(f) + 2
    BY <1>1, <2>1
  <2>7. ASSUME NEW k \in 1 .. Bytes(f) + 2
        PROVE  /\ FieldBytes(f)[k].of = f /\ FieldBytes(f)[k].at = FirstAt(f) + k - 1
               /\ FieldBytes(f)[k].at = -1 => FieldBytes(f)[k].value = low
               /\ FieldBytes(f)[k].at = 0 => FieldBytes(f)[k].value = high
    <3>1. CASE k = 1
      BY <2>1, <2>4, <2>5, <3>1
    <3>2. CASE k = 2
      BY <2>1, <2>4, <2>5, <3>2
    <3>3. CASE k > 2
      <4>1. k \in 3 .. Bytes(f) + 2 /\ k - 2 \in 1 .. Bytes(f) /\ 2 + (k - 2) = k
        BY <1>1, <3>3
      <4>2. FieldBytes(f)[k] = [of |-> f, at |-> k - 2, value |-> 1]
        BY <1>2, <2>5, <4>1
      <4> QED
        BY <2>1, <4>1, <4>2
    <3> QED
      BY <3>1, <3>2, <3>3
  <2> QED
    BY <2>5, <2>6, <2>7 DEF low, high
<1> QED
  BY <1>1, <1>3, <1>4

\* One message more field by field: another field is laid out behind the others.
LEMMA GenerateLays ==
  ASSUME OneByteElements, EmptyOnlyLast, LaidOut, GenerateField
  PROVE  /\ LaidOut' /\ Len(block) <= Len(block')
         /\ \A i \in DOMAIN block : block'[i] = block[i]
<1>0. PICK f \in Fields : f = generated + 1
  BY DEF GenerateField
<1> DEFINE s == FieldBytes(f)  n == Len(block)  first == FirstAt(f)  last == Bytes(f)
<1>1. /\ f \in Fields /\ n + Len(s) <= 255 /\ block' = block \o s /\ generated' = f
      /\ layout' = layout /\ f = generated + 1
  BY <1>0 DEF GenerateField, MaxSize
<1>2. /\ layout \in Layouts /\ generated \in 0 .. Len(layout) /\ block \in Seq(Byte)
      /\ n \in Nat /\ DOMAIN block = 1 .. n
      /\ Fields = 1 .. Len(layout) /\ Len(layout) \in Nat
  BY FieldsAre DEF LaidOut
<1>3. /\ layout[f].array \in BOOLEAN /\ layout[f].count \in Nat /\ last \in Nat
      /\ layout[f].array => last = layout[f].count
      /\ ~layout[f].array => last > 0
  BY <1>1, <1>2, FieldsAre
<1>4. /\ first \in {-1, 1} /\ first <= last /\ (layout[f].array <=> first = -1)
  BY <1>3 DEF FirstAt
<1>5. /\ s \in Seq(Byte) /\ Len(s) = last - first + 1
      /\ \A k \in 1 .. Len(s) :
           /\ s[k].of = f /\ s[k].at = first + k - 1
           /\ s[k].at = -1 => s[k].value = layout[f].count % 256
           /\ s[k].at = 0 => s[k].value = (layout[f].count \div 256) % 256
  BY <1>1, <1>2, FieldBytesAre
<1> HIDE DEF s, n, first, last
<1>6. /\ block' \in Seq(Byte) /\ Len(block') = n + Len(s) /\ DOMAIN block' = 1 .. n + Len(s)
      /\ \A i \in 1 .. n : block'[i] = block[i]
      /\ \A k \in 1 .. Len(s) : block'[n + k] = s[k]
  <2>1. /\ block \o s \in Seq(Byte) /\ Len(block \o s) = n + Len(s)
        /\ DOMAIN (block \o s) = 1 .. n + Len(s)
        /\ \A i \in 1 .. n : (block \o s)[i] = block[i]
        /\ \A k \in 1 .. Len(s) : (block \o s)[n + k] = s[k]
    <3>1. block \in Seq(Byte) /\ s \in Seq(Byte) /\ n = Len(block)
      BY <1>2, <1>5 DEF n
    <3> QED
      BY <3>1, Joined
  <2> QED
    BY <1>1, <2>1
<1>7. ASSUME NEW g PROVE Bytes(g)' = Bytes(g) /\ FirstAt(g)' = FirstAt(g)
  BY <1>1 DEF Bytes, FirstAt
<1>8. /\ Len(s) \in Nat \ {0} /\ Len(s) = last - first + 1 /\ last \in Nat
      /\ first \in Int /\ n \in Nat
  BY <1>2, <1>3, <1>4, <1>5
<1>9. ASSUME NEW i \in DOMAIN block', i > n
      PROVE  /\ i - n \in 1 .. Len(s)
             /\ block'[i].of = f /\ block'[i].at = first + (i - n) - 1
             /\ block'[i].at = -1 => block'[i].value = layout[f].count % 256
             /\ block'[i].at = 0 => block'[i].value = (layout[f].count \div 256) % 256
  <2>1. i - n \in 1 .. Len(s) /\ n + (i - n) = i
    BY <1>2, <1>6, <1>8, <1>9
  <2>2. block'[i] = s[i - n]
    BY <1>6, <2>1
  <2> QED
    BY <1>5, <2>1, <2>2
<1>10. layout[f].array => layout[f].count % 256 = layout[f].count
                          /\ (layout[f].count \div 256) % 256 = 0
  <2> SUFFICES ASSUME layout[f].array
               PROVE  layout[f].count % 256 = layout[f].count
                      /\ (layout[f].count \div 256) % 256 = 0
    OBVIOUS
  <2>1. layout[f].count <= 255
    BY <1>1, <1>2, <1>3, <1>4, <1>5 DEF n
  <2> QED
    BY <1>3, <2>1
<1>11. ASSUME NEW i \in DOMAIN block' PROVE Placed(block[i])'
  <2>1. CASE i <= n
    <3>1. i \in 1 .. n /\ Placed(block[i]) /\ block'[i] = block[i]
      BY <1>2, <1>6, <2>1 DEF LaidOut
    <3> QED
      BY <1>1, <1>2, <1>7, <3>1 DEF Placed
  <2>2. CASE i > n
    <3>0. f \in 1 .. generated'
      BY <1>1, <1>2
    <3>1. block'[i].of = f /\ block'[i].at \in first .. last
      BY <1>2, <1>3, <1>4, <1>5, <1>9, <2>2
    <3>2. layout[f].array \/ block'[i].at > 0
      BY <1>4, <3>1
    <3>3. FirstAt(f) = first /\ Bytes(f) = last
      BY DEF first, last
    <3>4. FirstAt(f)' = first /\ Bytes(f)' = last /\ layout' = layout
      BY <1>1, <1>7, <3>3
    <3>5. /\ block'[i].at = -1 => block'[i].value = layout[f].count
          /\ block'[i].at = 0 => block'[i].value = 0
      <4>1. block'[i].at \in {-1, 0} => layout[f].array
        BY <3>2
      <4> QED
        BY <1>9, <1>10, <2>2, <4>1
    <3>6. block'[i].of = f
      BY <3>1
    <3>7. FirstAt(block[i].of)' = first /\ Bytes(block[i].of)' = last
      BY <3>4, <3>6 DEF FirstAt, Bytes
    <3> QED
      BY <3>0, <3>1, <3>4, <3>5, <3>7 DEF Placed
  <2> QED
    BY <1>2, <1>6, <2>1, <2>2
<1>12. Runs'
  <2> SUFFICES ASSUME NEW i \in DOMAIN block', NEW d \in Nat,
                      block'[i].at + d <= Bytes(block'[i].of)
               PROVE  /\ i + d \in DOMAIN block' /\ block'[i + d].of = block'[i].of
                      /\ block'[i + d].at = block'[i].at + d
    BY <1>7 DEF Runs
  <2>1. CASE i <= n
    <3>1. i \in DOMAIN block /\ block'[i] = block[i]
      BY <1>2, <1>6, <2>1
    <3>2. i + d \in DOMAIN block /\ block[i + d].of = block[i].of
          /\ block[i + d].at = block[i].at + d
      BY <3>1 DEF LaidOut, Runs
    <3> QED
      BY <1>2, <1>6, <1>8, <3>1, <3>2
  <2>2. CASE i > n
    <3>1. i \in Nat /\ block'[i].of = f /\ block'[i].at = first + (i - n) - 1 /\ i - n \in 1 .. Len(s)
      BY <1>2, <1>6, <1>9, <2>2
    <3>2. first + (i - n) - 1 + d <= last
      BY <3>1 DEF last
    <3>3. i + d \in DOMAIN block' /\ i + d > n
      <4>1. i + d <= n + Len(s) /\ i + d > n
        <5>1. i \in Nat /\ n \in Nat /\ i > n /\ i - n \in 1 .. Len(s) /\ d \in Nat
          BY <1>2, <2>2, <3>1
        <5> QED
          BY <1>8, <3>2, <5>1
      <4> QED
        <5>1. i + d \in 1 .. n + Len(s)
          BY <1>8, <3>1, <4>1
        <5> QED
          BY <1>6, <4>1, <5>1
    <3> DEFINE j == i + d
    <3>4. block'[j].of = f /\ block'[j].at = first + (j - n) - 1
      <4> HIDE DEF j
      <4> QED
        BY <1>9, <3>3 DEF j
    <3>5. first + (j - n) - 1 = first + (i - n) - 1 + d
      BY <1>8, <3>1
    <3> QED
      BY <3>1, <3>3, <3>4, <3>5
  <2> QED
    BY <1>2, <1>6, <2>1, <2>2
<1>13. /\ block'[n + 1].of = f /\ block'[n + 1].at = first
       /\ block'[n + Len(s)].of = f /\ block'[n + Len(s)].at = last
  <2>1. n + 1 \in DOMAIN block' /\ n + 1 > n /\ n + Len(s) \in DOMAIN block' /\ n + Len(s) > n
    BY <1>2, <1>6, <1>8
  <2>2. (n + 1) - n = 1 /\ (n + Len(s)) - n = Len(s) /\ first + 1 - 1 = first
        /\ first + Len(s) - 1 = last
    BY <1>2, <1>3, <1>4, <1>5
  <2> QED
    BY <1>9, <2>1, <2>2
<1>14. Turns'
  <2> SUFFICES ASSUME NEW i \in DOMAIN block', i + 1 \in DOMAIN block',
                      block'[i].at = Bytes(block'[i].of)
               PROVE  block'[i + 1].of = block'[i].of + 1
                      /\ block'[i + 1].at = FirstAt(block'[i].of + 1)
    BY <1>7 DEF Turns
  <2>1. CASE i < n
    <3>1. i \in DOMAIN block /\ i + 1 \in DOMAIN block /\ block'[i] = block[i]
          /\ block'[i + 1] = block[i + 1]
      BY <1>2, <1>6, <2>1
    <3> QED
      BY <3>1 DEF LaidOut, Turns
  <2>2. CASE i = n
    <3>1. n > 0 /\ block'[n] = block[n]
      BY <1>2, <1>6, <2>2
    <3>2. block[n].of = generated
      BY <1>2, <3>1 DEF LaidOut, n
    <3>3. block'[i].of + 1 = f /\ block'[i + 1].of = f /\ block'[i + 1].at = first
      BY <1>1, <1>13, <2>2, <3>1, <3>2
    <3> QED
      BY <3>3 DEF first
  <2>3. CASE i > n
    <3>1. block'[i].of = f /\ block'[i].at = first + (i - n) - 1
      BY <1>9, <2>3
    <3>2. block'[i].at = last
      BY <3>1 DEF last
    <3> QED
      <4>1. i \in 1 .. n + Len(s) /\ i + 1 \in 1 .. n + Len(s)
        BY <1>6
      <4>2. first + (i - n) - 1 = last
        BY <3>1, <3>2
      <4> QED
        BY <1>8, <4>1, <4>2
  <2> QED
    BY <1>2, <1>6, <2>1, <2>2, <2>3
<1>15. block'[1].of = 1 /\ block'[1].at = FirstAt(1)
  <2>1. CASE n = 0
    <3>1. generated = 0
      BY <1>2, <2>1 DEF LaidOut, n
    <3>2. f = 1 /\ n + 1 = 1
      BY <1>1, <2>1, <3>1
    <3> QED
      BY <1>13, <3>2 DEF first
  <2>2. CASE n > 0
    <3>1. generated > 0 /\ block'[1] = block[1]
      BY <1>2, <1>6, <2>2 DEF LaidOut, n
    <3> QED
      BY <3>1 DEF LaidOut
  <2> QED
    BY <1>2, <2>1, <2>2
<1>16. /\ generated' \in 0 .. Len(layout) /\ generated' > 0 /\ Len(block') > 0
       /\ Len(block') = n + Len(s)
  BY <1>1, <1>2, <1>6, <1>8
<1>17. Bytes(generated') = last
  BY <1>1 DEF last
<1> QED
  BY <1>1, <1>2, <1>6, <1>7, <1>11, <1>12, <1>13, <1>14, <1>15, <1>16, <1>17 DEF LaidOut, n

\* The messages whose bytes stay in place.
Decodable == OneByteElements /\ EmptyOnlyLast

\* What follows a byte: the next of its field, or the first of the next field.
LEMMA Following ==
  ASSUME Decodable, LaidOut, NEW i \in DOMAIN block, NEW f, block[i].of = f
  PROVE  /\ block[i].at < Bytes(f) =>
              /\ i + 1 \in DOMAIN block
              /\ block[i + 1].of = f /\ block[i + 1].at = block[i].at + 1
         /\ block[i].at = Bytes(f) /\ i + 1 \in DOMAIN block =>
              /\ block[i + 1].of = f + 1 /\ block[i + 1].at = FirstAt(f + 1)
              /\ f + 1 \in 1 .. generated
<1>1. block[i].of \in 1 .. generated /\ block[i].at \in Int
  BY DEF LaidOut, Placed, Byte
<1>2. f \in Fields /\ generated \in 0 .. Len(layout)
  BY <1>1, FieldsAre DEF LaidOut, Decodable
<1>3. Bytes(f) \in Nat
  BY <1>2, FieldsAre DEF LaidOut, Decodable
<1>4. ASSUME block[i].at < Bytes(f)
      PROVE  /\ i + 1 \in DOMAIN block
             /\ block[i + 1].of = f /\ block[i + 1].at = block[i].at + 1
  <2>1. block[i].at + 1 <= Bytes(block[i].of)
    BY <1>1, <1>3, <1>4
  <2> QED
    BY <2>1 DEF LaidOut, Runs
<1>5. ASSUME block[i].at = Bytes(f), i + 1 \in DOMAIN block
      PROVE  /\ block[i + 1].of = f + 1 /\ block[i + 1].at = FirstAt(f + 1)
             /\ f + 1 \in 1 .. generated
  <2>1. block[i + 1].of = f + 1 /\ block[i + 1].at = FirstAt(f + 1)
    BY <1>5 DEF LaidOut, Turns
  <2> QED
    BY <1>5, <2>1 DEF LaidOut, Placed
<1> QED
  BY <1>4, <1>5

\* The next byte to be decoded is the one that is expected.
LEMMA NextByteIs ==
  ASSUME Decodable, DescriptorInv, body # <<>>
  PROVE  /\ Read \in Nat /\ Read + 1 \in DOMAIN block /\ body[1] = block[Read + 1]
         /\ body[1].of = field_offset /\ body[1].at = NextAt /\ Placed(body[1])
         /\ body[1].value \in Nat
         /\ field_offset \in Fields /\ field_offset \in Nat
         /\ Fields = 1 .. generated /\ generated = Len(layout)
         /\ Begun(field_offset) /\ Bytes(field_offset) \in Nat
         /\ NextAt <= Bytes(field_offset)
<1> USE DEF DescriptorInv
<1>1. /\ Len(body) \in Nat \ {0} /\ offset \in Nat /\ Len(body) <= offset
      /\ offset <= Len(block) /\ DOMAIN block = 1 .. Len(block) /\ 1 \in DOMAIN body
  BY DEF Cut, LaidOut
<1>2. Read \in Nat /\ Read < Len(block) /\ Read + 1 \in DOMAIN block
  BY <1>1 DEF Read
<1>3. body[1] = block[Read + 1] /\ generated = Len(layout)
  BY <1>1 DEF Cut
<1>4. block[Read + 1] \in Byte /\ Placed(block[Read + 1])
  BY <1>2 DEF LaidOut
<1>5. body[1].of = field_offset /\ body[1].at = NextAt
  BY <1>2, <1>3 DEF Decoding, Expected
<1>6. Fields = 1 .. generated
  BY <1>3, FieldsAre DEF LaidOut, Decodable
<1>7. field_offset \in 1 .. generated
  BY <1>3, <1>4, <1>5 DEF Placed
<1>8. Bytes(field_offset) \in Nat
  BY <1>6, <1>7, FieldsAre DEF LaidOut, Decodable
<1>9. NextAt <= Bytes(field_offset)
  <2>1. body[1].at \in FirstAt(field_offset) .. Bytes(field_offset)
    BY <1>3, <1>4, <1>5 DEF Placed
  <2> QED
    BY <1>5, <1>8, <2>1 DEF FirstAt
<1>10. body[1].value \in Nat /\ field_offset \in Nat
  BY <1>3, <1>4, <1>7 DEF Byte
<1> QED
  BY <1>2, <1>3, <1>4, <1>5, <1>6, <1>7, <1>8, <1>9, <1>10 DEF Decoding

\* Bytes are taken off the front of the packet.
LEMMA Taken ==
  ASSUME LaidOut, Cut, NEW n \in 1 .. Len(body), body' = Drop(n), UNCHANGED <<sent, offset>>
  PROVE  /\ LaidOut' /\ Cut' /\ Read \in Nat /\ Read' = Read + n /\ Read' > 0
         /\ Read + n <= Len(block)
         /\ \A k \in 1 .. n : Read + k \in DOMAIN block /\ body[k] = block[Read + k]
<1>1. LaidOut'
  BY DEF LaidOut, sent, Runs, Turns, Placed, Bytes, FirstAt
<1>2. /\ Len(body) \in Nat /\ offset \in Nat /\ Len(body) <= offset
      /\ offset <= Len(block) /\ DOMAIN block = 1 .. Len(block) /\ Len(block) \in Nat
      /\ DOMAIN body = 1 .. Len(body) /\ body \in Seq(Byte)
      /\ offset' = offset /\ block' = block
  BY DEF Cut, LaidOut, sent
<1>3. /\ body' \in Seq(Byte) /\ Len(body') = Len(body) - n
      /\ DOMAIN body' = 1 .. Len(body) - n
      /\ \A k \in 1 .. Len(body) - n : body'[k] = body[n + k]
  <2>1. n \in 0 .. Len(body) /\ Len(body) \in n .. Len(body)
    BY <1>2
  <2>2. /\ Drop(n) \in Seq(Byte) /\ Len(Drop(n)) = Len(body) - n
        /\ DOMAIN Drop(n) = 1 .. Len(body) - n
        /\ \A k \in 1 .. Len(body) - n : Drop(n)[k] = body[n + k]
    BY <1>2, <2>1, Part DEF Drop
  <2> QED
    BY <2>2
<1>4. Read' = Read + n /\ Read \in Nat /\ Read' > 0 /\ Read + n <= Len(block)
  BY <1>2, <1>3 DEF Read
<1>5. \A k \in 1 .. n : Read + k \in DOMAIN block /\ body[k] = block[Read + k]
  <2> SUFFICES ASSUME NEW k \in 1 .. n
               PROVE  Read + k \in DOMAIN block /\ body[k] = block[Read + k]
    OBVIOUS
  <2>1. k \in DOMAIN body /\ Read + k \in 1 .. Len(block)
    BY <1>2, <1>4
  <2> QED
    BY <1>2, <2>1 DEF Cut
<1>6. Cut'
  <2>1. ASSUME NEW k \in DOMAIN body' PROVE body'[k] = block'[Read' + k]
    <3>1. k \in 1 .. Len(body) - n /\ n + k \in DOMAIN body
      BY <1>2, <1>3
    <3>2. body'[k] = body[n + k] /\ body[n + k] = block[Read + (n + k)]
      BY <1>3, <3>1 DEF Cut
    <3>3. Read + (n + k) = Read' + k
      BY <1>2, <1>4, <3>1
    <3> QED
      BY <1>2, <3>2, <3>3
  <2> QED
    BY <1>2, <1>3, <2>1 DEF Cut, sent
<1> QED
  BY <1>1, <1>4, <1>5, <1>6

\* Before anything is laid out.
LEMMA InitInPlace == ASSUME Decodable, DescriptorInit PROVE DescriptorInv
<1>1. /\ layout \in Layouts /\ block = <<>> /\ generated = 0 /\ offset = 0 /\ body = <<>>
      /\ field_offset = 1 /\ field_internal_offset = 0 /\ decoding_len = FALSE
      /\ switched = {} /\ capacity = field_size
      /\ field_size = [f \in Fields |-> IF layout[f].array THEN 0 ELSE layout[f].width]
      /\ memory = [f \in Fields |-> <<>>]
  BY DEF DescriptorInit
<1>2. /\ Fields = 1 .. Len(layout) /\ Len(layout) \in Nat
      /\ \A f \in Fields :
           /\ layout[f].width \in Nat \ {0} /\ layout[f].array \in BOOLEAN
           /\ ~layout[f].array => Bytes(f) = layout[f].width
  BY <1>1, FieldsAre DEF Decodable
<1>3. block \in Seq(Byte) /\ Len(block) = 0 /\ DOMAIN block = {} /\ body \in Seq(Byte)
      /\ Len(body) = 0 /\ DOMAIN body = {} /\ Read = 0
  <2>1. <<>> \in Seq(Byte) /\ Len(<<>>) = 0 /\ DOMAIN <<>> = {}
    BY Nothing
  <2>2. Len(block) = 0 /\ DOMAIN block = {} /\ Len(body) = 0 /\ DOMAIN body = {}
        /\ block \in Seq(Byte) /\ body \in Seq(Byte)
    BY <1>1, <2>1, Zenon
  <2>3. Read = 0
    <3>1. offset = 0
      BY <1>1
    <3>2. Len(body) = 0
      BY <2>2
    <3> QED
      BY <3>1, <3>2 DEF Read
  <2> QED
    BY <2>2, <2>3
<1>4. LaidOut
  BY <1>1, <1>2, <1>3 DEF LaidOut, Runs, Turns
<1>5. Cut
  BY <1>1, <1>3 DEF Cut
<1>6. /\ field_size \in [Fields -> Nat] /\ memory \in [Fields -> Seq(Byte)]
      /\ \A f \in Fields : memory[f] = <<>>
      /\ \A f \in Fields : field_size[f] = IF layout[f].array THEN 0 ELSE layout[f].width
  BY <1>1, <1>2
<1>7. Fresh /\ Expected
  BY <1>1, <1>3 DEF Fresh, Expected, NextAt, FirstAt, Waiting
<1>8. 1 \in Fields => Begun(1)
  BY <1>1, <1>2, <1>6 DEF Begun, Waiting
<1>9. InPlace
  BY <1>1, <1>2, <1>6 DEF InPlace
<1>10. \A f \in Fields : field_size[f] = (IF layout[f].array THEN 0 ELSE Bytes(f))
                         /\ (~layout[f].array => capacity[f] = Bytes(f))
  BY <1>1, <1>2, <1>6
<1>11. Decoding
  <2>1. capacity \in [Fields -> Nat] /\ field_offset \in Nat \ {0}
        /\ field_internal_offset \in Nat
    BY <1>1, <1>6
  <2>4. decoding_len \in BOOLEAN /\ ~decoding_len
    BY <1>1
  <2>2. \A f \in Fields : f > field_offset =>
          /\ memory[f] = <<>> /\ f \notin switched
          /\ field_size[f] = (IF layout[f].array THEN 0 ELSE Bytes(f))
          /\ ~layout[f].array => capacity[f] = Bytes(f)
    BY <1>1, <1>6, <1>10
  <2>3. field_offset \in Fields => Begun(field_offset)
    BY <1>1, <1>8
  <2> QED
    BY <1>6, <1>7, <1>9, <2>1, <2>2, <2>3, <2>4 DEF Decoding
<1> QED
  BY <1>4, <1>5, <1>11 DEF DescriptorInv

\* Another field is laid out before any byte is read.
LEMMA GenerateInPlace ==
  ASSUME Decodable, DescriptorInv, GenerateField PROVE DescriptorInv'
<1> USE DEF DescriptorInv
<1>1. /\ LaidOut' /\ Len(block) <= Len(block')
      /\ \A i \in DOMAIN block : block'[i] = block[i]
  BY GenerateLays DEF Decodable
<1>2. /\ UNCHANGED <<layout, offset, body, descriptor>> /\ generated < Len(layout)
      /\ Fields = 1 .. Len(layout)
  <2>1. Fields = 1 .. Len(layout) /\ Len(layout) \in Nat /\ generated \in 0 .. Len(layout)
    BY FieldsAre DEF LaidOut, Decodable
  <2> QED
    BY <2>1 DEF GenerateField
<1>3. offset = 0 /\ Len(body) = 0 /\ Read = 0 /\ Read' = 0 /\ body' = body /\ offset' = 0
  BY <1>2 DEF Cut, LaidOut, Read
<1>4. Cut'
  BY <1>1, <1>2, <1>3 DEF Cut, LaidOut
<1>5. 1 \in Fields /\ field_offset = 1 /\ NextAt = FirstAt(1)
  BY <1>2, <1>3 DEF Decoding, Fresh, LaidOut
<1>6. /\ UNCHANGED <<field_size, field_offset, field_internal_offset, decoding_len, switched,
                     capacity, memory, layout>>
      /\ Fields' = Fields /\ NextAt' = NextAt /\ FirstAt(1)' = FirstAt(1)
      /\ \A f : Bytes(f)' = Bytes(f)
  BY <1>2 DEF descriptor, Fields, NextAt, Waiting, FirstAt, Bytes
<1>7. Expected'
  <2>1. generated' > 0
    BY <1>1, <1>2 DEF GenerateField, LaidOut
  <2>2. block'[1].of = 1 /\ block'[1].at = FirstAt(1)'
    BY <1>1, <2>1 DEF LaidOut
  <2> QED
    BY <1>3, <1>5, <1>6, <2>2 DEF Expected
<1>8. Fresh' /\ InPlace'
  BY <1>3, <1>5, <1>6 DEF Fresh, InPlace, Decoding
<1>9. field_offset' \in Fields' => Begun(field_offset)'
  BY <1>5, <1>6 DEF Decoding, Begun, Waiting
<1>10. Decoding'
  BY <1>6, <1>7, <1>8, <1>9 DEF Decoding
<1> QED
  BY <1>1, <1>4, <1>10

\* A packet is cut from the block.
LEMMA NextBlockInPlace ==
  ASSUME Decodable, DescriptorInv, NextBlock PROVE DescriptorInv'
<1> USE DEF DescriptorInv
<1> DEFINE end == IF Len(block) - offset > PacketSize THEN offset + PacketSize ELSE Len(block)
<1>1. /\ body = <<>> /\ body' = SubSeq(block, offset + 1, end) /\ offset' = end
      /\ UNCHANGED <<sent, descriptor>> /\ generated = Len(layout) /\ offset < Len(block)
  BY DEF NextBlock
<1>2. /\ offset \in 0 .. Len(block) /\ block \in Seq(Byte) /\ Len(block) \in Nat
      /\ end \in offset .. Len(block)
  <2>1. offset \in 0 .. Len(block) /\ block \in Seq(Byte)
    BY DEF Cut, LaidOut
  <2>2. Len(block) \in Nat /\ PacketSize \in Nat
    BY <2>1, LayoutAssumption
  <2> QED
    BY <2>1, <2>2
<1>3. Read = offset
  BY <1>1, <1>2 DEF Read
<1> HIDE DEF end
<1>4. /\ body' \in Seq(Byte) /\ Len(body') = end - offset
      /\ DOMAIN body' = 1 .. end - offset
      /\ \A k \in 1 .. end - offset : body'[k] = block[offset + k]
  BY <1>1, <1>2, Part
<1>5. Read' = Read /\ block' = block /\ layout' = layout /\ generated' = generated
  BY <1>1, <1>2, <1>3, <1>4 DEF Read, sent
<1>6. Cut'
  BY <1>1, <1>2, <1>3, <1>4, <1>5 DEF Cut
<1>7. LaidOut'
  BY <1>5 DEF LaidOut, Runs, Turns, Placed, Bytes, FirstAt
<1>8. Decoding'
  BY <1>1, <1>5 DEF Decoding, descriptor, Begun, Fresh, Expected, InPlace, NextAt, Waiting,
                    Fields, Bytes, FirstAt
<1> QED
  BY <1>6, <1>7, <1>8

\* Both bytes of a length.
LEMMA ReadLengthInPlace ==
  ASSUME Decodable, DescriptorInv, ReadLength PROVE DescriptorInv'
<1> USE DEF DescriptorInv
<1>0. PICK f \in Nat : f = field_offset
  BY DEF Decoding
<1> DEFINE n == layout[f].count
<1>1. /\ AtLength /\ Len(body) >= 2 /\ body' = Drop(2) /\ body # <<>>
      /\ field_offset' = f /\ field_internal_offset' = 0 /\ field_internal_offset = 0
      /\ decoding_len' = decoding_len /\ field_size[f] = 0 /\ f \notin switched
      /\ field_size' = [field_size EXCEPT ![f] = body[1].value + 256 * body[2].value]
      /\ capacity' = [capacity EXCEPT ![f] =
           ((body[1].value + 256 * body[2].value) \div layout[f].width) * layout[f].width]
      /\ switched' = switched \cup {f} /\ memory' = memory
      /\ UNCHANGED <<sent, offset>>
  BY <1>0 DEF ReadLength, AtLength, Allocate
<1>2. /\ Read \in Nat /\ Read + 1 \in DOMAIN block /\ body[1] = block[Read + 1]
      /\ body[1].of = f /\ body[1].at = NextAt /\ Placed(body[1])
      /\ f \in Fields /\ Fields = 1 .. generated /\ generated = Len(layout)
      /\ Begun(f) /\ Bytes(f) \in Nat
  BY <1>0, <1>1, NextByteIs
<1>3. 2 \in 1 .. Len(body)
  BY <1>1 DEF Cut
<1>4. /\ LaidOut' /\ Cut' /\ Read' = Read + 2 /\ Read' > 0
      /\ Read + 2 \in DOMAIN block /\ body[2] = block[Read + 2]
  BY <1>1, <1>3, Taken
<1>5. /\ layout[f].array \in BOOLEAN /\ n \in Nat /\ generated \in Nat
      /\ layout[f].array => layout[f].width = 1 /\ Bytes(f) = n
      /\ layout[f].array /\ n = 0 => f = generated
      /\ ~layout[f].array => Bytes(f) > 0
  BY <1>2, FieldsAre DEF LaidOut, Decodable
<1>6. Waiting(f) /\ layout[f].array
  BY <1>1, <1>2, <1>5 DEF Begun, Waiting
<1>7. block[Read + 1].at < Bytes(f) =>
        block[Read + 2].of = f /\ block[Read + 2].at = block[Read + 1].at + 1
  BY <1>2, Following
<1>8. block[Read + 1].at = Bytes(f) => f + 1 \in 1 .. generated
  <2>1. (Read + 1) + 1 \in DOMAIN block
    BY <1>2, <1>4
  <2> QED
    BY <1>2, <2>1, Following
<1>9. ~decoding_len
  <2> SUFFICES ASSUME decoding_len PROVE FALSE
    OBVIOUS
  <2>1. n = 0 /\ NextAt = 0
    BY <1>0, <1>1, <1>2, <1>6 DEF Begun, NextAt
  <2> QED
    BY <1>2, <1>5, <1>6, <1>8, <2>1
<1>10. block[Read + 1].at = -1 /\ body[1].value = n
  <2>1. NextAt = -1
    BY <1>0, <1>6, <1>9 DEF NextAt
  <2> QED
    BY <1>2, <2>1 DEF Placed
<1>11. block[Read + 2].of = f /\ block[Read + 2].at = 0 /\ body[2].value = 0
  <2>1. block[Read + 2].of = f /\ block[Read + 2].at = 0
    BY <1>5, <1>6, <1>7, <1>10
  <2> QED
    BY <1>4, <2>1 DEF LaidOut, Placed
<1>12. /\ field_size' = [field_size EXCEPT ![f] = n]
       /\ capacity' = [capacity EXCEPT ![f] = n]
  <2>1. body[1].value + 256 * body[2].value = n
    BY <1>5, <1>10, <1>11
  <2>2. (n \div 1) * 1 = n
    BY <1>5
  <2> QED
    BY <1>1, <1>5, <1>6, <2>1, <2>2
<1>13. /\ Fields' = Fields /\ layout' = layout /\ block' = block
       /\ \A g : Bytes(g)' = Bytes(g) /\ FirstAt(g)' = FirstAt(g)
       /\ \A g : Waiting(g)' <=> Waiting(g) /\ g # f
  BY <1>1 DEF sent, Fields, Bytes, FirstAt, Waiting
<1>14. Expected' /\ Fresh'
  <2>1. NextAt' = 1
    BY <1>1, <1>13 DEF NextAt
  <2> SUFFICES ASSUME Read + 2 < Len(block)
               PROVE  block[Read + 3].of = f /\ block[Read + 3].at = 1
    BY <1>1, <1>2, <1>4, <1>13, <2>1 DEF Expected, Fresh
  <2>2. (Read + 2) + 1 \in DOMAIN block /\ (Read + 2) + 1 = Read + 3
    BY <1>2, <1>4 DEF LaidOut
  <2>3. 0 < Bytes(f) => block[Read + 3].of = f /\ block[Read + 3].at = 1
    BY <1>4, <1>11, <2>2, Following
  <2>4. 0 = Bytes(f) => f + 1 \in 1 .. generated
    BY <1>4, <1>11, <2>2, Following
  <2> QED
    BY <1>2, <1>5, <1>6, <2>3, <2>4
<1>15. /\ field_size' \in [Fields -> Nat] /\ capacity' \in [Fields -> Nat]
       /\ field_size'[f] = n /\ capacity'[f] = n
       /\ \A g \in Fields \ {f} : field_size'[g] = field_size[g] /\ capacity'[g] = capacity[g]
  BY <1>2, <1>5, <1>12 DEF Decoding
<1>16. Begun(f)'
  BY <1>1, <1>2, <1>5, <1>6, <1>9, <1>13, <1>15 DEF Begun
<1>17. InPlace'
  <2>1. Len(memory[f]) = 0
    BY <1>1, <1>2 DEF Begun
  <2> QED
    BY <1>1, <1>5, <1>13, <1>15, <2>1 DEF InPlace, Decoding
<1>18. Decoding'
  <2>1. /\ field_offset' \in Nat \ {0} /\ field_internal_offset' \in Nat
        /\ decoding_len' \in BOOLEAN /\ memory' \in [Fields' -> Seq(Byte)]
        /\ field_size' \in [Fields' -> Nat] /\ capacity' \in [Fields' -> Nat]
    BY <1>0, <1>1, <1>13, <1>15 DEF Decoding
  <2>2. \A g \in Fields' : g > field_offset' =>
          /\ memory'[g] = <<>> /\ g \notin switched'
          /\ field_size'[g] = (IF layout'[g].array THEN 0 ELSE Bytes(g)')
          /\ ~layout'[g].array => capacity'[g] = Bytes(g)'
    <3> SUFFICES ASSUME NEW g \in Fields, g > f
                 PROVE  /\ memory'[g] = <<>> /\ g \notin switched'
                        /\ field_size'[g] = (IF layout[g].array THEN 0 ELSE Bytes(g))
                        /\ ~layout[g].array => capacity'[g] = Bytes(g)
      BY <1>1, <1>13
    <3> QED
      BY <1>0, <1>1, <1>15 DEF Decoding
  <2>3. field_offset' \in Fields' /\ Begun(field_offset)'
    BY <1>1, <1>2, <1>13, <1>16 DEF Begun
  <2> QED
    BY <1>14, <1>17, <2>1, <2>2, <2>3 DEF Decoding
<1> QED
  BY <1>4, <1>18

\* The first byte of a length, at the end of a packet.
LEMMA ReadLowByteInPlace ==
  ASSUME Decodable, DescriptorInv, ReadLowByte PROVE DescriptorInv'
<1> USE DEF DescriptorInv
<1>0. PICK f \in Nat : f = field_offset
  BY DEF Decoding
<1> DEFINE n == layout[f].count
<1>1. /\ AtLength /\ Len(body) = 1 /\ body' = <<>> /\ body # <<>>
      /\ field_offset' = f /\ field_internal_offset' = 0 /\ field_internal_offset = 0
      /\ decoding_len' /\ decoding_len' \in BOOLEAN /\ field_size[f] = 0
      /\ field_size' = [field_size EXCEPT ![f] = body[1].value]
      /\ capacity' = capacity /\ switched' = switched /\ memory' = memory
      /\ UNCHANGED <<sent, offset>>
  BY <1>0 DEF ReadLowByte, AtLength
<1>2. /\ Read \in Nat /\ Read + 1 \in DOMAIN block /\ body[1] = block[Read + 1]
      /\ body[1].of = f /\ body[1].at = NextAt /\ Placed(body[1])
      /\ f \in Fields /\ Fields = 1 .. generated /\ generated = Len(layout)
      /\ Begun(f) /\ Bytes(f) \in Nat /\ NextAt <= Bytes(f)
  BY <1>0, <1>1, NextByteIs
<1>3. 1 \in 1 .. Len(body) /\ body' = Drop(1)
  <2>1. body \in Seq(Byte) /\ 1 \in 0 .. Len(body) /\ Len(body) \in 1 .. Len(body)
    BY <1>1 DEF Cut
  <2>2. Drop(1) \in Seq(Byte) /\ Len(Drop(1)) = Len(body) - 1
    BY <2>1, Part DEF Drop
  <2>3. Len(Drop(1)) = 0
    BY <1>1, <2>2
  <2> QED
    BY <1>1, <2>2, <2>3
<1>4. LaidOut' /\ Cut' /\ Read' = Read + 1 /\ Read' > 0
  BY <1>1, <1>3, Taken
<1>5. /\ layout[f].array \in BOOLEAN /\ n \in Nat /\ generated \in Nat
      /\ layout[f].array => layout[f].width = 1 /\ Bytes(f) = n
      /\ layout[f].array /\ n = 0 => f = generated
      /\ ~layout[f].array => Bytes(f) > 0
  BY <1>2, FieldsAre DEF LaidOut, Decodable
<1>6. Waiting(f) /\ layout[f].array
  <2> SUFFICES ASSUME ~Waiting(f) PROVE FALSE
    BY DEF Waiting
  <2>1. Bytes(f) = 0
    BY <1>1, <1>2 DEF Begun
  <2>2. NextAt = 1
    BY <1>0, <1>1 DEF NextAt
  <2> QED
    BY <1>2, <2>1, <2>2
<1>7. block[Read + 1].at < Bytes(f) =>
        block[Read + 2].of = f /\ block[Read + 2].at = block[Read + 1].at + 1
  <2>1. (Read + 1) + 1 = Read + 2
    BY <1>2
  <2> QED
    BY <1>2, <2>1, Following
<1>8. block[Read + 1].at = Bytes(f) /\ Read + 2 \in DOMAIN block => f + 1 \in 1 .. generated
  <2>1. (Read + 1) + 1 = Read + 2
    BY <1>2
  <2> QED
    BY <1>2, <2>1, Following
<1>9. /\ decoding_len => n = 0 /\ block[Read + 1].at = 0
      /\ ~decoding_len => block[Read + 1].at = -1
  BY <1>0, <1>1, <1>2, <1>6 DEF Begun, NextAt
<1>10. body[1].value = n
  BY <1>2, <1>9 DEF Placed
<1>13. /\ Fields' = Fields /\ layout' = layout /\ block' = block
       /\ \A g : Bytes(g)' = Bytes(g) /\ FirstAt(g)' = FirstAt(g)
       /\ \A g : Waiting(g)' <=> Waiting(g)
  BY <1>1 DEF sent, Fields, Bytes, FirstAt, Waiting
<1>14. Expected' /\ Fresh'
  <2>1. NextAt' = 0
    BY <1>1, <1>6, <1>13 DEF NextAt
  <2> SUFFICES ASSUME Read + 1 < Len(block)
               PROVE  block[Read + 2].of = f /\ block[Read + 2].at = 0
    BY <1>1, <1>2, <1>4, <1>13, <2>1 DEF Expected, Fresh
  <2>2. Read + 2 \in DOMAIN block
    BY <1>2 DEF LaidOut
  <2>3. ~decoding_len
    BY <1>5, <1>6, <1>8, <1>9, <2>2
  <2> QED
    BY <1>5, <1>6, <1>7, <1>9, <2>3
<1>15. /\ field_size' \in [Fields -> Nat] /\ capacity' \in [Fields -> Nat]
       /\ field_size'[f] = n
       /\ \A g \in Fields \ {f} : field_size'[g] = field_size[g] /\ capacity'[g] = capacity[g]
  BY <1>1, <1>2, <1>5, <1>10 DEF Decoding
<1>16. Begun(f)'
  BY <1>1, <1>2, <1>5, <1>6, <1>13, <1>15 DEF Begun
<1>17. InPlace'
  BY <1>1, <1>13 DEF InPlace, Decoding
<1>18. Decoding'
  <2>1. /\ field_offset' \in Nat \ {0} /\ field_internal_offset' \in Nat
        /\ decoding_len' \in BOOLEAN /\ memory' \in [Fields' -> Seq(Byte)]
        /\ field_size' \in [Fields' -> Nat] /\ capacity' \in [Fields' -> Nat]
    BY <1>0, <1>1, <1>13, <1>15 DEF Decoding
  <2>2. \A g \in Fields' : g > field_offset' =>
          /\ memory'[g] = <<>> /\ g \notin switched'
          /\ field_size'[g] = (IF layout'[g].array THEN 0 ELSE Bytes(g)')
          /\ ~layout'[g].array => capacity'[g] = Bytes(g)'
    <3> SUFFICES ASSUME NEW g \in Fields, g > f
                 PROVE  /\ memory'[g] = <<>> /\ g \notin switched'
                        /\ field_size'[g] = (IF layout[g].array THEN 0 ELSE Bytes(g))
                        /\ ~layout[g].array => capacity'[g] = Bytes(g)
      BY <1>1, <1>13
    <3> QED
      BY <1>0, <1>1, <1>15 DEF Decoding
  <2>3. field_offset' \in Fields' /\ Begun(field_offset)'
    BY <1>1, <1>2, <1>13, <1>16 DEF Begun
  <2> QED
    BY <1>14, <1>17, <2>1, <2>2, <2>3 DEF Decoding
<1> QED
  BY <1>4, <1>18

\* The second byte of a length, at the beginning of a packet.
LEMMA ReadHighByteInPlace ==
  ASSUME Decodable, DescriptorInv, ReadHighByte PROVE DescriptorInv'
<1> USE DEF DescriptorInv
<1>0. PICK f \in Nat : f = field_offset
  BY DEF Decoding
<1> DEFINE n == layout[f].count
<1>1. /\ ~AtLength /\ decoding_len /\ body' = Drop(1) /\ body # <<>>
      /\ field_offset' = f /\ field_internal_offset' = field_internal_offset
      /\ ~decoding_len' /\ decoding_len' \in BOOLEAN /\ f \notin switched
      /\ field_size' = [field_size EXCEPT ![f] = field_size[f] + 256 * body[1].value]
      /\ capacity' = [capacity EXCEPT ![f] =
           ((field_size[f] + 256 * body[1].value) \div layout[f].width) * layout[f].width]
      /\ switched' = switched \cup {f} /\ memory' = memory
      /\ UNCHANGED <<sent, offset>>
  BY <1>0 DEF ReadHighByte, Allocate
<1>2. /\ Read \in Nat /\ Read + 1 \in DOMAIN block /\ body[1] = block[Read + 1]
      /\ body[1].of = f /\ body[1].at = NextAt /\ Placed(body[1])
      /\ f \in Fields /\ Fields = 1 .. generated /\ generated = Len(layout)
      /\ Begun(f) /\ Bytes(f) \in Nat
  BY <1>0, <1>1, NextByteIs
<1>3. 1 \in 1 .. Len(body)
  BY <1>1 DEF Cut
<1>4. LaidOut' /\ Cut' /\ Read' = Read + 1 /\ Read' > 0
  BY <1>1, <1>3, Taken
<1>5. /\ layout[f].array \in BOOLEAN /\ n \in Nat /\ generated \in Nat
      /\ layout[f].array => layout[f].width = 1 /\ Bytes(f) = n
  BY <1>2, FieldsAre DEF LaidOut, Decodable
<1>6. Waiting(f) /\ layout[f].array /\ field_internal_offset = 0 /\ field_size[f] = n
  BY <1>1, <1>2 DEF Begun, Waiting
<1>7. n > 0
  <2>1. f \in Fields /\ field_internal_offset = 0 /\ field_size[f] = n
    BY <1>2, <1>6
  <2>2. n # 0
    BY <1>0, <1>1, <2>1 DEF AtLength
  <2> QED
    BY <1>5, <2>2
<1>8. block[Read + 1].at = 0 /\ body[1].value = 0
  <2>1. NextAt = 0
    BY <1>0, <1>1, <1>6 DEF NextAt
  <2> QED
    BY <1>2, <2>1 DEF Placed
<1>12. /\ field_size' = [field_size EXCEPT ![f] = n]
       /\ capacity' = [capacity EXCEPT ![f] = n]
  <2>1. field_size[f] + 256 * body[1].value = n
    BY <1>5, <1>6, <1>8
  <2>2. (n \div 1) * 1 = n
    BY <1>5
  <2> QED
    BY <1>1, <1>5, <1>6, <2>1, <2>2
<1>13. /\ Fields' = Fields /\ layout' = layout /\ block' = block
       /\ \A g : Bytes(g)' = Bytes(g) /\ FirstAt(g)' = FirstAt(g)
       /\ \A g : Waiting(g)' <=> Waiting(g) /\ g # f
  BY <1>1 DEF sent, Fields, Bytes, FirstAt, Waiting
<1>14. Expected' /\ Fresh'
  <2>1. NextAt' = 1
    BY <1>1, <1>6, <1>13 DEF NextAt
  <2> SUFFICES ASSUME Read + 1 < Len(block)
               PROVE  block[Read + 2].of = f /\ block[Read + 2].at = 1
    BY <1>1, <1>2, <1>4, <1>13, <2>1 DEF Expected, Fresh
  <2>2. (Read + 1) + 1 = Read + 2
    BY <1>2
  <2>3. block[Read + 1].at < Bytes(f)
    BY <1>5, <1>6, <1>7, <1>8
  <2> QED
    BY <1>2, <1>8, <2>2, <2>3, Following
<1>15. /\ field_size' \in [Fields -> Nat] /\ capacity' \in [Fields -> Nat]
       /\ field_size'[f] = n /\ capacity'[f] = n
       /\ \A g \in Fields \ {f} : field_size'[g] = field_size[g] /\ capacity'[g] = capacity[g]
  BY <1>2, <1>5, <1>12 DEF Decoding
<1>16. Begun(f)'
  BY <1>1, <1>2, <1>5, <1>6, <1>7, <1>13, <1>15 DEF Begun
<1>17. InPlace'
  <2>1. Len(memory[f]) = 0
    BY <1>2, <1>6 DEF Begun
  <2> QED
    BY <1>1, <1>5, <1>13, <1>15, <2>1 DEF InPlace, Decoding
<1>18. Decoding'
  <2>1. /\ field_offset' \in Nat \ {0} /\ field_internal_offset' \in Nat
        /\ decoding_len' \in BOOLEAN /\ memory' \in [Fields' -> Seq(Byte)]
        /\ field_size' \in [Fields' -> Nat] /\ capacity' \in [Fields' -> Nat]
    BY <1>0, <1>1, <1>13, <1>15 DEF Decoding
  <2>2. \A g \in Fields' : g > field_offset' =>
          /\ memory'[g] = <<>> /\ g \notin switched'
          /\ field_size'[g] = (IF layout'[g].array THEN 0 ELSE Bytes(g)')
          /\ ~layout'[g].array => capacity'[g] = Bytes(g)'
    <3> SUFFICES ASSUME NEW g \in Fields, g > f
                 PROVE  /\ memory'[g] = <<>> /\ g \notin switched'
                        /\ field_size'[g] = (IF layout[g].array THEN 0 ELSE Bytes(g))
                        /\ ~layout[g].array => capacity'[g] = Bytes(g)
      BY <1>1, <1>13
    <3> QED
      BY <1>0, <1>1, <1>15 DEF Decoding
  <2>3. field_offset' \in Fields' /\ Begun(field_offset)'
    BY <1>1, <1>2, <1>13, <1>16 DEF Begun
  <2> QED
    BY <1>14, <1>17, <2>1, <2>2, <2>3 DEF Decoding
<1> QED
  BY <1>4, <1>18

\* As much of a field as the packet has.
LEMMA CopyInPlace ==
  ASSUME Decodable, DescriptorInv, Copy PROVE DescriptorInv'
<1> USE DEF DescriptorInv
<1>0. PICK f \in Nat, i \in Nat : f = field_offset /\ i = field_internal_offset
  BY DEF Decoding
<1> DEFINE left == field_size[f] - i
           n == IF left < Len(body) THEN left ELSE Len(body)
<1>1. /\ ~AtLength /\ ~decoding_len /\ body' = Drop(n) /\ body # <<>> /\ f \in Fields
      /\ decoding_len' = decoding_len
      /\ memory' = [memory EXCEPT ![f] = memory[f] \o SubSeq(body, 1, n)]
      /\ n = left => field_offset' = f + 1 /\ field_internal_offset' = 0
      /\ n # left => field_offset' = f /\ field_internal_offset' = i + n
      /\ field_size' = field_size /\ capacity' = capacity /\ switched' = switched
      /\ UNCHANGED <<sent, offset>>
  BY <1>0 DEF Copy
<1>2. /\ Read \in Nat /\ Read + 1 \in DOMAIN block /\ body[1] = block[Read + 1]
      /\ body[1].of = f /\ body[1].at = NextAt
      /\ f \in Fields /\ Fields = 1 .. generated /\ generated = Len(layout)
      /\ Begun(f) /\ Bytes(f) \in Nat
  BY <1>0, <1>1, NextByteIs
<1>3. ~Waiting(f)
  BY <1>0, <1>1, <1>2 DEF Begun, AtLength
<1>4. /\ field_size[f] = Bytes(f) /\ capacity[f] = Bytes(f) /\ Len(memory[f]) = i
      /\ i < Bytes(f) /\ NextAt = i + 1
  <2>1. /\ field_size[f] = Bytes(f) /\ capacity[f] = Bytes(f) /\ Len(memory[f]) = i
        /\ i < Bytes(f) \/ Bytes(f) = 0
    BY <1>0, <1>2, <1>3 DEF Begun
  <2>2. NextAt = i + 1
    BY <1>0, <1>3 DEF NextAt
  <2>3. ~(field_size[f] = 0 /\ i = 0)
    BY <1>0, <1>1 DEF AtLength
  <2>4. body[1].at <= Bytes(f)
    BY <1>0, <1>1, <1>2, NextByteIs
  <2> QED
    BY <1>2, <2>1, <2>2, <2>3, <2>4
<1>5. /\ left = Bytes(f) - i /\ n \in 1 .. Len(body) /\ n <= left /\ n \in Nat /\ left \in Nat
      /\ n # left => n = Len(body) /\ n < left
  <2>1. Len(body) \in Nat /\ Len(body) > 0
    BY <1>1 DEF Cut
  <2> QED
    BY <1>2, <1>4, <2>1
<1> HIDE DEF n, left
<1>6. /\ LaidOut' /\ Cut' /\ Read' = Read + n /\ Read' > 0 /\ Read + n <= Len(block)
      /\ \A k \in 1 .. n : Read + k \in DOMAIN block /\ body[k] = block[Read + k]
  BY <1>1, <1>5, Taken
<1>7. \A k \in 1 .. n : block[Read + k].of = f /\ block[Read + k].at = i + k
  <2> SUFFICES ASSUME NEW k \in 1 .. n
               PROVE  block[Read + k].of = f /\ block[Read + k].at = i + k
    OBVIOUS
  <2>1. k - 1 \in Nat /\ (Read + 1) + (k - 1) = Read + k /\ (i + 1) + (k - 1) = i + k
        /\ (i + 1) + (k - 1) <= Bytes(f)
    BY <1>2, <1>4, <1>5
  <2>2. block[Read + 1].of = f /\ block[Read + 1].at = i + 1
    BY <1>2, <1>4
  <2> QED
    BY <1>2, <2>1, <2>2 DEF LaidOut, Runs
<1>8. /\ Read + n \in DOMAIN block /\ block[Read + n].of = f /\ block[Read + n].at = i + n
  BY <1>5, <1>6, <1>7
<1>9. /\ memory[f] \in Seq(Byte) /\ SubSeq(body, 1, n) \in Seq(Byte)
      /\ Len(SubSeq(body, 1, n)) = n
      /\ \A k \in 1 .. n : SubSeq(body, 1, n)[k] = body[k]
  <2>1. 0 \in 0 .. Len(body) /\ n \in 0 .. Len(body) /\ body \in Seq(Byte) /\ n - 0 = n
        /\ 0 + 1 = 1 /\ \A k \in 1 .. n : 0 + k = k
    BY <1>5 DEF Cut
  <2> QED
    BY <1>1, <2>1, Part DEF Decoding
<1>10. /\ memory' \in [Fields -> Seq(Byte)] /\ Len(memory'[f]) = i + n
       /\ \A g \in Fields \ {f} : memory'[g] = memory[g]
       /\ \A k \in 1 .. i : memory'[f][k] = memory[f][k]
       /\ \A k \in 1 .. n : memory'[f][i + k] = body[k]
  <2> DEFINE m == memory[f] \o SubSeq(body, 1, n)
  <2>1. /\ m \in Seq(Byte) /\ Len(m) = i + n
        /\ \A k \in 1 .. i : m[k] = memory[f][k]
        /\ \A k \in 1 .. n : m[i + k] = body[k]
    <3> DEFINE p == SubSeq(body, 1, n)  q == memory[f]
    <3>1. p \in Seq(Byte) /\ q \in Seq(Byte) /\ Len(q) = i /\ Len(p) = n
          /\ \A k \in 1 .. n : p[k] = body[k]
      BY <1>4, <1>9
    <3> HIDE DEF p, q
    <3>2. /\ q \o p \in Seq(Byte) /\ Len(q \o p) = i + n
          /\ \A k \in 1 .. i : (q \o p)[k] = q[k]
          /\ \A k \in 1 .. n : (q \o p)[i + k] = p[k]
      <4>1. /\ q \o p \in Seq(Byte) /\ Len(q \o p) = Len(q) + Len(p)
            /\ \A k \in 1 .. Len(q) : (q \o p)[k] = q[k]
            /\ \A k \in 1 .. Len(p) : (q \o p)[Len(q) + k] = p[k]
        <5>1. q \in Seq(Byte) /\ p \in Seq(Byte)
          BY <3>1
        <5> QED
          BY <5>1, Joined
      <4> QED
        BY <3>1, <4>1
    <3> QED
      BY <3>1, <3>2 DEF p, q
  <2>2. memory \in [Fields -> Seq(Byte)] /\ memory' = [memory EXCEPT ![f] = m]
    BY <1>1 DEF Decoding
  <2> HIDE DEF m
  <2>3. memory'[f] = m /\ memory' \in [Fields -> Seq(Byte)]
        /\ \A g \in Fields \ {f} : memory'[g] = memory[g]
    BY <1>1, <2>1, <2>2
  <2> QED
    BY <2>1, <2>3
<1>11. InPlace'
  <2> SUFFICES ASSUME NEW g \in Fields
               PROVE  /\ Len(memory'[g]) <= capacity[g]
                      /\ \A k \in 1 .. Len(memory'[g]) :
                           memory'[g][k].of = g /\ memory'[g][k].at = k
    BY <1>1 DEF InPlace, Fields, sent
  <2>1. CASE g # f
    BY <1>10, <2>1 DEF Decoding, InPlace
  <2>2. CASE g = f
    <3>1. i + n <= Bytes(f)
      BY <1>2, <1>4, <1>5
    <3>2. ASSUME NEW k \in 1 .. i + n PROVE memory'[f][k].of = f /\ memory'[f][k].at = k
      <4>1. CASE k <= i
        <5>1. k \in 1 .. i /\ k \in 1 .. Len(memory[f])
          BY <1>4, <4>1
        <5> QED
          BY <1>1, <1>10, <5>1 DEF Decoding, InPlace
      <4>2. CASE k > i
        <5>1. k - i \in 1 .. n /\ i + (k - i) = k
          BY <1>5, <4>2
        <5>2. memory'[f][k] = body[k - i] /\ body[k - i] = block[Read + (k - i)]
          BY <1>6, <1>10, <5>1
        <5> QED
          BY <1>7, <5>1, <5>2
      <4> QED
        BY <1>5, <4>1, <4>2
    <3> QED
      BY <1>4, <1>10, <2>2, <3>1, <3>2
  <2> QED
    BY <2>1, <2>2
<1>13. /\ Fields' = Fields /\ layout' = layout /\ block' = block
       /\ \A g : Bytes(g)' = Bytes(g) /\ FirstAt(g)' = FirstAt(g)
       /\ \A g : Waiting(g)' <=> Waiting(g)
  BY <1>1 DEF sent, Fields, Bytes, FirstAt, Waiting
<1>14. CASE n = left
  <2>1. /\ field_offset' = f + 1 /\ field_internal_offset' = 0 /\ i + n = Bytes(f)
        /\ f + 1 > f
    <3>1. i + left = Bytes(f)
      BY <1>2, <1>5
    <3>2. field_offset' = f + 1 /\ field_internal_offset' = 0
      BY <1>1, <1>14
    <3> QED
      BY <1>14, <3>1, <3>2
  <2>2. f + 1 \in Fields => NextAt' = FirstAt(f + 1) /\ Begun(field_offset)'
    <3> SUFFICES ASSUME f + 1 \in Fields
                 PROVE  NextAt' = FirstAt(f + 1) /\ Begun(field_offset)'
      OBVIOUS
    <3>1. /\ memory[f + 1] = <<>> /\ f + 1 \notin switched
          /\ field_size[f + 1] = (IF layout[f + 1].array THEN 0 ELSE Bytes(f + 1))
          /\ ~layout[f + 1].array => capacity[f + 1] = Bytes(f + 1) /\ Bytes(f + 1) > 0
      BY <1>0, <2>1, FieldsAre DEF Decoding, LaidOut, Decodable
    <3>2. memory'[f + 1] = <<>> /\ Len(memory'[f + 1]) = 0
      BY <1>10, <2>1, <3>1
    <3>3. NextAt' = FirstAt(f + 1)
      BY <1>1, <1>13, <2>1, <3>1 DEF NextAt, Waiting, FirstAt
    <3>4. Waiting(f + 1) <=> layout[f + 1].array
      BY <3>1 DEF Waiting
    <3> DEFINE g == f + 1
    <3> HIDE DEF g
    <3>5. /\ field_offset' = g /\ field_internal_offset' = 0 /\ Len(memory'[g]) = 0
          /\ Waiting(g)' <=> layout[g].array
          /\ layout[g].array => field_size'[g] = 0
          /\ ~layout[g].array => field_size'[g] = Bytes(g) /\ capacity'[g] = Bytes(g)
                                 /\ 0 < Bytes(g)
          /\ ~decoding_len'
      BY <1>1, <1>13, <2>1, <3>1, <3>2, <3>4 DEF g
    <3>6. Begun(field_offset)'
      BY <1>13, <3>5 DEF Begun
    <3> QED
      BY <3>3, <3>6
  <2>3. Expected' /\ Fresh'
    <3> SUFFICES ASSUME Read + n < Len(block)
                 PROVE  block[Read + n + 1].of = f + 1 /\ block[Read + n + 1].at = NextAt'
      BY <1>6, <1>13, <2>1 DEF Expected, Fresh
    <3>1. (Read + n) + 1 \in DOMAIN block
      BY <1>2, <1>5 DEF LaidOut
    <3>2. /\ block[(Read + n) + 1].of = f + 1 /\ block[(Read + n) + 1].at = FirstAt(f + 1)
          /\ f + 1 \in 1 .. generated
      BY <1>8, <2>1, <3>1, Following
    <3> QED
      BY <1>2, <2>2, <3>2
  <2>4. \A g \in Fields' : g > field_offset' =>
          /\ memory'[g] = <<>> /\ g \notin switched'
          /\ field_size'[g] = (IF layout'[g].array THEN 0 ELSE Bytes(g)')
          /\ ~layout'[g].array => capacity'[g] = Bytes(g)'
    <3> SUFFICES ASSUME NEW g \in Fields, g > f + 1
                 PROVE  /\ memory'[g] = <<>> /\ g \notin switched
                        /\ field_size[g] = (IF layout[g].array THEN 0 ELSE Bytes(g))
                        /\ ~layout[g].array => capacity[g] = Bytes(g)
      BY <1>1, <1>13, <2>1
    <3>1. g > f /\ g # f
      BY <1>2
    <3> QED
      BY <1>0, <1>10, <3>1 DEF Decoding
  <2>5. /\ field_offset' \in Nat \ {0} /\ field_internal_offset' \in Nat
        /\ decoding_len' \in BOOLEAN /\ ~decoding_len'
        /\ field_size' \in [Fields' -> Nat] /\ capacity' \in [Fields' -> Nat]
    BY <1>1, <1>13, <2>1 DEF Decoding
  <2> QED
    BY <1>6, <1>10, <1>11, <1>13, <2>1, <2>2, <2>3, <2>4, <2>5 DEF Decoding
<1>15. CASE n # left
  <2>1. field_offset' = f /\ field_internal_offset' = i + n /\ i + n < Bytes(f)
    BY <1>1, <1>2, <1>4, <1>5, <1>15
  <2>2. NextAt' = i + n + 1
    BY <1>3, <1>13, <2>1 DEF NextAt
  <2>3. Expected' /\ Fresh'
    <3>1. (Read + n) + 1 \in DOMAIN block /\ block[(Read + n) + 1].of = f
          /\ block[(Read + n) + 1].at = i + n + 1
      BY <1>8, <2>1, Following
    <3> QED
      BY <1>6, <1>13, <2>1, <2>2, <3>1 DEF Expected, Fresh
  <2>4. \A g \in Fields' : g > field_offset' =>
          /\ memory'[g] = <<>> /\ g \notin switched'
          /\ field_size'[g] = (IF layout'[g].array THEN 0 ELSE Bytes(g)')
          /\ ~layout'[g].array => capacity'[g] = Bytes(g)'
    <3> SUFFICES ASSUME NEW g \in Fields, g > f
                 PROVE  /\ memory'[g] = <<>> /\ g \notin switched
                        /\ field_size[g] = (IF layout[g].array THEN 0 ELSE Bytes(g))
                        /\ ~layout[g].array => capacity[g] = Bytes(g)
      BY <1>1, <1>13, <2>1
    <3>1. g # f
      BY <1>2
    <3> QED
      BY <1>0, <1>10, <3>1 DEF Decoding
  <2>5. Begun(f)'
    BY <1>1, <1>3, <1>4, <1>10, <1>13, <2>1 DEF Begun
  <2>6. /\ field_offset' \in Nat \ {0} /\ field_internal_offset' \in Nat
        /\ decoding_len' \in BOOLEAN /\ field_offset' \in Fields' /\ Begun(field_offset)'
        /\ field_size' \in [Fields' -> Nat] /\ capacity' \in [Fields' -> Nat]
    BY <1>0, <1>1, <1>5, <1>13, <2>1, <2>5 DEF Decoding, Begun
  <2>7. memory' \in [Fields' -> Seq(Byte)]
    BY <1>10, <1>13
  <2> QED
    BY <1>6, <1>11, <2>3, <2>4, <2>6, <2>7 DEF Decoding
<1> QED
  BY <1>6, <1>14, <1>15

\* The next byte is always the expected one, and the others are where they belong.
LEMMA DescriptorInvariance == ASSUME Decodable PROVE DescriptorSpec => []DescriptorInv
<1>1. DescriptorInit => DescriptorInv
  BY InitInPlace
<1>2. DescriptorInv /\ [DescriptorNext]_descriptor_vars => DescriptorInv'
  <2> SUFFICES ASSUME DescriptorInv, [DescriptorNext]_descriptor_vars PROVE DescriptorInv'
    OBVIOUS
  <2>1. CASE UNCHANGED descriptor_vars
    <3>1. /\ UNCHANGED <<layout, block, generated, offset, body, field_size, field_offset>>
          /\ UNCHANGED <<field_internal_offset, decoding_len, switched, capacity, memory>>
      BY <2>1 DEF descriptor_vars, descriptor, sent
    <3>2. LaidOut'
      BY <3>1 DEF DescriptorInv, LaidOut, Runs, Turns, Placed, Bytes, FirstAt
    <3>3. Cut'
      BY <3>1 DEF DescriptorInv, Cut, Read
    <3>4. Decoding'
      BY <3>1 DEF DescriptorInv, Decoding, Begun, Fresh, Expected, InPlace, NextAt, Waiting,
                  Fields, Bytes, FirstAt, Read
    <3> QED
      BY <3>2, <3>3, <3>4 DEF DescriptorInv
  <2> QED
    BY <2>1, GenerateInPlace, NextBlockInPlace, ReadLengthInPlace, ReadLowByteInPlace,
       ReadHighByteInPlace, CopyInPlace DEF DescriptorNext
<1> QED
  BY <1>1, <1>2, PTL DEF DescriptorSpec

\* Every byte of every field of a message arrives where it was sent from, however
\* the packets cut the fields and the lengths: for messages of any number of
\* fields, packets of any size, and arrays of bytes of which only the last field
\* may be empty.
THEOREM BytesStayInPlace ==
  ASSUME OneByteElements, EmptyOnlyLast PROVE DescriptorSpec => []InPlace
<1>1. DescriptorInv => InPlace
  BY DEF DescriptorInv, Decoding
<1>2. DescriptorSpec => []DescriptorInv
  BY DescriptorInvariance DEF Decodable
<1> QED
  BY <1>1, <1>2, PTL
=============================================================================
