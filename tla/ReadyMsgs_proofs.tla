-------------------------- MODULE ReadyMsgs_proofs --------------------------
(***************************************************************************)
(* What holds of ready_msgs for every size of the ring and every number of *)
(* messages, however the two tasks interleave.                             *)
(*                                                                         *)
(* As for a publisher's queue the argument is about ages: the slot         *)
(* Age(t, i) steps behind the tail t was written Age(t, i) puts ago.  What *)
(* is new is that a put may come between any two statements of a pop.  A   *)
(* put leaves every slot but the oldest as new as it was, and makes that   *)
(* one the newest, so the place where the application task is going to     *)
(* read next, even one it has worked out from a head that put has moved    *)
(* since, never gets older than what it has read.                          *)
(***************************************************************************)
EXTENDS ReadyMsgs, MessageBuffer_proofs

\* With c puts made and the next at t, slot i is empty or newer than m.
Later(t, c, i, m) == i # t => Age(t, i) <= c /\ m < c + 1 - Age(t, i)

\* The slot a pop that starts with the cursor h reads, or the one after it when
\* h is out of the array.
InArray(h) == IF h \in Slot THEN h ELSE Size - 1

\* Where the pop after the one under way is going to read.
Ahead ==
  IF pc \in {"copying", "load"} THEN StepDown(buffer.head)
  ELSE IF pc = "store" THEN StepDown(reg)
  ELSE InArray(Reader)

\* A message has been read that is still to be given.
InHand == pc \in {"copying", "load", "store"} /\ copy \in Message

\* The newest message read so far.
LastRead == IF InHand THEN copy ELSE newest

Types ==
  /\ buffer \in [slots : [Slot -> Message], head : -2 .. Size - 1, tail : Slot]
  /\ completed \in Message
  /\ pc \in {"idle", "compare", "copy", "copying", "load", "store", "wrap"}
  /\ reg \in -1 .. Size - 1
  /\ newest \in Message
  /\ broken \in BOOLEAN
  /\ restarts \in Nat

\* Only a store whose wrap is due moves head two below the array.
TwoBelow == buffer.head = -2 => pc = "wrap" /\ reg - 1 < 0

\* While the wrap is due head stays where the store left it.
WrapDue == pc = "wrap" /\ reg - 1 < 0 => buffer.head = reg - 1

\* Every slot written so far holds the message put into it last.
SlotsHoldTheirAge ==
  \A i \in Slot :
    Age(buffer.tail, i) <= completed =>
      buffer.slots[i] = completed + 1 - Age(buffer.tail, i)

\* is_empty has not been overtaken: a put never leaves the cursors equal.
FoundMessage ==
  /\ pc = "compare" => buffer.head = reg \/ buffer.head # buffer.tail
  /\ pc = "copy" => buffer.head # buffer.tail

\* The message in hand is newer than all given, and what is read next is newer.
ReadsForward ==
  /\ InHand => newest < copy
  /\ LastRead <= completed
  /\ Later(buffer.tail, completed, Ahead, LastRead)

IInv ==
  /\ Types
  /\ TwoBelow
  /\ WrapDue
  /\ SlotsHoldTheirAge
  /\ FoundMessage
  /\ ReadsForward

\* Until an overrun in the middle of a pop, the pop has the head of the ring in
\* hand.
PopHolds ==
  ~broken =>
    /\ Reader \in Slot
    /\ pc \in {"copying", "load", "store"} =>
         copy = buffer.slots[buffer.head] /\ buffer.head # buffer.tail
    /\ pc \in {"copying", "store"} => reg = buffer.head

USE SizeAssumption DEF SizeAssumption
USE ReadyAssumption DEF ReadyAssumption

----------------------------------------------------------------------------
(* Ages. *)

\* What is newer than a message is newer than an older one.
LEMMA OlderIsLater ==
  ASSUME NEW t \in Slot, NEW i \in Slot, NEW c \in Nat, NEW m \in Nat,
         NEW k \in Nat, k <= m, Later(t, c, i, m)
  PROVE  Later(t, c, i, k)
BY AgeInRange DEF Later

\* What is newer than a message stays so when another is put.
LEMMA PutKeepsLater ==
  ASSUME NEW t \in Slot, NEW i \in Slot, NEW c \in Nat, NEW m \in Nat, m <= c,
         Later(t, c, i, m)
  PROVE  Later(StepDown(t), c + 1, i, m)
BY PutAges, AgeInRange DEF Later

\* The slot after one that is not the tail is newer still.
LEMMA NextIsLater ==
  ASSUME NEW t \in Slot, NEW i \in Slot, NEW c \in Nat, NEW m \in Nat, i # t,
         Age(t, i) <= c, m <= c + 1 - Age(t, i)
  PROVE  Later(t, c, StepDown(i), m)
BY DEF Later, Age, StepDown, Slot

\* The put that makes i the tail moves a reader on to the slot after it.
LEMMA OverrunKeepsLater ==
  ASSUME NEW t \in Slot, NEW i \in Slot, NEW c \in Nat, NEW m \in Nat, i # t,
         i = StepDown(t), Later(t, c, i, m)
  PROVE  Later(i, c + 1, StepDown(i), m)
BY DEF Later, Age, StepDown, Slot

\* The places the application task reads are in the array, and one step below
\* the array is as far as the end of it.
LEMMA Places ==
  ASSUME NEW h \in -1 .. Size - 1
  PROVE  /\ StepDown(h) \in Slot /\ InArray(h) \in Slot
         /\ h \notin Slot => h = -1 /\ InArray(h) = StepDown(h)
         /\ h \in Slot => InArray(h) = h
BY DEF StepDown, InArray, Slot

\* A put that runs into head moves it from h to h - 1.
LEMMA HeadMoves ==
  ASSUME NEW h \in Slot
  PROVE  /\ InArray(h - 1) = StepDown(h)
         /\ StepDown(h - 1) = IF h = 0 THEN StepDown(h) ELSE StepDown(StepDown(h))
         /\ StepDown(h) # h
BY DEF StepDown, InArray, Slot

----------------------------------------------------------------------------
(* The invariant is inductive. *)

\* The parts of the invariant that concern one variable.
LEMMA Parts ==
  ASSUME IInv
  PROVE  /\ buffer.slots \in [Slot -> Message] /\ buffer.tail \in Slot
         /\ buffer.head \in -2 .. Size - 1
         /\ pc # "wrap" => buffer.head \in -1 .. Size - 1
         /\ completed \in 0 .. MaxMessages /\ newest \in 0 .. MaxMessages
         /\ pc \in {"idle", "compare", "copy", "copying", "load", "store", "wrap"}
         /\ reg \in -1 .. Size - 1
         /\ LastRead \in 0 .. MaxMessages /\ LastRead <= completed
         /\ newest <= LastRead /\ newest <= completed
<1>1. /\ buffer.slots \in [Slot -> Message] /\ buffer.tail \in Slot
      /\ buffer.head \in -2 .. Size - 1
      /\ completed \in 0 .. MaxMessages /\ newest \in 0 .. MaxMessages
      /\ pc \in {"idle", "compare", "copy", "copying", "load", "store", "wrap"}
      /\ reg \in -1 .. Size - 1
  BY DEF IInv, Types, Message
<1>2. pc # "wrap" => buffer.head \in -1 .. Size - 1
  BY <1>1 DEF IInv, TwoBelow
<1>3. /\ LastRead \in 0 .. MaxMessages /\ LastRead <= completed
      /\ newest <= LastRead
  BY <1>1 DEF IInv, ReadsForward, LastRead, InHand, Message
<1> QED
  BY <1>1, <1>2, <1>3

\* The initial ring is empty and its slots hold nothing that was completed.
LEMMA InitInvariant == Init => IInv
<1> SUFFICES ASSUME Init PROVE IInv
  OBVIOUS
<1>1. /\ buffer = [slots |-> [i \in Slot |-> 0], head |-> Size - 1, tail |-> Size - 1]
      /\ completed = 0 /\ pc = "idle" /\ reg = 0 /\ copy = 0 /\ newest = 0
      /\ broken = FALSE /\ restarts = 0
  BY DEF Init, NewBuffer
<1>2. Size - 1 \in Slot /\ Size - 1 \in -2 .. Size - 1 /\ Size - 1 # -2
  BY DEF Slot
<1>3. Types
  <2>1. 0 \in Message /\ [i \in Slot |-> 0] \in [Slot -> Message]
    BY DEF Message
  <2>2. buffer \in [slots : [Slot -> Message], head : -2 .. Size - 1, tail : Slot]
    BY <1>1, <1>2, <2>1
  <2>3. 0 \in -1 .. Size - 1 /\ 0 \in Nat
    OBVIOUS
  <2> QED
    BY <1>1, <2>1, <2>2, <2>3 DEF Types
<1>4. TwoBelow /\ WrapDue /\ FoundMessage
  BY <1>1, <1>2 DEF TwoBelow, WrapDue, FoundMessage
<1>5. SlotsHoldTheirAge
  BY <1>1, <1>2, AgeInRange DEF SlotsHoldTheirAge
<1>6. ReadsForward
  BY <1>1, <1>2 DEF ReadsForward, InHand, LastRead, Ahead, Reader, InArray, Later
<1> QED
  BY <1>3, <1>4, <1>5, <1>6 DEF IInv

\* A put ages every slot by one and moves head only towards newer ones.
LEMMA CompleteInvariant == IInv /\ Complete => IInv'
<1> SUFFICES ASSUME IInv, Complete PROVE IInv'
  OBVIOUS
<1> DEFINE t == buffer.tail
           h == buffer.head
           u == StepDown(t)
           c == completed
<1>1. /\ Types /\ TwoBelow /\ WrapDue /\ SlotsHoldTheirAge /\ FoundMessage
      /\ ReadsForward
  BY DEF IInv
<1>2. /\ buffer.slots \in [Slot -> Message] /\ t \in Slot
      /\ h \in -2 .. Size - 1 /\ (pc # "wrap" => h \in -1 .. Size - 1)
      /\ c \in 0 .. MaxMessages /\ newest \in 0 .. MaxMessages
      /\ reg \in -1 .. Size - 1
      /\ LastRead \in Nat /\ LastRead <= c
  BY Parts
<1>3. u \in Slot /\ u # t
  BY <1>2, StepDownInSlot DEF Slot, StepDown
<1>4. /\ buffer' = [slots |-> [buffer.slots EXCEPT ![t] = c + 1],
                    tail |-> u,
                    head |-> IF u = h THEN h - 1 ELSE h]
      /\ c < MaxMessages /\ completed' = c + 1
      /\ pc' = pc /\ reg' = reg /\ copy' = copy /\ newest' = newest
      /\ restarts' = restarts
      /\ broken' \in BOOLEAN
  BY <1>1 DEF Complete, Put, local, Types
<1>5. /\ buffer'.slots = [buffer.slots EXCEPT ![t] = c + 1]
      /\ buffer'.tail = u
      /\ buffer'.head = IF u = h THEN h - 1 ELSE h
  BY <1>4
<1>6. Types'
  <2>1. c + 1 \in Message
    BY <1>2, <1>4 DEF Message
  <2>2. [buffer.slots EXCEPT ![t] = c + 1] \in [Slot -> Message]
    BY <1>2, <2>1
  <2>3. (IF u = h THEN h - 1 ELSE h) \in -2 .. Size - 1
    BY <1>2, <1>3 DEF Slot
  <2>4. buffer' \in [slots : [Slot -> Message], head : -2 .. Size - 1, tail : Slot]
    BY <1>3, <1>4, <2>2, <2>3
  <2> QED
    BY <1>1, <1>4, <2>1, <2>4 DEF Types
<1>7. TwoBelow' /\ WrapDue' /\ FoundMessage'
  BY <1>1, <1>2, <1>3, <1>4, <1>5 DEF TwoBelow, WrapDue, FoundMessage, Slot
<1>8. SlotsHoldTheirAge'
  <2> SUFFICES ASSUME NEW i \in Slot, Age(u, i) <= c + 1
               PROVE  buffer'.slots[i] = (c + 1) + 1 - Age(u, i)
    BY <1>4, <1>5 DEF SlotsHoldTheirAge
  <2>1. CASE i = t
    BY <2>1, <1>2, <1>5, PutAges
  <2>2. CASE i # t
    <3>1. buffer'.slots[i] = buffer.slots[i]
      BY <2>2, <1>2, <1>5
    <3>2. Age(t, i) \in 1 .. Size /\ Age(u, i) = Age(t, i) + 1
      BY <2>2, <1>2, PutAges, AgeInRange
    <3>3. buffer.slots[i] = c + 1 - Age(t, i)
      BY <1>1, <1>2, <3>2 DEF SlotsHoldTheirAge
    <3> QED
      BY <1>2, <3>1, <3>2, <3>3
  <2> QED
    BY <2>1, <2>2
<1>9. InHand' = InHand /\ LastRead' = LastRead
  BY <1>4 DEF InHand, LastRead
<1>10. Later(u, c + 1, Ahead', LastRead)
  <2> DEFINE m == LastRead
  <2>1. Later(t, c, Ahead, m)
    BY <1>1 DEF ReadsForward
  <2>2. CASE Ahead' = Ahead
    <3>1. Ahead \in Slot
      BY <1>2, Places DEF Ahead, Reader, InArray, Slot
    <3> QED
      BY <1>2, <2>1, <2>2, <3>1, PutKeepsLater
  <2>3. CASE Ahead' # Ahead
    <3>1. h = u /\ h \in Slot
      BY <1>3, <1>4, <1>5, <2>3 DEF Ahead, Reader
    <3>2. buffer'.head = h - 1
      BY <1>5, <3>1
    <3>3. CASE pc \in {"copying", "load"}
      <4>1. Ahead = StepDown(h) /\ Ahead' = StepDown(StepDown(h))
        <5>1. Ahead = StepDown(h) /\ Ahead' = StepDown(h - 1)
          BY <1>4, <3>2, <3>3 DEF Ahead
        <5> QED
          BY <2>3, <3>1, <5>1, HeadMoves
      <4>2. StepDown(h) \in Slot /\ StepDown(h) # h
        BY <3>1, HeadMoves, Places DEF Slot
      <4>3. Later(u, c + 1, StepDown(h), m)
        BY <1>2, <2>1, <4>1, <4>2, PutKeepsLater
      <4>4. /\ Age(u, StepDown(h)) <= c + 1
            /\ m <= (c + 1) + 1 - Age(u, StepDown(h))
        BY <1>2, <1>3, <3>1, <4>2, <4>3, AgeInRange DEF Later
      <4> QED
        BY <1>2, <1>3, <3>1, <4>1, <4>2, <4>4, NextIsLater
    <3>4. CASE pc \notin {"copying", "load"}
      <4>1. pc # "store" /\ ~(pc = "wrap" /\ reg - 1 < 0)
        BY <1>4, <2>3, <3>4 DEF Ahead, Reader
      <4>2. Ahead = InArray(h) /\ Ahead' = InArray(h - 1)
        BY <1>4, <3>2, <3>4, <4>1 DEF Ahead, Reader
      <4>3. Ahead = h /\ Ahead' = StepDown(h)
        BY <3>1, <4>2, HeadMoves DEF InArray
      <4> QED
        BY <1>2, <1>3, <2>1, <3>1, <4>3, OverrunKeepsLater
    <3> QED
      BY <3>3, <3>4
  <2> QED
    BY <2>2, <2>3
<1>11. ReadsForward'
  <2>1. (InHand => newest < copy) /\ LastRead <= c + 1
    BY <1>1, <1>2 DEF ReadsForward
  <2> QED
    BY <1>4, <1>5, <1>9, <1>10, <2>1 DEF ReadsForward
<1> QED
  BY <1>6, <1>7, <1>8, <1>11 DEF IInv

\* is_empty touches nothing the invariant is about, and is never overtaken.
LEMMA IsEmptyInvariant == IInv /\ (LoadHead \/ CompareTail) => IInv'
<1> SUFFICES ASSUME IInv, LoadHead \/ CompareTail PROVE IInv'
  OBVIOUS
<1>1. /\ Types /\ TwoBelow /\ WrapDue /\ SlotsHoldTheirAge /\ FoundMessage
      /\ ReadsForward
  BY DEF IInv
<1>2. /\ buffer' = buffer /\ completed' = completed /\ newest' = newest
      /\ copy' = copy
      /\ pc \in {"idle", "compare"} /\ pc' \in {"idle", "compare", "copy"}
  BY DEF LoadHead, CompareTail, local
<1>3. reg' \in -1 .. Size - 1
  BY <1>1, Parts DEF LoadHead, CompareTail, local, Types
<1>4. broken' \in BOOLEAN /\ restarts' \in Nat
  <2>1. broken \in BOOLEAN /\ restarts \in Nat
    BY <1>1 DEF Types
  <2>2. CASE LoadHead
    BY <2>1, <2>2 DEF LoadHead
  <2>3. CASE CompareTail
    <3>1. \/ broken' = FALSE /\ restarts' = restarts + 1
          \/ broken' = broken /\ restarts' = restarts
      BY <2>3 DEF CompareTail
    <3>2. broken' \in BOOLEAN
      BY <2>1, <3>1, Zenon
    <3>3. restarts' \in Nat
      BY <2>1, <3>1
    <3> QED
      BY <3>2, <3>3
  <2> QED
    BY <2>2, <2>3
<1>5. Types'
  BY <1>1, <1>2, <1>3, <1>4 DEF Types
<1>6. TwoBelow' /\ WrapDue' /\ SlotsHoldTheirAge'
  BY <1>1, <1>2 DEF TwoBelow, WrapDue, SlotsHoldTheirAge
<1>7. FoundMessage'
  BY <1>1, <1>2 DEF LoadHead, CompareTail, local, FoundMessage
<1>8. LastRead' = LastRead /\ Ahead' = Ahead /\ ~InHand'
  BY <1>2 DEF LastRead, InHand, Ahead, Reader
<1>9. ReadsForward'
  BY <1>1, <1>2, <1>8 DEF ReadsForward
<1> QED
  BY <1>5, <1>6, <1>7, <1>9 DEF IInv

\* The message taken in hand is newer than all given.
LEMMA CopyBeginInvariant == IInv /\ CopyBegin => IInv'
<1> SUFFICES ASSUME IInv, CopyBegin PROVE IInv'
  OBVIOUS
<1> DEFINE t == buffer.tail
           h == buffer.head
           c == completed
<1>1. /\ Types /\ TwoBelow /\ WrapDue /\ SlotsHoldTheirAge /\ FoundMessage
      /\ ReadsForward
  BY DEF IInv
<1>2. /\ buffer' = buffer /\ completed' = c /\ newest' = newest
      /\ broken' = broken /\ restarts' = restarts
      /\ pc = "copy" /\ pc' = "copying" /\ reg' = h /\ copy' = ReadHead(buffer)
  BY DEF CopyBegin
<1>3. /\ buffer.slots \in [Slot -> Message] /\ t \in Slot
      /\ h \in -1 .. Size - 1
      /\ c \in 0 .. MaxMessages /\ newest \in 0 .. MaxMessages
      /\ newest <= c /\ h # t
  BY <1>1, <1>2, Parts DEF FoundMessage
<1>4. Types' /\ TwoBelow' /\ WrapDue' /\ SlotsHoldTheirAge' /\ FoundMessage'
  BY <1>1, <1>2, <1>3 DEF Types, TwoBelow, WrapDue, SlotsHoldTheirAge, FoundMessage
<1>5. Later(t, c, InArray(h), newest)
  BY <1>1, <1>2 DEF ReadsForward, Ahead, Reader, LastRead, InHand
<1>6. Ahead' = StepDown(h)
  BY <1>2 DEF Ahead
<1>7. CASE h \in Slot
  <2>1. Age(t, h) <= c /\ newest < c + 1 - Age(t, h)
    BY <1>3, <1>5, <1>7, Places DEF Later
  <2>2. copy' = c + 1 - Age(t, h) /\ copy' \in Message
    BY <1>1, <1>2, <1>3, <1>7, <2>1 DEF SlotsHoldTheirAge, ReadHead
  <2>3. copy' \in Nat /\ Age(t, h) \in 1 .. Size
    BY <1>3, <1>7, <2>2, AgeInRange DEF Message
  <2>4. Later(t, c, StepDown(h), copy')
    BY <1>3, <1>7, <2>1, <2>2, <2>3, NextIsLater
  <2>5. InHand' /\ LastRead' = copy'
    BY <1>2, <2>2 DEF InHand, LastRead
  <2>6. newest < copy' /\ copy' <= c
    BY <1>3, <2>1, <2>2, <2>3
  <2>7. ReadsForward'
    BY <1>2, <1>6, <2>4, <2>5, <2>6 DEF ReadsForward
  <2> QED
    BY <1>4, <2>7 DEF IInv
<1>8. CASE h \notin Slot
  <2>1. copy' = Outside /\ InArray(h) = StepDown(h)
    BY <1>2, <1>3, <1>8, Places DEF ReadHead
  <2>2. ~InHand' /\ LastRead' = newest
    BY <1>2, <2>1 DEF InHand, LastRead
  <2>3. ReadsForward'
    BY <1>2, <1>3, <1>5, <1>6, <2>1, <2>2 DEF ReadsForward
  <2> QED
    BY <1>4, <2>3 DEF IInv
<1> QED
  BY <1>7, <1>8

\* A torn copy is no message, and nothing is newer than it was for that.
LEMMA CopyEndInvariant == IInv /\ CopyEnd => IInv'
<1> SUFFICES ASSUME IInv, CopyEnd PROVE IInv'
  OBVIOUS
<1>1. /\ Types /\ TwoBelow /\ WrapDue /\ SlotsHoldTheirAge /\ FoundMessage
      /\ ReadsForward
  BY DEF IInv
<1>2. /\ buffer' = buffer /\ completed' = completed /\ newest' = newest
      /\ broken' = broken /\ restarts' = restarts /\ reg' = reg
      /\ pc = "copying" /\ pc' = "load" /\ copy' \in {copy, Torn}
  BY DEF CopyEnd
<1>3. /\ buffer.tail \in Slot /\ buffer.head \in -1 .. Size - 1
      /\ completed \in Nat /\ newest \in Nat /\ LastRead \in Nat
      /\ newest <= LastRead /\ LastRead <= completed
  BY <1>2, Parts
<1>4. Types' /\ TwoBelow' /\ WrapDue' /\ SlotsHoldTheirAge' /\ FoundMessage'
  BY <1>1, <1>2 DEF Types, TwoBelow, WrapDue, SlotsHoldTheirAge, FoundMessage
<1>5. Ahead' = Ahead /\ Ahead = StepDown(buffer.head)
  BY <1>2 DEF Ahead
<1>6. Ahead \in Slot
  BY <1>3, <1>5, StepDownInSlot
<1>7. CASE copy' = copy
  <2>1. InHand' = InHand /\ LastRead' = LastRead
    BY <1>2, <1>7 DEF InHand, LastRead
  <2> QED
    BY <1>1, <1>2, <1>4, <1>5, <1>7, <2>1 DEF IInv, ReadsForward
<1>8. CASE copy' = Torn
  <2>1. ~InHand' /\ LastRead' = newest
    BY <1>2, <1>8 DEF InHand, LastRead
  <2>2. Later(buffer.tail, completed, Ahead, newest)
    BY <1>1, <1>3, <1>6, OlderIsLater DEF ReadsForward
  <2>3. newest <= completed
    BY <1>3
  <2> QED
    BY <1>2, <1>4, <1>5, <2>1, <2>2, <2>3 DEF IInv, ReadsForward
<1> QED
  BY <1>2, <1>7, <1>8

\* pop goes on from the cursor it has just loaded.
LEMMA LoadInvariant == IInv /\ Load => IInv'
<1> SUFFICES ASSUME IInv, Load PROVE IInv'
  OBVIOUS
<1>1. /\ Types /\ TwoBelow /\ WrapDue /\ SlotsHoldTheirAge /\ FoundMessage
      /\ ReadsForward
  BY DEF IInv
<1>2. /\ buffer' = buffer /\ completed' = completed /\ newest' = newest
      /\ broken' = broken /\ restarts' = restarts /\ copy' = copy
      /\ pc = "load" /\ pc' = "store" /\ reg' = buffer.head
      /\ buffer.head \in -1 .. Size - 1
  BY Parts DEF Load
<1>3. Types' /\ TwoBelow' /\ WrapDue' /\ SlotsHoldTheirAge' /\ FoundMessage'
  BY <1>1, <1>2 DEF Types, TwoBelow, WrapDue, SlotsHoldTheirAge, FoundMessage
<1>4. InHand' = InHand /\ LastRead' = LastRead /\ Ahead' = Ahead
  BY <1>2 DEF InHand, LastRead, Ahead
<1> QED
  BY <1>1, <1>2, <1>3, <1>4 DEF IInv, ReadsForward

\* The message in hand is given, and the next pop reads where this one says,
\* whatever put has done to head in between.
LEMMA StoreInvariant == IInv /\ Store => IInv'
<1> SUFFICES ASSUME IInv, Store PROVE IInv'
  OBVIOUS
<1>1. /\ Types /\ TwoBelow /\ WrapDue /\ SlotsHoldTheirAge /\ FoundMessage
      /\ ReadsForward
  BY DEF IInv
<1>2. /\ completed' = completed /\ reg' = reg /\ copy' = copy
      /\ broken' = broken /\ restarts' = restarts
      /\ pc = "store" /\ newest' = LastRead
  BY DEF Store, local, LastRead, InHand
<1>3. /\ buffer.slots \in [Slot -> Message] /\ buffer.tail \in Slot
      /\ reg \in -1 .. Size - 1
      /\ LastRead \in Message /\ LastRead <= completed
  BY Parts DEF Message
<1>4. \/ pc' = "idle" /\ buffer' = [buffer EXCEPT !.head = StepDown(reg)]
      \/ pc' = "wrap" /\ buffer' = [buffer EXCEPT !.head = reg - 1]
  BY DEF Store
<1>5. PICK h \in {StepDown(reg), reg - 1} :
        /\ buffer' = [buffer EXCEPT !.head = h]
        /\ \/ pc' = "idle" /\ h = StepDown(reg)
           \/ pc' = "wrap" /\ h = reg - 1
  BY <1>4
<1>6. h \in -2 .. Size - 1 /\ (h = -2 => pc' = "wrap" /\ reg - 1 < 0)
  BY <1>3, <1>5, StepDownInSlot DEF Slot
<1>7. /\ buffer'.slots = buffer.slots /\ buffer'.tail = buffer.tail
      /\ buffer'.head = h
      /\ buffer' \in [slots : [Slot -> Message], head : -2 .. Size - 1, tail : Slot]
  BY <1>1, <1>5, <1>6 DEF Types
<1>8. pc' \in {"idle", "wrap"}
  BY <1>5
<1>9. Types'
  BY <1>1, <1>2, <1>3, <1>7, <1>8 DEF Types
<1>10. TwoBelow' /\ WrapDue' /\ SlotsHoldTheirAge' /\ FoundMessage'
  BY <1>1, <1>2, <1>5, <1>6, <1>7, <1>8
     DEF TwoBelow, WrapDue, SlotsHoldTheirAge, FoundMessage
<1>11. Ahead = StepDown(reg) /\ ~InHand' /\ LastRead' = LastRead
  BY <1>2, <1>8 DEF Ahead, InHand, LastRead
<1>12. Ahead' = StepDown(reg)
  <2>1. Ahead' = InArray(IF pc' = "wrap" /\ reg - 1 < 0 THEN Size - 1 ELSE h)
    BY <1>2, <1>7, <1>8 DEF Ahead, Reader
  <2> QED
    BY <1>3, <1>5, <2>1 DEF InArray, StepDown, Slot
<1>13. ReadsForward'
  BY <1>1, <1>2, <1>3, <1>7, <1>11, <1>12 DEF ReadsForward
<1> QED
  BY <1>9, <1>10, <1>13 DEF IInv

\* The wrap brings head back to where the next pop was going to read.
LEMMA WrapInvariant == IInv /\ Wrap => IInv'
<1> SUFFICES ASSUME IInv, Wrap PROVE IInv'
  OBVIOUS
<1>1. /\ Types /\ TwoBelow /\ WrapDue /\ SlotsHoldTheirAge /\ FoundMessage
      /\ ReadsForward
  BY DEF IInv
<1>2. /\ completed' = completed /\ reg' = reg /\ copy' = copy /\ newest' = newest
      /\ broken' = broken /\ restarts' = restarts
      /\ pc = "wrap" /\ pc' = "idle"
      /\ buffer' = IF reg - 1 < 0 THEN [buffer EXCEPT !.head = Size - 1] ELSE buffer
  BY DEF Wrap, local
<1>3. reg \in -1 .. Size - 1 /\ buffer.head \in -2 .. Size - 1
  BY Parts
<1>4. /\ buffer'.slots = buffer.slots /\ buffer'.tail = buffer.tail
      /\ buffer'.head = Reader
      /\ buffer' \in [slots : [Slot -> Message], head : -2 .. Size - 1, tail : Slot]
  BY <1>1, <1>2, <1>3 DEF Types, Reader
<1>5. Types'
  BY <1>1, <1>2, <1>4 DEF Types
<1>6. WrapDue' /\ SlotsHoldTheirAge' /\ FoundMessage'
  BY <1>1, <1>2, <1>4 DEF WrapDue, SlotsHoldTheirAge, FoundMessage
<1>7. TwoBelow'
  BY <1>1, <1>2, <1>3, <1>4 DEF TwoBelow, Reader
<1>8. Ahead' = Ahead /\ ~InHand' /\ LastRead' = LastRead
  BY <1>2, <1>4 DEF Ahead, Reader, InHand, LastRead
<1>9. ReadsForward'
  BY <1>1, <1>2, <1>4, <1>8 DEF ReadsForward
<1> QED
  BY <1>5, <1>6, <1>7, <1>9 DEF IInv

LEMMA NextInvariant == IInv /\ [Next]_vars => IInv'
<1> SUFFICES ASSUME IInv, [Next]_vars PROVE IInv'
  OBVIOUS
<1>1. CASE Complete
  BY <1>1, CompleteInvariant
<1>2. CASE LoadHead \/ CompareTail
  BY <1>2, IsEmptyInvariant
<1>3. CASE CopyBegin
  BY <1>3, CopyBeginInvariant
<1>4. CASE CopyEnd
  BY <1>4, CopyEndInvariant
<1>5. CASE Load
  BY <1>5, LoadInvariant
<1>6. CASE Store
  BY <1>6, StoreInvariant
<1>7. CASE Wrap
  BY <1>7, WrapInvariant
<1>8. CASE UNCHANGED vars
  <2>1. /\ buffer' = buffer /\ completed' = completed /\ pc' = pc /\ reg' = reg
        /\ copy' = copy /\ newest' = newest /\ broken' = broken
        /\ restarts' = restarts
    BY <1>8 DEF vars, local
  <2>2. Types' /\ TwoBelow' /\ WrapDue' /\ SlotsHoldTheirAge' /\ FoundMessage'
    BY <2>1 DEF IInv, Types, TwoBelow, WrapDue, SlotsHoldTheirAge, FoundMessage
  <2>3. InHand' = InHand /\ LastRead' = LastRead /\ Ahead' = Ahead
    BY <2>1 DEF InHand, LastRead, Ahead, Reader
  <2>4. ReadsForward'
    BY <2>1, <2>3 DEF IInv, ReadsForward
  <2> QED
    BY <2>2, <2>4 DEF IInv
<1> QED
  BY <1>1, <1>2, <1>3, <1>4, <1>5, <1>6, <1>7, <1>8 DEF Next, CallCallback

LEMMA Invariant == Spec => []IInv
BY InitInvariant, NextInvariant, PTL DEF Spec

\* However can_wait's puts fall between the statements of the application task's
\* pops, and whatever overruns do to the cursors, the callback gets messages in
\* the order they were completed and none twice.
THEOREM InOrder == Spec => []GivenInOrder
<1>1. IInv => GivenInOrder
  <2> SUFFICES ASSUME IInv, pc = "store", copy \in Message PROVE copy > newest
    BY DEF GivenInOrder
  <2>1. newest < copy /\ copy \in Int /\ newest \in Int
    BY DEF IInv, ReadsForward, InHand, Types, Message
  <2> QED
    BY <2>1
<1> QED
  BY <1>1, Invariant, PTL

----------------------------------------------------------------------------
(* The ring implements the bounded queue. *)

\* The initial pop has nothing in hand.
LEMMA InitHolds == Init => PopHolds
<1>1. Init => buffer.head = Size - 1 /\ pc = "idle"
  BY DEF Init, NewBuffer
<1> QED
  BY <1>1 DEF PopHolds, Reader, Slot

\* A put that breaks nothing leaves the pop what it has in hand.
LEMMA CompleteHolds ==
  ASSUME IInv, PopHolds, Complete, ~broken'
  PROVE  /\ PopHolds' /\ ~broken
         /\ Reader' = IF IsFull THEN Reader - 1 ELSE Reader
         /\ IsFull => ~InPop /\ Reader = buffer.head /\ Reader # 0
<1> DEFINE t == buffer.tail
           h == buffer.head
           u == StepDown(t)
<1>1. /\ buffer.slots \in [Slot -> Message] /\ t \in Slot
      /\ reg \in -1 .. Size - 1 /\ h \in -2 .. Size - 1
      /\ pc \in {"idle", "compare", "copy", "copying", "load", "store", "wrap"}
  BY Parts
<1>2. u \in Slot
  BY <1>1, StepDownInSlot DEF Slot
<1>3. /\ buffer'.slots = [buffer.slots EXCEPT ![t] = completed + 1]
      /\ buffer'.tail = u
      /\ buffer'.head = IF u = h THEN h - 1 ELSE h
      /\ pc' = pc /\ reg' = reg /\ copy' = copy
  BY DEF Complete, Put, local
<1>4. ~broken /\ (IsFull => ~InPop /\ h # 0)
  BY DEF Complete
<1>5. /\ Reader \in Slot
      /\ pc \in {"copying", "load", "store"} => copy = buffer.slots[h] /\ h # t
      /\ pc \in {"copying", "store"} => reg = h
  BY <1>4 DEF PopHolds
<1>6. pc # "wrap" => Reader = h
  BY DEF Reader
<1>7. Reader # h => h < 0
  BY <1>1 DEF IInv, WrapDue, Reader
<1>8. CASE IsFull
  <2>1. Reader = h /\ u = h /\ h # 0 /\ pc \in {"idle", "compare"}
    BY <1>1, <1>4, <1>6, <1>8 DEF InPop, IsFull
  <2>2. Reader' = h - 1 /\ h - 1 \in Slot
    BY <1>2, <1>3, <2>1 DEF Reader, Slot
  <2>3. PopHolds'
    BY <1>3, <2>1, <2>2 DEF PopHolds
  <2> QED
    BY <1>4, <1>8, <2>1, <2>2, <2>3
<1>9. CASE ~IsFull
  <2>1. u # h
    BY <1>2, <1>7, <1>9 DEF IsFull, Slot
  <2>2. buffer'.head = h /\ Reader' = Reader
    BY <1>3, <2>1 DEF Reader
  <2>3. pc \in {"copying", "load", "store"} =>
          copy' = buffer'.slots[h] /\ h # u
    BY <1>1, <1>3, <1>5, <1>6, <2>1
  <2>4. PopHolds'
    BY <1>3, <1>5, <2>2, <2>3 DEF PopHolds
  <2> QED
    BY <1>4, <1>9, <2>2, <2>4
<1> QED
  BY <1>8, <1>9

\* The statements of a pop hand the head of the ring on to one another.
LEMMA PopHoldsOn == IInv /\ PopHolds /\ [Next]_vars => PopHolds'
<1> SUFFICES ASSUME IInv, PopHolds, [Next]_vars, ~broken' PROVE PopHolds'
  BY DEF PopHolds
<1>1. /\ buffer.tail \in Slot /\ buffer.slots \in [Slot -> Message]
      /\ reg \in -1 .. Size - 1 /\ buffer.head \in -2 .. Size - 1
      /\ buffer \in [slots : [Slot -> Message], head : -2 .. Size - 1, tail : Slot]
  BY Parts DEF IInv, Types
<1>2. CASE Complete
  BY <1>2, CompleteHolds
<1>3. CASE LoadHead
  BY <1>3 DEF LoadHead, PopHolds, Reader
<1>4. CASE CompareTail
  <2>1. /\ pc = "compare" /\ pc' \in {"idle", "copy"} /\ buffer' = buffer
        /\ broken => buffer.head = buffer.tail
    BY <1>4 DEF CompareTail, IsEmpty
  <2>2. Reader' = buffer.head /\ Reader = buffer.head
    BY <2>1 DEF Reader
  <2>3. buffer.head \in Slot
    BY <1>1, <2>1, <2>2 DEF PopHolds
  <2> QED
    BY <2>1, <2>2, <2>3 DEF PopHolds
<1>5. CASE CopyBegin
  <2>1. /\ pc = "copy" /\ pc' = "copying" /\ buffer' = buffer /\ ~broken
        /\ reg' = buffer.head /\ copy' = ReadHead(buffer)
    BY <1>5 DEF CopyBegin
  <2>2. buffer.head \in Slot /\ Reader' = buffer.head
    BY <2>1 DEF PopHolds, Reader
  <2>3. buffer.head # buffer.tail
    BY <2>1 DEF IInv, FoundMessage
  <2> QED
    BY <2>1, <2>2, <2>3 DEF PopHolds, ReadHead
<1>6. CASE CopyEnd
  <2>1. /\ pc = "copying" /\ pc' = "load" /\ buffer' = buffer /\ ~broken
        /\ reg = buffer.head /\ copy = buffer.slots[buffer.head]
        /\ buffer.head # buffer.tail /\ Reader \in Slot
    BY <1>6 DEF CopyEnd, PopHolds
  <2>2. copy' = copy /\ Reader' = Reader
    BY <1>6, <2>1 DEF CopyEnd, Reader
  <2> QED
    BY <2>1, <2>2 DEF PopHolds
<1>7. CASE Load
  BY <1>7 DEF Load, PopHolds, Reader
<1>8. CASE Store
  <2>1. /\ pc = "store" /\ pc' \in {"idle", "wrap"} /\ reg' = reg
        /\ StepDown(reg) \in Slot
    BY <1>1, <1>8, StepDownInSlot DEF Store, local
  <2>2. Reader' = StepDown(reg)
    BY <1>1, <1>8 DEF Store, local, Reader, StepDown
  <2> QED
    BY <2>1, <2>2 DEF PopHolds
<1>9. CASE Wrap
  <2>1. pc' = "idle" /\ Reader' = Reader /\ ~broken
    BY <1>1, <1>9 DEF Wrap, Reader
  <2> QED
    BY <2>1 DEF PopHolds
<1>10. CASE UNCHANGED vars
  BY <1>10 DEF vars, local, PopHolds, Reader
<1> QED
  BY <1>2, <1>3, <1>4, <1>5, <1>6, <1>7, <1>8, <1>9, <1>10 DEF Next, CallCallback

\* The ring as a pop that starts now sees it.
Seen == [slots |-> buffer.slots, head |-> Reader, tail |-> buffer.tail]

LEMMA SeenIsRing ==
  ASSUME IInv, PopHolds, ~broken
  PROVE  /\ IsRing(Message, Seen)
         /\ Held(Seen) = Contents(buffer.slots, Reader, buffer.tail)
         /\ Fifo!Full <=> IsFull
<1>1. IsRing(Message, Seen)
  BY Parts DEF PopHolds, IsRing, Seen
<1>2. Held(Seen) = Contents(buffer.slots, Reader, buffer.tail)
  BY DEF Held, Seen
<1>3. Len(Held(Seen)) = Size - 1 <=> StepDown(Seen.tail) = Seen.head
  BY <1>1, RoomIsCapacity, PutReachesHead
<1>4. StepDown(Seen.tail) = Seen.head <=> IsFull
  BY DEF Seen, IsFull
<1> QED
  BY <1>1, <1>2, <1>3, <1>4 DEF Fifo!Full

\* The mapped initial ring is the empty queue.
LEMMA InitRefines == Init => Fifo!Init
<1> SUFFICES ASSUME Init PROVE Fifo!Init
  OBVIOUS
<1>1. /\ buffer.head = Size - 1 /\ buffer.tail = Size - 1 /\ pc = "idle"
      /\ broken = FALSE /\ restarts = 0
  BY DEF Init, NewBuffer
<1>2. Contents(buffer.slots, Reader, buffer.tail) = <<>>
  BY <1>1 DEF Reader, Contents, Between, Down
<1> QED
  BY <1>1, <1>2 DEF Fifo!Init

\* A completed message is put into the queue, unless it overwrites the oldest in
\* the middle of a pop, or moves head out of the array.
LEMMA CompleteRefines ==
  ASSUME IInv, PopHolds, Complete
  PROVE  Fifo!PutMessage \/ Fifo!Break
<1> DEFINE m == completed + 1
<1>1. /\ buffer' = Put(buffer, m) /\ given' = given /\ restarts' = restarts
      /\ (broken' <=> broken \/ (IsFull /\ (InPop \/ buffer.head = 0)))
      /\ broken \in BOOLEAN /\ broken' \in BOOLEAN
  BY Zenon DEF Complete, IInv, Types
<1>2. m \in 1 .. MaxMessages /\ m \in Message
  BY Parts DEF Complete, Message
<1>3. CASE broken'
  <2>1. broken \/ Fifo!Full
    BY <1>1, <1>3, SeenIsRing
  <2> QED
    BY <1>1, <1>3, <2>1 DEF Fifo!Break
<1>4. CASE ~broken'
  <2>1. /\ PopHolds' /\ ~broken
        /\ Reader' = IF IsFull THEN Reader - 1 ELSE Reader
        /\ IsFull => ~InPop /\ Reader = buffer.head /\ Reader # 0
    BY <1>4, CompleteHolds
  <2>2. /\ IsRing(Message, Seen)
        /\ Held(Seen) = Contents(buffer.slots, Reader, buffer.tail)
        /\ Fifo!Full <=> IsFull
    BY <2>1, SeenIsRing
  <2>3. Put(Seen, m) = [slots |-> buffer'.slots, head |-> Reader', tail |-> buffer'.tail]
    BY <1>1, <2>1 DEF Put, Seen, IsFull
  <2>4. Held(Put(Seen, m)) = Contents(buffer'.slots, Reader', buffer'.tail)
    BY <2>3 DEF Held
  <2>5. Held(Put(Seen, m)) =
          Append(IF Fifo!Full THEN Tail(Held(Seen)) ELSE Held(Seen), m)
    <3>1. HasRoom(Seen) <=> ~IsFull
      <4>1. StepDown(Seen.tail) = Seen.head <=> IsFull
        BY DEF Seen, IsFull
      <4> QED
        BY <2>2, <4>1, PutReachesHead
    <3>2. CASE IsFull
      <4>1. Seen.head # 0
        BY <2>1, <3>2 DEF Seen
      <4>2. Drops(Held(Seen), m, Held(Put(Seen, m)))
        BY <1>2, <2>2, <3>1, <3>2, <4>1, PutDrops
      <4> QED
        BY <2>2, <3>2, <4>2 DEF Drops
    <3>3. CASE ~IsFull
      <4>1. Puts(Held(Seen), m, Held(Put(Seen, m)))
        BY <1>2, <2>2, <3>1, <3>3, PutAppends
      <4> QED
        BY <2>2, <3>3, <4>1 DEF Puts
    <3> QED
      BY <3>2, <3>3
  <2>6. \E x \in 1 .. MaxMessages :
          Contents(buffer.slots, Reader, buffer.tail)' =
            Append(IF Fifo!Full THEN Tail(Contents(buffer.slots, Reader, buffer.tail))
                   ELSE Contents(buffer.slots, Reader, buffer.tail), x)
    BY <1>2, <2>2, <2>4, <2>5, Zenon
  <2>7. UNCHANGED <<given, broken, restarts>>
    BY <1>1, <1>4, <2>1
  <2> QED
    BY <2>1, <2>6, <2>7, Zenon DEF Fifo!PutMessage
<1> QED
  BY <1>3, <1>4

\* The store of head is the moment the oldest message leaves the queue.
LEMMA StoreRefines ==
  ASSUME IInv, PopHolds, Store
  PROVE  Fifo!TakeMessage \/ Fifo!Break
<1>1. /\ buffer'.slots = buffer.slots /\ buffer'.tail = buffer.tail
      /\ given' = copy /\ pc = "store" /\ pc' \in {"idle", "wrap"} /\ reg' = reg
      /\ broken' = broken /\ restarts' = restarts
  BY DEF Store, IInv, Types, local
<1>2. CASE broken
  BY <1>1, <1>2 DEF Fifo!Break
<1>3. CASE ~broken
  <2>1. /\ copy = buffer.slots[buffer.head] /\ buffer.head # buffer.tail
        /\ reg = buffer.head /\ Reader = buffer.head /\ buffer.head \in Slot
    BY <1>1, <1>3 DEF PopHolds, Reader
  <2>2. Reader' = StepDown(reg)
    BY Parts DEF Store, local, Reader, StepDown, IInv, Types
  <2>3. /\ IsRing(Message, Seen)
        /\ Held(Seen) = Contents(buffer.slots, Reader, buffer.tail)
    BY <1>3, SeenIsRing
  <2>4. ~IsEmpty(Seen) /\ ReadHead(Seen) = copy
    BY <2>1 DEF IsEmpty, ReadHead, Seen
  <2>5. Held(Pop(Seen)) = Contents(buffer'.slots, Reader', buffer'.tail)
    BY <1>1, <2>1, <2>2 DEF Pop, Seen, Held
  <2>6. Takes(Held(Seen), copy, Held(Pop(Seen)))
    BY <2>3, <2>4, PopTakes
  <2> QED
    BY <1>1, <1>3, <2>3, <2>5, <2>6 DEF Takes, Fifo!TakeMessage
<1> QED
  BY <1>2, <1>3

\* is_empty's answer that the ring is empty is the restart of a broken queue.
LEMMA CompareTailRefines ==
  ASSUME IInv, PopHolds, CompareTail
  PROVE  Fifo!Restart \/ UNCHANGED Fifo!vars
<1>1. /\ buffer' = buffer /\ given' = given /\ pc = "compare"
      /\ pc' \in {"idle", "copy"}
  BY DEF CompareTail
<1>2. Reader = buffer.head /\ Reader' = buffer.head
  BY <1>1 DEF Reader
<1>3. \/ /\ buffer.head = buffer.tail
         /\ broken' = FALSE /\ restarts' = restarts + 1
      \/ broken' = broken /\ restarts' = restarts
  BY DEF CompareTail, IsEmpty
<1>4. CASE /\ buffer.head = buffer.tail
           /\ broken' = FALSE /\ restarts' = restarts + 1
  <2>1. buffer.tail \in Slot
    BY Parts
  <2>2. Contents(buffer'.slots, Reader', buffer'.tail) = <<>>
    BY <1>1, <1>2, <1>4, <2>1 DEF Contents, Between, Down, Slot
  <2> QED
    BY <1>4, <2>2 DEF Fifo!Restart
<1>5. CASE broken' = broken /\ restarts' = restarts
  BY <1>1, <1>2, <1>5 DEF Fifo!vars
<1> QED
  BY <1>3, <1>4, <1>5

\* For every ring size and every number of messages ready_msgs is a bounded queue
\* although nothing keeps the two tasks apart, until put overwrites a message in
\* the middle of a pop or moves head out of the array, and again from the moment
\* it is found empty.
THEOREM RingImplementsFifo == Spec => FifoSpec
<1>1. ASSUME IInv, PopHolds, [Next]_vars PROVE [Fifo!Next]_(Fifo!vars)
  <2>1. CASE Complete
    <3>1. Fifo!PutMessage \/ Fifo!Break
      BY <1>1, <2>1, CompleteRefines
    <3> QED
      BY <3>1 DEF Fifo!Next
  <2>2. CASE LoadHead
    BY <2>2 DEF LoadHead, Reader, Fifo!vars
  <2>3. CASE CompareTail
    <3>1. Fifo!Restart \/ UNCHANGED Fifo!vars
      BY <1>1, <2>3, CompareTailRefines
    <3> QED
      BY <3>1 DEF Fifo!Next
  <2>4. CASE CopyBegin
    BY <2>4 DEF CopyBegin, Reader, Fifo!vars
  <2>5. CASE CopyEnd
    BY <2>5 DEF CopyEnd, Reader, Fifo!vars
  <2>6. CASE Load
    BY <2>6 DEF Load, Reader, Fifo!vars
  <2>7. CASE Store
    <3>1. Fifo!TakeMessage \/ Fifo!Break
      BY <1>1, <2>7, StoreRefines
    <3> QED
      BY <3>1 DEF Fifo!Next
  <2>8. CASE Wrap
    <3>1. /\ buffer'.slots = buffer.slots /\ buffer'.tail = buffer.tail
          /\ Reader' = Reader
      BY <1>1, <2>8 DEF Wrap, Reader, IInv, Types
    <3> QED
      BY <2>8, <3>1 DEF Wrap, Fifo!vars
  <2>9. CASE UNCHANGED vars
    BY <2>9 DEF vars, local, Reader, Fifo!vars
  <2> QED
    BY <1>1, <2>1, <2>2, <2>3, <2>4, <2>5, <2>6, <2>7, <2>8, <2>9
       DEF Next, CallCallback
<1> QED
  BY <1>1, InitHolds, PopHoldsOn, InitRefines, Invariant, PTL
     DEF Spec, FifoSpec, Fifo!Spec
=============================================================================
