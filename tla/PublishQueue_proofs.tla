------------------------ MODULE PublishQueue_proofs ------------------------
(***************************************************************************)
(* What holds of a publisher's queue for every size of its ring, every     *)
(* number of messages between two spins and every number of messages.      *)
(*                                                                         *)
(* The argument is about ages.  The slot Age(t, i) steps behind the tail t *)
(* was written Age(t, i) puts ago, so its message's number is known from   *)
(* the number of messages published; a reader walks towards younger slots, *)
(* and an overrun, which moves head at most one slot, or out of the array  *)
(* and from there to its upper end, moves it towards younger slots too.    *)
(***************************************************************************)
EXTENDS PublishQueue, MessageBuffer_proofs

\* Every slot written so far holds the message put into it last.
SlotsHoldTheirAge ==
  \A i \in Slot :
    Age(buffer.tail, i) <= published =>
      buffer.slots[i] = published + 1 - Age(buffer.tail, i)

\* A reader that continues at slot i, and is not at the tail, finds a message
\* that is newer than all it has popped.
ReaderAt(i) ==
  i # buffer.tail =>
    /\ Age(buffer.tail, i) <= published
    /\ newest < published + 1 - Age(buffer.tail, i)

\* With head outside the array the reader continues at the upper end.
ReaderIsBehind ==
  ReaderAt(IF buffer.head \in Slot THEN buffer.head ELSE Size - 1)

\* Within a spin head leaves the place outside the array for good.
StrayLeavesArrayOnce ==
  /\ strays \in {0, 1}
  /\ spinning /\ strays = 1 => buffer.head \in Slot

\* Without an overrun the ring holds no more than was published since the spin.
CountsAgree ==
  /\ broken => unspun >= Size
  /\ buffer.head \notin Slot => broken
  /\ unspun < Size => Between(buffer.head, buffer.tail) <= unspun

IInv ==
  /\ TypeOK
  /\ newest <= published
  /\ SlotsHoldTheirAge
  /\ ReaderIsBehind
  /\ StrayLeavesArrayOnce
  /\ CountsAgree

USE SizeAssumption, BurstAssumption DEF SizeAssumption, BurstAssumption

\* The cursors of a well-typed ring, part by part.
LEMMA RingParts ==
  ASSUME TypeOK
  PROVE  /\ buffer.slots \in [Slot -> 0 .. MaxPublished]
         /\ buffer.head \in -1 .. Size - 1
         /\ buffer.tail \in Slot
         /\ published \in 0 .. MaxPublished /\ newest \in 0 .. MaxPublished
         /\ unspun \in 0 .. Burst /\ spinning \in BOOLEAN /\ strays \in Nat
         /\ broken \in BOOLEAN /\ recovered \in Nat
         /\ current \in (0 .. MaxPublished) \cup {Outside}
BY DEF TypeOK

\* The initial ring is empty and its slots hold nothing that was published.
LEMMA InitInvariant == Init => IInv
<1> SUFFICES ASSUME Init PROVE IInv
  OBVIOUS
<1>1. /\ buffer = [slots |-> [i \in Slot |-> 0], head |-> Size - 1, tail |-> Size - 1]
      /\ current = 0 /\ published = 0 /\ unspun = 0 /\ spinning = FALSE
      /\ newest = 0 /\ strays = 0 /\ broken = FALSE /\ recovered = 0
  BY DEF Init, NewBuffer
<1>2. Size - 1 \in Slot /\ Size - 1 \in -1 .. Size - 1
  BY DEF Slot
<1>3. TypeOK
  <2>1. [i \in Slot |-> 0] \in [Slot -> 0 .. MaxPublished]
    OBVIOUS
  <2>2. buffer \in [slots : [Slot -> 0 .. MaxPublished], head : -1 .. Size - 1,
                    tail : Slot]
    BY <1>1, <1>2, <2>1
  <2>3. 0 \in 0 .. MaxPublished /\ 0 \in 0 .. Burst
    OBVIOUS
  <2> QED
    BY <1>1, <2>2, <2>3 DEF TypeOK
<1>4. SlotsHoldTheirAge
  BY <1>1, <1>2, AgeInRange DEF SlotsHoldTheirAge
<1>5. ReaderIsBehind
  BY <1>1, <1>2 DEF ReaderIsBehind, ReaderAt
<1>6. StrayLeavesArrayOnce
  BY <1>1 DEF StrayLeavesArrayOnce
<1>7. CountsAgree
  BY <1>1, <1>2 DEF CountsAgree, Between, Down
<1> QED
  BY <1>1, <1>3, <1>4, <1>5, <1>6, <1>7 DEF IInv

\* Publishing ages every slot by one and moves head only towards younger ones.
LEMMA PublishInvariant == IInv /\ Publish => IInv'
<1> SUFFICES ASSUME IInv, Publish PROVE IInv'
  OBVIOUS
<1> DEFINE t == buffer.tail
           h == buffer.head
           u == StepDown(t)
<1>1. /\ TypeOK /\ newest <= published
      /\ SlotsHoldTheirAge /\ ReaderIsBehind /\ StrayLeavesArrayOnce
      /\ CountsAgree
  BY DEF IInv
<1>2. /\ buffer.slots \in [Slot -> 0 .. MaxPublished]
      /\ h \in -1 .. Size - 1 /\ t \in Slot
      /\ published \in 0 .. MaxPublished /\ newest \in 0 .. MaxPublished
      /\ unspun \in 0 .. Burst /\ strays \in Nat
      /\ broken \in BOOLEAN /\ recovered \in Nat
      /\ current \in (0 .. MaxPublished) \cup {Outside}
  BY <1>1, RingParts
<1>3. u \in Slot
  BY <1>2, StepDownInSlot DEF Slot
<1>4. /\ buffer' = [slots |-> [buffer.slots EXCEPT ![t] = published + 1],
                    tail |-> u,
                    head |-> IF u = h THEN h - 1 ELSE h]
      /\ published' = published + 1 /\ published < MaxPublished
      /\ unspun' = unspun + 1 /\ unspun < Burst
      /\ spinning = FALSE /\ spinning' = FALSE
      /\ newest' = newest /\ strays' = strays /\ current' = current
      /\ recovered' = recovered /\ (broken' <=> broken \/ buffer'.head < 0)
      /\ broken' \in BOOLEAN
  BY RingParts, <1>1 DEF Publish, Put, ghosts
<1>5. /\ buffer'.slots = [buffer.slots EXCEPT ![t] = published + 1]
      /\ buffer'.tail = u
      /\ buffer'.head = IF u = h THEN h - 1 ELSE h
  BY <1>4
<1>6. TypeOK'
  <2>1. [buffer.slots EXCEPT ![t] = published + 1] \in [Slot -> 0 .. MaxPublished]
    BY <1>2, <1>4
  <2>2. (IF u = h THEN h - 1 ELSE h) \in -1 .. Size - 1
    BY <1>2, <1>3 DEF Slot
  <2>3. buffer' \in [slots : [Slot -> 0 .. MaxPublished], head : -1 .. Size - 1,
                     tail : Slot]
    BY <1>3, <1>4, <2>1, <2>2
  <2>4. /\ published' \in 0 .. MaxPublished /\ unspun' \in 0 .. Burst
        /\ newest' \in 0 .. MaxPublished
    BY <1>2, <1>4
  <2> QED
    BY <1>2, <1>4, <2>3, <2>4 DEF TypeOK
<1>7. SlotsHoldTheirAge'
  <2> SUFFICES ASSUME NEW i \in Slot, Age(u, i) <= published + 1
               PROVE  buffer'.slots[i] = (published + 1) + 1 - Age(u, i)
    BY <1>4, <1>5 DEF SlotsHoldTheirAge
  <2>1. CASE i = t
    BY <2>1, <1>2, <1>5, PutAges
  <2>2. CASE i # t
    <3>1. buffer'.slots[i] = buffer.slots[i]
      BY <2>2, <1>2, <1>5
    <3>2. Age(t, i) \in 1 .. Size /\ Age(u, i) = Age(t, i) + 1
      BY <2>2, <1>2, PutAges, AgeInRange
    <3>3. buffer.slots[i] = published + 1 - Age(t, i)
      BY <1>1, <1>2, <3>2 DEF SlotsHoldTheirAge
    <3> QED
      BY <1>2, <3>1, <3>2, <3>3
  <2> QED
    BY <2>1, <2>2
<1>8. ReaderIsBehind'
  <2> DEFINE r == IF h \in Slot THEN h ELSE Size - 1
             s == IF buffer'.head \in Slot THEN buffer'.head ELSE Size - 1
  <2>1. r \in Slot /\ s \in Slot
    BY <1>2 DEF Slot
  <2>2. r # t => Age(t, r) <= published /\ newest < published + 1 - Age(t, r)
    BY <1>1 DEF ReaderIsBehind, ReaderAt
  <2>3. s # u => /\ Age(u, s) <= published + 1
                 /\ newest < (published + 1) + 1 - Age(u, s)
    <3>1. CASE s = r
      <4>1. Age(u, r) = IF r = t THEN 1 ELSE Age(t, r) + 1
        BY <1>2, <2>1, PutAges
      <4>2. Age(t, r) \in 1 .. Size
        BY <1>2, <2>1, AgeInRange
      <4> QED
        BY <1>1, <1>2, <2>2, <3>1, <4>1, <4>2
    <3>2. CASE s # r
      <4>1. h = u /\ r = u /\ s = StepDown(u)
        BY <1>2, <1>3, <1>5, <3>2 DEF StepDown, Slot
      <4>2. Age(u, r) = Size /\ Age(u, s) = Size - 1
        BY <1>3, <4>1 DEF Age, StepDown, Slot
      <4>3. CASE r = t
        BY <1>2, <4>1, <4>3 DEF StepDown, Slot
      <4>4. CASE r # t
        <5>1. Age(u, r) = Age(t, r) + 1
          BY <1>2, <2>1, <4>4, PutAges
        <5> QED
          BY <1>2, <2>2, <4>2, <4>4, <5>1, AgeInRange, <2>1
      <4> QED
        BY <4>3, <4>4
    <3> QED
      BY <3>1, <3>2
  <2> QED
    BY <1>4, <1>5, <2>3 DEF ReaderIsBehind, ReaderAt
<1>9. StrayLeavesArrayOnce'
  BY <1>1, <1>4 DEF StrayLeavesArrayOnce
<1>10. newest' <= published'
  BY <1>1, <1>2, <1>4
<1>11. CountsAgree'
  <2>1. CASE unspun + 1 < Size
    <3>1. h \in Slot /\ ~broken /\ Between(h, t) <= unspun
      BY <1>1, <1>2, <2>1 DEF CountsAgree
    <3>2. Between(h, t) \in Int
      BY <1>2 DEF Between, Down, Slot
    <3>3. u # h /\ Between(h, u) = Between(h, t) + 1
      BY <1>2, <2>1, <3>1, <3>2, PutLengthens
    <3>4. buffer'.head = h /\ buffer'.tail = u /\ ~(h < 0)
      BY <1>5, <3>1, <3>3 DEF Slot
    <3> QED
      BY <1>2, <1>4, <3>1, <3>2, <3>3, <3>4 DEF CountsAgree
  <2>2. CASE unspun + 1 >= Size
    <3>1. buffer'.head \notin Slot => buffer'.head < 0
      BY <1>2, <1>3, <1>5 DEF Slot
    <3> QED
      BY <1>2, <1>4, <2>2, <3>1 DEF CountsAgree
  <2> QED
    BY <1>2, <2>1, <2>2
<1> QED
  BY <1>6, <1>7, <1>8, <1>9, <1>10, <1>11 DEF IInv

\* A pop moves the reader one slot towards the tail, or back into the array.
LEMMA TakeNextInvariant == IInv /\ TakeNext => IInv'
<1> SUFFICES ASSUME IInv, TakeNext PROVE IInv'
  OBVIOUS
<1> DEFINE t == buffer.tail
           h == buffer.head
<1>1. /\ TypeOK /\ newest <= published
      /\ SlotsHoldTheirAge /\ ReaderIsBehind /\ StrayLeavesArrayOnce
      /\ CountsAgree
  BY DEF IInv
<1>2. /\ buffer.slots \in [Slot -> 0 .. MaxPublished]
      /\ h \in -1 .. Size - 1 /\ t \in Slot
      /\ published \in 0 .. MaxPublished /\ newest \in 0 .. MaxPublished
      /\ unspun \in 0 .. Burst /\ strays \in Nat
      /\ broken \in BOOLEAN /\ recovered \in Nat
      /\ current \in (0 .. MaxPublished) \cup {Outside}
  BY <1>1, RingParts
<1>3. StepDown(h) \in Slot
  BY <1>2, StepDownInSlot
<1>4. buffer' = [slots |-> buffer.slots, head |-> StepDown(h), tail |-> t]
  BY <1>1 DEF TakeNext, Pop, TypeOK
<1>5. /\ buffer'.slots = buffer.slots /\ buffer'.tail = t
      /\ buffer'.head = StepDown(h)
      /\ published' = published /\ unspun' = unspun /\ spinning' = spinning
      /\ broken' = broken /\ recovered' = recovered
      /\ spinning = TRUE /\ h # t
  BY <1>1, <1>4, RingParts DEF TakeNext, IsEmpty
<1>6. buffer' \in [slots : [Slot -> 0 .. MaxPublished], head : -1 .. Size - 1,
                   tail : Slot]
  <2>1. StepDown(h) \in -1 .. Size - 1
    BY <1>3 DEF Slot
  <2> QED
    BY <1>2, <1>4, <2>1
<1>7. SlotsHoldTheirAge'
  BY <1>1, <1>5 DEF SlotsHoldTheirAge
<1>8. CountsAgree'
  <2>1. CASE unspun < Size
    <3>1. h \in Slot /\ ~broken /\ Between(h, t) <= unspun
      BY <1>1, <1>2, <2>1 DEF CountsAgree
    <3>2. Between(StepDown(h), t) = Between(h, t) - 1
      BY <1>2, <1>5, <3>1, PopShortens
    <3>3. Between(h, t) \in Int
      BY <1>2 DEF Between, Down, Slot
    <3> QED
      BY <1>2, <1>3, <1>5, <3>1, <3>2, <3>3 DEF CountsAgree
  <2>2. CASE unspun >= Size
    BY <1>1, <1>2, <1>3, <1>5, <2>2 DEF CountsAgree
  <2> QED
    BY <1>2, <2>1, <2>2
<1>9. CASE h \in Slot
  <2>1. newest' = buffer.slots[h] /\ current' = buffer.slots[h] /\ strays' = strays
    BY <1>9 DEF TakeNext, ReadHead
  <2>2. Age(t, h) <= published /\ newest < published + 1 - Age(t, h)
    BY <1>1, <1>5, <1>9 DEF ReaderIsBehind, ReaderAt
  <2>3. buffer.slots[h] = published + 1 - Age(t, h)
    BY <1>1, <1>9, <2>2 DEF SlotsHoldTheirAge
  <2>4. buffer.slots[h] \in 0 .. MaxPublished
    BY <1>2, <1>9
  <2>5. Age(t, h) \in 1 .. Size
    BY <1>2, <1>9, AgeInRange
  <2>6. TypeOK'
    BY <1>2, <1>5, <1>6, <2>1, <2>4 DEF TypeOK
  <2>7. newest' <= published'
    BY <1>2, <1>5, <2>1, <2>3, <2>5
  <2>8. ReaderIsBehind'
    <3>1. StepDown(h) # t => Age(t, StepDown(h)) = Age(t, h) - 1
      BY <1>2, <1>5, <1>9, PopIsYounger
    <3>2. StepDown(h) # t =>
            /\ Age(t, StepDown(h)) <= published
            /\ buffer.slots[h] < published + 1 - Age(t, StepDown(h))
      BY <1>2, <2>2, <2>3, <2>5, <3>1
    <3> QED
      BY <1>3, <1>5, <2>1, <3>2 DEF ReaderIsBehind, ReaderAt
  <2>9. StrayLeavesArrayOnce'
    BY <1>1, <1>3, <1>5, <2>1 DEF StrayLeavesArrayOnce
  <2> QED
    BY <1>7, <1>8, <2>6, <2>7, <2>8, <2>9 DEF IInv
<1>10. CASE h \notin Slot
  <2>1. newest' = newest /\ current' = Outside /\ strays' = strays + 1
    BY <1>10 DEF TakeNext, ReadHead
  <2>2. h = -1 /\ StepDown(h) = Size - 1
    BY <1>2, <1>10 DEF StepDown, Slot
  <2>3. strays = 0
    BY <1>1, <1>5, <1>10 DEF StrayLeavesArrayOnce
  <2>4. TypeOK'
    BY <1>2, <1>5, <1>6, <2>1 DEF TypeOK
  <2>5. ReaderIsBehind'
    BY <1>1, <1>3, <1>5, <1>10, <2>1, <2>2 DEF ReaderIsBehind, ReaderAt
  <2>6. StrayLeavesArrayOnce'
    BY <1>3, <1>5, <2>1, <2>3 DEF StrayLeavesArrayOnce
  <2>7. newest' <= published'
    BY <1>1, <1>5, <2>1
  <2> QED
    BY <1>7, <1>8, <2>4, <2>5, <2>6, <2>7 DEF IInv
<1> QED
  BY <1>9, <1>10

\* The invariant is inductive.
LEMMA NextInvariant == IInv /\ [Next]_vars => IInv'
<1> SUFFICES ASSUME IInv, [Next]_vars PROVE IInv'
  OBVIOUS
<1>1. CASE Publish
  BY <1>1, PublishInvariant
<1>2. CASE BeginSpin
  <2>1. TypeOK'
    BY <1>2 DEF BeginSpin, IInv, TypeOK
  <2>2. SlotsHoldTheirAge' /\ ReaderIsBehind' /\ StrayLeavesArrayOnce'
    BY <1>2 DEF BeginSpin, IInv, SlotsHoldTheirAge, ReaderIsBehind, ReaderAt,
                StrayLeavesArrayOnce
  <2>3. CountsAgree' /\ newest' <= published'
    BY <1>2 DEF BeginSpin, IInv, CountsAgree
  <2> QED
    BY <2>1, <2>2, <2>3 DEF IInv
<1>3. CASE TakeNext
  BY <1>3, TakeNextInvariant
<1>4. CASE EndSpin
  <2>1. 0 \in 0 .. Burst /\ recovered' \in Nat
    BY <1>4 DEF EndSpin, IInv, TypeOK
  <2>2. TypeOK'
    BY <1>4, <2>1 DEF EndSpin, IInv, TypeOK
  <2>3. SlotsHoldTheirAge' /\ ReaderIsBehind' /\ StrayLeavesArrayOnce'
    BY <1>4 DEF EndSpin, IInv, SlotsHoldTheirAge, ReaderIsBehind, ReaderAt,
                StrayLeavesArrayOnce
  <2>4. CountsAgree'
    <3>1. buffer.head = buffer.tail /\ buffer.tail \in Slot
      BY <1>4 DEF EndSpin, IsEmpty, IInv, TypeOK
    <3> QED
      BY <1>4, <3>1 DEF EndSpin, CountsAgree, Between, Down, Slot
  <2>5. newest' <= published'
    BY <1>4 DEF EndSpin, IInv
  <2> QED
    BY <2>2, <2>3, <2>4, <2>5 DEF IInv
<1>5. CASE UNCHANGED vars
  <2>1. TypeOK'
    BY <1>5 DEF vars, ghosts, IInv, TypeOK
  <2>2. SlotsHoldTheirAge' /\ ReaderIsBehind' /\ StrayLeavesArrayOnce'
    BY <1>5 DEF vars, ghosts, IInv, SlotsHoldTheirAge, ReaderIsBehind, ReaderAt,
                StrayLeavesArrayOnce
  <2>3. CountsAgree' /\ newest' <= published'
    BY <1>5 DEF vars, ghosts, IInv, CountsAgree
  <2> QED
    BY <2>1, <2>2, <2>3 DEF IInv
<1> QED
  BY <1>1, <1>2, <1>3, <1>4, <1>5 DEF Next

LEMMA Invariant == Spec => []IInv
BY InitInvariant, NextInvariant, PTL DEF Spec

\* The cursors keep their ranges: tail never leaves the array, so put never
\* writes outside it, and head is below it by at most one element.
THEOREM Typing == Spec => []TypeOK
<1>1. IInv => TypeOK
  BY DEF IInv
<1> QED
  BY <1>1, Invariant, PTL

\* Message_Buffer never hands out a message twice or out of order to a caller
\* that asks is_empty first, however often it is overrun.
THEOREM OrderKept == Spec => []NextIsNewer
<1>1. IInv => NextIsNewer
  <2> SUFFICES ASSUME IInv, ~IsEmpty(buffer), buffer.head \in Slot
               PROVE  ReadHead(buffer) > newest
    BY DEF NextIsNewer
  <2>1. /\ Age(buffer.tail, buffer.head) <= published
        /\ newest < published + 1 - Age(buffer.tail, buffer.head)
    BY DEF IInv, ReaderIsBehind, ReaderAt, IsEmpty
  <2>2. ReadHead(buffer) = published + 1 - Age(buffer.tail, buffer.head)
    BY <2>1 DEF IInv, SlotsHoldTheirAge, ReadHead
  <2>3. newest \in Int /\ published \in Int /\ Age(buffer.tail, buffer.head) \in Int
    BY DEF IInv, TypeOK, Age, Slot
  <2> QED
    BY <2>1, <2>2, <2>3
<1> QED
  BY <1>1, Invariant, PTL

\* An overrun costs a spin at most one read outside the array.
THEOREM StrayOnce == Spec => []OneStrayPerSpin
<1>1. IInv => OneStrayPerSpin
  BY DEF IInv, StrayLeavesArrayOnce, OneStrayPerSpin
<1> QED
  BY <1>1, Invariant, PTL

\* A ring of Size elements is safe for an application that publishes fewer than
\* Size messages between two spins.
THEOREM CapacityIsSafe == Spec => []SafeWithinCapacity
<1>1. IInv => SafeWithinCapacity
  BY DEF IInv, CountsAgree, SafeWithinCapacity
<1> QED
  BY <1>1, Invariant, PTL

----------------------------------------------------------------------------
(* The publisher's queue implements the bounded queue. *)

\* Until head has left the array the buffer is a ring of messages, numbered by
\* any numbers up to MaxPublished.
LEMMA RingUnlessBroken ==
  ASSUME IInv, ~broken
  PROVE  IsRing(0 .. MaxPublished, buffer)
<1>1. buffer.head \in Slot
  BY DEF IInv, CountsAgree
<1> QED
  BY <1>1 DEF IInv, TypeOK, IsRing

\* The mapped initial ring is the empty queue.
LEMMA InitRefines == Init => Fifo!Init
<1> SUFFICES ASSUME Init PROVE Fifo!Init
  OBVIOUS
<1>1. Contents(buffer.slots, buffer.head, buffer.tail) = <<>>
  BY DEF Init, NewBuffer, Contents, Between, Down
<1> QED
  BY <1>1 DEF Init, Fifo!Init

\* A publish is a put, unless it moves head out of the array of a full ring.
LEMMA PublishRefines ==
  ASSUME IInv, Publish
  PROVE  Fifo!PutMessage \/ Fifo!Break
<1> DEFINE m == published + 1
<1>0. broken \in BOOLEAN /\ broken' \in BOOLEAN
  BY Zenon DEF Publish, IInv, TypeOK
<1>1. /\ buffer' = Put(buffer, m) /\ current' = current /\ recovered' = recovered
      /\ (broken' <=> broken \/ buffer'.head < 0)
  BY DEF Publish
<1>2. m \in 1 .. MaxPublished /\ m \in 0 .. MaxPublished
  BY DEF Publish, IInv, TypeOK
<1>3. CASE broken
  BY <1>1, <1>3 DEF Fifo!Break
<1>4. CASE ~broken
  <2>1. IsRing(0 .. MaxPublished, buffer)
    BY <1>4, RingUnlessBroken
  <2>2. Len(Held(buffer)) = Size - 1 <=> ~HasRoom(buffer)
    BY <2>1, RoomIsCapacity
  <2>3. buffer'.head = IF HasRoom(buffer) THEN buffer.head ELSE buffer.head - 1
    BY <1>1, <2>1, PutReachesHead DEF Put
  <2>4. CASE HasRoom(buffer)
    <3>1. Puts(Held(buffer), m, Held(buffer'))
      BY <1>1, <1>2, <2>1, <2>4, PutAppends
    <3>2. ~broken'
      BY <1>1, <1>4, <2>1, <2>3, <2>4 DEF IsRing, Slot
    <3>3. Held(buffer)' = Append(IF Fifo!Full THEN Tail(Held(buffer))
                                 ELSE Held(buffer), m)
      BY <2>2, <2>4, <3>1 DEF Puts, Held, Fifo!Full
    <3>4. \E x \in 1 .. MaxPublished :
             Held(buffer)' = Append(IF Fifo!Full THEN Tail(Held(buffer))
                                    ELSE Held(buffer), x)
      BY <1>2, <3>3, Zenon
    <3>5. UNCHANGED <<current, broken, recovered>>
      BY <1>0, <1>1, <1>4, <3>2
    <3> QED
      BY <1>4, <3>4, <3>5, Zenon DEF Held, Fifo!PutMessage
  <2>5. CASE ~HasRoom(buffer) /\ buffer.head # 0
    <3>1. Drops(Held(buffer), m, Held(buffer'))
      BY <1>1, <1>2, <2>1, <2>5, PutDrops
    <3>2. ~broken'
      BY <1>1, <1>4, <2>1, <2>3, <2>5 DEF IsRing, Slot
    <3>3. Held(buffer)' = Append(IF Fifo!Full THEN Tail(Held(buffer))
                                 ELSE Held(buffer), m)
      BY <2>2, <2>5, <3>1 DEF Drops, Held, Fifo!Full
    <3>4. \E x \in 1 .. MaxPublished :
             Held(buffer)' = Append(IF Fifo!Full THEN Tail(Held(buffer))
                                    ELSE Held(buffer), x)
      BY <1>2, <3>3, Zenon
    <3>5. UNCHANGED <<current, broken, recovered>>
      BY <1>0, <1>1, <1>4, <3>2
    <3> QED
      BY <1>4, <3>4, <3>5, Zenon DEF Held, Fifo!PutMessage
  <2>6. CASE ~HasRoom(buffer) /\ buffer.head = 0
    <3>1. broken'
      BY <1>1, <2>3, <2>6
    <3> QED
      BY <1>1, <2>2, <2>6, <3>1 DEF Held, Fifo!Break, Fifo!Full
  <2> QED
    BY <2>4, <2>5, <2>6
<1> QED
  BY <1>3, <1>4

\* A pop takes the oldest message, unless head has been outside the array.
LEMMA TakeNextRefines ==
  ASSUME IInv, TakeNext
  PROVE  Fifo!TakeMessage \/ Fifo!Break
<1>1. /\ buffer' = Pop(buffer) /\ current' = ReadHead(buffer) /\ ~IsEmpty(buffer)
      /\ broken' = broken /\ recovered' = recovered
  BY DEF TakeNext
<1>2. CASE broken
  BY <1>1, <1>2 DEF Fifo!Break
<1>3. CASE ~broken
  <2>1. Takes(Held(buffer), current', Held(buffer'))
    BY <1>1, <1>3, RingUnlessBroken, PopTakes
  <2> QED
    BY <1>1, <1>3, <2>1 DEF Takes, Held, Fifo!TakeMessage
<1> QED
  BY <1>2, <1>3

\* The end of a spin is the restart of a queue that head had left, and nothing
\* to any other.
LEMMA EndSpinRefines ==
  ASSUME IInv, EndSpin
  PROVE  Fifo!Restart \/ UNCHANGED Fifo!vars
<1>1. /\ buffer' = buffer /\ current' = current /\ broken' = FALSE
      /\ recovered' = IF broken THEN recovered + 1 ELSE recovered
      /\ buffer.head = buffer.tail /\ buffer.tail \in Slot /\ broken \in BOOLEAN
  BY DEF EndSpin, IsEmpty, IInv, TypeOK
<1>2. CASE broken
  <2>1. Between(buffer.head, buffer.tail) = 0
    BY <1>1 DEF Between, Down, Slot
  <2>2. Contents(buffer'.slots, buffer'.head, buffer'.tail) = <<>>
    BY <1>1, <2>1 DEF Contents
  <2> QED
    BY <1>1, <1>2, <2>2 DEF Fifo!Restart
<1>3. CASE ~broken
  BY <1>1, <1>3 DEF Fifo!vars
<1> QED
  BY <1>2, <1>3

\* For every ring size, every burst and every number of messages a publisher's
\* queue is a bounded queue that drops its oldest message, until head leaves the
\* array and again from the end of the spin that follows.
THEOREM QueueImplementsFifo == Spec => FifoSpec
<1>1. ASSUME IInv, [Next]_vars PROVE [Fifo!Next]_(Fifo!vars)
  <2>1. CASE Publish
    <3>1. Fifo!PutMessage \/ Fifo!Break
      BY <1>1, <2>1, PublishRefines
    <3> QED
      BY <3>1 DEF Fifo!Next
  <2>2. CASE BeginSpin
    BY <2>2 DEF BeginSpin, Fifo!vars
  <2>3. CASE TakeNext
    <3>1. Fifo!TakeMessage \/ Fifo!Break
      BY <1>1, <2>3, TakeNextRefines
    <3> QED
      BY <3>1 DEF Fifo!Next
  <2>4. CASE EndSpin
    <3>1. Fifo!Restart \/ UNCHANGED Fifo!vars
      BY <1>1, <2>4, EndSpinRefines
    <3> QED
      BY <3>1 DEF Fifo!Next
  <2>5. CASE UNCHANGED vars
    BY <2>5 DEF vars, ghosts, Fifo!vars
  <2> QED
    BY <1>1, <2>1, <2>2, <2>3, <2>4, <2>5 DEF Next
<1> QED
  BY <1>1, InitRefines, Invariant, PTL DEF Spec, FifoSpec, Fifo!Spec
=============================================================================
