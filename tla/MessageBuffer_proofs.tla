----------------------- MODULE MessageBuffer_proofs -----------------------
(***************************************************************************)
(* What the operations of the ring do to the messages it holds, for every  *)
(* size of the array and whatever is stored in it: a pop takes the head of *)
(* the queue and a put appends to it, dropping the head when it is full.   *)
(***************************************************************************)
EXTENDS MessageBuffer, Sequences, TLAPS

USE SizeAssumption DEF SizeAssumption

\* The cursor arithmetic stays inside the array.
LEMMA StepDownInSlot ==
  ASSUME NEW i \in -1 .. Size - 1 PROVE StepDown(i) \in Slot
BY DEF StepDown, Slot

\* A reader inside the array has fewer than Size messages to pop.
LEMMA BetweenInRange ==
  ASSUME NEW t \in Slot, NEW h \in Slot
  PROVE  Between(h, t) \in 0 .. Size - 1
BY DEF Between, Down, Slot

\* A pop takes one message from between the cursors.
LEMMA PopShortens ==
  ASSUME NEW t \in Slot, NEW h \in Slot, h # t
  PROVE  Between(StepDown(h), t) = Between(h, t) - 1
<1>1. CASE h = 0
  BY <1>1 DEF Between, Down, StepDown, Slot
<1>2. CASE h > 0
  BY <1>2 DEF Between, Down, StepDown, Slot
<1> QED
  BY <1>1, <1>2 DEF Slot

\* A put into a ring that is not full adds one and does not reach head.
LEMMA PutLengthens ==
  ASSUME NEW t \in Slot, NEW h \in Slot, Between(h, t) < Size - 1
  PROVE  /\ StepDown(t) # h
         /\ Between(h, StepDown(t)) = Between(h, t) + 1
<1>1. CASE t = 0
  BY <1>1 DEF Between, Down, StepDown, Slot
<1>2. CASE t > 0
  BY <1>2 DEF Between, Down, StepDown, Slot
<1> QED
  BY <1>1, <1>2 DEF Slot

\* The contents of a ring are a sequence of what is stored in it.
LEMMA ContentsType ==
  ASSUME NEW S, NEW s \in [Slot -> S], NEW t \in Slot, NEW h \in Slot
  PROVE  /\ Contents(s, h, t) \in Seq(S)
         /\ Len(Contents(s, h, t)) = Between(h, t)
<1>1. Between(h, t) \in Nat
  BY BetweenInRange
<1>2. ASSUME NEW i \in 1 .. Between(h, t) PROVE s[Down(h, i - 1)] \in S
  <2>1. i \in 1 .. Size - 1
    BY BetweenInRange
  <2>2. Down(h, i - 1) \in Slot
    BY <2>1 DEF Down, Slot
  <2> QED
    BY <2>2
<1> QED
  BY <1>1, <1>2 DEF Contents

----------------------------------------------------------------------------
(* Ages. *)

\* How many puts ago slot i was written, when the next put writes slot t.
Age(t, i) == IF i > t THEN i - t ELSE i - t + Size

\* The age of a slot is between 1 (written last) and Size (written next).
LEMMA AgeInRange ==
  ASSUME NEW t \in Slot, NEW i \in Slot
  PROVE  Age(t, i) \in 1 .. Size
BY DEF Age, Slot

\* A put ages every slot by one, and the slot it writes is the youngest.
LEMMA PutAges ==
  ASSUME NEW t \in Slot, NEW i \in Slot
  PROVE  Age(StepDown(t), i) = IF i = t THEN 1 ELSE Age(t, i) + 1
BY DEF Age, StepDown, Slot

\* A pop moves its reader to the next younger slot.
LEMMA PopIsYounger ==
  ASSUME NEW t \in Slot, NEW h \in Slot, h # t, StepDown(h) # t
  PROVE  Age(t, StepDown(h)) = Age(t, h) - 1
BY DEF Age, StepDown, Slot

----------------------------------------------------------------------------
(* The operations, for a ring whose head is in the array. *)

IsRing(S, b) == b \in [slots : [Slot -> S], head : Slot, tail : Slot]

HasRoom(b) == Between(b.head, b.tail) < Size - 1

\* Taking x from the queue q leaves r, and putting m into it makes it r.
Takes(q, x, r) == q # <<>> /\ x = Head(q) /\ r = Tail(q)
Puts(q, m, r) == r = Append(q, m)
Drops(q, m, r) == r = Append(Tail(q), m)

\* A ring has no room exactly when it holds Size - 1 messages.
LEMMA RoomIsCapacity ==
  ASSUME NEW S, NEW b, IsRing(S, b)
  PROVE  Len(Held(b)) = Size - 1 <=> ~HasRoom(b)
<1>1. b.slots \in [Slot -> S] /\ b.head \in Slot /\ b.tail \in Slot
  BY DEF IsRing
<1>2. /\ Len(Contents(b.slots, b.head, b.tail)) = Between(b.head, b.tail)
      /\ Between(b.head, b.tail) \in 0 .. Size - 1
  BY <1>1, ContentsType, BetweenInRange
<1> QED
  BY <1>2 DEF HasRoom, Held

\* A put reaches head exactly when there is no room.
LEMMA PutReachesHead ==
  ASSUME NEW S, NEW b, IsRing(S, b)
  PROVE  StepDown(b.tail) = b.head <=> ~HasRoom(b)
BY DEF IsRing, HasRoom, Between, Down, StepDown, Slot

\* A pop leaves a ring.
LEMMA PopIsRing ==
  ASSUME NEW S, NEW b, IsRing(S, b)
  PROVE  IsRing(S, Pop(b))
<1>1. b.head \in -1 .. Size - 1
  BY DEF IsRing, Slot
<1> QED
  BY <1>1, StepDownInSlot DEF IsRing, Pop

\* pop returns the first message a ring holds and leaves the others.
LEMMA PopTakes ==
  ASSUME NEW S, NEW b, IsRing(S, b), ~IsEmpty(b)
  PROVE  Takes(Held(b), ReadHead(b), Held(Pop(b)))
<1> DEFINE s == b.slots
           h == b.head
           t == b.tail
           n == Between(h, t)
           q == Contents(s, h, t)
           r == Contents(s, StepDown(h), t)
<1>1. s \in [Slot -> S] /\ h \in Slot /\ t \in Slot /\ h # t
  BY DEF IsRing, IsEmpty
<1>2. Pop(b).slots = s /\ Pop(b).head = StepDown(h) /\ Pop(b).tail = t
  BY DEF IsRing, Pop
<1> HIDE DEF s, h, t
<1>3. n \in 1 .. Size - 1 /\ StepDown(h) \in Slot
  <2>1. h \in -1 .. Size - 1
    BY <1>1 DEF Slot
  <2> QED
    BY <1>1, <2>1, BetweenInRange, StepDownInSlot DEF Between, Down, Slot
<1>4. q \in Seq(S) /\ Len(q) = n /\ q # <<>>
  <2>1. q \in Seq(S) /\ Len(q) = n
    BY <1>1, ContentsType
  <2> QED
    BY <1>3, <2>1
<1>5. r \in Seq(S) /\ Len(r) = n - 1
  BY <1>1, <1>3, ContentsType, PopShortens
<1>6. q[1] = s[h]
  BY <1>1, <1>3 DEF Contents, Down, Slot
<1>7. ASSUME NEW i \in 1 .. n - 1 PROVE r[i] = q[i + 1]
  <2>1. r[i] = s[Down(StepDown(h), i - 1)]
    BY <1>1, <1>3, <1>7, PopShortens DEF Contents
  <2>2. q[i + 1] = s[Down(h, i)]
    BY <1>3, <1>7 DEF Contents
  <2>3. Down(StepDown(h), i - 1) = Down(h, i)
    BY <1>1, <1>3, <1>7 DEF Down, StepDown, Slot
  <2> QED
    BY <2>1, <2>2, <2>3
<1>8. /\ Tail(q) \in Seq(S) /\ Len(Tail(q)) = n - 1
      /\ \A i \in 1 .. n - 1 : Tail(q)[i] = q[i + 1]
  BY <1>3, <1>4
<1>9. r = Tail(q)
  BY <1>3, <1>5, <1>7, <1>8
<1>10. Takes(q, s[h], r)
  BY <1>4, <1>6, <1>9 DEF Takes
<1> QED
  BY <1>1, <1>2, <1>10 DEF s, h, t, Held, ReadHead

\* put appends its message to what a ring with room holds.
LEMMA PutAppends ==
  ASSUME NEW S, NEW b, NEW m, IsRing(S, b), m \in S, HasRoom(b)
  PROVE  Puts(Held(b), m, Held(Put(b, m)))
<1> DEFINE s == b.slots
           h == b.head
           t == b.tail
           f == [s EXCEPT ![t] = m]
           n == Between(h, t)
           q == Contents(s, h, t)
           r == Contents(f, h, StepDown(t))
<1>1. s \in [Slot -> S] /\ h \in Slot /\ t \in Slot /\ n < Size - 1
  BY DEF IsRing, HasRoom
<1>2. Put(b, m).slots = f /\ Put(b, m).head = h /\ Put(b, m).tail = StepDown(t)
  BY <1>1, PutLengthens DEF Put
<1>3. f \in [Slot -> S] /\ f[t] = m /\ \A i \in Slot : i # t => f[i] = s[i]
  BY <1>1
<1> HIDE DEF s, h, t, f
<1>4. n \in 0 .. Size - 2 /\ StepDown(t) \in Slot
  <2>1. n \in 0 .. Size - 1 /\ t \in -1 .. Size - 1
    BY <1>1, BetweenInRange DEF Slot
  <2> QED
    BY <1>1, <2>1, StepDownInSlot
<1>5. q \in Seq(S) /\ Len(q) = n
  BY <1>1, ContentsType
<1>6. Between(h, StepDown(t)) = n + 1
  BY <1>1, PutLengthens
<1>7. r \in Seq(S) /\ Len(r) = n + 1
  BY <1>1, <1>3, <1>4, <1>6, ContentsType
<1>8. ASSUME NEW i \in 1 .. n + 1 PROVE r[i] = f[Down(h, i - 1)]
  BY <1>6, <1>8 DEF Contents
<1>9. r[n + 1] = m
  <2>1. Down(h, n) = t
    BY <1>1 DEF Between, Down, Slot
  <2> QED
    BY <1>3, <1>4, <1>8, <2>1
<1>10. ASSUME NEW i \in 1 .. n PROVE r[i] = q[i]
  <2>1. Down(h, i - 1) \in Slot /\ Down(h, i - 1) # t
    BY <1>1, <1>4, <1>10 DEF Between, Down, Slot
  <2>2. q[i] = s[Down(h, i - 1)]
    BY <1>10 DEF Contents
  <2> QED
    BY <1>3, <1>4, <1>8, <1>10, <2>1, <2>2
<1>11. /\ Append(q, m) \in Seq(S) /\ Len(Append(q, m)) = n + 1
       /\ Append(q, m)[n + 1] = m
       /\ \A i \in 1 .. n : Append(q, m)[i] = q[i]
  BY <1>4, <1>5
<1>12. r = Append(q, m)
  BY <1>4, <1>7, <1>9, <1>10, <1>11
<1> QED
  BY <1>2, <1>12 DEF s, h, t, Held, Puts

\* put drops the first message of a full ring, if head stays in the array.
LEMMA PutDrops ==
  ASSUME NEW S, NEW b, NEW m, IsRing(S, b), m \in S, ~HasRoom(b), b.head # 0
  PROVE  /\ Drops(Held(b), m, Held(Put(b, m)))
         /\ Put(b, m).head \in Slot
<1>1. ~IsEmpty(b)
  BY DEF IsRing, IsEmpty, HasRoom, Between, Down, Slot
<1>2. Put(b, m) = Put(Pop(b), m) /\ Put(b, m).head \in Slot
  <2>1. b.head \in Slot /\ StepDown(b.tail) = b.head
    BY PutReachesHead DEF IsRing
  <2>2. StepDown(b.head) = b.head - 1 /\ b.head - 1 \in Slot
    BY <2>1 DEF StepDown, Slot
  <2>3. /\ Pop(b).slots = b.slots /\ Pop(b).tail = b.tail
        /\ Pop(b).head = b.head - 1 /\ b.head - 1 # b.head
    BY <2>1, <2>2 DEF IsRing, Pop, Slot
  <2>4. Put(b, m) = [slots |-> [b.slots EXCEPT ![b.tail] = m],
                     tail |-> b.head, head |-> b.head - 1]
    BY <2>1 DEF Put
  <2>5. Put(Pop(b), m) = [slots |-> [b.slots EXCEPT ![b.tail] = m],
                          tail |-> b.head, head |-> b.head - 1]
    BY <2>1, <2>3 DEF Put
  <2> QED
    BY <2>2, <2>4, <2>5
<1>3. HasRoom(Pop(b))
  BY <1>1, PopShortens DEF IsRing, IsEmpty, HasRoom, Pop, Between, Down, StepDown, Slot
<1>4. Puts(Held(Pop(b)), m, Held(Put(Pop(b), m)))
  BY <1>3, PopIsRing, PutAppends
<1>5. Takes(Held(b), ReadHead(b), Held(Pop(b)))
  BY <1>1, PopTakes
<1> QED
  BY <1>2, <1>4, <1>5 DEF Takes, Puts, Drops
=============================================================================
