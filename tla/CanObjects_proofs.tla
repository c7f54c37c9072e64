------------------------- MODULE CanObjects_proofs -------------------------
(***************************************************************************)
(* For any number of topics, length of queue and order of subscribing: the *)
(* subscriptions keep to their own message objects, and the handler reads  *)
(* a topic's frames in the order in which they came until one came into an *)
(* object emptied early; no frame is lost while an object of its queue is  *)
(* empty.  All hold until something is unsubscribed, or written past the   *)
(* table; and nothing is written past it by a subscription while all that  *)
(* were ever made fit, as the bump pointer never runs ahead of them.       *)
(***************************************************************************)
EXTENDS CanObjects, FiniteSetTheorems, WellFoundedInduction, TLAPS

Subscribed == {t \in Topic : sub_id[t] # NONE}

\* Subscriptions move the bump pointer on, and no unsubscribe moves it back by
\* more than one object.
PointerMoves ==
  /\ START + Cardinality(Subscribed) <= current_id
  /\ current_id <= START + subs * QUEUE

\* The pointer stays in the table until something is written past it, which takes
\* too many subscriptions or a topic whose id is no object's.
Overruns ==
  /\ overrun = NONE => current_id <= OBJECTS
  /\ overrun = "subscribe" => START + subs * QUEUE > OBJECTS
  /\ overrun = "unsubscribe" => unsubscribed /\ \E t \in Topic : t >= OBJECTS

\* The objects that have been given out, and what they hold.
Layout ==
  /\ \A t \in Topic : sub_id[t] # NONE =>
       START <= sub_id[t] /\ sub_id[t] + QUEUE <= current_id
  /\ \A o \in Object, t \in Topic :
       msgs[o].topic = t <=> sub_id[t] # NONE /\ o \in Queue(t)
  /\ \A o \in Object : frame[o] # NONE => msgs[o].topic = frame[o][1]

\* A queue's last object, and only that one, does not continue it.
Chained ==
  \A t \in Topic, o \in Object :
    sub_id[t] # NONE /\ o \in Queue(t) => (msgs[o].fifo <=> o # sub_id[t] + QUEUE - 1)

\* Frames bear the numbers of frames that have come.
Numbered == \A o \in Object : frame[o] # NONE => frame[o][2] <= arrived[frame[o][1]]

\* While no frame of a topic has been read before another, its queue is filled
\* from the front.
FrontFilled ==
  \A t \in Topic \ read : \A p \in Holding(t), o \in Queue(t) : o < p => o \in Holding(t)

\* While no frame has come into an object emptied early, a queue holds its
\* frames in the order in which they came.
InOrder ==
  \A t \in Topic \ refilled : \A o, p \in Holding(t) : o < p => frame[o][2] < frame[p][2]

IInv ==
  /\ TypeOK /\ PointerMoves /\ Overruns
  /\ ~unsubscribed /\ overrun = NONE => Layout /\ Chained /\ Numbered /\ FrontFilled /\ InOrder

----------------------------------------------------------------------------
(* Facts about the constants. *)

LEMMA Consts ==
  /\ QUEUE \in Nat /\ QUEUE > 0 /\ START \in Nat /\ START > 0 /\ OBJECTS \in Nat
  /\ MaxSubs \in Nat /\ MaxFrames \in Nat
  /\ START <= OBJECTS /\ Topic \subseteq 0 .. 127
  /\ NONE \notin Topic /\ NONE \notin Object /\ NONE \notin {"subscribe", "unsubscribe"}
  /\ \A t \in Topic, n \in Frame : <<t, n>> # NONE
<1>1. /\ OBJECTS \in Nat /\ Topic \subseteq 0 .. 127 /\ Topic \subseteq Int /\ START <= OBJECTS
      /\ NONE \notin {"subscribe", "unsubscribe"}
  BY ObjectsAssumption DEF ObjectsAssumption
<1>2. NONE \notin Int /\ NONE \notin Int \X Int
  BY ObjectsAssumption DEF ObjectsAssumption
<1>3. MaxFrames \in Nat /\ Frame \subseteq Int
  BY ObjectsAssumption DEF ObjectsAssumption, Frame
<1>4. \A t \in Topic, n \in Frame : <<t, n>> # NONE
  BY <1>1, <1>2, <1>3
<1>7. NONE \notin Topic
  BY <1>1, <1>2
<1>8. NONE \notin Object
  <2>1. Object \subseteq Int
    BY <1>1 DEF Object
  <2> QED
    BY <1>2, <2>1
<1>6. QUEUE \in Nat /\ QUEUE > 0 /\ START \in Nat /\ START > 0 /\ MaxSubs \in Nat
  BY ObjectsAssumption DEF ObjectsAssumption
<1> QED
  BY <1>1, <1>3, <1>4, <1>6, <1>7, <1>8

\* One more subscription takes the bump pointer no further than its objects reach.
LEMMA OneMore ==
  ASSUME NEW s \in Nat, NEW c \in Int, c <= START + s * QUEUE
  PROVE  c + QUEUE <= START + (s + 1) * QUEUE
<1> DEFINE a == s * QUEUE
           b == (s + 1) * QUEUE
<1>1. a \in Nat /\ b \in Nat
  BY Consts
<1>2. b = a + QUEUE
  BY Consts
<1> HIDE DEF a, b
<1>3. c <= START + a => c + QUEUE <= START + b
  BY <1>1, <1>2, Consts
<1> QED
  BY <1>3 DEF a, b

LEMMA TopicsFinite == IsFiniteSet(Subscribed) /\ Cardinality(Subscribed) \in Nat
<1>1. PICK n \in Int : n = 127
  OBVIOUS
<1>2. IsFiniteSet(0 .. n)
  BY FS_Interval
<1>3. Subscribed \in SUBSET (0 .. n)
  BY <1>1, Consts DEF Subscribed
<1> QED
  BY <1>2, <1>3, FS_Subset, FS_CardinalityType

\* A nonempty set of natural numbers has a least element.
LEMMA LeastNat ==
  ASSUME NEW S \in SUBSET Nat, S # {}
  PROVE  \E n \in S : \A m \in S : n <= m
<1> DEFINE R == OpToRel(<, Nat)
<1>1. IsWellFoundedOn(R, Nat)
  BY NatLessThanWellFounded, Zenon
<1>2. \A x, y \in Nat : <<x, y>> \in R <=> x < y
  BY DEF OpToRel
<1> HIDE DEF R
<1>3. \E x \in S : \A y \in S : ~ (<<y, x>> \in R)
  BY <1>1, WFMin
<1>4. PICK n \in S : \A y \in S : ~ (<<y, n>> \in R)
  BY <1>3
<1>5. \A y \in S : ~ (y < n)
  BY <1>2, <1>4
<1> QED
  BY <1>5

----------------------------------------------------------------------------
(* Initially. *)

LEMMA InitIInv == Init => IInv
<1> SUFFICES ASSUME Init PROVE IInv
  OBVIOUS
<1>1. TypeOK
  <2>1. msgs \in [Object -> [topic : Topic \cup {NONE}, fifo : BOOLEAN]]
    BY DEF Init
  <2>2. current_id \in START .. OBJECTS + QUEUE
    BY Consts DEF Init
  <2>3. /\ sub_id \in [Topic -> Object \cup {NONE}]
        /\ frame \in [Object -> (Topic \X Frame) \cup {NONE}]
        /\ arrived \in [Topic -> 0 .. MaxFrames]
    BY Consts DEF Init
  <2>4. subs \in 0 .. MaxSubs /\ overrun \in {NONE, "subscribe", "unsubscribe"}
    BY Consts DEF Init
  <2>5. refilled \in SUBSET Topic /\ read \in SUBSET Topic /\ unsubscribed \in BOOLEAN
    BY DEF Init
  <2> QED
    BY <2>1, <2>2, <2>3, <2>4, <2>5 DEF TypeOK
<1>2. PointerMoves
  <2>1. Subscribed = {}
    BY DEF Init, Subscribed
  <2>2. Cardinality(Subscribed) = 0 /\ 0 * QUEUE = 0
    BY <2>1, FS_EmptySet, Consts
  <2> QED
    BY <2>2, Consts DEF Init, PointerMoves
<1>3. \A o \in Object : frame[o] = NONE /\ msgs[o].topic = NONE
  BY DEF Init
<1>4. \A t \in Topic : sub_id[t] = NONE /\ Holding(t) = {}
  BY <1>3 DEF Init, Holding
<1>5. Layout /\ Chained /\ Numbered
  BY <1>3, <1>4, Consts DEF Layout, Chained, Numbered
<1>6. FrontFilled /\ InOrder
  BY <1>4 DEF FrontFilled, InOrder
<1>7. Overruns
  BY Consts DEF Init, Overruns
<1> QED
  BY <1>1, <1>2, <1>5, <1>6, <1>7 DEF IInv

----------------------------------------------------------------------------
(* The steps. *)

\* A queue lies in the table, and holds frames of its topic only.
LEMMA QueueFacts ==
  ASSUME TypeOK, current_id <= OBJECTS, Layout, NEW t \in Topic
  PROVE  /\ sub_id[t] # NONE => Queue(t) \subseteq Object
         /\ \A o \in Holding(t) : o \in Object /\ sub_id[t] # NONE /\ o \in Queue(t)
         /\ Holding(t) \subseteq Object
         /\ \A o \in Object : frame[o] # NONE => /\ frame[o] \in Topic \X Frame
                                                 /\ frame[o][1] \in Topic
                                                 /\ frame[o][2] \in Frame
                                                 /\ frame[o] = <<frame[o][1], frame[o][2]>>
<1>1. sub_id[t] # NONE => Queue(t) \subseteq Object
  BY Consts DEF TypeOK, Layout, Queue, Object
<1>2. \A o \in Object : frame[o] # NONE => frame[o] \in Topic \X Frame
  BY DEF TypeOK
<1>3. \A o \in Object : frame[o] # NONE => /\ frame[o][1] \in Topic
                                           /\ frame[o][2] \in Frame
                                           /\ frame[o] = <<frame[o][1], frame[o][2]>>
  BY <1>2
<1>4. \A o \in Holding(t) : o \in Object /\ sub_id[t] # NONE /\ o \in Queue(t)
  BY DEF Holding, Layout
<1> QED
  BY <1>1, <1>2, <1>3, <1>4

\* A frame goes into the first empty object of its queue, or over the last.
LEMMA ArriveIInv ==
  ASSUME IInv, NEW t \in Topic, Arrive(t) PROVE IInv'
<1> DEFINE takes == {o \in Object : msgs[o].topic = t /\ (frame[o] = NONE \/ ~msgs[o].fifo)}
           n == arrived[t] + 1
<1>1. /\ n \in Frame /\ arrived[t] \in Nat
      /\ arrived' = [arrived EXCEPT ![t] = n]
      /\ frame' = [o \in Object |-> IF IsLowest(o, takes) THEN <<t, n>> ELSE frame[o]]
      /\ refilled' = IF t \in read THEN refilled \cup {t} ELSE refilled
      /\ UNCHANGED <<msgs, current_id, sub_id, subs, overrun, unsubscribed, read>>
      /\ overrun = NONE /\ current_id <= OBJECTS
  BY Consts DEF Arrive, IInv, TypeOK, Overruns, Frame, table
<1>2. \A o \in Object : frame'[o] = IF IsLowest(o, takes) THEN <<t, n>> ELSE frame[o]
  BY <1>1
<1>3. \A o \in Object : IsLowest(o, takes) =>
        /\ msgs[o].topic = t /\ (frame[o] = NONE \/ ~msgs[o].fifo)
        /\ \A p \in Object : p < o => ~(msgs[p].topic = t /\ (frame[p] = NONE \/ ~msgs[p].fifo))
  BY DEF IsLowest, Object
<1>4. /\ arrived'[t] = n /\ \A u \in Topic \ {t} : arrived'[u] = arrived[u]
      /\ <<t, n>> # NONE /\ <<t, n>>[1] = t /\ <<t, n>>[2] = n
  BY <1>1, Consts DEF IInv, TypeOK
<1> HIDE DEF takes, n
<1>5. TypeOK'
  <2>1. frame' \in [Object -> (Topic \X Frame) \cup {NONE}]
    BY <1>1 DEF IInv, TypeOK
  <2>2. arrived' \in [Topic -> 0 .. MaxFrames]
    BY <1>1, Consts DEF IInv, TypeOK, Frame
  <2>3. refilled' \in SUBSET Topic
    BY <1>1 DEF IInv, TypeOK
  <2> QED
    BY <1>1, <2>1, <2>2, <2>3 DEF IInv, TypeOK
<1>6. PointerMoves' /\ Overruns'
  BY <1>1 DEF IInv, PointerMoves, Overruns, Subscribed
<1>7. ASSUME ~unsubscribed'
      PROVE  Layout' /\ Chained' /\ Numbered' /\ FrontFilled' /\ InOrder'
  <2>1. /\ TypeOK /\ PointerMoves /\ Layout /\ Chained /\ Numbered /\ FrontFilled /\ InOrder
        /\ current_id <= OBJECTS
    BY <1>1, <1>7 DEF IInv
  <2>2. \A u \in Topic : Queue(u)' = Queue(u)
    BY <1>1 DEF Queue
  <2>3. \A o \in Object : frame[o] # NONE =>
          frame[o][1] \in Topic /\ frame[o][2] \in Nat /\ frame[o][2] <= arrived[frame[o][1]]
    BY <2>1, QueueFacts DEF Numbered, Frame
  <2>4. \A u \in Topic, o \in Object :
          o \in Holding(u)' <=> o \in Holding(u) \/ (u = t /\ IsLowest(o, takes))
    <3> SUFFICES ASSUME NEW u \in Topic, NEW o \in Object
                 PROVE  o \in Holding(u)' <=>
                          o \in Holding(u) \/ (u = t /\ IsLowest(o, takes))
      OBVIOUS
    <3>1. CASE IsLowest(o, takes)
      <4>1. msgs[o].topic = t /\ (frame[o] # NONE => frame[o][1] = t)
        BY <1>3, <2>1, <3>1 DEF Layout
      <4>2. frame'[o] = <<t, n>>
        BY <1>2, <3>1
      <4> QED
        BY <1>4, <3>1, <4>1, <4>2 DEF Holding
    <3>2. CASE ~IsLowest(o, takes)
      BY <1>2, <3>2 DEF Holding
    <3> QED
      BY <3>1, <3>2
  <2>5. \A u \in Topic : Holding(u) \subseteq Object /\ Holding(u)' \subseteq Object
    BY DEF Holding
  <2>6. Layout'
    <3>1. \A o \in Object : frame'[o] # NONE => msgs'[o].topic = frame'[o][1]
      BY <1>1, <1>2, <1>3, <1>4, <2>1 DEF Layout
    <3> QED
      BY <1>1, <2>1, <2>2, <3>1 DEF Layout
  <2>7. Chained'
    BY <1>1, <2>1, <2>2 DEF Chained
  <2>8. Numbered'
    <3> SUFFICES ASSUME NEW o \in Object, frame'[o] # NONE
                 PROVE  frame'[o][2] <= arrived'[frame'[o][1]]
      BY DEF Numbered
    <3>1. CASE IsLowest(o, takes)
      BY <1>1, <1>2, <1>4, <3>1 DEF Frame
    <3>2. CASE ~IsLowest(o, takes)
      <4>1. frame'[o] = frame[o]
        BY <1>2, <3>2
      <4>2. n = arrived[t] + 1
        BY DEF n
      <4> QED
        BY <1>1, <1>4, <2>3, <4>1, <4>2
    <3> QED
      BY <3>1, <3>2
  <2>9. FrontFilled'
    <3> SUFFICES ASSUME NEW u \in Topic \ read, NEW p \in Holding(u)', NEW o \in Queue(u), o < p
                 PROVE  o \in Holding(u)'
      BY <1>1, <2>2 DEF FrontFilled
    <3>1. p \in Object
      BY <2>5
    <3>2. CASE p \in Holding(u)
      BY <2>1, <2>4, <2>5, <3>2 DEF FrontFilled
    <3>3. CASE u = t /\ IsLowest(p, takes)
      <4>1. sub_id[t] # NONE
        BY <1>3, <2>1, <3>1, <3>3 DEF Layout
      <4>2. o \in Object /\ msgs[o].topic = t
        BY <2>1, <3>3, <4>1, QueueFacts DEF Layout
      <4>3. frame[o] # NONE
        BY <1>3, <3>1, <3>3, <4>2
      <4>4. o \in Holding(t)
        BY <2>1, <4>2, <4>3 DEF Holding, Layout
      <4> QED
        BY <2>4, <3>3, <4>2, <4>4
    <3> QED
      BY <2>4, <3>1, <3>2, <3>3
  <2>10. InOrder'
    <3> SUFFICES ASSUME NEW u \in Topic \ refilled', NEW o \in Holding(u)', NEW p \in Holding(u)',
                        o < p
                 PROVE  frame'[o][2] < frame'[p][2]
      BY DEF InOrder
    <3>1. u \notin refilled /\ (u = t => t \notin read) /\ o \in Object /\ p \in Object
      BY <1>1, <2>5
    <3>2. CASE IsLowest(o, takes)
      <4>1. u = t
        BY <1>2, <1>4, <3>1, <3>2 DEF Holding
      <4>2. p \in Holding(t)
        BY <2>4, <3>1, <3>2, <4>1 DEF IsLowest, Object
      <4>3. msgs[o].topic = t /\ o \in Queue(t) /\ sub_id[t] # NONE
        BY <1>3, <2>1, <3>1, <3>2 DEF Layout
      <4>4. o \in Holding(t)
        BY <2>1, <3>1, <4>1, <4>2, <4>3 DEF FrontFilled
      <4>5. ~msgs[o].fifo
        BY <1>3, <3>1, <3>2, <4>4 DEF Holding
      <4>6. o = sub_id[t] + QUEUE - 1 /\ p \in Queue(t)
        BY <2>1, <3>1, <4>2, <4>3, <4>5, QueueFacts DEF Chained
      <4> QED
        BY <2>1, <3>1, <4>3, <4>6, Consts DEF Queue, TypeOK, Object
    <3>3. CASE ~IsLowest(o, takes) /\ IsLowest(p, takes)
      <4>1. u = t
        BY <1>2, <1>4, <3>1, <3>3 DEF Holding
      <4>2. o \in Holding(t) /\ frame'[o] = frame[o] /\ frame'[p][2] = n
        BY <1>2, <1>4, <2>4, <3>1, <3>3, <4>1
      <4>3. frame[o][2] \in Nat /\ frame[o][2] <= arrived[t]
        BY <2>3, <3>1, <4>2 DEF Holding
      <4> QED
        BY <1>1, <4>2, <4>3 DEF n
    <3>4. CASE ~IsLowest(o, takes) /\ ~IsLowest(p, takes)
      BY <1>2, <2>1, <2>4, <3>1, <3>4 DEF InOrder
    <3> QED
      BY <3>2, <3>3, <3>4
  <2> QED
    BY <2>6, <2>7, <2>8, <2>9, <2>10
<1> QED
  BY <1>5, <1>6, <1>7 DEF IInv

\* The handler takes a frame away, and what it leaves was in order before.
LEMMA InterruptIInv ==
  ASSUME IInv, Interrupt PROVE IInv'
<1>1. PICK o \in Object :
        /\ frame[o] # NONE
        /\ frame' = [frame EXCEPT ![o] = NONE]
        /\ IF Holding(frame[o][1]) = {o}
           THEN read' = read \ {frame[o][1]} /\ refilled' = refilled \ {frame[o][1]}
           ELSE read' = read \cup {frame[o][1]} /\ UNCHANGED refilled
        /\ UNCHANGED <<table, arrived>>
        /\ overrun = NONE
  BY DEF Interrupt, IntStatus, IsLowest
<1> DEFINE t == frame[o][1]
<1>2. /\ UNCHANGED <<msgs, current_id, sub_id, subs, overrun, unsubscribed, arrived>>
      /\ overrun = NONE
      /\ frame'[o] = NONE /\ \A p \in Object \ {o} : frame'[p] = frame[p]
      /\ t \in Topic
      /\ \/ Holding(t) = {o} /\ read' = read \ {t} /\ refilled' = refilled \ {t}
         \/ read' = read \cup {t} /\ refilled' = refilled
  <2>1. frame[o] \in Topic \X Frame
    BY <1>1 DEF IInv, TypeOK
  <2> QED
    BY <1>1, <2>1 DEF IInv, TypeOK, table
<1> HIDE DEF t
<1>3. \A u \in Topic : Holding(u)' = Holding(u) \ {o}
  BY <1>2 DEF Holding
<1>4. TypeOK'
  <2>1. frame' \in [Object -> (Topic \X Frame) \cup {NONE}]
    BY <1>1 DEF IInv, TypeOK
  <2>2. refilled' \in SUBSET Topic /\ read' \in SUBSET Topic
    BY <1>2 DEF IInv, TypeOK
  <2> QED
    BY <1>2, <2>1, <2>2 DEF IInv, TypeOK
<1>5. PointerMoves' /\ Overruns'
  BY <1>2 DEF IInv, PointerMoves, Overruns, Subscribed
<1>6. ASSUME ~unsubscribed'
      PROVE  Layout' /\ Chained' /\ Numbered' /\ FrontFilled' /\ InOrder'
  <2>1. TypeOK /\ Layout /\ Chained /\ Numbered /\ FrontFilled /\ InOrder
    BY <1>2, <1>6 DEF IInv
  <2>2. \A u \in Topic : Queue(u)' = Queue(u)
    BY <1>2 DEF Queue
  <2>3. Layout' /\ Chained' /\ Numbered'
    BY <1>2, <2>1, <2>2 DEF Layout, Chained, Numbered
  <2>4. \A u \in Topic : u \notin read' => u \notin read \/ Holding(u)' = {}
    BY <1>2, <1>3
  <2>5. \A u \in Topic : u \notin refilled' => u \notin refilled \/ Holding(u)' = {}
    BY <1>2, <1>3
  <2>6. \A u \in Topic : u \notin read' => Holding(u)' = Holding(u) \/ Holding(u)' = {}
    <3> SUFFICES ASSUME NEW u \in Topic, u \notin read'
                 PROVE  Holding(u)' = Holding(u) \/ Holding(u)' = {}
      OBVIOUS
    <3>1. CASE u = t
      BY <1>2, <1>3, <3>1
    <3>2. CASE u # t
      BY <1>3, <3>2 DEF Holding, t
    <3> QED
      BY <3>1, <3>2
  <2>7. FrontFilled'
    BY <1>2, <2>1, <2>2, <2>4, <2>6 DEF FrontFilled
  <2>8. InOrder'
    <3> SUFFICES ASSUME NEW u \in Topic \ refilled', NEW p \in Holding(u)', NEW q \in Holding(u)',
                        p < q
                 PROVE  frame'[p][2] < frame'[q][2]
      BY DEF InOrder
    <3>1. u \notin refilled
      BY <2>5
    <3>2. p \in Holding(u) /\ q \in Holding(u) /\ p # o /\ q # o
      BY <1>3
    <3>3. frame'[p] = frame[p] /\ frame'[q] = frame[q]
      BY <1>2, <3>2 DEF Holding
    <3> QED
      BY <2>1, <3>1, <3>2, <3>3 DEF InOrder
  <2> QED
    BY <2>3, <2>7, <2>8
<1> QED
  BY <1>4, <1>5, <1>6 DEF IInv

\* A subscription takes objects nobody has been given: they are empty, and the
\* frames of the topics that have objects already stay where they are.
LEMMA SubscribeIInv ==
  ASSUME IInv, NEW t \in Topic, Subscribe(t) PROVE IInv'
<1> DEFINE taken == current_id .. current_id + QUEUE - 1
<1>1. /\ overrun = NONE /\ subs < MaxSubs /\ sub_id[t] = NONE
      /\ subs' = subs + 1
      /\ sub_id' = [sub_id EXCEPT ![t] = current_id]
      /\ msgs' = [o \in Object |->
           IF o \in taken THEN [topic |-> t, fifo |-> Chains(o - current_id)] ELSE msgs[o]]
      /\ frame' = [o \in Object |-> IF o \in taken THEN NONE ELSE frame[o]]
      /\ current_id' = current_id + QUEUE
      /\ overrun' = IF current_id + QUEUE > OBJECTS THEN "subscribe" ELSE NONE
      /\ UNCHANGED <<arrived, refilled, read, unsubscribed>>
  BY DEF Subscribe, NextId, ghosts
<1>2. /\ subs \in Nat /\ current_id \in Int
      /\ START + Cardinality(Subscribed) <= current_id
      /\ current_id <= START + subs * QUEUE
      /\ current_id <= OBJECTS
  BY <1>1, Consts DEF IInv, TypeOK, PointerMoves, Overruns
<1>3. START <= current_id
  BY <1>2, TopicsFinite, Consts
<1>4. current_id + QUEUE <= START + (subs + 1) * QUEUE
  BY <1>1, <1>2, OneMore
<1>5. /\ current_id \in Object /\ current_id \in taken
      /\ \A o \in Object : o \in taken <=> current_id <= o /\ o <= current_id + QUEUE - 1
  BY <1>2, <1>3, <1>4, Consts DEF Object
<1>6. /\ \A o \in Object : o \in taken => /\ msgs'[o].topic = t
                                          /\ msgs'[o].fifo <=> o # current_id + QUEUE - 1
                                          /\ frame'[o] = NONE
      /\ \A o \in Object : o \notin taken => msgs'[o] = msgs[o] /\ frame'[o] = frame[o]
      /\ sub_id'[t] = current_id /\ \A u \in Topic \ {t} : sub_id'[u] = sub_id[u]
  <2>1. \A o \in Object : o \in taken =>
          (Chains(o - current_id) <=> o # current_id + QUEUE - 1)
    BY <1>2, <1>5, Consts DEF Chains, Object
  <2> HIDE DEF taken
  <2> QED
    BY <1>1, <2>1 DEF IInv, TypeOK
<1> HIDE DEF taken
<1>7. TypeOK'
  <2>1. msgs' \in [Object -> [topic : Topic \cup {NONE}, fifo : BOOLEAN]]
    BY <1>1 DEF IInv, TypeOK, Chains
  <2>2. current_id' \in START .. OBJECTS + QUEUE
    BY <1>1, <1>2, <1>3, Consts
  <2>3. /\ sub_id' \in [Topic -> Object \cup {NONE}]
        /\ frame' \in [Object -> (Topic \X Frame) \cup {NONE}]
    BY <1>1, <1>5 DEF IInv, TypeOK
  <2>4. subs' \in 0 .. MaxSubs /\ overrun' \in {NONE, "subscribe", "unsubscribe"}
    BY <1>1, <1>2, Consts
  <2> QED
    BY <1>1, <2>1, <2>2, <2>3, <2>4 DEF IInv, TypeOK
<1>8. PointerMoves'
  <2>1. Subscribed' = Subscribed \cup {t}
    BY <1>5, <1>6, Consts DEF Subscribed
  <2>2. Cardinality(Subscribed') = Cardinality(Subscribed) + 1
    BY <1>1, <2>1, TopicsFinite, FS_AddElement DEF Subscribed
  <2>3. START + Cardinality(Subscribed') <= current_id + QUEUE
    BY <1>2, <2>2, TopicsFinite, Consts
  <2> QED
    BY <1>1, <1>4, <2>3 DEF PointerMoves
<1>a. Overruns'
  <2> DEFINE s == (subs + 1) * QUEUE
  <2>1. s \in Nat /\ current_id + QUEUE <= START + s
    BY <1>2, <1>4, Consts
  <2> HIDE DEF s
  <2>2. current_id + QUEUE > OBJECTS => START + s > OBJECTS
    BY <1>2, <2>1, Consts
  <2>3. /\ overrun' = NONE => current_id' <= OBJECTS
        /\ overrun' = "subscribe" => START + s > OBJECTS
        /\ overrun' # "unsubscribe"
    BY <1>1, <1>2, <2>2, Consts
  <2> QED
    BY <1>1, <2>3 DEF s, Overruns
<1>9. ASSUME ~unsubscribed'
      PROVE  Layout' /\ Chained' /\ Numbered' /\ FrontFilled' /\ InOrder'
  <2>1. /\ TypeOK /\ PointerMoves /\ Layout /\ Chained /\ Numbered /\ FrontFilled /\ InOrder
        /\ current_id <= OBJECTS
    BY <1>1, <1>2, <1>9 DEF IInv
  <2>2. /\ Queue(t)' = taken
        /\ \A u \in Topic \ {t} : Queue(u)' = Queue(u)
    BY <1>6 DEF Queue, taken
  <2>3. \A u \in Topic, o \in Object : sub_id[u] # NONE /\ o \in Queue(u) => o \notin taken
    <3> SUFFICES ASSUME NEW u \in Topic, NEW o \in Object, sub_id[u] # NONE, o \in Queue(u)
                 PROVE  ~(current_id <= o)
      BY <1>5
    <3>1. sub_id[u] \in Int /\ sub_id[u] + QUEUE <= current_id
      BY <2>1 DEF Layout, TypeOK, Object
    <3> QED
      BY <1>2, <3>1, Consts DEF Queue
  <2>4. \A o \in Object : o \in taken => frame[o] = NONE
    <3> SUFFICES ASSUME NEW o \in Object, o \in taken, frame[o] # NONE PROVE FALSE
      OBVIOUS
    <3>1. frame[o][1] \in Topic /\ msgs[o].topic = frame[o][1]
      BY <2>1, QueueFacts DEF Layout
    <3> QED
      BY <2>1, <2>3, <3>1 DEF Layout
  <2>5. \A o \in Object : frame'[o] = frame[o]
    BY <1>6, <2>4
  <2>6. \A u \in Topic : Holding(u)' = Holding(u)
    BY <2>5 DEF Holding
  <2>7. Holding(t) = {}
    BY <1>1, <2>1, QueueFacts
  <2>8. Layout'
    <3>1. \A u \in Topic : sub_id'[u] # NONE =>
            START <= sub_id'[u] /\ sub_id'[u] + QUEUE <= current_id'
      <4> SUFFICES ASSUME NEW u \in Topic, sub_id'[u] # NONE
                   PROVE  START <= sub_id'[u] /\ sub_id'[u] + QUEUE <= current_id'
        OBVIOUS
      <4>1. CASE u = t
        BY <1>1, <1>2, <1>3, <1>6, <4>1, Consts
      <4>2. CASE u # t
        <5>1. sub_id'[u] = sub_id[u] /\ sub_id[u] \in Int /\ sub_id[u] + QUEUE <= current_id
              /\ START <= sub_id[u]
          BY <1>6, <2>1, <4>2 DEF Layout, TypeOK, Object
        <5> QED
          BY <1>1, <1>2, <5>1, Consts
      <4> QED
        BY <4>1, <4>2
    <3>2. \A o \in Object, u \in Topic :
            msgs'[o].topic = u <=> sub_id'[u] # NONE /\ o \in Queue(u)'
      <4> SUFFICES ASSUME NEW o \in Object, NEW u \in Topic
                   PROVE  msgs'[o].topic = u <=> sub_id'[u] # NONE /\ o \in Queue(u)'
        OBVIOUS
      <4>1. CASE u = t
        BY <1>1, <1>5, <1>6, <2>1, <2>2, <4>1, Consts DEF Layout
      <4>2. CASE u # t
        BY <1>6, <2>1, <2>2, <2>3, <4>2 DEF Layout
      <4> QED
        BY <4>1, <4>2
    <3>3. \A o \in Object : frame'[o] # NONE => msgs'[o].topic = frame'[o][1]
      BY <1>6, <2>1 DEF Layout
    <3> QED
      BY <3>1, <3>2, <3>3 DEF Layout
  <2>9. Chained'
    <3> SUFFICES ASSUME NEW u \in Topic, NEW o \in Object, sub_id'[u] # NONE, o \in Queue(u)'
                 PROVE  msgs'[o].fifo <=> o # sub_id'[u] + QUEUE - 1
      BY DEF Chained
    <3>1. CASE u = t
      BY <1>6, <2>2, <3>1
    <3>2. CASE u # t
      BY <1>6, <2>1, <2>2, <2>3, <3>2 DEF Chained
    <3> QED
      BY <3>1, <3>2
  <2>10. Numbered'
    BY <1>1, <2>1, <2>5 DEF Numbered
  <2>11. FrontFilled'
    <3> SUFFICES ASSUME NEW u \in Topic \ read', NEW p \in Holding(u)', NEW o \in Queue(u)', o < p
                 PROVE  o \in Holding(u)'
      BY DEF FrontFilled
    <3> QED
      BY <1>1, <2>1, <2>2, <2>6, <2>7 DEF FrontFilled
  <2>12. InOrder'
    <3> SUFFICES ASSUME NEW u \in Topic \ refilled', NEW o \in Holding(u)', NEW p \in Holding(u)',
                        o < p
                 PROVE  frame'[o][2] < frame'[p][2]
      BY DEF InOrder
    <3>1. o \in Object /\ p \in Object /\ o \in Holding(u) /\ p \in Holding(u)
      BY <2>6 DEF Holding
    <3> QED
      BY <1>1, <2>1, <2>5, <3>1 DEF InOrder
  <2> QED
    BY <2>8, <2>9, <2>10, <2>11, <2>12
<1> QED
  BY <1>7, <1>8, <1>9, <1>a DEF IInv

\* Unsubscribing clears an object that may be anybody's, and at most one object
\* comes back for the topic that goes.
LEMMA UnsubscribeIInv ==
  ASSUME IInv, NEW t \in Topic, Unsubscribe(t) PROVE IInv'
<1>1. /\ overrun = NONE /\ sub_id[t] # NONE
      /\ msgs' = [o \in Object |-> IF o = t THEN [topic |-> NONE, fifo |-> FALSE] ELSE msgs[o]]
      /\ overrun' = IF t >= OBJECTS THEN "unsubscribe" ELSE NONE
      /\ current_id' = IF current_id = t THEN current_id - 1 ELSE current_id
      /\ sub_id' = [sub_id EXCEPT ![t] = NONE]
      /\ unsubscribed' = TRUE
      /\ UNCHANGED <<subs, frame, arrived, refilled, read>>
  BY DEF Unsubscribe, UnsubscribeCan, ghosts
<1>2. /\ current_id \in START .. OBJECTS /\ Cardinality(Subscribed) \in Nat
      /\ START + Cardinality(Subscribed) <= current_id
      /\ current_id <= START + subs * QUEUE
  BY <1>1, TopicsFinite, Consts DEF IInv, TypeOK, PointerMoves, Overruns
<1>3. /\ Subscribed' = Subscribed \ {t}
      /\ t \in Subscribed
      /\ Cardinality(Subscribed') = Cardinality(Subscribed) - 1
  <2>1. Subscribed' = Subscribed \ {t} /\ t \in Subscribed
    BY <1>1 DEF Subscribed, IInv, TypeOK
  <2> QED
    BY <2>1, TopicsFinite, FS_RemoveElement
<1>4. Cardinality(Subscribed) > 0
  <2>1. Cardinality(Subscribed) # 0
    BY <1>3, TopicsFinite, FS_EmptySet
  <2> QED
    BY <1>2, <2>1
<1>5. TypeOK'
  <2>1. msgs' \in [Object -> [topic : Topic \cup {NONE}, fifo : BOOLEAN]]
    BY <1>1, Consts DEF IInv, TypeOK
  <2>2. current_id' \in START .. OBJECTS + QUEUE
    BY <1>1, <1>2, <1>4, Consts
  <2>3. sub_id' \in [Topic -> Object \cup {NONE}]
    BY <1>1 DEF IInv, TypeOK
  <2> QED
    BY <1>1, <2>1, <2>2, <2>3 DEF IInv, TypeOK
<1>6. PointerMoves'
  <2> DEFINE s == subs * QUEUE
  <2>1. s \in Nat
    BY Consts DEF IInv, TypeOK
  <2>2. current_id <= START + s
    BY <1>2
  <2> HIDE DEF s
  <2>3. current_id' <= START + s /\ START + Cardinality(Subscribed') <= current_id'
    BY <1>1, <1>2, <1>3, <2>1, <2>2, Consts
  <2> QED
    BY <1>1, <2>3 DEF s, PointerMoves
<1>7. Overruns'
  BY <1>1, <1>2, <1>4, Consts DEF Overruns
<1> QED
  BY <1>1, <1>5, <1>6, <1>7 DEF IInv

LEMMA StutterIInv == IInv /\ UNCHANGED vars => IInv'
BY DEF vars, table, ghosts, IInv, TypeOK, PointerMoves, Overruns, Subscribed, Layout, Chained,
       Numbered, FrontFilled, InOrder, Queue, Holding

----------------------------------------------------------------------------
(* The theorems. *)

\* Every reachable state satisfies the invariant.
LEMMA Invariance == Spec => []IInv
<1>1. Init => IInv
  BY InitIInv
<1>2. IInv /\ [Next]_vars => IInv'
  BY ArriveIInv, InterruptIInv, SubscribeIInv, UnsubscribeIInv, StutterIInv DEF Next
<1> QED
  BY <1>1, <1>2, PTL DEF Spec

\* The table and the bump pointer keep their types and ranges, whatever topics of
\* seven-bit ids are subscribed and unsubscribed, until a call has written past the
\* table.
THEOREM Typing == Spec => []TypeOK
<1>1. IInv => TypeOK
  BY DEF IInv
<1> QED
  BY <1>1, Invariance, PTL

\* Until something is unsubscribed, no two subscriptions share an object; and no
\* subscription writes past the table while the objects of all that were ever made
\* fit, nor an unsubscribe unless a topic's id is no object's.
THEOREM ObjectsAreOwned == Spec => []SubscriptionsApart
<1>1. IInv => SubscriptionsApart
  <2> SUFFICES ASSUME IInv PROVE SubscriptionsApart
    OBVIOUS
  <2>1. ASSUME ~unsubscribed, overrun = NONE, NEW t \in Topic
        PROVE  {o \in Object : msgs[o].topic = t}
                 = IF sub_id[t] = NONE THEN {} ELSE Queue(t)
    BY <2>1, QueueFacts DEF IInv, Layout, Overruns
  <2> QED
    BY <2>1 DEF IInv, Overruns, SubscriptionsApart
<1> QED
  BY <1>1, Invariance, PTL

\* For any length of queue: while nothing is unsubscribed, a frame is handled
\* before an older one of its topic only after a frame came into an object that
\* had been emptied while others waited.
THEOREM OrderWithoutRefill == Spec => OvertakesOnlyAfterRefill
<1>1. IInv /\ [Next]_vars =>
        [~unsubscribed =>
           \A o \in Object :
             frame[o] # NONE /\ frame'[o] = NONE /\ frame[o][1] \notin refilled =>
               \A p \in Holding(frame[o][1]) : frame[o][2] <= frame[p][2]]_vars
  <2> SUFFICES ASSUME IInv, Next, ~unsubscribed,
                      NEW o \in Object, frame[o] # NONE, frame'[o] = NONE,
                      frame[o][1] \notin refilled, NEW p \in Holding(frame[o][1])
               PROVE  frame[o][2] <= frame[p][2]
    OBVIOUS
  <2>0. overrun = NONE
    BY DEF Next, Interrupt, Arrive, Subscribe, Unsubscribe
  <2>1. TypeOK /\ current_id <= OBJECTS /\ Layout /\ InOrder
    BY <2>0 DEF IInv, Overruns
  <2>2. /\ frame[o][1] \in Topic /\ frame[o][2] \in Int /\ o \in Holding(frame[o][1])
        /\ p \in Object /\ frame[p] # NONE /\ frame[p][2] \in Int
    <3>1. frame[o] \in Topic \X Frame
      BY <2>1 DEF TypeOK
    <3>2. frame[o][1] \in Topic /\ frame[o][2] \in Frame
      BY <3>1
    <3>3. p \in Object /\ frame[p] # NONE
      BY DEF Holding
    <3>4. frame[p] \in Topic \X Frame
      BY <2>1, <3>3 DEF TypeOK
    <3>5. frame[p][2] \in Frame
      BY <3>4
    <3>6. Frame \subseteq Int
      BY Consts DEF Frame
    <3> QED
      BY <3>2, <3>3, <3>5, <3>6 DEF Holding
  <2>3. CASE Interrupt
    <3>1. PICK q \in Object : /\ IsLowest(q, {r \in Object : frame[r] # NONE})
                              /\ frame' = [frame EXCEPT ![q] = NONE]
      BY <2>3 DEF Interrupt, IntStatus
    <3>2. q = o
      BY <2>1, <3>1 DEF TypeOK
    <3>3. o <= p
      BY <2>2, <3>1, <3>2 DEF IsLowest
    <3>4. CASE o = p
      BY <2>2, <3>4
    <3>5. CASE o < p
      BY <2>1, <2>2, <3>5 DEF InOrder
    <3> QED
      BY <2>2, <3>3, <3>4, <3>5, Consts DEF Object
  <2>4. ASSUME NEW t \in Topic, Arrive(t) PROVE FALSE
    <3>1. arrived[t] + 1 \in Frame
      BY <2>4, Consts DEF Arrive, IInv, TypeOK, Frame
    <3>2. <<t, arrived[t] + 1>> # NONE
      BY <3>1, Consts
    <3> QED
      BY <2>4, <3>2 DEF Arrive
  <2>5. ASSUME NEW t \in Topic, Subscribe(t) PROVE FALSE
    <3>1. o \in current_id .. current_id + QUEUE - 1
      BY <2>5 DEF Subscribe
    <3>2. o \in Queue(frame[o][1]) /\ sub_id[frame[o][1]] + QUEUE <= current_id
          /\ sub_id[frame[o][1]] \in Int
      BY <2>1, <2>2, QueueFacts DEF Layout, TypeOK, Object
    <3> QED
      BY <2>1, <3>1, <3>2, Consts DEF Queue, TypeOK
  <2>6. ASSUME NEW t \in Topic, Unsubscribe(t) PROVE FALSE
    BY <2>6 DEF Unsubscribe
  <2> QED
    BY <2>3, <2>4, <2>5, <2>6 DEF Next
<1> QED
  BY <1>1, Invariance, PTL DEF Spec, OvertakesOnlyAfterRefill

\* Where a frame of a subscribed topic goes: into the first empty object of the
\* queue, or over the last one when none is empty.
LEMMA WhereItGoes ==
  ASSUME IInv, ~unsubscribed, NEW t \in Topic, sub_id[t] # NONE, Arrive(t)
  PROVE  \E o \in Queue(t) :
           /\ o \in Object /\ frame'[o] = <<t, arrived'[t]>>
           /\ \A p \in Object \ {o} : frame'[p] = frame[p]
           /\ frame[o] = NONE \/ \A p \in Queue(t) : p \in Object /\ frame[p] # NONE
<1> DEFINE takes == {o \in Object : msgs[o].topic = t /\ (frame[o] = NONE \/ ~msgs[o].fifo)}
           last == sub_id[t] + QUEUE - 1
<1>1. TypeOK /\ current_id <= OBJECTS /\ Layout /\ Chained
  BY DEF Arrive, IInv, Overruns
<1>2. /\ arrived'[t] = arrived[t] + 1
      /\ frame' = [o \in Object |-> IF IsLowest(o, takes) THEN <<t, arrived[t] + 1>> ELSE frame[o]]
  BY <1>1 DEF Arrive, TypeOK
<1>3. Queue(t) \subseteq Object /\ sub_id[t] \in Int /\ Object \subseteq Nat
  BY <1>1, QueueFacts DEF TypeOK, Object
<1>4. last \in Queue(t)
  BY <1>3, Consts DEF Queue
<1>5. \A o \in Object : o \in takes <=> o \in Queue(t) /\ (frame[o] = NONE \/ o = last)
  <2> SUFFICES ASSUME NEW o \in Object
               PROVE  o \in takes <=> o \in Queue(t) /\ (frame[o] = NONE \/ o = last)
    OBVIOUS
  <2>1. msgs[o].topic = t <=> o \in Queue(t)
    BY <1>1 DEF Layout
  <2>2. o \in Queue(t) => (msgs[o].fifo <=> o # last)
    BY <1>1 DEF Chained
  <2> QED
    BY <2>1, <2>2
<1>6. takes \subseteq Object
  OBVIOUS
<1> HIDE DEF takes, last
<1>7. PICK o \in takes : \A p \in takes : o <= p
  <2>1. takes \in SUBSET Nat /\ takes # {}
    BY <1>3, <1>4, <1>5, <1>6
  <2> QED
    BY <2>1, LeastNat
<1>8. IsLowest(o, takes) /\ \A p \in Object \ {o} : ~IsLowest(p, takes)
  BY <1>3, <1>6, <1>7 DEF IsLowest
<1>9. frame'[o] = <<t, arrived'[t]>> /\ \A p \in Object \ {o} : frame'[p] = frame[p]
  BY <1>2, <1>6, <1>8
<1>10. ASSUME frame[o] # NONE, NEW p \in Queue(t) PROVE frame[p] # NONE
  <2>1. o = last /\ p \in Object
    BY <1>3, <1>5, <1>6, <1>7, <1>10
  <2>2. p <= last
    BY <1>3, <1>10, Consts DEF Queue, last
  <2> QED
    BY <1>3, <1>4, <1>5, <1>7, <1>10, <2>1, <2>2
<1> QED
  BY <1>3, <1>5, <1>6, <1>9, <1>10

\* For any topics and any length of queue: while nothing is unsubscribed, a frame
\* of a subscribed topic takes a place that was empty, or replaces one of the
\* same topic when every object of the subscription is filled.
THEOREM LossNeedsAFullQueue == Spec => LostOnlyWhenFull
<1>1. IInv /\ [Next]_vars =>
        [~unsubscribed =>
           \A t \in Topic :
             sub_id[t] # NONE /\ arrived'[t] # arrived[t] =>
               \/ Cardinality(Holding(t)') = Cardinality(Holding(t)) + 1
               \/ Cardinality(Holding(t)) = QUEUE
                  /\ <<t, arrived'[t]>> \in {frame'[o] : o \in Queue(t)}]_vars
  <2> SUFFICES ASSUME IInv, Next, ~unsubscribed,
                      NEW t \in Topic, sub_id[t] # NONE, arrived'[t] # arrived[t]
               PROVE  \/ Cardinality(Holding(t)') = Cardinality(Holding(t)) + 1
                      \/ Cardinality(Holding(t)) = QUEUE
                         /\ <<t, arrived'[t]>> \in {frame'[o] : o \in Queue(t)}
    OBVIOUS
  <2>0. overrun = NONE
    BY DEF Next, Interrupt, Arrive, Subscribe, Unsubscribe
  <2>1. TypeOK /\ current_id <= OBJECTS /\ Layout
    BY <2>0 DEF IInv, Overruns
  <2>2. Arrive(t)
    <3>1. ASSUME NEW u \in Topic, Arrive(u) PROVE u = t
      BY <2>1, <3>1 DEF Arrive, TypeOK
    <3>2. ~Interrupt /\ \A u \in Topic : ~Subscribe(u) /\ ~Unsubscribe(u)
      BY DEF Interrupt, Subscribe, Unsubscribe
    <3> QED
      BY <3>1, <3>2 DEF Next
  <2>3. PICK o \in Queue(t) :
           /\ o \in Object /\ frame'[o] = <<t, arrived'[t]>>
           /\ \A p \in Object \ {o} : frame'[p] = frame[p]
           /\ frame[o] = NONE \/ \A p \in Queue(t) : p \in Object /\ frame[p] # NONE
    BY <2>2, WhereItGoes
  <2>4. IsFiniteSet(Holding(t)) /\ Cardinality(Holding(t)) \in Nat
    <3>1. Holding(t) \in SUBSET (1 .. OBJECTS)
      BY DEF Holding, Object
    <3>2. IsFiniteSet(1 .. OBJECTS)
      BY Consts, FS_Interval
    <3> QED
      BY <3>1, <3>2, FS_Subset, FS_CardinalityType
  <2>5. CASE frame[o] = NONE
    <3>1. <<t, arrived'[t]>> # NONE
      <4>1. arrived'[t] \in Frame
        BY <2>1, <2>2, Consts DEF Arrive, TypeOK, Frame
      <4> QED
        BY <4>1, Consts
    <3>2. Holding(t)' = Holding(t) \cup {o} /\ o \notin Holding(t)
      BY <2>3, <2>5, <3>1 DEF Holding
    <3> QED
      BY <2>4, <3>2, FS_AddElement
  <2>6. CASE \A p \in Queue(t) : p \in Object /\ frame[p] # NONE
    <3>1. Holding(t) = Queue(t)
      <4>1. \A p \in Holding(t) : p \in Queue(t)
        BY <2>1, QueueFacts
      <4>2. \A p \in Queue(t) : p \in Holding(t)
        BY <2>1, <2>6 DEF Holding, Layout
      <4> QED
        BY <4>1, <4>2
    <3>2. Cardinality(Queue(t)) = QUEUE
      <4> DEFINE z == sub_id[t] + QUEUE - 1
      <4>1. sub_id[t] \in Int /\ z \in Int /\ ~(sub_id[t] > z) /\ z - sub_id[t] + 1 = QUEUE
        BY <2>1, Consts DEF TypeOK, Object
      <4>2. Queue(t) = sub_id[t] .. z
        BY DEF Queue
      <4> HIDE DEF z
      <4> QED
        BY <4>1, <4>2, FS_Interval
    <3> QED
      BY <2>3, <3>1, <3>2
  <2> QED
    BY <2>3, <2>5, <2>6
<1> QED
  BY <1>1, Invariance, PTL DEF Spec, LostOnlyWhenFull
=============================================================================
