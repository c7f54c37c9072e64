----------------------------- MODULE CanObjects -----------------------------
(***************************************************************************)
(* The message objects of the CAN controller and the table in can_impl.cpp *)
(* that hands them out: each subscription takes the next few objects and   *)
(* chains them to a queue, the interrupt handler reads the object the      *)
(* controller names, and unsubscribe passes the topic's id where the       *)
(* object's is expected.                                                   *)
(*                                                                         *)
(* The controller (not part of the repository) stores a frame in the       *)
(* lowest-numbered object that accepts its topic and is empty; an object   *)
(* that does not continue a queue is overwritten.  It names the lowest-    *)
(* numbered object that holds a frame.  Frames of a topic are numbered in  *)
(* the order in which they arrive.                                         *)
(*                                                                         *)
(* Neither a subscription nor an unsubscribe looks whether it writes past  *)
(* the table.  That overwrites other variables of the program, so there    *)
(* the model stops.                                                        *)
(***************************************************************************)
EXTENDS Integers, FiniteSets

CONSTANTS
  Topic,        \* topic ids, as the controlling computer gives them, of 7 bits
  QUEUE,        \* CAN_FIFO_QUEUE_LENGTH
  START,        \* CAN_ID_START
  OBJECTS,      \* NUM_CAN_OBJS, the size of the table
  MaxSubs,      \* bound of the model: subscriptions a module makes
  MaxFrames,    \* bound of the model: frames of a topic
  NONE          \* no topic, no frame, no object

ASSUME ObjectsAssumption ==
  /\ QUEUE \in Nat \ {0} /\ START \in Nat \ {0} /\ OBJECTS \in Nat
  /\ START <= OBJECTS
  /\ MaxSubs \in Nat /\ MaxFrames \in Nat
  /\ Topic \subseteq 0 .. 127
  /\ NONE \notin Int \cup (Int \X Int) \cup {"subscribe", "unsubscribe"}

Object == 1 .. OBJECTS         \* the hardware has as many as the table, from 1
Frame == 1 .. MaxFrames

VARIABLES
  msgs,          \* each object's topic (ui32MsgID) and MSG_OBJ_FIFO flag
  current_id,    \* the next object to hand out
  sub_id,        \* each topic's first object, NONE: not subscribed
  frame,         \* what each object holds: NONE, or a topic and a frame
  arrived,       \* frames of each topic so far
  subs,          \* subscriptions made so far
  overrun,       \* the call that has written past the table, NONE: none has
  refilled,      \* ghost: the topics of which a frame came while one was
                 \* pending and another had been read
  read,          \* ghost: the topics of which a frame was read while another
                 \* stayed pending
  unsubscribed   \* ghost: unsubscribe has been called

table == <<msgs, current_id, sub_id, subs, overrun, unsubscribed>>
ghosts == <<refilled, read>>
vars == <<table, frame, arrived, ghosts>>

TypeOK ==
  /\ msgs \in [Object -> [topic : Topic \cup {NONE}, fifo : BOOLEAN]]
  /\ current_id \in START .. OBJECTS + QUEUE
  /\ sub_id \in [Topic -> Object \cup {NONE}]
  /\ frame \in [Object -> (Topic \X Frame) \cup {NONE}]
  /\ arrived \in [Topic -> 0 .. MaxFrames]
  /\ subs \in 0 .. MaxSubs /\ overrun \in {NONE, "subscribe", "unsubscribe"}
  /\ refilled \in SUBSET Topic /\ read \in SUBSET Topic
  /\ unsubscribed \in BOOLEAN

Init ==
  /\ msgs = [o \in Object |-> [topic |-> NONE, fifo |-> FALSE]]
  /\ current_id = START
  /\ sub_id = [t \in Topic |-> NONE]
  /\ frame = [o \in Object |-> NONE]
  /\ arrived = [t \in Topic |-> 0]
  /\ subs = 0 /\ overrun = NONE
  /\ refilled = {} /\ read = {} /\ unsubscribed = FALSE

----------------------------------------------------------------------------
(* The controller. *)

Holding(t) == {o \in Object : frame[o] # NONE /\ frame[o][1] = t}
IsLowest(o, S) == o \in S /\ \A p \in S : o <= p

\* A frame arrives: the lowest object that takes it, if one does.
Arrive(t) ==
  LET takes == {o \in Object : msgs[o].topic = t /\ (frame[o] = NONE \/ ~msgs[o].fifo)}
  IN  /\ overrun = NONE /\ arrived[t] < MaxFrames
      /\ arrived' = [arrived EXCEPT ![t] = @ + 1]
      /\ frame' = [o \in Object |-> IF IsLowest(o, takes)
                                    THEN <<t, arrived[t] + 1>> ELSE frame[o]]
      /\ refilled' = IF t \in read THEN refilled \cup {t} ELSE refilled
      /\ UNCHANGED <<table, read>>

----------------------------------------------------------------------------
(* can_impl.cpp *)

\* A plausible bug: the handler asks for the object that was filled last.
IsHighest(o, S) == o \in S /\ \A p \in S : o >= p

\* CANIntStatus: the object the controller names.
IntStatus(o, S) == IsLowest(o, S)

\* A plausible bug: the handler takes the last object for a spurious interrupt.
HandlesButLast(o) == o < OBJECTS - 1

\* The handler's test of the object.
Handles(o) == o < OBJECTS

\* ros_can_interupt_handler reads one object and empties it; the frame goes on
\* to the ring.  Another interrupt it does nothing about.
Interrupt ==
  \E o \in Object :
    LET t == frame[o][1]
    IN  /\ overrun = NONE
        /\ IntStatus(o, {p \in Object : frame[p] # NONE}) /\ Handles(o)
        /\ frame' = [frame EXCEPT ![o] = NONE]
        /\ IF Holding(t) = {o}
           THEN read' = read \ {t} /\ refilled' = refilled \ {t}
           ELSE read' = read \cup {t} /\ UNCHANGED refilled
        /\ UNCHANGED <<table, arrived>>

\* A plausible bug: no object says that the queue goes on.
ChainsNone(i) == FALSE

\* MSG_OBJ_FIFO: all but the last object of a queue.
Chains(i) == i < QUEUE - 1

\* A plausible bug: the bump pointer is moved in the loop and after it.
NextIdTwice == current_id + 2 * QUEUE

\* A plausible bug: the loop leaves the pointer at the object it took last.
NextIdShort == current_id + QUEUE - 1

\* current_id after the loop.
NextId == current_id + QUEUE

\* subscribe_can: the next QUEUE objects accept the topic and are empty.  The table
\* ends at OBJECTS - 1.
Subscribe(t) ==
  LET taken == current_id .. current_id + QUEUE - 1
  IN  /\ overrun = NONE /\ subs < MaxSubs /\ sub_id[t] = NONE
      /\ subs' = subs + 1
      /\ sub_id' = [sub_id EXCEPT ![t] = current_id]
      /\ msgs' = [o \in Object |->
           IF o \in taken THEN [topic |-> t, fifo |-> Chains(o - current_id)] ELSE msgs[o]]
      /\ frame' = [o \in Object |-> IF o \in taken THEN NONE ELSE frame[o]]
      /\ current_id' = NextId
      /\ overrun' = IF current_id + QUEUE > OBJECTS THEN "subscribe" ELSE NONE
      /\ UNCHANGED <<arrived, ghosts, unsubscribed>>

\* unsubscribe_can clears one object, and takes the bump pointer back if it
\* points at that one.
UnsubscribeCan(id) ==
  /\ msgs' = [o \in Object |-> IF o = id THEN [topic |-> NONE, fifo |-> FALSE] ELSE msgs[o]]
  /\ current_id' = IF current_id = id THEN current_id - 1 ELSE current_id
  /\ overrun' = IF id >= OBJECTS THEN "unsubscribe" ELSE NONE

\* Subscriber::unsubscribe hands it the topic's id; the topic 0 counts as none.
Unsubscribe(t) ==
  /\ overrun = NONE /\ sub_id[t] # NONE /\ t # 0
  /\ UnsubscribeCan(t)
  /\ sub_id' = [sub_id EXCEPT ![t] = NONE]
  /\ unsubscribed' = TRUE
  /\ UNCHANGED <<subs, frame, arrived, ghosts>>

Next == Interrupt \/ \E t \in Topic : Arrive(t) \/ Subscribe(t) \/ Unsubscribe(t)

\* The receive lock is released again, and the controller keeps the interrupt
\* asserted while an object holds a frame.
Spec == Init /\ [][Next]_vars /\ WF_vars(Interrupt)

----------------------------------------------------------------------------
(* Properties. *)

Queue(t) == sub_id[t] .. sub_id[t] + QUEUE - 1

\* Until something is unsubscribed, the objects that accept a topic are the ones
\* its subscription was given and no object is given twice.  Nothing is written
\* past the table as long as the objects of all subscriptions ever made fit, as
\* none comes back to be given again, and only topics whose ids are objects' are
\* unsubscribed.
SubscriptionsApart ==
  /\ ~unsubscribed /\ overrun = NONE =>
       \A t \in Topic :
         {o \in Object : msgs[o].topic = t} = IF sub_id[t] = NONE THEN {} ELSE Queue(t)
  /\ overrun = NONE => current_id <= OBJECTS
  /\ overrun = "subscribe" => START + subs * QUEUE > OBJECTS
  /\ overrun = "unsubscribe" => \E t \in Topic : t >= OBJECTS

\* A frame of a subscribed topic is lost, or overwrites another, only when all
\* objects of the subscription hold frames.
LostOnlyWhenFull ==
  [][~unsubscribed =>
       \A t \in Topic :
         sub_id[t] # NONE /\ arrived'[t] # arrived[t] =>
           \/ Cardinality(Holding(t)') = Cardinality(Holding(t)) + 1
           \/ Cardinality(Holding(t)) = QUEUE
              /\ <<t, arrived'[t]>> \in {frame'[o] : o \in Queue(t)}]_vars

\* The handler takes the frames of a topic in the order in which they came,
\* unless one came into an object that had been emptied while another frame was
\* still waiting: only then can a frame overtake.
OvertakesOnlyAfterRefill ==
  [][~unsubscribed =>
       \A o \in Object :
         frame[o] # NONE /\ frame'[o] = NONE /\ frame[o][1] \notin refilled =>
           \A p \in Holding(frame[o][1]) : frame[o][2] <= frame[p][2]]_vars

\* Every frame the controller has stored is handled in the end, and none is
\* left in an object nobody reads, unless a call writes past the table.
AllAreHandled == <>[](overrun = NONE => \A o \in Object : frame[o] = NONE)
=============================================================================
