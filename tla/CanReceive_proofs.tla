------------------------- MODULE CanReceive_proofs -------------------------
(***************************************************************************)
(* What holds of the receive path for every size of the ring, every number *)
(* of message objects and every traffic: the cursors stay where the code   *)
(* expects them although the interrupt moves head too, and no frame is     *)
(* left in the ring behind a task that nobody will wake.                   *)
(*                                                                         *)
(* Both rest on the lock: the interrupt is masked exactly from the load of *)
(* *buffer_head to the computation of more, so inside that stretch the     *)
(* ring is the task's own.  The interrupt's puts and the pops, interleaved *)
(* statement by statement, are then those of a bounded queue, and a pop of *)
(* an empty ring goes once round it at most.                               *)
(***************************************************************************)
EXTENDS CanReceive, MessageBuffer_proofs

Locked == {"load", "dec", "wrap", "more", "unlock"}

\* The interrupt is masked exactly while the task works on the ring.
LockHeld == masked <=> pc \in Locked

\* Between the wrap and the next put, head is in the array or just below it.
HeadInReach ==
  /\ pc # "wrap" => buffer.head >= -1
  /\ pc \in {"more", "unlock"} => buffer.head \in Slot

\* When the task has computed more and still holds the lock, more is accurate.
MoreIsAccurate == pc = "unlock" => (more <=> ~IsEmpty(buffer))

IInv == TypeOK /\ LockHeld /\ HeadInReach /\ MoreIsAccurate /\ NoLostWakeup

USE SizeAssumption, FramesAssumption DEF SizeAssumption, FramesAssumption

LEMMA InitInvariant == Init => IInv
<1> SUFFICES ASSUME Init PROVE IInv
  OBVIOUS
<1>1. /\ buffer = [slots |-> [i \in Slot |-> 0], head |-> Size - 1, tail |-> Size - 1]
      /\ pc = "poll" /\ masked = FALSE
  BY DEF Init, NewBuffer
<1>2. Size - 1 \in Slot /\ Size - 1 \in -2 .. Size - 1 /\ 0 \in Frame
  BY DEF Slot, Frame
<1>3. TypeOK
  <2>1. [i \in Slot |-> 0] \in [Slot -> Frame]
    BY <1>2
  <2>2. buffer \in [slots : [Slot -> Frame], head : -2 .. Size - 1, tail : Slot]
    BY <1>1, <1>2, <2>1
  <2>3. buffer.head # -2
    BY <1>1
  <2>4. objects \in Seq(Frame) /\ Len(objects) <= Objects
    BY DEF Init
  <2>5. /\ booted = "reset" /\ arrived = 0 /\ masked = FALSE /\ event = FALSE
        /\ kernel = "idle" /\ signal = FALSE /\ pc = "poll" /\ msg = 0
        /\ more = FALSE /\ resets = 0 /\ broken = FALSE /\ newest = 0
        /\ replayed = 0
    BY DEF Init
  <2>6. /\ booted \in {"reset", "subscribed", "ready", "published"}
        /\ kernel \in {"idle", "handle"} /\ pc \in Labels
    BY <2>5 DEF Labels
  <2>7. arrived \in Frame /\ msg \in Frame \cup {Outside} /\ newest \in Frame
    BY <1>2, <2>5
  <2>8. /\ masked \in BOOLEAN /\ event \in BOOLEAN /\ signal \in BOOLEAN
        /\ more \in BOOLEAN /\ broken \in BOOLEAN
        /\ resets \in Nat /\ replayed \in Nat
    BY <2>5
  <2> QED
    BY <2>2, <2>3, <2>4, <2>6, <2>7, <2>8, Zenon DEF TypeOK
<1>4. LockHeld /\ HeadInReach /\ MoreIsAccurate
  BY <1>1, <1>2 DEF LockHeld, Locked, HeadInReach, MoreIsAccurate
<1>5. NoLostWakeup
  BY <1>1 DEF NoLostWakeup, IsEmpty
<1> QED
  BY <1>3, <1>4, <1>5 DEF IInv

\* A put by the interrupt keeps head within one element of the array.
LEMMA PutType ==
  ASSUME NEW b \in [slots : [Slot -> Frame], head : -2 .. Size - 1, tail : Slot],
         b.head >= -1, NEW m \in Frame
  PROVE  /\ Put(b, m) \in [slots : [Slot -> Frame], head : -2 .. Size - 1, tail : Slot]
         /\ Put(b, m).head >= -1
<1>1. b.slots \in [Slot -> Frame] /\ b.head \in -2 .. Size - 1 /\ b.tail \in Slot
  OBVIOUS
<1>2. StepDown(b.tail) \in Slot
  BY <1>1 DEF StepDown, Slot
<1>3. [b.slots EXCEPT ![b.tail] = m] \in [Slot -> Frame]
  BY <1>1
<1>4. /\ (IF StepDown(b.tail) = b.head THEN b.head - 1 ELSE b.head) \in -2 .. Size - 1
      /\ (IF StepDown(b.tail) = b.head THEN b.head - 1 ELSE b.head) >= -1
  BY <1>1, <1>2 DEF Slot
<1> QED
  BY <1>2, <1>3, <1>4 DEF Put

\* A step of the controller, the application task or the kernel moves neither
\* the ring nor the task beyond a wake-up.
LEMMA OutsideStep ==
  ASSUME IInv, Arrive \/ MainTask \/ Kernel
  PROVE  IInv'
<1>1. CASE Arrive
  <2>1. arrived + 1 \in Frame
    BY <1>1 DEF Arrive, IInv, TypeOK, Frame
  <2>2. objects' \in Seq(Frame) /\ Len(objects') <= Objects
    BY <1>1, <2>1 DEF Arrive, IInv, TypeOK
  <2>3. TypeOK'
    BY <1>1, <2>1, <2>2 DEF Arrive, IInv, TypeOK, ghosts
  <2> QED
    BY <1>1, <2>3 DEF Arrive, IInv, LockHeld, HeadInReach, MoreIsAccurate,
                      NoLostWakeup, IsEmpty, Awake, ghosts
<1>2. CASE MainTask
  <2>1. TypeOK'
    BY <1>2 DEF MainTask, Subscribe, Ready, PublishHandle, IInv, TypeOK, hardware, ghosts
  <2> QED
    BY <1>2, <2>1 DEF MainTask, Subscribe, Ready, PublishHandle, IInv, LockHeld,
                      HeadInReach, MoreIsAccurate, NoLostWakeup, IsEmpty, Awake
<1>3. CASE ClearEvent
  <2>1. TypeOK'
    BY <1>3 DEF ClearEvent, IInv, TypeOK, hardware, ghosts
  <2> QED
    BY <1>3, <2>1 DEF ClearEvent, IInv, LockHeld, HeadInReach, MoreIsAccurate,
                      NoLostWakeup, IsEmpty, Awake
<1>4. CASE HandleEvent
  <2>1. pc' \in Labels /\ (pc' = pc \/ (pc = "blocked" /\ pc' = "recv"))
    BY <1>4 DEF HandleEvent, IInv, TypeOK, Labels
  <2>2. TypeOK'
    BY <1>4, <2>1 DEF HandleEvent, IInv, TypeOK, hardware, ghosts
  <2> QED
    BY <1>4, <2>1, <2>2 DEF HandleEvent, IInv, LockHeld, Locked, HeadInReach,
                       MoreIsAccurate, NoLostWakeup, IsEmpty, Awake
<1> QED
  BY <1>1, <1>2, <1>3, <1>4 DEF Kernel

\* The interrupt puts a frame only while the task does not hold the lock, and
\* leaves an event behind.
LEMMA InterruptStep ==
  ASSUME IInv, Interrupt
  PROVE  IInv'
<1> DEFINE m == Head(objects)
<1>1. /\ m \in Frame /\ objects' \in Seq(Frame) /\ Len(objects') <= Objects
      /\ ~masked /\ UNCHANGED <<pc, masked, kernel, signal, msg, more>>
  BY DEF Interrupt, IInv, TypeOK
<1>2. pc \notin Locked
  BY <1>1 DEF IInv, LockHeld
<1>3. buffer \in [slots : [Slot -> Frame], head : -2 .. Size - 1, tail : Slot]
      /\ buffer.head >= -1
  BY <1>2 DEF IInv, TypeOK, HeadInReach, Locked
<1>4. CASE NodeHandleReady
  <2>1. buffer' = Put(buffer, m) /\ event' = TRUE /\ broken' \in BOOLEAN
    BY <1>4 DEF Interrupt, IInv, TypeOK
  <2>2. /\ buffer' \in [slots : [Slot -> Frame], head : -2 .. Size - 1, tail : Slot]
        /\ buffer'.head >= -1
    BY <1>1, <1>3, <2>1, PutType
  <2>3. TypeOK'
    BY <1>1, <2>1, <2>2 DEF Interrupt, IInv, TypeOK
  <2>4. LockHeld' /\ HeadInReach' /\ MoreIsAccurate' /\ NoLostWakeup'
    BY <1>1, <1>2, <2>1, <2>2 DEF IInv, LockHeld, Locked, HeadInReach,
       MoreIsAccurate, NoLostWakeup, Awake
  <2> QED
    BY <2>3, <2>4 DEF IInv
<1>5. CASE ~NodeHandleReady
  <2>1. TypeOK'
    BY <1>1, <1>5 DEF Interrupt, IInv, TypeOK
  <2> QED
    BY <1>1, <1>5, <2>1 DEF Interrupt, IInv, LockHeld, HeadInReach, MoreIsAccurate,
                       NoLostWakeup, IsEmpty, Awake
<1> QED
  BY <1>4, <1>5

\* The steps of the task before it holds the lock and after it computed more.
LEMMA WaitingStep ==
  ASSUME IInv,
         EnterLoop \/ WaitPending \/ WaitBlock \/ Receive \/ Lock \/ Unlock \/ Dispatch
  PROVE  IInv'
<1>1. UNCHANGED <<booted, arrived, objects, buffer, event, kernel, msg, more,
                  resets, broken, newest>>
  BY DEF EnterLoop, WaitPending, WaitBlock, Receive, Lock, Unlock, Dispatch,
         hardware, ghosts
<1>2. /\ pc \notin {"load", "dec", "wrap", "more"} /\ pc' \in Labels
      /\ pc' \notin {"dec", "wrap", "more", "unlock"}
  BY DEF EnterLoop, WaitPending, WaitBlock, Receive, Lock, Unlock, Dispatch,
         Step, Labels
<1>3. masked' \in BOOLEAN /\ signal' \in BOOLEAN /\ replayed' \in Nat
  <2>1. masked \in BOOLEAN /\ signal \in BOOLEAN /\ replayed \in Nat
    BY DEF IInv, TypeOK
  <2>2. /\ masked' = masked \/ masked' = TRUE \/ masked' = FALSE
        /\ signal' = signal \/ signal' = FALSE
        /\ replayed' = replayed \/ replayed' = 0
    BY DEF EnterLoop, WaitPending, WaitBlock, Receive, Lock, Unlock, Dispatch,
           ghosts
  <2>3. replayed' \in Nat
    BY <2>1, <2>2
  <2>4. masked' \in BOOLEAN
    BY <2>1, <2>2, Zenon
  <2>5. signal' \in BOOLEAN
    BY <2>1, <2>2, Zenon
  <2> QED
    BY <2>3, <2>4, <2>5
<1>4. TypeOK'
  BY <1>1, <1>2, <1>3 DEF IInv, TypeOK
<1>5. LockHeld' /\ NoLostWakeup'
  <2>1. CASE EnterLoop
    BY <1>1, <2>1 DEF EnterLoop, Step, IInv, TypeOK, LockHeld, Locked, NoLostWakeup,
           IsEmpty, Awake
  <2>2. CASE WaitPending
    BY <1>1, <2>2 DEF WaitPending, Step, IInv, TypeOK, LockHeld, Locked, NoLostWakeup,
           IsEmpty, Awake
  <2>3. CASE WaitBlock
    BY <1>1, <2>3 DEF WaitBlock, Step, IInv, TypeOK, LockHeld, Locked, NoLostWakeup,
           IsEmpty, Awake
  <2>4. CASE Receive
    BY <1>1, <2>4 DEF Receive, Step, IInv, TypeOK, LockHeld, Locked, NoLostWakeup,
           IsEmpty, Awake
  <2>5. CASE Lock
    BY <1>1, <2>5 DEF Lock, Step, IInv, TypeOK, LockHeld, Locked, NoLostWakeup,
           IsEmpty, Awake
  <2>6. CASE Unlock
    BY <1>1, <2>6 DEF Unlock, Step, IInv, TypeOK, LockHeld, Locked, NoLostWakeup, MoreIsAccurate,
           IsEmpty, Awake
  <2>7. CASE Dispatch
    BY <1>1, <2>7 DEF Dispatch, IInv, TypeOK, LockHeld, Locked, NoLostWakeup,
           IsEmpty, Awake
  <2> QED
    BY <2>1, <2>2, <2>3, <2>4, <2>5, <2>6, <2>7
<1>6. HeadInReach' /\ MoreIsAccurate'
  BY <1>1, <1>2 DEF IInv, HeadInReach, MoreIsAccurate
<1> QED
  BY <1>4, <1>5, <1>6 DEF IInv

\* The statements of pop, which the interrupt cannot interrupt.
LEMMA PopStep ==
  ASSUME IInv, Load \/ Decrement \/ Wrap \/ More
  PROVE  IInv'
<1>1. /\ buffer.slots \in [Slot -> Frame] /\ buffer.head \in -2 .. Size - 1
      /\ buffer.tail \in Slot
  BY DEF IInv, TypeOK
<1>2. masked' = masked /\ pc \in Locked /\ pc' \in Locked \ {"load"} /\ pc' \in Labels
  BY DEF Load, Decrement, Wrap, More, Step, Locked, Labels
<1>3. LockHeld' /\ NoLostWakeup'
  BY <1>2 DEF IInv, LockHeld, NoLostWakeup, Locked
<1>4. CASE Load
  <2>1. msg' \in Frame \cup {Outside}
    BY <1>1, <1>4 DEF Load, ReadHead
  <2>2. newest' \in Frame /\ replayed' \in Nat /\ broken' \in BOOLEAN
    BY <1>1, <1>4 DEF Load, ReadHead, IInv, TypeOK
  <2>3. TypeOK'
    BY <1>2, <1>4, <2>1, <2>2 DEF Load, IInv, TypeOK, hardware, Step
  <2> QED
    BY <1>3, <1>4, <2>3 DEF Load, IInv, HeadInReach, MoreIsAccurate, Step
<1>5. CASE Decrement
  <2>1. /\ buffer' = [buffer EXCEPT !.head = buffer.head - 1] /\ pc = "dec"
        /\ pc' = "wrap"
    BY <1>5 DEF Decrement, Step
  <2>2. buffer.head >= -1
    BY <2>1 DEF IInv, HeadInReach
  <2>3. buffer.head - 1 \in -2 .. Size - 1
    BY <1>1, <2>2
  <2>4. buffer' \in [slots : [Slot -> Frame], head : -2 .. Size - 1, tail : Slot]
    BY <2>1, <2>3 DEF IInv, TypeOK
  <2>5. TypeOK'
    BY <1>2, <1>5, <2>1, <2>4 DEF Decrement, IInv, TypeOK, hardware, ghosts
  <2> QED
    BY <1>3, <2>1, <2>5 DEF IInv, HeadInReach, MoreIsAccurate
<1>6. CASE Wrap
  <2> DEFINE h == IF buffer.head < 0 THEN Size - 1 ELSE buffer.head
  <2>1. buffer' = [buffer EXCEPT !.head = h] /\ pc' = "more"
    BY <1>6 DEF Wrap, Step
  <2>2. h \in Slot /\ h \in -2 .. Size - 1 /\ h >= -1
    BY <1>1 DEF Slot
  <2>3. /\ buffer' \in [slots : [Slot -> Frame], head : -2 .. Size - 1, tail : Slot]
        /\ buffer'.head = h
    BY <2>1, <2>2 DEF IInv, TypeOK
  <2>4. TypeOK'
    BY <1>2, <1>6, <2>1, <2>2, <2>3 DEF Wrap, IInv, TypeOK, hardware, ghosts
  <2> QED
    BY <1>3, <2>1, <2>2, <2>3, <2>4 DEF IInv, HeadInReach, MoreIsAccurate
<1>7. CASE More
  <2>1. UNCHANGED buffer /\ more' = ~IsEmpty(buffer) /\ pc = "more" /\ pc' = "unlock"
    BY <1>7 DEF More, Step
  <2>2. TypeOK'
    BY <1>2, <1>7, <2>1 DEF More, IInv, TypeOK, hardware, ghosts, IsEmpty
  <2> QED
    BY <1>3, <2>1, <2>2 DEF IInv, HeadInReach, MoreIsAccurate, IsEmpty
<1> QED
  BY <1>4, <1>5, <1>6, <1>7

\* A reset starts from a fresh, empty ring, whatever its memory holds.
LEMMA ResetStep ==
  ASSUME IInv, DispatchReset
  PROVE  IInv'
<1>1. PICK memory \in {buffer.slots, [i \in Slot |-> 0]} : buffer' = NewBuffer(memory)
  BY DEF DispatchReset
<1>2. memory \in [Slot -> Frame]
  BY DEF IInv, TypeOK, Frame
<1>3. buffer' = [slots |-> memory, head |-> Size - 1, tail |-> Size - 1]
  BY <1>1 DEF NewBuffer
<1>4. Size - 1 \in Slot /\ Size - 1 \in -2 .. Size - 1 /\ Size - 1 >= -1 /\ 0 \in Frame
  BY DEF Slot, Frame
<1>5. /\ buffer' \in [slots : [Slot -> Frame], head : -2 .. Size - 1, tail : Slot]
      /\ buffer'.head = Size - 1 /\ buffer'.tail = Size - 1
  BY <1>2, <1>3, <1>4
<1>6. /\ booted' = "reset" /\ objects' = <<>> /\ masked' = FALSE /\ event' = FALSE
      /\ signal' = FALSE /\ pc' = "poll" /\ msg' = 0 /\ more' = FALSE
      /\ resets' = resets + 1 /\ broken' = FALSE
      /\ UNCHANGED <<arrived, kernel, newest, replayed>>
  BY DEF DispatchReset
<1>7. objects' \in Seq(Frame) /\ Len(objects') <= Objects
  BY <1>6
<1>8. TypeOK'
  <2>1. /\ arrived \in Frame /\ kernel \in {"idle", "handle"} /\ newest \in Frame
        /\ replayed \in Nat /\ resets + 1 \in Nat
    BY DEF IInv, TypeOK
  <2>2. buffer'.head # -2
    BY <1>4, <1>5
  <2> QED
    BY <1>4, <1>5, <1>6, <1>7, <2>1, <2>2 DEF TypeOK, Labels
<1>9. LockHeld' /\ HeadInReach' /\ MoreIsAccurate'
  BY <1>4, <1>5, <1>6 DEF LockHeld, Locked, HeadInReach, MoreIsAccurate
<1>10. NoLostWakeup'
  BY <1>5, <1>6 DEF NoLostWakeup, IsEmpty
<1> QED
  BY <1>8, <1>9, <1>10 DEF IInv

\* The invariant is inductive.
LEMMA NextInvariant == IInv /\ [Next]_vars => IInv'
<1> SUFFICES ASSUME IInv, [Next]_vars PROVE IInv'
  OBVIOUS
<1>1. CASE Arrive \/ MainTask \/ Kernel
  BY <1>1, OutsideStep
<1>2. CASE Interrupt
  BY <1>2, InterruptStep
<1>3. CASE EnterLoop \/ WaitPending \/ WaitBlock \/ Receive \/ Lock \/ Unlock \/ Dispatch
  BY <1>3, WaitingStep
<1>4. CASE Load \/ Decrement \/ Wrap \/ More
  BY <1>4, PopStep
<1>5. CASE DispatchReset
  BY <1>5, ResetStep
<1>6. CASE UNCHANGED vars
  <2>1. TypeOK'
    BY <1>6 DEF vars, hardware, ghosts, IInv, TypeOK
  <2> QED
    BY <1>6, <2>1 DEF vars, IInv, LockHeld, HeadInReach, MoreIsAccurate, NoLostWakeup,
                      IsEmpty, Awake
<1> QED
  BY <1>1, <1>2, <1>3, <1>4, <1>5, <1>6 DEF Next, CanWaitTask

LEMMA Invariant == Spec => []IInv
BY InitInvariant, NextInvariant, PTL DEF Spec

\* The receive ring's cursors keep their ranges although the interrupt's put
\* moves head under the task's feet: tail never leaves the array, so no frame is
\* ever stored outside it, and head is at most one element below it between two
\* pops and two within one.
THEOREM Typing == Spec => []TypeOK
<1>1. IInv => TypeOK
  BY DEF IInv
<1> QED
  BY <1>1, Invariant, PTL

\* run_handle_message_loop never goes to sleep, and never stays asleep, on a ring
\* with a frame in it unless an event or a signal is on its way to wake it.
THEOREM WakeupKept == Spec => []NoLostWakeup
<1>1. IInv => NoLostWakeup
  BY DEF IInv
<1> QED
  BY <1>1, Invariant, PTL

----------------------------------------------------------------------------
(* The ring implements the bounded queue. *)

\* Until the ring has been popped empty or head has left the array, head is in
\* the array except between a decrement and its wrap.
RingHolds ==
  /\ objects \in Seq(1 .. MaxFrames)
  /\ ~broken => buffer.head >= 0 \/ (pc = "wrap" /\ buffer.head = -1)

LEMMA InitHolds == Init => RingHolds
BY DEF Init, NewBuffer, RingHolds

\* What happens to the objects when a frame arrives keeps them what they are.
LEMMA SeqKept ==
  ASSUME NEW S, NEW q \in Seq(S), NEW m \in S, Len(q) <= Objects
  PROVE  (IF Len(q) < Objects THEN Append(q, m) ELSE [q EXCEPT ![Objects] = m])
           \in Seq(S)
OBVIOUS

\* The objects' frames are numbered from 1.
LEMMA ObjectsHold ==
  ASSUME IInv, RingHolds, [Next]_vars
  PROVE  objects' \in Seq(1 .. MaxFrames)
<1>1. CASE Arrive
  <2>1. arrived + 1 \in 1 .. MaxFrames
    BY <1>1 DEF Arrive, IInv, TypeOK, Frame
  <2>2. Len(objects) <= Objects
    BY DEF IInv, TypeOK
  <2> QED
    BY <1>1, <2>1, <2>2, SeqKept DEF Arrive, RingHolds
<1>2. CASE Interrupt
  BY <1>2 DEF Interrupt, RingHolds
<1>3. CASE DispatchReset
  BY <1>3 DEF DispatchReset
<1>4. CASE UNCHANGED objects
  BY <1>4 DEF RingHolds
<1>5. CASE MainTask \/ Kernel
  BY <1>4, <1>5 DEF MainTask, Subscribe, Ready, PublishHandle, Kernel, ClearEvent,
                    HandleEvent, hardware
<1>6. CASE CanWaitTask
  <2>1. CASE EnterLoop \/ WaitPending \/ WaitBlock \/ Receive \/ Lock \/ Unlock \/ Dispatch
    BY <1>4, <2>1 DEF EnterLoop, WaitPending, WaitBlock, Receive, Lock, Unlock,
                      Dispatch, hardware
  <2>2. CASE Load \/ Decrement \/ Wrap \/ More
    BY <1>4, <2>2 DEF Load, Decrement, Wrap, More, hardware
  <2> QED
    BY <1>3, <1>6, <2>1, <2>2 DEF CanWaitTask
<1>7. CASE UNCHANGED vars
  BY <1>4, <1>7 DEF vars, hardware
<1> QED
  BY <1>1, <1>2, <1>5, <1>6, <1>7 DEF Next

\* A step of anybody that leaves the ring and the pop alone is none of the queue's.
Aside ==
  /\ UNCHANGED <<buffer, msg, resets, broken>>
  /\ (pc = "dec" <=> pc' = "dec") /\ (pc = "wrap" <=> pc' = "wrap")

LEMMA StepsAside ==
  ASSUME \/ Arrive \/ MainTask \/ Kernel
         \/ EnterLoop \/ WaitPending \/ WaitBlock \/ Receive
         \/ Lock \/ More \/ Unlock \/ Dispatch
         \/ UNCHANGED vars
  PROVE  Aside
<1>1. CASE Arrive \/ MainTask
  BY <1>1 DEF Arrive, MainTask, Subscribe, Ready, PublishHandle, ghosts, Aside
<1>2. CASE Kernel
  BY <1>2 DEF Kernel, ClearEvent, HandleEvent, ghosts, Aside
<1>3. CASE EnterLoop \/ WaitPending \/ WaitBlock \/ Receive
  BY <1>3 DEF EnterLoop, WaitPending, WaitBlock, Receive, Step, ghosts, Aside
<1>4. CASE Lock \/ More \/ Unlock \/ Dispatch
  BY <1>4 DEF Lock, More, Unlock, Dispatch, Step, ghosts, Aside
<1>5. CASE UNCHANGED vars
  BY <1>5 DEF vars, ghosts, Aside
<1> QED
  BY <1>1, <1>2, <1>3, <1>4, <1>5

LEMMA AsideRefines ==
  ASSUME RingHolds, Aside, objects' \in Seq(1 .. MaxFrames)
  PROVE  RingHolds' /\ UNCHANGED Fifo!vars
BY DEF RingHolds, Aside, Reader, Fifo!vars

\* The interrupt comes when the task is not at work on the ring, and puts.
LEMMA InterruptRefines ==
  ASSUME IInv, RingHolds, Interrupt, objects' \in Seq(1 .. MaxFrames)
  PROVE  RingHolds' /\ (Fifo!PutMessage \/ Fifo!Break \/ UNCHANGED Fifo!vars)
<1> DEFINE m == Head(objects)
<1>1. /\ ~masked /\ pc' = pc /\ msg' = msg /\ resets' = resets
      /\ m \in 1 .. MaxFrames /\ m \in Frame
  BY DEF Interrupt, RingHolds, Frame
<1>2. pc \notin {"dec", "wrap"}
  BY <1>1 DEF IInv, LockHeld, Locked
<1>3. CASE UNCHANGED <<buffer, event, broken>>
  <2>1. Aside
    BY <1>1, <1>3 DEF Aside
  <2> QED
    BY <2>1, AsideRefines
<1>4. CASE buffer' = Put(buffer, m) /\ (broken' <=> broken \/ Put(buffer, m).head < 0)
            /\ broken' \in BOOLEAN
  <2>1. /\ buffer.slots \in [Slot -> Frame] /\ buffer.tail \in Slot
        /\ buffer.head \in -2 .. Size - 1
        /\ buffer \in [slots : [Slot -> Frame], head : -2 .. Size - 1, tail : Slot]
        /\ broken \in BOOLEAN
    BY DEF IInv, TypeOK
  <2>2. CASE broken
    <3>1. Fifo!Break
      BY <1>1, <1>4, <2>2 DEF Fifo!Break
    <3>2. RingHolds'
      BY <1>4, <2>2 DEF RingHolds
    <3> QED
      BY <3>1, <3>2
  <2>3. CASE ~broken
    <3>1. buffer.head \in Slot
      BY <1>2, <2>1, <2>3 DEF RingHolds, Slot
    <3>2. IsRing(Frame, buffer) /\ Reader = buffer.head
      BY <1>2, <2>1, <3>1 DEF IsRing, Reader, Slot
    <3>3. Len(Held(buffer)) = Size - 1 <=> ~HasRoom(buffer)
      BY <3>2, RoomIsCapacity
    <3>4. Held(buffer) = Contents(buffer.slots, Reader, buffer.tail)
      BY <3>2 DEF Held
    <3>5. buffer'.head = IF HasRoom(buffer) THEN buffer.head ELSE buffer.head - 1
      BY <1>4, <3>2, PutReachesHead DEF Put
    <3>6. RingHolds'
      BY <1>4, <2>1, <3>1, <3>5 DEF RingHolds, Slot
    <3>7. CASE broken'
      <4>1. ~HasRoom(buffer)
        BY <1>4, <2>3, <3>1, <3>5, <3>7 DEF Slot
      <4> QED
        BY <1>1, <3>3, <3>4, <3>6, <3>7, <4>1 DEF Fifo!Break, Fifo!Full
    <3>8. CASE ~broken'
      <4>1. buffer'.head \in Slot /\ (~HasRoom(buffer) => buffer.head # 0)
        BY <1>4, <3>1, <3>5, <3>8 DEF Slot
      <4>2. Held(buffer') = Contents(buffer'.slots, Reader', buffer'.tail)
        BY <1>1, <1>2, <4>1 DEF Held, Reader, Slot
      <4>3. Held(buffer') =
              Append(IF Fifo!Full THEN Tail(Held(buffer)) ELSE Held(buffer), m)
        <5>1. CASE HasRoom(buffer)
          <6>1. Puts(Held(buffer), m, Held(buffer'))
            BY <1>1, <1>4, <3>2, <5>1, PutAppends
          <6> QED
            BY <3>3, <3>4, <5>1, <6>1 DEF Puts, Fifo!Full
        <5>2. CASE ~HasRoom(buffer)
          <6>1. Drops(Held(buffer), m, Held(buffer'))
            BY <1>1, <1>4, <3>2, <4>1, <5>2, PutDrops
          <6> QED
            BY <3>3, <3>4, <5>2, <6>1 DEF Drops, Fifo!Full
        <5> QED
          BY <5>1, <5>2
      <4>4. \E x \in 1 .. MaxFrames :
              Contents(buffer.slots, Reader, buffer.tail)' =
                Append(IF Fifo!Full THEN Tail(Contents(buffer.slots, Reader, buffer.tail))
                       ELSE Contents(buffer.slots, Reader, buffer.tail), x)
        BY <1>1, <3>4, <4>2, <4>3, Zenon
      <4>5. UNCHANGED <<msg, broken, resets>>
        BY <1>1, <1>4, <2>1, <2>3, <3>8
      <4> QED
        BY <2>3, <3>6, <4>4, <4>5, Zenon DEF Fifo!PutMessage
    <3> QED
      BY <3>7, <3>8
  <2> QED
    BY <2>2, <2>3
<1>5. \/ UNCHANGED <<buffer, event, broken>>
      \/ /\ buffer' = Put(buffer, m) /\ (broken' <=> broken \/ Put(buffer, m).head < 0)
         /\ broken' \in BOOLEAN
  BY Zenon DEF Interrupt, IInv, TypeOK
<1> QED
  BY <1>3, <1>4, <1>5

\* The load of *buffer_head takes the oldest frame, if there is one.
LEMMA LoadRefines ==
  ASSUME IInv, RingHolds, Load, objects' \in Seq(1 .. MaxFrames)
  PROVE  RingHolds' /\ (Fifo!TakeMessage \/ Fifo!Break)
<1>1. /\ pc = "load" /\ pc' = "dec" /\ buffer' = buffer /\ msg' = ReadHead(buffer)
      /\ resets' = resets /\ (broken' <=> broken \/ IsEmpty(buffer))
      /\ broken \in BOOLEAN /\ broken' \in BOOLEAN
  BY Zenon DEF Load, Step, IInv, TypeOK
<1>2. RingHolds'
  BY <1>1 DEF RingHolds
<1>3. /\ buffer.slots \in [Slot -> Frame] /\ buffer.tail \in Slot
      /\ buffer.head \in -2 .. Size - 1
      /\ buffer \in [slots : [Slot -> Frame], head : -2 .. Size - 1, tail : Slot]
  BY DEF IInv, TypeOK
<1>4. CASE broken
  BY <1>1, <1>2, <1>4 DEF Fifo!Break
<1>5. CASE ~broken
  <2>1. buffer.head \in Slot /\ Reader = buffer.head /\ Reader' = StepDown(buffer.head)
    BY <1>1, <1>3, <1>5 DEF RingHolds, Reader, Slot
  <2>2. IsRing(Frame, buffer) /\ Held(buffer) = Contents(buffer.slots, Reader, buffer.tail)
    BY <1>3, <2>1 DEF IsRing, Held
  <2>3. CASE IsEmpty(buffer)
    <3>1. Contents(buffer.slots, Reader, buffer.tail) = <<>>
      BY <1>3, <2>1, <2>3 DEF IsEmpty, Contents, Between, Down, Slot
    <3> QED
      BY <1>1, <1>2, <2>3, <3>1 DEF Fifo!Break
  <2>4. CASE ~IsEmpty(buffer)
    <3>1. Takes(Held(buffer), ReadHead(buffer), Held(Pop(buffer)))
      BY <2>2, <2>4, PopTakes
    <3>2. Held(Pop(buffer)) = Contents(buffer'.slots, Reader', buffer'.tail)
      BY <1>1, <1>3, <2>1 DEF Pop, Held
    <3> QED
      BY <1>1, <1>2, <1>5, <2>2, <2>4, <3>1, <3>2 DEF Takes, Fifo!TakeMessage
  <2> QED
    BY <2>3, <2>4
<1> QED
  BY <1>4, <1>5

\* The rest of the pop moves head to where the queue's head has been since the load.
LEMMA PopGoesOn ==
  ASSUME IInv, Decrement \/ Wrap
  PROVE  /\ buffer'.slots = buffer.slots /\ buffer'.tail = buffer.tail
         /\ Reader' = Reader
         /\ \/ pc = "dec" /\ pc' = "wrap" /\ buffer'.head = buffer.head - 1
            \/ /\ pc = "wrap" /\ pc' = "more"
               /\ buffer'.head = IF buffer.head < 0 THEN Size - 1 ELSE buffer.head
<1>1. /\ buffer \in [slots : [Slot -> Frame], head : -2 .. Size - 1, tail : Slot]
      /\ buffer.head \in -2 .. Size - 1 /\ (pc # "wrap" => buffer.head >= -1)
  BY DEF IInv, TypeOK, HeadInReach
<1>2. /\ buffer'.slots = buffer.slots /\ buffer'.tail = buffer.tail
      /\ \/ pc = "dec" /\ pc' = "wrap" /\ buffer'.head = buffer.head - 1
         \/ /\ pc = "wrap" /\ pc' = "more"
            /\ buffer'.head = IF buffer.head < 0 THEN Size - 1 ELSE buffer.head
  BY <1>1 DEF Decrement, Wrap, Step
<1>3. Reader' = Reader
  BY <1>1, <1>2 DEF Reader, StepDown
<1> QED
  BY <1>2, <1>3

LEMMA DecrementRefines ==
  ASSUME IInv, RingHolds, Decrement \/ Wrap, objects' \in Seq(1 .. MaxFrames)
  PROVE  RingHolds' /\ UNCHANGED Fifo!vars
<1>1. msg' = msg /\ broken' = broken /\ resets' = resets
  BY DEF Decrement, Wrap, ghosts
<1>2. buffer.head \in -2 .. Size - 1 /\ (pc # "wrap" => buffer.head >= -1)
  BY DEF IInv, TypeOK, HeadInReach
<1>3. RingHolds'
  BY <1>1, <1>2, PopGoesOn DEF RingHolds
<1> QED
  BY <1>1, <1>3, PopGoesOn DEF Fifo!vars

\* The reset of the processor is the restart of the queue.
LEMMA ResetRefines ==
  ASSUME DispatchReset, objects' \in Seq(1 .. MaxFrames)
  PROVE  RingHolds' /\ Fifo!Restart
<1>1. /\ pc' = "poll" /\ resets' = resets + 1 /\ broken' = FALSE
      /\ buffer'.head = Size - 1 /\ buffer'.tail = Size - 1
  BY DEF DispatchReset, NewBuffer
<1>2. Contents(buffer'.slots, Reader', buffer'.tail) = <<>>
  BY <1>1 DEF Reader, Contents, Between, Down
<1> QED
  BY <1>1, <1>2 DEF RingHolds, Fifo!Restart

\* The mapped initial ring is the empty queue.
LEMMA InitRefines == Init => Fifo!Init
<1> SUFFICES ASSUME Init PROVE Fifo!Init
  OBVIOUS
<1>1. /\ buffer.head = Size - 1 /\ buffer.tail = Size - 1 /\ pc = "poll"
      /\ broken = FALSE /\ resets = 0
  BY DEF Init, NewBuffer
<1>2. Contents(buffer.slots, Reader, buffer.tail) = <<>>
  BY <1>1 DEF Reader, Contents, Between, Down
<1> QED
  BY <1>1, <1>2 DEF Fifo!Init

\* Every step is one of the bounded queue or none of its business.
LEMMA NextRefines ==
  ASSUME IInv, RingHolds, [Next]_vars
  PROVE  RingHolds' /\ [Fifo!Next]_(Fifo!vars)
<1>1. objects' \in Seq(1 .. MaxFrames)
  BY ObjectsHold
<1>2. CASE Aside
  BY <1>1, <1>2, AsideRefines
<1>3. CASE Interrupt
  BY <1>1, <1>3, InterruptRefines DEF Fifo!Next
<1>4. CASE Load
  BY <1>1, <1>4, LoadRefines DEF Fifo!Next
<1>5. CASE Decrement \/ Wrap
  BY <1>1, <1>5, DecrementRefines
<1>6. CASE DispatchReset
  BY <1>1, <1>6, ResetRefines DEF Fifo!Next
<1> QED
  BY <1>2, <1>3, <1>4, <1>5, <1>6, StepsAside DEF Next, CanWaitTask

\* For every ring size, number of message objects and traffic the receive path,
\* the interrupt and the pop interleaved statement by statement, implements a
\* bounded queue that drops its oldest frame, until it is popped empty or head
\* leaves the array, and again from the next reset.
THEOREM RingImplementsFifo == Spec => FifoSpec
BY InitHolds, InitRefines, NextRefines, Invariant, PTL DEF Spec, FifoSpec, Fifo!Spec

----------------------------------------------------------------------------
(* A wake-up replays at most what the array holds. *)

\* The frames still in the objects are newer than all in the ring and all popped.
ComeInOrder ==
  /\ newest <= arrived
  /\ \A i \in Slot : buffer.slots[i] <= arrived
  /\ \A k \in 1 .. Len(objects) :
       /\ objects[k] <= arrived
       /\ newest < objects[k]
       /\ \A i \in Slot : buffer.slots[i] < objects[k]
  /\ \A k, l \in 1 .. Len(objects) : k < l => objects[k] < objects[l]

\* Only the first pop of a wake-up may find the ring empty.
EmptyAtFirstOnly ==
  /\ pc \in {"lock", "load"} /\ IsEmpty(buffer) => replayed = 0
  /\ pc = "dispatch" /\ more => ~IsEmpty(buffer)

\* How many pops take the reader to the tail.
ToGo == Between(Reader, buffer.tail)

\* The g youngest slots are in order, and newer than all popped as far as the
\* reader has not passed them; only the others can still be replayed.
ReplaysWithin(g) ==
  /\ \A i, j \in Slot :
       Age(buffer.tail, i) <= g /\ Age(buffer.tail, i) < Age(buffer.tail, j)
         => buffer.slots[j] < buffer.slots[i]
  /\ \A i \in Slot :
       Age(buffer.tail, i) <= g /\ Age(buffer.tail, i) <= ToGo
         => newest < buffer.slots[i]
  /\ replayed <= Size
  /\ replayed + ToGo - g <= Size

Replays == \E g \in 0 .. Size : ReplaysWithin(g)

RInv == ComeInOrder /\ EmptyAtFirstOnly /\ Replays

\* The types the argument needs, and where the reader is.
LEMMA ReplayParts ==
  ASSUME IInv
  PROVE  /\ buffer.slots \in [Slot -> Nat] /\ buffer.tail \in Slot
         /\ buffer.head \in -2 .. Size - 1
         /\ pc # "wrap" => buffer.head \in -1 .. Size - 1
         /\ arrived \in Nat /\ newest \in Nat /\ replayed \in Nat
         /\ objects \in Seq(Nat)
         /\ Reader \in Slot /\ ToGo \in 0 .. Size - 1
         /\ pc # "dec" /\ buffer.head \in Slot => Reader = buffer.head
<1>1. /\ buffer.slots \in [Slot -> Frame] /\ buffer.tail \in Slot
      /\ buffer.head \in -2 .. Size - 1
      /\ pc # "wrap" => buffer.head \in -1 .. Size - 1
      /\ arrived \in Frame /\ newest \in Frame /\ replayed \in Nat
      /\ objects \in Seq(Frame)
  BY DEF IInv, TypeOK
<1>2. \A f \in Frame : f \in Nat
  BY DEF Frame
<1>3. /\ Reader \in Slot
      /\ pc # "dec" /\ buffer.head \in Slot => Reader = buffer.head
  <2>1. pc = "dec" => StepDown(buffer.head) \in Slot
    BY <1>1, StepDownInSlot
  <2> QED
    BY <1>1, <2>1 DEF Reader, Slot
<1>4. ToGo \in 0 .. Size - 1
  BY <1>1, <1>3, BetweenInRange DEF ToGo
<1>5. buffer.slots \in [Slot -> Nat]
  BY <1>1, <1>2
<1>6. objects \in Seq(Nat)
  BY <1>1, <1>2
<1> QED
  BY <1>1, <1>2, <1>3, <1>4, <1>5, <1>6

LEMMA InitReplays == Init => RInv
<1> SUFFICES ASSUME Init PROVE RInv
  OBVIOUS
<1>1. /\ buffer.slots = [i \in Slot |-> 0] /\ buffer.head = Size - 1
      /\ buffer.tail = Size - 1 /\ newest = 0 /\ arrived = 0 /\ objects = <<>>
      /\ pc = "poll" /\ replayed = 0 /\ Size - 1 \in Slot
  BY DEF Init, NewBuffer, Slot
<1>2. ComeInOrder /\ EmptyAtFirstOnly
  BY <1>1 DEF ComeInOrder, EmptyAtFirstOnly
<1>3. ToGo = 0
  BY <1>1 DEF ToGo, Reader, Between, Down
<1>4. ReplaysWithin(0)
  BY <1>1, <1>3, AgeInRange DEF ReplaysWithin
<1>5. 0 \in 0 .. Size
  OBVIOUS
<1> QED
  BY <1>2, <1>4, <1>5 DEF RInv, Replays

\* Nothing is popped or put: what can still be replayed stays the same.
LEMMA ReplaysKept ==
  ASSUME Replays, UNCHANGED <<buffer.slots, buffer.tail, Reader, newest, replayed>>
  PROVE  Replays'
BY DEF Replays, ReplaysWithin, ToGo

\* A step that leaves the frames where they are, and the ring empty or not.
LEMMA AsideReplays ==
  ASSUME IInv, RInv, Aside,
         UNCHANGED <<arrived, objects, newest, replayed>>,
         EmptyAtFirstOnly'
  PROVE  RInv'
<1>1. ComeInOrder'
  BY DEF RInv, ComeInOrder, Aside
<1>2. Replays'
  BY ReplaysKept DEF RInv, Aside, Reader
<1> QED
  BY <1>1, <1>2 DEF RInv

\* The task goes to pop only what is there.
LEMMA OthersReplay ==
  ASSUME IInv, RInv,
         \/ MainTask \/ Kernel
         \/ EnterLoop \/ WaitPending \/ WaitBlock
         \/ Lock \/ More \/ Unlock \/ Dispatch
         \/ UNCHANGED vars
  PROVE  RInv'
<1>1. Aside
  BY StepsAside
<1>2. UNCHANGED <<arrived, objects, newest, replayed>>
  <2>1. CASE MainTask \/ Kernel
    BY <2>1 DEF MainTask, Subscribe, Ready, PublishHandle, Kernel, ClearEvent,
                HandleEvent, hardware, ghosts
  <2>2. CASE EnterLoop \/ WaitPending \/ WaitBlock
    BY <2>2 DEF EnterLoop, WaitPending, WaitBlock, hardware, ghosts
  <2>3. CASE Lock \/ More \/ Unlock \/ Dispatch
    BY <2>3 DEF Lock, More, Unlock, Dispatch, hardware, ghosts
  <2>4. CASE UNCHANGED vars
    BY <2>4 DEF vars, hardware, ghosts
  <2> QED
    BY <2>1, <2>2, <2>3, <2>4
<1>3. IsEmpty(buffer)' = IsEmpty(buffer)
  BY <1>1 DEF Aside, IsEmpty
<1>4. EmptyAtFirstOnly'
  <2>1. EmptyAtFirstOnly
    BY DEF RInv
  <2>2. CASE MainTask
    BY <1>2, <1>3, <2>1, <2>2 DEF MainTask, Subscribe, Ready, PublishHandle,
                                  EmptyAtFirstOnly
  <2>3. CASE Kernel
    BY <1>2, <1>3, <2>1, <2>3 DEF Kernel, ClearEvent, HandleEvent, EmptyAtFirstOnly
  <2>4. CASE EnterLoop \/ WaitPending \/ WaitBlock
    BY <2>4 DEF EnterLoop, WaitPending, WaitBlock, Step, EmptyAtFirstOnly
  <2>5. CASE Lock
    BY <1>2, <1>3, <2>1, <2>5 DEF Lock, Step, EmptyAtFirstOnly
  <2>6. CASE More
    BY <2>6 DEF More, Step, EmptyAtFirstOnly
  <2>7. CASE Unlock
    BY <1>3, <2>7 DEF Unlock, Step, EmptyAtFirstOnly, IInv, MoreIsAccurate
  <2>8. CASE Dispatch
    BY <1>3, <2>1, <2>8 DEF Dispatch, EmptyAtFirstOnly
  <2>9. CASE UNCHANGED vars
    BY <1>2, <1>3, <2>1, <2>9 DEF vars, EmptyAtFirstOnly
  <2> QED
    BY <2>2, <2>3, <2>4, <2>5, <2>6, <2>7, <2>8, <2>9
<1> QED
  BY <1>1, <1>2, <1>4, AsideReplays

\* A frame that comes is newer than all before it, also if it replaces one.
LEMMA ArriveReplays ==
  ASSUME IInv, RInv, Arrive
  PROVE  RInv'
<1>1. /\ UNCHANGED <<buffer, newest, replayed, pc, more>> /\ arrived' = arrived + 1
      /\ objects' = IF Len(objects) < Objects THEN Append(objects, arrived + 1)
                    ELSE [objects EXCEPT ![Objects] = arrived + 1]
  BY DEF Arrive, ghosts
<1>2. /\ buffer.slots \in [Slot -> Nat] /\ arrived \in Nat /\ newest \in Nat
      /\ objects \in Seq(Nat) /\ Len(objects) <= Objects
  BY ReplayParts DEF IInv, TypeOK
<1>3. PICK n \in 1 .. Objects :
        /\ Len(objects') = n /\ objects'[n] = arrived + 1
        /\ n - 1 <= Len(objects)
        /\ \A k \in 1 .. n - 1 : objects'[k] = objects[k]
  <2>1. CASE Len(objects) < Objects
    <3>1. Len(objects) + 1 \in 1 .. Objects
      BY <1>2, <2>1
    <3> QED
      BY <1>1, <1>2, <2>1, <3>1
  <2>2. CASE ~(Len(objects) < Objects)
    <3>1. Len(objects) = Objects /\ Objects \in 1 .. Objects
      BY <1>2, <2>2
    <3> QED
      BY <1>1, <1>2, <2>2, <3>1
  <2> QED
    BY <1>2, <2>1, <2>2
<1>4. ComeInOrder'
  <2>1. newest' <= arrived' /\ \A i \in Slot : buffer'.slots[i] <= arrived'
    BY <1>1, <1>2 DEF RInv, ComeInOrder
  <2>2. ASSUME NEW k \in 1 .. n
        PROVE  /\ objects'[k] <= arrived' /\ newest' < objects'[k]
               /\ \A i \in Slot : buffer'.slots[i] < objects'[k]
    <3>1. CASE k = n
      BY <1>1, <1>2, <1>3, <3>1 DEF RInv, ComeInOrder
    <3>2. CASE k # n
      <4>1. k \in 1 .. n - 1 /\ k \in 1 .. Len(objects)
        BY <1>2, <1>3, <2>2, <3>2
      <4>2. objects'[k] = objects[k] /\ objects[k] \in Nat
        BY <1>2, <1>3, <4>1
      <4> QED
        BY <1>1, <1>2, <4>1, <4>2 DEF RInv, ComeInOrder
    <3> QED
      BY <3>1, <3>2
  <2>3. ASSUME NEW k \in 1 .. n, NEW l \in 1 .. n, k < l
        PROVE  objects'[k] < objects'[l]
    <3>1. k \in 1 .. n - 1 /\ k \in 1 .. Len(objects)
      BY <1>2, <1>3, <2>3
    <3>2. objects'[k] = objects[k] /\ objects[k] \in Nat /\ objects[k] <= arrived
      BY <1>2, <1>3, <3>1 DEF RInv, ComeInOrder
    <3>3. CASE l = n
      BY <1>2, <1>3, <3>2, <3>3
    <3>4. CASE l # n
      <4>1. l \in 1 .. n - 1 /\ l \in 1 .. Len(objects)
        BY <1>2, <1>3, <2>3, <3>4
      <4> QED
        BY <1>3, <2>3, <3>1, <3>2, <4>1 DEF RInv, ComeInOrder
    <3> QED
      BY <3>3, <3>4
  <2> QED
    BY <1>3, <2>1, <2>2, <2>3 DEF ComeInOrder
<1>5. EmptyAtFirstOnly' /\ Replays'
  <2>1. Reader' = Reader
    BY <1>1 DEF Reader
  <2> QED
    BY <1>1, <2>1, ReplaysKept DEF RInv, EmptyAtFirstOnly, IsEmpty
<1> QED
  BY <1>4, <1>5 DEF RInv

\* How far the reader is from the tail after a put.
LEMMA PutToGo ==
  ASSUME NEW t \in Slot, NEW r \in Slot
  PROVE  /\ Between(r, StepDown(t)) = IF r = StepDown(t) THEN 0 ELSE Between(r, t) + 1
         /\ r = StepDown(t) => Between(r, t) = Size - 1
         /\ Between(StepDown(t), t) = Size - 1
BY DEF Between, Down, StepDown, Slot

\* One put more, and at most one pop more to the tail.
LEMMA StillWithin ==
  ASSUME NEW r \in Nat, NEW n \in Nat, NEW k \in 0 .. Size - 1, NEW g \in 0 .. Size,
         r <= Size, r + n - g <= Size, k <= n + 1
  PROVE  r + k - (IF g < Size THEN g + 1 ELSE g) <= Size
OBVIOUS

\* A replayed pop counts, and there is one less to go.
LEMMA StillWithinPop ==
  ASSUME NEW r \in Nat, NEW s \in Nat, NEW n \in Nat, NEW g \in Nat,
         r + n - g <= Size, s <= r + 1, n > g
  PROVE  s <= Size /\ s + (n - 1) - g <= Size
OBVIOUS

\* A put makes one slot more the youngest.
LEMMA InterruptReplays ==
  ASSUME IInv, RInv, Interrupt
  PROVE  RInv'
<1> DEFINE m == Head(objects)
           t == buffer.tail
           h == buffer.head
           u == StepDown(t)
<1>1. /\ objects # <<>> /\ objects' = Tail(objects) /\ ~masked
      /\ UNCHANGED <<arrived, newest, replayed, pc, more>>
  BY DEF Interrupt
<1>2. /\ buffer.slots \in [Slot -> Nat] /\ t \in Slot
      /\ arrived \in Nat /\ newest \in Nat /\ replayed \in Nat
      /\ objects \in Seq(Nat)
      /\ Reader \in Slot /\ ToGo \in 0 .. Size - 1
      /\ pc # "wrap" => h \in -1 .. Size - 1
  BY ReplayParts
<1>3. pc \notin Locked
  BY <1>1 DEF IInv, LockHeld
<1>4. h \in -1 .. Size - 1 /\ Reader = (IF h < 0 THEN Size - 1 ELSE h)
  BY <1>2, <1>3 DEF Locked, Reader
<1>5. /\ Len(objects) \in Nat \ {0} /\ Len(objects') = Len(objects) - 1
      /\ m = objects[1] /\ m \in Nat
      /\ \A k \in 1 .. Len(objects') : objects'[k] = objects[k + 1]
  BY <1>1, <1>2
<1>6. /\ m <= arrived /\ newest < m /\ \A i \in Slot : buffer.slots[i] < m
      /\ \A k \in 2 .. Len(objects) : m < objects[k]
  BY <1>5 DEF RInv, ComeInOrder
<1>7. \A k \in 1 .. Len(objects') :
        /\ objects'[k] <= arrived /\ newest < objects'[k] /\ m < objects'[k]
        /\ \A i \in Slot : buffer.slots[i] < objects'[k]
  BY <1>5, <1>6 DEF RInv, ComeInOrder
<1>8. \A k, l \in 1 .. Len(objects') : k < l => objects'[k] < objects'[l]
  <2> SUFFICES ASSUME NEW k \in 1 .. Len(objects'), NEW l \in 1 .. Len(objects'), k < l
               PROVE  objects'[k] < objects'[l]
    OBVIOUS
  <2>1. /\ k + 1 \in 1 .. Len(objects) /\ l + 1 \in 1 .. Len(objects) /\ k + 1 < l + 1
        /\ objects'[k] = objects[k + 1] /\ objects'[l] = objects[l + 1]
    BY <1>5
  <2> QED
    BY <2>1 DEF RInv, ComeInOrder
<1>9. CASE buffer' = buffer
  <2>1. ComeInOrder'
    BY <1>1, <1>7, <1>8, <1>9 DEF RInv, ComeInOrder
  <2>2. Reader' = Reader
    BY <1>1, <1>9 DEF Reader
  <2>3. EmptyAtFirstOnly' /\ Replays'
    BY <1>1, <1>9, <2>2, ReplaysKept DEF RInv, EmptyAtFirstOnly, IsEmpty
  <2> QED
    BY <2>1, <2>3 DEF RInv
<1>10. CASE buffer' = Put(buffer, m)
  <2>1. /\ buffer'.slots = [buffer.slots EXCEPT ![t] = m]
        /\ buffer'.tail = u
        /\ buffer'.head = IF u = h THEN h - 1 ELSE h
        /\ u \in Slot
    BY <1>2, <1>10, StepDownInSlot DEF Put, Slot
  <2>2. \A i \in Slot : buffer'.slots[i] = IF i = t THEN m ELSE buffer.slots[i]
    BY <1>2, <2>1
  <2>3. ComeInOrder'
    BY <1>1, <1>2, <1>6, <1>7, <1>8, <2>2 DEF RInv, ComeInOrder
  <2>4. EmptyAtFirstOnly'
    BY <1>1, <1>4, <2>1 DEF RInv, EmptyAtFirstOnly, IsEmpty, Slot
  <2>5. ToGo' \in 0 .. Size - 1 /\ ToGo' <= ToGo + 1
    <3>1. Reader' = IF u = h THEN StepDown(h) ELSE Reader
      BY <1>1, <1>3, <1>4, <2>1 DEF Reader, Locked, StepDown, Slot
    <3>2. CASE u = h
      <4>1. Reader = u /\ Reader' = StepDown(u)
        BY <1>4, <2>1, <3>1, <3>2 DEF Slot
      <4>2. Between(StepDown(u), u) = Size - 1 /\ Between(u, t) = Size - 1
        BY <1>2, <2>1, PutToGo
      <4> QED
        BY <2>1, <4>1, <4>2 DEF ToGo
    <3>3. CASE u # h
      <4>1. ToGo' = Between(Reader, u) /\ ToGo = Between(Reader, t)
        BY <2>1, <3>1, <3>3 DEF ToGo
      <4>2. Between(Reader, u) \in 0 .. Size - 1
        BY <1>2, <2>1, BetweenInRange
      <4>3. Between(Reader, u) = IF Reader = u THEN 0 ELSE Between(Reader, t) + 1
        BY <1>2, PutToGo
      <4> QED
        BY <1>2, <4>1, <4>2, <4>3
    <3> QED
      BY <3>2, <3>3
  <2>6. PICK g \in 0 .. Size : ReplaysWithin(g)
    BY DEF RInv, Replays
  <2>7. PICK f \in 0 .. Size : f = IF g < Size THEN g + 1 ELSE g
    OBVIOUS
  <2>8. \A i \in Slot : Age(u, i) = IF i = t THEN 1 ELSE Age(t, i) + 1
    BY <1>2, PutAges
  <2>9. \A i \in Slot : Age(t, i) \in 1 .. Size /\ Age(u, i) \in 1 .. Size
    BY <1>2, <2>1, AgeInRange
  <2>10. ASSUME NEW i \in Slot, NEW j \in Slot, Age(u, i) <= f, Age(u, i) < Age(u, j)
         PROVE  buffer'.slots[j] < buffer'.slots[i]
    <3>1. j # t /\ buffer'.slots[j] = buffer.slots[j]
      BY <2>2, <2>8, <2>9, <2>10
    <3>2. CASE i = t
      BY <1>6, <2>2, <3>1, <3>2
    <3>3. CASE i # t
      <4>1. Age(t, i) <= g /\ Age(t, i) < Age(t, j)
        BY <2>7, <2>8, <2>9, <2>10, <3>1, <3>3
      <4> QED
        BY <2>2, <2>6, <3>1, <3>3, <4>1 DEF ReplaysWithin
    <3> QED
      BY <3>2, <3>3
  <2>11. ASSUME NEW i \in Slot, Age(u, i) <= f, Age(u, i) <= ToGo'
         PROVE  newest < buffer'.slots[i]
    <3>1. CASE i = t
      BY <1>6, <2>2, <3>1
    <3>2. CASE i # t
      <4>1. Age(t, i) <= g /\ Age(t, i) <= ToGo
        BY <1>2, <2>5, <2>7, <2>8, <2>9, <2>11, <3>2
      <4> QED
        BY <2>2, <2>6, <3>2, <4>1 DEF ReplaysWithin
    <3> QED
      BY <3>1, <3>2
  <2>12. replayed <= Size /\ replayed + ToGo' - f <= Size
    <3>1. replayed <= Size /\ replayed + ToGo - g <= Size
      BY <2>6 DEF ReplaysWithin
    <3> QED
      <4>1. replayed \in Nat /\ ToGo \in Nat /\ ToGo' \in 0 .. Size - 1 /\ ToGo' <= ToGo + 1
        BY <1>2, <2>5
      <4>2. replayed + ToGo' - (IF g < Size THEN g + 1 ELSE g) <= Size
        BY <3>1, <4>1, StillWithin
      <4> QED
        BY <2>7, <3>1, <4>2
  <2>13. ReplaysWithin(f)'
    BY <1>1, <2>1, <2>10, <2>11, <2>12 DEF ReplaysWithin
  <2> QED
    BY <2>3, <2>4, <2>13 DEF RInv, Replays
<1> QED
  BY <1>9, <1>10 DEF Interrupt

\* A wake-up starts with nothing replayed.
LEMMA ReceiveReplays ==
  ASSUME IInv, RInv, Receive
  PROVE  RInv'
<1>1. /\ UNCHANGED <<buffer, newest, arrived, objects, more>>
      /\ pc = "recv" /\ pc' = "lock" /\ replayed' = 0
  BY DEF Receive, Step, hardware
<1>2. ComeInOrder' /\ EmptyAtFirstOnly'
  BY <1>1 DEF RInv, ComeInOrder, EmptyAtFirstOnly
<1>3. ToGo' = ToGo /\ ToGo \in 0 .. Size - 1
  BY <1>1, ReplayParts DEF ToGo, Reader
<1>4. PICK g \in 0 .. Size : ReplaysWithin(g)
  BY DEF RInv, Replays
<1>5. ReplaysWithin(g)'
  BY <1>1, <1>3, <1>4 DEF ReplaysWithin
<1> QED
  BY <1>2, <1>5 DEF RInv, Replays

\* A pop takes the reader one slot towards the tail, or once round from there.
LEMMA LoadReplays ==
  ASSUME IInv, RInv, Load
  PROVE  RInv'
<1> DEFINE t == buffer.tail
           h == buffer.head
<1>1. /\ UNCHANGED <<buffer, arrived, objects, more>>
      /\ pc = "load" /\ pc' = "dec"
  BY DEF Load, Step, hardware
<1>2. /\ buffer.slots \in [Slot -> Nat] /\ t \in Slot
      /\ arrived \in Nat /\ newest \in Nat /\ replayed \in Nat
      /\ Reader \in Slot /\ ToGo \in 0 .. Size - 1
      /\ h \in -1 .. Size - 1
  BY <1>1, ReplayParts
<1>3. EmptyAtFirstOnly'
  BY <1>1 DEF EmptyAtFirstOnly
<1>4. Reader' = StepDown(h) /\ Reader = IF h < 0 THEN Size - 1 ELSE h
  BY <1>1 DEF Reader
<1>5. PICK g \in 0 .. Size : ReplaysWithin(g)
  BY DEF RInv, Replays
<1>6. CASE h \notin Slot
  <2>1. newest' = newest /\ replayed' = replayed
    BY <1>6 DEF Load
  <2>2. Reader' = Reader
    BY <1>2, <1>4, <1>6 DEF StepDown, Slot
  <2>3. ComeInOrder' /\ Replays'
    BY <1>1, <2>1, <2>2, ReplaysKept DEF RInv, ComeInOrder
  <2> QED
    BY <1>3, <2>3 DEF RInv
<1>7. CASE h \in Slot
  <2> DEFINE x == buffer.slots[h]
  <2>1. /\ x > newest => newest' = x /\ replayed' = replayed
        /\ ~(x > newest) => newest' = newest /\ replayed' = replayed + 1
    BY <1>7 DEF Load, ReadHead
  <2>2. x \in Nat /\ newest' \in Nat /\ x <= newest' /\ newest <= newest'
        /\ newest' \in {x, newest} /\ Reader = h /\ replayed' \in Nat
    BY <1>2, <1>4, <1>7, <2>1 DEF Slot
  <2>3. ComeInOrder'
    BY <1>1, <1>7, <2>2 DEF RInv, ComeInOrder
  <2>4. CASE h = t
    <3>1. replayed = 0 /\ replayed' <= 1
      BY <1>1, <1>2, <2>1, <2>4 DEF RInv, EmptyAtFirstOnly, IsEmpty
    <3>2. ToGo' = Between(StepDown(h), t)
      BY <1>1, <1>4 DEF ToGo
    <3>3. ToGo' = Size - 1
      BY <1>2, <2>4, <3>2, PutToGo DEF Between, Down, StepDown, Slot
    <3>4. \A i \in Slot : Age(t, i) \in 1 .. Size
      BY <1>2, AgeInRange
    <3>5. ReplaysWithin(0)'
      BY <1>1, <2>2, <3>1, <3>3, <3>4 DEF ReplaysWithin
    <3>6. 0 \in 0 .. Size
      OBVIOUS
    <3> QED
      BY <1>3, <2>3, <3>5, <3>6 DEF RInv, Replays
  <2>5. CASE h # t
    <3>1. ToGo' = ToGo - 1 /\ ToGo >= 1 /\ Age(t, h) = ToGo
      <4>1. ToGo = Between(h, t) /\ ToGo' = Between(StepDown(h), t)
        BY <1>1, <1>4, <2>2 DEF ToGo
      <4>2. Between(StepDown(h), t) = Between(h, t) - 1
        BY <1>2, <1>7, <2>5, PopShortens
      <4>3. Age(t, h) = Between(h, t) /\ Between(h, t) >= 1
        BY <1>2, <1>7, <2>5 DEF Age, Between, Down, Slot
      <4> QED
        BY <4>1, <4>2, <4>3
    <3>2. \A i \in Slot : Age(t, i) \in 1 .. Size
      BY <1>2, AgeInRange
    <3>3. ASSUME NEW i \in Slot, Age(t, i) <= g, Age(t, i) <= ToGo'
          PROVE  newest' < buffer.slots[i]
      <4>1. newest < buffer.slots[i]
        BY <1>2, <1>5, <3>1, <3>2, <3>3 DEF ReplaysWithin
      <4>2. x < buffer.slots[i]
        BY <1>2, <1>5, <1>7, <3>1, <3>2, <3>3 DEF ReplaysWithin
      <4> QED
        BY <2>2, <4>1, <4>2
    <3>4. replayed' <= Size /\ replayed' + ToGo' - g <= Size
      <4>1. replayed <= Size /\ replayed + ToGo - g <= Size
        BY <1>5 DEF ReplaysWithin
      <4>2. CASE ToGo <= g
        <5>1. newest < x
          <6>1. Age(t, h) <= g /\ Age(t, h) <= ToGo
            BY <1>2, <3>1, <4>2
          <6> QED
            BY <1>5, <1>7, <6>1 DEF ReplaysWithin
        <5>2. replayed' = replayed
          BY <1>2, <2>1, <2>2, <5>1
        <5> QED
          BY <1>2, <3>1, <4>1, <5>2
      <4>3. CASE ToGo > g
        <5>1. replayed' <= replayed + 1
          BY <1>2, <2>1
        <5> QED
          <6>1. replayed \in Nat /\ replayed' \in Nat /\ ToGo \in Nat /\ g \in Nat
            BY <1>2, <2>2
          <6>2. replayed' <= Size /\ replayed' + (ToGo - 1) - g <= Size
            BY <4>1, <4>3, <5>1, <6>1, StillWithinPop
          <6> QED
            BY <3>1, <6>2
      <4> QED
        BY <1>2, <4>2, <4>3
    <3>5. ReplaysWithin(g)'
      BY <1>1, <1>5, <3>3, <3>4 DEF ReplaysWithin
    <3> QED
      BY <1>3, <2>3, <3>5 DEF RInv, Replays
  <2> QED
    BY <2>4, <2>5
<1> QED
  BY <1>6, <1>7

\* The rest of the pop has been counted with its load.
LEMMA DecrementReplays ==
  ASSUME IInv, RInv, Decrement \/ Wrap
  PROVE  RInv'
<1>1. /\ UNCHANGED <<arrived, objects, newest, replayed>> /\ pc' \in {"wrap", "more"}
      /\ buffer'.slots = buffer.slots /\ buffer'.tail = buffer.tail
      /\ Reader' = Reader
  <2>1. UNCHANGED <<arrived, objects, newest, replayed>> /\ pc' \in {"wrap", "more"}
    BY DEF Decrement, Wrap, Step, hardware, ghosts
  <2> QED
    BY <2>1, PopGoesOn
<1>2. ComeInOrder' /\ EmptyAtFirstOnly'
  BY <1>1 DEF RInv, ComeInOrder, EmptyAtFirstOnly
<1>3. Replays'
  BY <1>1, ReplaysKept DEF RInv
<1> QED
  BY <1>2, <1>3 DEF RInv

\* After a reset the ring is empty, whatever its array holds.
LEMMA ResetReplays ==
  ASSUME IInv, RInv, DispatchReset
  PROVE  RInv'
<1>1. /\ UNCHANGED <<arrived, newest, replayed>> /\ pc' = "poll" /\ objects' = <<>>
      /\ buffer'.slots \in {buffer.slots, [i \in Slot |-> 0]}
      /\ buffer'.head = Size - 1 /\ buffer'.tail = Size - 1 /\ Size - 1 \in Slot
  BY DEF DispatchReset, NewBuffer, Slot
<1>2. arrived \in Nat /\ replayed \in Nat
  BY ReplayParts
<1>3. ComeInOrder' /\ EmptyAtFirstOnly'
  BY <1>1, <1>2 DEF RInv, ComeInOrder, EmptyAtFirstOnly
<1>4. ToGo' = 0
  BY <1>1 DEF ToGo, Reader, Between, Down
<1>5. replayed <= Size
  BY DEF RInv, Replays, ReplaysWithin
<1>6. \A i \in Slot : Age(Size - 1, i) \in 1 .. Size
  BY <1>1, AgeInRange
<1>7. ReplaysWithin(0)'
  BY <1>1, <1>2, <1>4, <1>5, <1>6 DEF ReplaysWithin
<1>8. 0 \in 0 .. Size
  OBVIOUS
<1> QED
  BY <1>3, <1>7, <1>8 DEF RInv, Replays

\* For every ring size, number of message objects and traffic, faults and resets
\* included, a wake-up of the can_wait task hands over at most Size frames that
\* are no newer than one it has handed over before.
THEOREM ReplaysBounded == Spec => []ReplayBounded
<1>1. IInv /\ RInv /\ [Next]_vars => RInv'
  BY OthersReplay, ArriveReplays, InterruptReplays, ReceiveReplays, LoadReplays,
     DecrementReplays, ResetReplays DEF Next, CanWaitTask
<1>2. RInv => ReplayBounded
  BY DEF RInv, Replays, ReplaysWithin, ReplayBounded
<1> QED
  BY <1>1, <1>2, InitReplays, Invariant, PTL DEF Spec
=============================================================================
