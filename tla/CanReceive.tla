----------------------------- MODULE CanReceive -----------------------------
(***************************************************************************)
(* The receive path of a node.  CAN frames land in the controller's message*)
(* objects; the CAN interrupt copies each into the node handle's ring and  *)
(* raises an interrupt event; the kernel turns the event into a signal the *)
(* next time it schedules; the can_wait task waits for the signal and pops *)
(* frames until the ring is empty.  The pop is modelled statement by       *)
(* statement, because the interrupt may run between any two statements     *)
(* that the receive lock (the interrupt's enable bit) does not cover.      *)
(*                                                                         *)
(* One core: an interrupt handler is one step, and no task step happens    *)
(* while the kernel is processing events.  can_wait is the task with the   *)
(* highest priority of every module that uses ros_echronos.  Frames are    *)
(* numbered in the order in which the interrupt handler reads them, which  *)
(* is not always the order in which they came (see CanObjects).            *)
(***************************************************************************)
EXTENDS MessageBuffer, Sequences

CONSTANTS
  Objects,        \* message objects that queue received frames
  ResetFrames,    \* the frames that are channel control messages of mode RESET
  MaxFrames       \* bound of the model on the frames received

ASSUME FramesAssumption ==
  Objects \in Nat \ {0} /\ MaxFrames \in Nat /\ ResetFrames \subseteq 1 .. MaxFrames

VARIABLES
  booted,      \* how far NodeHandle::init has come
  arrived,     \* frames received by the controller, the number of the last
  objects,     \* frames in the message objects, not yet read
  masked,      \* the CAN interrupt is disabled (can_receive_lock)
  buffer,      \* in_buff
  event,       \* can_receive_event is pending
  kernel,      \* "idle", or "handle": between clearing and handling the event
  signal,      \* can_receive_signal is pending on the can_wait task
  pc,          \* the can_wait task's next statement
  msg,         \* run_handle_message_loop's msg
  more,        \* run_handle_message_loop's more
  resets,      \* times the processor was reset (ghost)
  broken,      \* the ring was popped empty, or head left the array (ghost)
  newest,      \* newest frame popped (ghost)
  replayed     \* frames no newer than that popped since the last wake-up (ghost)

hardware == <<arrived, objects>>
ghosts   == <<resets, broken, newest, replayed>>
vars == <<booted, hardware, masked, buffer, event, kernel, signal, pc, msg,
          more, ghosts>>

Labels == {"poll", "wait", "blocked", "recv", "lock", "load", "dec", "wrap",
           "more", "unlock", "dispatch"}

Frame == 0 .. MaxFrames     \* 0: what the ring holds before any frame

TypeOK ==
  /\ booted \in {"reset", "subscribed", "ready", "published"}
  /\ arrived \in Frame
  /\ objects \in Seq(Frame) /\ Len(objects) <= Objects
  /\ masked \in BOOLEAN
  /\ buffer \in [slots : [Slot -> Frame], head : -2 .. Size - 1, tail : Slot]
  /\ buffer.head = -2 => pc = "wrap"
  /\ event \in BOOLEAN /\ signal \in BOOLEAN /\ more \in BOOLEAN
  /\ kernel \in {"idle", "handle"}
  /\ pc \in Labels
  /\ msg \in Frame \cup {Outside}
  /\ resets \in Nat /\ broken \in BOOLEAN /\ newest \in Frame /\ replayed \in Nat

Init ==
  /\ booted = "reset"
  /\ arrived = 0 /\ objects = <<>>
  /\ masked = FALSE
  /\ buffer = NewBuffer([i \in Slot |-> 0])
  /\ event = FALSE /\ kernel = "idle" /\ signal = FALSE
  /\ pc = "poll" /\ msg = 0 /\ more = FALSE
  /\ resets = 0 /\ broken = FALSE /\ newest = 0 /\ replayed = 0

----------------------------------------------------------------------------
(* The controller: not part of the repository's code. *)

\* A frame fills the next free object, or overwrites the last one.
Arrive ==
  /\ booted # "reset"
  /\ arrived < MaxFrames
  /\ arrived' = arrived + 1
  /\ objects' = IF Len(objects) < Objects
                THEN Append(objects, arrived + 1)
                ELSE [objects EXCEPT ![Objects] = arrived + 1]
  /\ UNCHANGED <<booted, masked, buffer, event, kernel, signal, pc, msg, more,
                 ghosts>>

----------------------------------------------------------------------------
(* The application task inside NodeHandle::init. *)

\* init_channel_ctrl_sub: from here on the controller accepts frames.
Subscribe ==
  /\ booted = "reset" /\ kernel = "idle"
  /\ booted' = "subscribed"
  /\ UNCHANGED <<hardware, masked, buffer, event, kernel, signal, pc, msg, more,
                 ghosts>>

\* Event, signal and ring are known, has_init and node_handle_ready are set.
Ready ==
  /\ booted = "subscribed" /\ kernel = "idle"
  /\ booted' = "ready"
  /\ UNCHANGED <<hardware, masked, buffer, event, kernel, signal, pc, msg, more,
                 ghosts>>

\* nh_ptr = this: the can_wait task may enter the message loop.
PublishHandle ==
  /\ booted = "ready" /\ kernel = "idle"
  /\ booted' = "published"
  /\ UNCHANGED <<hardware, masked, buffer, event, kernel, signal, pc, msg, more,
                 ghosts>>

----------------------------------------------------------------------------
(* The interrupt handler and the kernel. *)

NodeHandleReady == booted \in {"ready", "published"}

\* ros_can_interupt_handler for a received frame: one frame per interrupt.
Interrupt ==
  /\ objects # <<>>
  /\ ~masked
  /\ objects' = Tail(objects)
  /\ IF NodeHandleReady
       THEN /\ buffer' = Put(buffer, Head(objects))
            /\ event' = TRUE
            /\ broken' = (broken \/ Put(buffer, Head(objects)).head < 0)
       ELSE UNCHANGED <<buffer, event, broken>>
  /\ UNCHANGED <<booted, arrived, masked, kernel, signal, pc, msg, more, resets,
                 newest, replayed>>

\* The scheduler runs at a tick, when a task yields or blocks, and when idle:
\* it clears the event bit first and sends the signal afterwards.
ClearEvent ==
  /\ kernel = "idle"
  /\ event
  /\ event' = FALSE
  /\ kernel' = "handle"
  /\ UNCHANGED <<booted, hardware, masked, buffer, signal, pc, msg, more, ghosts>>

\* A plausible bug: the signal is recorded, the task is not made runnable.
HandleEventNoUnblock ==
  /\ kernel = "handle"
  /\ signal' = TRUE
  /\ kernel' = "idle"
  /\ UNCHANGED <<booted, hardware, masked, buffer, event, pc, msg, more, ghosts>>

HandleEvent ==
  /\ kernel = "handle"
  /\ signal' = TRUE
  /\ kernel' = "idle"
  /\ pc' = IF pc = "blocked" THEN "recv" ELSE pc
  /\ UNCHANGED <<booted, hardware, masked, buffer, event, msg, more, ghosts>>

----------------------------------------------------------------------------
(* The can_wait task. *)

Step(from, to) == kernel = "idle" /\ pc = from /\ pc' = to

\* task_can_wait_fn polls nh_ptr, run_handle_message_loop polls has_init.
EnterLoop ==
  /\ Step("poll", "wait")
  /\ booted = "published"
  /\ UNCHANGED <<booted, hardware, masked, buffer, event, kernel, signal, msg,
                 more, ghosts>>

\* rtos_signal_wait with the signal pending yields, which processes pending
\* events, and goes on to receive the signal.
WaitPending ==
  /\ Step("wait", "recv")
  /\ signal /\ ~event
  /\ UNCHANGED <<booted, hardware, masked, buffer, event, kernel, signal, msg,
                 more, ghosts>>

WaitBlock ==
  /\ Step("wait", "blocked")
  /\ ~signal
  /\ UNCHANGED <<booted, hardware, masked, buffer, event, kernel, signal, msg,
                 more, ghosts>>

Receive ==
  /\ Step("recv", "lock")
  /\ signal' = FALSE
  /\ replayed' = 0
  /\ UNCHANGED <<booted, hardware, masked, buffer, event, kernel, msg, more,
                 resets, broken, newest>>

\* A plausible bug: the lock does not disable the interrupt.
LockNothing ==
  /\ Step("lock", "load")
  /\ UNCHANGED <<booted, hardware, masked, buffer, event, kernel, signal, msg,
                 more, ghosts>>

Lock ==
  /\ Step("lock", "load")
  /\ masked' = TRUE
  /\ UNCHANGED <<booted, hardware, buffer, event, kernel, signal, msg, more,
                 ghosts>>

\* msg = *buffer_head.  Nothing checks that the ring is not empty.
Load ==
  /\ Step("load", "dec")
  /\ msg' = ReadHead(buffer)
  /\ broken' = (broken \/ IsEmpty(buffer))
  /\ IF buffer.head \notin Slot THEN UNCHANGED <<newest, replayed>>
     ELSE IF ReadHead(buffer) > newest
       THEN newest' = ReadHead(buffer) /\ UNCHANGED replayed
       ELSE replayed' = replayed + 1 /\ UNCHANGED newest
  /\ UNCHANGED <<booted, hardware, masked, buffer, event, kernel, signal, more,
                 resets>>

Decrement ==
  /\ Step("dec", "wrap")
  /\ buffer' = [buffer EXCEPT !.head = @ - 1]
  /\ UNCHANGED <<booted, hardware, masked, event, kernel, signal, msg, more,
                 ghosts>>

\* A plausible bug: the wrap is forgotten.
WrapNever ==
  /\ Step("wrap", "more")
  /\ UNCHANGED <<booted, hardware, masked, buffer, event, kernel, signal, msg,
                 more, ghosts>>

Wrap ==
  /\ Step("wrap", "more")
  /\ buffer' = [buffer EXCEPT !.head = IF @ < 0 THEN Size - 1 ELSE @]
  /\ UNCHANGED <<booted, hardware, masked, event, kernel, signal, msg, more,
                 ghosts>>

\* A plausible bug: more is only ever set.
MoreSticks ==
  /\ Step("more", "unlock")
  /\ more' = (more \/ ~IsEmpty(buffer))
  /\ UNCHANGED <<booted, hardware, masked, buffer, event, kernel, signal, msg,
                 ghosts>>

\* more = !is_empty(), still under the lock.
More ==
  /\ Step("more", "unlock")
  /\ more' = ~IsEmpty(buffer)
  /\ UNCHANGED <<booted, hardware, masked, buffer, event, kernel, signal, msg,
                 ghosts>>

Unlock ==
  /\ Step("unlock", "dispatch")
  /\ masked' = FALSE
  /\ UNCHANGED <<booted, hardware, buffer, event, kernel, signal, msg, more,
                 ghosts>>

\* A plausible bug: one frame per wake-up, as if every frame had its signal.
DispatchOne ==
  /\ Step("dispatch", "wait")
  /\ msg \notin ResetFrames
  /\ UNCHANGED <<booted, hardware, masked, buffer, event, kernel, signal, msg,
                 more, ghosts>>

\* Any frame but a reset: the promise or subscriber it goes to is modelled in
\* modules of its own.
Dispatch ==
  /\ kernel = "idle" /\ pc = "dispatch"
  /\ msg \notin ResetFrames
  /\ pc' = IF more THEN "lock" ELSE "wait"
  /\ UNCHANGED <<booted, hardware, masked, buffer, event, kernel, signal, msg,
                 more, ghosts>>

\* handle_channel_msg resets the processor.  The node handle lives on a task's
\* stack and nothing initialises the array of its ring, so the frames of the
\* time before the reset may or may not still be there.
DispatchReset ==
  /\ kernel = "idle" /\ pc = "dispatch"
  /\ msg \in ResetFrames
  /\ booted' = "reset"
  /\ objects' = <<>>
  /\ masked' = FALSE
  /\ \E memory \in {buffer.slots, [i \in Slot |-> 0]} : buffer' = NewBuffer(memory)
  /\ event' = FALSE /\ signal' = FALSE
  /\ pc' = "poll" /\ msg' = 0 /\ more' = FALSE
  /\ resets' = resets + 1 /\ broken' = FALSE
  /\ UNCHANGED <<arrived, kernel, newest, replayed>>

MainTask == Subscribe \/ Ready \/ PublishHandle
Kernel == ClearEvent \/ HandleEvent
CanWaitTask ==
  \/ EnterLoop \/ WaitPending \/ WaitBlock \/ Receive
  \/ Lock \/ Load \/ Decrement \/ Wrap \/ More \/ Unlock
  \/ Dispatch \/ DispatchReset

Next == Arrive \/ MainTask \/ Interrupt \/ Kernel \/ CanWaitTask

Spec == Init /\ [][Next]_vars

\* The interrupt is taken when it is enabled, the tick runs the scheduler
\* every 10 ms, no task has a higher priority than can_wait, and the
\* application task runs whenever can_wait is blocked or sleeps.
Fairness ==
  WF_vars(MainTask) /\ WF_vars(Interrupt) /\ WF_vars(Kernel) /\ WF_vars(CanWaitTask)

FairSpec == Spec /\ Fairness

----------------------------------------------------------------------------
\* A signal that is already pending wakes only a task that has yet to wait.
Awake == event \/ kernel = "handle" \/ (signal /\ pc # "blocked")

\* A frame in the ring always has somebody on the way to fetch it: whenever the
\* task waits, or has decided to wait because it found the ring empty, a
\* non-empty ring comes with an event or a signal that will wake the task.
NoLostWakeup ==
  /\ pc \in {"poll", "wait", "blocked"} \/ (pc = "dispatch" /\ ~more)
  /\ ~IsEmpty(buffer)
  => Awake

\* A wake-up that finds nothing new replays at most what the array holds.
ReplayBounded == replayed <= Size

\* Frames are finitely many in the model.  Once they cease, every frame received
\* has been handled and the task sleeps on an empty ring, whatever faults and
\* resets there were before.
Quiet == pc = "blocked" /\ IsEmpty(buffer) /\ objects = <<>>
ComesToRest == []<>Quiet

\* Where the ring is read next: msg leaves the queue with its load, and a cursor
\* below the array is about to be wrapped.
Reader ==
  IF pc = "dec" THEN StepDown(buffer.head)
  ELSE IF buffer.head < 0 THEN Size - 1
  ELSE buffer.head

\* The pop and the interrupt's put, interleaved statement by statement, behave
\* as one bounded queue until the ring is popped empty or head leaves the
\* array; and those are possible only when the queue is empty or full.
Fifo == INSTANCE BoundedFifo WITH
  Capacity <- Size - 1,
  Message  <- 1 .. MaxFrames,
  queue    <- Contents(buffer.slots, Reader, buffer.tail),
  taken    <- msg,
  restarts <- resets

FifoSpec == Fifo!Spec
=============================================================================
