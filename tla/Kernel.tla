------------------------------- MODULE Kernel -------------------------------
(***************************************************************************)
(* The Kochab kernel of eChronos under the modules' two tasks: the         *)
(* scheduler that follows blocked_on from the highest priority down, the   *)
(* mutexes that lend the waiter's priority to the holder, signals, sleep   *)
(* and the tick, preemption by PendSV and the idle loop.                   *)
(*                                                                         *)
(* Task ids are the tasks in order of priority, 0 the highest.  A mutex    *)
(* waiter sleeps on its own TASK_TIMER signal, the signal sleep uses too,  *)
(* so the kernel is right only if that signal is never left over.          *)
(*                                                                         *)
(* A kernel call runs with preemption disabled and is one action up to the *)
(* point where it yields.  An interrupt handler may run between any two    *)
(* actions.                                                                *)
(***************************************************************************)
EXTENDS Integers, FiniteSets

CONSTANTS
  NumTasks,      \* rtos_internal_tasks
  NumMutexes,    \* mutexes
  MaxSleep,      \* bound of the model: ticks in a sleep
  EventTask,     \* the task of the interrupt event (can_wait)
  Periodic,      \* the tasks a periodic timer of the application signals
  NONE           \* TASK_ID_NONE and MUTEX_ID_NONE

Task == 0 .. NumTasks - 1
Mutex == 0 .. NumMutexes - 1

ASSUME KernelAssumption ==
  /\ NumTasks \in Nat \ {0} /\ NumMutexes \in Nat /\ MaxSleep \in Nat
  /\ EventTask \in Task /\ Periodic \subseteq Task
  /\ NONE \notin Int

TASK_TIMER == "task_timer"
APP == "app"                 \* can_receive_signal, or the signal of a promise
Signal == {TASK_TIMER, APP}

VARIABLES
  blocked_on,        \* the scheduler's object of each task
  signals,           \* pending signals of each task
  holder,            \* of each mutex
  mutex_waiters,     \* the mutex each task waits for
  timer,             \* ticks until the task's own timer expires, 0: disabled
  pending_ticks,     \* timer_pending_ticks
  interrupt_event,   \* the event's flag
  current_task,
  pend,              \* PendSV is pending
  scheduling,        \* in interrupt_event_get_next, called by SVC or PendSV
  pc,                \* "run", or the call the task is blocked in
  wanted,            \* the mutex mutex_lock is called with
  blocker,           \* the blocker the task's wait was called with
  held               \* ghost: the mutexes the task believes it holds

sched == <<current_task, pend, scheduling>>
locks == <<holder, mutex_waiters, held>>
inputs == <<pending_ticks, interrupt_event>>
local == <<pc, wanted, blocker>>
vars == <<blocked_on, signals, locks, timer, inputs, sched, local>>

TypeOK ==
  /\ blocked_on \in [Task -> Task \cup {NONE}]
  /\ signals \in [Task -> SUBSET Signal]
  /\ holder \in [Mutex -> Task \cup {NONE}]
  /\ mutex_waiters \in [Task -> Mutex \cup {NONE}]
  /\ timer \in [Task -> 0 .. MaxSleep]
  /\ pending_ticks \in 0 .. 1
  /\ interrupt_event \in BOOLEAN
  /\ current_task \in Task
  /\ pend \in BOOLEAN
  /\ scheduling \in BOOLEAN
  /\ pc \in [Task -> {"run", "sleep", "signal", "mutex"}]
  /\ wanted \in [Task -> Mutex \cup {NONE}]
  /\ blocker \in [Task -> Task \cup {NONE}]
  /\ held \in [Task -> SUBSET Mutex]

Init ==
  /\ blocked_on = [t \in Task |-> t]
  /\ signals = [t \in Task |-> {}]
  /\ holder = [m \in Mutex |-> NONE]
  /\ mutex_waiters = [t \in Task |-> NONE]
  /\ timer = [t \in Task |-> 0]
  /\ pending_ticks = 0 /\ interrupt_event = FALSE
  /\ current_task = 0 /\ pend = FALSE /\ scheduling = FALSE
  /\ pc = [t \in Task |-> "run"]
  /\ wanted = [t \in Task |-> NONE]
  /\ blocker = [t \in Task |-> NONE]
  /\ held = [t \in Task |-> {}]

----------------------------------------------------------------------------
(* The interrupt handlers and the scheduler. *)

\* A plausible bug: ticks are counted without a limit.
TickUncounted ==
  /\ pending_ticks' = pending_ticks + 1
  /\ pend' = TRUE
  /\ UNCHANGED <<blocked_on, signals, locks, timer, interrupt_event,
                 current_task, scheduling, local>>

\* The systick handler asks for a preemption.  A second tick before the first
\* is processed is the kernel's fatal error: no kernel call takes that long.
Tick ==
  /\ pending_ticks = 0
  /\ pending_ticks' = 1
  /\ pend' = TRUE
  /\ UNCHANGED <<blocked_on, signals, locks, timer, interrupt_event,
                 current_task, scheduling, local>>

\* The CAN handler raises its event.  It asks for no preemption: the event is
\* seen when the scheduler runs next.
RaiseEvent ==
  /\ interrupt_event' = TRUE
  /\ UNCHANGED <<blocked_on, signals, locks, timer, pending_ticks, sched, local>>

\* PendSV waits for preemption to be enabled, as it is in a task that runs
\* its own code.
PendSV ==
  /\ pend /\ ~scheduling /\ pc[current_task] = "run"
  /\ pend' = FALSE /\ scheduling' = TRUE
  /\ UNCHANGED <<blocked_on, signals, locks, timer, inputs, current_task, local>>

\* Where the walk along b that starts at each task is after n steps.
Steps(b) ==
  LET f[n \in Nat] == IF n = 0 THEN [t \in Task |-> t]
                      ELSE [t \in Task |->
                             IF f[n - 1][t] = NONE THEN NONE ELSE b[f[n - 1][t]]]
  IN  f

\* Where it ends: at a task blocked on itself, at NONE, or, if b has a cycle,
\* still walking after as many steps as there are tasks.
Walk(b) == Steps(b)[NumTasks]

\* sched_get_next returns n: the first task whose walk ends at a runnable one,
\* or NONE.  A walk that meets a cycle goes round for ever.
GetsNext(b, n) ==
  LET end == Walk(b)
      stuck(t) == end[t] # NONE /\ b[end[t]] # end[t]
      idle(t) == end[t] = NONE
  IN  \/ \E t \in Task : /\ \A h \in 0 .. t - 1 : idle(h)
                         /\ ~idle(t) /\ ~stuck(t)
                         /\ n = end[t]
      \/ n = NONE /\ \A t \in Task : idle(t)

\* signal_send_set to each task of a set: the signal is pending ...
Signalled(S, sig) == [t \in Task |-> IF t \in S THEN signals[t] \cup {sig} ELSE signals[t]]

\* ... and unblock makes the task runnable, whatever it waits for.
Unblocked(b, S) == [t \in Task |-> IF t \in S THEN t ELSE b[t]]

\* A plausible bug: unblock asks for no preemption.
NotPended(S) == FALSE

\* It also asks for a preemption, for the task may have the higher priority.
Pended(S) == S # {}

\* The task timers this round's tick expires.
Expired == {t \in Task : pending_ticks = 1 /\ timer[t] = 1}

\* One round of interrupt_event_get_next: the event, the tick, the choice.
\* With no task to run the handler stays in its loop.
GetNext ==
  LET evented == IF interrupt_event THEN {EventTask} ELSE {}
  IN  \E periodic \in SUBSET (IF pending_ticks = 1 THEN Periodic ELSE {}) :
        LET b == Unblocked(blocked_on, Expired \cup evented \cup periodic)
        IN  /\ scheduling
            /\ blocked_on' = b
            /\ signals' = [t \in Task |-> Signalled(Expired, TASK_TIMER)[t]
                                            \cup Signalled(evented, APP)[t]]
            /\ timer' = [t \in Task |->
                 IF pending_ticks = 1 /\ timer[t] > 0 THEN timer[t] - 1 ELSE timer[t]]
            /\ interrupt_event' = FALSE /\ pending_ticks' = 0
            /\ pend' = (pend \/ Pended(Expired \cup evented \cup periodic))
            /\ \E n \in Task \cup {NONE} :
                 /\ GetsNext(b, n)
                 /\ scheduling' = (n = NONE)
                 /\ current_task' = IF n = NONE THEN current_task ELSE n
            /\ UNCHANGED <<locks, local>>

----------------------------------------------------------------------------
(* The kernel calls of the current task. *)

Running(t) == t = current_task /\ ~scheduling /\ ~pend /\ pc[t] = "run"

\* A plausible bug: a task blocks without a blocker, and lends it nothing.
WaitAlone(t, call, requested, who) ==
  /\ pc' = [pc EXCEPT ![t] = call]
  /\ blocker' = [blocker EXCEPT ![t] = who]
  /\ blocked_on' = [blocked_on EXCEPT
       ![t] = IF requested \cap signals[t] # {} THEN @ ELSE NONE]
  /\ scheduling' = TRUE

\* signal_wait_set_blocked_on up to its yield: with a requested signal pending
\* the task only yields.
Wait(t, call, requested, who) ==
  /\ pc' = [pc EXCEPT ![t] = call]
  /\ blocker' = [blocker EXCEPT ![t] = who]
  /\ blocked_on' = [blocked_on EXCEPT
       ![t] = IF requested \cap signals[t] # {} THEN @ ELSE who]
  /\ scheduling' = TRUE

\* mutex_try_lock has succeeded.
Take(t, m) ==
  /\ holder' = [holder EXCEPT ![m] = t]
  /\ held' = [held EXCEPT ![t] = @ \cup {m}]

\* mutex_try_lock's test.
Free(m) == holder[m] = NONE

\* A plausible bug: a task that has print takes alloc.
MayLockAny(t, m) == m \notin held[t]

\* The tasks take alloc before print, never the other way round.
MayLock(t, m) == \A h \in held[t] : h < m

Lock(t, m) ==
  /\ Running(t) /\ MayLock(t, m)
  /\ IF Free(m)
     THEN /\ Take(t, m)
          /\ UNCHANGED <<blocked_on, mutex_waiters, local, scheduling>>
     ELSE /\ mutex_waiters' = [mutex_waiters EXCEPT ![t] = m]
          /\ wanted' = [wanted EXCEPT ![t] = m]
          /\ Wait(t, "mutex", {TASK_TIMER}, holder[m])
          /\ UNCHANGED <<holder, held>>
  /\ UNCHANGED <<signals, timer, inputs, current_task, pend>>

WaitersOf(m) == {w \in Task : mutex_waiters[w] = m}

\* A plausible bug: a task that has been woken still counts as a waiter.
StillWaiting(S) == mutex_waiters

NoLongerWaiting(S) == [w \in Task |-> IF w \in S THEN NONE ELSE mutex_waiters[w]]

\* mutex_unlock: every waiter is woken, then the mutex is free.
Unlock(t, m) ==
  /\ Running(t)
  /\ m \in held[t] /\ \A h \in held[t] : h <= m
  /\ mutex_waiters' = NoLongerWaiting(WaitersOf(m))
  /\ signals' = Signalled(WaitersOf(m), TASK_TIMER)
  /\ blocked_on' = Unblocked(blocked_on, WaitersOf(m))
  /\ pend' = Pended(WaitersOf(m))
  /\ holder' = [holder EXCEPT ![m] = NONE]
  /\ held' = [held EXCEPT ![t] = @ \ {m}]
  /\ UNCHANGED <<timer, inputs, current_task, scheduling, local>>

\* rtos_sleep: a one-shot timer and a wait for its signal.
Sleep(t, n) ==
  /\ Running(t) /\ held[t] = {}
  /\ timer' = [timer EXCEPT ![t] = n]
  /\ Wait(t, "sleep", {TASK_TIMER}, NONE)
  /\ UNCHANGED <<signals, locks, inputs, current_task, pend, wanted>>

\* rtos_signal_wait, in can_wait's loop and in a promise.
SignalWait(t) ==
  /\ Running(t) /\ held[t] = {}
  /\ Wait(t, "signal", {APP}, NONE)
  /\ UNCHANGED <<signals, locks, timer, inputs, current_task, pend, wanted>>

\* rtos_signal_send, with which can_wait resolves a promise.
SignalSend(t, u) ==
  /\ Running(t)
  /\ signals' = Signalled({u}, APP)
  /\ blocked_on' = Unblocked(blocked_on, {u})
  /\ pend' = Pended({u})
  /\ UNCHANGED <<locks, timer, inputs, current_task, scheduling, local>>

Requested(t) == IF pc[t] = "signal" THEN {APP} ELSE {TASK_TIMER}
Woken(t) == Requested(t) \cap signals[t] # {}

\* The task is back from its yield, preemption still disabled.  A signal that
\* is not the one it waits for sends it back to the same blocker; a mutex that
\* is taken again sends it to the new holder.
Resume(t) ==
  /\ t = current_task /\ ~scheduling /\ pc[t] # "run"
  /\ IF ~Woken(t)
     THEN /\ blocked_on' = [blocked_on EXCEPT ![t] = blocker[t]]
          /\ scheduling' = TRUE
          /\ UNCHANGED <<signals, locks, local>>
     ELSE /\ signals' = [signals EXCEPT ![t] = @ \ Requested(t)]
          /\ IF pc[t] = "mutex" /\ ~Free(wanted[t])
             THEN /\ mutex_waiters' = [mutex_waiters EXCEPT ![t] = wanted[t]]
                  /\ blocker' = [blocker EXCEPT ![t] = holder[wanted[t]]]
                  /\ blocked_on' = [blocked_on EXCEPT ![t] = holder[wanted[t]]]
                  /\ scheduling' = TRUE
                  /\ UNCHANGED <<holder, held, pc, wanted>>
             ELSE /\ pc' = [pc EXCEPT ![t] = "run"]
                  /\ wanted' = [wanted EXCEPT ![t] = NONE]
                  /\ blocker' = [blocker EXCEPT ![t] = NONE]
                  /\ IF pc[t] = "mutex" THEN Take(t, wanted[t])
                                        ELSE UNCHANGED <<holder, held>>
                  /\ UNCHANGED <<blocked_on, mutex_waiters, scheduling>>
  /\ UNCHANGED <<timer, inputs, current_task, pend>>

TaskStep(t) ==
  \/ \E m \in Mutex : Lock(t, m) \/ Unlock(t, m)
  \/ \E n \in 1 .. MaxSleep : Sleep(t, n)
  \/ SignalWait(t)
  \/ \E u \in Task : SignalSend(t, u)
  \/ Resume(t)

Next == Tick \/ RaiseEvent \/ PendSV \/ GetNext \/ \E t \in Task : TaskStep(t)

Spec == Init /\ [][Next]_vars

\* The processor goes on: what the kernel has begun it finishes.
KernelStep == PendSV \/ GetNext \/ \E t \in Task : Resume(t)

\* Ticks keep coming, and between two of them the task that has a mutex gets
\* far enough to release it.
Fairness ==
  /\ WF_vars(Tick) /\ WF_vars(KernelStep)
  /\ \A m \in Mutex : SF_vars(\E t \in Task : Unlock(t, m))

FairSpec == Spec /\ Fairness

----------------------------------------------------------------------------
(* Properties. *)

\* The kernel's idea of a mutex's holder and the task's own agree: a task that
\* returned from mutex_lock holds the mutex and no other task does.
HoldersAgree == \A m \in Mutex, t \in Task : m \in held[t] <=> holder[m] = t

\* A task that waits for a mutex and has not been woken waits for its present
\* holder: the wake-up is still to come, and the priority it lends goes to the
\* task that has the mutex.
WaiterKnowsHolder ==
  \A t \in Task :
    pc[t] = "mutex" /\ TASK_TIMER \notin signals[t] =>
      /\ mutex_waiters[t] = wanted[t]
      /\ blocker[t] # NONE /\ blocker[t] = holder[wanted[t]]
      /\ blocked_on[t] \in {t, blocker[t]}

\* A task that is woken to take a mutex finds it free: nothing that runs before
\* it does can take the mutex first, although mutex_unlock only frees it.  That
\* is so for two tasks and for three.  Of four, one above it can take the mutex
\* and another need what the woken task has, which then runs in its place, too
\* early, finds the mutex taken and waits again.
NeverWaitsTwice ==
  ~scheduling /\ pc[current_task] = "mutex" /\ Woken(current_task) =>
    holder[wanted[current_task]] = NONE

\* The four views of a mutex never part: the kernel's holder, the task that
\* believes it has the mutex, the waiter's blocker and the one that is woken.
MutexViewsAgree == HoldersAgree /\ WaiterKnowsHolder /\ NeverWaitsTwice

\* TASK_TIMER, which a mutex and a sleep both use, is never left over: it is
\* pending only in a task that waits for it, and for the reason it waits: its
\* timer has run out, or its mutex was released.
TimerSignalIsOwed ==
  \A t \in Task :
    /\ TASK_TIMER \in signals[t] =>
         \/ pc[t] = "sleep" /\ timer[t] = 0
         \/ pc[t] = "mutex" /\ mutex_waiters[t] = NONE
    /\ timer[t] > 0 => pc[t] = "sleep"
    /\ pc[t] = "sleep" /\ timer[t] = 0 => TASK_TIMER \in signals[t]

\* A wait that is over, whatever woke the task, has made it runnable.
WokenIsRunnable ==
  \A t \in Task : pc[t] = "run" \/ Woken(t) => blocked_on[t] = t

\* No wake-up is left over and none is lost: a signal is pending only for the
\* wait it ends, and a wait that is over leaves the task runnable.
WakeUpsAreOwed == TimerSignalIsOwed /\ WokenIsRunnable

\* Whom t waits for, seen from the mutexes: the holder, the holder of what the
\* holder waits for, and so on.
WaitsFor(t) == IF pc[t] = "mutex" /\ ~Woken(t) THEN holder[wanted[t]] ELSE t
Ready(t) == pc[t] = "run" \/ Woken(t)
Culprit == Walk([t \in Task |-> WaitsFor(t)])

Idle(t) == ~Ready(t) /\ pc[t] # "mutex"

\* No priority inversion.  While a task runs its own code, the highest of the
\* tasks above it that does not wait for time or a signal waits for a mutex
\* that the running task, possibly through other mutexes, keeps it from.
NoInversion ==
  ~scheduling /\ ~pend /\ pc[current_task] = "run" =>
    \A h \in 0 .. current_task - 1 :
      Idle(h) \/ \E g \in 0 .. h : ~Idle(g) /\ Culprit[g] = current_task

\* sched_get_next ends: no walk along blocked_on goes round.
SchedulerEnds ==
  \A t \in Task : LET end == Walk(blocked_on)[t]
                  IN  end # NONE => blocked_on[end] = end

\* The task of the highest priority gets the mutex it waits for, however busy
\* the tasks between it and the holder are, unless interrupts come so fast that
\* no task ever gets back to its own code; and each of its sleeps ends.
TopGoesOn ==
  /\ []<>Running(current_task) => (pc[0] = "mutex" ~> pc[0] = "run")
  /\ pc[0] = "sleep" ~> pc[0] = "run"
=============================================================================
