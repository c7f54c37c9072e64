--------------------------- MODULE Kernel_proofs ---------------------------
(***************************************************************************)
(* For any number of tasks and mutexes: the kernel's views of a mutex      *)
(* agree, no wake-up is lost or left over, sched_get_next ends, and no     *)
(* priority is inverted.  Of two tasks, the one that is woken to take a    *)
(* mutex finds it free.                                                    *)
(*                                                                         *)
(* The first invariant, IInv, does not need to know whom the scheduler     *)
(* chooses.  The second, Orderly, does: it says that the running task is   *)
(* still the one the walk along blocked_on ends at.                        *)
(***************************************************************************)
EXTENDS Kernel, FiniteSetTheorems, WellFoundedInduction, TLAPS

----------------------------------------------------------------------------
(* Walks along a graph of tasks. *)

\* A nonempty set of natural numbers has a least element.
LEMMA LeastNat ==
  ASSUME NEW S \in SUBSET Nat, S # {}
  PROVE  \E n \in S : \A m \in S : n <= m
<1> DEFINE R == OpToRel(<, Nat)
<1>1. IsWellFoundedOn(R, Nat)
  BY NatLessThanWellFounded, Zenon
<1>2. \A x, y \in Nat : <<x, y>> \in R <=> x < y
  BY DEF OpToRel
<1> HIDE DEF R
<1>3. \E x \in S : \A y \in S : ~ (<<y, x>> \in R)
  BY <1>1, WFMin
<1>4. PICK n \in S : \A y \in S : ~ (<<y, n>> \in R)
  BY <1>3
<1>5. \A y \in S : ~ (y < n)
  BY <1>2, <1>4
<1> QED
  BY <1>5

\* Induction: a set with 0 and with the successor of each member is Nat.
LEMMA Inductive ==
  ASSUME NEW S, 0 \in S, \A n \in Nat : n \in S => n + 1 \in S
  PROVE  Nat \subseteq S
<1> SUFFICES ASSUME Nat \ S # {} PROVE FALSE
  OBVIOUS
<1>1. PICK n \in Nat \ S : \A m \in Nat \ S : n <= m
  <2>1. Nat \ S \in SUBSET Nat
    OBVIOUS
  <2> QED
    BY <2>1, LeastNat
<1>2. n - 1 \in Nat /\ ~ (n <= n - 1)
  BY <1>1
<1>3. n - 1 \in S
  BY <1>1, <1>2
<1>4. (n - 1) + 1 \in S /\ (n - 1) + 1 = n
  BY <1>1, <1>2, <1>3
<1> QED
  BY <1>1, <1>4

LEMMA TaskFacts ==
  NumTasks \in Nat \ {0} /\ NONE \notin Task
  BY KernelAssumption DEF KernelAssumption, Task

\* A step of all walks at once.
Hop(b, w) == [t \in Task |-> IF w[t] = NONE THEN NONE ELSE b[w[t]]]
Ends == [Task -> Task \cup {NONE}]
Begun(b, n, g) ==
  /\ g \in [0 .. n -> Ends] /\ g[0] = [t \in Task |-> t]
  /\ \A i \in 1 .. n : g[i] = Hop(b, g[i - 1])

\* The recursive definition has a solution: one is begun for every n, and
\* two agree where both are defined.
LEMMA StepsDef ==
  ASSUME NEW b \in Ends
  PROVE  \A n \in Nat : Steps(b)[n] = IF n = 0 THEN [t \in Task |-> t]
                                      ELSE Hop(b, Steps(b)[n - 1])
<1>1. \A w \in Ends : Hop(b, w) \in Ends
  BY DEF Hop, Ends
<1>2. [t \in Task |-> t] \in Ends
  BY DEF Ends
<1>3. \A n \in Nat : \E g : Begun(b, n, g)
  <2> DEFINE S == {n \in Nat : \E g : Begun(b, n, g)}
  <2>1. 0 \in S
    <3>1. Begun(b, 0, [i \in 0 .. 0 |-> [t \in Task |-> t]])
      BY <1>2 DEF Begun
    <3> QED
      BY <3>1
  <2>2. ASSUME NEW n \in Nat, n \in S PROVE n + 1 \in S
    <3>1. PICK g : Begun(b, n, g)
      BY <2>2
    <3> DEFINE h == [i \in 0 .. n + 1 |-> IF i = n + 1 THEN Hop(b, g[n]) ELSE g[i]]
    <3>2. g[n] \in Ends /\ \A i \in 0 .. n : g[i] \in Ends
      BY <3>1 DEF Begun
    <3>3. h \in [0 .. n + 1 -> Ends]
      BY <1>1, <3>2
    <3>4. h[0] = [t \in Task |-> t]
      BY <3>1 DEF Begun
    <3>5. ASSUME NEW i \in 1 .. n + 1 PROVE h[i] = Hop(b, h[i - 1])
      <4>1. CASE i = n + 1
        BY <4>1
      <4>2. CASE i # n + 1
        <5>1. i \in 1 .. n /\ i - 1 \in 0 .. n /\ i - 1 # n + 1
          BY <4>2
        <5>2. h[i] = g[i] /\ h[i - 1] = g[i - 1]
          BY <4>2, <5>1
        <5>3. g[i] = Hop(b, g[i - 1])
          BY <3>1, <5>1 DEF Begun
        <5> QED
          BY <5>2, <5>3
      <4> QED
        BY <4>1, <4>2
    <3> HIDE DEF h
    <3>6. Begun(b, n + 1, h)
      BY <3>3, <3>4, <3>5 DEF Begun
    <3> QED
      BY <3>6
  <2> HIDE DEF S
  <2>3. Nat \subseteq S
    BY <2>1, <2>2, Inductive
  <2> QED
    BY <2>3 DEF S
<1>4. ASSUME NEW m \in Nat, NEW n \in Nat, NEW g, NEW h, Begun(b, m, g), Begun(b, n, h)
      PROVE  \A i \in Nat : i <= m /\ i <= n => g[i] = h[i]
  <2> DEFINE S == {i \in Nat : i <= m /\ i <= n => g[i] = h[i]}
  <2>1. 0 \in S
    BY <1>4 DEF Begun
  <2>2. ASSUME NEW i \in Nat, i \in S PROVE i + 1 \in S
    <3> SUFFICES ASSUME i + 1 <= m, i + 1 <= n PROVE g[i + 1] = h[i + 1]
      OBVIOUS
    <3>1. g[i] = h[i] /\ i + 1 \in 1 .. m /\ i + 1 \in 1 .. n /\ (i + 1) - 1 = i
      BY <2>2
    <3> QED
      BY <1>4, <3>1 DEF Begun
  <2> HIDE DEF S
  <2>3. Nat \subseteq S
    BY <2>1, <2>2, Inductive
  <2> QED
    BY <2>3 DEF S
<1> DEFINE a(n) == CHOOSE g : Begun(b, n, g)
           F == [n \in Nat |-> a(n)[n]]
           body(f) == [n \in Nat |-> IF n = 0 THEN [t \in Task |-> t]
                                     ELSE [t \in Task |-> IF f[n - 1][t] = NONE
                                             THEN NONE ELSE b[f[n - 1][t]]]]
<1>5. \A n \in Nat : Begun(b, n, a(n))
  BY <1>3
<1> HIDE DEF a
<1>6. \A n \in Nat : F[n] = IF n = 0 THEN [t \in Task |-> t] ELSE Hop(b, F[n - 1])
  <2> SUFFICES ASSUME NEW n \in Nat
               PROVE  F[n] = IF n = 0 THEN [t \in Task |-> t] ELSE Hop(b, F[n - 1])
    OBVIOUS
  <2>1. CASE n = 0
    <3>1. a(0)[0] = [t \in Task |-> t]
      BY <1>5 DEF Begun
    <3> QED
      BY <2>1, <3>1
  <2>2. CASE n # 0
    <3>1. n - 1 \in Nat /\ n \in 1 .. n /\ n - 1 <= n /\ n - 1 <= n - 1
      BY <2>2
    <3>2. a(n)[n] = Hop(b, a(n)[n - 1])
      BY <1>5, <3>1 DEF Begun
    <3>3. a(n)[n - 1] = a(n - 1)[n - 1]
      BY <1>4, <1>5, <3>1
    <3> QED
      BY <2>2, <3>1, <3>2, <3>3
  <2> QED
    BY <2>1, <2>2
<1>7. F = body(F)
  <2>1. \A n \in Nat : F[n] = body(F)[n]
    BY <1>6 DEF Hop
  <2> QED
    BY <2>1
<1> HIDE DEF F
<1>8. Steps(b) = CHOOSE f : f = body(f)
  BY DEF Steps
<1> HIDE DEF body
<1>9. Steps(b) = body(Steps(b))
  BY <1>7, <1>8, Zenon
<1> QED
  BY <1>9 DEF body, Hop

\* Where a walk is after each step; NONE is where it stays.
LEMMA StepsFacts ==
  ASSUME NEW b \in Ends
  PROVE  /\ \A n \in Nat : Steps(b)[n] \in Ends
         /\ \A t \in Task : Steps(b)[0][t] = t
         /\ \A n \in Nat, t \in Task :
              Steps(b)[n + 1][t] = IF Steps(b)[n][t] = NONE THEN NONE
                                   ELSE b[Steps(b)[n][t]]
<1> DEFINE S == {n \in Nat : Steps(b)[n] \in Ends}
<1>0. \A w \in Ends : /\ Hop(b, w) \in Ends
                      /\ \A t \in Task : Hop(b, w)[t] = IF w[t] = NONE THEN NONE ELSE b[w[t]]
  BY DEF Hop, Ends
<1>1. Steps(b)[0] = [t \in Task |-> t]
  BY StepsDef
<1>2. ASSUME NEW n \in Nat PROVE Steps(b)[n + 1] = Hop(b, Steps(b)[n])
  <2>1. n + 1 \in Nat /\ n + 1 # 0 /\ (n + 1) - 1 = n
    OBVIOUS
  <2> QED
    BY <2>1, StepsDef
<1>3. 0 \in S
  BY <1>1 DEF Ends
<1>4. \A n \in Nat : n \in S => n + 1 \in S
  BY <1>0, <1>2
<1> HIDE DEF S
<1>5. Nat \subseteq S
  BY <1>3, <1>4, Inductive
<1>6. \A n \in Nat : Steps(b)[n] \in Ends
  BY <1>5 DEF S
<1> QED
  BY <1>0, <1>1, <1>2, <1>6

\* A walk that has come to a task blocked on itself stays there.
LEMMA WalkStays ==
  ASSUME NEW b \in Ends, NEW t \in Task, NEW i \in Nat, NEW u \in Task,
         Steps(b)[i][t] = u, b[u] = u
  PROVE  \A j \in Nat : i <= j => Steps(b)[j][t] = u
<1> USE TaskFacts
<1> DEFINE S == {j \in Nat : i <= j => Steps(b)[j][t] = u}
<1>1. 0 \in S
  OBVIOUS
<1>2. ASSUME NEW j \in Nat, j \in S PROVE j + 1 \in S
  <2>1. CASE i = j + 1
    BY <2>1
  <2>2. CASE i # j + 1
    <3> SUFFICES ASSUME i <= j + 1 PROVE Steps(b)[j + 1][t] = u
      OBVIOUS
    <3>1. i <= j
      BY <2>2
    <3> QED
      BY <1>2, <3>1, StepsFacts
  <2> QED
    BY <2>1, <2>2
<1> HIDE DEF S
<1>3. Nat \subseteq S
  BY <1>1, <1>2, Inductive
<1> QED
  BY <1>3 DEF S

LEMMA WalkOfRunnable ==
  ASSUME NEW b \in Ends, NEW t \in Task, b[t] = t PROVE Walk(b)[t] = t
<1>1. Steps(b)[0][t] = t
  BY StepsFacts
<1> QED
  BY <1>1, WalkStays, TaskFacts DEF Walk

LEMMA WalkDies ==
  ASSUME NEW b \in Ends, NEW t \in Task, b[t] = NONE PROVE Walk(b)[t] = NONE
<1> USE TaskFacts
<1> DEFINE K == {n \in Nat : Steps(b)[n + 1][t] = NONE}
<1>1. 0 \in K
  BY StepsFacts
<1>2. \A n \in Nat : n \in K => n + 1 \in K
  BY StepsFacts
<1> HIDE DEF K
<1>3. Nat \subseteq K
  BY <1>1, <1>2, Inductive
<1>4. NumTasks - 1 \in K /\ (NumTasks - 1) + 1 = NumTasks
  BY <1>3
<1> QED
  BY <1>4 DEF K, Walk

\* A set of tasks that no step leaves is not left by a walk.
LEMMA WalkKeepsTo ==
  ASSUME NEW b \in Ends, NEW S \in SUBSET Task, \A u \in S : b[u] \in S, NEW t \in S
  PROVE  \A n \in Nat : Steps(b)[n][t] \in S
<1> USE TaskFacts
<1> DEFINE K == {n \in Nat : Steps(b)[n][t] \in S}
<1>1. 0 \in K
  BY StepsFacts
<1>2. ASSUME NEW n \in Nat, n \in K PROVE n + 1 \in K
  <2>1. t \in Task /\ Steps(b)[n][t] \in S
    BY <1>2
  <2>2. Steps(b)[n + 1][t] = b[Steps(b)[n][t]]
    BY <2>1, StepsFacts
  <2> QED
    BY <2>1, <2>2
<1> HIDE DEF K
<1>3. Nat \subseteq K
  BY <1>1, <1>2, Inductive
<1> QED
  BY <1>3 DEF K

\* A walk ends if something grows along it: as long as it has not ended, its
\* tasks are all different, and after NumTasks steps there would be one too many.
LEMMA WalkEnds ==
  ASSUME NEW b \in Ends, NEW S \in SUBSET Task, \A u \in S : b[u] \in S,
         NEW rank \in [Task -> Int],
         \A u \in S : b[u] # u /\ b[b[u]] # b[u] => rank[u] < rank[b[u]],
         NEW t \in S
  PROVE  /\ Walk(b)[t] \in S
         /\ b[Walk(b)[t]] = Walk(b)[t]
<1> USE TaskFacts
<1> DEFINE p(n) == Steps(b)[n][t]
<1>1. \A n \in Nat : p(n) \in S /\ p(n + 1) = b[p(n)]
  <2>1. \A n \in Nat : p(n) \in S
    BY WalkKeepsTo
  <2>2. \A n \in Nat : p(n + 1) = b[p(n)]
    <3> SUFFICES ASSUME NEW n \in Nat PROVE p(n + 1) = b[p(n)]
      OBVIOUS
    <3>1. t \in Task /\ p(n) \in S
      BY <2>1
    <3> QED
      BY <3>1, StepsFacts
  <2> QED
    BY <2>1, <2>2
<1>2. Walk(b)[t] = p(NumTasks)
  BY DEF Walk
<1>3. \A i, j \in Nat : i <= j /\ b[p(i)] = p(i) => p(j) = p(i)
  BY <1>1, WalkStays
<1> HIDE DEF p
<1> SUFFICES ASSUME b[p(NumTasks)] # p(NumTasks) PROVE FALSE
  BY <1>1, <1>2
<1>4. \A i \in 0 .. NumTasks : b[p(i)] # p(i)
  BY <1>3
<1>5. \A i \in 0 .. NumTasks - 1 : rank[p(i)] < rank[p(i + 1)]
  <2> SUFFICES ASSUME NEW i \in 0 .. NumTasks - 1 PROVE rank[p(i)] < rank[p(i + 1)]
    OBVIOUS
  <2>1. i \in 0 .. NumTasks /\ i + 1 \in 0 .. NumTasks
    OBVIOUS
  <2> QED
    BY <1>1, <1>4, <2>1
<1>6. ASSUME NEW i \in 0 .. NumTasks
      PROVE  \A j \in Nat : i < j /\ j <= NumTasks => rank[p(i)] < rank[p(j)]
  <2> DEFINE K == {j \in Nat : i < j /\ j <= NumTasks => rank[p(i)] < rank[p(j)]}
  <2>1. 0 \in K
    OBVIOUS
  <2>2. ASSUME NEW j \in Nat, j \in K PROVE j + 1 \in K
    <3> SUFFICES ASSUME i < j + 1, j + 1 <= NumTasks PROVE rank[p(i)] < rank[p(j + 1)]
      OBVIOUS
    <3>1. rank[p(j)] < rank[p(j + 1)] /\ (i = j \/ i < j)
      BY <1>5
    <3>2. rank[p(i)] \in Int /\ rank[p(j)] \in Int /\ rank[p(j + 1)] \in Int
      BY <1>1
    <3> QED
      BY <2>2, <3>1, <3>2
  <2> HIDE DEF K
  <2>3. Nat \subseteq K
    BY <2>1, <2>2, Inductive
  <2> QED
    BY <2>3 DEF K
<1>7. \A i, j \in 0 .. NumTasks : i # j => p(i) # p(j)
  <2> SUFFICES ASSUME NEW i \in 0 .. NumTasks, NEW j \in 0 .. NumTasks, i # j,
                      p(i) = p(j)
               PROVE  FALSE
    OBVIOUS
  <2>1. rank[p(i)] \in Int /\ rank[p(j)] = rank[p(i)]
    BY <1>1
  <2>2. i < j \/ j < i
    OBVIOUS
  <2> QED
    BY <1>6, <2>1, <2>2
<1> DEFINE f == [i \in 0 .. NumTasks |-> p(i)]
<1>8. f \in [0 .. NumTasks -> Task]
  BY <1>1
<1>9. /\ IsFiniteSet(0 .. NumTasks) /\ IsFiniteSet(Task)
      /\ Cardinality(Task) < Cardinality(0 .. NumTasks)
  <2>1. NumTasks \in Int /\ NumTasks - 1 \in Int /\ 0 \in Int
    OBVIOUS
  <2> QED
    BY <2>1, FS_Interval DEF Task
<1>10. \E i, j \in 0 .. NumTasks : i # j /\ f[i] = f[j]
  <2> HIDE DEF f
  <2> QED
    BY <1>8, <1>9, FS_PigeonHole
<1> QED
  BY <1>7, <1>10

\* Two graphs have the same walk from t if they agree up to its end.
LEMMA WalksAgree ==
  ASSUME NEW b \in Ends, NEW c \in Ends, NEW S \in SUBSET Task,
         \A u \in S : b[u] \in S,
         \A u \in S : b[u] # u => c[u] = b[u],
         NEW t \in S, c[Walk(b)[t]] = Walk(b)[t]
  PROVE  Walk(c)[t] = Walk(b)[t]
<1> USE TaskFacts
<1> DEFINE K == {n \in Nat : n <= NumTasks => Steps(c)[n][t] = Steps(b)[n][t]}
<1>1. 0 \in K
  BY StepsFacts
<1>2. ASSUME NEW n \in Nat, n \in K PROVE n + 1 \in K
  <2> SUFFICES ASSUME n + 1 <= NumTasks PROVE Steps(c)[n + 1][t] = Steps(b)[n + 1][t]
    OBVIOUS
  <2> DEFINE u == Steps(b)[n][t]
  <2>1. u \in S /\ Steps(c)[n][t] = u
    BY <1>2, WalkKeepsTo
  <2>2. Steps(b)[n + 1][t] = b[u] /\ Steps(c)[n + 1][t] = c[u]
    BY <2>1, StepsFacts
  <2>3. b[u] = u => Walk(b)[t] = u
    BY <2>1, WalkStays DEF Walk
  <2> QED
    BY <2>1, <2>2, <2>3
<1> HIDE DEF K
<1>3. Nat \subseteq K
  BY <1>1, <1>2, Inductive
<1> QED
  BY <1>3 DEF K, Walk

----------------------------------------------------------------------------
(* The first invariant: mutexes and wake-ups. *)

\* What a wait looks like while it lasts: only a task in mutex_lock is a waiter,
\* and it knows which mutex it asked for.
WaitsProperly ==
  \A t \in Task :
    /\ mutex_waiters[t] # NONE => pc[t] = "mutex"
    /\ pc[t] = "mutex" => wanted[t] \in Mutex

IInv ==
  /\ TypeOK /\ WaitsProperly
  /\ HoldersAgree /\ WaiterKnowsHolder
  /\ TimerSignalIsOwed /\ WokenIsRunnable

USE KernelAssumption DEF KernelAssumption, Task, Mutex, Signal, TASK_TIMER, APP

----------------------------------------------------------------------------
(* Initially. *)

\* The tasks start runnable, with nothing pending and every mutex free.
LEMMA InitIInv == Init => IInv
<1> SUFFICES ASSUME Init PROVE IInv
  OBVIOUS
<1>1. TypeOK
  <2>1. blocked_on \in [Task -> Task \cup {NONE}] /\ signals \in [Task -> SUBSET Signal]
    BY DEF Init
  <2>2. /\ holder \in [Mutex -> Task \cup {NONE}]
        /\ mutex_waiters \in [Task -> Mutex \cup {NONE}]
        /\ held \in [Task -> SUBSET Mutex]
    BY DEF Init
  <2>3. timer \in [Task -> 0 .. MaxSleep] /\ pending_ticks \in 0 .. 1
    BY DEF Init
  <2>4. interrupt_event \in BOOLEAN /\ pend \in BOOLEAN /\ scheduling \in BOOLEAN
    BY DEF Init
  <2>6. current_task \in Task
    BY DEF Init
  <2>5. /\ pc \in [Task -> {"run", "sleep", "signal", "mutex"}]
        /\ wanted \in [Task -> Mutex \cup {NONE}]
        /\ blocker \in [Task -> Task \cup {NONE}]
    BY DEF Init
  <2> QED
    BY <2>1, <2>2, <2>3, <2>4, <2>5, <2>6 DEF TypeOK
<1>2. WaitsProperly /\ HoldersAgree /\ WaiterKnowsHolder
  BY DEF Init, WaitsProperly, HoldersAgree, WaiterKnowsHolder
<1>3. TimerSignalIsOwed
  BY DEF Init, TimerSignalIsOwed
<1>4. WokenIsRunnable
  BY DEF Init, WokenIsRunnable, Woken, Requested
<1> QED
  BY <1>1, <1>2, <1>3, <1>4 DEF IInv

----------------------------------------------------------------------------
(* The actions that touch neither a signal nor a wait. *)

LEMMA TickIInv == IInv /\ Tick => IInv'
<1> SUFFICES ASSUME IInv, Tick PROVE IInv'
  OBVIOUS
<1> USE DEF Tick, locks, local, IInv
<1>1. TypeOK'
  BY DEF TypeOK
<1>2. WaitsProperly' /\ HoldersAgree' /\ WaiterKnowsHolder'
  BY DEF WaitsProperly, HoldersAgree, WaiterKnowsHolder
<1>3. TimerSignalIsOwed'
  BY DEF TimerSignalIsOwed
<1>4. WokenIsRunnable'
  BY DEF WokenIsRunnable, Woken, Requested
<1> QED
  BY <1>1, <1>2, <1>3, <1>4

LEMMA RaiseEventIInv == IInv /\ RaiseEvent => IInv'
<1> SUFFICES ASSUME IInv, RaiseEvent PROVE IInv'
  OBVIOUS
<1> USE DEF RaiseEvent, locks, local, sched, IInv
<1>1. TypeOK'
  BY DEF TypeOK
<1>2. WaitsProperly' /\ HoldersAgree' /\ WaiterKnowsHolder'
  BY DEF WaitsProperly, HoldersAgree, WaiterKnowsHolder
<1>3. TimerSignalIsOwed'
  BY DEF TimerSignalIsOwed
<1>4. WokenIsRunnable'
  BY DEF WokenIsRunnable, Woken, Requested
<1> QED
  BY <1>1, <1>2, <1>3, <1>4

LEMMA PendSVIInv == IInv /\ PendSV => IInv'
<1> SUFFICES ASSUME IInv, PendSV PROVE IInv'
  OBVIOUS
<1> USE DEF PendSV, locks, local, inputs, IInv
<1>1. TypeOK'
  BY DEF TypeOK
<1>2. WaitsProperly' /\ HoldersAgree' /\ WaiterKnowsHolder'
  BY DEF WaitsProperly, HoldersAgree, WaiterKnowsHolder
<1>3. TimerSignalIsOwed'
  BY DEF TimerSignalIsOwed
<1>4. WokenIsRunnable'
  BY DEF WokenIsRunnable, Woken, Requested
<1> QED
  BY <1>1, <1>2, <1>3, <1>4

LEMMA StutterIInv == IInv /\ UNCHANGED vars => IInv'
<1> SUFFICES ASSUME IInv, UNCHANGED vars PROVE IInv'
  OBVIOUS
<1> USE DEF vars, sched, locks, local, inputs, IInv
<1>1. TypeOK'
  BY DEF TypeOK
<1>2. WaitsProperly' /\ HoldersAgree' /\ WaiterKnowsHolder'
  BY DEF WaitsProperly, HoldersAgree, WaiterKnowsHolder
<1>3. TimerSignalIsOwed'
  BY DEF TimerSignalIsOwed
<1>4. WokenIsRunnable'
  BY DEF WokenIsRunnable, Woken, Requested
<1> QED
  BY <1>1, <1>2, <1>3, <1>4

----------------------------------------------------------------------------
(* One round of the scheduler. *)

\* Whatever task the walk finds: the tasks that are signalled are unblocked in
\* the same round, and a timer that runs out signals its task.
LEMMA GetNextIInv == IInv /\ GetNext => IInv'
<1> SUFFICES ASSUME IInv, GetNext PROVE IInv'
  OBVIOUS
<1> DEFINE evented == IF interrupt_event THEN {EventTask} ELSE {}
<1>1. PICK periodic \in SUBSET (IF pending_ticks = 1 THEN Periodic ELSE {}) :
        /\ blocked_on' = Unblocked(blocked_on, Expired \cup evented \cup periodic)
        /\ signals' = [t \in Task |-> Signalled(Expired, TASK_TIMER)[t]
                                        \cup Signalled(evented, APP)[t]]
        /\ timer' = [t \in Task |->
             IF pending_ticks = 1 /\ timer[t] > 0 THEN timer[t] - 1 ELSE timer[t]]
        /\ interrupt_event' = FALSE /\ pending_ticks' = 0
        /\ pend' = (pend \/ Pended(Expired \cup evented \cup periodic))
        /\ \E n \in Task \cup {NONE} :
             /\ scheduling' = (n = NONE)
             /\ current_task' = IF n = NONE THEN current_task ELSE n
        /\ UNCHANGED <<locks, local>>
  BY DEF GetNext
<1>2. /\ UNCHANGED <<holder, mutex_waiters, held, pc, wanted, blocker>>
      /\ evented \subseteq Task /\ periodic \subseteq Task /\ Expired \subseteq Task
  BY <1>1 DEF locks, local, Expired
<1>3. \A t \in Task : blocked_on'[t] = t \/ /\ t \notin Expired /\ t \notin evented
                                            /\ blocked_on'[t] = blocked_on[t]
  BY <1>1 DEF Unblocked
<1>4. \A t \in Task : signals'[t] = signals[t]
                        \cup (IF t \in Expired THEN {TASK_TIMER} ELSE {})
                        \cup (IF t \in evented THEN {APP} ELSE {})
  BY <1>1 DEF Signalled
<1>5. \A t \in Task : timer'[t] = IF pending_ticks = 1 /\ timer[t] > 0
                                  THEN timer[t] - 1 ELSE timer[t]
  BY <1>1
<1>6. \A t \in Task : t \in Expired <=> pending_ticks = 1 /\ timer[t] = 1
  BY DEF Expired
<1> HIDE DEF evented
<1>7. TypeOK'
  <2>1. blocked_on' \in [Task -> Task \cup {NONE}]
    BY <1>1, <1>2 DEF Unblocked, IInv, TypeOK
  <2>2. signals' \in [Task -> SUBSET Signal]
    BY <1>1, <1>4 DEF IInv, TypeOK
  <2>3. timer' \in [Task -> 0 .. MaxSleep] /\ pending_ticks' \in 0 .. 1
    BY <1>1 DEF IInv, TypeOK
  <2>4. /\ interrupt_event' \in BOOLEAN /\ pend' \in BOOLEAN
        /\ scheduling' \in BOOLEAN /\ current_task' \in Task
    BY <1>1 DEF IInv, TypeOK
  <2> QED
    BY <1>2, <2>1, <2>2, <2>3, <2>4 DEF IInv, TypeOK
<1>8. WaitsProperly' /\ HoldersAgree'
  BY <1>2 DEF IInv, WaitsProperly, HoldersAgree
<1>9. WaiterKnowsHolder'
  BY <1>2, <1>3, <1>4 DEF IInv, WaiterKnowsHolder
<1>10. TimerSignalIsOwed'
  <2> SUFFICES ASSUME NEW t \in Task
               PROVE  /\ TASK_TIMER \in signals'[t] =>
                           \/ pc'[t] = "sleep" /\ timer'[t] = 0
                           \/ pc'[t] = "mutex" /\ mutex_waiters'[t] = NONE
                      /\ timer'[t] > 0 => pc'[t] = "sleep"
                      /\ pc'[t] = "sleep" /\ timer'[t] = 0 => TASK_TIMER \in signals'[t]
    BY DEF TimerSignalIsOwed
  <2>1. timer[t] \in Nat
    BY DEF IInv, TypeOK
  <2>2. TASK_TIMER \in signals'[t] <=> TASK_TIMER \in signals[t] \/ t \in Expired
    BY <1>4
  <2> QED
    BY <1>2, <1>5, <1>6, <2>1, <2>2 DEF IInv, TimerSignalIsOwed
<1>11. WokenIsRunnable'
  BY <1>2, <1>3, <1>4 DEF IInv, WokenIsRunnable, Woken, Requested
<1> QED
  BY <1>7, <1>8, <1>9, <1>10, <1>11 DEF IInv

----------------------------------------------------------------------------
(* The calls of a task. *)

\* A wait leaves the task runnable if what it waits for has happened, and
\* blocked on its blocker if not.
LEMMA WaitTypes ==
  ASSUME TypeOK, NEW t \in Task, NEW call \in {"sleep", "signal", "mutex"},
         NEW requested, NEW who \in Task \cup {NONE}, Wait(t, call, requested, who)
  PROVE  /\ pc' = [pc EXCEPT ![t] = call]
         /\ pc' \in [Task -> {"run", "sleep", "signal", "mutex"}]
         /\ blocker' = [blocker EXCEPT ![t] = who]
         /\ blocker' \in [Task -> Task \cup {NONE}]
         /\ blocked_on' \in [Task -> Task \cup {NONE}]
         /\ \A u \in Task \ {t} : /\ blocked_on'[u] = blocked_on[u]
                                  /\ pc'[u] = pc[u] /\ blocker'[u] = blocker[u]
         /\ pc'[t] = call /\ blocker'[t] = who
         /\ blocked_on'[t] = IF requested \cap signals[t] # {} THEN blocked_on[t] ELSE who
         /\ scheduling' = TRUE
  BY DEF Wait, TypeOK

\* A free mutex is nobody's reason to wait, so taking it disturbs no waiter; a
\* taken one has a holder, and the caller blocks on that task.
LEMMA LockIInv ==
  ASSUME IInv, NEW t \in Task, NEW m \in Mutex, Lock(t, m) PROVE IInv'
<1> USE DEF IInv
<1>0. /\ pc[t] = "run" /\ blocked_on[t] = t
      /\ TASK_TIMER \notin signals[t] /\ ~(timer[t] > 0)
      /\ UNCHANGED <<signals, timer, inputs, current_task, pend>>
  BY DEF Lock, Running, TimerSignalIsOwed, WokenIsRunnable
<1>1. CASE Free(m)
  <2>1. /\ holder' = [holder EXCEPT ![m] = t] /\ held' = [held EXCEPT ![t] = @ \cup {m}]
        /\ holder[m] = NONE
        /\ UNCHANGED <<blocked_on, mutex_waiters, local, scheduling>>
    BY <1>1 DEF Lock, Take, Free
  <2>2. /\ \A k \in Mutex \ {m} : holder'[k] = holder[k]
        /\ holder'[m] = t
        /\ \A u \in Task \ {t} : held'[u] = held[u]
        /\ held'[t] = held[t] \cup {m}
    BY <2>1 DEF TypeOK
  <2>3. TypeOK'
    BY <1>0, <2>1 DEF TypeOK, inputs, local
  <2>4. WaitsProperly' /\ WaiterKnowsHolder'
    BY <1>0, <2>1, <2>2 DEF WaitsProperly, WaiterKnowsHolder, local
  <2>5. HoldersAgree'
    BY <2>1, <2>2 DEF HoldersAgree, TypeOK
  <2>6. TimerSignalIsOwed' /\ WokenIsRunnable'
    BY <1>0, <2>1 DEF TimerSignalIsOwed, WokenIsRunnable, Woken, Requested, local
  <2> QED
    BY <2>3, <2>4, <2>5, <2>6
<1>2. CASE ~Free(m)
  <2>1. /\ mutex_waiters' = [mutex_waiters EXCEPT ![t] = m]
        /\ wanted' = [wanted EXCEPT ![t] = m]
        /\ Wait(t, "mutex", {TASK_TIMER}, holder[m])
        /\ UNCHANGED <<holder, held>>
        /\ holder[m] \in Task
    BY <1>2 DEF Lock, Free, TypeOK
  <2>2. /\ pc' = [pc EXCEPT ![t] = "mutex"]
        /\ pc' \in [Task -> {"run", "sleep", "signal", "mutex"}]
        /\ blocker' \in [Task -> Task \cup {NONE}]
        /\ blocked_on' \in [Task -> Task \cup {NONE}]
        /\ \A u \in Task \ {t} : /\ blocked_on'[u] = blocked_on[u]
                                 /\ pc'[u] = pc[u] /\ blocker'[u] = blocker[u]
        /\ pc'[t] = "mutex" /\ blocker'[t] = holder[m]
        /\ blocked_on'[t] = holder[m]
        /\ scheduling' = TRUE
    <3>1. /\ pc' = [pc EXCEPT ![t] = "mutex"]
          /\ blocker' = [blocker EXCEPT ![t] = holder[m]]
          /\ blocked_on' = [blocked_on EXCEPT ![t] = holder[m]]
          /\ scheduling' = TRUE
      BY <1>0, <2>1 DEF Wait
    <3> QED
      BY <2>1, <3>1 DEF TypeOK
  <2>3. /\ \A u \in Task \ {t} : /\ mutex_waiters'[u] = mutex_waiters[u]
                                 /\ wanted'[u] = wanted[u]
        /\ mutex_waiters'[t] = m /\ wanted'[t] = m
    BY <2>1 DEF TypeOK
  <2>4. TypeOK'
    BY <1>0, <2>1, <2>2 DEF TypeOK, inputs
  <2>5. HoldersAgree'
    BY <2>1 DEF HoldersAgree
  <2>9. WaitsProperly'
    BY <2>2, <2>3 DEF WaitsProperly
  <2>8. WaiterKnowsHolder'
    <3> SUFFICES ASSUME NEW u \in Task, pc'[u] = "mutex", TASK_TIMER \notin signals'[u]
                 PROVE  /\ mutex_waiters'[u] = wanted'[u]
                        /\ blocker'[u] # NONE /\ blocker'[u] = holder'[wanted'[u]]
                        /\ blocked_on'[u] \in {u, blocker'[u]}
      BY DEF WaiterKnowsHolder
    <3>1. CASE u = t
      BY <2>1, <2>2, <2>3, <3>1
    <3>2. CASE u # t
      BY <1>0, <2>1, <2>2, <2>3, <3>2 DEF WaiterKnowsHolder
    <3> QED
      BY <3>1, <3>2
  <2>6. TimerSignalIsOwed'
    BY <1>0, <2>1, <2>2, <2>3 DEF TimerSignalIsOwed
  <2>7. WokenIsRunnable'
    <3> SUFFICES ASSUME NEW u \in Task, pc'[u] = "run" \/ Woken(u)'
                 PROVE  blocked_on'[u] = u
      BY DEF WokenIsRunnable
    <3>1. u # t
      BY <1>0, <2>2 DEF Woken, Requested
    <3> QED
      BY <1>0, <2>2, <3>1 DEF WokenIsRunnable, Woken, Requested
  <2> QED
    BY <2>4, <2>5, <2>6, <2>7, <2>8, <2>9
<1> QED
  BY <1>1, <1>2

\* Every task that waits for the mutex is signalled and made runnable in the
\* action that frees it, so none is left with a blocker that is not the holder.
LEMMA UnlockIInv ==
  ASSUME IInv, NEW t \in Task, NEW m \in Mutex, Unlock(t, m) PROVE IInv'
<1> USE DEF IInv
<1>1. /\ pc[t] = "run" /\ m \in held[t]
      /\ holder' = [holder EXCEPT ![m] = NONE] /\ held' = [held EXCEPT ![t] = @ \ {m}]
      /\ mutex_waiters' = NoLongerWaiting(WaitersOf(m))
      /\ signals' = Signalled(WaitersOf(m), TASK_TIMER)
      /\ blocked_on' = Unblocked(blocked_on, WaitersOf(m))
      /\ pend' = Pended(WaitersOf(m))
      /\ UNCHANGED <<timer, inputs, current_task, scheduling, local>>
  BY DEF Unlock, Running
<1>2. /\ \A k \in Mutex \ {m} : holder'[k] = holder[k]
      /\ holder'[m] = NONE
      /\ \A u \in Task \ {t} : held'[u] = held[u]
      /\ held'[t] = held[t] \ {m}
  BY <1>1 DEF TypeOK
<1>3. \A w \in Task : w \in WaitersOf(m) <=> mutex_waiters[w] = m
  BY DEF WaitersOf
<1>4. /\ \A w \in Task : mutex_waiters'[w] =
           IF w \in WaitersOf(m) THEN NONE ELSE mutex_waiters[w]
      /\ \A w \in Task : signals'[w] =
           IF w \in WaitersOf(m) THEN signals[w] \cup {TASK_TIMER} ELSE signals[w]
      /\ \A w \in Task : blocked_on'[w] = IF w \in WaitersOf(m) THEN w ELSE blocked_on[w]
      /\ UNCHANGED <<pc, wanted, blocker>>
  BY <1>1 DEF NoLongerWaiting, Signalled, Unblocked, local
<1>5. TypeOK'
  <2>1. signals' \in [Task -> SUBSET Signal] /\ blocked_on' \in [Task -> Task \cup {NONE}]
    BY <1>1 DEF TypeOK, Signalled, Unblocked
  <2>2. /\ mutex_waiters' \in [Task -> Mutex \cup {NONE}] /\ pend' \in BOOLEAN
        /\ holder' \in [Mutex -> Task \cup {NONE}] /\ held' \in [Task -> SUBSET Mutex]
    BY <1>1 DEF TypeOK, NoLongerWaiting, Pended
  <2> QED
    BY <1>1, <2>1, <2>2 DEF TypeOK, inputs, local
<1>6. WaitsProperly'
  BY <1>4 DEF WaitsProperly
<1>7. HoldersAgree'
  BY <1>1, <1>2 DEF HoldersAgree, TypeOK
<1>8. WaiterKnowsHolder'
  <2> SUFFICES ASSUME NEW u \in Task, pc'[u] = "mutex", TASK_TIMER \notin signals'[u]
               PROVE  /\ mutex_waiters'[u] = wanted'[u]
                      /\ blocker'[u] # NONE /\ blocker'[u] = holder'[wanted'[u]]
                      /\ blocked_on'[u] \in {u, blocker'[u]}
    BY DEF WaiterKnowsHolder
  <2>1. u \notin WaitersOf(m)
    BY <1>4
  <2>2. pc[u] = "mutex" /\ TASK_TIMER \notin signals[u]
    BY <1>4, <2>1
  <2>3. wanted[u] \in Mutex \ {m}
    BY <1>3, <2>1, <2>2 DEF WaiterKnowsHolder, WaitsProperly
  <2> QED
    BY <1>2, <1>4, <2>1, <2>2, <2>3 DEF WaiterKnowsHolder
<1>9. TimerSignalIsOwed'
  <2> SUFFICES ASSUME NEW u \in Task
               PROVE  /\ TASK_TIMER \in signals'[u] =>
                           \/ pc'[u] = "sleep" /\ timer'[u] = 0
                           \/ pc'[u] = "mutex" /\ mutex_waiters'[u] = NONE
                      /\ timer'[u] > 0 => pc'[u] = "sleep"
                      /\ pc'[u] = "sleep" /\ timer'[u] = 0 => TASK_TIMER \in signals'[u]
    BY DEF TimerSignalIsOwed
  <2>1. UNCHANGED <<timer[u], pc[u]>>
    BY <1>1, <1>4
  <2>2. CASE u \in WaitersOf(m)
    BY <1>3, <1>4, <2>1, <2>2 DEF TimerSignalIsOwed, WaitsProperly
  <2>3. CASE u \notin WaitersOf(m)
    BY <1>4, <2>1, <2>3 DEF TimerSignalIsOwed
  <2> QED
    BY <2>2, <2>3
<1>10. WokenIsRunnable'
  BY <1>3, <1>4 DEF WokenIsRunnable, Woken, Requested
<1> QED
  BY <1>5, <1>6, <1>7, <1>8, <1>9, <1>10

\* A task that runs has no TASK_TIMER left over to end its sleep at once.
LEMMA SleepIInv ==
  ASSUME IInv, NEW t \in Task, NEW n \in 1 .. MaxSleep, Sleep(t, n) PROVE IInv'
<1> USE DEF IInv
<1>0. /\ pc[t] = "run" /\ blocked_on[t] = t /\ TASK_TIMER \notin signals[t]
      /\ mutex_waiters[t] = NONE
      /\ timer' = [timer EXCEPT ![t] = n]
      /\ Wait(t, "sleep", {TASK_TIMER}, NONE)
      /\ UNCHANGED <<signals, locks, inputs, current_task, pend, wanted>>
  BY DEF Sleep, Running, TimerSignalIsOwed, WokenIsRunnable, WaitsProperly
<1>1. /\ pc' \in [Task -> {"run", "sleep", "signal", "mutex"}]
      /\ blocker' \in [Task -> Task \cup {NONE}]
      /\ blocked_on' \in [Task -> Task \cup {NONE}]
      /\ \A u \in Task \ {t} : /\ blocked_on'[u] = blocked_on[u]
                               /\ pc'[u] = pc[u] /\ blocker'[u] = blocker[u]
      /\ pc'[t] = "sleep"
      /\ scheduling' = TRUE
  BY <1>0, WaitTypes
<1>2. /\ timer' \in [Task -> 0 .. MaxSleep] /\ timer'[t] = n /\ n > 0
      /\ \A u \in Task \ {t} : timer'[u] = timer[u]
  BY <1>0 DEF TypeOK
<1>3. TypeOK'
  BY <1>0, <1>1, <1>2 DEF TypeOK, inputs, locks
<1>4. WaitsProperly' /\ HoldersAgree'
  BY <1>0, <1>1 DEF WaitsProperly, HoldersAgree, locks
<1>7. WaiterKnowsHolder'
  <2> SUFFICES ASSUME NEW u \in Task, pc'[u] = "mutex", TASK_TIMER \notin signals'[u]
               PROVE  /\ mutex_waiters'[u] = wanted'[u]
                      /\ blocker'[u] # NONE /\ blocker'[u] = holder'[wanted'[u]]
                      /\ blocked_on'[u] \in {u, blocker'[u]}
    BY DEF WaiterKnowsHolder
  <2> QED
    BY <1>0, <1>1 DEF WaiterKnowsHolder, locks
<1>5. TimerSignalIsOwed'
  <2> SUFFICES ASSUME NEW u \in Task
               PROVE  /\ TASK_TIMER \in signals'[u] =>
                           \/ pc'[u] = "sleep" /\ timer'[u] = 0
                           \/ pc'[u] = "mutex" /\ mutex_waiters'[u] = NONE
                      /\ timer'[u] > 0 => pc'[u] = "sleep"
                      /\ pc'[u] = "sleep" /\ timer'[u] = 0 => TASK_TIMER \in signals'[u]
    BY DEF TimerSignalIsOwed
  <2>1. CASE u = t
    BY <1>0, <1>1, <1>2, <2>1
  <2>2. CASE u # t
    BY <1>0, <1>1, <1>2, <2>2 DEF TimerSignalIsOwed, locks
  <2> QED
    BY <2>1, <2>2
<1>6. WokenIsRunnable'
  BY <1>0, <1>1 DEF WokenIsRunnable, Woken, Requested
<1> QED
  BY <1>3, <1>4, <1>5, <1>6, <1>7

LEMMA SignalWaitIInv ==
  ASSUME IInv, NEW t \in Task, SignalWait(t) PROVE IInv'
<1> USE DEF IInv
<1>0. /\ pc[t] = "run" /\ blocked_on[t] = t /\ TASK_TIMER \notin signals[t]
      /\ mutex_waiters[t] = NONE /\ ~(timer[t] > 0)
      /\ Wait(t, "signal", {APP}, NONE)
      /\ UNCHANGED <<signals, locks, timer, inputs, current_task, pend, wanted>>
  BY DEF SignalWait, Running, TimerSignalIsOwed, WokenIsRunnable, WaitsProperly
<1>1. /\ pc' \in [Task -> {"run", "sleep", "signal", "mutex"}]
      /\ blocker' \in [Task -> Task \cup {NONE}]
      /\ blocked_on' \in [Task -> Task \cup {NONE}]
      /\ \A u \in Task \ {t} : /\ blocked_on'[u] = blocked_on[u]
                               /\ pc'[u] = pc[u] /\ blocker'[u] = blocker[u]
      /\ pc'[t] = "signal"
      /\ blocked_on'[t] = IF {APP} \cap signals[t] # {} THEN blocked_on[t] ELSE NONE
      /\ scheduling' = TRUE
  BY <1>0, WaitTypes
<1>3. TypeOK'
  BY <1>0, <1>1 DEF TypeOK, inputs, locks
<1>4. WaitsProperly' /\ HoldersAgree'
  BY <1>0, <1>1 DEF WaitsProperly, HoldersAgree, locks
<1>7. WaiterKnowsHolder'
  <2> SUFFICES ASSUME NEW u \in Task, pc'[u] = "mutex", TASK_TIMER \notin signals'[u]
               PROVE  /\ mutex_waiters'[u] = wanted'[u]
                      /\ blocker'[u] # NONE /\ blocker'[u] = holder'[wanted'[u]]
                      /\ blocked_on'[u] \in {u, blocker'[u]}
    BY DEF WaiterKnowsHolder
  <2> QED
    BY <1>0, <1>1 DEF WaiterKnowsHolder, locks
<1>5. TimerSignalIsOwed'
  BY <1>0, <1>1 DEF TimerSignalIsOwed, locks
<1>6. WokenIsRunnable'
  BY <1>0, <1>1 DEF WokenIsRunnable, Woken, Requested
<1> QED
  BY <1>3, <1>4, <1>5, <1>6, <1>7

\* The signal may be one that the task does not wait for: it is runnable all
\* the same, and goes back to its wait when it runs.
LEMMA SignalSendIInv ==
  ASSUME IInv, NEW t \in Task, NEW u \in Task, SignalSend(t, u) PROVE IInv'
<1> USE DEF IInv
<1>1. /\ signals' = Signalled({u}, APP)
      /\ blocked_on' = Unblocked(blocked_on, {u})
      /\ pend' = Pended({u})
      /\ UNCHANGED <<locks, timer, inputs, current_task, scheduling, local>>
  BY DEF SignalSend
<1>2. /\ \A w \in Task : signals'[w] = IF w = u THEN signals[w] \cup {APP} ELSE signals[w]
      /\ \A w \in Task : blocked_on'[w] = IF w = u THEN w ELSE blocked_on[w]
      /\ UNCHANGED <<holder, mutex_waiters, held, pc, wanted, blocker>>
  BY <1>1 DEF Signalled, Unblocked, locks, local
<1>3. TypeOK'
  <2>1. signals' \in [Task -> SUBSET Signal] /\ blocked_on' \in [Task -> Task \cup {NONE}]
    BY <1>1 DEF TypeOK, Signalled, Unblocked
  <2> QED
    BY <1>1, <1>2, <2>1 DEF TypeOK, inputs, Pended
<1>4. WaitsProperly' /\ HoldersAgree'
  BY <1>2 DEF WaitsProperly, HoldersAgree
<1>7. WaiterKnowsHolder'
  <2> SUFFICES ASSUME NEW v \in Task, pc'[v] = "mutex", TASK_TIMER \notin signals'[v]
               PROVE  /\ mutex_waiters'[v] = wanted'[v]
                      /\ blocker'[v] # NONE /\ blocker'[v] = holder'[wanted'[v]]
                      /\ blocked_on'[v] \in {v, blocker'[v]}
    BY DEF WaiterKnowsHolder
  <2> QED
    BY <1>2 DEF WaiterKnowsHolder
<1>5. TimerSignalIsOwed'
  <2> SUFFICES ASSUME NEW v \in Task
               PROVE  /\ TASK_TIMER \in signals'[v] =>
                           \/ pc'[v] = "sleep" /\ timer'[v] = 0
                           \/ pc'[v] = "mutex" /\ mutex_waiters'[v] = NONE
                      /\ timer'[v] > 0 => pc'[v] = "sleep"
                      /\ pc'[v] = "sleep" /\ timer'[v] = 0 => TASK_TIMER \in signals'[v]
    BY DEF TimerSignalIsOwed
  <2>1. TASK_TIMER \in signals'[v] <=> TASK_TIMER \in signals[v]
    <3> HIDE DEF IInv
    <3>1. TASK_TIMER # APP /\ (signals'[v] = signals[v] \/ signals'[v] = signals[v] \cup {APP})
      BY <1>2
    <3> QED
      BY <3>1
  <2> QED
    BY <1>1, <1>2, <2>1 DEF TimerSignalIsOwed
<1>6. WokenIsRunnable'
  BY <1>2 DEF WokenIsRunnable, Woken, Requested
<1> QED
  BY <1>3, <1>4, <1>5, <1>6, <1>7

\* A task that resumes takes its wake-up away with it: it waits on with the
\* signal still to come, or runs with nothing left over.
LEMMA ResumeIInv ==
  ASSUME IInv, NEW t \in Task, Resume(t) PROVE IInv'
<1> USE DEF IInv
<1>0. /\ pc[t] \in {"sleep", "signal", "mutex"}
      /\ UNCHANGED <<timer, inputs, current_task, pend>>
  BY DEF Resume, TypeOK
<1>1. CASE ~Woken(t)
  <2>1. /\ blocked_on' = [blocked_on EXCEPT ![t] = blocker[t]]
        /\ scheduling' = TRUE
        /\ UNCHANGED <<signals, holder, mutex_waiters, held, pc, wanted, blocker>>
    BY <1>1 DEF Resume, locks, local
  <2>2. /\ \A u \in Task \ {t} : blocked_on'[u] = blocked_on[u]
        /\ blocked_on'[t] = blocker[t]
    BY <2>1 DEF TypeOK
  <2>3. TypeOK'
    BY <1>0, <2>1 DEF TypeOK, inputs
  <2>4. WaitsProperly' /\ HoldersAgree' /\ TimerSignalIsOwed'
    BY <1>0, <2>1 DEF WaitsProperly, HoldersAgree, TimerSignalIsOwed
  <2>5. WaiterKnowsHolder'
    <3> SUFFICES ASSUME NEW u \in Task, pc'[u] = "mutex", TASK_TIMER \notin signals'[u]
                 PROVE  /\ mutex_waiters'[u] = wanted'[u]
                        /\ blocker'[u] # NONE /\ blocker'[u] = holder'[wanted'[u]]
                        /\ blocked_on'[u] \in {u, blocker'[u]}
      BY DEF WaiterKnowsHolder
    <3> QED
      BY <2>1, <2>2 DEF WaiterKnowsHolder
  <2>6. WokenIsRunnable'
    <3> SUFFICES ASSUME NEW u \in Task, pc'[u] = "run" \/ Woken(u)'
                 PROVE  blocked_on'[u] = u
      BY DEF WokenIsRunnable
    <3>1. u # t
      BY <1>0, <1>1, <2>1 DEF Woken, Requested
    <3> QED
      BY <2>1, <2>2, <3>1 DEF WokenIsRunnable, Woken, Requested
  <2> QED
    BY <2>3, <2>4, <2>5, <2>6
<1>2. CASE Woken(t)
  <2>1. /\ signals' = [signals EXCEPT ![t] = @ \ Requested(t)]
        /\ blocked_on[t] = t
    BY <1>2 DEF Resume, WokenIsRunnable
  <2>2. /\ \A u \in Task \ {t} : signals'[u] = signals[u]
        /\ signals'[t] = signals[t] \ Requested(t)
        /\ signals' \in [Task -> SUBSET Signal]
    BY <2>1 DEF TypeOK
  <2>3. TASK_TIMER \notin signals'[t] /\ ~(timer[t] > 0)
    <3>1. CASE pc[t] = "signal"
      BY <2>2, <3>1 DEF TimerSignalIsOwed
    <3>2. CASE pc[t] # "signal"
      <4>1. TASK_TIMER \in signals[t] /\ Requested(t) = {TASK_TIMER}
        BY <1>2, <3>2 DEF Woken, Requested
      <4>2. timer[t] \in Nat
        BY DEF TypeOK
      <4> QED
        BY <2>2, <4>1, <4>2 DEF TimerSignalIsOwed
    <3> QED
      BY <3>1, <3>2
  <2>4. pc[t] = "mutex" => mutex_waiters[t] = NONE
    <3> SUFFICES ASSUME pc[t] = "mutex" PROVE mutex_waiters[t] = NONE
      OBVIOUS
    <3>1. TASK_TIMER \in signals[t]
      BY <1>2 DEF Woken, Requested
    <3> QED
      BY <3>1 DEF TimerSignalIsOwed
  <2>5. CASE pc[t] = "mutex" /\ ~Free(wanted[t])
    <3>1. wanted[t] \in Mutex /\ holder[wanted[t]] \in Task
      BY <2>5 DEF WaitsProperly, Free, TypeOK
    <3>2. /\ mutex_waiters' = [mutex_waiters EXCEPT ![t] = wanted[t]]
          /\ blocker' = [blocker EXCEPT ![t] = holder[wanted[t]]]
          /\ blocked_on' = [blocked_on EXCEPT ![t] = holder[wanted[t]]]
          /\ scheduling' = TRUE
          /\ UNCHANGED <<holder, held, pc, wanted>>
      BY <1>2, <2>5 DEF Resume
    <3>3. /\ \A u \in Task \ {t} : /\ mutex_waiters'[u] = mutex_waiters[u]
                                   /\ blocker'[u] = blocker[u]
                                   /\ blocked_on'[u] = blocked_on[u]
          /\ mutex_waiters'[t] = wanted[t]
          /\ blocker'[t] = holder[wanted[t]] /\ blocked_on'[t] = holder[wanted[t]]
      BY <3>2 DEF TypeOK
    <3>4. TypeOK'
      BY <1>0, <2>2, <3>1, <3>2 DEF TypeOK, inputs
    <3>5. WaitsProperly'
      BY <2>5, <3>2, <3>3 DEF WaitsProperly
    <3>6. HoldersAgree'
      BY <3>2 DEF HoldersAgree
    <3>7. WaiterKnowsHolder'
      <4> SUFFICES ASSUME NEW u \in Task, pc'[u] = "mutex", TASK_TIMER \notin signals'[u]
                   PROVE  /\ mutex_waiters'[u] = wanted'[u]
                          /\ blocker'[u] # NONE /\ blocker'[u] = holder'[wanted'[u]]
                          /\ blocked_on'[u] \in {u, blocker'[u]}
        BY DEF WaiterKnowsHolder
      <4>1. CASE u = t
        BY <3>1, <3>2, <3>3, <4>1
      <4>2. CASE u # t
        BY <2>2, <3>2, <3>3, <4>2 DEF WaiterKnowsHolder
      <4> QED
        BY <4>1, <4>2
    <3>8. TimerSignalIsOwed'
      <4> SUFFICES ASSUME NEW u \in Task
                   PROVE  /\ TASK_TIMER \in signals'[u] =>
                               \/ pc'[u] = "sleep" /\ timer'[u] = 0
                               \/ pc'[u] = "mutex" /\ mutex_waiters'[u] = NONE
                          /\ timer'[u] > 0 => pc'[u] = "sleep"
                          /\ pc'[u] = "sleep" /\ timer'[u] = 0 => TASK_TIMER \in signals'[u]
        BY DEF TimerSignalIsOwed
      <4>1. CASE u = t
        BY <1>0, <2>3, <2>5, <3>2, <4>1
      <4>2. CASE u # t
        BY <1>0, <2>2, <3>2, <3>3, <4>2 DEF TimerSignalIsOwed
      <4> QED
        BY <4>1, <4>2
    <3>9. WokenIsRunnable'
      <4> SUFFICES ASSUME NEW u \in Task, pc'[u] = "run" \/ Woken(u)'
                   PROVE  blocked_on'[u] = u
        BY DEF WokenIsRunnable
      <4>1. u # t
        BY <2>3, <2>5, <3>2 DEF Woken, Requested
      <4> QED
        BY <2>2, <3>2, <3>3, <4>1 DEF WokenIsRunnable, Woken, Requested
    <3> QED
      BY <3>4, <3>5, <3>6, <3>7, <3>8, <3>9
  <2>6. CASE ~(pc[t] = "mutex" /\ ~Free(wanted[t]))
    <3>1. /\ pc' = [pc EXCEPT ![t] = "run"]
          /\ wanted' = [wanted EXCEPT ![t] = NONE]
          /\ blocker' = [blocker EXCEPT ![t] = NONE]
          /\ IF pc[t] = "mutex" THEN Take(t, wanted[t]) ELSE UNCHANGED <<holder, held>>
          /\ UNCHANGED <<blocked_on, mutex_waiters, scheduling>>
      BY <1>2, <2>6 DEF Resume
    <3>2. /\ \A u \in Task \ {t} : /\ pc'[u] = pc[u] /\ wanted'[u] = wanted[u]
                                   /\ blocker'[u] = blocker[u]
          /\ pc'[t] = "run"
      BY <3>1 DEF TypeOK
    <3>3. /\ holder' \in [Mutex -> Task \cup {NONE}] /\ held' \in [Task -> SUBSET Mutex]
          /\ HoldersAgree'
          /\ \A k \in Mutex : holder[k] # NONE => holder'[k] = holder[k]
      <4>1. CASE pc[t] # "mutex"
        BY <3>1, <4>1 DEF TypeOK, HoldersAgree
      <4>2. CASE pc[t] = "mutex"
        <5> DEFINE m == wanted[t]
        <5>1. m \in Mutex /\ holder[m] = NONE
          BY <2>6, <4>2 DEF WaitsProperly, Free
        <5>2. holder' = [holder EXCEPT ![m] = t] /\ held' = [held EXCEPT ![t] = @ \cup {m}]
          BY <3>1, <4>2 DEF Take
        <5> HIDE DEF m
        <5>3. /\ \A k \in Mutex \ {m} : holder'[k] = holder[k]
              /\ holder'[m] = t
              /\ \A u \in Task \ {t} : held'[u] = held[u]
              /\ held'[t] = held[t] \cup {m}
          BY <5>1, <5>2 DEF TypeOK
        <5>4. holder' \in [Mutex -> Task \cup {NONE}] /\ held' \in [Task -> SUBSET Mutex]
          BY <5>1, <5>2 DEF TypeOK
        <5>5. HoldersAgree'
          BY <5>1, <5>3 DEF HoldersAgree
        <5> QED
          BY <5>1, <5>3, <5>4, <5>5
      <4> QED
        BY <4>1, <4>2
    <3>4. TypeOK'
      <4>1. /\ pc' \in [Task -> {"run", "sleep", "signal", "mutex"}]
            /\ wanted' \in [Task -> Mutex \cup {NONE}]
            /\ blocker' \in [Task -> Task \cup {NONE}]
        BY <3>1 DEF TypeOK
      <4> QED
        BY <1>0, <2>2, <3>1, <3>3, <4>1 DEF TypeOK, inputs
    <3>5. WaitsProperly'
      <4>1. mutex_waiters[t] = NONE
        BY <2>4 DEF WaitsProperly
      <4> QED
        BY <3>1, <3>2, <4>1 DEF WaitsProperly
    <3>7. WaiterKnowsHolder'
      <4> SUFFICES ASSUME NEW u \in Task, pc'[u] = "mutex", TASK_TIMER \notin signals'[u]
                   PROVE  /\ mutex_waiters'[u] = wanted'[u]
                          /\ blocker'[u] # NONE /\ blocker'[u] = holder'[wanted'[u]]
                          /\ blocked_on'[u] \in {u, blocker'[u]}
        BY DEF WaiterKnowsHolder
      <4>1. u # t
        BY <3>2
      <4>2. pc[u] = "mutex" /\ TASK_TIMER \notin signals[u] /\ wanted[u] \in Mutex
        BY <2>2, <3>2, <4>1 DEF WaitsProperly
      <4> QED
        BY <3>1, <3>2, <3>3, <4>1, <4>2 DEF WaiterKnowsHolder
    <3>8. TimerSignalIsOwed'
      <4> SUFFICES ASSUME NEW u \in Task
                   PROVE  /\ TASK_TIMER \in signals'[u] =>
                               \/ pc'[u] = "sleep" /\ timer'[u] = 0
                               \/ pc'[u] = "mutex" /\ mutex_waiters'[u] = NONE
                          /\ timer'[u] > 0 => pc'[u] = "sleep"
                          /\ pc'[u] = "sleep" /\ timer'[u] = 0 => TASK_TIMER \in signals'[u]
        BY DEF TimerSignalIsOwed
      <4>1. CASE u = t
        BY <1>0, <2>3, <3>2, <4>1
      <4>2. CASE u # t
        BY <1>0, <2>2, <3>1, <3>2, <4>2 DEF TimerSignalIsOwed
      <4> QED
        BY <4>1, <4>2
    <3>9. WokenIsRunnable'
      <4> SUFFICES ASSUME NEW u \in Task, pc'[u] = "run" \/ Woken(u)'
                   PROVE  blocked_on'[u] = u
        BY DEF WokenIsRunnable
      <4>1. CASE u = t
        BY <2>1, <3>1, <4>1
      <4>2. CASE u # t
        BY <2>2, <3>1, <3>2, <4>2 DEF WokenIsRunnable, Woken, Requested
      <4> QED
        BY <4>1, <4>2
    <3> QED
      BY <3>3, <3>4, <3>5, <3>7, <3>8, <3>9
  <2> QED
    BY <2>5, <2>6
<1> QED
  BY <1>1, <1>2

----------------------------------------------------------------------------
(* The second invariant: what the scheduler sees. *)

\* A task waits only for a mutex above those it has, and has none while it
\* waits for anything else.
LockOrder ==
  \A t \in Task :
    /\ pc[t] = "mutex" => \A h \in held[t] : h < wanted[t]
    /\ held[t] # {} => pc[t] \in {"run", "mutex"}

\* A task that sleeps or waits for a signal lends its priority to nobody.
LendsNothing ==
  \A t \in Task : pc[t] \in {"sleep", "signal"} =>
    blocker[t] = NONE /\ blocked_on[t] \in {t, NONE}

\* Unless a preemption is due, the scheduler would choose the running task
\* again: what a task does to blocked_on without asking for a preemption, or
\* before it has come back from its own wait, changes no choice.
Chosen ==
  ~scheduling /\ (~pend \/ pc[current_task] # "run") =>
    GetsNext(blocked_on, current_task)

Orderly == LockOrder /\ LendsNothing /\ Chosen

LEMMA InitOrderly == Init => Orderly
<1> SUFFICES ASSUME Init PROVE Orderly
  OBVIOUS
<1>1. LockOrder /\ LendsNothing
  BY DEF Init, LockOrder, LendsNothing
<1>2. Chosen
  <2>1. blocked_on \in Ends /\ 0 \in Task /\ blocked_on[0] = 0 /\ current_task = 0
    BY DEF Init, Ends
  <2>2. Steps(blocked_on)[0][0] = 0
    BY <2>1, StepsFacts
  <2>3. Walk(blocked_on)[0] = 0
    BY <2>1, <2>2, WalkStays DEF Walk
  <2>4. GetsNext(blocked_on, 0)
    BY <2>1, <2>3 DEF GetsNext
  <2> QED
    BY <2>1, <2>4 DEF Chosen
<1> QED
  BY <1>1, <1>2 DEF Orderly

LEMMA StillChosen ==
  ASSUME Chosen, ~scheduling /\ (~pend \/ pc[current_task] # "run"),
         UNCHANGED <<blocked_on, current_task>>
  PROVE  Chosen'
<1>1. GetsNext(blocked_on', current_task')
  BY DEF Chosen
<1> QED
  BY <1>1 DEF Chosen, GetsNext, Walk, Steps

\* Ticks, events and the scheduler touch no mutex and no waiting task's blocker.
LEMMA KernelOrderly ==
  ASSUME IInv, Orderly, Tick \/ RaiseEvent \/ PendSV \/ UNCHANGED vars PROVE Orderly'
<1> USE DEF Orderly, locks, local, sched, vars
<1>1. UNCHANGED <<blocked_on, held, pc, wanted, blocker, current_task>>
  BY DEF Tick, RaiseEvent, PendSV
<1>2. LockOrder' /\ LendsNothing'
  BY <1>1 DEF LockOrder, LendsNothing
<1>3. ~scheduling' /\ (~pend' \/ pc[current_task] # "run") =>
        ~scheduling /\ (~pend \/ pc[current_task] # "run")
  BY DEF Tick, RaiseEvent, PendSV
<1>4. Chosen'
  <2> SUFFICES ASSUME ~scheduling', ~pend' \/ pc'[current_task'] # "run"
               PROVE  GetsNext(blocked_on, current_task)'
    BY DEF Chosen
  <2>1. GetsNext(blocked_on, current_task)
    BY <1>1, <1>3 DEF Chosen
  <2>2. GetsNext(blocked_on', current_task')
    BY <1>1, <2>1
  <2> QED
    BY <2>2 DEF GetsNext, Walk, Steps
<1> QED
  BY <1>2, <1>4

LEMMA GetNextOrderly == ASSUME IInv, Orderly, GetNext PROVE Orderly'
<1> DEFINE evented == IF interrupt_event THEN {EventTask} ELSE {}
<1>1. PICK periodic \in SUBSET (IF pending_ticks = 1 THEN Periodic ELSE {}) :
        /\ blocked_on' = Unblocked(blocked_on, Expired \cup evented \cup periodic)
        /\ \E n \in Task \cup {NONE} :
             /\ GetsNext(Unblocked(blocked_on, Expired \cup evented \cup periodic), n)
             /\ scheduling' = (n = NONE)
             /\ current_task' = IF n = NONE THEN current_task ELSE n
        /\ UNCHANGED <<locks, local>>
  BY ZenonT(30) DEF GetNext
<1> DEFINE b == Unblocked(blocked_on, Expired \cup evented \cup periodic)
<1>n. PICK n \in Task \cup {NONE} :
        /\ GetsNext(b, n)
        /\ scheduling' = (n = NONE)
        /\ current_task' = IF n = NONE THEN current_task ELSE n
  BY <1>1, Zenon
<1>2. UNCHANGED <<held, pc, wanted, blocker>>
  BY <1>1 DEF locks, local
<1>3. \A t \in Task : blocked_on'[t] \in {t, blocked_on[t]}
  BY <1>1 DEF Unblocked
<1>4. LockOrder' /\ LendsNothing'
  BY <1>2, <1>3 DEF Orderly, LockOrder, LendsNothing
<1>5. Chosen'
  <2> SUFFICES ASSUME ~scheduling' PROVE GetsNext(blocked_on, current_task)'
    BY DEF Chosen
  <2>1. n # NONE /\ current_task' = n
    BY <1>n
  <2>2. GetsNext(blocked_on', current_task')
    BY <1>1, <1>n, <2>1
  <2> QED
    BY <2>2 DEF GetsNext, Walk, Steps
<1> QED
  BY <1>4, <1>5 DEF Orderly

\* A task that has to wait for a mutex has only lower ones.
LEMMA LockOrderly ==
  ASSUME IInv, Orderly, NEW t \in Task, NEW m \in Mutex, Lock(t, m) PROVE Orderly'
<1> USE DEF IInv, Orderly
<1>1. CASE Free(m)
  <2>1. /\ held' = [held EXCEPT ![t] = @ \cup {m}]
        /\ pc[t] = "run" /\ t = current_task /\ ~scheduling /\ ~pend
        /\ UNCHANGED <<blocked_on, pc, wanted, blocker, scheduling, pend, current_task>>
    BY <1>1 DEF Lock, Take, local, Running
  <2>2. /\ \A u \in Task \ {t} : held'[u] = held[u]
    BY <2>1 DEF TypeOK
  <2>3. LockOrder' /\ LendsNothing'
    BY <2>1, <2>2 DEF LockOrder, LendsNothing
  <2> QED
    BY <2>1, <2>3, StillChosen
<1>2. CASE ~Free(m)
  <2>1. /\ wanted' = [wanted EXCEPT ![t] = m]
        /\ pc' = [pc EXCEPT ![t] = "mutex"]
        /\ blocker' = [blocker EXCEPT ![t] = holder[m]]
        /\ \A u \in Task \ {t} : blocked_on'[u] = blocked_on[u]
        /\ held' = held /\ scheduling' /\ \A h \in held[t] : h < m
    BY <1>2 DEF Lock, Wait, MayLock, TypeOK
  <2>2. /\ wanted'[t] = m /\ pc'[t] = "mutex"
        /\ \A u \in Task \ {t} : /\ wanted'[u] = wanted[u] /\ pc'[u] = pc[u]
                                 /\ blocker'[u] = blocker[u]
    BY <2>1 DEF TypeOK
  <2>3. LockOrder' /\ LendsNothing'
    BY <2>1, <2>2 DEF LockOrder, LendsNothing
  <2> QED
    BY <2>1, <2>3 DEF Chosen
<1> QED
  BY <1>1, <1>2

\* To wake a waiter is to ask for a preemption; with no waiter nothing changes
\* that the scheduler looks at.
LEMMA UnlockOrderly ==
  ASSUME IInv, Orderly, NEW t \in Task, NEW m \in Mutex, Unlock(t, m) PROVE Orderly'
<1> USE DEF IInv, Orderly
<1>1. /\ held' = [held EXCEPT ![t] = @ \ {m}] /\ pc[t] = "run" /\ t = current_task
      /\ blocked_on' = Unblocked(blocked_on, WaitersOf(m))
      /\ pend' = Pended(WaitersOf(m))
      /\ UNCHANGED <<current_task, scheduling, pc, wanted, blocker>>
  BY DEF Unlock, Running, local
<1>2. /\ \A u \in Task : held'[u] \subseteq held[u]
      /\ \A u \in Task : blocked_on'[u] \in {u, blocked_on[u]}
  BY <1>1 DEF TypeOK, Unblocked
<1>3. LockOrder' /\ LendsNothing'
  BY <1>1, <1>2 DEF LockOrder, LendsNothing
<1>4. CASE WaitersOf(m) = {}
  <2>1. blocked_on' = blocked_on
    BY <1>1, <1>4 DEF Unblocked, TypeOK
  <2>2. ~scheduling /\ ~pend
    BY DEF Unlock, Running
  <2> QED
    BY <1>1, <1>3, <2>1, <2>2, StillChosen
<1>5. CASE WaitersOf(m) # {}
  BY <1>1, <1>3, <1>5 DEF Chosen, Pended
<1> QED
  BY <1>4, <1>5

LEMMA SleepOrderly ==
  ASSUME IInv, Orderly, NEW t \in Task, NEW n \in 1 .. MaxSleep, Sleep(t, n) PROVE Orderly'
<1>1. /\ TypeOK /\ held[t] = {} /\ UNCHANGED <<held, wanted>> /\ blocked_on[t] = t
      /\ Wait(t, "sleep", {TASK_TIMER}, NONE)
  BY DEF Sleep, locks, Running, IInv, WokenIsRunnable
<1>2. /\ pc' = [pc EXCEPT ![t] = "sleep"] /\ blocker' = [blocker EXCEPT ![t] = NONE]
      /\ \A u \in Task \ {t} : blocked_on'[u] = blocked_on[u]
      /\ blocked_on'[t] \in {t, NONE}
      /\ scheduling' = TRUE
  BY <1>1 DEF Wait, TypeOK
<1>4. /\ pc'[t] = "sleep" /\ blocker'[t] = NONE
      /\ \A u \in Task \ {t} : pc'[u] = pc[u] /\ blocker'[u] = blocker[u]
  BY <1>1, <1>2 DEF TypeOK
<1>3. LockOrder' /\ LendsNothing'
  BY <1>1, <1>2, <1>4 DEF Orderly, LockOrder, LendsNothing
<1> QED
  BY <1>2, <1>3 DEF Orderly, Chosen

LEMMA SignalWaitOrderly ==
  ASSUME IInv, Orderly, NEW t \in Task, SignalWait(t) PROVE Orderly'
<1>1. /\ TypeOK /\ held[t] = {} /\ UNCHANGED <<held, wanted>> /\ blocked_on[t] = t
      /\ Wait(t, "signal", {APP}, NONE)
  BY DEF SignalWait, locks, Running, IInv, WokenIsRunnable
<1>2. /\ pc' = [pc EXCEPT ![t] = "signal"] /\ blocker' = [blocker EXCEPT ![t] = NONE]
      /\ \A u \in Task \ {t} : blocked_on'[u] = blocked_on[u]
      /\ blocked_on'[t] \in {t, NONE}
      /\ scheduling' = TRUE
  BY <1>1 DEF Wait, TypeOK
<1>4. /\ pc'[t] = "signal" /\ blocker'[t] = NONE
      /\ \A u \in Task \ {t} : pc'[u] = pc[u] /\ blocker'[u] = blocker[u]
  BY <1>1, <1>2 DEF TypeOK
<1>3. LockOrder' /\ LendsNothing'
  BY <1>1, <1>2, <1>4 DEF Orderly, LockOrder, LendsNothing
<1> QED
  BY <1>2, <1>3 DEF Orderly, Chosen

LEMMA SignalSendOrderly ==
  ASSUME IInv, Orderly, NEW t \in Task, NEW u \in Task, SignalSend(t, u) PROVE Orderly'
<1> USE DEF IInv, Orderly
<1>1. /\ blocked_on' = Unblocked(blocked_on, {u})
      /\ pend' = TRUE /\ pc[current_task] = "run"
      /\ UNCHANGED <<held, current_task, pc, wanted, blocker>>
  BY DEF SignalSend, Running, Pended, locks, local
<1>2. \A v \in Task : blocked_on'[v] \in {v, blocked_on[v]}
  BY <1>1 DEF Unblocked
<1>3. LockOrder' /\ LendsNothing'
  BY <1>1, <1>2 DEF LockOrder, LendsNothing
<1> QED
  BY <1>1, <1>3 DEF Chosen

\* A task that comes back to its own code was chosen, and still would be.
LEMMA ResumeOrderly ==
  ASSUME IInv, Orderly, NEW t \in Task, Resume(t) PROVE Orderly'
<1> USE DEF IInv, Orderly
<1>0. /\ pc[t] \in {"sleep", "signal", "mutex"} /\ t = current_task
      /\ ~scheduling /\ UNCHANGED <<current_task, pend>>
  BY DEF Resume, TypeOK
<1>1. CASE ~Woken(t)
  <2>1. /\ blocked_on' = [blocked_on EXCEPT ![t] = blocker[t]] /\ scheduling' = TRUE
        /\ UNCHANGED <<held, pc, wanted, blocker>>
    BY <1>1 DEF Resume, locks, local
  <2>2. /\ \A u \in Task \ {t} : blocked_on'[u] = blocked_on[u]
        /\ blocked_on'[t] = blocker[t]
    BY <2>1 DEF TypeOK
  <2>3. LockOrder' /\ LendsNothing'
    BY <2>1, <2>2 DEF LockOrder, LendsNothing
  <2> QED
    BY <2>1, <2>3 DEF Chosen
<1>2. CASE Woken(t) /\ pc[t] = "mutex" /\ ~Free(wanted[t])
  <2>1. /\ blocked_on' = [blocked_on EXCEPT ![t] = holder[wanted[t]]]
        /\ blocker' = [blocker EXCEPT ![t] = holder[wanted[t]]]
        /\ scheduling' = TRUE
        /\ UNCHANGED <<held, pc, wanted>>
    BY <1>2 DEF Resume
  <2>2. \A u \in Task \ {t} : /\ blocked_on'[u] = blocked_on[u]
                             /\ blocker'[u] = blocker[u]
    BY <2>1 DEF TypeOK
  <2>3. LockOrder' /\ LendsNothing'
    BY <1>2, <2>1, <2>2 DEF LockOrder, LendsNothing
  <2> QED
    BY <2>1, <2>3 DEF Chosen
<1>3. CASE Woken(t) /\ ~(pc[t] = "mutex" /\ ~Free(wanted[t]))
  <2>1. /\ pc' = [pc EXCEPT ![t] = "run"]
        /\ wanted' = [wanted EXCEPT ![t] = NONE]
        /\ blocker' = [blocker EXCEPT ![t] = NONE]
        /\ IF pc[t] = "mutex" THEN Take(t, wanted[t]) ELSE UNCHANGED <<holder, held>>
        /\ UNCHANGED <<blocked_on, scheduling>>
    BY <1>3 DEF Resume
  <2>2. /\ pc'[t] = "run"
        /\ \A u \in Task \ {t} : /\ pc'[u] = pc[u] /\ wanted'[u] = wanted[u]
                                 /\ blocker'[u] = blocker[u] /\ held'[u] = held[u]
    BY <2>1 DEF TypeOK, Take
  <2>3. LockOrder' /\ LendsNothing'
    BY <2>1, <2>2 DEF LockOrder, LendsNothing
  <2> QED
    BY <1>0, <2>1, <2>3, StillChosen
<1> QED
  BY <1>1, <1>2, <1>3

----------------------------------------------------------------------------
(* What the two invariants say of a walk along blocked_on. *)

\* The tasks that are runnable or lend their priority.
Alive == {t \in Task : blocked_on[t] # NONE}
Rank == [t \in Task |-> IF wanted[t] \in Mutex THEN wanted[t] ELSE 0]

\* A task lends its priority to the holder of the mutex it waits for, who is
\* alive; and only a wait for time or a signal leaves a task dead.
LEMMA Lenders ==
  ASSUME IInv, Orderly, NEW u \in Task
  PROVE  /\ blocked_on[u] = NONE => pc[u] \in {"sleep", "signal"} /\ ~Woken(u)
         /\ held[u] # {} => blocked_on[u] # NONE
         /\ blocked_on[u] \notin {u, NONE} =>
              /\ pc[u] = "mutex" /\ ~Woken(u) /\ wanted[u] \in Mutex
              /\ blocked_on[u] \in Task /\ blocked_on[u] = holder[wanted[u]]
              /\ wanted[u] \in held[blocked_on[u]]
<1> USE DEF IInv, Orderly
<1>0. /\ pc[u] \in {"run", "sleep", "signal", "mutex"} /\ u # NONE
      /\ blocked_on[u] \in Task \cup {NONE}
  BY DEF TypeOK
<1>1. pc[u] = "run" \/ Woken(u) => blocked_on[u] = u
  BY DEF WokenIsRunnable
<1>2. pc[u] \in {"sleep", "signal"} => blocked_on[u] \in {u, NONE}
  BY DEF LendsNothing
<1>3. ASSUME pc[u] = "mutex", ~Woken(u)
      PROVE  /\ wanted[u] \in Mutex
             /\ holder[wanted[u]] \in Task /\ blocked_on[u] \in {u, holder[wanted[u]]}
             /\ wanted[u] \in held[holder[wanted[u]]]
  <2>1. TASK_TIMER \notin signals[u]
    BY <1>3 DEF Woken, Requested
  <2>2. wanted[u] \in Mutex
    BY <1>3 DEF WaitsProperly
  <2>3. /\ blocker[u] # NONE /\ blocker[u] = holder[wanted[u]]
        /\ blocked_on[u] \in {u, blocker[u]}
    BY <1>3, <2>1 DEF WaiterKnowsHolder
  <2>4. holder[wanted[u]] \in Task
    BY <2>2, <2>3 DEF TypeOK
  <2> QED
    BY <2>2, <2>3, <2>4 DEF HoldersAgree
<1>4. held[u] # {} => pc[u] \in {"run", "mutex"}
  BY DEF LockOrder
<1> QED
  BY <1>0, <1>1, <1>2, <1>3, <1>4

\* Along a walk the mutexes waited for go up, so that it ends.
LEMMA WalksEnd ==
  ASSUME IInv, Orderly
  PROVE  /\ blocked_on \in Ends /\ Alive \in SUBSET Task
         /\ \A u \in Alive : blocked_on[u] \in Alive
         /\ \A t \in Alive : /\ Walk(blocked_on)[t] \in Alive
                            /\ blocked_on[Walk(blocked_on)[t]] = Walk(blocked_on)[t]
         /\ \A t \in Task \ Alive : Walk(blocked_on)[t] = NONE
<1>1. blocked_on \in Ends /\ Alive \in SUBSET Task
  BY DEF IInv, TypeOK, Ends, Alive
<1>2. \A u \in Alive : blocked_on[u] \in Alive
  <2> SUFFICES ASSUME NEW u \in Alive PROVE blocked_on[u] \in Alive
    OBVIOUS
  <2>1. u \in Task /\ blocked_on[u] # NONE
    BY DEF Alive
  <2>2. CASE blocked_on[u] = u
    BY <2>2
  <2>3. CASE blocked_on[u] # u
    <3>1. blocked_on[u] \in Task /\ wanted[u] \in held[blocked_on[u]]
      BY <2>1, <2>3, Lenders
    <3>2. blocked_on[blocked_on[u]] # NONE
      BY <3>1, Lenders
    <3> QED
      BY <3>1, <3>2 DEF Alive
  <2> QED
    BY <2>2, <2>3
<1>3. Rank \in [Task -> Int]
  BY DEF Rank
<1>4. \A u \in Alive : blocked_on[u] # u /\ blocked_on[blocked_on[u]] # blocked_on[u]
                         => Rank[u] < Rank[blocked_on[u]]
  <2> SUFFICES ASSUME NEW u \in Alive, NEW v, v = blocked_on[u], v # u, blocked_on[v] # v
               PROVE  Rank[u] < Rank[v]
    OBVIOUS
  <2>1. u \in Task /\ v \in Task /\ v # NONE /\ blocked_on[v] # NONE
    BY <1>1, <1>2 DEF Alive
  <2>2. wanted[u] \in Mutex /\ wanted[u] \in held[v]
    BY <2>1, Lenders
  <2>3. pc[v] = "mutex" /\ wanted[v] \in Mutex
    BY <2>1, Lenders
  <2>4. wanted[u] < wanted[v]
    BY <2>1, <2>2, <2>3 DEF Orderly, LockOrder
  <2> QED
    BY <2>1, <2>2, <2>3, <2>4 DEF Rank
<1>5. \A t \in Alive : /\ Walk(blocked_on)[t] \in Alive
                     /\ blocked_on[Walk(blocked_on)[t]] = Walk(blocked_on)[t]
  BY <1>1, <1>2, <1>3, <1>4, WalkEnds
<1>6. \A t \in Task \ Alive : Walk(blocked_on)[t] = NONE
  <2> SUFFICES ASSUME NEW t \in Task, blocked_on[t] = NONE PROVE Walk(blocked_on)[t] = NONE
    BY DEF Alive
  <2>1. blocked_on[t] = NONE /\ t # NONE
    OBVIOUS
  <2> QED
    BY <1>1, <2>1, WalkDies
<1> QED
  BY <1>1, <1>2, <1>5, <1>6

\* The walk that chose the running task goes from holder to holder.
LEMMA NothingInverted == ASSUME IInv, Orderly PROVE NoInversion
<1> SUFFICES ASSUME ~scheduling, ~pend, pc[current_task] = "run",
                    NEW h \in 0 .. current_task - 1, ~Idle(h)
             PROVE  \E g \in 0 .. h : ~Idle(g) /\ Culprit[g] = current_task
  BY DEF NoInversion
<1> DEFINE b == blocked_on
           c == [t \in Task |-> WaitsFor(t)]
<1>1. current_task \in Task /\ h \in Task
  BY DEF IInv, TypeOK
<1>2. PICK g \in Task : /\ \A k \in 0 .. g - 1 : Walk(b)[k] = NONE
                       /\ Walk(b)[g] = current_task
  BY <1>1 DEF Orderly, Chosen, GetsNext
<1>3. b[current_task] = current_task /\ current_task # NONE
  BY <1>1 DEF IInv, WokenIsRunnable
<1>4. g <= h
  <2> SUFFICES ASSUME h < g PROVE FALSE
    BY <1>1
  <2>1. Walk(b)[h] = NONE
    BY <1>1, <1>2
  <2>2. b[h] = NONE
    BY <1>1, <2>1, WalksEnd DEF Alive
  <2> QED
    BY <1>1, <2>2, Lenders DEF Idle, Ready
<1>5. g \in Alive
  BY <1>2, <1>3, WalksEnd
<1>6. ~Idle(g)
  <2> SUFFICES ASSUME Idle(g) PROVE FALSE
    OBVIOUS
  <2>1. pc[g] \in {"sleep", "signal"}
    BY DEF Idle, Ready, IInv, TypeOK
  <2>2. b[g] = g
    BY <1>5, <2>1 DEF Alive, Orderly, LendsNothing
  <2>3. Walk(b)[g] = g
    BY <2>2, WalksEnd, WalkOfRunnable
  <2> QED
    BY <1>2, <2>1, <2>3
<1>7. c \in Ends
  BY DEF Ends, WaitsFor, IInv, TypeOK, WaitsProperly
<1>8. \A u \in Alive : b[u] # u => c[u] = b[u]
  <2> SUFFICES ASSUME NEW u \in Alive, b[u] # u PROVE c[u] = b[u]
    OBVIOUS
  <2>1. u \in Task /\ b[u] \notin {u, NONE}
    BY DEF Alive
  <2>2. pc[u] = "mutex" /\ ~Woken(u) /\ b[u] = holder[wanted[u]]
    BY <2>1, Lenders
  <2> QED
    BY <2>1, <2>2 DEF WaitsFor
<1>9. c[current_task] = current_task
  BY <1>1 DEF WaitsFor
<1>10. Walk(c)[g] = Walk(b)[g]
  <2> HIDE DEF b, c
  <2>1. c[Walk(b)[g]] = Walk(b)[g]
    BY <1>2, <1>9
  <2>2. b \in Ends /\ Alive \in SUBSET Task /\ \A u \in Alive : b[u] \in Alive
    BY WalksEnd DEF b
  <2> QED
    BY <1>5, <1>7, <1>8, <2>1, <2>2, WalksAgree
<1> QED
  BY <1>1, <1>2, <1>4, <1>6, <1>10 DEF Culprit

----------------------------------------------------------------------------
(* Two tasks, as every module of the repository has. *)

\* The lower one never finds a mutex taken, and nobody takes a mutex from the
\* upper one while that is about to run.
TwoTasks ==
  NumTasks = 2 =>
    /\ pc[1] # "mutex"
    /\ pc[0] = "mutex" /\ TASK_TIMER \in signals[0] => holder[wanted[0]] = NONE

LEMMA InitTwoTasks == Init => TwoTasks
  BY DEF Init, TwoTasks

\* While the lower task runs its own code, the upper one has no mutex, or waits
\* for one that the lower one has.
LEMMA LowerRuns ==
  ASSUME IInv, Orderly, NumTasks = 2, Running(1)
  PROVE  /\ pc[0] # "run" /\ ~Woken(0)
         /\ held[0] # {} => pc[0] = "mutex" /\ wanted[0] \in held[1]
<1> USE DEF IInv, Orderly
<1>1. current_task = 1 /\ 0 \in Task /\ 1 \in Task /\ 0 \in 0 .. current_task - 1
  BY DEF Running
<1>2. Idle(0) \/ \E g \in 0 .. 0 : ~Idle(g) /\ Culprit[g] = 1
  BY <1>1, NothingInverted DEF NoInversion, Running
<1>3. CASE Idle(0)
  BY <1>1, <1>3 DEF Idle, Ready, LockOrder
<1>4. CASE ~Idle(0)
  <2> DEFINE c == [t \in Task |-> WaitsFor(t)]
  <2>1. Walk(c)[0] = 1
    BY <1>2, <1>4 DEF Culprit
  <2>2. c \in Ends
    BY DEF Ends, WaitsFor, TypeOK, WaitsProperly
  <2>3. c[0] # 0
    <3> HIDE DEF c
    <3> QED
      BY <1>1, <2>1, <2>2, WalkOfRunnable
  <2>4. c[0] # NONE
    <3> HIDE DEF c
    <3> QED
      BY <1>1, <2>1, <2>2, WalkDies
  <2>5. pc[0] = "mutex" /\ ~Woken(0) /\ holder[wanted[0]] = c[0] /\ c[0] = 1
    BY <1>1, <2>2, <2>3, <2>4 DEF WaitsFor, Ends
  <2>6. wanted[0] \in held[1]
    BY <1>1, <2>5 DEF WaitsProperly, HoldersAgree
  <2> QED
    BY <2>5, <2>6
<1> QED
  BY <1>3, <1>4

LEMMA NextTwoTasks ==
  ASSUME IInv, Orderly, TwoTasks, [Next]_vars PROVE TwoTasks'
<1> SUFFICES ASSUME NumTasks = 2
             PROVE  /\ pc'[1] # "mutex"
                    /\ pc'[0] = "mutex" /\ TASK_TIMER \in signals'[0] =>
                         holder'[wanted'[0]] = NONE
  BY DEF TwoTasks
<1> USE DEF IInv
<1>0. /\ Task = {0, 1} /\ pc[1] # "mutex"
      /\ pc[0] = "mutex" /\ TASK_TIMER \in signals[0] => holder[wanted[0]] = NONE
  BY DEF TwoTasks
<1>1. CASE Tick \/ RaiseEvent \/ PendSV \/ UNCHANGED vars
  BY <1>0, <1>1 DEF Tick, RaiseEvent, PendSV, vars, locks, local
<1>2. CASE GetNext
  <2>1. /\ UNCHANGED <<pc, wanted, holder>>
        /\ TASK_TIMER \in signals'[0] => TASK_TIMER \in signals[0] \/ 0 \in Expired
    BY <1>2 DEF GetNext, Signalled, locks, local
  <2>2. 0 \in Expired => pc[0] = "sleep"
    BY <1>0 DEF Expired, TimerSignalIsOwed
  <2> QED
    BY <1>0, <2>1, <2>2
<1>3. ASSUME NEW t \in Task, NEW m \in Mutex, Lock(t, m)
      PROVE  /\ pc'[1] # "mutex"
             /\ pc'[0] = "mutex" /\ TASK_TIMER \in signals'[0] =>
                  holder'[wanted'[0]] = NONE
  <2>1. /\ pc[t] = "run" /\ Running(t) /\ signals' = signals
        /\ \A h \in held[t] : h < m
    BY <1>3 DEF Lock, Running, MayLock
  <2>2. CASE Free(m)
    <3>1. /\ UNCHANGED <<pc, wanted>>
          /\ \A k \in Mutex : holder'[k] = IF k = m THEN t ELSE holder[k]
      BY <1>3, <2>2 DEF Lock, Take, local, TypeOK
    <3>2. CASE t = 1
      <4>1. pc[0] = "mutex" => TASK_TIMER \notin signals[0]
        BY <2>1, <3>2, LowerRuns DEF Woken, Requested
      <4> QED
        BY <1>0, <2>1, <3>1, <4>1
    <3>3. CASE t = 0
      BY <1>0, <2>1, <3>1, <3>3
    <3> QED
      BY <1>0, <3>2, <3>3
  <2>3. CASE ~Free(m)
    <3>1. /\ wanted' = [wanted EXCEPT ![t] = m] /\ pc' = [pc EXCEPT ![t] = "mutex"]
          /\ UNCHANGED holder
      BY <1>3, <2>3 DEF Lock, Wait
    <3>2. CASE t = 1
      <4>1. holder[m] \in Task /\ m \in held[holder[m]]
        BY <2>3 DEF Free, TypeOK, HoldersAgree
      <4>2. holder[m] # 1
        BY <2>1, <3>2, <4>1
      <4>3. m \in held[0]
        BY <1>0, <4>1, <4>2
      <4>4. pc[0] = "mutex" /\ wanted[0] \in held[1]
        BY <2>1, <3>2, <4>3, LowerRuns
      <4>5. m < wanted[0] /\ wanted[0] < m
        BY <1>0, <2>1, <3>2, <4>3, <4>4 DEF Orderly, LockOrder
      <4>6. wanted[0] \in Mutex
        BY <1>0, <4>4 DEF WaitsProperly
      <4> QED
        BY <4>5, <4>6
    <3>3. CASE t = 0
      <4>1. TASK_TIMER \notin signals[0]
        BY <2>1, <3>3 DEF TimerSignalIsOwed
      <4> QED
        BY <1>0, <2>1, <3>1, <3>3, <4>1 DEF TypeOK
    <3> QED
      BY <1>0, <3>2, <3>3
  <2> QED
    BY <2>2, <2>3
<1>4. ASSUME NEW t \in Task, NEW m \in Mutex, Unlock(t, m)
      PROVE  /\ pc'[1] # "mutex"
             /\ pc'[0] = "mutex" /\ TASK_TIMER \in signals'[0] =>
                  holder'[wanted'[0]] = NONE
  <2>1. /\ UNCHANGED <<pc, wanted>>
        /\ \A k \in Mutex : holder'[k] = IF k = m THEN NONE ELSE holder[k]
        /\ TASK_TIMER \in signals'[0] => TASK_TIMER \in signals[0] \/ mutex_waiters[0] = m
    BY <1>0, <1>4 DEF Unlock, Signalled, WaitersOf, local, TypeOK
  <2>2. pc[0] = "mutex" => wanted[0] \in Mutex
    BY <1>0 DEF WaitsProperly
  <2>3. pc[0] = "mutex" /\ TASK_TIMER \notin signals[0] => mutex_waiters[0] = wanted[0]
    BY <1>0 DEF WaiterKnowsHolder
  <2> QED
    BY <1>0, <2>1, <2>2, <2>3
<1>5. ASSUME NEW t \in Task, \/ \E n \in 1 .. MaxSleep : Sleep(t, n)
                            \/ SignalWait(t)
                            \/ \E u \in Task : SignalSend(t, u)
      PROVE  /\ pc'[1] # "mutex"
             /\ pc'[0] = "mutex" /\ TASK_TIMER \in signals'[0] =>
                  holder'[wanted'[0]] = NONE
  <2>1. /\ pc'[1] = "mutex" => pc[1] = "mutex"
        /\ pc'[0] = "mutex" => pc[0] = "mutex"
        /\ UNCHANGED <<holder, wanted>>
        /\ TASK_TIMER \in signals'[0] => TASK_TIMER \in signals[0]
    BY <1>0, <1>5 DEF Sleep, SignalWait, SignalSend, Wait, Signalled, locks, local, TypeOK
  <2> QED
    BY <1>0, <2>1
<1>6. ASSUME NEW t \in Task, Resume(t)
      PROVE  /\ pc'[1] # "mutex"
             /\ pc'[0] = "mutex" /\ TASK_TIMER \in signals'[0] =>
                  holder'[wanted'[0]] = NONE
  <2>1. CASE ~Woken(t)
    BY <1>0, <1>6, <2>1 DEF Resume, locks, local
  <2>2. CASE Woken(t) /\ pc[t] = "mutex"
    <3>1. t = 0 /\ TASK_TIMER \in signals[0] /\ Free(wanted[0])
      BY <1>0, <2>2 DEF Woken, Requested, Free
    <3>2. pc' = [pc EXCEPT ![0] = "run"]
      BY <1>6, <2>2, <3>1 DEF Resume
    <3> QED
      BY <1>0, <3>2 DEF TypeOK
  <2>3. CASE Woken(t) /\ pc[t] # "mutex"
    <3>1. /\ pc' = [pc EXCEPT ![t] = "run"] /\ wanted' = [wanted EXCEPT ![t] = NONE]
          /\ signals' = [signals EXCEPT ![t] = @ \ Requested(t)]
          /\ UNCHANGED holder
      BY <1>6, <2>3 DEF Resume
    <3> QED
      BY <1>0, <2>3, <3>1 DEF TypeOK
  <2> QED
    BY <2>1, <2>2, <2>3
<1> QED
  BY <1>1, <1>2, <1>3, <1>4, <1>5, <1>6 DEF Next, TaskStep

----------------------------------------------------------------------------
(* The theorems. *)

\* Every reachable state satisfies the invariant.
LEMMA Invariance == Spec => []IInv
<1>1. Init => IInv
  BY InitIInv
<1>2. IInv /\ [Next]_vars => IInv'
  <2> SUFFICES ASSUME IInv, [Next]_vars PROVE IInv'
    OBVIOUS
  <2>1. CASE Tick
    BY <2>1, TickIInv
  <2>2. CASE RaiseEvent
    BY <2>2, RaiseEventIInv
  <2>3. CASE PendSV
    BY <2>3, PendSVIInv
  <2>4. CASE GetNext
    BY <2>4, GetNextIInv
  <2>5. CASE \E t \in Task : TaskStep(t)
    <3> PICK t \in Task : TaskStep(t)
      BY <2>5
    <3> QED
      BY LockIInv, UnlockIInv, SleepIInv, SignalWaitIInv, SignalSendIInv, ResumeIInv
      DEF TaskStep
  <2>6. CASE UNCHANGED vars
    BY <2>6, StutterIInv
  <2> QED
    BY <2>1, <2>2, <2>3, <2>4, <2>5, <2>6 DEF Next
<1> QED
  BY <1>1, <1>2, PTL DEF Spec

\* The kernel's variables keep their types for any number of tasks and mutexes.
THEOREM Typing == Spec => []TypeOK
<1>1. IInv => TypeOK
  BY DEF IInv
<1> QED
  BY <1>1, Invariance, PTL

\* Neither sleep nor mutex_unlock loses a wake-up, and none is left for the
\* task's next wait on the signal the two share.
THEOREM NoWakeUpIsLost == Spec => []WakeUpsAreOwed
<1>1. IInv => WakeUpsAreOwed
  BY DEF IInv, WakeUpsAreOwed
<1> QED
  BY <1>1, Invariance, PTL

\* The kernel's holder, the task's own belief and the waiter's blocker agree:
\* mutexes exclude, and the priority a waiter lends goes to the holder.
THEOREM MutexesExclude == Spec => [](HoldersAgree /\ WaiterKnowsHolder)
<1>1. IInv => HoldersAgree /\ WaiterKnowsHolder
  BY DEF IInv
<1> QED
  BY <1>1, Invariance, PTL

\* The second invariant rests on the first, and the third on both.
LEMMA OrderlyInvariance == Spec => [](Orderly /\ TwoTasks)
<1>1. Init => Orderly /\ TwoTasks
  BY InitOrderly, InitTwoTasks
<1>2. IInv /\ Orderly /\ TwoTasks /\ [Next]_vars => (Orderly /\ TwoTasks)'
  <2> SUFFICES ASSUME IInv, Orderly, TwoTasks, [Next]_vars PROVE Orderly' /\ TwoTasks'
    OBVIOUS
  <2>1. Orderly'
    <3>1. CASE Tick \/ RaiseEvent \/ PendSV \/ UNCHANGED vars
      BY <3>1, KernelOrderly
    <3>2. CASE GetNext
      BY <3>2, GetNextOrderly
    <3>3. CASE \E t \in Task : TaskStep(t)
      <4> PICK t \in Task : TaskStep(t)
        BY <3>3
      <4> QED
        BY LockOrderly, UnlockOrderly, SleepOrderly, SignalWaitOrderly,
           SignalSendOrderly, ResumeOrderly DEF TaskStep
    <3> QED
      BY <3>1, <3>2, <3>3 DEF Next
  <2> QED
    BY <2>1, NextTwoTasks
<1> QED
  BY <1>1, <1>2, Invariance, PTL DEF Spec

\* The scheduler's walk along blocked_on ends, for any number of tasks: it never
\* goes round, whatever the tasks hold and wait for.
THEOREM TheSchedulerEnds == Spec => []SchedulerEnds
<1>1. IInv /\ Orderly => SchedulerEnds
  BY WalksEnd DEF SchedulerEnds
<1> QED
  BY <1>1, Invariance, OrderlyInvariance, PTL

\* While a task runs its own code, the highest task above it that could run but
\* for a mutex waits, from holder to holder, for that task.
THEOREM NoPriorityIsInverted == Spec => []NoInversion
<1>1. IInv /\ Orderly => NoInversion
  BY NothingInverted
<1> QED
  BY <1>1, Invariance, OrderlyInvariance, PTL

\* With at most two tasks, as every module has, all views of a mutex agree: the
\* task that is woken to take a mutex finds it free.
THEOREM ViewsAgreeBetweenTwo ==
  ASSUME NumTasks <= 2 PROVE Spec => []MutexViewsAgree
<1>1. IInv /\ Orderly /\ TwoTasks => MutexViewsAgree
  <2> SUFFICES ASSUME IInv, Orderly, TwoTasks, pc[current_task] = "mutex", Woken(current_task)
               PROVE  HoldersAgree /\ WaiterKnowsHolder /\ holder[wanted[current_task]] = NONE
    BY DEF MutexViewsAgree, NeverWaitsTwice, IInv
  <2>1. CASE NumTasks = 2
    <3>1. current_task \in {0, 1}
      BY <2>1 DEF IInv, TypeOK
    <3> QED
      BY <2>1, <3>1 DEF TwoTasks, Woken, Requested, IInv
  <2>2. CASE NumTasks = 1
    <3>1. current_task = 0 /\ wanted[0] \in Mutex /\ holder[wanted[0]] \in {NONE, 0}
      BY <2>2 DEF IInv, TypeOK, WaitsProperly
    <3>2. wanted[0] \notin held[0]
      BY <3>1 DEF Orderly, LockOrder, IInv, TypeOK
    <3> QED
      BY <3>1, <3>2 DEF IInv, HoldersAgree
  <2> QED
    BY <2>1, <2>2, KernelAssumption
<1> QED
  BY <1>1, Invariance, OrderlyInvariance, PTL
=============================================================================
