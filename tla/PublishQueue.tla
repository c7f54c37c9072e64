---------------------------- MODULE PublishQueue ----------------------------
(***************************************************************************)
(* A publisher's outgoing queue, used by the application task alone: it    *)
(* publishes messages, then spin() empties the queue onto the bus before   *)
(* the application publishes again.  Messages are numbered in the order    *)
(* they are published.                                                     *)
(***************************************************************************)
EXTENDS MessageBuffer

CONSTANTS
  Burst,          \* most messages published between two spins
  MaxPublished    \* bound of the model on the messages published

ASSUME BurstAssumption == Burst \in Nat /\ MaxPublished \in Nat

VARIABLES
  buffer,         \* the ring
  current,        \* current_message: what pop returned last, 0 at first
  published,      \* messages published so far, the number of the last one
  unspun,         \* messages published since the last spin
  spinning,       \* the task is inside spin()
  newest,         \* newest message popped so far (ghost)
  strays,         \* times this spin popped Outside (ghost)
  broken,         \* head has left the array since the last spin (ghost)
  recovered       \* spins that emptied a ring whose head had left it (ghost)

ghosts == <<newest, strays, broken, recovered>>
vars == <<buffer, current, published, unspun, spinning, ghosts>>

TypeOK ==
  /\ buffer \in [slots : [Slot -> 0 .. MaxPublished], head : -1 .. Size - 1,
                 tail : Slot]
  /\ current \in (0 .. MaxPublished) \cup {Outside}
  /\ published \in 0 .. MaxPublished
  /\ unspun \in 0 .. Burst
  /\ spinning \in BOOLEAN
  /\ newest \in 0 .. MaxPublished
  /\ strays \in Nat /\ broken \in BOOLEAN /\ recovered \in Nat

\* The array is the caller's; 0 stands for what it holds before any put.
Init ==
  /\ buffer = NewBuffer([i \in Slot |-> 0])
  /\ current = 0
  /\ published = 0
  /\ unspun = 0
  /\ spinning = FALSE
  /\ newest = 0
  /\ strays = 0 /\ broken = FALSE /\ recovered = 0

Publish ==
  /\ ~spinning
  /\ unspun < Burst
  /\ published < MaxPublished
  /\ published' = published + 1
  /\ unspun' = unspun + 1
  /\ buffer' = Put(buffer, published + 1)
  /\ broken' = (broken \/ buffer'.head < 0)
  /\ UNCHANGED <<current, spinning, newest, strays, recovered>>

BeginSpin ==
  /\ ~spinning
  /\ spinning' = TRUE
  /\ strays' = 0
  /\ UNCHANGED <<buffer, current, published, unspun, newest, broken, recovered>>

\* A plausible bug: popping without asking is_empty.
TakeNextUnchecked ==
  /\ spinning
  /\ current' = ReadHead(buffer)
  /\ buffer' = Pop(buffer)
  /\ newest' = IF buffer.head \in Slot THEN ReadHead(buffer) ELSE newest
  /\ UNCHANGED <<published, unspun, spinning, strays, broken, recovered>>

\* get_next_message starts the next message only if the buffer is not empty.
TakeNext ==
  /\ spinning
  /\ ~IsEmpty(buffer)
  /\ current' = ReadHead(buffer)
  /\ buffer' = Pop(buffer)
  /\ IF buffer.head \in Slot
       THEN newest' = ReadHead(buffer) /\ UNCHANGED strays
       ELSE strays' = strays + 1 /\ UNCHANGED newest
  /\ UNCHANGED <<published, unspun, spinning, broken, recovered>>

EndSpin ==
  /\ spinning
  /\ IsEmpty(buffer)
  /\ spinning' = FALSE
  /\ unspun' = 0
  /\ broken' = FALSE
  /\ recovered' = IF broken THEN recovered + 1 ELSE recovered
  /\ UNCHANGED <<buffer, current, published, newest, strays>>

Next == Publish \/ BeginSpin \/ TakeNext \/ EndSpin

Spec == Init /\ [][Next]_vars

----------------------------------------------------------------------------
\* A message about to be popped from the array was published after every
\* message popped before it: publishing more than the ring holds may lose
\* messages and make pop read outside the array, but it never makes the
\* publisher send a message twice or send messages out of order.
NextIsNewer ==
  ~IsEmpty(buffer) /\ buffer.head \in Slot => ReadHead(buffer) > newest

\* pop reads in front of the array at most once per spin: it wraps head, and
\* nothing can move head out of the array again before the spin is over.
OneStrayPerSpin == strays <= 1

\* Head leaves the array only if the application published at least Size
\* messages without a spin: a ring of Size elements is safe for Size - 1.
SafeWithinCapacity == broken => unspun >= Size

\* The publisher's queue keeps the promise of a bounded queue of Size - 1
\* messages that drops the oldest ("Allows them to be queued in FIFO order",
\* Message_Buffer.hpp) until head leaves the array, and again after the spin
\* that follows, which always leaves an empty and consistent ring behind.
Fifo == INSTANCE BoundedFifo WITH
  Capacity <- Size - 1,
  Message  <- 1 .. MaxPublished,
  queue    <- Contents(buffer.slots, buffer.head, buffer.tail),
  taken    <- current,
  restarts <- recovered

FifoSpec == Fifo!Spec
=============================================================================
