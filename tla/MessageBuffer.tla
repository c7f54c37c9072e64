--------------------------- MODULE MessageBuffer ---------------------------
(***************************************************************************)
(* Message_Buffer<T>, the array ring behind the incoming CAN frames, every *)
(* publisher's outgoing messages and every subscriber's completed ones.    *)
(*                                                                         *)
(* A pointer into the array is its index.  Both cursors walk downwards:    *)
(* put writes at tail, pop reads at head, and head = tail means empty, so  *)
(* at most Size - 1 messages are held.  The member is_full is left out: it *)
(* starts FALSE, pop clears it, and put clears it again in the same call   *)
(* that sets it, so no call ever begins with it set.                       *)
(*                                                                         *)
(* put moves head below the first element when it overwrites the oldest    *)
(* message and head is at index 0; the ring then reads the memory in front *)
(* of the array.  Outside stands for whatever is found there.              *)
(***************************************************************************)
EXTENDS Integers

CONSTANTS
  Size,      \* number of elements of the array
  Outside    \* the content of the memory in front of the array

ASSUME SizeAssumption == Size \in Nat /\ Size >= 2

Slot == 0 .. Size - 1

\* A plausible bug: wrapping one element early, so that index 0 is never used.
StepDownEarly(i) == IF i - 1 <= 0 THEN Size - 1 ELSE i - 1

\* The cursor one element further, wrapped at the start of the array.
StepDown(i) == IF i - 1 < 0 THEN Size - 1 ELSE i - 1

NewBuffer(memory) ==
  [slots |-> memory, head |-> Size - 1, tail |-> Size - 1]

IsEmpty(b) == b.head = b.tail

\* What pop returns.
ReadHead(b) == IF b.head \in Slot THEN b.slots[b.head] ELSE Outside

\* A plausible bug: pop leaves a head alone that put has moved too far.
PopStuck(b) == [b EXCEPT !.head = IF b.head < 0 THEN b.head ELSE StepDown(b.head)]

\* What pop leaves behind.
Pop(b) == [b EXCEPT !.head = StepDown(b.head)]

\* A plausible bug: put forgets to wrap tail.
PutUnwrapped(b, m) ==
  [slots |-> [b.slots EXCEPT ![b.tail] = m],
   tail  |-> b.tail - 1,
   head  |-> IF b.tail - 1 = b.head THEN b.head - 1 ELSE b.head]

\* A plausible bug: full one element early.
PutFullEarly(b, m) ==
  LET t == StepDown(b.tail)
  IN  [slots |-> [b.slots EXCEPT ![b.tail] = m],
       tail  |-> t,
       head  |-> IF StepDown(t) = b.head THEN b.head - 1 ELSE b.head]

\* A full ring drops its oldest message, but head is not wrapped.
Put(b, m) ==
  LET t == StepDown(b.tail)
  IN  [slots |-> [b.slots EXCEPT ![b.tail] = m],
       tail  |-> t,
       head  |-> IF t = b.head THEN b.head - 1 ELSE b.head]

----------------------------------------------------------------------------
(* The contents seen as a queue: not code, the refinement mapping's view. *)

\* The index k elements further down than h.
Down(h, k) == IF h >= k THEN h - k ELSE h - k + Size

\* How many messages lie between a reader at index h and the tail t.
Between(h, t) == Down(h, t)

\* The messages a reader at index h is still to pop, oldest first.
Contents(slots, h, t) == [i \in 1 .. Between(h, t) |-> slots[Down(h, i - 1)]]

Held(b) == Contents(b.slots, b.head, b.tail)
=============================================================================
