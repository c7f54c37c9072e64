------------------------------ MODULE ReadyMsgs ------------------------------
(***************************************************************************)
(* ready_msgs, the ring between the two tasks: can_wait puts each message  *)
(* it has completed, the application task pops them in call_callback, and  *)
(* no lock keeps them apart.                                               *)
(*                                                                         *)
(* can_wait has the higher priority: its put runs between any two          *)
(* statements of the application task and is never interrupted by them.    *)
(* The application task goes statement by statement; reg is a register     *)
(* that holds what it last loaded.  Copying *buffer_head takes a while: a  *)
(* message whose slot is written meanwhile is Torn.  How many times pop    *)
(* stores head, once or once more for the wrap, is the compiler's choice.  *)
(*                                                                         *)
(* Messages are numbered in the order in which they are completed.         *)
(***************************************************************************)
EXTENDS MessageBuffer, Sequences

CONSTANTS
  MaxMessages,   \* bound of the model: messages completed in a behaviour
  Torn           \* a copy of two messages

Message == 0 .. MaxMessages

ASSUME ReadyAssumption ==
  MaxMessages \in Nat /\ Torn \notin Message /\ Outside \notin Message

VARIABLES
  buffer,       \* ready_msgs
  completed,    \* number of messages completed so far
  pc,           \* the application task's next statement
  reg,          \* buffer_head as it was last loaded
  copy,         \* msg, the local variable of pop
  given,        \* the message given to the callback last
  newest,       \* ghost: the newest message given so far
  broken,       \* ghost: put has overwritten a message in the middle of a pop,
                \* or moved head out of the array
  restarts      \* ghost: how often the ring has been found empty after that

local == <<reg, copy>>
vars == <<buffer, completed, pc, local, given, newest, broken, restarts>>

Init ==
  /\ buffer = NewBuffer([i \in Slot |-> 0])
  /\ completed = 0
  /\ pc = "idle" /\ reg = 0 /\ copy = 0 /\ given = 0 /\ newest = 0
  /\ broken = FALSE /\ restarts = 0

----------------------------------------------------------------------------
(* can_wait: receive_message has filled the last packet of a message. *)

InPop == pc \in {"copy", "copying", "load", "store", "wrap"}

\* Where the ring is read next: the wrap is still to come after the first store.
Reader == IF pc = "wrap" /\ reg - 1 < 0 THEN Size - 1 ELSE buffer.head

\* The next put overwrites a message: one more step of tail meets the reader.
IsFull == StepDown(buffer.tail) = Reader

Complete ==
  /\ completed < MaxMessages
  /\ completed' = completed + 1
  /\ buffer' = Put(buffer, completed + 1)
  /\ broken' = (broken \/ (IsFull /\ (InPop \/ buffer.head = 0)))
  /\ UNCHANGED <<pc, local, given, newest, restarts>>

----------------------------------------------------------------------------
(* The application task: spin() calls call_callback. *)

\* is_empty, first half; the loop starts, or goes round.
LoadHead ==
  /\ pc = "idle"
  /\ reg' = buffer.head
  /\ pc' = "compare"
  /\ UNCHANGED <<buffer, completed, copy, given, newest, broken, restarts>>

\* A plausible bug: the callback is called before the ring is asked.
CompareTailUnchecked ==
  /\ pc = "compare"
  /\ pc' = "copy"
  /\ UNCHANGED <<buffer, completed, local, given, newest, broken, restarts>>

\* is_empty, second half.  An empty ring ends the call; what an overrun broke
\* is whole again if the ring really is empty.
CompareTail ==
  /\ pc = "compare"
  /\ pc' = IF reg = buffer.tail THEN "idle" ELSE "copy"
  /\ IF reg = buffer.tail /\ IsEmpty(buffer) /\ broken
       THEN broken' = FALSE /\ restarts' = restarts + 1
       ELSE UNCHANGED <<broken, restarts>>
  /\ UNCHANGED <<buffer, completed, local, given, newest>>

CopyBegin ==
  /\ pc = "copy"
  /\ reg' = buffer.head
  /\ copy' = ReadHead(buffer)
  /\ pc' = "copying"
  /\ UNCHANGED <<buffer, completed, given, newest, broken, restarts>>

CopyEnd ==
  /\ pc = "copying"
  /\ copy' = IF reg \in Slot /\ buffer.slots[reg] # copy THEN Torn ELSE copy
  /\ pc' = "load"
  /\ UNCHANGED <<buffer, completed, reg, given, newest, broken, restarts>>

Load ==
  /\ pc = "load"
  /\ reg' = buffer.head
  /\ pc' = "store"
  /\ UNCHANGED <<buffer, completed, copy, given, newest, broken, restarts>>

\* A plausible bug: pop leaves a head alone that put has moved too far.
StoreStuck ==
  /\ pc = "store"
  /\ buffer' = [buffer EXCEPT !.head = IF reg < 0 THEN reg ELSE StepDown(reg)]
  /\ pc' = "idle"
  /\ given' = copy
  /\ newest' = IF copy \in Message THEN copy ELSE newest
  /\ UNCHANGED <<completed, local, broken, restarts>>

\* --buffer_head, with the wrap or before it.
Store ==
  /\ pc = "store"
  /\ \/ /\ buffer' = [buffer EXCEPT !.head = StepDown(reg)]
        /\ pc' = "idle"
     \/ /\ buffer' = [buffer EXCEPT !.head = reg - 1]
        /\ pc' = "wrap"
  /\ given' = copy
  /\ newest' = IF copy \in Message THEN copy ELSE newest
  /\ UNCHANGED <<completed, local, broken, restarts>>

Wrap ==
  /\ pc = "wrap"
  /\ buffer' = IF reg - 1 < 0 THEN [buffer EXCEPT !.head = Size - 1] ELSE buffer
  /\ pc' = "idle"
  /\ UNCHANGED <<completed, local, given, newest, broken, restarts>>

CallCallback ==
  LoadHead \/ CompareTail \/ CopyBegin \/ CopyEnd \/ Load \/ Store \/ Wrap

Next == Complete \/ CallCallback

Spec == Init /\ [][Next]_vars

\* The application task calls spin() again and again.
FairSpec == Spec /\ WF_vars(CallCallback)

----------------------------------------------------------------------------
\* The callback gets messages in the order they were completed and none twice,
\* whatever overruns do to the cursors.
GivenInOrder == pc = "store" /\ copy \in Message => copy > newest

\* ready_msgs keeps the promise of a bounded queue although nothing keeps the two
\* tasks apart, until put overwrites a message in the middle of a pop (or moves
\* head out of the array), and again once it has been found empty.
Fifo == INSTANCE BoundedFifo WITH
  Capacity <- Size - 1,
  Message  <- 1 .. MaxMessages,
  queue    <- Contents(buffer.slots, Reader, buffer.tail),
  taken    <- given

FifoSpec == Fifo!Spec

\* However the tasks interleave, the ring is emptied in the end.
Drains == <>[]IsEmpty(buffer)
=============================================================================
