---------------------------- MODULE BoundedFifo ----------------------------
(***************************************************************************)
(* What a message buffer promises its users: first in, first out, and when *)
(* it is full the oldest message makes room for the newest.  The promise   *)
(* has two escape clauses, and only these: a message put into a full queue *)
(* and a message taken from an empty one may break the queue, after which  *)
(* nothing is said of its contents until it restarts, empty.               *)
(***************************************************************************)
EXTENDS Naturals, Sequences

CONSTANTS
  Capacity,    \* messages the queue can hold
  Message      \* messages that can be put

VARIABLES
  queue,       \* the messages held, oldest first
  taken,       \* the message taken last
  broken,      \* an escape clause has been used since the last restart
  restarts     \* how often the queue has restarted

vars == <<queue, taken, broken, restarts>>

Full == Len(queue) = Capacity

Init == queue = <<>> /\ broken = FALSE /\ restarts = 0

PutMessage ==
  /\ ~broken
  /\ \E m \in Message :
       queue' = Append(IF Full THEN Tail(queue) ELSE queue, m)
  /\ UNCHANGED <<taken, broken, restarts>>

TakeMessage ==
  /\ ~broken
  /\ queue # <<>>
  /\ taken' = Head(queue)
  /\ queue' = Tail(queue)
  /\ UNCHANGED <<broken, restarts>>

Break ==
  /\ broken \/ Full \/ queue = <<>>
  /\ broken'
  /\ UNCHANGED restarts

Restart ==
  /\ restarts' = restarts + 1
  /\ queue' = <<>>
  /\ ~broken'

Next == PutMessage \/ TakeMessage \/ Break \/ Restart

Spec == Init /\ [][Next]_vars
=============================================================================
