---------------------------- MODULE MCDescriptor ----------------------------
(* Instances of Descriptor for TLC: which messages are sent. *)
EXTENDS Descriptor

Scalar(width) == [array |-> FALSE, width |-> width, count |-> 1]
Array(width, count) == [array |-> TRUE, width |-> width, count |-> count]

\* Fields of one to four bytes, shorter and longer than a packet.
SomeFields ==
  {Scalar(w) : w \in {1, 2, 4}} \cup {Array(1, n) : n \in {1, 2, 3, 5}}

\* Messages of up to four such fields; the last may be an empty array.
ByteArrays ==
  {s \o t : s \in UNION {[1 .. n -> SomeFields] : n \in 1 .. 3},
            t \in {<<>>, <<Array(1, 0)>>} \cup {<<f>> : f \in SomeFields}}

\* What Transport_proofs assumes of the messages.
ASSUME MessagesAssumption == OneByteElements /\ EmptyOnlyLast
=============================================================================
