-------------------------- MODULE MCRetransmitter --------------------------
(* The numbers the computer sends, for TLC. *)
EXTENDS Retransmitter

\* Two wheels: numbers that begin with the magic's last byte and end with its
\* first, and numbers that hold the magic itself.
Misleaders == {<<"FE", "00", "EF", "EF">>, startMagic}

\* Numbers that hold nothing of the magic.
Zeros == {[i \in Data |-> "00"]}
=============================================================================
