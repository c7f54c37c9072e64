---------------------------- MODULE MCTransport ----------------------------
(* Instances of Transport for TLC: what each node sends. *)
EXTENDS Transport, TLC

CONSTANTS n1, n2

\* One node sends enough short messages for the message number to wrap, the
\* other an empty message or one as long as the sequence number allows.
ShortAndLong == n1 :> {1, 2} @@ n2 :> {0, 7}
FiveAndOne == n1 :> 5 @@ n2 :> 1

\* What Transport_proofs assumes of the lengths.
ASSUME ShortMessagesAssumption == ShortMessages
ASSUME LengthsAssumption == NoSpecialMode
=============================================================================
