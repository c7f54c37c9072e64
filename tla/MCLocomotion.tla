---------------------------- MODULE MCLocomotion ----------------------------
(* A node with commands in and out of range for TLC. *)
EXTENDS Locomotion

\* 3 m/s is the rover's maximum, 51 a duty of 100%, and below -9 and above 51
\* no duty at all.
Speeds == {-30, -9, -3, 0, 2, 3, 51, 60}

\* 1.6 rad is a quarter of a turn; below -5.1 rad no duty.
Angles == {-52, -16, 0, 8, 16}
=============================================================================
