------------------------------ MODULE MCGroups ------------------------------
(* A group of at most three.                                               *)
EXTENDS Groups
CONSTANTS me, b, c

MCUsers == {me, b, c}
=============================================================================
