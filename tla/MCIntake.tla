------------------------------ MODULE MCIntake ------------------------------
(* PartIntake on a small instance: three overlapping requests, a part that *)
(* is sent with two different bodies and one that the decoder rejects.     *)
EXTENDS PartIntake, TLC

CONSTANTS p1, p2, b1, b2

MCValid == {<<p1, b1>>, <<p1, b2>>, <<p2, b1>>}

Requests == Permutations(Handler)
=============================================================================
