------------------------------ MODULE MCTurns ------------------------------
(* Turns on small instances. *)
EXTENDS Turns, TLC

CONSTANTS u1, u2, r1, s1, v1, th1, th2, th3

Symmetry == Permutations(Threads)
=============================================================================
