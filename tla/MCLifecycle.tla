---------------------------- MODULE MCLifecycle ----------------------------
(* Lifecycle with an instance that is there, one to create under its name, and *)
(* one that another manager runs.                                            *)
EXTENDS Lifecycle

CONSTANTS a, b, f, v1

SameName == [i \in Inst |-> "scout"]
=============================================================================
