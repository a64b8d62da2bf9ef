---------------------------- MODULE MCStepCalls ----------------------------
(* A factory run's step calls on small instances. *)
EXTENDS StepCalls
=============================================================================
