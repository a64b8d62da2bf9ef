--------------------------- MODULE MCFactoryRuns ---------------------------
(* FactoryRuns on one small factory, the one that babysits. *)
EXTENDS FactoryRuns, MCFactories

CONSTANTS a, b

MCBabysitting == {Babysitting}
=============================================================================
