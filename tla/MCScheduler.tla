---------------------------- MODULE MCScheduler ----------------------------
\* An instance of Scheduler for TLC: one routine with a delivery from its
\* provider and a payload from the user.
EXTENDS Scheduler

CONSTANTS scan, push, payload

ForScan == [d \in {push, payload} |-> scan]
=============================================================================
