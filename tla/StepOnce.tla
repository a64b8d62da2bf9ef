------------------------------ MODULE StepOnce ------------------------------
(***************************************************************************)
(* What a factory run is promised of each attempt at a step, whatever is   *)
(* lost or restarts on the way (ADR 0102, ADR 0107): the instance executes *)
(* it at most once, and the hub records what that execution came to.       *)
(* An execution that raised an error holds nothing, so it may be repeated. *)
(***************************************************************************)
CONSTANTS Attempts, Results

VARIABLES
    execution,  \* what the instance did of each attempt
    recorded    \* what the hub recorded of it

Init ==
    /\ execution = [k \in Attempts |-> "never"]
    /\ recorded = [k \in Attempts |-> "nothing"]

Execute(k) ==
    /\ execution[k] \in {"never", "raised"}
    /\ recorded[k] = "nothing"
    /\ execution' = [execution EXCEPT ![k] = "running"]
    /\ UNCHANGED recorded

\* It ends with a result, raises, or dies with its instance.
End(k) ==
    /\ execution[k] = "running"
    /\ \E r \in Results \cup {"raised", "killed"} : execution' = [execution EXCEPT ![k] = r]
    /\ UNCHANGED recorded

\* An execution with a result is recorded as that result, any other as failed.
Record(k) ==
    /\ recorded[k] = "nothing" /\ execution[k] # "running"
    /\ recorded' = [recorded EXCEPT ![k] =
                      IF execution[k] \in Results THEN execution[k] ELSE "failed"]
    /\ UNCHANGED execution

\* No instance was left to ask: attempts fail without their execution's word.
Refuse(refused) ==
    /\ \A k \in refused : recorded[k] = "nothing" /\ execution[k] # "running"
    /\ recorded' = [k \in Attempts |-> IF k \in refused THEN "refused" ELSE recorded[k]]
    /\ UNCHANGED execution

Next ==
    \/ \E k \in Attempts : Execute(k) \/ End(k) \/ Record(k)
    \/ \E refused \in SUBSET Attempts : Refuse(refused)

Spec == Init /\ [][Next]_<<execution, recorded>>
=============================================================================
