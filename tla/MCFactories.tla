---------------------------- MODULE MCFactories ----------------------------
(* Small factories of three steps. *)
EXTENDS Naturals, Sequences

CONSTANTS coder, intake

\* Work, a wait with a quiet time, and work that sends back to the wait, as
\* the shipped factory's publish, babysit and assess; the first step is retried.
Babysitting ==
    [kind |-> <<"work", "wait", "work">>, role |-> <<coder, coder, coder>>,
     back |-> <<0, 0, 2>>, failed |-> <<0, 0, 0>>, max |-> 1,
     retries |-> <<1, 0, 0>>, timer |-> <<"none", "quiet", "none">>]

\* A wait with a deadline, checks whose failure is sent back to it, and an approval.
Rechecking ==
    [kind |-> <<"wait", "work", "approve">>, role |-> <<coder, intake, coder>>,
     back |-> <<0, 0, 0>>, failed |-> <<0, 1, 0>>, max |-> 1,
     retries |-> <<0, 0, 0>>, timer |-> <<"deadline", "none", "none">>]
=============================================================================
