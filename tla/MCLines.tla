------------------------------- MODULE MCLines -------------------------------
(* The lines of steps that RunValues runs: the ends of the shipped factory, *)
(* a line whose checks send failures back, and chains of resumed sessions,  *)
(* one of which the factory check refuses.                                  *)
EXTENDS Integers, TLC

No == [to |-> "none", step |-> 0, max |-> 0]
Back(s, m) == [to |-> "back", step |-> s, max |-> m]
NoItem == [n \in {} |-> "no"]

Code(requires, results) ==
    [kind |-> "code", instance |-> "coder", client |-> "none", requires |-> requires,
     results |-> results, outcomes |-> [o \in {} |-> No], failed |-> No, retry |-> -1, resume |-> 0]
Client(client, resume) ==
    [Code({}, {}) EXCEPT !.kind = "client", !.client = client, !.resume = resume]

Line(workItem, doneRequires, steps) ==
    [instances |-> {"coder"}, workItem |-> workItem, doneRequires |-> doneRequires, steps |-> steps]

\* publish and assess: assess requires the pull request publish recorded, and records it as well.
Assessing ==
    Line(NoItem, {}, <<Code({}, {"pr"}), [Code({"pr"}, {"pr"}) EXCEPT !.outcomes = "feedback" :> Back(1, 1)]>>)

\* A step whose failures go back with what failed, and one that is tried again.
Checking ==
    Line("branch" :> "no", {"ok"},
         <<Code({"branch"}, {"words"}), [Code({"words"}, {"ok"}) EXCEPT !.failed = Back(1, 1)],
           [Code({}, {}) EXCEPT !.retry = 1]>>)

Resuming(last) == Line(NoItem, {}, <<Client("claude", 0), Client("claude", 1), Client(last, 2)>>)

MCLineFactories == {Assessing, Checking, Resuming("claude"), Resuming("codex")}
=============================================================================
