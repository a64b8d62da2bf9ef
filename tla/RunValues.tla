------------------------------ MODULE RunValues ------------------------------
(***************************************************************************)
(* What a factory run holds (hub/runs.py): the values its attempts record, *)
(* which of them a pass through the steps keeps when work is sent back or  *)
(* tried again, the lack a step is refused for and the step that lack is   *)
(* charged to, the coding session a step resumes, and the retries and      *)
(* send-backs that are left; for every factory the factory check passes    *)
(* (factories/check.py).                                                   *)
(*                                                                         *)
(* A step is known by its place in the line.  Delivery, waits, approvals   *)
(* and the calls of stops are FactoryRuns' and StepCalls'.                 *)
(***************************************************************************)
EXTENDS Integers, Sequences, FiniteSets

CONSTANTS
    Factories,     \* the factory files a folder may hold
    MaxAttempts,   \* bound: attempts of the run
    MaxUserMoves,  \* bound: retries and send-backs by the user
    MaxLimited     \* bound: attempts the plan's limit stops

VARIABLES
    factory,   \* the run's factory
    workItem,  \* the values of its work item
    attempts,  \* its attempts, the open one last
    status, at,
    after,     \* restarted_after: the attempts before the user's last restart
    userMoves, limited

vars == <<factory, workItem, attempts, status, at, after, userMoves, limited>>

None == "none"
Undeclared == -1
FAILURE == "failure"

\* StepValue, as far as it is read: false, of the declared type, or of another.
StepValues == {"no", "yes", "odd"}
StepEnding == {"open", "clean", "failed", "timed-out", "needs-human", "limited"}
Statuses == {"queued", "running", "parked", "needs-human", "done", "cancelled"}

NoValues == [n \in {} |-> "no"]

\* What new maps, and what only old maps.
Over(new, old) ==
    [n \in DOMAIN new \union DOMAIN old |-> IF n \in DOMAIN new THEN new[n] ELSE old[n]]

\* StepAttempt.  from is the attempt whose session it resumes.
Attempt(s) ==
    [step |-> s, ending |-> "open", outcome |-> None, values |-> NoValues, session |-> FALSE,
     from |-> 0]

Steps == factory.steps
Last == Len(Steps)
Step(s) == Steps[s]

-----------------------------------------------------------------------------
(* The factory check. *)

\* Where an outcome or a failure of the step goes back to.
SendBacks(step) ==
    {step.outcomes[o] : o \in {x \in DOMAIN step.outcomes : step.outcomes[x].to = "back"}}
        \union (IF step.failed.to = "back" THEN {step.failed} ELSE {})

\* factories/file.py: a factory has steps, and an outcome goes on, ends the run, stops it or sends
\* the work back, by an edge that has a limit.
Declared(f) ==
    /\ Len(f.steps) \in Nat \ {0} /\ DOMAIN f.steps = 1 .. Len(f.steps)
    /\ \A i \in DOMAIN f.steps :
        /\ None \notin DOMAIN f.steps[i].outcomes /\ f.steps[i].resume \in Nat
        /\ \A sent \in SendBacks(f.steps[i]) : sent.step \in Nat /\ sent.max \in Nat \ {0}

ResultsOf(f, places) == UNION {f.steps[i].results : i \in places}

\* _steps and _intake: each step runs in an instance the factory declares.
InstancesDeclared(f) == \A i \in DOMAIN f.steps : f.steps[i].instance \in f.instances

\* _inputs
InputsHeld(f) ==
    /\ \A i \in DOMAIN f.steps :
            f.steps[i].requires \subseteq DOMAIN f.workItem \union ResultsOf(f, 1 .. i - 1)
    /\ f.doneRequires \subseteq DOMAIN f.workItem \union ResultsOf(f, DOMAIN f.steps)

\* _order
BackIsEarlier(f) ==
    \A i \in DOMAIN f.steps :
        /\ \A sent \in SendBacks(f.steps[i]) : sent.step \in 1 .. i - 1
        /\ f.steps[i].failed.to = "back" => f.steps[i].retry = Undeclared

\* _resumes
ResumesOwn(f) ==
    \A i \in DOMAIN f.steps : f.steps[i].resume # 0 =>
        /\ f.steps[i].resume < i
        /\ f.steps[f.steps[i].resume].client # None
        /\ <<f.steps[f.steps[i].resume].instance, f.steps[f.steps[i].resume].client>>
                = <<f.steps[i].instance, f.steps[i].client>>

\* check_factory, of what the model keeps of a factory.
Passes(f) == InstancesDeclared(f) /\ InputsHeld(f) /\ BackIsEarlier(f) /\ ResumesOwn(f)

-----------------------------------------------------------------------------
(* The values the run holds. *)

\* _failed_to
FailedTo(a) == a.ending = "failed" /\ Step(a.step).failed.to = "back"

Records(a) == a.ending = "clean" \/ FailedTo(a)

\* A mutant of StartAt that drops what a step recorded when the step is tried again.
StartAlways(held, s) ==
    LET kept == {n \in DOMAIN held.values : held.values[n].at < s}
        over == IF held.last.at > s THEN held.last.values ELSE NoValues
    IN [n \in kept \union DOMAIN over |->
            IF n \in DOMAIN over THEN [at |-> s, value |-> over[n]] ELSE held.values[n]]

\* _results' start: the pass that starts at s drops what s and the steps after it recorded, and
\* takes over what the attempt that sent the work back recorded.
StartAt(held, s) ==
    LET kept == {n \in DOMAIN held.values : held.values[n].at < s}
        over == IF held.last.at > s THEN held.last.values ELSE NoValues
    IN IF s = held.retrying THEN held.values
       ELSE [n \in kept \union DOMAIN over |->
                IF n \in DOMAIN over THEN [at |-> s, value |-> over[n]] ELSE held.values[n]]

NothingHeld == [values |-> [n \in {} |-> [at |-> 0, value |-> "no"]],
                last |-> [at |-> 0, values |-> NoValues], retrying |-> 0]

\* One turn of _results' loop.
Taken(held, a) ==
    LET began == StartAt(held, a.step)
    IN IF Records(a)
       THEN [values |-> Over([n \in DOMAIN a.values |-> [at |-> a.step, value |-> a.values[n]]], began),
             last |-> [at |-> a.step, values |-> a.values], retrying |-> 0]
       ELSE [values |-> began, last |-> [at |-> 0, values |-> NoValues], retrying |-> a.step]

\* _results' loop: what is held after each of the attempts.
HeldAfter ==
    LET held[i \in 0 .. Len(attempts)] ==
            IF i = 0 THEN NothingHeld ELSE Taken(held[i - 1], attempts[i])
    IN held
Fold == HeldAfter[Len(attempts)]

\* _results: what the run holds for a step that starts now, and with none starting.
ResultsFor(s) == LET values == StartAt(Fold, s) IN [n \in DOMAIN values |-> values[n].value]
ResultsNow == [n \in DOMAIN Fold.values |-> Fold.values[n].value]

HeldFor(s) == Over(ResultsFor(s), workItem)
HeldNow == Over(ResultsNow, workItem)

\* _lacking
Lacks(held, n) == n \notin DOMAIN held \/ held[n] = "no"

\* _session's first: the step each step's chain of resumes starts at.
FirstOf ==
    LET first[i \in DOMAIN Steps] == IF Step(i).resume = 0 THEN i ELSE first[Step(i).resume]
    IN first

\* The steps that share a step's session.
SharesSession(s, t) == s = t \/ (Step(t).client # None /\ FirstOf[s] = FirstOf[t])

\* _session: the newest session of the steps that share s's, 0 for none.
SessionOf(s) ==
    LET sessions == {i \in DOMAIN attempts :
                    attempts[i].session /\ SharesSession(s, attempts[i].step)}
    IN IF sessions = {} THEN 0 ELSE CHOOSE i \in sessions : \A j \in sessions : j <= i

\* _unmet: the step charged with a value step s lacks.  The last earlier step that declares it.
Producer(s, n) ==
    LET declaring == {i \in 1 .. s - 1 : n \in Step(i).results}
    IN IF declaring = {} THEN s ELSE CHOOSE i \in declaring : \A j \in declaring : j <= i

\* _placed: the steps a refusal to start s is charged to.
Refusals(s) ==
    {Producer(s, n) : n \in {x \in Step(s).requires : Lacks(HeldFor(s), x)}}
        \union IF Step(s).resume # 0 /\ SessionOf(Step(s).resume) = 0
               THEN {Step(s).resume} ELSE {}

-----------------------------------------------------------------------------
(* Where a result sends the run. *)

Counted == {i \in DOMAIN attempts : i > after}

\* Where the attempt sent the work back to, 0 for nowhere.
SentBack(a) ==
    CASE a.ending = "clean" /\ a.outcome \in DOMAIN Step(a.step).outcomes
            /\ Step(a.step).outcomes[a.outcome].to = "back" -> Step(a.step).outcomes[a.outcome].step
      [] FailedTo(a) -> Step(a.step).failed.step
      [] OTHER -> 0

\* _tally
SentBackTimes(s, to) ==
    Cardinality({i \in Counted : attempts[i].step = s /\ SentBack(attempts[i]) = to})
Failures(s) ==
    Cardinality({i \in Counted :
        /\ attempts[i].step = s /\ attempts[i].ending \notin {"open", "clean", "limited"}
        /\ ~FailedTo(attempts[i])})

\* _retries
RetriesOf(step) ==
    IF step.retry # Undeclared THEN step.retry ELSE IF step.kind \in {"agent", "client"} THEN 1 ELSE 0

\* _checked_types
TypesHold(step, values) == \A n \in step.results \intersect DOMAIN values : values[n] # "odd"

\* _checked_done
DoneHeld(result) == \A n \in factory.doneRequires : ~Lacks(Over(result.values, HeldNow), n)

Moved(result, to, s) == [result |-> result, status |-> to, at |-> s]
Failed(result) == [result EXCEPT !.ending = "failed"]

\* _settled of a result that failed, or failed a check.
SettledFailed(s, result) ==
    LET failure == [result EXCEPT !.values = Over([n \in {FAILURE} |-> "yes"], result.values)]
    IN IF result.ending = "failed" /\ Step(s).failed.to = "back"
       THEN IF SentBackTimes(s, Step(s).failed.step) >= Step(s).failed.max
            THEN Moved(failure, "needs-human", s)
            ELSE Moved(failure, "queued", Step(s).failed.step)
       ELSE IF result.ending \in {"timed-out", "needs-human"} \/ Failures(s) >= RetriesOf(Step(s))
            THEN Moved(result, "needs-human", s)
            ELSE Moved(result, "queued", s)

\* _settled of a clean result.
SettledClean(s, result) ==
    LET goes == IF result.outcome = None THEN [to |-> "next", step |-> 0, max |-> 0]
                ELSE Step(s).outcomes[result.outcome]
    IN CASE goes.to = "stop" -> Moved(result, "cancelled", s)
         [] goes.to = "back" ->
                IF SentBackTimes(s, goes.step) >= goes.max
                THEN Moved(result, "needs-human", s) ELSE Moved(result, "queued", goes.step)
         [] goes.to = "next" /\ s < Last -> Moved(result, "queued", s + 1)
         [] OTHER -> IF DoneHeld(result) THEN Moved(result, "done", 0)
                     ELSE SettledFailed(s, Failed(result))

\* _settle and _settled.
Settled(s, result) ==
    IF result.ending = "clean" /\ TypesHold(Step(s), result.values)
        /\ result.outcome \in DOMAIN Step(s).outcomes \union {None}
    THEN SettledClean(s, result)
    ELSE SettledFailed(s, IF result.ending = "clean" THEN Failed(result) ELSE result)

-----------------------------------------------------------------------------

Init ==
    /\ factory \in {f \in Factories : Passes(f)}
    /\ workItem \in [DOMAIN factory.workItem -> {"yes", "no"}]
    /\ attempts = <<>> /\ after = 0
    /\ status = "queued" /\ at = 1
    /\ userMoves = 0 /\ limited = 0

MayTry == Len(attempts) < MaxAttempts

\* The step cannot start: the step it is charged to fails an attempt at once.
Refuse ==
    /\ status = "queued" /\ MayTry
    /\ \E refusal \in Refusals(at) :
        LET to == SettledFailed(refusal, [Attempt(refusal) EXCEPT !.ending = "failed"])
        IN /\ attempts' = Append(attempts, to.result)
           /\ status' = to.status /\ at' = to.at
    /\ UNCHANGED <<factory, workItem, after, userMoves, limited>>

\* _deliver: the step starts in its instance, with the session it resumes.
Begin ==
    /\ status = "queued" /\ MayTry /\ Refusals(at) = {}
    /\ attempts' = Append(attempts, [Attempt(at) EXCEPT
                        !.from = IF Step(at).resume = 0 THEN 0 ELSE SessionOf(Step(at).resume)])
    /\ status' = "running"
    /\ UNCHANGED <<factory, workItem, at, after, userMoves, limited>>

\* What a step of the instance may hand back: its hook records what it likes.
StepResults(s) ==
    LET recorded == {NoValues} \union UNION {[Step(s).results -> {v}] : v \in StepValues}
        unread == IF Step(s).failed.to = "back" THEN recorded ELSE {NoValues}
    IN [ending : {"clean"}, outcome : DOMAIN Step(s).outcomes \union {None}, values : recorded]
        \union [ending : {"failed"}, outcome : {None}, values : unread]
        \union [ending : {"timed-out", "needs-human"}, outcome : {None}, values : {NoValues}]

Ended(a, result, session) ==
    [a EXCEPT !.ending = result.ending, !.outcome = result.outcome, !.values = result.values,
              !.session = session]

\* _settle: the attempt ends, and the run goes where the result sends it.
Settle ==
    /\ status = "running"
    /\ \E result \in StepResults(at), session \in {FALSE, Step(at).client # None} :
        LET to == Settled(at, Ended(attempts[Len(attempts)], result, session))
        IN /\ attempts' = [attempts EXCEPT ![Len(attempts)] = to.result]
           /\ status' = to.status /\ at' = to.at
    /\ UNCHANGED <<factory, workItem, after, userMoves, limited>>

\* The plan's limit stops a client step: the run parks until the window resets.
Limit ==
    /\ status = "running" /\ Step(at).client # None /\ limited < MaxLimited
    /\ limited' = limited + 1
    /\ attempts' = [attempts EXCEPT ![Len(attempts)].ending = "limited"]
    /\ status' = "parked"
    /\ UNCHANGED <<factory, workItem, at, after, userMoves>>

Wake ==
    /\ status = "parked" /\ status' = "queued"
    /\ UNCHANGED <<factory, workItem, attempts, at, after, userMoves, limited>>

\* retry, or send_back to an earlier step: retries and send-backs count afresh.
Restart ==
    /\ status = "needs-human" /\ userMoves < MaxUserMoves
    /\ userMoves' = userMoves + 1
    /\ at' \in 1 .. at
    /\ status' = "queued" /\ after' = Len(attempts)
    /\ UNCHANGED <<factory, workItem, attempts, limited>>

Next == Refuse \/ Begin \/ Settle \/ Limit \/ Wake \/ Restart

Spec == Init /\ [][Next]_vars

-----------------------------------------------------------------------------

TypeOK ==
    /\ factory \in Factories /\ status \in Statuses /\ at \in 0 .. Last /\ after \in 0 .. Len(attempts)
    /\ \A i \in DOMAIN attempts :
        /\ attempts[i].step \in 1 .. Last /\ attempts[i].ending \in StepEnding
        /\ attempts[i].from \in 0 .. i - 1

\* The attempt whose record of n is the run's latest, 0 for none.
LatestRecord(n) ==
    LET records == {i \in DOMAIN attempts : Records(attempts[i]) /\ n \in DOMAIN attempts[i].values}
    IN IF records = {} THEN 0 ELSE CHOOSE i \in records : \A j \in records : j <= i

\* Whether what attempt i recorded is still held by a step s that starts now: it was not tried
\* again itself, and no later attempt started over at its step, at the step it sent the work back
\* to, or before them.  An attempt that only repeats one that recorded nothing starts nothing over.
Survives(i, s) ==
    LET place == [j \in 1 .. Len(attempts) + 1 |-> IF j > Len(attempts) THEN s ELSE attempts[j].step]
        level == IF place[i + 1] < place[i] THEN place[i + 1] ELSE place[i]
    IN /\ place[i + 1] # place[i]
       /\ \A j \in i + 2 .. Len(attempts) + 1 :
            (place[j] = place[j - 1] /\ ~Records(attempts[j - 1])) \/ level < place[j]

\* A step is handed exactly the latest records that survive: nothing of a pass the work left, and
\* all that the pass it is on, and the step that sent the work back, recorded (hub/runs.py
\* _results, over any line of retries, send-backs, limits and restarts).
ResultsOfThisPass ==
    \A s \in DOMAIN Steps :
        LET kept == {n \in UNION {DOMAIN attempts[i].values : i \in DOMAIN attempts} :
                        LatestRecord(n) # 0 /\ Survives(LatestRecord(n), s)}
        IN ResultsFor(s) = [n \in kept |-> attempts[LatestRecord(n)].values[n]]

\* A run that is done holds every value done_requires names, and none of them as false.
DoneHolds == status = "done" => \A n \in factory.doneRequires : ~Lacks(HeldNow, n)

\* In a factory that passes the check, a client step only ever resumes a session that its own
\* client recorded in its own instance, however long the chain of resumes is.
OwnSession ==
    \A i \in DOMAIN attempts : attempts[i].from # 0 =>
        LET mine == Step(attempts[i].step) theirs == Step(attempts[attempts[i].from].step)
        IN mine.client = theirs.client /\ mine.instance = theirs.instance

\* Between two moves of the user, the attempts that send the work from one step back to another are
\* those that took an edge that leads there, at most its max, and the one that stopped at it.
WithinMax ==
    \A s \in DOMAIN Steps : \A sent \in SendBacks(Step(s)) :
        \E most \in SendBacks(Step(s)) :
            most.step = sent.step /\ SentBackTimes(s, sent.step) <= most.max + 1

RunValuesInv == TypeOK /\ ResultsOfThisPass /\ DoneHolds /\ OwnSession /\ WithinMax
=============================================================================
