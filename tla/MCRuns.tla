------------------------------- MODULE MCRuns -------------------------------
(***************************************************************************)
(* The work of a hub and its instances in four parts, each on a small      *)
(* instance: how one run's step calls are made over connections, crashes   *)
(* and retries (StepCalls, whose names are used as they are); how runs     *)
(* move through their factory's steps, where a step call is one answer     *)
(* (FactoryRuns); what a run holds from one step to the next (RunValues);  *)
(* and the tool calls of one turn (GatedTurn).  A behaviour is one part's: *)
(* it is chosen at the start, and the others do not move, most of them     *)
(* at 0.                                                                   *)
(***************************************************************************)
EXTENDS StepCalls, MCFactories, MCLines

CONSTANTS
    \* FactoryRuns
    a, Runs, LastOfRun, Factories, Instances, Home, Caller, MaxUserMoves, MaxRestarts, MaxTorn, MaxLimited, MaxSignals, MaxRefused,
    MaxUnsent, MaxTroubles, NoRun, NoWork,
    \* RunValues
    LineFactories, MaxAttempts, MaxRestartsByUser, MaxWindows,
    \* GatedTurn
    Tools, Authored, CodeStep, Policies, MaxCalls, MaxRounds, MaxEdits, MaxTurnRestarts,
    mcp, own, codeStep      \* a tool of an MCP server, one the agent wrote, and the code step

\* A message has room for a call, and the code step and what the agent wrote are tools.
ASSUME TurnAssumption ==
    /\ MaxCalls \in Nat \ {0} /\ MaxRounds \in Nat
    /\ CodeStep \in Tools /\ Authored \subseteq Tools

VARIABLES
    part,
    factory, runStatus, step, runOpen, failures, sent, wakes, gen, runReported, owes, told,
    queues, work, paused, callsLater, armed, strays, woken, moving, resuming, used,
    runLine, workItem, attempts, runState, runAt, after, userMoves, limited,
    policy, grants, marks, place, loaded, state, msg, round, node, next, answers, saved, emitted,
    asked, quiet, edited, called, ran, said, asUser, given, moved, edits, restarts

R == INSTANCE FactoryRuns WITH
        LastStep <- LastOfRun, status <- runStatus, open <- runOpen, reported <- runReported,
        queue <- queues, later <- callsLater

\* What the factory check ensures, and names for nothing that name nothing else.
ASSUME RunsAssumption ==
    /\ \A f \in Factories : R!Checked(f)
    /\ Home \in Instances /\ Caller \in Instances /\ LastOfRun \in Nat \ {0}
    /\ NoRun \notin Runs /\ NoWork \notin R!Entries
    /\ {MaxUserMoves, MaxRestarts, MaxTorn, MaxLimited, MaxSignals, MaxRefused, MaxUnsent,
        MaxTroubles} \subseteq Nat

MCRunFactories == {Babysitting, Rechecking}

V == INSTANCE RunValues WITH
        Factories <- LineFactories, MaxUserMoves <- MaxRestartsByUser, MaxLimited <- MaxWindows,
        factory <- runLine, status <- runState, at <- runAt

\* What a factory's file can say.
ASSUME LinesAssumption == \A f \in LineFactories : V!Declared(f)

\* The mode asks about the tools, or they are gone, denied and always allowed.
TurnPolicies == {[t \in Tools |-> IF t = codeStep THEN "allow" ELSE "ask"],
                 [t \in Tools |-> CASE t = mcp -> "gone" [] t = own -> "deny" [] OTHER -> "always"]}

G == INSTANCE GatedTurn WITH MaxRestarts <- MaxTurnRestarts, at <- place

runsVars == <<factory, runStatus, step, runOpen, failures, sent, wakes, gen, runReported, owes,
              told, queues, work, paused, callsLater, armed, strays, woken, moving, resuming, used>>
valuesVars == <<runLine, workItem, attempts, runState, runAt, after, userMoves, limited>>
turnVars == <<policy, grants, marks, place, loaded, state, msg, round, node, next, answers, saved,
              emitted, asked, quiet, edited, called, ran, said, asUser, given, moved, edits,
              restarts>>
workVars == <<part, vars, runsVars, valuesVars, turnVars>>

WorkInit ==
    /\ part \in {"calls", "runs", "values", "turn"}
    /\ Init
    /\ IF part = "runs" THEN R!Init ELSE
            /\ factory = 0 /\ runStatus = 0 /\ step = 0 /\ runOpen = 0 /\ failures = 0 /\ sent = 0
            /\ wakes = 0 /\ gen = 0 /\ runReported = 0 /\ owes = 0 /\ told = 0 /\ queues = 0
            /\ work = 0 /\ paused = 0 /\ callsLater = 0 /\ armed = 0 /\ strays = 0 /\ woken = 0
            /\ moving = 0 /\ resuming = 0 /\ used = 0
    /\ IF part = "values" THEN V!Init ELSE
            /\ runLine = 0 /\ workItem = 0 /\ attempts = 0 /\ runState = 0 /\ runAt = 0 /\ after = 0
            /\ userMoves = 0 /\ limited = 0
    /\ IF part = "turn" THEN G!Init ELSE
            /\ policy = 0 /\ grants = 0 /\ marks = 0 /\ place = 0 /\ loaded = 0 /\ state = 0
            /\ msg = 0 /\ round = 0 /\ node = 0 /\ next = 0 /\ answers = 0 /\ saved = 0
            /\ emitted = 0 /\ asked = 0 /\ quiet = 0 /\ edited = 0 /\ called = 0 /\ ran = 0
            /\ said = 0 /\ asUser = 0 /\ given = 0 /\ moved = 0 /\ edits = 0 /\ restarts = 0

CallsStep == part = "calls" /\ Next /\ UNCHANGED <<part, runsVars, valuesVars, turnVars>>
RunsStep == part = "runs" /\ R!Next /\ UNCHANGED <<part, vars, valuesVars, turnVars>>
ValuesStep == part = "values" /\ V!Next /\ UNCHANGED <<part, vars, runsVars, turnVars>>
TurnStep == part = "turn" /\ G!Next /\ UNCHANGED <<part, vars, runsVars, valuesVars>>

WorkNext == CallsStep \/ RunsStep \/ ValuesStep \/ TurnStep

WorkSpec == WorkInit /\ [][WorkNext]_workVars

-----------------------------------------------------------------------------

\* Each run that works has one driver over queues, timers and restarts, and the calls a stop owes
\* are each about to be made once (FactoryRuns).
RunDriver == part = "runs" => R!TypeOK /\ R!OneDriver /\ R!CallsOwed

\* A finished run stays finished (FactoryRuns).
FinishedIsFinal == [][part = "runs" => R!FinishedStay]_runsVars

\* A step is handed what the pass it is on recorded, and what ends a run is there (RunValues).
RunValuesInv == part = "values" => V!RunValuesInv

\* A call runs on the user's answer to that very call, once, and no grant outlives what it was
\* given for (GatedTurn).
OwnAnswer == part = "turn" => G!OwnAnswer
RanOnce == part = "turn" => G!RanOnce
NoStaleGrant == part = "turn" => G!NoStaleGrant
=============================================================================
