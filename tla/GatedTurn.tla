------------------------------ MODULE GatedTurn ------------------------------
(***************************************************************************)
(* One routine's turn inside the turn runner (src/kinby/core/turn_runner.py *)
(* with gate.py, and the parts of turns.py, threads.py, routine_grants.py  *)
(* and read_only_tools.py it meets): the model asks for tool calls, the    *)
(* gate decides on each, the user answers the approvals the gate raises,   *)
(* and the calls run.                                                      *)
(*                                                                         *)
(* The turn is a graph of two nodes.  An ask stops the tools node; the     *)
(* answer runs the node again from its first call, and answers meet asks   *)
(* in their order (LangGraph's interrupt).  The checkpoint survives the    *)
(* process, and so do the log and the files; what the runner emitted and   *)
(* the node's own lists do not.                                            *)
(***************************************************************************)
EXTENDS Naturals, Sequences, FiniteSets

CONSTANTS
    Tools,          \* tools the model may call
    Authored,       \* those the agent wrote, which the user may mark read-only
    CodeStep,       \* the tool that is the routine's code step
    Policies,       \* what the files say of the tools, in turn
    MaxCalls,       \* bound on the calls of one message
    MaxRounds,      \* bound on the model's messages (the steps budget)
    MaxEdits,       \* bound on changes made elsewhere while the turn is open
    MaxRestarts     \* bound on restarts of the instance

VARIABLES
    policy,     \* the files: permissions.toml, the modes, the tools there are
    grants,     \* the routine's grants
    marks,      \* the authored tools marked read-only
    at,         \* where the turn is
    loaded,     \* the policy and tools this run of the graph was given
    state,      \* the granted and marked tools in the graph's state
    msg,        \* the tools the model's last message calls
    round,      \* how many messages the model gave
    node,       \* the tools node: granted, marked, the answers met, its verdicts
    next,       \* the call it gates or runs next
    answers,    \* the answers the node's asks meet, in order
    saved,      \* the checkpoint: whether it waits, with which answers
    emitted,    \* the calls the runner remembers it logged
    asked,      \* the call of the log's last approval request
    quiet,      \* the log has nothing of the turn after that request
    edited,     \* the routine was edited since the turn started
    \* What happened, for the properties.
    called,     \* how often each call was logged
    ran,        \* how often each ran
    said,       \* the user's answer to each call that was asked about
    asUser,     \* the calls that ran because an answer said so
    given,      \* the grants that came from this turn, as they stand
    moved,      \* a run of the graph was given other decisions than the last
    edits, restarts

files == <<policy, grants, marks>>
graph == <<loaded, state, msg, round, node, next, answers, saved>>
record == <<emitted, asked, quiet, called>>
history == <<ran, said, asUser, given, moved>>
gatedVars == <<files, at, graph, record, edited, history, edits, restarts>>

Calls == (0..MaxRounds) \X (1..MaxCalls)    \* the code step is call <<0, 1>>
NotAsked == <<0, 0>>
NoNode == [granted |-> {}, marked |-> {}, met |-> 0, verdicts |-> <<>>]
Decisions == {"approve", "deny", "grant", "mark"}

Init ==
    /\ policy \in Policies /\ grants \in SUBSET {CodeStep} /\ marks = {}
    /\ at = "admitted" /\ loaded = policy /\ state = [granted |-> {}, marked |-> {}]
    /\ msg = <<>> /\ round = 0 /\ node = NoNode /\ next = 1
    /\ answers = <<>> /\ saved = [waits |-> FALSE, answers |-> <<>>]
    /\ emitted = {} /\ asked = NotAsked /\ quiet = FALSE /\ edited = FALSE
    /\ called = [c \in Calls |-> 0] /\ ran = [c \in Calls |-> 0]
    /\ said = [c \in Calls |-> "none"] /\ asUser = {} /\ given = {} /\ moved = FALSE
    /\ edits = 0 /\ restarts = 0

----------------------------------------------------------------------------
(* The gate. *)

\* gate.evaluate: a rule that always asks and one that denies come before a
\* grant, a grant and a mark before the mode.  A tool that is not there counts
\* as a read, which runs and then says that it is not available.
Evaluate(t, granted, marked) ==
    CASE loaded[t] \in {"allow", "deny"} -> loaded[t]
      [] loaded[t] = "gone" -> "allow"
      [] loaded[t] = "always" -> "ask"
      [] OTHER -> IF t \in granted \cup (marked \cap Authored) THEN "allow" ELSE "ask"

\* Whether the approval's rule is that of an authored tool.
AuthoredRule(t) == t \in Authored /\ loaded[t] = "ask"

----------------------------------------------------------------------------
(* The turn starts. *)

Close == at' = "closed"
LogSomething == quiet' = FALSE

\* _invoke_with: each run of the graph loads the tools there are, and is given
\* the policy of the last preparation.
Load == loaded' = policy

\* LangGraphRunner._run
Begin ==
    /\ at = "admitted" /\ at' = "code"
    /\ Load
    /\ state' = [granted |-> grants, marked |-> marks]
    /\ edited' = FALSE
    /\ UNCHANGED <<files, msg, round, node, next, answers, saved, record, history, edits, restarts>>

\* _run_code_step: it runs only if the gate allows it, and may end the turn.
RunCodeStep ==
    /\ at = "code"
    /\ called' = [called EXCEPT ![<<0, 1>>] = @ + 1]
    /\ IF Evaluate(CodeStep, state.granted, marks) = "allow" /\ loaded[CodeStep] # "gone"
       THEN ran' = [ran EXCEPT ![<<0, 1>>] = @ + 1] /\ at' \in {"model", "closed"}
       ELSE UNCHANGED ran /\ Close
    /\ LogSomething
    /\ UNCHANGED <<files, graph, emitted, asked, said, asUser, given, moved, edited, edits, restarts>>

----------------------------------------------------------------------------
(* The model node. *)

\* _call_model: the model asks for calls, ends the turn, or spends a budget.
Offered == Tools \ {CodeStep}
CallModel ==
    /\ at = "model" /\ LogSomething
    /\ \/ /\ round < MaxRounds /\ round' = round + 1
          /\ \E n \in 1..MaxCalls : msg' \in [1..n -> Offered]
          /\ at' = "gate" /\ next' = 1
          /\ node' = [granted |-> state.granted, marked |-> state.marked,
                      met |-> 0, verdicts |-> <<>>]
       \/ Close /\ UNCHANGED <<msg, round, node, next>>
    /\ UNCHANGED <<files, loaded, state, answers, saved, emitted, asked, called, history, edited,
                   edits, restarts>>

----------------------------------------------------------------------------
(* The tools node. *)

Call == <<round, next>>
Tool == msg[next]

\* _emit_tool_call_once
LogCall ==
    IF Call \in emitted THEN UNCHANGED <<emitted, called, quiet>>
    ELSE /\ emitted' = emitted \cup {Call}
         /\ called' = [called EXCEPT ![Call] = @ + 1]
         /\ LogSomething

Verdict(allows, by) ==
    /\ next' = next + 1 /\ UNCHANGED <<at, saved>>
    /\ node' = [node EXCEPT !.verdicts = Append(@, [allows |-> allows, by |-> by])]

\* An ask meets the next answer there is.
MeetAnswer ==
    LET d == answers[node.met + 1] IN
    /\ next' = next + 1 /\ UNCHANGED <<at, saved>>
    /\ node' = [granted |-> node.granted \cup (IF d = "grant" THEN {Tool} ELSE {}),
                marked |-> node.marked \cup (IF d = "mark" THEN {Tool} ELSE {}),
                met |-> node.met + 1,
                verdicts |-> Append(node.verdicts, [allows |-> d # "deny", by |-> "user"])]

\* Without one the graph stops, and its checkpoint is written as it exits.
Stop ==
    /\ at' = "asking" /\ saved' = [waits |-> TRUE, answers |-> answers]
    /\ UNCHANGED <<node, next>>

GateCall ==
    /\ at = "gate" /\ next <= Len(msg) /\ LogCall
    /\ LET action == Evaluate(Tool, node.granted, node.marked) IN
         CASE action # "ask" -> Verdict(action = "allow", "policy")
           [] action = "ask" /\ node.met < Len(answers) -> MeetAnswer
           [] OTHER -> Stop
    /\ UNCHANGED <<files, loaded, state, msg, round, answers, asked, history, edited, edits, restarts>>

AllGated ==
    /\ at = "gate" /\ next > Len(msg) /\ at' = "run" /\ next' = 1
    /\ UNCHANGED <<files, loaded, state, msg, round, node, answers, saved, record, history, edited,
                   edits, restarts>>

\* _call_tools' second loop: the verdict is logged, and the call runs or not.
RunCall ==
    /\ at = "run" /\ next <= Len(msg) /\ LogSomething
    /\ LET v == node.verdicts[next] IN
         IF v.allows /\ loaded[Tool] # "gone"
         THEN /\ ran' = [ran EXCEPT ![Call] = @ + 1]
              /\ asUser' = IF v.by = "user" THEN asUser \cup {Call} ELSE asUser
         ELSE UNCHANGED <<ran, asUser>>
    /\ emitted' = emitted \ {Call} /\ next' = next + 1
    /\ UNCHANGED <<files, at, loaded, state, msg, round, node, answers, saved, asked, called, said,
                   given, moved, edited, edits, restarts>>
AllRan ==
    /\ at = "run" /\ next > Len(msg) /\ at' = "model"
    /\ state' = [granted |-> node.granted, marked |-> node.marked]
    /\ answers' = <<>>
    /\ UNCHANGED <<files, loaded, msg, round, node, next, saved, record, history, edited, edits, restarts>>

----------------------------------------------------------------------------
(* Approvals. *)

\* _invoke_with, once the graph has stopped.
Request ==
    /\ at = "asking" /\ at' = "parked" /\ asked' = Call /\ quiet' = TRUE
    /\ UNCHANGED <<files, graph, emitted, called, history, edited, edits, restarts>>

\* A mutant of Pending that takes any request of the open turn.
PendingStill == asked # NotAsked

\* threads.parked_on: the turn's next event is what ends the park.
Pending == quiet

\* Turns.respond: nothing is logged.
Respond(d) ==
    /\ at = "parked" /\ Pending
    /\ d = "mark" => AuthoredRule(msg[asked[2]])
    /\ at' = "answered" /\ said' = [said EXCEPT ![asked] = d]
    /\ UNCHANGED <<files, graph, record, ran, asUser, given, moved, edited, edits, restarts>>

\* _restore_emitted_tool_calls, from the log of the turn.
Restored ==
    IF emitted = {} THEN {c \in Calls : called[c] > 0} ELSE emitted

\* A mutant of Grant that does not compare the routine.
GrantAnyway(t) == grants' = grants \cup {t} /\ given' = given \cup {t} /\ UNCHANGED quiet

\* _grant_parked_tool: only if the routine is as it was when the turn started;
\* a warning is logged otherwise.
Grant(t) ==
    IF edited THEN LogSomething /\ UNCHANGED <<grants, given>>
    ELSE grants' = grants \cup {t} /\ given' = given \cup {t} /\ UNCHANGED quiet

NoGrant == UNCHANGED <<grants, given, quiet>>
Mark(t) == marks' = marks \cup {t}

\* A mutant of Resume that gates with the grants and marks of the moment.
ResumeAsOfNow ==
    /\ at = "answered" /\ at' = "gate"
    /\ Load /\ moved' = (moved \/ loaded' # loaded)
    /\ emitted' = Restored
    /\ LET d == said[asked] IN
         /\ IF d = "grant" THEN Grant(msg[asked[2]]) ELSE NoGrant
         /\ IF d = "mark" THEN Mark(msg[asked[2]]) ELSE UNCHANGED marks
         /\ d = "mark" => policy[msg[asked[2]]] # "gone"
         /\ answers' = Append(saved.answers, d)
    /\ node' = [granted |-> grants', marked |-> marks', met |-> 0, verdicts |-> <<>>]
    /\ next' = 1
    /\ UNCHANGED <<policy, state, msg, round, saved, asked, called, ran, said, asUser, edited, edits,
                   restarts>>

\* LangGraphRunner._resume: the files are read anew, the graph's state comes
\* from the checkpoint, and the node runs again from its first call.
Resume ==
    /\ at = "answered" /\ at' = "gate"
    /\ Load /\ moved' = (moved \/ loaded' # loaded)
    /\ emitted' = Restored
    /\ LET d == said[asked] IN
         /\ IF d = "grant" THEN Grant(msg[asked[2]]) ELSE NoGrant
         /\ IF d = "mark" THEN Mark(msg[asked[2]]) ELSE UNCHANGED marks
         /\ d = "mark" => policy[msg[asked[2]]] # "gone"
         /\ answers' = Append(saved.answers, d)
    /\ node' = [granted |-> state.granted, marked |-> state.marked, met |-> 0, verdicts |-> <<>>]
    /\ next' = 1
    /\ UNCHANGED <<policy, state, msg, round, saved, asked, called, ran, said, asUser, edited, edits,
                   restarts>>

\* A budget is spent, a step fails, or the user interrupts the turn.
Ends ==
    /\ at \notin {"closed", "admitted"} /\ Close /\ LogSomething
    /\ UNCHANGED <<files, graph, emitted, asked, called, history, edited, edits, restarts>>

----------------------------------------------------------------------------
(* Elsewhere: the files change while the turn is open. *)

Elsewhere ==
    /\ at \notin {"admitted", "closed"} /\ edits < MaxEdits /\ edits' = edits + 1
    /\ UNCHANGED <<at, graph, record, ran, said, asUser, moved, restarts>>
ChangePolicy ==
    /\ Elsewhere /\ policy' \in Policies \ {policy}
    /\ UNCHANGED <<grants, marks, given, edited>>
EditRoutine ==
    /\ Elsewhere /\ edited' = TRUE /\ grants' = {} /\ given' = {}
    /\ UNCHANGED <<policy, marks>>
GrantOrRevoke(t) ==
    /\ Elsewhere
    /\ grants' = (grants \ {t}) \cup ({t} \ grants) /\ given' = given \ {t}
    /\ UNCHANGED <<policy, marks, edited>>
MarkOrUnmark(t) ==
    /\ Elsewhere
    /\ marks' = (marks \ {t}) \cup ({t} \ marks)
    /\ UNCHANGED <<policy, grants, given, edited>>

\* After a restart a turn is answered again if the log says that it is parked
\* and its checkpoint, written when the graph last stopped, waits; any other
\* stays open for ever.
Parked == Pending /\ saved.waits
Restart ==
    /\ restarts < MaxRestarts /\ restarts' = restarts + 1
    /\ at \notin {"admitted", "closed"}
    /\ at' = IF Parked THEN "parked" ELSE "closed"
    /\ emitted' = {} /\ node' = NoNode /\ next' = 1
    /\ UNCHANGED <<files, loaded, state, msg, round, answers, saved, asked, quiet, called,
                   edited, history, edits>>

Next ==
    \/ Begin \/ RunCodeStep \/ CallModel \/ GateCall \/ AllGated \/ RunCall \/ AllRan
    \/ Request \/ Resume \/ Ends \/ Restart
    \/ \E d \in Decisions : Respond(d)
    \/ ChangePolicy \/ EditRoutine
    \/ \E t \in Tools : GrantOrRevoke(t)
    \/ \E t \in Authored : MarkOrUnmark(t)
Spec == Init /\ [][Next]_gatedVars

----------------------------------------------------------------------------
\* A call runs on the user's word only if that word was about this call, and a
\* call the user denied does not run, as long as every run of the graph is
\* given the same policy and tools: however the routine's grants and the marks
\* change meanwhile, the answers meet the asks they were given to
\* (ModelState.granted and read_only).
Own == (\A c \in asUser : said[c] \in {"approve", "grant", "mark"})
       /\ (\A c \in Calls : said[c] = "deny" => ran[c] = 0)
OwnAnswer == moved \/ Own

\* The same without the condition: what the comment of ModelState.granted says
\* of grants, asked of the policy and the tools as well.
AnswersOwnAsk == Own

\* No call runs or is logged twice, nor does the code step, over every replay of
\* the node and every restart, also one between an answer and the turn's next event.
RanOnce == \A c \in Calls : ran[c] <= 1 /\ called[c] <= 1

\* No grant given from the turn outlives an edit of the routine it was given
\* for: an edit revokes those there are, and an answer that comes after it
\* grants nothing (ADR 0112).
NoStaleGrant == edited => given = {}
=============================================================================
