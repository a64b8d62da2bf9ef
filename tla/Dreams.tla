------------------------------- MODULE Dreams -------------------------------
(***************************************************************************)
(* Dreaming: the stages that turn episodes into facts and facts into       *)
(* proposals (memory/consolidation.py, memory/reflection.py), over the     *)
(* graph of nodes (memory/graph.py) and the user's forgets                 *)
(* (core/memory.py).  Each stage is a routine whose turns may park.        *)
(*                                                                         *)
(* What a model writes is a choice: which fact a consolidation learns and  *)
(* from which sources.  Every node is about one and the same subject, so a *)
(* frame shows everything that is eligible.  Episodes come from Recap.     *)
(***************************************************************************)
EXTENDS Naturals, Sequences, FiniteSets

CONSTANTS
    MaxEpisodes, \* bound: episodes that recaps write
    MIN_SOURCES, \* the fewest episodes a fact cites
    PruneAge,    \* PRUNE_AGE, in days
    MaxDays, MaxDreams, \* bounds
    MaxTroubles, \* bound: forgets and restarts together
    MaxMoments   \* bound: days, dreams, forgets and restarts together

VARIABLES
    log,        \* the events the stages read, in order: what consolidations recorded, and when
                \* reflections started and completed
    day,        \* today
    dated,      \* the day of each episode ever written, in the order of the writes
    episodes,   \* the live episodes of the graph
    facts,      \* the facts of the graph, forgotten ones too
    forgotten,  \* the tombstones of facts, with the day of each
    dreams,     \* the turns of the dreaming stages, in the order they started
    writing,    \* _finishing: the dreams whose consolidate call still writes
    cut,        \* dreams whose writes a stop of the process cut off
    restarts

graph == <<dated, episodes, facts, forgotten>>
dreamsVars == <<log, day, graph, dreams, writing, cut, restarts>>

Events(type) == {i \in 1..Len(log) : log[i].type = type}

Forgotten == {gone.fact : gone \in forgotten}
Live == facts \ Forgotten
Cited == UNION {fact.sources : fact \in Live}
Covered == UNION {log[i].episodes : i \in Events("consolidated")}

Init ==
    /\ log = <<>> /\ day = 0
    /\ dated = <<>> /\ episodes = {} /\ facts = {} /\ forgotten = {}
    /\ dreams = <<>> /\ writing = {}
    /\ cut = {} /\ restarts = 0

NewDream(stage) == [stage |-> stage, state |-> "started",
                    batch |-> {}, citable |-> {}, shown |-> {}]

\* The turn is over; what it was shown is kept.
Closed(t, state) == [NewDream(dreams[t].stage) EXCEPT !.state = state, !.shown = dreams[t].shown]

Troubles == Cardinality(forgotten) + restarts
InTime == day + Len(dreams) + Troubles < MaxMoments

-----------------------------------------------------------------------------
(* The graph, and what comes to it from elsewhere. *)

\* GraphStore.remember, by a recap: of today's work, or of an earlier day's that a start of the
\* process caught up with.
Recap(on) ==
    /\ Len(dated) < MaxEpisodes
    /\ dated' = Append(dated, on)
    /\ episodes' = episodes \union {Len(dated) + 1}
    /\ UNCHANGED <<log, day, facts, forgotten, dreams, writing, cut, restarts>>

\* InstanceMemory.forget of a fact; a correction forgets the fact it replaces.
Forget(fact) ==
    /\ fact \in Live /\ Troubles < MaxTroubles /\ InTime
    /\ forgotten' = forgotten \union {[fact |-> fact, day |-> day]}
    /\ UNCHANGED <<log, day, dated, episodes, facts, dreams, writing, cut, restarts>>

Midnight ==
    /\ day < MaxDays /\ InTime
    /\ day' = day + 1
    /\ UNCHANGED <<log, graph, dreams, writing, cut, restarts>>

\* The process stops. A dream that waits for the user outlives it, and a working one stays open.
Restart ==
    /\ Troubles < MaxTroubles /\ InTime
    /\ restarts' = restarts + 1
    /\ writing' = {}
    /\ cut' = cut \union {each.t : each \in writing}
    /\ dreams' = [t \in DOMAIN dreams |->
          IF dreams[t].state \in {"started", "pruning", "framed"}
          THEN Closed(t, "lost") ELSE dreams[t]]
    /\ UNCHANGED <<log, day, graph>>

-----------------------------------------------------------------------------
(* Dreaming.  A stage is a routine: one turn works at a time, and one that waits for an approval *)
(* holds only its own thread.                                                                    *)

Working == {t \in DOMAIN dreams : dreams[t].state \in {"started", "pruning", "framed"}}

Start(stage) ==
    /\ Working = {} /\ Len(dreams) < MaxDreams /\ InTime
    /\ dreams' = Append(dreams, NewDream(stage))
    /\ log' = IF stage = "reflection"
              THEN Append(log, [type |-> "started", t |-> Len(dreams) + 1]) ELSE log
    /\ UNCHANGED <<day, graph, writing, cut, restarts>>

Old(node) == dated[node] + PruneAge < day

Prunable == {node \in episodes : Old(node) /\ node \in Covered /\ node \notin Cited}

Close(t) ==
    /\ dreams' = [dreams EXCEPT ![t] = Closed(t, "done")]
    /\ log' = IF dreams[t].stage = "reflection"
              THEN Append(log, [type |-> "completed", t |-> t]) ELSE log

\* _prune, if the stage's writes need no approval: it reads what may go...
Prune(t, prune) ==
    /\ dreams[t].stage = "consolidation" /\ dreams[t].state = "started"
    /\ dreams' = [dreams EXCEPT ![t].state = "pruning",
                               ![t].batch = IF prune THEN Prunable ELSE {}]
    /\ UNCHANGED <<log, day, graph, writing, cut, restarts>>

\* ...and deletes it. consolidation_step then frames the uncovered episodes with what may be
\* cited beside them; without any there is no work.
Consolidate(t) ==
    /\ dreams[t].state = "pruning"
    /\ LET kept == episodes \ dreams[t].batch
           batch == kept \ Covered
           earlier == {node \in kept : node \in Covered /\ node \notin Cited /\ ~Old(node)}
       IN /\ episodes' = kept
          /\ \/ /\ batch = {}
                /\ Close(t)
             \/ /\ batch # {}
                /\ dreams' = [dreams EXCEPT ![t] = [@ EXCEPT !.state = "framed", !.batch = batch,
                      !.citable = batch \union earlier \union UNION {fact.sources : fact \in facts}]]
                /\ UNCHANGED log
    /\ UNCHANGED <<day, dated, facts, forgotten, writing, cut, restarts>>

\* _writes_back: fact relearns gone with nothing recorded since the forget.
WritesBack(sources, gone) ==
    /\ sources \intersect gone.fact.sources # {}
    /\ \A node \in sources : dated[node] <= gone.day

\* _write's refusals.
Refused(t, sources) ==
    \/ Cardinality(sources) < MIN_SOURCES
    \/ \E gone \in forgotten : WritesBack(sources, gone)
    \/ ~(sources \subseteq dreams[t].citable /\ sources \subseteq episodes)

CoversAgain(t) == \E i \in Events("consolidated") : log[i].t = t

\* The model's consolidate call: _turn_frame and _write's checks, with the sources of the fact it
\* learned, if it learned one...
Call(t, sources) ==
    /\ t \in Working /\ dreams[t].stage = "consolidation" /\ dreams[t].state = "framed"
    /\ ~CoversAgain(t) /\ t \notin {each.t : each \in writing}
    /\ sources = {} \/ ~Refused(t, sources)
    /\ writing' = writing \union {[t |-> t, batch |-> dreams[t].batch, sources |-> sources, done |-> sources = {}]}
    /\ UNCHANGED <<log, day, graph, dreams, cut, restarts>>

\* ...which is then written, in a thread that nothing stops...
WriteFact ==
    \E each \in writing :
       /\ ~each.done
       /\ facts' = facts \union {[t |-> each.t, sources |-> each.sources]}
       /\ writing' = (writing \ {each}) \union {[each EXCEPT !.done = TRUE]}
       /\ UNCHANGED <<log, day, dated, episodes, forgotten, dreams, cut, restarts>>

\* ...and write_and_cover appends it and covers the batch, whatever became of the turn.
Cover ==
    \E each \in writing :
       /\ each.done
       /\ log' = Append(log, [type |-> "consolidated", t |-> each.t, episodes |-> each.batch,
                                   facts |-> {fact \in facts : fact.t = each.t}])
       /\ writing' = writing \ {each}
       /\ UNCHANGED <<day, graph, dreams, cut, restarts>>

\* _facts_since_last_reflection: recorded since the start of the last reflection to complete.
Reflections == {t \in DOMAIN dreams : dreams[t].stage = "reflection"}
Completions == {i \in Events("completed") : log[i].t \in Reflections}
LastReflected == log[CHOOSE i \in Completions : \A j \in Completions : j <= i].t

\* A mutant of Since that counts from the end of the last reflection.
SinceCompleted ==
    IF Completions = {} THEN 0 ELSE CHOOSE i \in Completions : \A j \in Completions : j <= i

Since ==
    IF Completions = {} THEN 0
    ELSE CHOOSE i \in Events("started") : log[i].t = LastReflected
Fresh == UNION {log[i].facts : i \in {j \in Events("consolidated") : j > Since}}

\* reflection_step
Reflect(t) ==
    /\ dreams[t].stage = "reflection" /\ dreams[t].state = "started"
    /\ \/ /\ Fresh \intersect Live = {}
          /\ Close(t)
       \/ /\ Fresh \intersect Live # {}
          /\ dreams' = [dreams EXCEPT ![t].state = "framed", ![t].shown = Fresh \intersect Live]
          /\ UNCHANGED log
    /\ UNCHANGED <<day, graph, writing, cut, restarts>>

\* The turn goes on after its frame: it asks the user and waits, or is answered, once its call of
\* consolidate, if any, has returned.
Called(t) == t \in {each.t : each \in writing}

Park(t) ==
    /\ dreams[t].state = "framed" /\ ~Called(t)
    /\ dreams' = [dreams EXCEPT ![t].state = "parked"]
    /\ UNCHANGED <<log, day, graph, writing, cut, restarts>>

Answer(t) ==
    /\ dreams[t].state = "parked" /\ Working = {}
    /\ dreams' = [dreams EXCEPT ![t].state = "framed"]
    /\ UNCHANGED <<log, day, graph, writing, cut, restarts>>

Complete(t) ==
    /\ dreams[t].state = "framed" /\ ~Called(t)
    /\ Close(t)
    /\ UNCHANGED <<day, graph, writing, cut, restarts>>

\* The turn fails or the user interrupts it: asyncio.shield lets the writes go on.
Interrupt(t) ==
    /\ dreams[t].state \in {"started", "pruning", "framed", "parked"}
    /\ dreams' = [dreams EXCEPT ![t] = Closed(t, "ended")]
    /\ UNCHANGED <<log, day, graph, writing, cut, restarts>>

-----------------------------------------------------------------------------

Next ==
    \/ \E on \in 0..day : Recap(on)
    \/ \E fact \in facts : Forget(fact)
    \/ Midnight \/ Restart
    \/ \E stage \in {"consolidation", "reflection"} : Start(stage)
    \/ \E t \in DOMAIN dreams :
          \/ \E prune \in BOOLEAN : Prune(t, prune)
          \/ Consolidate(t)
          \/ \E sources \in SUBSET dreams[t].citable : Call(t, sources)
          \/ Reflect(t) \/ Park(t) \/ Answer(t) \/ Complete(t) \/ Interrupt(t)
    \/ WriteFact \/ Cover

Spec == Init /\ [][Next]_dreamsVars

-----------------------------------------------------------------------------

(* A fact lands with the event that covers its sources, also when the turn that learned it is    *)
(* interrupted (consolidation.py: "no fact lands without coverage"); only a stop of the process  *)
(* between the two can part them.                                                                *)
FactsRecorded ==
    \A fact \in facts :
       \/ \E i \in Events("consolidated") : fact \in log[i].facts
       \/ \E each \in writing : each.t = fact.t
       \/ fact.t \in cut

(* While a live fact cites it, an episode is never pruned (CONTEXT.md:88), though turns that     *)
(* framed it wait for the user while he forgets the facts that cited it and later nights prune:  *)
(* a write that its interrupted turn left behind is the one thing a prune can cross.             *)
CitedKept ==
    \A fact \in Live : fact.sources \subseteq episodes \/ dreams[fact.t].state \in {"ended", "lost"}

(* No fact a consolidation recorded escapes reflection: once a reflection that started later has *)
(* completed, some completed reflection has shown the fact, unless the user forgot it            *)
(* (reflection.py: "so none arrive late"), whatever reflections wait for the user meanwhile.     *)
NoneSkipped ==
    \A i \in Events("consolidated") : \A fact \in log[i].facts \ Forgotten :
       i <= Since => \E j \in Completions : fact \in dreams[log[j].t].shown

DreamsInv == FactsRecorded /\ CitedKept /\ NoneSkipped

=============================================================================
