--------------------------- MODULE Configuration ---------------------------
(***************************************************************************)
(* The changes to an instance's configuration (core/config.py and          *)
(* plugins/instance_tools.py): the user's app and the agent's tools write, *)
(* turn on and off, delete and rename routines, skills and single files,   *)
(* each kind under its own lock; each change is recorded                   *)
(* (instance/config_changes.py) and an edit of a routine then revokes its  *)
(* grants (instance/routine_grants.py).                                    *)
(*                                                                         *)
(* An edit runs in a worker thread.  An interrupt of the turn cancels only *)
(* the agent's wait for it: the lock is let go, and the thread writes on   *)
(* beside the next edit.  On the event loop, and without the lock, the     *)
(* scheduler turns a failing routine off, and the answer to a parked       *)
(* turn's approval grants its tool to the routine.  Each of the two is a   *)
(* stretch without an await: they do not cross each other, only the edits. *)
(* A text stands for all a file or a folder says but a routine's enabled   *)
(* line, and one grant for those of a routine.                             *)
(***************************************************************************)
EXTENDS Naturals

CONSTANTS
    Routines, Skills, Files,   \* the names of what is configured
    Existing,                  \* those that are there at first
    Editors, Nobody,           \* the calls that edit, of the app and of the agent's tools
    MaxEdits, MaxOffs, MaxAnswers, MaxTroubles, MaxMoments \* bounds: edits asked, routines found failing, turns parked, crashes, failed records and interrupts, and all of them

VARIABLES
    folder,    \* what is there under each name
    logged,    \* what the last config change of each name says is there
    grant,     \* what each routine was when the user granted it its tool
    lock,      \* routine_lock, skill_lock and config_lock
    job,       \* how far each edit is
    off,       \* how far the scheduler is with a routine that failed too often
    answer,    \* how far a routine's parked turn is whose approval the user answers for good
    crossed,   \* names of which an edit crossed a stretch of the event loop or an edit that had let
               \* its lock go, and no later edit ended alone
    torn,      \* names of which an edit failed or was cut short, and no later edit ended alone
    used       \* how often each bounded thing happened

configurationVars == <<folder, logged, grant, lock, job, off, answer, crossed, torn, used>>

-----------------------------------------------------------------------------
Names == Routines \cup Skills \cup Files
Kinds == {"routine", "skill", "file"}
Kind(n) == IF n \in Routines THEN "routine" ELSE IF n \in Skills THEN "skill" ELSE "file"
Nothing == [text |-> 0, on |-> FALSE]
First == [text |-> 1, on |-> TRUE]
There(n) == folder[n].text # 0

NoJob == [op |-> "none", n |-> Nobody, to |-> Nobody, read |-> Nothing, on |-> FALSE,
          phase |-> "idle", alone |-> TRUE]
NoStretch == [n |-> Nobody, read |-> Nothing, phase |-> "idle"]
Of(e) == {job[e].n, job[e].to}

\* What an edit does, and whether its caller read what it edits: the app's edits carry the hash of
\* what the client read, the agent's do not, nor do turning on or off and granting.
Checked == {"write", "delete", "rename"}
Interruptible == {"overwrite", "erase", "enable"}   \* the agent's; turning on and off is the app's too
Ops(n) ==
    CASE n \in Routines -> Checked \cup {"overwrite", "erase", "enable", "grant"}
      [] n \in Skills -> {"write", "delete", "overwrite", "erase"}
      [] OTHER -> {"write", "overwrite"}

Changing == {"aside", "changed", "logged"}
Under == {"checked"} \cup Changing   \* phases of an edit that holds its lock
Edits(e, n) == job[e].phase \in Under /\ n \in Of(e)
Changes(e, n) == job[e].phase \in Changing /\ n \in Of(e)
OffStretch == off.phase \in {"read", "changed", "logged"}
OnLoop(n) == (OffStretch /\ off.n = n) \/ (answer.phase = "checked" /\ answer.n = n)

Init ==
    /\ folder = [n \in Names |-> IF n \in Existing THEN First ELSE Nothing]
    /\ logged = folder /\ grant = [n \in Routines |-> Nothing]
    /\ lock = [k \in Kinds |-> Nobody] /\ job = [e \in Editors |-> NoJob]
    /\ off = NoStretch /\ answer = NoStretch
    /\ crossed = {} /\ torn = {}
    /\ used = [edits |-> 0, texts |-> 1, offs |-> 0, answers |-> 0, troubles |-> 0]

Can(what, bound) ==
    used[what] < bound /\ used.edits + used.offs + used.answers + used.troubles < MaxMoments
Uses(what) == used' = [used EXCEPT ![what] = @ + 1]
EditsOnly == UNCHANGED <<off, answer>>
LoopOnly == UNCHANGED <<lock>>

-----------------------------------------------------------------------------
\* A call asks for an edit, with what it read, and waits for the lock of its kind.
Ask(e, n, op) ==
    /\ job[e] = NoJob /\ Can("edits", MaxEdits) /\ op \in Ops(n)
    /\ \E to \in IF op = "rename" THEN Routines \ {n} ELSE {n}, on \in BOOLEAN :
        /\ op \notin {"write", "overwrite", "enable"} \/ n \notin Routines => ~on
        /\ job' = [job EXCEPT ![e] = [op |-> op, n |-> n, to |-> to, read |-> folder[n], on |-> on,
                                      phase |-> "waiting", alone |-> TRUE]]
    /\ Uses("edits")
    /\ UNCHANGED <<folder, logged, grant, lock, off, answer, crossed, torn>>

\* A mutant of Unchanged that does not look whether what the client creates is there by now.
UnchangedUnlessNew(e) ==
    job[e].op \in Checked /\ job[e].read # Nothing => folder[job[e].n] = job[e].read

\* The checks under the lock: nothing changed since the client read it, what is edited is there,
\* and the new name is free.
Unchanged(e) == job[e].op \in Checked => folder[job[e].n] = job[e].read
Sound(e) ==
    /\ job[e].op \notin {"write", "overwrite"} => There(job[e].n)
    /\ job[e].op = "rename" => ~There(job[e].to)

\* The edit takes the lock and its checks pass: in a routine being turned off or granted to, it
\* crosses that stretch, and where an edit goes on that was interrupted, the two cross.
Begin(e) ==
    LET crosses == {n \in Of(e) : OnLoop(n) \/ \E d \in Editors \ {e} : Edits(d, n)}
        read == IF job[e].op \in Checked THEN job[e].read ELSE folder[job[e].n] IN
    /\ job[e].phase = "waiting" /\ lock[Kind(job[e].n)] = Nobody
    /\ Unchanged(e) /\ Sound(e)
    /\ lock' = [lock EXCEPT ![Kind(job[e].n)] = e]
    /\ job' = [d \in Editors |->
          IF d = e THEN [job[e] EXCEPT !.phase = "checked", !.read = read, !.alone = (crosses = {})]
          ELSE [job[d] EXCEPT !.alone = @ /\ \A n \in Of(e) : ~Edits(d, n)]]
    /\ crossed' = crossed \cup crosses
    /\ EditsOnly /\ UNCHANGED <<folder, logged, grant, torn, used>>

\* It is refused instead, by those checks, by the loader, or for the deliveries that wait, or
\* interrupted before its thread starts.
Refuse(e) ==
    /\ job[e].phase = "waiting"
    /\ lock[Kind(job[e].n)] = Nobody \/ job[e].op \in Interruptible
    /\ job' = [job EXCEPT ![e] = NoJob]
    /\ EditsOnly /\ UNCHANGED <<folder, logged, grant, lock, crossed, torn, used>>

LetGo(e) == lock' = [k \in Kinds |-> IF lock[k] = e THEN Nobody ELSE lock[k]]

\* The turn is interrupted: nothing waits for the edit and its lock is let go, but its thread goes on.
Interrupt(e) ==
    /\ job[e].phase \in Under /\ job[e].op \in Interruptible
    /\ lock[Kind(job[e].n)] = e /\ Can("troubles", MaxTroubles)
    /\ LetGo(e)
    /\ Uses("troubles")
    /\ EditsOnly /\ UNCHANGED <<folder, logged, grant, job, crossed, torn>>

Step(e, phase) == job' = [job EXCEPT ![e].phase = phase]

\* write_routine and write_skill put the old folder aside...
PutAside(e) ==
    /\ job[e].phase = "checked" /\ job[e].op \in {"write", "overwrite"}
    /\ job[e].n \notin Files /\ There(job[e].n)
    /\ folder' = [folder EXCEPT ![job[e].n] = Nothing]
    /\ Step(e, "aside")
    /\ EditsOnly /\ UNCHANGED <<logged, grant, lock, crossed, torn, used>>

\* What an edit writes: edited_manifest and edited_permissions keep what they do not change.
Written(e) == [text |-> used.texts + 1, on |-> job[e].on]

\* ...and the staged one in its place, as a single file is replaced at once.
Place(e) ==
    /\ \/ job[e].phase = "aside" /\ ~There(job[e].n)
       \/ /\ job[e].phase = "checked" /\ job[e].op \in {"write", "overwrite"}
          /\ job[e].n \in Files \/ ~There(job[e].n)
    /\ folder' = [folder EXCEPT ![job[e].n] = Written(e)]
    /\ Uses("texts")
    /\ Step(e, "changed")
    /\ EditsOnly /\ UNCHANGED <<logged, grant, lock, crossed, torn>>

\* set_routine_enabled writes back the file it read with another enabled line.
Enable(e) ==
    /\ job[e].phase = "checked" /\ job[e].op = "enable" /\ There(job[e].n)
    /\ folder' = [folder EXCEPT ![job[e].n] = [job[e].read EXCEPT !.on = job[e].on]]
    /\ Step(e, "changed")
    /\ EditsOnly /\ UNCHANGED <<logged, grant, lock, crossed, torn, used>>

Erase(e) ==
    /\ job[e].phase = "checked" /\ job[e].op \in {"delete", "erase"} /\ There(job[e].n)
    /\ folder' = [folder EXCEPT ![job[e].n] = Nothing]
    /\ Step(e, "changed")
    /\ EditsOnly /\ UNCHANGED <<logged, grant, lock, crossed, torn, used>>

Rename(e) ==
    /\ job[e].phase = "checked" /\ job[e].op = "rename"
    /\ There(job[e].n) /\ ~There(job[e].to)
    /\ folder' = [folder EXCEPT ![job[e].n] = Nothing, ![job[e].to] = folder[job[e].n]]
    /\ Step(e, "changed")
    /\ EditsOnly /\ UNCHANGED <<logged, grant, lock, crossed, torn, used>>

\* recorded_change and recorded_changes: what is there now, once the change is made.
Record(e) ==
    /\ job[e].phase = "changed"
    /\ logged' = [n \in Names |-> IF n \in Of(e) THEN folder[n] ELSE logged[n]]
    /\ Step(e, "logged")
    /\ EditsOnly /\ UNCHANGED <<folder, grant, lock, crossed, torn, used>>

\* RoutineGrants.clear, of the old name and the new.
Revoked(e) == [n \in Routines |-> IF n \in Of(e) THEN Nothing ELSE grant[n]]

\* The edit ends: the routine's grants are revoked and the lock is let go.
End(e) ==
    /\ job[e].phase = "logged"
    /\ grant' = Revoked(e)
    /\ LetGo(e)
    /\ job' = [job EXCEPT ![e] = NoJob]
    /\ IF job[e].alone THEN crossed' = crossed \ Of(e) /\ torn' = torn \ Of(e)
       ELSE UNCHANGED <<crossed, torn>>
    /\ EditsOnly /\ UNCHANGED <<folder, logged, used>>

\* _grant_code_step: the user grants a routine its own code step, from its page.
GrantStep(e) ==
    /\ job[e].phase = "checked" /\ job[e].op = "grant"
    /\ grant' = [grant EXCEPT ![job[e].n] = job[e].read]
    /\ LetGo(e)
    /\ job' = [job EXCEPT ![e] = NoJob]
    /\ EditsOnly /\ UNCHANGED <<folder, logged, crossed, torn, used>>

\* The change cannot be recorded: it stays, and its grants are not revoked.
RecordFails(e) ==
    /\ job[e].phase = "changed" /\ Can("troubles", MaxTroubles)
    /\ LetGo(e)
    /\ job' = [job EXCEPT ![e] = NoJob]
    /\ torn' = torn \cup Of(e)
    /\ Uses("troubles")
    /\ EditsOnly /\ UNCHANGED <<folder, logged, grant, crossed>>

\* What it writes to is gone, or there is by now another's folder in the place of what it put aside:
\* an edit that crossed it did that, and this one fails.
Fails(e) ==
    /\ \/ job[e].phase = "aside" /\ There(job[e].n)
       \/ /\ job[e].phase = "checked"
          /\ \/ job[e].op \in {"enable", "delete", "erase", "rename"} /\ ~There(job[e].n)
             \/ job[e].op = "rename" /\ There(job[e].to)
    /\ LetGo(e)
    /\ job' = [job EXCEPT ![e] = NoJob]
    /\ torn' = torn \cup Of(e)
    /\ EditsOnly /\ UNCHANGED <<folder, logged, grant, crossed, used>>

-----------------------------------------------------------------------------
\* A stretch of the event loop begins in routine n: an edit of n under way crosses it.
Crosses(n) ==
    /\ job' = [e \in Editors |-> [job[e] EXCEPT !.alone = @ /\ ~Edits(e, n)]]
    /\ crossed' = IF \E e \in Editors : Edits(e, n) THEN crossed \cup {n} ELSE crossed

\* _handle_failures loads the routines and awaits once more...
Load(n) ==
    /\ off = NoStretch /\ There(n) /\ folder[n].on /\ Can("offs", MaxOffs)
    /\ off' = [n |-> n, read |-> Nothing, phase |-> "loaded"]
    /\ Uses("offs")
    /\ LoopOnly /\ UNCHANGED <<folder, logged, grant, job, answer, crossed, torn>>

\* ...then disable_routine reads the file: the pass fails when it is gone,...
ReadOff ==
    /\ off.phase = "loaded" /\ answer.phase # "checked"
    /\ IF There(off.n)
       THEN off' = [off EXCEPT !.phase = "read", !.read = folder[off.n]] /\ Crosses(off.n)
       ELSE off' = NoStretch /\ UNCHANGED <<job, crossed>>
    /\ LoopOnly /\ UNCHANGED <<folder, logged, grant, answer, torn, used>>

\* ...writes it back turned off,...
WriteOff ==
    /\ off.phase = "read"
    /\ IF There(off.n)
       THEN /\ folder' = [folder EXCEPT ![off.n] = [off.read EXCEPT !.on = FALSE]]
            /\ off' = [off EXCEPT !.phase = "changed"]
       ELSE off' = NoStretch /\ UNCHANGED folder
    /\ LoopOnly /\ UNCHANGED <<logged, grant, job, answer, crossed, torn, used>>

\* ...records the change...
RecordOff ==
    /\ off.phase = "changed"
    /\ logged' = [logged EXCEPT ![off.n] = folder[off.n]]
    /\ off' = [off EXCEPT !.phase = "logged"]
    /\ LoopOnly /\ UNCHANGED <<folder, grant, job, answer, crossed, torn, used>>

\* ...and revokes the grants.
RevokeOff ==
    /\ off.phase = "logged"
    /\ grant' = [grant EXCEPT ![off.n] = Nothing]
    /\ off' = NoStretch
    /\ LoopOnly /\ UNCHANGED <<folder, logged, job, answer, crossed, torn, used>>

\* A turn of routine n starts, whose revision is the routine as it is, and parks on an approval.
Park(n) ==
    /\ answer = NoStretch /\ There(n) /\ Can("answers", MaxAnswers)
    /\ answer' = [n |-> n, read |-> folder[n], phase |-> "parked"]
    /\ Uses("answers")
    /\ LoopOnly /\ UNCHANGED <<folder, logged, grant, job, off, crossed, torn>>

\* _grant_parked_tool: nothing is granted when the routine changed since...
CheckRevision ==
    /\ answer.phase = "parked" /\ ~OffStretch
    /\ IF folder[answer.n] = answer.read
       THEN answer' = [answer EXCEPT !.phase = "checked"] /\ Crosses(answer.n)
       ELSE answer' = NoStretch /\ UNCHANGED <<job, crossed>>
    /\ LoopOnly /\ UNCHANGED <<folder, logged, grant, off, torn, used>>

GrantTool ==
    /\ answer.phase = "checked"
    /\ grant' = [grant EXCEPT ![answer.n] = answer.read]
    /\ answer' = NoStretch
    /\ LoopOnly /\ UNCHANGED <<folder, logged, job, off, crossed, torn, used>>

\* The user revokes a grant, under no lock of the routine's.
Revoke(n) ==
    /\ grant[n] # Nothing
    /\ grant' = [grant EXCEPT ![n] = Nothing]
    /\ UNCHANGED <<folder, logged, lock, job, off, answer, crossed, torn, used>>

Cut(n) ==
    \/ (off.n = n /\ off.phase \in {"changed", "logged"})
    \/ \E e \in Editors : Changes(e, n)

\* The process stops: edits and stretches are cut where they are, a parked turn stays parked.
Restart ==
    /\ Can("troubles", MaxTroubles)
    /\ torn' = torn \cup {n \in Names : Cut(n)}
    /\ lock' = [k \in Kinds |-> Nobody] /\ job' = [e \in Editors |-> NoJob]
    /\ off' = NoStretch
    /\ answer' = IF answer.phase = "checked" THEN NoStretch ELSE answer
    /\ Uses("troubles")
    /\ UNCHANGED <<folder, logged, grant, crossed>>

-----------------------------------------------------------------------------
EditStep(e) ==
    \/ \E n \in Names : \E op \in Ops(n) : Ask(e, n, op)
    \/ Begin(e) \/ Refuse(e) \/ PutAside(e) \/ Place(e) \/ Enable(e) \/ Erase(e) \/ Rename(e)
    \/ Record(e) \/ End(e) \/ GrantStep(e) \/ RecordFails(e) \/ Fails(e) \/ Interrupt(e)

Next ==
    \/ \E e \in Editors : EditStep(e)
    \/ \E n \in Routines : Load(n) \/ Park(n) \/ Revoke(n)
    \/ ReadOff \/ WriteOff \/ RecordOff \/ RevokeOff \/ CheckRevision \/ GrantTool \/ Restart

Spec == Init /\ [][Next]_configurationVars

-----------------------------------------------------------------------------
Whole == Names \ (crossed \cup torn)

(* What an edit read under its lock is what it changes: the text the caller sent its hash of,    *)
(* unless the event loop turned the routine off meanwhile or an edit whose turn was interrupted  *)
(* wrote on beside it. The app's edits have the lock to their end (config.py: _check_unchanged   *)
(* under routine_lock, skill_lock and config_lock).                                              *)
EditedAsRead ==
    \A e \in Editors : job[e].phase \in Under =>
        /\ job[e].op \in Interruptible \/ lock[Kind(job[e].n)] = e
        /\ job[e].phase = "checked" => folder[job[e].n] = job[e].read \/ ~job[e].alone

(* Two edits of a name go on at once only where one of them may have been interrupted, and then   *)
(* neither is alone and the name counts as crossed (instance_tools.py: async with routine_lock).  *)
NoneBeside ==
    \A d, e \in Editors : \A n \in Names : d # e /\ Edits(d, n) /\ Edits(e, n) =>
        /\ job[d].op \in Interruptible \/ job[e].op \in Interruptible
        /\ ~job[d].alone /\ n \in crossed

(* Turning a routine off writes back the text it read: an edit is undone only when it crossed     *)
(* (scheduler.py: _handle_failures takes no routine_lock).                                       *)
OffKeepsEdits == off.phase = "read" => folder[off.n] = off.read \/ off.n \in crossed

(* Whatever is in order has the change that made it as its last config change, but for what is    *)
(* being changed right now (config_changes.py: recorded_changes).                                *)
LoggedAsIs ==
    \A n \in Whole : \/ logged[n] = folder[n]
                     \/ (off.n = n /\ off.phase = "changed")
                     \/ \E e \in Editors : Changes(e, n) /\ job[e].phase # "logged"

(* And a grant of it was given to the routine as it is now, or is about to be revoked: any edit   *)
(* revokes the grants (docs/adr/0112), in whatever order edits, answers, the scheduler's disables *)
(* and grants from the routine's page come.                                                       *)
GrantedAsIs ==
    \A n \in Routines \cap Whole : \/ grant[n] \in {Nothing, folder[n]}
                                  \/ (off.n = n /\ off.phase \in {"changed", "logged"})
                                  \/ \E e \in Editors : Changes(e, n)

(* A configuration in order: an edit lands over what its caller read, is recorded as it is, and   *)
(* leaves no grant to a routine that is no longer what the user granted it to, where nothing that *)
(* takes no lock or let it go crossed it.                                                         *)
ConfigurationInv == EditedAsRead /\ NoneBeside /\ OffKeepsEdits /\ LoggedAsIs /\ GrantedAsIs
=============================================================================
