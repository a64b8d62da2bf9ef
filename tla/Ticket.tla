------------------------------- MODULE Ticket -------------------------------
(***************************************************************************)
(* One issue of the shipped software factory: the runs that work it one    *)
(* after the other, the run worktree and the agent branch they share, what *)
(* origin holds of that branch, its pull request and its labels.           *)
(*                                                                         *)
(* The hub's part is only what the tools need of it: where the run is,     *)
(* whether it stopped, which calls it owes.  One instance makes every call *)
(* and runs every step, one at a time; GitHub, the maintainer and the user *)
(* act at any moment.  A branch is the set of commits it has past its      *)
(* base, and a commit is the change it makes, so one moved onto another    *)
(* base stays itself.                                                      *)
(***************************************************************************)
EXTENDS Naturals, FiniteSets

CONSTANTS MaxRuns,      \* runs of the issue
          MaxCommits,   \* commits, by the coding client or pushed by someone else
          MaxMishaps,  \* deaths of the instance in a publish, steps and calls that fail
          MaxActs,      \* labels, closings, merges, reviews: what people do on GitHub
          MaxUserActs   \* retries, send-backs and cancels

Runs == 1 .. MaxRuns
NoRun == 0
Commits == 1 .. MaxCommits
Refs == {"local", "tracking", "origin"}
Places == {"prepare", "code", "publish", "babysit", "assess", "over"}
Phases == {"idle", "based", "rebasing", "pushed", "opened"}
Calls == [run : Runs, kind : {"needs_human", "ended"}, branch : BOOLEAN, noChange : BOOLEAN]

VARIABLES
    issue,      \* [open, ready, human]: its state and its two labels
    run,        \* the issue's run, as the hub and the run's recorded values have it
    owed,       \* the calls the hub has yet to make
    tree,       \* [owner, dirty]: the run worktree and the run its file names
    refs, has,  \* the branch in the clone, as last fetched, and on origin: whether it is, what it has
    at,         \* how far publish has come
    own,        \* the commits _landed_base moves onto the branch the base landed on
    pull,       \* the pull request of the agent branch
    thread,     \* its review thread: [asked, resolved], asked when the last word is a reviewer's
    blocker,    \* the open blocker's pull request, whose branch a run may stack on
    landed,     \* commits on the default branch
    made,       \* commits made so far
    missed,     \* history: what someone else pushed to the branch since the clone last fetched
    used

hub == <<run, owed>>
clone == <<tree, refs, has, own, made>>
github == <<issue, pull, thread, blocker, landed>>
vars == <<hub, clone, github, missed, at, used>>

Init ==
    /\ issue = [open |-> TRUE, ready |-> TRUE, human |-> FALSE]
    /\ run = [id |-> NoRun, place |-> "over", stopped |-> FALSE, base |-> "default",
              branch |-> FALSE, pr |-> FALSE, feedback |-> FALSE, fixed |-> FALSE]
    /\ owed = {}
    /\ tree = [owner |-> NoRun, dirty |-> FALSE]
    /\ refs = {} /\ has = [r \in Refs |-> {}]
    /\ at = "idle" /\ own = {}
    /\ pull = "none" /\ thread = [asked |-> FALSE, resolved |-> FALSE]
    /\ blocker \in {"none", "open"} /\ landed = {} /\ made = 0
    /\ missed = {}
    /\ used = [trouble |-> 0, act |-> 0, user |-> 0]

Can(what, bound) == used[what] < bound
Uses(what) == used' = [used EXCEPT ![what] = @ + 1]
NoUse == UNCHANGED used

Idle == at = "idle"
At(place) == run.place = place /\ ~run.stopped
Working(place) == At(place) /\ Idle

\* The issue as GitHub has it, whatever its list still shows.
Ready == issue.open /\ issue.ready

\* The open agent pull request that closes the issue.
Covered == pull = "open"

\* With a blocker open, its branch, else the default one.
Base == IF blocker = "open" THEN "blocker" ELSE "default"

\* The base's pull request merged and took its branch from origin.
BaseMerged == run.base = "blocker" /\ blocker = "merged"

\* A thread whose last comment is not the coder's.
ToAnswer == thread.asked /\ ~thread.resolved

Ahead == IF "local" \in refs THEN has["local"] \ landed ELSE {}

\* What a run that stops, or ends, makes the hub owe.
NeedsHuman == [run |-> run.id, kind |-> "needs_human", branch |-> FALSE, noChange |-> FALSE]
StopsRun(r) == run' = [r EXCEPT !.stopped = TRUE] /\ owed' = owed \cup {NeedsHuman}
EndsRun(noChange) ==
    /\ run' = [run EXCEPT !.place = "over", !.stopped = FALSE]
    /\ owed' = (owed \ {NeedsHuman})
         \cup {[run |-> run.id, kind |-> "ended", branch |-> run.branch, noChange |-> noChange]}
Restarts(r) == run' = [r EXCEPT !.stopped = FALSE] /\ owed' = owed \ {NeedsHuman}

-----------------------------------------------------------------------------
(* The scan, a routine's turn: no step runs in the instance meanwhile.     *)

\* hand_over: a new run once the last is over, the stopped run again, or the same run.
HandOver ==
    \/ /\ run.place = "over" /\ run.id < MaxRuns
       /\ run' = [id |-> run.id + 1, place |-> "prepare", stopped |-> FALSE, base |-> "default",
                  branch |-> FALSE, pr |-> FALSE, feedback |-> FALSE, fixed |-> FALSE]
       /\ UNCHANGED owed
    \/ run.stopped /\ Restarts(run)
    \/ run.place # "over" /\ ~run.stopped /\ UNCHANGED hub

\* The oldest eligible issue; one still labeled ready-for-human is never the oldest.
Eligible == Ready /\ ~issue.human /\ ~Covered

ScanEligible ==
    /\ Idle /\ Eligible
    /\ HandOver
    /\ UNCHANGED <<clone, github, missed, at, used>>

\* An issue labeled again: its run is retried, and it loses ready-for-human, unless
\* the turn ends in between.
ScanRelabeled ==
    /\ Idle /\ Ready /\ issue.human
    /\ HandOver
    /\ \/ issue' = [issue EXCEPT !.human = FALSE] /\ NoUse
       \/ Can("trouble", MaxMishaps) /\ Uses("trouble") /\ UNCHANGED issue
    /\ UNCHANGED <<clone, pull, thread, blocker, landed, missed, at>>

-----------------------------------------------------------------------------
(* The steps.                                                              *)

\* fetch --prune: the clone's copy of origin's branch is what origin has, or goes.
Fetched(rs) == IF "origin" \in refs THEN rs \cup {"tracking"} ELSE rs \ {"tracking"}

\* A fresh run worktree on the agent branch, at its base.
Prepare ==
    /\ Working("prepare")
    /\ run' = [run EXCEPT !.place = "code", !.base = Base, !.branch = TRUE]
    /\ refs' = Fetched(refs) \cup {"local"}
    /\ has' = [has EXCEPT !["local"] = {}, !["tracking"] = has["origin"]]
    /\ tree' = [owner |-> run.id, dirty |-> FALSE]
    /\ missed' = {}
    /\ UNCHANGED <<owed, own, made, github, at, used>>

\* The issue is closed and no pull request of the branch is open.
RunOver == ~issue.open /\ ~Covered

\* Another issue's run prepares: it fetches, and sweeps this worktree when its run is
\* over and it holds nothing that origin lacks.
OtherPrepares ==
    /\ Idle
    /\ LET fetched == has["origin"]
           swept == /\ tree.owner # NoRun /\ RunOver /\ ~tree.dirty
                    /\ has["local"] \subseteq fetched \cup landed
       IN  /\ refs' = Fetched(refs) \ (IF swept THEN {"local"} ELSE {})
           /\ has' = [has EXCEPT !["tracking"] = fetched,
                                 !["local"] = IF swept THEN {} ELSE @]
           /\ tree' = IF swept THEN [owner |-> NoRun, dirty |-> FALSE] ELSE tree
    /\ missed' = {}
    /\ UNCHANGED <<hub, own, made, github, at, used>>

\* run_worktree: a missing one is cut again from the branch, or from origin's.
TreeOf(r) == IF tree.owner = NoRun THEN r ELSE tree.owner
Recut == [has EXCEPT !["local"] = IF "local" \in refs THEN @ ELSE has["tracking"]]
CanCut == tree.owner # NoRun \/ {"local", "tracking"} \cap refs # {}

\* check_implementation: the branch is ahead of its base, with nothing left uncommitted.
Implemented(branch, new) == branch \ landed # {} /\ (tree.dirty => new # {})

\* check_answers: a fixed thread's reply names a commit of the branch, and only a fix round replies.
Answered(fixed) == fixed => run.feedback

\* The session commits its work, or finds it done, and the checks pass.
CodeCommits ==
    /\ Working("code") /\ CanCut
    /\ \E new \in {{}} \cup (IF made < MaxCommits THEN {{made + 1}} ELSE {}), fixed \in BOOLEAN :
          /\ Implemented(Recut["local"] \cup new, new) /\ Answered(fixed)
          /\ has' = [Recut EXCEPT !["local"] = @ \cup new]
          /\ made' = made + Cardinality(new)
          /\ run' = [run EXCEPT !.place = "publish", !.fixed = fixed]
    /\ refs' = refs \cup {"local"}
    /\ tree' = [owner |-> TreeOf(run.id), dirty |-> FALSE]
    /\ UNCHANGED <<owed, own, github, missed, at, used>>

\* The ticket needs no change, and none is committed: the run ends.
CodeNoChange ==
    /\ Working("code") /\ CanCut /\ ~run.pr /\ ~tree.dirty /\ Recut["local"] \ landed = {}
    /\ has' = Recut /\ refs' = refs \cup {"local"}
    /\ tree' = [owner |-> TreeOf(run.id), dirty |-> FALSE]
    /\ EndsRun(TRUE)
    /\ UNCHANGED <<own, made, github, missed, at, used>>

\* The session leaves work uncommitted, or dies at it: the step is tried again, or the run stops.
CodeLeavesWork ==
    /\ Working("code") /\ CanCut /\ Can("trouble", MaxMishaps) /\ Uses("trouble")
    /\ has' = Recut /\ refs' = refs \cup {"local"}
    /\ tree' = [owner |-> TreeOf(run.id), dirty |-> TRUE]
    /\ UNCHANGED hub \/ StopsRun(run)
    /\ UNCHANGED <<own, made, github, missed, at>>

\* A step fails before it changes anything; prepare's new attempt dropped the branch it had.
StepFails ==
    /\ Idle /\ run.place \in {"prepare", "code", "publish", "assess"} /\ ~run.stopped
    /\ IF run.place = "code" /\ ~CanCut
       THEN NoUse
       ELSE Can("trouble", MaxMishaps) /\ Uses("trouble")
    /\ StopsRun([run EXCEPT !.branch = @ /\ run.place # "prepare"])
    /\ UNCHANGED <<clone, github, missed, at>>

\* The base merged and left origin: the worktree goes to where it landed, its commits to follow.
LandBase ==
    /\ Working("publish") /\ ~run.pr /\ BaseMerged /\ CanCut
    /\ at' = "rebasing"
    /\ own' = Recut["local"]
    /\ has' = [has EXCEPT !["local"] = {}] /\ refs' = refs \cup {"local"}
    /\ tree' = [owner |-> TreeOf(run.id), dirty |-> FALSE]
    /\ UNCHANGED <<hub, made, github, missed, used>>

\* They follow, or they conflict: then the branch is put back and the run stops.
CherryPick ==
    /\ at = "rebasing"
    /\ \/ /\ has' = [has EXCEPT !["local"] = own \ landed]
          /\ at' = "based" /\ UNCHANGED <<hub, used>>
       \/ /\ Can("trouble", MaxMishaps) /\ Uses("trouble")
          /\ has' = [has EXCEPT !["local"] = own]
          /\ at' = "idle" /\ StopsRun(run)
    /\ own' = {}
    /\ UNCHANGED <<tree, refs, made, github, missed>>

\* A mutant of Lease: a plain forced push.
NoLease == TRUE

\* --force-with-lease: origin's branch is what the clone last fetched or pushed.
Lease == "tracking" \in refs /\ has["tracking"] = has["origin"]

\* _push: a branch gone from origin since is pushed anew.
Pushable == "local" \in refs /\ ("origin" \in refs => Lease)
Push ==
    /\ refs' = refs \cup {"tracking", "origin"}
    /\ has' = [has EXCEPT !["tracking"] = has["local"], !["origin"] = has["local"]]

PushBranch ==
    /\ At("publish") /\ (at = "based" \/ Idle)
    /\ Idle => run.pr \/ ~BaseMerged
    /\ \/ Pushable /\ Push /\ at' = "pushed" /\ UNCHANGED hub
       \/ ~Pushable /\ at' = "idle" /\ StopsRun(run) /\ UNCHANGED <<refs, has>>
    /\ UNCHANGED <<tree, own, made, github, missed, used>>

\* The pull request the branch has takes the words; with none, one opens, unless the
\* branch has nothing past its base.
OpenPull ==
    /\ at = "pushed" /\ ~run.pr
    /\ \/ Covered /\ at' = "opened" /\ UNCHANGED <<hub, pull, thread>>
       \/ /\ ~Covered /\ has["origin"] \ landed # {}
          /\ pull' = "open" /\ thread' = [asked |-> FALSE, resolved |-> FALSE]
          /\ at' = "opened" /\ UNCHANGED hub
       \/ /\ ~Covered /\ has["origin"] \ landed = {}
          /\ at' = "idle" /\ StopsRun(run) /\ UNCHANGED <<pull, thread>>
    /\ UNCHANGED <<clone, issue, blocker, landed, missed, used>>

\* The issue loses ready-for-human, and the run waits for a review.
Published ==
    /\ at = "opened"
    /\ issue' = [issue EXCEPT !.human = FALSE]
    /\ run' = [run EXCEPT !.place = "babysit", !.pr = TRUE]
    /\ at' = "idle"
    /\ UNCHANGED <<owed, clone, pull, thread, blocker, landed, missed, used>>

\* A fix round replies on the threads it answered, and resolves those it fixed.
RepliesPosted ==
    /\ at = "pushed" /\ run.pr
    /\ thread' = IF run.feedback THEN [asked |-> FALSE, resolved |-> thread.resolved \/ run.fixed]
                                 ELSE thread
    /\ run' = [run EXCEPT !.place = "babysit", !.feedback = FALSE]
    /\ at' = "idle"
    /\ UNCHANGED <<owed, clone, issue, pull, blocker, landed, missed, used>>

\* The instance dies in a publish, which is never tried again: the run stops.
DieInPublish ==
    /\ ~Idle /\ Can("trouble", MaxMishaps) /\ Uses("trouble")
    /\ at' = "idle" /\ own' = {} /\ StopsRun(run)
    /\ UNCHANGED <<tree, refs, has, made, github, missed>>

\* A review, a reply, a check suite, a closing or the quiet time wakes the run.
Wake ==
    /\ At("babysit")
    /\ run' = [run EXCEPT !.place = "assess"]
    /\ UNCHANGED <<owed, clone, github, missed, at, used>>

\* What babysitting does next.  Checks may run, fail or pass, and a review of the head be
\* there or not; a send-back over its limit stops the run.
Assess ==
    /\ Working("assess")
    /\ \/ pull \in {"merged", "closed"} /\ EndsRun(FALSE)
       \/ /\ Covered /\ ToAnswer
          /\ LET found == [run EXCEPT !.feedback = TRUE, !.pr = TRUE]
             IN  \/ run' = [found EXCEPT !.place = "code"] /\ UNCHANGED owed
                 \/ StopsRun(found)
       \/ /\ Covered /\ ~ToAnswer
          /\ \/ run' = [run EXCEPT !.place = "code"] /\ UNCHANGED owed
             \/ StopsRun(run)
             \/ EndsRun(FALSE)
       \/ Covered /\ run' = [run EXCEPT !.place = "babysit"] /\ UNCHANGED owed
    /\ UNCHANGED <<clone, github, missed, at, used>>

-----------------------------------------------------------------------------
(* The calls for a run that stopped or ended.                              *)

\* A call for a stop the run has left is not made.
CallDue(call) == call \in owed /\ Idle /\ (call.kind = "needs_human" => run.stopped)

\* The branch is pushed if it is ahead, and a refused push changes nothing; then the labels.
ReportNeedsHuman ==
    /\ CallDue(NeedsHuman)
    /\ IF run.branch /\ Ahead # {} /\ Pushable THEN Push ELSE UNCHANGED <<refs, has>>
    /\ issue' = [issue EXCEPT !.ready = FALSE, !.human = TRUE]
    /\ owed' = owed \ {NeedsHuman}
    /\ UNCHANGED <<run, tree, own, made, pull, thread, blocker, landed, missed, at, used>>

\* A mutant of OwnedBy: whichever run cut it.
OwnedByAny(r) == tree.owner # NoRun

\* The worktree is this run's.
OwnedBy(r) == tree.owner = r

\* report_ended: the worktree goes with the branch, unless a later run cut them again; a call
\* that comes late may find that one's.
ReportEnded(call) ==
    /\ CallDue(call) /\ call.kind = "ended"
    /\ IF call.branch /\ (tree.owner = NoRun \/ OwnedBy(call.run))
       THEN /\ refs' = refs \ {"local"} /\ has' = [has EXCEPT !["local"] = {}]
            /\ tree' = [owner |-> NoRun, dirty |-> FALSE]
       ELSE UNCHANGED <<refs, has, tree>>
    /\ issue' = [issue EXCEPT !.human = FALSE, !.ready = @ /\ ~call.noChange]
    /\ owed' = owed \ {call}
    /\ UNCHANGED <<run, own, made, pull, thread, blocker, landed, missed, at, used>>

-----------------------------------------------------------------------------
(* The user, and GitHub.                                                   *)

Retry ==
    /\ run.stopped /\ Can("user", MaxUserActs) /\ Uses("user")
    /\ Restarts(run)
    /\ UNCHANGED <<clone, github, missed, at>>

Earlier(place) == CASE place = "prepare" -> {}
                    [] place \in {"code", "publish"} -> {"prepare", "code"}
                    [] OTHER -> {"prepare", "code", "publish"}

\* The steps from the one it goes back to on lose what they recorded, but for what an
\* assess over its limit hands on.
SendBack ==
    /\ run.stopped /\ Can("user", MaxUserActs) /\ Uses("user")
    /\ \E to \in Earlier(run.place), keeps \in {FALSE, run.place = "assess"} :
          Restarts([run EXCEPT !.place = to, !.pr = @ /\ keeps, !.feedback = @ /\ keeps])
    /\ UNCHANGED <<clone, github, missed, at>>

Cancel ==
    /\ run.stopped \/ At("babysit")
    /\ Can("user", MaxUserActs) /\ Uses("user")
    /\ EndsRun(FALSE)
    /\ UNCHANGED <<clone, github, missed, at>>

\* A stopped run ends when its pull request merges or closes, or its issue closes.
CloseRun ==
    /\ run.stopped /\ (~issue.open \/ (run.pr /\ pull \in {"merged", "closed"}))
    /\ EndsRun(FALSE)
    /\ UNCHANGED <<clone, github, missed, at, used>>

Acts == Can("act", MaxActs) /\ Uses("act")

LabelReady ==
    /\ Acts /\ issue.open /\ ~issue.ready
    /\ issue' = [issue EXCEPT !.ready = TRUE]
    /\ UNCHANGED <<hub, clone, pull, thread, blocker, landed, missed, at>>

CloseIssue ==
    /\ Acts /\ issue.open
    /\ issue' = [issue EXCEPT !.open = FALSE]
    /\ UNCHANGED <<hub, clone, pull, thread, blocker, landed, missed, at>>

\* A merge closes the issue, keeps the commits or squashes them, and may delete the branch.
MergePull ==
    /\ Acts /\ pull = "open" /\ "origin" \in refs
    /\ pull' = "merged"
    /\ issue' = [issue EXCEPT !.open = FALSE]
    /\ landed' \in {landed, landed \cup has["origin"]}
    /\ \/ /\ refs' = refs \ {"origin"} /\ has' = [has EXCEPT !["origin"] = {}]
          /\ missed' = {}
       \/ UNCHANGED <<refs, has, missed>>
    /\ UNCHANGED <<hub, tree, own, made, thread, blocker, at>>

ClosePull ==
    /\ Acts /\ pull = "open" /\ pull' = "closed"
    /\ UNCHANGED <<hub, clone, issue, thread, blocker, landed, missed, at>>

Review ==
    /\ Acts /\ pull = "open"
    /\ thread' = [asked |-> TRUE, resolved |-> FALSE]
    /\ UNCHANGED <<hub, clone, issue, pull, blocker, landed, missed, at>>

\* Someone else pushes a commit onto the agent branch.
SomeonePushes ==
    /\ Acts /\ "origin" \in refs /\ made < MaxCommits
    /\ made' = made + 1
    /\ has' = [has EXCEPT !["origin"] = @ \cup {made + 1}]
    /\ missed' = missed \cup {made + 1}
    /\ UNCHANGED <<hub, tree, refs, own, github, at>>

BlockerMerges ==
    /\ blocker = "open" /\ blocker' = "merged"
    /\ UNCHANGED <<hub, clone, issue, pull, thread, landed, missed, at, used>>

-----------------------------------------------------------------------------

Next ==
    \/ ScanEligible \/ ScanRelabeled \/ Prepare \/ OtherPrepares
    \/ CodeCommits \/ CodeNoChange \/ CodeLeavesWork \/ StepFails
    \/ LandBase \/ CherryPick \/ PushBranch \/ OpenPull \/ Published \/ RepliesPosted
    \/ DieInPublish \/ Wake \/ Assess
    \/ ReportNeedsHuman \/ \E call \in owed : ReportEnded(call)
    \/ Retry \/ SendBack \/ Cancel \/ CloseRun
    \/ LabelReady \/ CloseIssue \/ MergePull \/ ClosePull \/ Review \/ SomeonePushes \/ BlockerMerges

Spec == Init /\ [][Next]_vars

-----------------------------------------------------------------------------
(* Properties.                                                             *)

TypeOK ==
    /\ issue \in [open : BOOLEAN, ready : BOOLEAN, human : BOOLEAN]
    /\ run \in [id : 0 .. MaxRuns, place : Places, stopped : BOOLEAN,
                base : {"default", "blocker"}, branch : BOOLEAN, pr : BOOLEAN,
                feedback : BOOLEAN, fixed : BOOLEAN]
    /\ owed \subseteq Calls
    /\ tree \in [owner : {NoRun} \cup Runs, dirty : BOOLEAN]
    /\ refs \subseteq Refs /\ has \in [Refs -> SUBSET Commits]
    /\ at \in Phases /\ own \subseteq Commits
    /\ pull \in {"none", "open", "merged", "closed"}
    /\ thread \in [asked : BOOLEAN, resolved : BOOLEAN]
    /\ blocker \in {"none", "open", "merged"}
    /\ landed \subseteq Commits /\ made \in 0 .. MaxCommits
    /\ missed \subseteq Commits

\* The run is over, or has yet to cut its branch, maybe anew: it has no work to keep.
HasNoWork == run.place \in {"over", "prepare"}

\* The work of a run that is not over is never thrown away, whatever other runs, the late calls
\* of an earlier run or the sweep do: its commits stay on the branch, on origin or where they
\* landed, and what it has not committed stays until it commits.  A base that landed is the one
\* exception: between the reset and the cherry-pick of _landed_base the commits are on no branch.
WorkStays ==
    \/ HasNoWork
    \/ at' = "rebasing"
    \/ /\ has["local"] \subseteq has'["local"] \cup has'["origin"] \cup landed'
       /\ tree.dirty => tree'.dirty \/ made' > made
WorkKept == [][WorkStays]_vars

\* A push never discards what someone else pushed since the clone last fetched: neither a fix
\* round's, nor a later run's, nor the one a run that stopped is reported with.  A fetch for
\* another issue counts as one: what it fetched, a push of this issue's run may discard.
PushesKept == missed \subseteq has["origin"] \cup landed

=============================================================================
