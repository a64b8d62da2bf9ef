-------------------------------- MODULE Desk --------------------------------
(***************************************************************************)
(* The notifications of one instance, the home instance, at the hub's desk *)
(* (src/kinby/hub/outbox.py, replies.py, approvals.py, channels.py, and    *)
(* their tables in registry.py): how each is delivered through every       *)
(* channel, how the user's replies come back and are applied one at a      *)
(* time, and which of the home instance's hub writes the user approved.    *)
(*                                                                         *)
(* Notifications, deliveries, channels and replies survive a restart of    *)
(* the hub; tasks, the lock that applies replies and what the hub saw of   *)
(* approvals do not.                                                       *)
(***************************************************************************)
EXTENDS Naturals, FiniteSets

CONSTANTS
    Notes,          \* notifications, each under a key of its own
    Channels,       \* channels the user set up
    MaxReplies,     \* bound on the replies the user sends
    Cases,          \* bound: the sets of notifications that one behaviour is about
    Kind,           \* "turn", "approval", "stop" or "cap" for each notification
    Cap,            \* how many the instance raises in a day
    App,            \* what replies that come from the web app come by
    NoReply,
    MaxRestarts,    \* bound on restarts of the hub
    MaxSettings     \* bound on changes of the channels in the settings

ASSUME DeskAssumption ==
    /\ Kind \in [Notes -> {"turn", "approval", "stop", "cap"}] /\ Cases \subseteq SUBSET Notes
    /\ MaxReplies \in Nat /\ NoReply \notin 1..MaxReplies

VARIABLES
    raised,     \* the recorded notifications
    delivery,   \* the status of each delivery
    channel,    \* the channels, as set up
    muted,      \* the channels that mute the instance
    sending,    \* where each delivery's task is
    reply,      \* the recorded replies
    tasks,      \* the replies whose tasks wait for their turn
    applying,   \* the reply that holds the lock, and where it is
    waits,      \* the approvals and run stops that wait for an answer
    took,       \* how often the instance took each reply's answer
    witnessed,  \* the approvals the hub saw, and whether they are approved
    spent,      \* the approvals used
    willed,     \* the approvals the user approved in some way
    wrote,      \* the hub writes made for each approval by this process
    late,       \* the notifications and replies more than a day old
    about,      \* the notifications of this behaviour
    restarts,
    settings    \* the changes made to the channels

outbox == <<raised, delivery, channel, muted, sending>>
replies == <<reply, tasks, applying, took>>
approvals == <<witnessed, spent, willed, wrote>>
deskVars == <<outbox, replies, waits, approvals, late, about, restarts, settings>>

Replies == 1..MaxReplies
Approvals == {n \in Notes : Kind[n] = "approval"}
NoAnswer == [note |-> NoReply, by |-> App, option |-> "none", status |-> "none", calling |-> FALSE]
Free == [reply |-> NoReply, at |-> "none"]

Init ==
    /\ about \in Cases
    /\ raised = {} /\ muted = {}
    /\ delivery = [d \in Notes \X Channels |-> "none"]
    /\ sending = [d \in Notes \X Channels |-> "idle"]
    /\ channel = [c \in Channels |-> "on"]
    /\ reply = [r \in Replies |-> NoAnswer] /\ tasks = {} /\ applying = Free
    /\ waits = {n \in about : Kind[n] \in {"approval", "stop"}} /\ took = [r \in Replies |-> 0]
    /\ witnessed = [n \in Approvals |-> "no"] /\ spent = {} /\ willed = {}
    /\ wrote = [n \in Approvals |-> 0]
    /\ late = {} /\ restarts = 0 /\ settings = 0

----------------------------------------------------------------------------
(* The outbox. *)

\* Outbox.notify: recorded once with a delivery on each channel that sends.
Record(n) ==
    /\ raised' = raised \cup {n}
    /\ delivery' = [d \in DOMAIN delivery |->
                      IF d[1] = n /\ channel[d[2]] = "on"
                      THEN IF d[2] \in muted THEN "muted" ELSE "pending"
                      ELSE delivery[d]]
    /\ sending' = [d \in DOMAIN sending |->
                     IF d[1] = n /\ delivery'[d] = "pending" THEN "waiting" ELSE sending[d]]

\* A key raised before changes nothing, and is not raised again here.  An
\* approval and a run's stop are never refused; the first refusal of a day is
\* a notification of its own.
Today == raised \ late
RefusedToday == {n \in Notes : Kind[n] = "cap"} \ late
Raise(n) ==
    /\ n \in about \ raised /\ Kind[n] # "cap"
    /\ IF Kind[n] = "turn" /\ Cardinality({m \in Today : Kind[m] # "approval"}) >= Cap
       THEN \E cap \in RefusedToday : cap \in about \ raised /\ Record(cap)
       ELSE Record(n)
    /\ UNCHANGED <<channel, muted, replies, waits, approvals, late, about, restarts, settings>>

EndsDelivery(d, status) ==
    /\ delivery' = [delivery EXCEPT ![d] = IF @ = "none" THEN @ ELSE status]
    /\ sending' = [sending EXCEPT ![d] = "idle"]
OutboxOnly == UNCHANGED <<raised, channel, muted, replies, waits, approvals, late, about, restarts, settings>>

\* A try that is due looks at the channel anew.
Due(d) ==
    /\ sending[d] = "waiting" /\ OutboxOnly
    /\ CASE channel[d[2]] = "on" -> sending' = [sending EXCEPT ![d] = "sending"] /\ UNCHANGED delivery
         [] channel[d[2]] = "off" -> EndsDelivery(d, "failed")
         [] OTHER -> sending' = [sending EXCEPT ![d] = "idle"] /\ UNCHANGED delivery
Sent(d) == sending[d] = "sending" /\ EndsDelivery(d, "sent") /\ OutboxOnly
SendFails(d) ==
    /\ sending[d] = "sending" /\ OutboxOnly
    /\ IF d[1] \in late THEN EndsDelivery(d, "failed")
                        ELSE sending' = [sending EXCEPT ![d] = "waiting"] /\ UNCHANGED delivery

----------------------------------------------------------------------------
(* Channels. *)

ChannelsOnly ==
    /\ settings < MaxSettings /\ settings' = settings + 1
    /\ UNCHANGED <<raised, sending, replies, waits, approvals, late, about, restarts>>
Switch(c) ==
    /\ channel[c] # "deleted" /\ ChannelsOnly
    /\ channel' = [channel EXCEPT ![c] = IF @ = "on" THEN "off" ELSE "on"]
    /\ UNCHANGED <<delivery, muted>>
DeleteChannel(c) ==
    /\ channel[c] # "deleted" /\ ChannelsOnly
    /\ channel' = [channel EXCEPT ![c] = "deleted"] /\ muted' = muted \ {c}
    /\ delivery' = [d \in DOMAIN delivery |-> IF d[2] = c THEN "none" ELSE delivery[d]]
MuteOrUnmute(c) ==
    /\ channel[c] # "deleted" /\ ChannelsOnly
    /\ muted' = (muted \ {c}) \cup ({c} \ muted) /\ UNCHANGED <<delivery, channel>>

----------------------------------------------------------------------------
(* Replies. *)

Options(n) ==
    CASE Kind[n] = "approval" -> {"approve", "deny"}
      [] Kind[n] = "cap" -> {}
      [] OTHER -> {"answer"}

\* A channel's reply names the message it answers, so one that comes before
\* the sending is recorded answers nothing.
Reply(r, n, by, option) ==
    /\ reply[r].status = "none" /\ (\A q \in 1..(r - 1) : reply[q].status # "none") /\ n \in raised
    /\ \/ by = App /\ option \in Options(n)
       \/ by # App /\ delivery[<<n, by>>] = "sent" /\ option \in Options(n) \cup {"mute"}
    /\ reply' = [reply EXCEPT ![r] = [note |-> n, by |-> by, option |-> option,
                                      status |-> "received", calling |-> FALSE]]
    /\ tasks' = tasks \cup {r}
    /\ willed' = IF option = "approve" THEN willed \cup {n} ELSE willed
    /\ UNCHANGED <<outbox, applying, took, waits, witnessed, spent, wrote, late, about, restarts, settings>>

Note(r) == reply[r].note
Settle(r, status) ==
    /\ reply' = [reply EXCEPT ![r].status = status]
    /\ applying' = Free
At(r, at) == applying' = [reply |-> r, at |-> at]
Answered(n) ==
    \E r \in Replies : reply[r].note = n /\ reply[r].status = "applied" /\ reply[r].option # "mute"

\* HomeApprovals.approve, before the instance hears of it.
Approves(n) ==
    witnessed' = IF n \in spent THEN witnessed ELSE [witnessed EXCEPT ![n] = "approved"]

ApplyMute(r) ==
    /\ reply[r].option = "mute" /\ UNCHANGED <<waits, witnessed>>
    /\ IF channel[reply[r].by] = "deleted" \/ reply[r].by \in muted
       THEN Settle(r, "stale") /\ UNCHANGED muted
       ELSE Settle(r, "applied") /\ muted' = muted \cup {reply[r].by}
\* Moving the run on and settling the reply are two transactions.
ApplyStop(r) ==
    /\ reply[r].option # "mute" /\ Kind[Note(r)] = "stop" /\ UNCHANGED <<muted, witnessed>>
    /\ IF Note(r) \in waits
       THEN waits' = waits \ {Note(r)} /\ At(r, "moved") /\ UNCHANGED reply
       ELSE Settle(r, "stale") /\ UNCHANGED waits
\* A mutant of ApplyAnswer that does not ask whether the notification is answered.
ApplyAnswerTwice(r) ==
    /\ reply[r].option # "mute" /\ Kind[Note(r)] # "stop" /\ UNCHANGED <<muted, waits>>
    /\ IF reply[r].calling THEN Settle(r, "failed") /\ UNCHANGED witnessed
       ELSE /\ reply' = [reply EXCEPT ![r].calling = TRUE] /\ At(r, "calling")
            /\ IF reply[r].option = "approve" THEN Approves(Note(r)) ELSE UNCHANGED witnessed

\* An answer may have landed once the reply is marked as calling.
ApplyAnswer(r) ==
    /\ reply[r].option # "mute" /\ Kind[Note(r)] # "stop" /\ UNCHANGED <<muted, waits>>
    /\ CASE Answered(Note(r)) -> Settle(r, "stale") /\ UNCHANGED witnessed
         [] ~Answered(Note(r)) /\ reply[r].calling -> Settle(r, "failed") /\ UNCHANGED witnessed
         [] OTHER ->
              /\ reply' = [reply EXCEPT ![r].calling = TRUE] /\ At(r, "calling")
              /\ IF reply[r].option = "approve" THEN Approves(Note(r)) ELSE UNCHANGED witnessed

Apply(r) ==
    /\ r \in tasks /\ applying = Free /\ tasks' = tasks \ {r}
    /\ ApplyMute(r) \/ ApplyStop(r) \/ ApplyAnswer(r)
    /\ UNCHANGED <<raised, delivery, channel, sending, took, spent, willed, wrote, late,
                   about, restarts, settings>>

CallsOnly == UNCHANGED <<outbox, tasks, willed, wrote, late, about, restarts, settings>>
Moved(r) ==
    /\ applying = [reply |-> r, at |-> "moved"] /\ Settle(r, "applied")
    /\ CallsOnly /\ UNCHANGED <<took, waits, witnessed, spent>>

\* The instance takes the call: a turn starts, or the approval is decided if
\* it still waits.
InstanceTakes(r) ==
    /\ applying = [reply |-> r, at |-> "calling"]
    /\ IF Kind[Note(r)] = "turn" \/ Note(r) \in waits
       THEN took' = [took EXCEPT ![r] = @ + 1] /\ At(r, "taken")
       ELSE At(r, "refused") /\ UNCHANGED took
    /\ waits' = waits \ {Note(r)}
    /\ CallsOnly /\ UNCHANGED <<reply, witnessed, spent>>

\* HomeApprovals.use
Uses(n) == witnessed' = [witnessed EXCEPT ![n] = "no"] /\ spent' = spent \cup {n}
AnswerComes(r) ==
    /\ applying.reply = r /\ CallsOnly /\ UNCHANGED <<took, waits>>
    /\ \/ applying.at = "taken" /\ Settle(r, "applied") /\ UNCHANGED <<witnessed, spent>>
       \/ applying.at = "refused" /\ Settle(r, "stale") /\ Uses(Note(r))
AnswerLost(r) ==
    /\ applying.reply = r /\ applying.at \in {"calling", "taken", "refused"}
    /\ Settle(r, "failed")
    /\ CallsOnly /\ UNCHANGED <<took, waits, witnessed, spent>>

\* The instance cannot take the call yet, or refuses it: the mark of the call
\* goes again.
Untaken(r, calling) ==
    /\ applying = [reply |-> r, at |-> "calling"] /\ applying' = Free
    /\ \E again \in BOOLEAN :
         /\ again => r \notin late
         /\ tasks' = IF again THEN tasks \cup {r} ELSE tasks
         /\ reply' = [reply EXCEPT ![r].calling = calling,
                                   ![r].status = IF again THEN @ ELSE "failed"]
    /\ UNCHANGED <<outbox, willed, wrote, late, about, restarts, settings, took, waits, witnessed, spent>>
CannotTake(r) == Untaken(r, FALSE)

----------------------------------------------------------------------------
(* What the hub sees of the home instance's approvals, and its writes. *)

ApprovalsOnly == UNCHANGED <<outbox, replies, late, about, restarts, settings>>

\* A client that subscribes sees each request again.
Seen(n) ==
    /\ n \notin spent /\ witnessed[n] = "no"
    /\ witnessed' = [witnessed EXCEPT ![n] = "seen"]
    /\ ApprovalsOnly /\ UNCHANGED <<waits, spent, willed, wrote>>
\* The user decides in the web app, through the relay, which passes the answer
\* on whether or not the approval still waits.
Decides(n, approve) ==
    /\ waits' = waits \ {n}
    /\ witnessed' = IF approve /\ witnessed[n] = "seen"
                    THEN [witnessed EXCEPT ![n] = "approved"] ELSE witnessed
    /\ willed' = IF approve THEN willed \cup {n} ELSE willed
    /\ ApprovalsOnly /\ UNCHANGED <<spent, wrote>>
\* The turn ends, or the run moves on otherwise, and the hub may see it.
NoLongerWaits(n) ==
    /\ waits' = waits \ {n}
    /\ \/ UNCHANGED witnessed
       \/ n \in Approvals /\ witnessed' = [witnessed EXCEPT ![n] = "no"]
    /\ ApprovalsOnly /\ UNCHANGED <<spent, willed, wrote>>
\* Hub.write_for_home: the approval is used before the write is made.
HomeWrites(n) ==
    /\ witnessed[n] = "approved" /\ Uses(n) /\ wrote' = [wrote EXCEPT ![n] = @ + 1]
    /\ ApprovalsOnly /\ UNCHANGED <<waits, willed>>

----------------------------------------------------------------------------
\* What was raised or received before is more than a day old from here on.
Aging == raised \cup {r \in Replies : reply[r].status = "received"}
DayPasses ==
    /\ ~(Aging \subseteq late) /\ late' = late \cup Aging
    /\ UNCHANGED <<outbox, replies, waits, approvals, about, restarts, settings>>

\* A mutant of Restart that applies only the replies it had not begun with.
RestartDropsCalling ==
    /\ restarts < MaxRestarts /\ restarts' = restarts + 1
    /\ sending' = [d \in DOMAIN sending |-> IF delivery[d] = "pending" THEN "waiting" ELSE "idle"]
    /\ tasks' = {r \in Replies : reply[r].status = "received" /\ ~reply[r].calling}
    /\ applying' = Free
    /\ witnessed' = [n \in Approvals |-> "no"] /\ spent' = {} /\ wrote' = [n \in Approvals |-> 0]
    /\ UNCHANGED <<raised, delivery, channel, muted, reply, waits, took, willed, late, about, settings>>

\* The hub stops, and its next process delivers and applies what is left.
Restart ==
    /\ restarts < MaxRestarts /\ restarts' = restarts + 1
    /\ sending' = [d \in DOMAIN sending |-> IF delivery[d] = "pending" THEN "waiting" ELSE "idle"]
    /\ tasks' = {r \in Replies : reply[r].status = "received"} /\ applying' = Free
    /\ witnessed' = [n \in Approvals |-> "no"] /\ spent' = {} /\ wrote' = [n \in Approvals |-> 0]
    /\ UNCHANGED <<raised, delivery, channel, muted, reply, waits, took, willed, late, about, settings>>

Delivers(d) == Due(d) \/ Sent(d) \/ SendFails(d)
Applies(r) ==
    Apply(r) \/ Moved(r) \/ InstanceTakes(r) \/ AnswerComes(r) \/ AnswerLost(r) \/ CannotTake(r)
Next ==
    \/ \E n \in Notes : Raise(n)
    \/ \E d \in Notes \X Channels : Delivers(d)
    \/ \E c \in Channels : Switch(c) \/ DeleteChannel(c) \/ MuteOrUnmute(c)
    \/ \E r \in Replies, n \in Notes, by \in Channels \cup {App} :
          \E option \in {"answer", "approve", "deny", "mute"} : Reply(r, n, by, option)
    \/ \E r \in Replies : Applies(r)
    \/ \E n \in Approvals \cap about :
          Seen(n) \/ HomeWrites(n) \/ \E approve \in BOOLEAN : Decides(n, approve)
    \/ \E n \in about : NoLongerWaits(n)
    \/ DayPasses
    \/ Restart
Spec == Init /\ [][Next]_deskVars

\* A task runs on until it ends, and time passes.
Fairness ==
    /\ \A d \in Notes \X Channels : WF_deskVars(Delivers(d))
    /\ \A r \in Replies : WF_deskVars(Applies(r))
    /\ WF_deskVars(DayPasses)
FairSpec == Spec /\ Fairness

----------------------------------------------------------------------------
\* Every variable keeps its type, and exactly the pending deliveries and the
\* replies still to apply have a task of this process of the hub.
DeskTypeOK ==
    /\ raised \subseteq Notes /\ waits \subseteq Notes /\ spent \cup willed \subseteq Approvals
    /\ \A d \in Notes \X Channels :
         /\ delivery[d] \in {"none", "pending", "muted", "sent", "failed"}
         /\ sending[d] \in {"idle", "waiting", "sending"}
         /\ delivery[d] = "pending" => sending[d] # "idle"
         /\ delivery[d] # "none" \/ sending[d] # "idle" => d[1] \in raised
    /\ \A r \in Replies :
         reply[r].status = "received" <=> r \in tasks \/ applying.reply = r

\* However many replies answer a notification, by whichever way and over
\* crashes of the hub, at most one of them is recorded as applied
\* (Replies._applied asks registry.answered under the lock).
OneAnswer ==
    \A n \in Notes :
        Cardinality({r \in Replies : /\ reply[r].note = n /\ reply[r].status = "applied"
                                     /\ reply[r].option # "mute"}) <= 1

\* The instance takes the answer of a reply once at most: a reply that was
\* calling when the hub stopped may have landed, and is not called again
\* (Registry.reply_calling).
AskedOnce == \A r \in Replies : took[r] <= 1

\* A process of the hub makes at most one write for an approval, and only for
\* one that the user approved in the app or by a channel
\* (HomeApprovals.approve, approved and use).
WrittenOnce == \A n \in Approvals : wrote[n] <= 1 /\ (wrote[n] = 1 => n \in willed)

\* The desk's state is in order: the types, and the one answer, call and write
\* of a notification that several channels, the app and a crash may race for.
DeskInv == DeskTypeOK /\ OneAnswer /\ AskedOnce /\ WrittenOnce

\* The desk comes to rest again and again: every delivery ends as sent or failed,
\* or its channel goes, and every reply is settled, also one the hub was applying
\* when it stopped.
DeskSettles ==
    []<>( /\ \A d \in Notes \X Channels : delivery[d] # "pending"
          /\ \A r \in Replies : reply[r].status # "received" )
=============================================================================
