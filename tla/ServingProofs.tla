--------------------------- MODULE ServingProofs ---------------------------
(***************************************************************************)
(* Theorems about what the hub serves, for every set of notifications,     *)
(* channels and pages and every bound: the desk is in order (Desk), the    *)
(* browser service stays while a browser is lent (Browsers), a reader is   *)
(* given the events of its thread, once and in order (Transcript), and a   *)
(* channel is paired once and set up as the user wants (Pairing).          *)
(***************************************************************************)
EXTENDS MCServing, FiniteSetTheorems, SequenceTheorems, TLAPS

(***************************************************************************)
(* The desk.  What ties an answer to its reply is the lock under which     *)
(* replies are applied, and the mark of the call that survives a crash.    *)
(***************************************************************************)
Kinds == {"turn", "approval", "stop", "cap"}
ReplyRecord == [note : Notes \cup {NoReply}, by : Channels \cup {App},
                option : {"none", "answer", "approve", "deny", "mute"},
                status : {"none", "received", "applied", "stale", "failed"}, calling : BOOLEAN]

DeskTypes ==
    /\ raised \in SUBSET Notes /\ muted \in SUBSET Channels
    /\ delivery \in [Notes \X Channels -> {"none", "pending", "muted", "sent", "failed"}]
    /\ sending \in [Notes \X Channels -> {"idle", "waiting", "sending"}]
    /\ channel \in [Channels -> {"on", "off", "deleted"}]
    /\ reply \in [Replies -> ReplyRecord] /\ tasks \in SUBSET Replies
    /\ applying \in [reply : Replies \cup {NoReply}, at : {"none", "moved", "calling", "taken", "refused"}]
    /\ waits \in SUBSET Notes /\ took \in [Replies -> Nat]
    /\ witnessed \in [Approvals -> {"no", "seen", "approved"}]
    /\ spent \in SUBSET Approvals /\ willed \in SUBSET Approvals /\ wrote \in [Approvals -> Nat]
    /\ about \in SUBSET Notes /\ restarts \in Nat /\ settings \in Nat

\* A pending delivery has a task, only what was raised is delivered, and a
\* deleted channel has no deliveries.
Delivering ==
    \A d \in Notes \X Channels :
        /\ delivery[d] = "pending" => sending[d] # "idle"
        /\ delivery[d] # "none" \/ sending[d] # "idle" => d[1] \in raised
        /\ channel[d[2]] = "deleted" => delivery[d] = "none"

\* A reply answers a notification with one of its options, and one that approves
\* shows what the user wanted.
Received(r) == reply[r].status # "none"
WellFormed ==
    \A r \in Replies : Received(r) =>
        /\ Note(r) \in Notes
        /\ reply[r].option = "mute" \/ reply[r].option \in Options(Note(r))
        /\ reply[r].option = "mute" => reply[r].by \in Channels
        /\ reply[r].option = "approve" => Note(r) \in willed

\* What is still to be applied has a task or the lock, not both.
Queued ==
    \A r \in Replies : /\ reply[r].status = "received" <=> r \in tasks \/ applying.reply = r
                       /\ applying.reply = r => r \notin tasks

\* The reply that holds the lock answers what nothing answered yet, a stop that it
\* moved on no longer waits, and a call is under way only with its mark made.
Locked ==
    /\ applying.reply = NoReply <=> applying.at = "none"
    /\ \A r \in Replies : applying.reply = r =>
         /\ reply[r].option # "mute" /\ ~Answered(Note(r))
         /\ IF applying.at = "moved" THEN Kind[Note(r)] = "stop" /\ Note(r) \notin waits
                                     ELSE Kind[Note(r)] # "stop" /\ reply[r].calling
         /\ applying.at = "refused" => Kind[Note(r)] # "turn"
AnsweredStops == \A n \in Notes : Kind[n] = "stop" /\ Answered(n) => n \notin waits

\* No two replies are applied as the answer of one notification.
Applied(r) == reply[r].status = "applied" /\ reply[r].option # "mute"
Alone == \A r, q \in Replies : Applied(r) /\ Applied(q) /\ Note(r) = Note(q) => r = q

\* What an instance took, it took once, with the mark of the call made.
Marked ==
    \A r \in Replies :
        /\ took[r] <= 1
        /\ took[r] = 1 => Received(r) /\ reply[r].calling
        /\ applying = [reply |-> r, at |-> "calling"] => took[r] = 0

\* A write uses its approval up, and what the hub takes for approved was.
Used ==
    \A n \in Approvals :
        /\ wrote[n] <= 1 /\ (wrote[n] = 1 => n \in spent)
        /\ n \in spent => witnessed[n] = "no"
        /\ witnessed[n] = "approved" \/ wrote[n] = 1 => n \in willed

DeskIInv ==
    /\ DeskTypes /\ Delivering /\ WellFormed /\ Queued /\ Locked /\ AnsweredStops
    /\ Alone /\ Marked /\ Used

-----------------------------------------------------------------------------
USE DEF Replies

LEMMA DeskConstants == NoReply \notin Replies /\ \A n \in Notes : Kind[n] \in Kinds
  BY DeskAssumption DEF Kinds

LEMMA DeskStarts == Init => DeskIInv
  BY DeskAssumption DEF Init, DeskIInv, DeskTypes, Approvals, NoAnswer, Free, ReplyRecord, Delivering, WellFormed, Received,
         Queued, Locked, AnsweredStops, Answered, Alone, Applied, Marked, Used, Kinds

\* Deliveries, channels and the clock leave replies and approvals alone.
LEMMA RepliesUntouched ==
  ASSUME DeskIInv, UNCHANGED <<reply, tasks, applying, took, waits, approvals>>
  PROVE  (WellFormed /\ Queued /\ Locked /\ AnsweredStops /\ Alone /\ Marked /\ Used)'
  BY DEF DeskIInv, approvals, WellFormed, Received, Queued, Locked, AnsweredStops, Answered, Alone, Applied,
         Marked, Used, Note, Options

LEMMA RaiseKeeps ==
  ASSUME DeskIInv, NEW n \in Notes, Raise(n) PROVE DeskIInv'
  <1> USE DEF DeskIInv
  <1>1. PICK m \in Notes : Record(m)
    BY DEF Raise, RefusedToday
  <1>2. DeskTypes' /\ Delivering'
    BY <1>1 DEF Raise, Record, DeskTypes, Delivering, replies, approvals
  <1>3. QED
    BY <1>2, RepliesUntouched DEF Raise, replies, approvals

LEMMA DeliveryKeeps ==
  ASSUME DeskIInv, NEW d \in Notes \X Channels, Delivers(d) PROVE DeskIInv'
  <1> USE DEF DeskIInv, OutboxOnly
  <1> DEFINE Task(task) == sending' = [sending EXCEPT ![d] = task]
             Goes(status) == delivery[d] # "none" /\ delivery' = [delivery EXCEPT ![d] = status]
  <1>1. /\ sending[d] # "idle" /\ OutboxOnly
        /\ \/ UNCHANGED delivery /\ delivery[d] # "pending" /\ Task("idle")
           \/ UNCHANGED delivery /\ \E task \in {"waiting", "sending"} : Task(task)
           \/ Task("idle") /\ \E status \in {"sent", "failed"} : Goes(status)
    <2>1. channel[d[2]] \in {"on", "off", "deleted"} /\ (channel[d[2]] = "deleted" => delivery[d] # "pending")
      BY DEF DeskTypes, Delivering
    <2>2. CASE Due(d)
      BY <2>1, <2>2 DEF Due, EndsDelivery, DeskTypes
    <2>3. CASE Sent(d) \/ SendFails(d)
      BY <2>3 DEF Sent, SendFails, EndsDelivery, DeskTypes
    <2>4. QED
      BY <2>2, <2>3 DEF Delivers
  <1>2. /\ delivery' \in [Notes \X Channels -> {"none", "pending", "muted", "sent", "failed"}]
        /\ sending' \in [Notes \X Channels -> {"idle", "waiting", "sending"}]
    <2>1. PICK task \in {"idle", "waiting", "sending"} : Task(task)
      BY <1>1
    <2>2. sending' \in [Notes \X Channels -> {"idle", "waiting", "sending"}]
      BY <2>1 DEF DeskTypes
    <2>3. delivery' \in [Notes \X Channels -> {"none", "pending", "muted", "sent", "failed"}]
      BY <1>1 DEF DeskTypes
    <2>4. QED
      BY <2>2, <2>3
  <1>3. DeskTypes'
    BY <1>1, <1>2 DEF DeskTypes, replies, approvals
  <1>4. ASSUME NEW e \in Notes \X Channels, e # d
        PROVE  delivery'[e] = delivery[e] /\ sending'[e] = sending[e]
    BY <1>1, <1>4 DEF DeskTypes
  <1>5. /\ delivery'[d] = "pending" => sending'[d] # "idle"
        /\ delivery'[d] # "none" => delivery[d] # "none"
    BY <1>1 DEF DeskTypes
  <1>6. Delivering'
    BY <1>1, <1>4, <1>5 DEF Delivering
  <1>7. QED
    BY <1>1, <1>3, <1>6, RepliesUntouched DEF replies, approvals

LEMMA ChannelKeeps ==
  ASSUME DeskIInv, NEW c \in Channels, Switch(c) \/ DeleteChannel(c) \/ MuteOrUnmute(c) PROVE DeskIInv'
  <1> USE DEF DeskIInv, ChannelsOnly
  <1>1. /\ channel' \in [Channels -> {"on", "off", "deleted"}] /\ muted' \in SUBSET Channels
        /\ delivery' \in [Notes \X Channels -> {"none", "pending", "muted", "sent", "failed"}]
        /\ settings' = settings + 1
        /\ UNCHANGED <<raised, sending, replies, waits, approvals, late, about, restarts>>
    BY SMTT(40) DEF Switch, DeleteChannel, MuteOrUnmute, DeskTypes
  <1>4. DeskTypes'
    BY <1>1 DEF DeskTypes, replies, approvals
  <1>2. Delivering'
    BY DEF Switch, DeleteChannel, MuteOrUnmute, DeskTypes, Delivering
  <1>3. QED
    BY <1>4, <1>2, RepliesUntouched DEF Switch, DeleteChannel, MuteOrUnmute, replies, approvals

LEMMA ReplyKeeps ==
  ASSUME DeskIInv, NEW r \in Replies, NEW n \in Notes, NEW by \in Channels \cup {App},
         NEW option \in {"answer", "approve", "deny", "mute"}, Reply(r, n, by, option)
  PROVE  DeskIInv'
  <1> USE DEF DeskIInv
  <1>1. /\ reply[r].status = "none" /\ n \in raised /\ (option = "mute" \/ option \in Options(n))
        /\ reply' = [reply EXCEPT ![r] = [note |-> n, by |-> by, option |-> option,
                                         status |-> "received", calling |-> FALSE]]
        /\ tasks' = tasks \cup {r}
        /\ willed' = IF option = "approve" THEN willed \cup {n} ELSE willed
        /\ UNCHANGED <<outbox, applying, took, waits, witnessed, spent, wrote, late, about, restarts, settings>>
    BY DEF Reply
  <1>2. option = "approve" => n \in Approvals
    BY <1>1 DEF Options, Approvals
  <1>3. DeskTypes'
    BY <1>1, <1>2 DEF DeskTypes, outbox, ReplyRecord
  <1>4. Delivering'
    BY <1>1 DEF Delivering, outbox
  <1>5. \A q \in Replies : q # r => reply'[q] = reply[q]
    BY <1>1 DEF DeskTypes
  <1>6. /\ reply'[r].note = n /\ reply'[r].option = option /\ reply'[r].status = "received"
        /\ option = "mute" => by \in Channels
        /\ willed \subseteq willed'
    BY <1>1 DEF DeskTypes, Reply, Options
  <1>7. WellFormed'
    BY <1>1, <1>5, <1>6 DEF WellFormed, Received, Note, Options, DeskTypes
  <1>8. applying.reply # r
    BY <1>1 DEF Queued
  <1>9. Queued'
    BY <1>1, <1>5, <1>6, <1>8 DEF Queued
  <1>10. \A m \in Notes \cup {NoReply} : Answered(m)' <=> Answered(m)
    BY <1>1, <1>5, <1>6 DEF Answered
  <1>11. Locked'
    BY <1>1, <1>5, <1>8, <1>10 DEF Locked, Note, DeskTypes, ReplyRecord
  <1>12. AnsweredStops' /\ Alone'
    BY <1>1, <1>5, <1>6, <1>10 DEF AnsweredStops, Alone, Applied, Note
  <1>13. Marked'
    BY <1>1, <1>5, <1>6 DEF Marked, Received
  <1>14. Used'
    BY <1>1, <1>6 DEF Used
  <1>15. QED
    BY <1>3, <1>4, <1>7, <1>9, <1>11, <1>12, <1>13, <1>14

\* Settling the reply that has or takes the lock: with an answer only where there is none yet.
LEMMA SettleKeeps ==
  ASSUME DeskIInv, NEW r \in Replies, NEW status \in {"applied", "stale", "failed"}, Settle(r, status),
         applying.reply = r \/ (applying = Free /\ r \in tasks), tasks' = tasks \ {r},
         UNCHANGED <<waits, took, willed, wrote>>,
         status = "applied" => \/ reply[r].option = "mute"
                               \/ applying = [reply |-> r, at |-> "moved"]
                               \/ applying = [reply |-> r, at |-> "taken"]
  PROVE  /\ reply' \in [Replies -> ReplyRecord] /\ applying' = Free
         /\ (WellFormed /\ Queued /\ Locked /\ AnsweredStops /\ Alone /\ Marked)'
  <1> USE DEF DeskIInv, Settle
  <1>1. /\ reply' = [reply EXCEPT ![r].status = status] /\ reply \in [Replies -> ReplyRecord]
        /\ applying' = Free /\ NoReply \notin Replies
    BY DeskConstants DEF DeskTypes
  <1>2. \A q \in Replies : /\ reply'[q] = IF q = r THEN [reply[r] EXCEPT !.status = status] ELSE reply[q]
                           /\ reply'[q].note = reply[q].note /\ reply'[q].option = reply[q].option
                           /\ reply'[q].calling = reply[q].calling /\ reply'[q].by = reply[q].by
                           /\ reply'[q].status = IF q = r THEN status ELSE reply[q].status
    BY <1>1 DEF ReplyRecord
  <1>3. reply' \in [Replies -> ReplyRecord]
    BY <1>1 DEF ReplyRecord
  <1>4. reply[r].status = "received"
    BY DEF Queued
  <1>5. WellFormed'
    BY <1>2, <1>4 DEF WellFormed, Received, Note, Options
  <1>6. Queued'
    BY <1>1, <1>2 DEF Queued, Free
  <1>7. Locked'
    BY <1>1 DEF Locked, Free
  <1>8. status = "applied" /\ reply[r].option # "mute" =>
          /\ \A q \in Replies : Applied(q) => Note(q) # Note(r)
          /\ Kind[Note(r)] = "stop" => Note(r) \notin waits
    BY DEF Locked, Answered, Applied, Note
  <1>9. \A q \in Replies : Applied(q)' => Applied(q) \/ (q = r /\ status = "applied" /\ reply[r].option # "mute")
    BY <1>2 DEF Applied
  <1>10. Alone'
    BY <1>2, <1>8, <1>9 DEF Alone, Note
  <1>11. AnsweredStops'
    BY <1>2, <1>8, <1>9 DEF AnsweredStops, Answered, Note, Applied
  <1>12. Marked'
    BY <1>1, <1>2, <1>4 DEF Marked, Received, Free
  <1>13. QED
    BY <1>1, <1>3, <1>5, <1>6, <1>7, <1>10, <1>11, <1>12

LEMMA ApplyKeeps ==
  ASSUME DeskIInv, NEW r \in Replies, Apply(r) PROVE DeskIInv'
  <1> USE DEF DeskIInv
  <1>1. /\ r \in tasks /\ applying = Free /\ tasks' = tasks \ {r} /\ reply[r].status = "received"
        /\ UNCHANGED <<raised, delivery, channel, sending, took, spent, willed, wrote, late,
                      about, restarts, settings>>
        /\ Note(r) \in Notes /\ (reply[r].option = "mute" \/ reply[r].option \in Options(Note(r)))
    BY DEF Apply, Queued, WellFormed, Received
  <1>2. Delivering'
    BY <1>1 DEF Delivering
  <1>3. CASE ApplyMute(r)
    <2>1. PICK status \in {"applied", "stale", "failed"} : Settle(r, status)
      BY <1>3 DEF ApplyMute
    <2>2. /\ reply' \in [Replies -> ReplyRecord] /\ applying' = Free
          /\ (WellFormed /\ Queued /\ Locked /\ AnsweredStops /\ Alone /\ Marked)'
      BY <1>1, <1>3, <2>1, SettleKeeps DEF ApplyMute
    <2>3. muted' \in SUBSET Channels
      BY <1>3, <1>1 DEF ApplyMute, DeskTypes, WellFormed, Received
    <2>4. DeskTypes' /\ Used'
      BY <1>1, <1>3, <2>2, <2>3 DEF ApplyMute, DeskTypes, Used, Free
    <2>5. QED
      BY <1>2, <2>2, <2>4
  <1>4. CASE ApplyStop(r) /\ Note(r) \in waits
    <2>1. /\ applying' = [reply |-> r, at |-> "moved"] /\ waits' = waits \ {Note(r)}
          /\ reply[r].option # "mute" /\ Kind[Note(r)] = "stop"
          /\ UNCHANGED <<reply, muted, witnessed>>
      BY <1>4 DEF ApplyStop, At
    <2>2. DeskTypes' /\ Used' /\ WellFormed' /\ Alone'
      BY <1>1, <2>1 DEF DeskTypes, Used, WellFormed, Received, Note, Options, Alone, Applied
    <2>3. Queued' /\ Marked' /\ AnsweredStops'
      BY <1>1, <2>1, DeskConstants, SMTT(40) DEF Queued, Free, Marked, Received, AnsweredStops, Answered, DeskTypes
    <2>4. ~Answered(Note(r))
      BY <1>1, <1>4, <2>1 DEF AnsweredStops
    <2>5. Locked'
      BY <1>1, <2>1, <2>4, DeskConstants DEF Locked, Answered, Note, DeskTypes
    <2>6. QED
      BY <1>2, <2>2, <2>3, <2>5
  <1>5. CASE ApplyStop(r) /\ Note(r) \notin waits
    <2>1. Settle(r, "stale") /\ UNCHANGED <<waits, muted, witnessed>>
      BY <1>5 DEF ApplyStop
    <2>2. /\ reply' \in [Replies -> ReplyRecord] /\ applying' = Free
          /\ (WellFormed /\ Queued /\ Locked /\ AnsweredStops /\ Alone /\ Marked)'
      BY <1>1, <2>1, SettleKeeps
    <2>3. DeskTypes' /\ Used'
      BY <1>1, <2>1, <2>2 DEF DeskTypes, Used, Free
    <2>4. QED
      BY <1>2, <2>2, <2>3
  <1>6. CASE ApplyAnswer(r) /\ (Answered(Note(r)) \/ reply[r].calling)
    <2>1. /\ \E status \in {"stale", "failed"} : Settle(r, status)
          /\ UNCHANGED <<waits, muted, witnessed>>
      BY <1>6 DEF ApplyAnswer
    <2>2. PICK status \in {"stale", "failed"} : Settle(r, status)
      BY <2>1
    <2>3. /\ reply' \in [Replies -> ReplyRecord] /\ applying' = Free
          /\ (WellFormed /\ Queued /\ Locked /\ AnsweredStops /\ Alone /\ Marked)'
      BY <1>1, <2>1, <2>2, SettleKeeps
    <2>4. DeskTypes' /\ Used'
      BY <1>1, <2>1, <2>3 DEF DeskTypes, Used, Free
    <2>5. QED
      BY <1>2, <2>3, <2>4
  <1>7. CASE ApplyAnswer(r) /\ ~Answered(Note(r)) /\ ~reply[r].calling
    <2>1. /\ reply' = [reply EXCEPT ![r].calling = TRUE] /\ applying' = [reply |-> r, at |-> "calling"]
          /\ reply[r].option # "mute" /\ Kind[Note(r)] # "stop" /\ UNCHANGED <<muted, waits>>
          /\ IF reply[r].option = "approve" THEN Approves(Note(r)) ELSE UNCHANGED witnessed
      BY <1>7 DEF ApplyAnswer, At
    <2>0. reply \in [Replies -> ReplyRecord] /\ reply' = [reply EXCEPT ![r].calling = TRUE]
      BY <2>1 DEF DeskTypes
    <2>2. reply' \in [Replies -> ReplyRecord]
      BY <2>0 DEF ReplyRecord
    <2>3. \A q \in Replies : /\ reply'[q].note = reply[q].note /\ reply'[q].option = reply[q].option
                             /\ reply'[q].status = reply[q].status /\ reply'[q].by = reply[q].by
                             /\ IF q = r THEN reply'[q].calling ELSE reply'[q].calling = reply[q].calling
      BY <2>0 DEF ReplyRecord
    <2>4. reply[r].option = "approve" => Note(r) \in Approvals /\ Note(r) \in willed
      BY <1>1 DEF Options, Approvals, WellFormed, Received
    <2>5. DeskTypes' /\ Used'
      BY <1>1, <2>1, <2>2, <2>4 DEF DeskTypes, Used, Approves
    <2>6. WellFormed' /\ AnsweredStops' /\ Alone'
      BY <1>1, <2>1, <2>3 DEF WellFormed, Received, Note, Options, AnsweredStops, Answered, Alone, Applied
    <2>7. Queued'
      BY <1>1, <2>1, <2>3, DeskConstants DEF Queued, Free
    <2>8. Locked'
      BY <1>1, <1>7, <2>1, <2>3, DeskConstants DEF Locked, Answered, Note
    <2>9. took[r] = 0
      BY <1>7 DEF Marked, DeskTypes
    <2>10. \A q \in Replies : applying' = [reply |-> q, at |-> "calling"] => q = r
      BY <2>1
    <2>11. Marked'
      BY <1>1, <2>3, <2>9, <2>10 DEF Marked, Received
    <2>12. QED
      BY <1>2, <2>5, <2>6, <2>7, <2>8, <2>11
  <1>8. QED
    BY <1>3, <1>4, <1>5, <1>6, <1>7 DEF Apply

LEMMA SettledKeeps ==
  ASSUME DeskIInv, NEW r \in Replies, Moved(r) \/ AnswerComes(r) \/ AnswerLost(r) PROVE DeskIInv'
  <1> USE DEF DeskIInv
  <1>1. /\ applying.reply = r /\ CallsOnly /\ UNCHANGED <<took, waits>>
        /\ \/ /\ Settle(r, "applied") /\ UNCHANGED <<witnessed, spent>>
              /\ applying = [reply |-> r, at |-> "moved"] \/ applying = [reply |-> r, at |-> "taken"]
           \/ applying.at = "refused" /\ Settle(r, "stale") /\ Uses(Note(r))
           \/ Settle(r, "failed") /\ UNCHANGED <<witnessed, spent>>
    BY DEF Moved, AnswerComes, AnswerLost, DeskTypes
  <1>2. PICK status \in {"applied", "stale", "failed"} :
          /\ Settle(r, status)
          /\ status = "applied" => \/ applying = [reply |-> r, at |-> "moved"]
                                  \/ applying = [reply |-> r, at |-> "taken"]
    BY <1>1
  <1>3. tasks' = tasks \ {r}
    BY <1>1 DEF CallsOnly, Queued
  <1>4. /\ reply' \in [Replies -> ReplyRecord] /\ applying' = Free
        /\ (WellFormed /\ Queued /\ Locked /\ AnsweredStops /\ Alone /\ Marked)'
    BY <1>1, <1>2, <1>3, SettleKeeps DEF CallsOnly
  <1>5. applying.at = "refused" => Note(r) \in Approvals
    BY <1>1, DeskConstants DEF Locked, Queued, WellFormed, Received, Options, Approvals, Kinds
  <1>6. DeskTypes' /\ Used'
    BY <1>1, <1>4, <1>5 DEF DeskTypes, Used, Uses, CallsOnly, outbox, Free
  <1>7. Delivering'
    BY <1>1 DEF Delivering, CallsOnly, outbox
  <1>8. QED
    BY <1>4, <1>6, <1>7

LEMMA InstanceTakesKeeps ==
  ASSUME DeskIInv, NEW r \in Replies, InstanceTakes(r) PROVE DeskIInv'
  <1> USE DEF DeskIInv
  <1>1. /\ applying = [reply |-> r, at |-> "calling"] /\ waits' = waits \ {Note(r)}
        /\ UNCHANGED <<outbox, tasks, willed, wrote, late, about, restarts, settings, reply, witnessed, spent>>
        /\ \/ took' = [took EXCEPT ![r] = @ + 1] /\ applying' = [reply |-> r, at |-> "taken"]
           \/ /\ applying' = [reply |-> r, at |-> "refused"] /\ UNCHANGED took
              /\ Kind[Note(r)] # "turn"
    BY DEF InstanceTakes, At, CallsOnly
  <1>2. took[r] = 0 /\ Received(r) /\ reply[r].calling /\ applying.reply = r /\ applying.at = "calling"
    BY <1>1 DEF Marked, Locked, Queued, Received
  <1>3. DeskTypes' /\ Used' /\ Delivering' /\ WellFormed' /\ Alone' /\ AnsweredStops'
    <2>1. DeskTypes' /\ Used' /\ Delivering'
      BY SMTT(30), <1>1 DEF DeskTypes, Used, Delivering, outbox
    <2>2. WellFormed' /\ Alone' /\ AnsweredStops'
      BY <1>1 DEF WellFormed, Received, Note, Options, Alone, Applied, AnsweredStops, Answered
    <2>3. QED
      BY <2>1, <2>2
  <1>4. Queued' /\ Locked'
    BY <1>1, <1>2 DEF Queued, Locked, Answered, Note, DeskTypes
  <1>5. took' = [took EXCEPT ![r] = 1] \/ UNCHANGED took
    BY <1>1, <1>2
  <1>6. \A q \in Replies : applying' # [reply |-> q, at |-> "calling"]
    BY <1>1
  <1>9. took \in [Replies -> Nat] /\ UNCHANGED reply
    BY <1>1 DEF DeskTypes
  <1>10. \A q \in Replies : took'[q] = IF q = r THEN took'[r] ELSE took[q]
    BY <1>5, <1>9
  <1>11. took'[r] \in {0, 1}
    BY <1>2, <1>5, <1>9
  <1>7. Marked'
    BY <1>2, <1>6, <1>9, <1>10, <1>11 DEF Marked, Received
  <1>8. QED
    BY <1>3, <1>4, <1>7

LEMMA CannotTakeKeeps ==
  ASSUME DeskIInv, NEW r \in Replies, CannotTake(r) PROVE DeskIInv'
  <1> USE DEF DeskIInv
  <1>1. PICK again \in BOOLEAN :
          /\ applying = [reply |-> r, at |-> "calling"] /\ applying' = Free
          /\ tasks' = IF again THEN tasks \cup {r} ELSE tasks
          /\ reply' = [reply EXCEPT ![r].calling = FALSE,
                                   ![r].status = IF again THEN @ ELSE "failed"]
          /\ UNCHANGED <<outbox, willed, wrote, late, about, restarts, settings, took, waits, witnessed, spent>>
    BY DEF CannotTake, Untaken
  <1>2. took[r] = 0 /\ reply[r].status = "received" /\ NoReply \notin Replies
    BY <1>1, DeskConstants DEF Marked, Queued
  <1>0. reply \in [Replies -> ReplyRecord]
    BY DEF DeskTypes
  <1>3. reply' \in [Replies -> ReplyRecord]
    <2> DEFINE untaken == [reply[r] EXCEPT !.calling = FALSE, !.status = IF again THEN @ ELSE "failed"]
    <2>1. reply' = [reply EXCEPT ![r] = untaken]
      BY <1>0, <1>1 DEF ReplyRecord
    <2>2. untaken \in ReplyRecord
      BY <1>0 DEF ReplyRecord
    <2>3. QED
      BY <1>0, <2>1, <2>2
  <1>4. \A q \in Replies : /\ reply'[q].note = reply[q].note /\ reply'[q].option = reply[q].option
                           /\ reply'[q].by = reply[q].by
                           /\ q # r => reply'[q].calling = reply[q].calling
                           /\ reply'[q].status = IF q = r /\ ~again THEN "failed" ELSE reply[q].status
    BY <1>0, <1>1 DEF ReplyRecord
  <1>5. DeskTypes' /\ Used' /\ Delivering'
    BY <1>1, <1>3 DEF DeskTypes, Used, Delivering, outbox, Free
  <1>10. UNCHANGED <<took, waits, willed, raised>> /\ tasks' = (IF again THEN tasks \cup {r} ELSE tasks)
         /\ applying.reply = r /\ applying' = Free /\ Free.reply = NoReply /\ Free.at = "none"
    BY <1>1 DEF outbox, Free
  <1>6. WellFormed' /\ Alone' /\ AnsweredStops'
    BY <1>2, <1>4, <1>10 DEF WellFormed, Received, Note, Options, Alone, Applied, AnsweredStops, Answered
  <1>7. Queued' /\ Locked'
    BY <1>2, <1>4, <1>10 DEF Queued, Locked
  <1>11. \A q \in Replies : applying' # [reply |-> q, at |-> "calling"]
    BY <1>1, <1>2 DEF Free
  <1>8. Marked'
    BY <1>2, <1>4, <1>10, <1>11 DEF Marked, Received
  <1>9. QED
    BY <1>5, <1>6, <1>7, <1>8

\* What the hub sees of approvals, and its writes.
LEMMA ApprovalKeeps ==
  ASSUME DeskIInv, ApprovalsOnly, NEW n \in about,
         \/ n \in Approvals /\ (Seen(n) \/ HomeWrites(n) \/ \E approve \in BOOLEAN : Decides(n, approve))
         \/ NoLongerWaits(n)
  PROVE  DeskIInv'
  <1> USE DEF DeskIInv
  <1>1. waits' \subseteq waits /\ willed \subseteq willed' /\ UNCHANGED <<outbox, replies, late, about, restarts, settings>>
    BY DEF ApprovalsOnly, Seen, HomeWrites, Decides, NoLongerWaits
  <1>2. DeskTypes' /\ Used'
    BY <1>1 DEF DeskTypes, Used, Seen, HomeWrites, Uses, Decides, NoLongerWaits, outbox, replies
  <1>3. QED
    BY <1>1, <1>2 DEF Delivering, WellFormed, Received, Note, Options, Queued, Locked, Answered, AnsweredStops, Alone,
                      Applied, Marked, outbox, replies, DeskTypes

LEMMA RestartKeeps ==
  ASSUME DeskIInv, Restart PROVE DeskIInv'
  <1> USE DEF DeskIInv, Restart
  <1>1. DeskTypes'
    BY DEF DeskTypes, Free
  <1>2. Delivering'
    BY DEF Delivering, DeskTypes
  <1>3. WellFormed' /\ AnsweredStops' /\ Alone' /\ Used'
    BY DEF WellFormed, Received, Note, Options, AnsweredStops, Answered, Alone, Applied, Used
  <1>4. Queued' /\ Locked' /\ Marked'
    BY DeskConstants DEF Queued, Locked, Marked, Received, Free
  <1>5. QED
    BY <1>1, <1>2, <1>3, <1>4

LEMMA DeskStep == DeskIInv /\ [Next]_deskVars => DeskIInv'
  <1> SUFFICES ASSUME DeskIInv, [Next]_deskVars PROVE DeskIInv'
    OBVIOUS
  <1>1. CASE DayPasses \/ UNCHANGED deskVars
    <2>1. UNCHANGED <<outbox, reply, tasks, applying, took, waits, approvals, about, restarts, settings>>
      BY <1>1 DEF DayPasses, deskVars, replies
    <2>2. DeskTypes' /\ Delivering'
      BY <2>1 DEF DeskIInv, DeskTypes, Delivering, outbox, approvals
    <2>3. QED
      BY <2>1, <2>2, RepliesUntouched DEF DeskIInv
  <1>2. CASE \E r \in Replies : Applies(r)
    BY <1>2, ApplyKeeps, SettledKeeps, InstanceTakesKeeps, CannotTakeKeeps DEF Applies
  <1>3. CASE \E n \in Approvals \cap about :
               Seen(n) \/ HomeWrites(n) \/ \E approve \in BOOLEAN : Decides(n, approve)
    BY <1>3, ApprovalKeeps DEF Seen, HomeWrites, Decides
  <1>4. CASE \E n \in about : NoLongerWaits(n)
    BY <1>4, ApprovalKeeps DEF NoLongerWaits
  <1>5. QED
    BY <1>1, <1>2, <1>3, <1>4, RaiseKeeps, DeliveryKeeps, ChannelKeeps, ReplyKeeps, RestartKeeps DEF Next

\* Of a set whose members are all the same, there is one at most.
LEMMA AtMostOne ==
  ASSUME NEW S, \A x, y \in S : x = y PROVE Cardinality(S) <= 1
  <1>1. CASE S = {}
    BY <1>1, FS_EmptySet
  <1>2. CASE S # {}
    <2>1. PICK x : S = {x}
      BY <1>2
    <2>2. QED
      BY <2>1, FS_Singleton
  <1>3. QED
    BY <1>1, <1>2

LEMMA DeskInOrder == DeskIInv => DeskInv
  <1> SUFFICES ASSUME DeskIInv PROVE DeskInv
    OBVIOUS
  <1> USE DEF DeskIInv
  <1>1. DeskTypeOK
    BY DEF DeskTypeOK, DeskTypes, Delivering, Queued
  <1>2. OneAnswer
    <2> SUFFICES ASSUME NEW n \in Notes
                 PROVE  Cardinality({r \in Replies : /\ reply[r].note = n /\ reply[r].status = "applied"
                                                     /\ reply[r].option # "mute"}) <= 1
      BY DEF OneAnswer
    <2>1. QED
      BY AtMostOne DEF Alone, Applied, Note
  <1>3. AskedOnce /\ WrittenOnce
    BY DEF AskedOnce, Marked, WrittenOnce, Used
  <1>4. QED
    BY <1>1, <1>2, <1>3 DEF DeskInv

\* A notification takes one answer, an instance is asked once with each reply, and an approval
\* is used for one write, over every race of channels, the app and crashes of the hub.
THEOREM DeskSafe == Spec => []DeskInv
  BY DeskStarts, DeskStep, DeskInOrder, PTL DEF Spec

-----------------------------------------------------------------------------
(***************************************************************************)
(* The browsers.  A browser that is lent is past its wait for one, and     *)
(* goes on to connect only to a service that runs.                         *)
(***************************************************************************)
Phases == {"waiting", "lending", "starting", "connecting", "closing", "done"}
CallRecord == [page : Pages, kind : {"open", "close"}, lock : Nat, phase : Phases, browser : Nat]

BrowsersIInv ==
    /\ calls \in Seq(CallRecord) /\ lent \subseteq DOMAIN calls
    /\ turnLock \in [Pages -> Nat] /\ opened \in [Pages -> Nat]
    /\ \A b \in lent : /\ calls[b].phase \notin {"waiting", "lending"}
                       /\ service = "off" \/ ~address => calls[b].phase = "starting"

LEMMA BrowsersStart == B!Init => BrowsersIInv
  BY DEF B!Init, BrowsersIInv, B!NoCall

\* A call that gets its lock is none that a browser is lent to.
LEMMA BegunIsCall ==
  ASSUME BrowsersIInv, NEW call \in CallRecord PROVE B!Begun(call) \in CallRecord
  BY DEF BrowsersIInv, CallRecord, Phases, B!Begun, B!NoCall

LEMMA AskKeeps ==
  ASSUME BrowsersIInv, NEW p \in Pages, NEW kind \in {"open", "close"}, B!Ask(p, kind)
  PROVE  BrowsersIInv'
  <1> USE DEF BrowsersIInv
  <1> DEFINE call == [page |-> p, kind |-> kind, lock |-> B!LockOf(p, Len(calls) + 1), phase |-> "waiting",
                      browser |-> Len(calls) + 1]
  <1>1. call \in CallRecord
    BY DEF CallRecord, Phases, B!LockOf, B!NoCall
  <1>2. B!Begun(call) \in CallRecord
    BY <1>1, BegunIsCall
  <1>3. PICK new \in CallRecord : calls' = Append(calls, new)
    BY <1>1, <1>2 DEF B!Ask
  <1>4. UNCHANGED <<lent, service, address>>
    BY DEF B!Ask, B!pool
  <1>5. call.lock \in Nat /\ call.page \in Pages
    BY <1>1 DEF CallRecord
  <1>6. turnLock' \in [Pages -> Nat] /\ opened' \in [Pages -> Nat]
    <2> HIDE DEF call
    <2>1. \/ B!Begins(call, call.lock)
          \/ turnLock' = [turnLock EXCEPT ![p] = call.lock] /\ UNCHANGED opened
      BY DEF B!Ask, call
    <2>2. turnLock' \in [Pages -> Nat]
      BY <2>1, <1>5 DEF B!Begins, B!NoCall
    <2>3. opened' = [opened EXCEPT ![call.page] = 0] \/ UNCHANGED opened
      BY <2>1 DEF B!Begins, B!NoCall
    <2>4. opened' \in [Pages -> Nat]
      BY <1>5, <2>3
    <2>5. QED
      BY <2>2, <2>4
  <1>7. \A b \in lent : calls'[b] = calls[b] /\ b \in DOMAIN calls'
    BY <1>3
  <1>8. QED
    BY <1>3, <1>4, <1>6, <1>7

\* A call goes on.
LEMMA CallKeeps ==
  ASSUME BrowsersIInv, NEW c \in DOMAIN calls, B!Steps(c) PROVE BrowsersIInv'
  <1> USE DEF BrowsersIInv
  <1>1. \A new \in CallRecord : calls' = [calls EXCEPT ![c] = new] =>
          /\ calls' \in Seq(CallRecord) /\ DOMAIN calls' = DOMAIN calls
          /\ calls'[c] = new /\ \A b \in DOMAIN calls : b # c => calls'[b] = calls[b]
    OBVIOUS
  <1>2. calls[c] \in CallRecord
    OBVIOUS
  <1>3. \A phase \in Phases : B!Moves(c, phase) =>
          /\ calls' \in Seq(CallRecord) /\ DOMAIN calls' = DOMAIN calls
          /\ calls'[c].phase = phase /\ \A b \in DOMAIN calls : b # c => calls'[b] = calls[b]
    BY <1>1, <1>2 DEF B!Moves, CallRecord
  <1>4. CASE B!Enter(c)
    <2>1. calls' = [calls EXCEPT ![c] = B!Begun(calls[c])] /\ UNCHANGED <<lent, service, address>>
      BY <1>4 DEF B!Enter, B!pool
    <2>2. c \notin lent
      BY <1>4 DEF B!Enter, B!NextOn
    <2>3. turnLock' \in [Pages -> Nat] /\ opened' \in [Pages -> Nat]
      BY <1>2, <1>4 DEF B!Enter, B!Begins, B!NoCall, CallRecord
    <2>4. QED
      BY <1>1, <1>2, <2>1, <2>2, <2>3, BegunIsCall
  <1>5. CASE B!Lend(c)
    BY <1>3, <1>5 DEF B!Lend, Phases
  <1>6. CASE B!LendTimesOut(c)
    BY <1>3, <1>6 DEF B!LendTimesOut, B!pool, Phases
  <1>7. CASE B!StartService(c)
    <2>1. CASE B!Moves(c, "connecting") /\ address' = TRUE /\ service' = "runs" /\ lent' = lent
      BY <1>3, <1>7, <2>1 DEF B!StartService, Phases
    <2>2. CASE B!Moves(c, "done") /\ lent' = lent \ {c} /\ service' \in B!LeftByStart /\ address' = address
      <3>1. service' = "off" => service = "off" \/ ~address
        BY <2>2 DEF B!LeftByStart
      <3>2. QED
        BY <1>3, <1>7, <2>2, <3>1 DEF B!StartService, Phases
    <2>3. QED
      BY <1>7, <2>1, <2>2 DEF B!StartService, B!GiveBack
  <1>8. CASE B!Connect(c)
    <2>1. c \in Nat /\ calls[c].page \in Pages
      BY <1>2 DEF CallRecord
    <2>2. opened' \in [Pages -> Nat] /\ lent' \subseteq lent /\ UNCHANGED <<turnLock, service, address>>
      BY <1>8, <2>1 DEF B!Connect, B!GiveBack
    <2>3. B!Moves(c, "done") /\ calls[c].phase = "connecting"
      BY <1>8 DEF B!Connect
    <2>4. QED
      BY <1>3, <2>2, <2>3 DEF Phases
  <1>9. CASE B!Close(c)
    BY <1>2, <1>3, <1>9 DEF B!Close, B!Forgotten, B!GiveBack, B!NoCall, Phases, CallRecord
  <1>10. QED
    BY <1>4, <1>5, <1>6, <1>7, <1>8, <1>9 DEF B!Steps

LEMMA BrowsersStep == BrowsersIInv /\ [B!Next]_browsersVars => BrowsersIInv'
  <1> SUFFICES ASSUME BrowsersIInv, [B!Next]_browsersVars PROVE BrowsersIInv'
    OBVIOUS
  <1>1. CASE B!IdlePasses \/ B!StopService \/ B!Dies \/ UNCHANGED browsersVars
    BY <1>1 DEF BrowsersIInv, B!IdlePasses, B!StopService, B!Dies, browsersVars
  <1>2. QED
    BY <1>1, AskKeeps, CallKeeps DEF B!Next, B!CallIds

\* Whatever is served, a browser is lent, connected and given back as its calls come and the
\* service starts, stops and dies: it is never stopped under a browser that is lent.
THEOREM BrowsersSafe == ServingSpec => []NeverUnderneath
  <1>1. ServingInit => BrowsersIInv
    BY BrowsersStart DEF ServingInit
  <1>2. BrowsersIInv /\ [ServingNext]_servingVars => BrowsersIInv'
    BY BrowsersStep DEF ServingNext, OfDesk, OfTranscript, OfBrowsers, OfPairing, servingVars, browsersVars
  <1>3. BrowsersIInv => NeverUnderneath
    BY DEF BrowsersIInv, NeverUnderneath, B!NeverUnderneath
  <1>4. QED
    BY <1>1, <1>2, <1>3, PTL DEF ServingSpec

-----------------------------------------------------------------------------
(***************************************************************************)
(* The thread's reader.  From the event it is to be given next, what is on *)
(* the way to it is the thread's events one by one: what its subscription  *)
(* holds, the frames, and what the server's stream still has.              *)
(***************************************************************************)
F == INSTANCE Feed WITH seen <- got

\* The frames, the reader's subscriptions and the server's streams.
Frames == [kind : {"subscribe", "cancel", "subscribed", "item", "error", "end"}, id : Nat, n : Nat]
Subscriptions == [id : Nat, held : BOOLEAN, after : Nat, last : Nat, items : Seq(Nat)]
Streams == [open : BOOLEAN, full : BOOLEAN, after : Nat, replay : Seq(Nat), subscriber : Seq(Nat),
            queue : Seq(Nat)]

\* No frame and no stream is of a subscription that is yet to come, and without a connection there
\* are none.
FeedTypes ==
    /\ head \in Nat /\ got \in Seq(Nat) /\ live \in BOOLEAN /\ sub \in Subscriptions
    /\ up \in Seq(Frames) /\ down \in Seq(Frames)
    /\ \A i \in 1 .. Len(up) : up[i].id <= sub.id
    /\ \A i \in 1 .. Len(down) : down[i].id <= sub.id
    /\ \A id \in DOMAIN streams : id \in 0 .. sub.id /\ streams[id] \in Streams
    /\ ~live => up = <<>> /\ down = <<>> /\ DOMAIN streams = {}

\* What the reader takes up to an error are its next events.
Rendering ==
    /\ Len(got) <= head
    /\ \A i \in 1 .. Len(sub.items) :
        (\A j \in 1 .. i : sub.items[j] # T!Overflow) =>
            sub.items[i] = Len(got) + i /\ sub.items[i] <= head

\* The subscription that is held and has met no error, what it has up to, and its frames.
Clean == sub.held /\ \A i \in 1 .. Len(sub.items) : sub.items[i] # T!Overflow
Reached == Len(got) + Len(sub.items)
ItsItem(frame) == frame.kind = "item" /\ frame.id = sub.id
ItsAsk(frame) == frame.kind = "subscribe" /\ frame.id = sub.id

\* It would ask from there.
AsksOn == T!Ask(sub).n = Reached /\ Reached <= head

\* A frame between the event before it and the one after.
Linked(frame, before, next) ==
    IF ItsItem(frame) THEN frame.n = before + 1 /\ next = before + 1 ELSE next = before

\* f is the event before each of some frames on the way to it, which has it up to event e.
Chain(f, frames, e) ==
    /\ f \in [1 .. Len(frames) + 1 -> Nat] /\ f[1] = e
    /\ \A i \in 1 .. Len(frames) + 1 : f[i] <= head
    /\ \A i \in 1 .. Len(frames) : Linked(frames[i], f[i], f[i + 1])

\* What the server still has for it, after event e: it is to be asked on from there, once, or has a
\* stream of all the events since, or of some and then the overflow.
AskedFrom(e) ==
    \A i \in 1 .. Len(up) : ItsAsk(up[i]) =>
        up[i].n = e /\ sub.id \notin DOMAIN streams /\ \A j \in 1 .. Len(up) : ItsAsk(up[j]) => j = i
StreamFrom(s, e) ==
    /\ ~s.open => s.after = e /\ ~s.full /\ s.queue = <<>> /\ s.subscriber = <<>>
    /\ s.full => /\ Len(s.queue) > 0 /\ s.queue[Len(s.queue)] = T!Overflow
                 /\ \A i \in 1 .. Len(s.queue) - 1 : s.queue[i] = e + i /\ e + i <= head
    /\ s.open /\ ~s.full =>
        LET ahead == e + Len(s.queue) + Len(s.replay)
        IN /\ \A i \in 1 .. Len(s.queue) : s.queue[i] = e + i
           /\ \A i \in 1 .. Len(s.replay) : s.replay[i] = e + Len(s.queue) + i
           /\ \A i \in 1 .. Len(s.subscriber) : s.subscriber[i] = ahead + i
           /\ ahead + Len(s.subscriber) = head /\ s.after <= ahead

ServerFrom(e) == AskedFrom(e) /\ (sub.id \in DOMAIN streams => StreamFrom(streams[sub.id], e))

\* A reader that is held and met no error is on its way to every event.
Following == Clean => AsksOn /\ \E f : Chain(f, down, Reached) /\ ServerFrom(f[Len(down) + 1])

FeedIInv == FeedTypes /\ Rendering /\ Following

-----------------------------------------------------------------------------
(* Frames and streams that come and go.                                    *)

\* The events of a replay.
LEMMA SpanIs ==
  ASSUME NEW m \in Nat, NEW n \in Nat
  PROVE  /\ T!Span(m, n) \in Seq(Nat)
         /\ m <= n => Len(T!Span(m, n)) = n - m
         /\ \A i \in 1 .. Len(T!Span(m, n)) : T!Span(m, n)[i] = m + i
  <1>1. CASE m <= n
    <2>1. n - m \in Nat
      BY <1>1
    <2>2. QED
      BY <1>1, <2>1 DEF T!Span
  <1>2. CASE ~(m <= n)
    <2>1. 1 .. (n - m) = {}
      BY <1>2
    <2>2. T!Span(m, n) = <<>>
      BY <2>1 DEF T!Span
    <2>3. QED
      BY <1>2, <2>2
  <1>3. QED
    BY <1>1, <1>2

\* The event after a frame.
Past(frame, e) == IF ItsItem(frame) THEN e + 1 ELSE e

\* A frame more on the way to it.
LEMMA ChainGrows ==
  ASSUME head \in Nat, NEW frames \in Seq(Frames), NEW r, NEW f, Chain(f, frames, r),
         NEW frame \in Frames,
         ItsItem(frame) => frame.n = f[Len(frames) + 1] + 1 /\ frame.n <= head
  PROVE  \E g : /\ Chain(g, Append(frames, frame), r)
                /\ g[Len(frames) + 2] = Past(frame, f[Len(frames) + 1])
  <1> DEFINE e == Past(frame, f[Len(frames) + 1])
             more == Append(frames, frame)
  <1>1. /\ Len(frames) \in Nat /\ Len(more) = Len(frames) + 1 /\ more[Len(frames) + 1] = frame
        /\ \A i \in 1 .. Len(frames) : more[i] = frames[i]
    OBVIOUS
  <1>2. /\ f \in [1 .. Len(frames) + 1 -> Nat] /\ f[1] = r
        /\ \A i \in 1 .. Len(frames) + 1 : f[i] <= head
        /\ \A i \in 1 .. Len(frames) : Linked(frames[i], f[i], f[i + 1])
    BY DEF Chain
  <1>3. e \in Nat /\ e <= head
    BY <1>1, <1>2 DEF Frames, Past
  <1> DEFINE g == [i \in 1 .. Len(frames) + 2 |-> IF i = Len(frames) + 2 THEN e ELSE f[i]]
  <1>4. /\ g \in [1 .. Len(frames) + 2 -> Nat] /\ g[Len(frames) + 2] = e
        /\ \A i \in 1 .. Len(frames) + 1 : g[i] = f[i]
    <2> HIDE DEF e
    <2>1. QED
      BY <1>1, <1>2, <1>3
  <1> HIDE DEF g, more
  <1>5. \A i \in 1 .. Len(frames) + 1 : Linked(more[i], g[i], g[i + 1])
    <2> SUFFICES ASSUME NEW i \in 1 .. Len(frames) + 1
                 PROVE  Linked(more[i], g[i], g[i + 1])
      OBVIOUS
    <2>1. CASE i = Len(frames) + 1
      BY <1>1, <1>4, <2>1 DEF Linked, Past
    <2>2. CASE i \in 1 .. Len(frames)
      <3> HIDE DEF e
      <3>1. more[i] = frames[i] /\ g[i] = f[i] /\ g[i + 1] = f[i + 1]
        BY <1>1, <1>4, <2>2
      <3>2. QED
        BY <1>2, <2>2, <3>1
    <2>3. QED
      BY <1>1, <2>1, <2>2
  <1> HIDE DEF e
  <1>6. \A i \in 1 .. Len(frames) + 2 : g[i] <= head
    BY <1>1, <1>2, <1>3, <1>4
  <1>7. Chain(g, more, r)
    <2>1. Len(more) + 1 = Len(frames) + 2
      BY <1>1
    <2>2. g[1] = r
      BY <1>1, <1>2, <1>4
    <2>3. QED
      BY <1>1, <1>4, <1>5, <1>6, <2>1, <2>2 DEF Chain
  <1>8. QED
    BY <1>4, <1>7 DEF e, more

\* The first frame reaches the subscription.
LEMMA ChainShrinks ==
  ASSUME head \in Nat, NEW frames \in Seq(Frames), frames # <<>>, NEW r, NEW f, Chain(f, frames, r)
  PROVE  /\ Linked(frames[1], r, f[2]) /\ f[2] <= head
         /\ \E g : Chain(g, Tail(frames), f[2]) /\ g[Len(frames)] = f[Len(frames) + 1]
  <1> DEFINE rest == Tail(frames)
  <1>1. /\ Len(frames) \in Nat \ {0} /\ Len(rest) = Len(frames) - 1
        /\ \A i \in 1 .. Len(frames) - 1 : rest[i] = frames[i + 1]
    OBVIOUS
  <1>2. /\ f \in [1 .. Len(frames) + 1 -> Nat] /\ f[1] = r
        /\ \A i \in 1 .. Len(frames) + 1 : f[i] <= head
        /\ \A i \in 1 .. Len(frames) : Linked(frames[i], f[i], f[i + 1])
    BY DEF Chain
  <1> DEFINE g == [i \in 1 .. Len(frames) |-> f[i + 1]]
  <1>3. /\ g \in [1 .. Len(frames) -> Nat]
        /\ \A i \in 1 .. Len(frames) : g[i] = f[i + 1] /\ i + 1 \in 1 .. Len(frames) + 1
    BY <1>1, <1>2
  <1> HIDE DEF g, rest
  <1>4. \A i \in 1 .. Len(frames) - 1 : Linked(rest[i], g[i], g[i + 1])
    <2> SUFFICES ASSUME NEW i \in 1 .. Len(frames) - 1
                 PROVE  Linked(rest[i], g[i], g[i + 1])
      OBVIOUS
    <2>1. i + 1 \in 1 .. Len(frames) /\ i \in 1 .. Len(frames)
      BY <1>1
    <2>2. rest[i] = frames[i + 1] /\ g[i] = f[i + 1] /\ g[i + 1] = f[i + 1 + 1]
      BY <1>1, <1>3, <2>1
    <2>3. QED
      BY <1>2, <2>1, <2>2
  <1>5. Chain(g, rest, f[2])
    <2>1. Len(rest) + 1 = Len(frames) /\ 1 \in 1 .. Len(frames)
      BY <1>1
    <2>2. /\ \A i \in 1 .. Len(frames) : g[i] <= head
          /\ g[1] = f[2]
      BY <1>2, <1>3, <2>1
    <2>3. QED
      BY <1>1, <1>3, <1>4, <2>1, <2>2 DEF Chain
  <1>6. g[Len(frames)] = f[Len(frames) + 1]
    BY <1>1, <1>3
  <1>7. Linked(frames[1], r, f[2]) /\ f[2] <= head
    BY <1>1, <1>2
  <1>8. QED
    BY <1>5, <1>6, <1>7 DEF rest

\* Nothing is on the way to it.
LEMMA ChainEmpty ==
  ASSUME head \in Nat, NEW frames \in Seq(Frames), NEW r \in Nat, r <= head,
         \A i \in 1 .. Len(frames) : ~ItsItem(frames[i])
  PROVE  \E f : Chain(f, frames, r) /\ f[Len(frames) + 1] = r
  <1> DEFINE f == [i \in 1 .. Len(frames) + 1 |-> r]
  <1>1. Len(frames) \in Nat
    OBVIOUS
  <1>2. Chain(f, frames, r) /\ f[Len(frames) + 1] = r
    BY <1>1 DEF Chain, Linked
  <1>3. QED
    BY <1>2

\* The log only grows.
LEMMA ChainStays ==
  ASSUME head \in Nat, head' \in Nat, head <= head', sub'.id = sub.id,
         NEW CONSTANT frames, Len(frames) \in Nat, NEW CONSTANT r, NEW CONSTANT f, Chain(f, frames, r)
  PROVE  Chain(f, frames, r)'
  <1>1. /\ f \in [1 .. Len(frames) + 1 -> Nat] /\ f[1] = r
        /\ \A i \in 1 .. Len(frames) + 1 : f[i] <= head
        /\ \A i \in 1 .. Len(frames) : Linked(frames[i], f[i], f[i + 1])
    BY DEF Chain
  <1>2. \A i \in 1 .. Len(frames) + 1 : f[i] <= head'
    BY <1>1
  <1>3. \A i \in 1 .. Len(frames) : Linked(frames[i], f[i], f[i + 1])'
    BY <1>1 DEF Linked, ItsItem
  <1>4. QED
    BY <1>1, <1>2, <1>3 DEF Chain

-----------------------------------------------------------------------------
(* The types of the feed.                                                  *)

\* A frame of a subscription there has been joins the others of its side.
LEMMA FrameJoins ==
  ASSUME NEW n \in Nat, NEW frames \in Seq(Frames), \A i \in 1 .. Len(frames) : frames[i].id <= n,
         NEW frame \in Frames, frame.id <= n
  PROVE  /\ Append(frames, frame) \in Seq(Frames)
         /\ \A i \in 1 .. Len(Append(frames, frame)) : Append(frames, frame)[i].id <= n
  <1> DEFINE more == Append(frames, frame)
  <1>1. /\ more \in Seq(Frames) /\ Len(more) = Len(frames) + 1 /\ more[Len(frames) + 1] = frame
        /\ Len(frames) \in Nat /\ \A i \in 1 .. Len(frames) : more[i] = frames[i]
    OBVIOUS
  <1> HIDE DEF more
  <1>2. \A i \in 1 .. Len(more) : more[i].id <= n
    BY <1>1
  <1>3. QED
    BY <1>1, <1>2 DEF more

\* The first frame is one, and leaves the others.
LEMMA FrameLeaves ==
  ASSUME NEW n \in Nat, NEW frames \in Seq(Frames), \A i \in 1 .. Len(frames) : frames[i].id <= n,
         frames # <<>>
  PROVE  /\ Head(frames) \in Frames /\ Head(frames) = frames[1] /\ Head(frames).id <= n
         /\ Tail(frames) \in Seq(Frames)
         /\ \A i \in 1 .. Len(Tail(frames)) : Tail(frames)[i].id <= n
  <1> DEFINE rest == Tail(frames)
  <1>1. /\ rest \in Seq(Frames) /\ Len(rest) = Len(frames) - 1 /\ Len(frames) \in Nat \ {0}
        /\ \A i \in 1 .. Len(rest) : rest[i] = frames[i + 1]
        /\ Head(frames) = frames[1] /\ frames[1] \in Frames
    OBVIOUS
  <1> HIDE DEF rest
  <1>2. \A i \in 1 .. Len(rest) : i + 1 \in 1 .. Len(frames)
    BY <1>1
  <1>3. \A i \in 1 .. Len(rest) : rest[i].id <= n
    BY <1>1, <1>2
  <1>4. QED
    BY <1>1, <1>3 DEF rest

\* What a subscription would ask with.
LEMMA AskIsFrame == ASSUME NEW s \in Subscriptions PROVE T!Ask(s) \in Frames /\ T!Ask(s).id = s.id
                                                         /\ T!Ask(s).kind = "subscribe"
  <1>1. s.id \in Nat /\ s.last \in Nat /\ s.after \in Nat
    BY DEF Subscriptions
  <1>2. QED
    BY <1>1 DEF T!Ask, T!Frame, Frames

\* The frames of the protocol.
LEMMA FrameIs ==
  ASSUME NEW kind \in {"cancel", "subscribed", "item", "error", "end"}, NEW id \in Nat, NEW n \in Nat
  PROVE  /\ T!Frame(kind, id, n) \in Frames /\ T!Frame(kind, id, n).kind = kind
         /\ T!Frame(kind, id, n).id = id /\ T!Frame(kind, id, n).n = n
  BY DEF T!Frame, Frames

\* A stream reads an item ahead.
LEMMA ReadAheadIs ==
  ASSUME NEW id, NEW item \in Nat, NEW rest \in Streams, T!ReadAhead(id, item, rest)
  PROVE  \E next \in Streams :
           /\ streams' = [streams EXCEPT ![id] = next]
           /\ next = IF Len(rest.queue) >= Limit
                     THEN [rest EXCEPT !.full = TRUE, !.queue = Append(@, T!Overflow),
                                       !.replay = <<>>, !.subscriber = <<>>]
                     ELSE [rest EXCEPT !.queue = Append(@, item)]
  <1> DEFINE next == IF Len(rest.queue) >= Limit
                     THEN [rest EXCEPT !.full = TRUE, !.queue = Append(@, T!Overflow),
                                       !.replay = <<>>, !.subscriber = <<>>]
                     ELSE [rest EXCEPT !.queue = Append(@, item)]
  <1>1. /\ Append(rest.queue, item) \in Seq(Nat) /\ Append(rest.queue, T!Overflow) \in Seq(Nat)
        /\ <<>> \in Seq(Nat)
    BY DEF Streams, T!Overflow
  <1>2. next \in Streams
    BY <1>1 DEF Streams
  <1>3. streams' = [streams EXCEPT ![id] = next]
    BY DEF T!ReadAhead
  <1> HIDE DEF next
  <1>4. QED
    BY <1>2, <1>3 DEF next

\* What is next of a stream.
LEMMA FillTakes ==
  ASSUME NEW id, T!Fill(id), streams[id] \in Streams
  PROVE  LET s == streams[id]
         IN  \/ /\ s.replay # <<>> /\ Head(s.replay) \in Nat
                /\ [s EXCEPT !.replay = Tail(@)] \in Streams
                /\ T!ReadAhead(id, Head(s.replay), [s EXCEPT !.replay = Tail(@)])
             \/ /\ s.replay = <<>>
                /\ \E i \in DOMAIN s.subscriber :
                     /\ s.subscriber[i] > s.after /\ s.subscriber[i] \in Nat
                     /\ \A j \in DOMAIN s.subscriber : s.subscriber[j] > s.after => i <= j
                     /\ [s EXCEPT !.subscriber = SubSeq(@, i + 1, Len(@))] \in Streams
                     /\ T!ReadAhead(id, s.subscriber[i], [s EXCEPT !.subscriber = SubSeq(@, i + 1, Len(@))])
  <1> DEFINE s == streams[id]
             newer == {i \in DOMAIN s.subscriber : s.subscriber[i] > s.after}
  <1>1. s.replay \in Seq(Nat) /\ s.subscriber \in Seq(Nat)
    BY DEF Streams
  <1>2. CASE /\ s.replay # <<>>
             /\ T!ReadAhead(id, Head(s.replay), [s EXCEPT !.replay = Tail(@)])
    <2>1. Head(s.replay) \in Nat /\ Tail(s.replay) \in Seq(Nat)
      BY <1>1, <1>2
    <2>2. [s EXCEPT !.replay = Tail(@)] \in Streams
      BY <2>1 DEF Streams
    <2>3. QED
      BY <1>2, <2>1, <2>2
  <1>3. ASSUME s.replay = <<>>, NEW i \in newer, \A j \in newer : i <= j,
               T!ReadAhead(id, s.subscriber[i], [s EXCEPT !.subscriber = SubSeq(@, i + 1, Len(@))])
        PROVE  \E k \in DOMAIN s.subscriber :
                     /\ s.subscriber[k] > s.after /\ s.subscriber[k] \in Nat
                     /\ \A j \in DOMAIN s.subscriber : s.subscriber[j] > s.after => k <= j
                     /\ [s EXCEPT !.subscriber = SubSeq(@, k + 1, Len(@))] \in Streams
                     /\ T!ReadAhead(id, s.subscriber[k], [s EXCEPT !.subscriber = SubSeq(@, k + 1, Len(@))])
    <2>1. /\ i \in 1 .. Len(s.subscriber) /\ s.subscriber[i] \in Nat
          /\ SubSeq(s.subscriber, i + 1, Len(s.subscriber)) \in Seq(Nat)
      BY SMTT(30), <1>1
    <2>2. [s EXCEPT !.subscriber = SubSeq(@, i + 1, Len(@))] \in Streams
      BY <2>1 DEF Streams
    <2>3. QED
      BY <1>3, <2>1, <2>2
  <1>4. \/ /\ s.replay # <<>>
           /\ T!ReadAhead(id, Head(s.replay), [s EXCEPT !.replay = Tail(@)])
        \/ /\ s.replay = <<>>
           /\ \E i \in newer :
                /\ \A j \in newer : i <= j
                /\ T!ReadAhead(id, s.subscriber[i], [s EXCEPT !.subscriber = SubSeq(@, i + 1, Len(@))])
    BY DEF T!Fill
  <1>5. QED
    BY <1>2, <1>3, <1>4

\* The streams of a connection change one at a time.
LEMMA StreamsReplaced ==
  ASSUME FeedTypes, NEW id \in DOMAIN streams, NEW s \in Streams,
         streams' = [streams EXCEPT ![id] = s], UNCHANGED <<sub, live>>
  PROVE  /\ \A each \in DOMAIN streams' : each \in 0 .. sub'.id /\ streams'[each] \in Streams
         /\ DOMAIN streams' = DOMAIN streams /\ live
         /\ streams'[id] = s /\ \A each \in DOMAIN streams \ {id} : streams'[each] = streams[each]
  BY DEF FeedTypes

\* The log grows, and its open streams are told.
LEMMA AppendTypes == ASSUME FeedTypes, T!AppendEvent PROVE FeedTypes'
  <1>1. head \in Nat /\ head' = head + 1 /\ UNCHANGED <<up, down, live, sub, got>>
    BY DEF FeedTypes, T!AppendEvent
  <1>2. \A id \in DOMAIN streams' : id \in 0 .. sub.id /\ streams'[id] \in Streams
    <2> SUFFICES ASSUME NEW id \in DOMAIN streams'
                 PROVE  id \in 0 .. sub.id /\ streams'[id] \in Streams
      OBVIOUS
    <2>1. /\ id \in DOMAIN streams /\ id \in 0 .. sub.id /\ streams[id] \in Streams
          /\ streams'[id] = IF streams[id].open /\ ~streams[id].full
                            THEN [streams[id] EXCEPT !.subscriber = Append(@, head + 1)]
                            ELSE streams[id]
      BY DEF FeedTypes, T!AppendEvent
    <2>2. Append(streams[id].subscriber, head + 1) \in Seq(Nat)
      BY <1>1, <2>1 DEF Streams
    <2>3. QED
      BY <2>1, <2>2 DEF Streams
  <1>3. ~live' => up' = <<>> /\ down' = <<>> /\ DOMAIN streams' = {}
    BY <1>1 DEF FeedTypes, T!AppendEvent
  <1>4. QED
    BY <1>1, <1>2, <1>3 DEF FeedTypes

\* A frame to the server, of a subscription that came.
LEMMA UpJoins ==
  ASSUME FeedTypes, NEW frame \in Frames, frame.id <= sub.id
  PROVE  /\ Append(up, frame) \in Seq(Frames)
         /\ \A i \in 1 .. Len(Append(up, frame)) : Append(up, frame)[i].id <= sub.id
  <1>1. sub.id \in Nat /\ up \in Seq(Frames) /\ \A i \in 1 .. Len(up) : up[i].id <= sub.id
    BY DEF FeedTypes, Subscriptions
  <1>2. QED
    BY <1>1, FrameJoins

\* A frame to the client, of a subscription that came.
LEMMA DownJoins ==
  ASSUME FeedTypes, NEW frame \in Frames, frame.id <= sub.id
  PROVE  /\ Append(down, frame) \in Seq(Frames)
         /\ \A i \in 1 .. Len(Append(down, frame)) : Append(down, frame)[i].id <= sub.id
  <1>1. sub.id \in Nat /\ down \in Seq(Frames) /\ \A i \in 1 .. Len(down) : down[i].id <= sub.id
    BY DEF FeedTypes, Subscriptions
  <1>2. QED
    BY <1>1, FrameJoins

\* What the server does with the first frame.
ReceivedFrame(frame) ==
    \/ /\ frame.kind = "subscribe" /\ frame.id \notin DOMAIN streams
       /\ streams' = [id \in DOMAIN streams \union {frame.id} |->
             IF id = frame.id
             THEN [open |-> FALSE, full |-> FALSE, after |-> frame.n,
                   replay |-> <<>>, subscriber |-> <<>>, queue |-> <<>>]
             ELSE streams[id]]
       /\ UNCHANGED down
    \/ /\ frame.kind = "cancel" /\ frame.id \in DOMAIN streams
       /\ streams' = [id \in DOMAIN streams \ {frame.id} |-> streams[id]]
       /\ down' = Append(down, T!Frame("end", frame.id, 0))
    \/ /\ frame.kind = "cancel" /\ frame.id \notin DOMAIN streams
       /\ down' = Append(down, T!Frame("error", frame.id, 0))
       /\ UNCHANGED streams

\* The server takes the first frame of the client.
LEMMA ReceiveIs ==
  ASSUME FeedTypes, T!Receive
  PROVE  /\ up # <<>> /\ up' = Tail(up) /\ up[1] \in Frames /\ up[1].id \in 0 .. sub.id
         /\ ReceivedFrame(up[1])
         /\ up' \in Seq(Frames) /\ \A i \in 1 .. Len(up') : up'[i].id <= sub.id
         /\ UNCHANGED <<head, live, sub, got>> /\ live
  <1>1. sub.id \in Nat /\ up \in Seq(Frames) /\ \A i \in 1 .. Len(up) : up[i].id <= sub.id
    BY DEF FeedTypes, Subscriptions
  <1>2. up # <<>> /\ up' = Tail(up) /\ UNCHANGED <<head, live, sub, got>> /\ live
    BY DEF FeedTypes, T!Receive
  <1>3. /\ Head(up) \in Frames /\ Head(up) = up[1] /\ Head(up).id <= sub.id
        /\ Tail(up) \in Seq(Frames) /\ \A i \in 1 .. Len(Tail(up)) : Tail(up)[i].id <= sub.id
    BY <1>1, <1>2, FrameLeaves
  <1>4. ReceivedFrame(Head(up))
    BY DEF T!Receive, ReceivedFrame
  <1>5. up[1].id \in 0 .. sub.id
    BY <1>1, <1>3 DEF Frames
  <1>6. QED
    BY <1>2, <1>3, <1>4, <1>5

\* A frame to the server opens a stream, ends one, or meets none.
LEMMA ReceiveTypes == ASSUME FeedTypes, T!Receive PROVE FeedTypes'
  <1> DEFINE frame == up[1]
  <1>1. /\ frame \in Frames /\ frame.id \in 0 .. sub.id /\ ReceivedFrame(frame)
        /\ up' \in Seq(Frames) /\ \A i \in 1 .. Len(up') : up'[i].id <= sub.id
        /\ UNCHANGED <<head, live, sub, got>> /\ live
    BY ReceiveIs
  <1>2. /\ down' \in Seq(Frames) /\ \A i \in 1 .. Len(down') : down'[i].id <= sub.id
        /\ \A id \in DOMAIN streams' : id \in 0 .. sub.id /\ streams'[id] \in Streams
    <2> HIDE DEF frame
    <2>1. CASE /\ frame.kind = "subscribe" /\ frame.id \notin DOMAIN streams
               /\ streams' = [id \in DOMAIN streams \union {frame.id} |->
                     IF id = frame.id
                     THEN [open |-> FALSE, full |-> FALSE, after |-> frame.n,
                           replay |-> <<>>, subscriber |-> <<>>, queue |-> <<>>]
                     ELSE streams[id]]
               /\ UNCHANGED down
      <3>1. [open |-> FALSE, full |-> FALSE, after |-> frame.n,
             replay |-> <<>>, subscriber |-> <<>>, queue |-> <<>>] \in Streams
        BY <1>1 DEF Streams, Frames
      <3>2. QED
        BY <1>1, <2>1, <3>1 DEF FeedTypes
    <2>2. CASE /\ frame.id \in DOMAIN streams
               /\ streams' = [id \in DOMAIN streams \ {frame.id} |-> streams[id]]
               /\ down' = Append(down, T!Frame("end", frame.id, 0))
      <3>1. T!Frame("end", frame.id, 0) \in Frames /\ T!Frame("end", frame.id, 0).id <= sub.id
        BY <1>1, FrameIs DEF Frames
      <3>2. QED
        BY <1>1, <2>2, <3>1, DownJoins DEF FeedTypes
    <2>3. CASE down' = Append(down, T!Frame("error", frame.id, 0)) /\ UNCHANGED streams
      <3>1. T!Frame("error", frame.id, 0) \in Frames /\ T!Frame("error", frame.id, 0).id <= sub.id
        BY <1>1, FrameIs DEF Frames
      <3>2. QED
        BY <1>1, <2>3, <3>1, DownJoins DEF FeedTypes
    <2>4. QED
      BY <1>1, <2>1, <2>2, <2>3 DEF ReceivedFrame
  <1>3. QED
    BY <1>1, <1>2 DEF FeedTypes

\* A stream is opened: its head is told, and its events so far are to be replayed.
LEMMA OpenIs ==
  ASSUME FeedTypes, NEW id, T!Open(id)
  PROVE  /\ id \in DOMAIN streams /\ streams[id] \in Streams /\ id \in 0 .. sub.id /\ id \in Nat
         /\ ~streams[id].open
         /\ T!Subscribed(id) \in Streams /\ streams' = [streams EXCEPT ![id] = T!Subscribed(id)]
         /\ T!Frame("subscribed", id, head) \in Frames
         /\ down' = Append(down, T!Frame("subscribed", id, head))
         /\ UNCHANGED <<head, up, live, sub, got>>
  <1>1. /\ id \in DOMAIN streams /\ streams[id] \in Streams /\ id \in 0 .. sub.id
        /\ ~streams[id].open
        /\ streams' = [streams EXCEPT ![id] = T!Subscribed(id)]
        /\ down' = Append(down, T!Frame("subscribed", id, head))
        /\ UNCHANGED <<head, up, live, sub, got>>
    BY DEF FeedTypes, T!Open
  <1>2. head \in Nat /\ sub.id \in Nat /\ id \in Nat
    BY <1>1 DEF FeedTypes, Subscriptions
  <1>3. T!Span(streams[id].after, head) \in Seq(Nat)
    <2>1. streams[id].after \in Nat
      BY <1>1 DEF Streams
    <2>2. QED
      BY <1>2, <2>1, SpanIs
  <1>4. T!Subscribed(id) \in Streams
    BY <1>1, <1>3 DEF T!Subscribed, Streams
  <1>5. QED
    BY <1>1, <1>2, <1>4, FrameIs

\* A stream is opened.
LEMMA OpenTypes == ASSUME FeedTypes, NEW id, T!Open(id) PROVE FeedTypes'
  <1>1. /\ id \in DOMAIN streams /\ id \in 0 .. sub.id /\ id \in Nat
        /\ T!Subscribed(id) \in Streams /\ streams' = [streams EXCEPT ![id] = T!Subscribed(id)]
        /\ T!Frame("subscribed", id, head) \in Frames
        /\ down' = Append(down, T!Frame("subscribed", id, head))
        /\ UNCHANGED <<head, up, live, sub, got>>
    BY OpenIs
  <1>2. /\ \A each \in DOMAIN streams' : each \in 0 .. sub'.id /\ streams'[each] \in Streams
        /\ DOMAIN streams' = DOMAIN streams /\ live
    BY <1>1, StreamsReplaced
  <1>3. T!Frame("subscribed", id, head).id <= sub.id /\ sub.id \in Nat
    BY <1>1, FrameIs DEF FeedTypes, Subscriptions
  <1>4. /\ down' \in Seq(Frames)
        /\ \A i \in 1 .. Len(down') : down'[i].id <= sub.id
    BY <1>1, <1>3, DownJoins
  <1>5. QED
    BY <1>1, <1>2, <1>4 DEF FeedTypes

\* A stream reads ahead.
LEMMA FillTypes == ASSUME FeedTypes, NEW id, T!Fill(id) PROVE FeedTypes'
  <1>1. /\ id \in DOMAIN streams /\ streams[id] \in Streams
        /\ UNCHANGED <<head, up, down, live, sub, got>>
    BY DEF FeedTypes, T!Fill, T!Opened
  <1>2. \E next \in Streams : streams' = [streams EXCEPT ![id] = next]
    <2>1. ASSUME NEW item \in Nat, NEW rest \in Streams, T!ReadAhead(id, item, rest)
          PROVE  \E next \in Streams : streams' = [streams EXCEPT ![id] = next]
      BY <2>1, ReadAheadIs
    <2>2. \E item \in Nat, rest \in Streams : T!ReadAhead(id, item, rest)
      BY <1>1, FillTakes
    <2>3. QED
      BY <2>1, <2>2
  <1>3. /\ \A each \in DOMAIN streams' : each \in 0 .. sub'.id /\ streams'[each] \in Streams
        /\ DOMAIN streams' = DOMAIN streams /\ live
    BY <1>1, <1>2, StreamsReplaced
  <1>4. QED
    BY <1>1, <1>3 DEF FeedTypes

\* One item to the socket, or the error and the end.
LEMMA DrainIs ==
  ASSUME FeedTypes, NEW id, T!Drain(id)
  PROVE  /\ id \in DOMAIN streams /\ streams[id] \in Streams /\ id \in 0 .. sub.id /\ id \in Nat
         /\ streams[id].open
         /\ streams[id].queue # <<>> /\ Head(streams[id].queue) \in Nat
         /\ \/ /\ Head(streams[id].queue) = T!Overflow
               /\ T!Frame("error", id, T!Overflow) \in Frames /\ T!Frame("end", id, 0) \in Frames
               /\ down' = Append(Append(down, T!Frame("error", id, T!Overflow)), T!Frame("end", id, 0))
               /\ streams' = [each \in DOMAIN streams \ {id} |-> streams[each]]
            \/ /\ Head(streams[id].queue) # T!Overflow
               /\ T!Frame("item", id, Head(streams[id].queue)) \in Frames
               /\ down' = Append(down, T!Frame("item", id, Head(streams[id].queue)))
               /\ [streams[id] EXCEPT !.queue = Tail(@)] \in Streams
               /\ streams' = [streams EXCEPT ![id] = [streams[id] EXCEPT !.queue = Tail(@)]]
         /\ UNCHANGED <<head, up, live, sub, got>>
  <1> DEFINE item == Head(streams[id].queue)
  <1>1. /\ id \in DOMAIN streams /\ streams[id] \in Streams /\ id \in 0 .. sub.id
        /\ streams[id].open
        /\ streams[id].queue # <<>> /\ UNCHANGED <<head, up, live, sub, got>>
        /\ down \in Seq(Frames)
    BY DEF FeedTypes, T!Drain, T!Opened
  <1>2. id \in Nat /\ item \in Nat /\ Tail(streams[id].queue) \in Seq(Nat)
    BY <1>1 DEF FeedTypes, Subscriptions, Streams
  <1>3. [streams[id] EXCEPT !.queue = Tail(@)] \in Streams
    BY <1>1, <1>2 DEF Streams
  <1>4. /\ T!Frame("error", id, T!Overflow) \in Frames /\ T!Frame("end", id, 0) \in Frames
        /\ T!Frame("item", id, item) \in Frames
    <2>1. T!Overflow \in Nat
      BY DEF T!Overflow
    <2>2. QED
      BY <1>2, <2>1, FrameIs
  <1>5. \/ /\ item = T!Overflow
           /\ down' = down \o <<T!Frame("error", id, T!Overflow), T!Frame("end", id, 0)>>
           /\ streams' = [each \in DOMAIN streams \ {id} |-> streams[each]]
        \/ /\ item # T!Overflow
           /\ down' = Append(down, T!Frame("item", id, item))
           /\ streams' = [streams EXCEPT ![id].queue = Tail(@)]
    BY DEF T!Drain
  <1>6. down \o <<T!Frame("error", id, T!Overflow), T!Frame("end", id, 0)>>
        = Append(Append(down, T!Frame("error", id, T!Overflow)), T!Frame("end", id, 0))
    <2> DEFINE one == T!Frame("error", id, T!Overflow)
               two == T!Frame("end", id, 0)
    <2>1. one \in Frames /\ two \in Frames
      BY <1>4
    <2> HIDE DEF one, two
    <2>2. down \o <<one, two>> = Append(Append(down, one), two)
      BY <1>1, <2>1
    <2>3. QED
      BY <2>2 DEF one, two
  <1>7. QED
    BY <1>1, <1>2, <1>3, <1>4, <1>5, <1>6

\* An item, or the error and the end, leaves for the client.
LEMMA DrainTypes == ASSUME FeedTypes, NEW id, T!Drain(id) PROVE FeedTypes'
  <1> DEFINE s == streams[id]
             error == T!Frame("error", id, T!Overflow)
             end == T!Frame("end", id, 0)
             item == T!Frame("item", id, Head(streams[id].queue))
  <1>1. /\ id \in DOMAIN streams /\ id \in 0 .. sub.id /\ id \in Nat
        /\ UNCHANGED <<head, up, live, sub, got>>
        /\ \/ /\ error \in Frames /\ end \in Frames
              /\ down' = Append(Append(down, error), end)
              /\ streams' = [each \in DOMAIN streams \ {id} |-> streams[each]]
           \/ /\ item \in Frames
              /\ down' = Append(down, item)
              /\ [streams[id] EXCEPT !.queue = Tail(@)] \in Streams
              /\ streams' = [streams EXCEPT ![id] = [streams[id] EXCEPT !.queue = Tail(@)]]
    BY DrainIs
  <1>2. error.id = id /\ end.id = id /\ item.id = id
    BY DEF T!Frame
  <1>3. id <= sub.id /\ sub.id \in Nat /\ live
    BY <1>1 DEF FeedTypes, Subscriptions
  <1>4. CASE /\ error \in Frames /\ end \in Frames
             /\ down' = Append(Append(down, error), end)
             /\ streams' = [each \in DOMAIN streams \ {id} |-> streams[each]]
    <2> HIDE DEF error, end
    <2>1. /\ Append(down, error) \in Seq(Frames)
          /\ \A i \in 1 .. Len(Append(down, error)) : Append(down, error)[i].id <= sub.id
      BY <1>2, <1>3, <1>4, DownJoins
    <2>2. /\ down' \in Seq(Frames) /\ \A i \in 1 .. Len(down') : down'[i].id <= sub.id
      BY <1>2, <1>3, <1>4, <2>1, FrameJoins
    <2>3. \A each \in DOMAIN streams' : each \in 0 .. sub.id /\ streams'[each] \in Streams
      BY <1>4 DEF FeedTypes
    <2>4. QED
      BY <1>1, <1>3, <2>2, <2>3 DEF FeedTypes
  <1>5. CASE /\ item \in Frames
             /\ down' = Append(down, item)
             /\ [streams[id] EXCEPT !.queue = Tail(@)] \in Streams
             /\ streams' = [streams EXCEPT ![id] = [streams[id] EXCEPT !.queue = Tail(@)]]
    <2> HIDE DEF item
    <2>1. down' \in Seq(Frames) /\ \A i \in 1 .. Len(down') : down'[i].id <= sub.id
      BY <1>2, <1>3, <1>5, DownJoins
    <2>2. \A each \in DOMAIN streams' : each \in 0 .. sub'.id /\ streams'[each] \in Streams
      BY <1>1, <1>5, StreamsReplaced
    <2>3. QED
      BY <1>1, <1>3, <2>1, <2>2 DEF FeedTypes
  <1>6. QED
    BY <1>1, <1>4, <1>5

\* A new connection, and the end of one.
LEMMA ConnectTypes == ASSUME FeedTypes, T!Connect PROVE FeedTypes'
  <1>1. /\ live' = TRUE /\ UNCHANGED <<head, streams, down, sub, got>>
        /\ up' = IF sub.held THEN <<T!Ask(sub)>> ELSE <<>>
    BY DEF T!Connect
  <1>2. T!Ask(sub) \in Frames /\ T!Ask(sub).id = sub.id /\ sub.id \in Nat
    BY AskIsFrame DEF FeedTypes, Subscriptions
  <1>3. up' \in Seq(Frames) /\ \A i \in 1 .. Len(up') : up'[i].id <= sub.id
    <2>1. CASE sub.held
      <3> HIDE DEF T!Ask
      <3>1. up' = <<T!Ask(sub)>>
        BY <1>1, <2>1
      <3>2. QED
        BY <1>2, <3>1
    <2>2. CASE ~sub.held
      BY <1>1, <2>2
    <2>3. QED
      BY <2>1, <2>2
  <1>4. QED
    BY <1>1, <1>3 DEF FeedTypes

\* A connection fails.
LEMMA DropTypes == ASSUME FeedTypes, T!Drop PROVE FeedTypes'
  <1>1. /\ live' = FALSE /\ up' = <<>> /\ down' = <<>> /\ streams' = <<>>
        /\ UNCHANGED <<head, sub, got>>
    BY DEF T!Drop
  <1>2. DOMAIN streams' = {} /\ <<>> \in Seq(Frames) /\ \A i \in 1 .. Len(<<>>) : FALSE
    BY <1>1
  <1>3. QED
    BY <1>1, <1>2 DEF FeedTypes

\* A reader comes.
NewSub == [T!NoSub(sub.id + 1) EXCEPT !.held = TRUE, !.after = Len(got)]

\* It asks from its last event, under an id of its own.
LEMMA SubscribeIs ==
  ASSUME FeedTypes, T!Subscribe
  PROVE  /\ live /\ ~sub.held /\ sub.items = <<>> /\ sub' = NewSub /\ NewSub \in Subscriptions
         /\ NewSub.id = sub.id + 1 /\ NewSub.held /\ NewSub.items = <<>>
         /\ NewSub.after = Len(got) /\ NewSub.last = 0
         /\ up' = Append(up, T!Ask(NewSub)) /\ UNCHANGED <<head, streams, down, live, got>>
  <1>1. sub.id \in Nat /\ Len(got) \in Nat
    BY DEF FeedTypes, Subscriptions
  <1>2. T!NoSub(sub.id + 1) \in Subscriptions
    BY <1>1 DEF T!NoSub, Subscriptions
  <1>3. NewSub \in Subscriptions
    BY <1>1, <1>2 DEF NewSub, Subscriptions
  <1>4. /\ NewSub.id = sub.id + 1 /\ NewSub.held = TRUE /\ NewSub.items = <<>>
        /\ NewSub.after = Len(got) /\ NewSub.last = 0
    BY DEF NewSub, T!NoSub
  <1>5. /\ live /\ ~sub.held /\ sub.items = <<>> /\ sub' = NewSub
        /\ up' = Append(up, T!Ask(NewSub)) /\ UNCHANGED <<head, streams, down, live, got>>
    BY DEF T!Subscribe, NewSub
  <1>6. QED
    BY <1>3, <1>4, <1>5

\* A reader comes.
LEMMA SubscribeTypes == ASSUME FeedTypes, T!Subscribe PROVE FeedTypes'
  <1>1. /\ live /\ sub' = NewSub /\ NewSub \in Subscriptions
        /\ up' = Append(up, T!Ask(NewSub)) /\ UNCHANGED <<head, streams, down, live, got>>
    BY SubscribeIs
  <1>2. T!Ask(NewSub) \in Frames /\ T!Ask(NewSub).id = NewSub.id
    BY <1>1, AskIsFrame
  <1>3. NewSub.id = sub.id + 1 /\ sub.id \in Nat
    BY SubscribeIs DEF FeedTypes, Subscriptions
  <1> HIDE DEF NewSub
  <1>4. \A i \in 1 .. Len(up) : up[i].id <= NewSub.id
    <2> SUFFICES ASSUME NEW i \in 1 .. Len(up) PROVE up[i].id <= NewSub.id
      OBVIOUS
    <2>1. up[i].id <= sub.id /\ up[i] \in Frames
      BY DEF FeedTypes
    <2>2. up[i].id \in Nat
      BY <2>1 DEF Frames
    <2>3. QED
      BY <1>3, <2>1, <2>2
  <1>5. up' \in Seq(Frames) /\ \A i \in 1 .. Len(up') : up'[i].id <= NewSub.id
    <2>1. up \in Seq(Frames) /\ NewSub.id \in Nat /\ T!Ask(NewSub).id <= NewSub.id
      BY <1>2, <1>3 DEF FeedTypes
    <2>2. QED
      BY <1>1, <1>2, <1>4, <2>1, FrameJoins
  <1>6. \A i \in 1 .. Len(down) : down[i].id <= NewSub.id
    <2> SUFFICES ASSUME NEW i \in 1 .. Len(down) PROVE down[i].id <= NewSub.id
      OBVIOUS
    <2>1. down[i].id <= sub.id /\ down[i] \in Frames
      BY DEF FeedTypes
    <2>2. down[i].id \in Nat
      BY <2>1 DEF Frames
    <2>3. QED
      BY <1>3, <2>1, <2>2
  <1>7. \A id \in DOMAIN streams : id \in 0 .. NewSub.id /\ streams[id] \in Streams
    BY <1>3 DEF FeedTypes
  <1>8. QED
    BY <1>1, <1>5, <1>6, <1>7 DEF FeedTypes

\* A reader goes.
LEMMA ReleaseTypes ==
  ASSUME FeedTypes, T!Release, UNCHANGED <<head, streams, down, live, got>>
  PROVE  FeedTypes' /\ sub'.id = sub.id /\ ~sub'.held /\ sub'.items = <<>>
  <1>1. sub \in Subscriptions /\ up \in Seq(Frames) /\ sub.id \in Nat
    BY DEF FeedTypes, Subscriptions
  <1>2. sub' \in Subscriptions /\ sub'.id = sub.id /\ sub'.held = FALSE /\ sub'.items = <<>>
    <2>1. <<>> \in Seq(Nat)
      OBVIOUS
    <2>2. QED
      BY <1>1, <2>1 DEF T!Release, T!Released, Subscriptions
  <1>3. up' \in Seq(Frames) /\ \A i \in 1 .. Len(up') : up'[i].id <= sub.id
    <2>1. T!Frame("cancel", sub.id, 0) \in Frames /\ T!Frame("cancel", sub.id, 0).id <= sub.id
      BY <1>1, FrameIs
    <2>2. up' = Append(up, T!Frame("cancel", sub.id, 0)) \/ up' = up
      BY DEF T!Release
    <2>3. QED
      BY <2>1, <2>2, UpJoins DEF FeedTypes
  <1>4. ~live' => up' = <<>>
    BY DEF T!Release, FeedTypes
  <1>5. QED
    BY <1>1, <1>2, <1>3, <1>4 DEF FeedTypes

\* A frame reaches the client: an item, an error or an end of the subscription that is held.
LEMMA AnswerIs ==
  ASSUME FeedTypes, T!Answer
  PROVE  /\ down # <<>> /\ down[1] \in Frames /\ down' = Tail(down)
         /\ down' \in Seq(Frames) /\ \A i \in 1 .. Len(down') : down'[i].id <= sub.id
         /\ UNCHANGED <<head, streams, up, live, got>> /\ live /\ sub' \in Subscriptions
         /\ sub'.id = sub.id
         /\ \/ sub' = sub /\ (sub.held => ~ItsItem(down[1]))
            \/ /\ sub.held /\ ItsItem(down[1]) /\ sub'.held = TRUE /\ sub'.after = sub.after
               /\ sub'.last = down[1].n /\ sub'.items = Append(sub.items, down[1].n)
            \/ /\ sub.held /\ ~ItsItem(down[1]) /\ sub'.held = TRUE
               /\ sub'.items = Append(sub.items, T!Overflow)
            \/ sub.held /\ ~ItsItem(down[1]) /\ sub'.held = FALSE /\ sub'.items = sub.items
  <1> DEFINE frame == down[1]
  <1>1. /\ down # <<>> /\ sub.id \in Nat /\ down \in Seq(Frames)
        /\ \A i \in 1 .. Len(down) : down[i].id <= sub.id
        /\ UNCHANGED <<head, streams, up, live, got>> /\ live /\ down' = Tail(down)
    BY DEF FeedTypes, Subscriptions, T!Answer
  <1>2. /\ Head(down) \in Frames /\ Head(down) = frame
        /\ Tail(down) \in Seq(Frames) /\ \A i \in 1 .. Len(Tail(down)) : Tail(down)[i].id <= sub.id
    BY <1>1, FrameLeaves
  <1>3. sub' = IF sub.held /\ frame.id = sub.id THEN T!Answered(frame) ELSE sub
    BY <1>2 DEF T!Answer
  <1>4. sub \in Subscriptions /\ frame \in Frames
    BY <1>2 DEF FeedTypes
  <1>5. /\ Append(sub.items, frame.n) \in Seq(Nat) /\ Append(sub.items, T!Overflow) \in Seq(Nat)
        /\ frame.n \in Nat
    BY <1>4 DEF Subscriptions, Frames, T!Overflow
  <1> HIDE DEF frame
  <1>6. CASE ~(sub.held /\ frame.id = sub.id)
    BY <1>1, <1>2, <1>3, <1>4, <1>6 DEF frame, ItsItem
  <1>7. CASE sub.held /\ frame.id = sub.id /\ frame.kind = "item"
    <2>1. sub' = [sub EXCEPT !.last = frame.n, !.items = Append(@, frame.n)]
      BY <1>3, <1>7 DEF T!Answered
    <2>2. /\ sub' \in Subscriptions /\ sub'.id = sub.id /\ sub'.held = sub.held
          /\ sub'.after = sub.after
          /\ sub'.last = frame.n /\ sub'.items = Append(sub.items, frame.n)
      BY <1>4, <1>5, <2>1 DEF Subscriptions
    <2>3. sub'.held = TRUE
      BY <1>4, <1>7, <2>2 DEF Subscriptions
    <2>4. QED
      BY <1>1, <1>2, <1>4, <1>7, <2>2, <2>3 DEF frame, ItsItem
  <1>8. CASE sub.held /\ frame.id = sub.id /\ frame.kind = "error"
    <2>1. sub' = [sub EXCEPT !.items = Append(@, T!Overflow)]
      BY <1>3, <1>8 DEF T!Answered
    <2>2. /\ sub' \in Subscriptions /\ sub'.id = sub.id /\ sub'.held = sub.held
          /\ sub'.items = Append(sub.items, T!Overflow)
      BY <1>4, <1>5, <2>1 DEF Subscriptions
    <2>3. sub'.held = TRUE
      BY <1>4, <1>8, <2>2 DEF Subscriptions
    <2>4. QED
      BY <1>1, <1>2, <1>4, <1>8, <2>2, <2>3 DEF frame, ItsItem
  <1>9. CASE sub.held /\ frame.id = sub.id /\ frame.kind = "end"
    <2>1. sub' = [sub EXCEPT !.held = FALSE]
      BY <1>3, <1>9 DEF T!Answered
    <2>2. /\ sub' \in Subscriptions /\ sub'.id = sub.id /\ sub'.held = FALSE
          /\ sub'.items = sub.items
      BY <1>4, <2>1 DEF Subscriptions
    <2>3. QED
      BY <1>1, <1>2, <1>4, <1>9, <2>2 DEF frame, ItsItem
  <1>10. CASE sub.held /\ frame.id = sub.id /\ frame.kind \notin {"item", "error", "end"}
    <2>1. sub' = sub
      BY <1>3, <1>10 DEF T!Answered
    <2>2. QED
      BY <1>1, <1>2, <1>4, <1>10, <2>1 DEF frame, ItsItem
  <1>11. QED
    BY <1>6, <1>7, <1>8, <1>9, <1>10

\* A frame reaches the client.
LEMMA AnswerTypes == ASSUME FeedTypes, T!Answer PROVE FeedTypes'
  <1>1. /\ down' \in Seq(Frames) /\ \A i \in 1 .. Len(down') : down'[i].id <= sub.id
        /\ UNCHANGED <<head, streams, up, live, got>> /\ live /\ sub' \in Subscriptions
        /\ sub'.id = sub.id
    BY AnswerIs
  <1>2. QED
    BY <1>1 DEF FeedTypes

\* The reader takes an item, or the error.
LEMMA RenderIs ==
  ASSUME FeedTypes, T!Render
  PROVE  /\ sub.items # <<>> /\ UNCHANGED <<head, streams, down, live>>
         /\ \/ /\ sub.items[1] # T!Overflow /\ got' = Append(got, sub.items[1]) /\ sub' \in Subscriptions
               /\ sub'.items = Tail(sub.items) /\ sub'.held = sub.held /\ sub'.id = sub.id
               /\ sub'.last = sub.last /\ sub'.after = sub.after /\ up' = up
            \/ T!Release /\ got' = got
  <1>1. sub \in Subscriptions /\ sub.items \in Seq(Nat) /\ sub.items # <<>>
    BY DEF FeedTypes, Subscriptions, T!Render
  <1>2. Head(sub.items) = sub.items[1] /\ Tail(sub.items) \in Seq(Nat)
    BY <1>1
  <1>3. CASE Head(sub.items) # T!Overflow /\ sub' = [sub EXCEPT !.items = Tail(@)] /\ up' = up
    <2>1. /\ sub' \in Subscriptions /\ sub'.items = Tail(sub.items) /\ sub'.held = sub.held
          /\ sub'.id = sub.id
          /\ sub'.last = sub.last /\ sub'.after = sub.after
      BY <1>1, <1>2, <1>3 DEF Subscriptions
    <2>2. QED
      BY <1>1, <1>2, <1>3, <2>1 DEF T!Render
  <1>4. CASE Head(sub.items) = T!Overflow
    BY <1>1, <1>4 DEF T!Render
  <1>5. QED
    BY <1>3, <1>4 DEF T!Render

\* The reader takes what it is given.
LEMMA RenderTypes == ASSUME FeedTypes, T!Render PROVE FeedTypes'
  <1>1. CASE /\ got' = Append(got, sub.items[1]) /\ sub' \in Subscriptions /\ sub'.id = sub.id
             /\ up' = up
             /\ sub.items # <<>>
    <2>1. sub.items[1] \in Nat /\ got \in Seq(Nat)
      <3>1. sub.items \in Seq(Nat)
        BY DEF FeedTypes, Subscriptions
      <3>2. QED
        BY <1>1, <3>1 DEF FeedTypes
    <2>2. got' \in Seq(Nat)
      BY <1>1, <2>1
    <2>3. QED
      BY <1>1, <2>2, RenderIs DEF FeedTypes
  <1>2. CASE T!Release /\ got' = got
    BY <1>2, RenderIs, ReleaseTypes
  <1>3. QED
    BY <1>1, <1>2, RenderIs

\* Every step keeps the types.
LEMMA FeedTypesStep == ASSUME FeedTypes, T!Next PROVE FeedTypes'
  <1>1. CASE T!AppendEvent
    BY <1>1, AppendTypes
  <1>2. CASE T!Receive
    BY <1>2, ReceiveTypes
  <1>3. CASE T!Opens
    BY <1>3, OpenTypes DEF T!Opens
  <1>4. CASE T!Fills
    BY <1>4, FillTypes DEF T!Fills
  <1>5. CASE T!Drains
    BY <1>5, DrainTypes DEF T!Drains
  <1>6. CASE T!Connect
    BY <1>6, ConnectTypes
  <1>7. CASE T!Drop
    BY <1>7, DropTypes
  <1>8. CASE T!Subscribe
    BY <1>8, SubscribeTypes
  <1>9. CASE T!Leave
    BY <1>9, ReleaseTypes DEF T!Leave
  <1>10. CASE T!Answer
    BY <1>10, AnswerTypes
  <1>11. CASE T!Render
    BY <1>11, RenderTypes
  <1>12. QED
    BY <1>1, <1>2, <1>3, <1>4, <1>5, <1>6, <1>7, <1>8, <1>9, <1>10, <1>11 DEF T!Next

-----------------------------------------------------------------------------
(* What the reader takes, and what is on the way to it.                    *)

\* What is held.
LEMMA ReachedIs ==
  FeedTypes => /\ Reached \in Nat /\ Len(got) \in Nat /\ Len(sub.items) \in Nat /\ head \in Nat
               /\ sub.items \in Seq(Nat) /\ sub.id \in Nat /\ down \in Seq(Frames)
               /\ Len(down) \in Nat /\ Len(up) \in Nat
  BY DEF FeedTypes, Subscriptions, Reached

\* What the way there tells.
LEMMA FollowingGives ==
  ASSUME FeedTypes, Following, Clean
  PROVE  /\ AsksOn
         /\ \E f, e : /\ Chain(f, down, Reached) /\ e = f[Len(down) + 1] /\ e \in Nat /\ e <= head
                      /\ ServerFrom(e)
  <1>1. PICK f : Chain(f, down, Reached) /\ ServerFrom(f[Len(down) + 1])
    BY DEF Following
  <1>2. f[Len(down) + 1] \in Nat /\ f[Len(down) + 1] <= head
    BY <1>1, ReachedIs DEF Chain
  <1>3. QED
    BY <1>1, <1>2 DEF Following

\* And what it takes to tell it of the next state.
LEMMA FollowsOn ==
  ASSUME FeedTypes, FeedTypes', sub'.id = sub.id, head <= head', AsksOn',
         NEW CONSTANT f, NEW CONSTANT e, Chain(f, down', Reached'), f[Len(down') + 1] = e, ServerFrom(e)'
  PROVE  Following'
  <1>1. PICK frames : frames = down'
    OBVIOUS
  <1>2. PICK r : r = Reached'
    OBVIOUS
  <1>3. Chain(f, frames, r)'
    <2>1. head \in Nat /\ head' \in Nat /\ Len(frames) \in Nat
      BY <1>1 DEF FeedTypes
    <2>2. Chain(f, frames, r)
      BY <1>1, <1>2 DEF Chain
    <2>3. QED
      BY <2>1, <2>2, ChainStays
  <1>4. Chain(f, down, Reached)'
    BY <1>1, <1>2, <1>3 DEF Chain, Linked, ItsItem
  <1>5. ServerFrom(f[Len(down) + 1])'
    <2>1. f[Len(down') + 1] = e
      OBVIOUS
    <2>2. QED
      BY <2>1 DEF ServerFrom, AskedFrom, StreamFrom
  <1>6. QED
    BY <1>4, <1>5 DEF Following

\* A reader that has left, or met an error, is owed nothing yet.
LEMMA LeftFollows ==
  ASSUME ~Clean' PROVE Following'
  BY DEF Following

\* A state that leaves the reader as it is.
LEMMA RenderingStays ==
  ASSUME FeedTypes, FeedTypes', Rendering, head <= head', got' = got, sub'.items = sub.items
  PROVE  Rendering'
  <1>1. /\ head \in Nat /\ head' \in Nat /\ Len(got) \in Nat /\ sub.items \in Seq(Nat)
        /\ Len(sub.items) \in Nat
    BY DEF FeedTypes, Subscriptions
  <1>2. Len(got) <= head'
    BY <1>1 DEF Rendering
  <1>3. ASSUME NEW i \in 1 .. Len(sub.items), \A j \in 1 .. i : sub.items[j] # T!Overflow
        PROVE  sub.items[i] = Len(got) + i /\ sub.items[i] <= head'
    <2>1. sub.items[i] = Len(got) + i /\ sub.items[i] <= head
      BY <1>3 DEF Rendering
    <2>2. QED
      BY <1>1, <2>1
  <1>4. QED
    BY <1>2, <1>3 DEF Rendering

\* The reader's next item is its next event.
LEMMA RenderRenders ==
  ASSUME FeedTypes, Rendering, T!Render, got' # got
  PROVE  Rendering' /\ Len(got) < head /\ got' = Append(got, Len(got) + 1) /\ head' = head
  <1>1. /\ sub.items \in Seq(Nat) /\ sub.items # <<>> /\ sub.items[1] # T!Overflow
        /\ got' = Append(got, sub.items[1]) /\ sub'.items = Tail(sub.items)
        /\ UNCHANGED <<head, down, streams>>
        /\ got \in Seq(Nat) /\ head \in Nat
    BY RenderIs DEF FeedTypes, Subscriptions
  <1>2. sub.items[1] = Len(got) + 1 /\ sub.items[1] <= head
    <2>1. 1 \in 1 .. Len(sub.items) /\ \A j \in 1 .. 1 : sub.items[j] # T!Overflow
      BY <1>1
    <2>2. QED
      BY <2>1 DEF Rendering
  <1>3. Len(got') = Len(got) + 1 /\ Len(got) \in Nat
    BY <1>1
  <1>4. ASSUME NEW i \in 1 .. Len(sub'.items), \A j \in 1 .. i : sub'.items[j] # T!Overflow
        PROVE  sub'.items[i] = Len(got') + i /\ sub'.items[i] <= head
    <2>1. i + 1 \in 1 .. Len(sub.items) /\ sub'.items[i] = sub.items[i + 1]
      BY <1>1
    <2>2. \A j \in 1 .. i + 1 : sub.items[j] # T!Overflow
      <3> SUFFICES ASSUME NEW j \in 1 .. i + 1 PROVE sub.items[j] # T!Overflow
        OBVIOUS
      <3>1. CASE j = 1
        BY <1>1, <3>1
      <3>2. CASE j # 1
        <4>1. j - 1 \in 1 .. i /\ j - 1 + 1 = j /\ j \in 1 .. Len(sub.items)
          BY <2>1, <3>2, <1>1
        <4>2. sub'.items[j - 1] = sub.items[j]
          BY <1>1, <4>1
        <4>3. QED
          BY <1>4, <4>1, <4>2
      <3>3. QED
        BY <3>1, <3>2
    <2>3. sub.items[i + 1] = Len(got) + (i + 1) /\ sub.items[i + 1] <= head
      BY <2>1, <2>2 DEF Rendering
    <2>4. QED
      BY <1>3, <2>1, <2>3
  <1>5. Rendering'
    BY <1>1, <1>2, <1>3, <1>4 DEF Rendering
  <1>6. QED
    BY <1>1, <1>2, <1>3, <1>5

\* The log grows.
LEMMA AppendFollows == ASSUME FeedTypes, Following, T!AppendEvent PROVE Following'
  <1>1. /\ FeedTypes' /\ head' = head + 1 /\ head \in Nat /\ head <= head'
        /\ UNCHANGED <<up, down, live, sub, got>> /\ DOMAIN streams' = DOMAIN streams
        /\ \A id \in DOMAIN streams :
             streams'[id] = IF streams[id].open /\ ~streams[id].full
                            THEN [streams[id] EXCEPT !.subscriber = Append(@, head + 1)]
                            ELSE streams[id]
    BY AppendTypes DEF FeedTypes, T!AppendEvent
  <1>2. CASE ~Clean
    BY <1>1, <1>2, LeftFollows DEF Clean
  <1>3. CASE Clean
    <2>1. PICK f, e : /\ Chain(f, down, Reached) /\ e = f[Len(down) + 1] /\ e \in Nat /\ e <= head
                      /\ ServerFrom(e)
      BY <1>3, FollowingGives
    <2>2. AsksOn'
      <3>1. AsksOn
        BY <1>3, FollowingGives
      <3>2. Reached \in Nat
        BY ReachedIs
      <3>3. QED
        BY <1>1, <3>1, <3>2 DEF AsksOn, Reached, T!Ask
    <2>3. AskedFrom(e)'
      BY <1>1, <2>1 DEF ServerFrom, AskedFrom, ItsAsk
    <2>4. ASSUME sub.id \in DOMAIN streams PROVE StreamFrom(streams[sub.id], e)'
      <3> DEFINE s == streams[sub.id]
                 t == [s EXCEPT !.subscriber = Append(@, head + 1)]
      <3>1. s \in Streams /\ StreamFrom(s, e)
        BY <2>1, <2>4 DEF FeedTypes, ServerFrom
      <3>2. CASE s.open /\ ~s.full
        <4>1. /\ t.open = s.open /\ t.full = s.full /\ t.after = s.after /\ t.replay = s.replay
              /\ t.queue = s.queue /\ t.subscriber = Append(s.subscriber, head + 1)
          BY <3>1 DEF Streams
        <4>2. streams'[sub.id] = t
          BY <1>1, <2>4, <3>2
        <4> HIDE DEF t, s
        <4>3. s.subscriber \in Seq(Nat) /\ s.queue \in Seq(Nat) /\ s.replay \in Seq(Nat)
          BY <3>1 DEF Streams
        <4> DEFINE ahead == e + Len(s.queue) + Len(s.replay)
        <4>4. /\ \A i \in 1 .. Len(s.queue) : s.queue[i] = e + i
              /\ \A i \in 1 .. Len(s.replay) : s.replay[i] = e + Len(s.queue) + i
              /\ \A i \in 1 .. Len(s.subscriber) : s.subscriber[i] = ahead + i
              /\ ahead + Len(s.subscriber) = head /\ s.after <= ahead
          BY <3>1, <3>2 DEF StreamFrom
        <4>5. ahead \in Nat
          BY <2>1, <4>3
        <4> HIDE DEF ahead
        <4>6. /\ \A i \in 1 .. Len(t.subscriber) : t.subscriber[i] = ahead + i
              /\ ahead + Len(t.subscriber) = head'
          BY SMTT(30), <1>1, <4>1, <4>3, <4>4, <4>5
        <4>7. t.open /\ ~t.full /\ ahead = e + Len(t.queue) + Len(t.replay)
          BY <3>2, <4>1 DEF ahead
        <4>8. PICK u : u = t
          OBVIOUS
        <4>9. StreamFrom(u, e)'
          BY <1>1, <4>1, <4>4, <4>6, <4>7, <4>8 DEF StreamFrom, ahead
        <4>10. streams'[sub'.id] = u
          BY <1>1, <4>2, <4>8
        <4>11. QED
          BY <4>9, <4>10 DEF StreamFrom
      <3>3. CASE ~(s.open /\ ~s.full)
        <4>1. streams'[sub'.id] = s
          BY <1>1, <2>4, <3>3
        <4> HIDE DEF s
        <4>2. ASSUME s.full
              PROVE  \A i \in 1 .. Len(s.queue) - 1 : s.queue[i] = e + i /\ e + i <= head'
          <5>1. \A i \in 1 .. Len(s.queue) - 1 : s.queue[i] = e + i /\ e + i <= head /\ i \in Int
            BY <3>1, <4>2 DEF StreamFrom
          <5>2. QED
            BY <1>1, <2>1, <5>1
        <4>3. QED
          BY <3>1, <3>3, <4>1, <4>2 DEF StreamFrom
      <3>4. QED
        BY <3>2, <3>3
    <2>5. Chain(f, down', Reached') /\ f[Len(down') + 1] = e /\ ServerFrom(e)'
      <3>1. Reached' = Reached
        BY <1>1 DEF Reached
      <3>2. QED
        BY <1>1, <2>1, <2>3, <2>4, <3>1 DEF ServerFrom
    <2>6. QED
      BY <1>1, <2>2, <2>5, FollowsOn
  <1>4. QED
    BY <1>2, <1>3

\* A frame more on its way, that is no event of the reader's, or is its next one.
LEMMA FrameFollows ==
  ASSUME FeedTypes, FeedTypes', Clean, AsksOn, NEW frame \in Frames, down' = Append(down, frame),
         UNCHANGED <<head, sub, got>>, NEW CONSTANT f, NEW CONSTANT e,
         Chain(f, down, Reached), e = f[Len(down) + 1],
         ItsItem(frame) => frame.n = e + 1 /\ frame.n <= head,
         ServerFrom(Past(frame, e))'
  PROVE  Following'
  <1>1. \E g : Chain(g, Append(down, frame), Reached) /\ g[Len(down) + 2] = Past(frame, e)
    BY ReachedIs, ChainGrows
  <1>2. PICK next : next = Past(frame, e)
    OBVIOUS
  <1>3. PICK g : Chain(g, Append(down, frame), Reached) /\ g[Len(down) + 2] = next
    BY <1>1, <1>2
  <1>4. Len(down') + 1 = Len(down) + 2
    BY ReachedIs
  <1>5. Reached' = Reached /\ AsksOn'
    BY DEF Reached, AsksOn, T!Ask
  <1>6. ServerFrom(next)'
    <2>1. Past(frame, e)' = Past(frame, e)
      BY DEF Past, ItsItem
    <2>2. QED
      BY <1>2, <2>1 DEF ServerFrom, AskedFrom, StreamFrom
  <1>7. head <= head' /\ sub'.id = sub.id
    BY ReachedIs
  <1>8. QED
    BY <1>3, <1>4, <1>5, <1>6, <1>7, FollowsOn

\* The server's requests and its stream, when the reader's are not the ones it takes a step with.
LEMMA AskShifts ==
  ASSUME FeedTypes, up # <<>>, up' = Tail(up), sub' = sub, NEW CONSTANT e, AskedFrom(e),
         sub.id \in DOMAIN streams' => sub.id \in DOMAIN streams
  PROVE  AskedFrom(e)'
  <1>1. up \in Seq(Frames)
    BY DEF FeedTypes
  <1>2. /\ Len(up) \in Nat \ {0} /\ Len(up') = Len(up) - 1
        /\ \A i \in 1 .. Len(up') : up'[i] = up[i + 1]
    BY <1>1
  <1> SUFFICES ASSUME NEW i \in 1 .. Len(up'), ItsAsk(up'[i])
               PROVE  /\ up'[i].n = e /\ sub.id \notin DOMAIN streams'
                      /\ \A j \in 1 .. Len(up') : ItsAsk(up'[j]) => j = i
    BY DEF AskedFrom, ItsAsk
  <1>3. i + 1 \in 1 .. Len(up) /\ up'[i] = up[i + 1]
    BY <1>2
  <1>4. /\ up[i + 1].n = e /\ sub.id \notin DOMAIN streams
        /\ \A j \in 1 .. Len(up) : ItsAsk(up[j]) => j = i + 1
    BY <1>3 DEF AskedFrom
  <1>5. \A j \in 1 .. Len(up') : j + 1 \in 1 .. Len(up) /\ (ItsAsk(up'[j]) => ItsAsk(up[j + 1]))
    BY <1>2
  <1>6. ASSUME NEW j \in 1 .. Len(up'), ItsAsk(up'[j]) PROVE j = i
    <2>1. j + 1 = i + 1
      BY <1>4, <1>5, <1>6
    <2>2. QED
      BY <2>1
  <1>7. QED
    BY <1>3, <1>4, <1>6

\* A stream that the step leaves alone.
LEMMA StreamStays ==
  ASSUME head' = head, sub' = sub, NEW CONSTANT e, streams'[sub.id] = streams[sub.id],
         StreamFrom(streams[sub.id], e)
  PROVE  StreamFrom(streams[sub.id], e)'
  <1>1. PICK s : s = streams[sub.id]
    OBVIOUS
  <1>2. StreamFrom(s, e)'
    BY <1>1 DEF StreamFrom
  <1>3. streams'[sub'.id] = s
    BY <1>1
  <1>4. QED
    BY <1>2, <1>3 DEF StreamFrom

\* The server takes a frame: the reader's, and it has its stream from there.
LEMMA ReceiveFollows == ASSUME FeedTypes, Following, T!Receive PROVE Following'
  <1> DEFINE frame == up[1]
  <1>1. /\ up # <<>> /\ up' = Tail(up) /\ frame \in Frames /\ ReceivedFrame(frame)
        /\ UNCHANGED <<head, live, sub, got>> /\ FeedTypes' /\ up \in Seq(Frames)
    BY ReceiveIs, ReceiveTypes DEF FeedTypes
  <1>2. /\ Len(up) \in Nat \ {0} /\ Len(up') = Len(up) - 1
        /\ \A i \in 1 .. Len(up') : up'[i] = up[i + 1]
    BY <1>1
  <1>3. CASE ~Clean
    BY <1>1, <1>3, LeftFollows DEF Clean
  <1>4. CASE Clean
    <2>1. PICK f, e : /\ Chain(f, down, Reached) /\ e = f[Len(down) + 1] /\ e \in Nat /\ e <= head
                      /\ ServerFrom(e)
      BY <1>4, FollowingGives
    <2>2. AsksOn /\ AsksOn' /\ Reached' = Reached
      BY <1>1, <1>4, FollowingGives DEF AsksOn, Reached, T!Ask
    <2>3. AskedFrom(e)
      BY <2>1 DEF ServerFrom
    <2> HIDE DEF frame
    <2>4. CASE frame.kind = "subscribe"
      <3>1. /\ frame.id \notin DOMAIN streams
            /\ streams' = [id \in DOMAIN streams \union {frame.id} |->
                  IF id = frame.id
                  THEN [open |-> FALSE, full |-> FALSE, after |-> frame.n,
                        replay |-> <<>>, subscriber |-> <<>>, queue |-> <<>>]
                  ELSE streams[id]]
            /\ UNCHANGED down
        BY <1>1, <2>4 DEF ReceivedFrame
      <3>2. CASE frame.id = sub.id
        <4>1. /\ ItsAsk(up[1]) /\ 1 \in 1 .. Len(up)
          BY <1>2, <2>4, <3>2 DEF frame, ItsAsk
        <4>2. /\ up[1].n = e /\ \A j \in 1 .. Len(up) : ItsAsk(up[j]) => j = 1
          BY <2>3, <4>1 DEF AskedFrom
        <4>3. \A i \in 1 .. Len(up') : ~ItsAsk(up'[i])
          <5> SUFFICES ASSUME NEW i \in 1 .. Len(up') PROVE ~ItsAsk(up'[i])
            OBVIOUS
          <5>1. i + 1 \in 1 .. Len(up) /\ i + 1 # 1 /\ up'[i] = up[i + 1]
            BY <1>2
          <5>2. QED
            BY <4>2, <5>1
        <4>4. AskedFrom(e)'
          BY <1>1, <4>3 DEF AskedFrom, ItsAsk
        <4>5. /\ sub.id \in DOMAIN streams'
              /\ streams'[sub.id] = [open |-> FALSE, full |-> FALSE, after |-> frame.n,
                                     replay |-> <<>>, subscriber |-> <<>>, queue |-> <<>>]
          BY <3>1, <3>2
        <4>6. StreamFrom(streams[sub.id], e)'
          <5>1. streams'[sub'.id] = [open |-> FALSE, full |-> FALSE, after |-> e,
                                     replay |-> <<>>, subscriber |-> <<>>, queue |-> <<>>]
            BY <1>1, <4>2, <4>5 DEF frame
          <5>2. QED
            BY <5>1 DEF StreamFrom
        <4>7. ServerFrom(e)'
          BY <4>4, <4>6 DEF ServerFrom
        <4>8. QED
          BY <1>1, <2>1, <2>2, <3>1, <4>7, FollowsOn, ReachedIs
      <3>3. CASE frame.id # sub.id
        <4>1. /\ sub.id \in DOMAIN streams' <=> sub.id \in DOMAIN streams
              /\ sub.id \in DOMAIN streams => streams'[sub.id] = streams[sub.id]
          BY <3>1, <3>3
        <4>2. AskedFrom(e)'
          BY <1>1, <2>3, <4>1, AskShifts
        <4>3. sub.id \in DOMAIN streams' => StreamFrom(streams[sub.id], e)'
          BY <1>1, <2>1, <4>1, StreamStays DEF ServerFrom
        <4>4. ServerFrom(e)'
          BY <1>1, <4>2, <4>3 DEF ServerFrom
        <4>5. QED
          BY <1>1, <2>1, <2>2, <3>1, <4>4, FollowsOn, ReachedIs
      <3>4. QED
        BY <3>2, <3>3
    <2>5. CASE frame.kind = "cancel"
      <3>1. /\ \E kind \in {"end", "error"} : down' = Append(down, T!Frame(kind, frame.id, 0))
            /\ DOMAIN streams' \subseteq DOMAIN streams
            /\ \A id \in DOMAIN streams' : streams'[id] = streams[id]
        BY <1>1, <2>5 DEF ReceivedFrame
      <3>2. PICK kind \in {"end", "error"} : down' = Append(down, T!Frame(kind, frame.id, 0))
        BY <3>1
      <3>3. PICK answer : answer = T!Frame(kind, frame.id, 0)
        OBVIOUS
      <3>4. answer \in Frames /\ ~ItsItem(answer) /\ down' = Append(down, answer)
        <4>1. frame.id \in Nat
          BY <1>1 DEF Frames
        <4>2. answer \in Frames /\ answer.kind = kind
          BY <3>3, <4>1, FrameIs
        <4>3. QED
          BY <3>2, <3>3, <4>2 DEF ItsItem
      <3>5. AskedFrom(e)'
        BY <1>1, <2>3, <3>1, AskShifts
      <3>6. sub.id \in DOMAIN streams' => StreamFrom(streams[sub.id], e)'
        BY <1>1, <2>1, <3>1, StreamStays DEF ServerFrom
      <3>7. ServerFrom(Past(answer, e))'
        <4>1. Past(answer, e)' = e
          BY <1>1, <3>4 DEF Past, ItsItem
        <4>2. ServerFrom(e)'
          BY <1>1, <3>5, <3>6 DEF ServerFrom
        <4>3. QED
          BY <4>1, <4>2 DEF ServerFrom, AskedFrom, StreamFrom
      <3>8. QED
        BY <1>1, <1>4, <2>1, <2>2, <3>4, <3>7, FrameFollows
    <2>6. QED
      BY <1>1, <2>4, <2>5 DEF ReceivedFrame
  <1>5. QED
    BY <1>3, <1>4

\* The reader's stream takes a step.
LEMMA ServerChanges ==
  ASSUME UNCHANGED <<head, sub, up>>, NEW CONSTANT e, ServerFrom(e), NEW CONSTANT later,
         sub.id \in DOMAIN streams \/ later = e,
         sub.id \in DOMAIN streams' => sub.id \in DOMAIN streams,
         NEW CONSTANT s, sub.id \in DOMAIN streams' => streams'[sub.id] = s /\ StreamFrom(s, later)
  PROVE  ServerFrom(later)'
  <1>1. AskedFrom(later)'
    BY DEF ServerFrom, AskedFrom, ItsAsk
  <1>2. ASSUME sub'.id \in DOMAIN streams' PROVE StreamFrom(streams[sub.id], later)'
    <2>1. StreamFrom(s, later)'
      BY <1>2 DEF StreamFrom
    <2>2. streams'[sub'.id] = s
      BY <1>2
    <2>3. QED
      BY <2>1, <2>2 DEF StreamFrom
  <1>3. QED
    BY <1>1, <1>2 DEF ServerFrom

\* The reader's stream is opened, or another one.
LEMMA OpenFollows == ASSUME FeedTypes, Following, NEW id, T!Open(id) PROVE Following'
  <1>1. /\ id \in DOMAIN streams /\ streams[id] \in Streams /\ ~streams[id].open
        /\ streams' = [streams EXCEPT ![id] = T!Subscribed(id)]
        /\ T!Frame("subscribed", id, head) \in Frames /\ id \in Nat
        /\ down' = Append(down, T!Frame("subscribed", id, head))
        /\ UNCHANGED <<head, up, live, sub, got>> /\ FeedTypes'
    BY OpenIs, OpenTypes
  <1>2. CASE ~Clean
    BY <1>1, <1>2, LeftFollows DEF Clean
  <1>3. CASE Clean
    <2>1. PICK f, e : /\ Chain(f, down, Reached) /\ e = f[Len(down) + 1] /\ e \in Nat /\ e <= head
                      /\ ServerFrom(e)
      BY <1>3, FollowingGives
    <2>2. PICK s : s = IF id = sub.id THEN T!Subscribed(id) ELSE streams[sub.id]
      OBVIOUS
    <2>3. DOMAIN streams' = DOMAIN streams /\ (sub.id \in DOMAIN streams' => streams'[sub.id] = s)
      BY <1>1, <2>2
    <2>4. ASSUME sub.id \in DOMAIN streams' PROVE StreamFrom(s, e)
      <3>1. StreamFrom(streams[sub.id], e)
        BY <2>1, <2>3, <2>4 DEF ServerFrom
      <3>2. CASE id # sub.id
        BY <2>2, <3>1, <3>2
      <3>3. CASE id = sub.id
        <4>1. /\ streams[id].after = e /\ ~streams[id].full /\ streams[id].queue = <<>>
              /\ streams[id].subscriber = <<>>
          BY <1>1, <3>1, <3>3 DEF StreamFrom
        <4>2. s = [streams[id] EXCEPT !.open = TRUE, !.replay = T!Span(streams[id].after, head)]
          BY <2>2, <3>3 DEF T!Subscribed
        <4>3. /\ s.open = TRUE /\ s.full = streams[id].full /\ s.after = e /\ s.queue = <<>>
              /\ s.subscriber = <<>> /\ s.replay = T!Span(e, head)
          BY <1>1, <4>1, <4>2 DEF Streams
        <4>4. /\ Len(s.replay) = head - e /\ head \in Nat
              /\ \A i \in 1 .. Len(s.replay) : s.replay[i] = e + i
          <5>1. head \in Nat
            BY ReachedIs
          <5>2. /\ Len(T!Span(e, head)) = head - e
                /\ \A i \in 1 .. Len(T!Span(e, head)) : T!Span(e, head)[i] = e + i
            BY <2>1, <5>1, SpanIs
          <5>3. QED
            BY <4>3, <5>1, <5>2
        <4>5. Len(s.queue) = 0 /\ Len(s.subscriber) = 0
          BY <4>3
        <4>6. e + Len(s.queue) + Len(s.replay) = head
          BY <2>1, <4>4, <4>5
        <4>7. s.open /\ ~s.full /\ s.after <= head
          BY <2>1, <4>1, <4>3
        <4>8. /\ \A i \in 1 .. Len(s.queue) : s.queue[i] = e + i
              /\ \A i \in 1 .. Len(s.replay) : s.replay[i] = e + Len(s.queue) + i
              /\ \A i \in 1 .. Len(s.subscriber) : s.subscriber[i] = head + i
              /\ head + Len(s.subscriber) = head
          BY <2>1, <4>4, <4>5
        <4>9. QED
          BY <4>6, <4>7, <4>8 DEF StreamFrom
      <3>4. QED
        BY <3>2, <3>3
    <2>5. ServerFrom(e)'
      BY <1>1, <2>1, <2>3, <2>4, ServerChanges
    <2>6. PICK frame : frame = T!Frame("subscribed", id, head)
      OBVIOUS
    <2>7. frame \in Frames /\ ~ItsItem(frame) /\ down' = Append(down, frame)
      BY <1>1, <2>6 DEF T!Frame, ItsItem
    <2>8. Past(frame, e) = e
      BY <2>7 DEF Past
    <2>9. ServerFrom(Past(frame, e))'
      <3>1. Past(frame, e)' = e
        BY <1>1, <2>8 DEF Past, ItsItem
      <3>2. QED
        BY <2>5, <3>1 DEF ServerFrom, AskedFrom, StreamFrom
    <2>10. QED
      BY <1>1, <1>3, <2>1, <2>7, <2>9, FrameFollows, FollowingGives
  <1>4. QED
    BY <1>2, <1>3

\* An item is read ahead of the socket, the next of the stream, or one too many.
TookAhead(s, t) ==
    \/ /\ t.full = TRUE /\ t.queue = Append(s.queue, T!Overflow)
       /\ Len(s.replay) # 0 \/ Len(s.subscriber) # 0
    \/ /\ t.full = FALSE /\ s.replay # <<>> /\ t.queue = Append(s.queue, Head(s.replay))
       /\ t.replay = Tail(s.replay) /\ t.subscriber = s.subscriber
    \/ /\ t.full = FALSE /\ s.replay = <<>> /\ t.replay = <<>> /\ s.subscriber # <<>>
       /\ t.queue = Append(s.queue, s.subscriber[1])
       /\ t.subscriber = SubSeq(s.subscriber, 2, Len(s.subscriber))

\* Its stream still has the reader's events.
LEMMA AheadFollows ==
  ASSUME head \in Nat, NEW e \in Nat, NEW s \in Streams, s.open, ~s.full, StreamFrom(s, e),
         NEW t \in Streams, t.open = s.open, t.after = s.after, TookAhead(s, t)
  PROVE  StreamFrom(t, e)
  <1> DEFINE q == s.queue
             r == s.replay
             u == s.subscriber
             after == s.after
             tq == t.queue
             tr == t.replay
             tu == t.subscriber
             ahead == e + Len(q) + Len(r)
  <1>1. q \in Seq(Nat) /\ r \in Seq(Nat) /\ u \in Seq(Nat) /\ after \in Nat
    BY DEF Streams
  <1>2. /\ \A i \in 1 .. Len(q) : q[i] = e + i
        /\ \A i \in 1 .. Len(r) : r[i] = e + Len(q) + i
        /\ \A i \in 1 .. Len(u) : u[i] = ahead + i
        /\ ahead + Len(u) = head /\ after <= ahead
    BY DEF StreamFrom
  <1>3. \/ t.full = TRUE /\ tq = Append(q, T!Overflow) /\ (Len(r) # 0 \/ Len(u) # 0)
        \/ t.full = FALSE /\ r # <<>> /\ tq = Append(q, Head(r)) /\ tr = Tail(r) /\ tu = u
        \/ /\ t.full = FALSE /\ r = <<>> /\ tr = <<>> /\ u # <<>>
           /\ tq = Append(q, u[1]) /\ tu = SubSeq(u, 2, Len(u))
    BY DEF TookAhead
  <1>4. ASSUME t.full = TRUE, Len(tq) > 0 /\ tq[Len(tq)] = T!Overflow,
               \A i \in 1 .. Len(tq) - 1 : tq[i] = e + i /\ e + i <= head
        PROVE  StreamFrom(t, e)
    BY <1>4 DEF StreamFrom
  <1>5. ASSUME t.full = FALSE, NEW n, n = e + Len(tq) + Len(tr),
               \A i \in 1 .. Len(tq) : tq[i] = e + i, \A i \in 1 .. Len(tr) : tr[i] = e + Len(tq) + i,
               \A i \in 1 .. Len(tu) : tu[i] = n + i, n + Len(tu) = head, after <= n
        PROVE  StreamFrom(t, e)
    BY <1>5 DEF StreamFrom
  <1> HIDE DEF q, r, u, after, tq, tr, tu
  <1>6. ahead \in Nat /\ Len(q) \in Nat /\ Len(r) \in Nat /\ Len(u) \in Nat
    BY <1>1
  <1>7. CASE t.full = TRUE /\ tq = Append(q, T!Overflow)
    <2>1. /\ Len(tq) = Len(q) + 1 /\ tq[Len(tq)] = T!Overflow
          /\ \A i \in 1 .. Len(q) : tq[i] = q[i]
      BY <1>1, <1>7 DEF T!Overflow
    <2>2. \A i \in 1 .. Len(q) : tq[i] = e + i /\ e + i <= head
      BY <1>2, <1>6, <2>1
    <2>3. Len(tq) > 0 /\ Len(tq) - 1 = Len(q)
      BY <1>6, <2>1
    <2>4. QED
      BY <1>4, <1>7, <2>1, <2>2, <2>3
  <1>8. CASE t.full = FALSE /\ r # <<>> /\ tq = Append(q, Head(r)) /\ tr = Tail(r) /\ tu = u
    <2>1. Head(r) = r[1] /\ 1 \in 1 .. Len(r) /\ r[1] \in Nat
      BY <1>1, <1>8
    <2>2. /\ Len(tq) = Len(q) + 1 /\ tq[Len(q) + 1] = r[1]
          /\ \A i \in 1 .. Len(q) : tq[i] = q[i]
      BY <1>1, <1>8, <2>1
    <2>3. /\ Len(tr) = Len(r) - 1
          /\ \A i \in 1 .. Len(tr) : tr[i] = r[i + 1] /\ i + 1 \in 1 .. Len(r)
      BY <1>1, <1>8
    <2>4. \A i \in 1 .. Len(tq) : tq[i] = e + i
      <3>1. tq[Len(q) + 1] = e + (Len(q) + 1)
        BY <1>2, <1>6, <2>1, <2>2
      <3>2. \A i \in 1 .. Len(q) : tq[i] = e + i
        BY <1>2, <2>2
      <3>3. QED
        BY SMTT(30), <1>6, <2>2, <3>1, <3>2
    <2>5. \A i \in 1 .. Len(tr) : tr[i] = e + Len(tq) + i
      <3>1. \A i \in 1 .. Len(tr) : tr[i] = e + Len(q) + (i + 1)
        BY <1>2, <2>3
      <3>2. QED
        BY <1>6, <2>2, <2>3, <3>1
    <2>6. ahead = e + Len(tq) + Len(tr)
      BY <1>6, <2>2, <2>3
    <2> HIDE DEF ahead
    <2>7. QED
      BY <1>2, <1>5, <1>8, <2>4, <2>5, <2>6
  <1>9. CASE /\ t.full = FALSE /\ r = <<>> /\ tr = <<>> /\ u # <<>>
             /\ tq = Append(q, u[1]) /\ tu = SubSeq(u, 2, Len(u))
    <2>1. Len(r) = 0 /\ Len(tr) = 0 /\ 1 \in 1 .. Len(u) /\ u[1] \in Nat
      BY <1>1, <1>9
    <2>2. /\ Len(tq) = Len(q) + 1 /\ tq[Len(q) + 1] = u[1]
          /\ \A i \in 1 .. Len(q) : tq[i] = q[i]
      BY <1>1, <1>9, <2>1
    <2>3. /\ Len(tu) = Len(u) - 1
          /\ \A i \in 1 .. Len(tu) : tu[i] = u[i + 1] /\ i + 1 \in 1 .. Len(u)
      <3>1. Len(u) \in Nat \ {0}
        BY <1>6, <2>1
      <3>2. /\ Len(SubSeq(u, 2, Len(u))) = Len(u) - 1
            /\ \A i \in 1 .. Len(u) - 1 : SubSeq(u, 2, Len(u))[i] = u[i + 1]
        <4>1. 2 \in Int /\ Len(u) \in Int /\ \A i \in 2 .. Len(u) : u[i] \in Nat
          BY <1>1, <3>1
        <4>2. /\ Len(SubSeq(u, 2, Len(u))) = IF 2 <= Len(u) THEN Len(u) - 2 + 1 ELSE 0
              /\ \A i \in 1 .. Len(u) - 2 + 1 : SubSeq(u, 2, Len(u))[i] = u[2 + i - 1]
          BY <4>1, SubSeqProperties
        <4>3. Len(u) - 2 + 1 = Len(u) - 1 /\ \A i \in 1 .. Len(u) - 1 : 2 + i - 1 = i + 1
          BY <3>1
        <4>4. QED
          BY <3>1, <4>2, <4>3
      <3>3. QED
        BY <1>9, <3>1, <3>2
    <2>4. ahead = e + Len(q)
      BY <1>6, <2>1
    <2> HIDE DEF ahead
    <2>5. \A i \in 1 .. Len(tq) : tq[i] = e + i
      <3>1. tq[Len(q) + 1] = e + (Len(q) + 1)
        BY <1>2, <1>6, <2>1, <2>2, <2>4
      <3>2. \A i \in 1 .. Len(q) : tq[i] = e + i
        BY <1>2, <2>2
      <3>3. QED
        BY <1>6, <2>2, <3>1, <3>2
    <2>6. ahead + 1 = e + Len(tq) + Len(tr)
      BY <1>6, <2>1, <2>2, <2>4
    <2>7. \A i \in 1 .. Len(tu) : tu[i] = ahead + 1 + i
      <3>1. \A i \in 1 .. Len(tu) : tu[i] = ahead + (i + 1)
        BY <1>2, <2>3
      <3>2. QED
        BY <1>6, <3>1
    <2>8. ahead + 1 + Len(tu) = head /\ after <= ahead + 1
      BY <1>1, <1>2, <1>6, <2>3
    <2>9. \A i \in 1 .. Len(tr) : tr[i] = e + Len(tq) + i
      BY <2>1
    <2>10. QED
      BY <1>5, <1>9, <2>5, <2>6, <2>7, <2>8, <2>9
  <1>10. QED
    BY <1>3, <1>7, <1>8, <1>9

\* The reader's stream reads ahead, or another one.
LEMMA FillFollows == ASSUME FeedTypes, Following, NEW id, T!Fill(id) PROVE Following'
  <1>1. /\ id \in DOMAIN streams /\ streams[id] \in Streams /\ streams[id].open /\ ~streams[id].full
        /\ UNCHANGED <<head, up, down, live, sub, got>> /\ FeedTypes'
    BY FillTypes DEF FeedTypes, T!Fill, T!Opened
  <1>2. CASE ~Clean
    BY <1>1, <1>2, LeftFollows DEF Clean
  <1>3. CASE Clean
    <2>1. PICK f, e : /\ Chain(f, down, Reached) /\ e = f[Len(down) + 1] /\ e \in Nat /\ e <= head
                      /\ ServerFrom(e)
      BY <1>3, FollowingGives
    <2>2. \E next : streams' = [streams EXCEPT ![id] = next] /\ (id = sub.id => StreamFrom(next, e))
      <3>1. PICK s : s = streams[id]
        OBVIOUS
      <3>2. /\ s \in Streams /\ s.replay \in Seq(Nat) /\ s.queue \in Seq(Nat)
            /\ s.subscriber \in Seq(Nat)
            /\ s.open /\ ~s.full
        BY <1>1, <3>1 DEF Streams
      <3>3. ASSUME id = sub.id PROVE StreamFrom(s, e)
        BY <1>1, <2>1, <3>1, <3>3 DEF ServerFrom
      <3>4. ASSUME NEW item \in Nat, NEW rest \in Streams, T!ReadAhead(id, item, rest),
                   rest.queue = s.queue, rest.open = s.open, rest.after = s.after, rest.full = s.full,
                   \/ /\ s.replay # <<>> /\ item = Head(s.replay)
                      /\ rest.replay = Tail(s.replay) /\ rest.subscriber = s.subscriber
                   \/ /\ s.replay = <<>> /\ rest.replay = <<>> /\ s.subscriber # <<>>
                      /\ id = sub.id => /\ item = s.subscriber[1]
                                        /\ rest.subscriber = SubSeq(s.subscriber, 2, Len(s.subscriber))
            PROVE  \E next : /\ streams' = [streams EXCEPT ![id] = next]
                             /\ id = sub.id => StreamFrom(next, e)
        <4>1. PICK next \in Streams :
                /\ streams' = [streams EXCEPT ![id] = next]
                /\ next = IF Len(rest.queue) >= Limit
                          THEN [rest EXCEPT !.full = TRUE, !.queue = Append(@, T!Overflow),
                                            !.replay = <<>>, !.subscriber = <<>>]
                          ELSE [rest EXCEPT !.queue = Append(@, item)]
          <5>1. item \in Nat /\ rest \in Streams /\ T!ReadAhead(id, item, rest)
            BY <3>4
          <5>2. QED
            BY ONLY <5>1, ReadAheadIs
        <4>2. next \in Streams /\ streams' = [streams EXCEPT ![id] = next]
          BY <4>1
        <4>3. ASSUME id = sub.id PROVE StreamFrom(next, e)
          <5>1. next.open = s.open /\ next.after = s.after
            BY <3>4, <4>1 DEF Streams
          <5>2. CASE Len(rest.queue) >= Limit
            <6>1. next = [rest EXCEPT !.full = TRUE, !.queue = Append(@, T!Overflow),
                                      !.replay = <<>>, !.subscriber = <<>>]
              BY <4>1, <5>2
            <6>2. next.full = TRUE /\ next.queue = Append(s.queue, T!Overflow)
              BY <3>4, <6>1 DEF Streams
            <6>3. Len(s.replay) # 0 \/ Len(s.subscriber) # 0
              BY <3>2, <3>4
            <6>4. TookAhead(s, next)
              BY <6>2, <6>3 DEF TookAhead
            <6>5. QED
              BY <2>1, <3>2, <3>3, <4>2, <4>3, <5>1, <6>4, AheadFollows, ReachedIs
          <5>3. CASE ~(Len(rest.queue) >= Limit)
            <6>1. next = [rest EXCEPT !.queue = Append(@, item)]
              BY <4>1, <5>3
            <6>2. /\ next.full = rest.full /\ next.queue = Append(s.queue, item)
                  /\ next.replay = rest.replay /\ next.subscriber = rest.subscriber
              BY <3>4, <6>1 DEF Streams
            <6>3. next.full = FALSE
              BY <3>2, <3>4, <6>2 DEF Streams
            <6>4. TookAhead(s, next)
              BY <3>4, <4>3, <6>2, <6>3 DEF TookAhead
            <6>5. QED
              BY <2>1, <3>2, <3>3, <4>2, <4>3, <5>1, <6>4, AheadFollows, ReachedIs
          <5>4. QED
            BY <5>2, <5>3
        <4>4. QED
          BY <4>2, <4>3
      <3>5. CASE /\ s.replay # <<>> /\ Head(s.replay) \in Nat
                 /\ [s EXCEPT !.replay = Tail(@)] \in Streams
                 /\ T!ReadAhead(id, Head(s.replay), [s EXCEPT !.replay = Tail(@)])
        <4> DEFINE rest == [s EXCEPT !.replay = Tail(@)]
        <4>1. /\ rest.queue = s.queue /\ rest.open = s.open /\ rest.after = s.after
              /\ rest.full = s.full
              /\ rest.replay = Tail(s.replay) /\ rest.subscriber = s.subscriber
          BY <3>2 DEF Streams
        <4>2. rest \in Streams /\ T!ReadAhead(id, Head(s.replay), rest)
          BY <3>5
        <4> HIDE DEF rest
        <4>3. QED
          BY <3>4, <3>5, <4>1, <4>2
      <3>6. ASSUME s.replay = <<>>, NEW i \in DOMAIN s.subscriber,
                   s.subscriber[i] > s.after, s.subscriber[i] \in Nat,
                   \A j \in DOMAIN s.subscriber : s.subscriber[j] > s.after => i <= j,
                   [s EXCEPT !.subscriber = SubSeq(@, i + 1, Len(@))] \in Streams,
                   T!ReadAhead(id, s.subscriber[i], [s EXCEPT !.subscriber = SubSeq(@, i + 1, Len(@))])
            PROVE  \E next : /\ streams' = [streams EXCEPT ![id] = next]
                             /\ id = sub.id => StreamFrom(next, e)
        <4> DEFINE rest == [s EXCEPT !.subscriber = SubSeq(@, i + 1, Len(@))]
        <4>1. /\ rest.queue = s.queue /\ rest.open = s.open /\ rest.after = s.after
              /\ rest.full = s.full
              /\ rest.replay = s.replay
              /\ rest.subscriber = SubSeq(s.subscriber, i + 1, Len(s.subscriber))
          BY <3>2 DEF Streams
        <4>2. rest \in Streams /\ T!ReadAhead(id, s.subscriber[i], rest)
          BY <3>6
        <4> HIDE DEF rest
        <4>3. s.subscriber # <<>> /\ 1 \in DOMAIN s.subscriber /\ i \in Nat \ {0}
          BY SMTT(30), <3>2, <3>6
        <4>4. ASSUME id = sub.id PROVE i = 1
          <5>1. StreamFrom(s, e)
            BY <3>3, <4>4
          <5>2. PICK ahead : ahead = e + Len(s.queue) + Len(s.replay)
            OBVIOUS
          <5>3. s.subscriber[1] = ahead + 1 /\ s.after <= ahead
            BY <3>2, <4>3, <5>1, <5>2 DEF StreamFrom
          <5>4. ahead \in Nat /\ s.after \in Nat
            <6>1. PICK a, b : a = Len(s.queue) /\ b = Len(s.replay)
              OBVIOUS
            <6>2. a \in Nat /\ b \in Nat /\ ahead = e + a + b
              BY <3>2, <5>2, <6>1
            <6>3. QED
              BY SMTT(30), <2>1, <3>2, <6>2 DEF Streams
          <5>5. s.subscriber[1] > s.after
            BY <5>3, <5>4
          <5>6. QED
            BY <3>6, <4>3, <5>5
        <4>5. id = sub.id => /\ s.subscriber[i] = s.subscriber[1]
                             /\ rest.subscriber = SubSeq(s.subscriber, 2, Len(s.subscriber))
          BY <4>1, <4>4
        <4>6. QED
          BY <3>4, <3>6, <4>1, <4>2, <4>3, <4>5
      <3>7. QED
        BY <1>1, <3>1, <3>5, <3>6, FillTakes
    <2>3. PICK next : streams' = [streams EXCEPT ![id] = next] /\ (id = sub.id => StreamFrom(next, e))
      BY <2>2
    <2>4. PICK s : s = IF id = sub.id THEN next ELSE streams[sub.id]
      OBVIOUS
    <2>5. /\ DOMAIN streams' = DOMAIN streams
          /\ sub.id \in DOMAIN streams' => streams'[sub.id] = s /\ StreamFrom(s, e)
      BY <1>1, <2>1, <2>3, <2>4 DEF ServerFrom
    <2>6. ServerFrom(e)'
      BY <1>1, <2>1, <2>5, ServerChanges
    <2>7. Reached' = Reached /\ AsksOn' /\ head <= head'
      BY <1>1, <1>3, FollowingGives, ReachedIs DEF AsksOn, Reached, T!Ask
    <2>8. QED
      BY <1>1, <2>1, <2>6, <2>7, FollowsOn
  <1>4. QED
    BY <1>2, <1>3

\* An item leaves for the reader, and is its next event.
LEMMA ItemLeaves ==
  ASSUME head \in Nat, NEW e \in Nat, e <= head, NEW s \in Streams, StreamFrom(s, e), s.open,
         s.queue # <<>>, Head(s.queue) # T!Overflow, NEW t, t = [s EXCEPT !.queue = Tail(@)]
  PROVE  Head(s.queue) = e + 1 /\ e + 1 <= head /\ StreamFrom(t, e + 1)
  <1> DEFINE q == s.queue
             r == s.replay
             u == s.subscriber
             after == s.after
             tq == t.queue
             ahead == e + Len(q) + Len(r)
  <1>1. q \in Seq(Nat) /\ r \in Seq(Nat) /\ u \in Seq(Nat) /\ after \in Nat
    BY DEF Streams
  <1>2. /\ t.open = s.open /\ t.full = s.full /\ t.replay = r /\ t.subscriber = u /\ t.after = after
        /\ tq = Tail(q) /\ q # <<>> /\ Head(q) # T!Overflow
    BY DEF Streams
  <1>3. CASE s.full
    <2>1. /\ Len(q) > 0 /\ q[Len(q)] = T!Overflow
          /\ \A i \in 1 .. Len(q) - 1 : q[i] = e + i /\ e + i <= head
      BY <1>3 DEF StreamFrom
    <2>2. ASSUME Len(tq) > 0, tq[Len(tq)] = T!Overflow,
                 \A i \in 1 .. Len(tq) - 1 : tq[i] = e + 1 + i /\ e + 1 + i <= head
          PROVE  StreamFrom(t, e + 1)
      BY <1>2, <1>3, <2>2 DEF StreamFrom
    <2> HIDE DEF q, tq
    <2>3. Len(q) \in Nat /\ Head(q) = q[1] /\ 1 \in 1 .. Len(q) /\ Len(q) # 1
      BY <1>1, <1>2, <2>1
    <2>4. q[1] = e + 1 /\ e + 1 <= head
      <3>1. 1 \in 1 .. Len(q) - 1
        <4>1. Len(q) \in Nat /\ 1 \in 1 .. Len(q) /\ Len(q) # 1
          BY <2>3
        <4>2. \A n \in Nat : 1 \in 1 .. n /\ n # 1 => 1 \in 1 .. n - 1
          OBVIOUS
        <4>3. QED
          BY ONLY <4>1, <4>2
      <3>2. QED
        BY <2>1, <3>1
    <2>5. /\ Len(tq) = Len(q) - 1 /\ Len(tq) > 0
          /\ \A i \in 1 .. Len(tq) : tq[i] = q[i + 1]
      <3>1. q # <<>> /\ tq = Tail(q)
        BY <1>2
      <3>2. Len(tq) = Len(q) - 1 /\ \A i \in 1 .. Len(tq) : tq[i] = q[i + 1]
        BY <1>1, <3>1
      <3>3. QED
        BY <2>3, <3>2
    <2>6. tq[Len(tq)] = T!Overflow
      <3>1. Len(tq) \in 1 .. Len(tq) /\ Len(tq) + 1 = Len(q)
        BY <2>3, <2>5
      <3>2. QED
        BY <2>1, <2>5, <3>1
    <2>7. \A i \in 1 .. Len(tq) - 1 : tq[i] = e + 1 + i /\ e + 1 + i <= head
      <3> SUFFICES ASSUME NEW i \in 1 .. Len(tq) - 1 PROVE tq[i] = e + 1 + i /\ e + 1 + i <= head
        OBVIOUS
      <3>1. i + 1 \in 1 .. Len(q) - 1 /\ i \in 1 .. Len(tq) /\ i \in Nat
        BY <2>3, <2>5
      <3>2. q[i + 1] = e + (i + 1) /\ e + (i + 1) <= head
        BY <2>1, <3>1
      <3>3. e + (i + 1) = e + 1 + i
        BY <3>1
      <3>4. QED
        BY <2>5, <3>1, <3>2, <3>3
    <2>8. QED
      BY <2>2, <2>3, <2>4, <2>5, <2>6, <2>7 DEF q
  <1>4. CASE ~s.full
    <2>1. /\ \A i \in 1 .. Len(q) : q[i] = e + i
          /\ \A i \in 1 .. Len(r) : r[i] = e + Len(q) + i
          /\ \A i \in 1 .. Len(u) : u[i] = ahead + i
          /\ ahead + Len(u) = head /\ after <= ahead
      BY <1>4 DEF StreamFrom
    <2>2. ASSUME NEW n, n = e + 1 + Len(tq) + Len(r),
                 \A i \in 1 .. Len(tq) : tq[i] = e + 1 + i,
                 \A i \in 1 .. Len(r) : r[i] = e + 1 + Len(tq) + i,
                 \A i \in 1 .. Len(u) : u[i] = n + i, n + Len(u) = head, after <= n
          PROVE  StreamFrom(t, e + 1)
      BY SMTT(30), <1>2, <1>4, <2>2 DEF StreamFrom
    <2> HIDE DEF q, r, u, after, tq
    <2>3. Len(q) \in Nat /\ Len(r) \in Nat /\ Len(u) \in Nat /\ Head(q) = q[1] /\ 1 \in 1 .. Len(q)
      BY <1>1, <1>2
    <2>4. ahead \in Nat /\ e + 1 <= ahead
      BY <2>3
    <2>5. q[1] = e + 1 /\ e + 1 <= head
      BY <2>1, <2>3, <2>4
    <2>6. /\ Len(tq) = Len(q) - 1 /\ Len(tq) \in Nat
          /\ \A i \in 1 .. Len(tq) : tq[i] = q[i + 1] /\ i + 1 \in 1 .. Len(q)
      BY <1>1, <1>2, <2>3
    <2>7. e + 1 + Len(tq) = e + Len(q) /\ ahead = e + 1 + Len(tq) + Len(r)
      BY <2>3, <2>6
    <2>8. \A i \in 1 .. Len(tq) : tq[i] = e + 1 + i
      <3>1. \A i \in 1 .. Len(tq) : tq[i] = e + (i + 1)
        BY <2>1, <2>6
      <3>2. QED
        BY <2>6, <3>1
    <2> HIDE DEF ahead
    <2>9. \A i \in 1 .. Len(r) : r[i] = e + 1 + Len(tq) + i
      BY <2>1, <2>7
    <2>10. QED
      BY <2>1, <2>2, <2>3, <2>5, <2>7, <2>8, <2>9 DEF q
  <1>5. QED
    BY <1>3, <1>4

\* The reader's stream sends, or another one.
LEMMA DrainFollows == ASSUME FeedTypes, Following, NEW id, T!Drain(id) PROVE Following'
  <1>1. /\ id \in DOMAIN streams /\ streams[id] \in Streams /\ id \in Nat /\ streams[id].open
        /\ streams[id].queue # <<>>
        /\ UNCHANGED <<head, up, live, sub, got>> /\ FeedTypes'
    BY DrainIs, DrainTypes
  <1>2. CASE ~Clean
    BY <1>1, <1>2, LeftFollows DEF Clean
  <1>3. CASE Clean
    <2>1. PICK f, e : /\ Chain(f, down, Reached) /\ e = f[Len(down) + 1] /\ e \in Nat /\ e <= head
                      /\ ServerFrom(e)
      BY <1>3, FollowingGives
    <2>2. AsksOn /\ AsksOn' /\ Reached' = Reached /\ head \in Nat /\ head <= head'
      BY <1>1, <1>3, FollowingGives, ReachedIs DEF AsksOn, Reached, T!Ask
    <2>3. CASE /\ down' = Append(Append(down, T!Frame("error", id, T!Overflow)), T!Frame("end", id, 0))
               /\ streams' = [each \in DOMAIN streams \ {id} |-> streams[each]]
      <3>1. PICK error, end : error = T!Frame("error", id, T!Overflow) /\ end = T!Frame("end", id, 0)
        OBVIOUS
      <3>2. error \in Frames /\ ~ItsItem(error) /\ end \in Frames /\ ~ItsItem(end)
        <4>1. T!Overflow \in Nat
          BY DEF T!Overflow
        <4>2. error \in Frames /\ error.kind = "error" /\ end \in Frames /\ end.kind = "end"
          BY <1>1, <3>1, <4>1, FrameIs
        <4>3. QED
          BY <4>2 DEF ItsItem
      <3>3. Past(error, e) = e /\ Past(end, e) = e
        BY <3>2 DEF Past
      <3>4. PICK frames : frames = Append(down, error)
        OBVIOUS
      <3>5. frames \in Seq(Frames) /\ Len(frames) = Len(down) + 1 /\ down' = Append(frames, end)
            /\ Len(down') = Len(down) + 2 /\ Len(down) \in Nat
        BY <2>3, <3>1, <3>2, <3>4, ReachedIs
      <3>6. PICK g : Chain(g, frames, Reached) /\ g[Len(down) + 2] = e
        BY <2>1, <2>2, <3>2, <3>3, <3>4, ChainGrows, ReachedIs
      <3>7. PICK h : Chain(h, down', Reached) /\ h[Len(frames) + 2] = e
        <4>1. g[Len(frames) + 1] = e
          <5>1. Len(frames) + 1 = Len(down) + 2
            BY <3>5
          <5>2. QED
            BY <3>6, <5>1
        <4>2. QED
          BY <2>2, <3>2, <3>3, <3>5, <3>6, <4>1, ChainGrows
      <3>8. Len(down') + 1 = Len(frames) + 2
        BY <3>5
      <3>9. PICK s : s = streams[sub.id]
        OBVIOUS
      <3>10. ServerFrom(e)'
        <4>1. /\ sub.id \in DOMAIN streams' => sub.id \in DOMAIN streams
              /\ sub.id \in DOMAIN streams' => streams'[sub.id] = s /\ StreamFrom(s, e)
          BY <2>1, <2>3, <3>9 DEF ServerFrom
        <4>2. QED
          BY <1>1, <2>1, <4>1, ServerChanges
      <3>11. QED
        BY <1>1, <2>2, <3>7, <3>8, <3>10, FollowsOn
    <2>4. CASE /\ Head(streams[id].queue) # T!Overflow
               /\ T!Frame("item", id, Head(streams[id].queue)) \in Frames
               /\ down' = Append(down, T!Frame("item", id, Head(streams[id].queue)))
               /\ streams' = [streams EXCEPT ![id] = [streams[id] EXCEPT !.queue = Tail(@)]]
      <3>1. PICK frame : frame = T!Frame("item", id, Head(streams[id].queue))
        OBVIOUS
      <3>2. /\ frame \in Frames /\ frame.kind = "item" /\ frame.id = id
            /\ frame.n = Head(streams[id].queue)
            /\ down' = Append(down, frame)
        BY <2>4, <3>1 DEF T!Frame
      <3>3. CASE id # sub.id
        <4>1. Past(frame, e) = e /\ ~ItsItem(frame)
          BY <3>2, <3>3 DEF Past, ItsItem
        <4>2. PICK s : s = streams[sub.id]
          OBVIOUS
        <4>3. /\ sub.id \in DOMAIN streams' => sub.id \in DOMAIN streams
              /\ sub.id \in DOMAIN streams' => streams'[sub.id] = s /\ StreamFrom(s, e)
          BY <2>1, <2>4, <3>3, <4>2 DEF ServerFrom
        <4>4. ServerFrom(e)'
          BY <1>1, <2>1, <4>3, ServerChanges
        <4>5. ServerFrom(Past(frame, e))'
          <5>1. Past(frame, e)' = e
            BY <1>1, <4>1 DEF Past, ItsItem
          <5>2. QED
            BY <4>4, <5>1 DEF ServerFrom, AskedFrom, StreamFrom
        <4>6. QED
          BY <1>1, <1>3, <2>1, <2>2, <3>2, <4>1, <4>5, FrameFollows
      <3>4. CASE id = sub.id
        <4>1. PICK s, t : s = streams[id] /\ t = [s EXCEPT !.queue = Tail(@)]
          OBVIOUS
        <4>2. Head(s.queue) = e + 1 /\ e + 1 <= head /\ StreamFrom(t, e + 1)
          <5>1. /\ StreamFrom(s, e) /\ s \in Streams /\ s.open /\ s.queue # <<>>
                /\ Head(s.queue) # T!Overflow
            BY <1>1, <2>1, <2>4, <3>4, <4>1 DEF ServerFrom
          <5>2. QED
            BY <2>1, <2>2, <4>1, <5>1, ItemLeaves
        <4>3. sub.id \in DOMAIN streams /\ streams'[sub.id] = t
          BY <1>1, <2>4, <3>4, <4>1
        <4>4. PICK later : later = e + 1
          OBVIOUS
        <4>5. ServerFrom(later)'
          <5>1. StreamFrom(t, later)
            BY <4>2, <4>4
          <5>2. QED
            BY <1>1, <2>1, <4>3, <5>1, ServerChanges
        <4>6. ItsItem(frame) /\ Past(frame, e) = later /\ frame.n = e + 1 /\ frame.n <= head
          BY <3>2, <3>4, <4>1, <4>2, <4>4 DEF ItsItem, Past
        <4>7. ServerFrom(Past(frame, e))'
          <5>1. Past(frame, e)' = later
            BY <1>1, <4>6 DEF Past, ItsItem
          <5>2. QED
            BY <4>5, <5>1 DEF ServerFrom, AskedFrom, StreamFrom
        <4>8. QED
          BY <1>1, <1>3, <2>1, <2>2, <3>2, <4>6, <4>7, FrameFollows
      <3>5. QED
        BY <3>3, <3>4
    <2>5. QED
      BY <2>3, <2>4, DrainIs
  <1>4. QED
    BY <1>2, <1>3

\* A connection that is new has nothing on the way, and one that fails loses it all.
LEMMA AnewFollows ==
  ASSUME FeedTypes, FeedTypes', Clean' => AsksOn',
         \A i \in 1 .. Len(down') : ~ItsItem(down[i])',
         Clean' => ServerFrom(Reached)'
  PROVE  Following'
  <1> SUFFICES ASSUME Clean'
               PROVE  (AsksOn /\ \E f : Chain(f, down, Reached) /\ ServerFrom(f[Len(down) + 1]))'
    BY DEF Following
  <1>1. head' \in Nat /\ down' \in Seq(Frames) /\ Reached' \in Nat
    BY DEF FeedTypes, Subscriptions, Reached
  <1>2. AsksOn'
    OBVIOUS
  <1>3. Reached' <= head'
    BY <1>2 DEF AsksOn
  <1>4. PICK frames, r : frames = down' /\ r = Reached'
    OBVIOUS
  <1>5. PICK f : f \in [1 .. Len(frames) + 1 -> Nat] /\ \A i \in 1 .. Len(frames) + 1 : f[i] = r
    <2> DEFINE f == [i \in 1 .. Len(frames) + 1 |-> r]
    <2>1. f \in [1 .. Len(frames) + 1 -> Nat] /\ \A i \in 1 .. Len(frames) + 1 : f[i] = r
      BY <1>1, <1>4
    <2> HIDE DEF f
    <2>2. QED
      BY <2>1
  <1>6. Len(frames) \in Nat /\ f[1] = r /\ f[Len(frames) + 1] = r
    BY <1>1, <1>4, <1>5
  <1>7. Chain(f, down, Reached)'
    <2>1. /\ f \in [1 .. Len(down') + 1 -> Nat] /\ f[1] = Reached'
          /\ \A i \in 1 .. Len(down') + 1 : f[i] <= head'
      BY <1>1, <1>3, <1>4, <1>5, <1>6
    <2>2. \A i \in 1 .. Len(down') : Linked(down[i], f[i], f[i + 1])'
      <3> SUFFICES ASSUME NEW CONSTANT i \in 1 .. Len(down') PROVE Linked(down[i], f[i], f[i + 1])'
        OBVIOUS
      <3>1. f[i] = r /\ f[i + 1] = r
        BY <1>4, <1>5, <1>6
      <3>2. ~ItsItem(down[i])'
        OBVIOUS
      <3>3. QED
        BY <3>1, <3>2 DEF Linked
    <2>3. QED
      BY <2>1, <2>2 DEF Chain
  <1>8. ServerFrom(f[Len(down) + 1])'
    <2>1. f[Len(down') + 1] = Reached'
      BY <1>4, <1>6
    <2>2. ServerFrom(Reached)'
      OBVIOUS
    <2>3. QED
      BY <2>1, <2>2 DEF ServerFrom, AskedFrom, StreamFrom
  <1>9. QED
    BY <1>2, <1>7, <1>8

\* The streams of a new connection are asked for again, from the last event that came.
LEMMA ConnectFollows == ASSUME FeedTypes, Following, T!Connect PROVE Following'
  <1>1. /\ ~live /\ up' = (IF sub.held THEN <<T!Ask(sub)>> ELSE <<>>)
        /\ UNCHANGED <<head, streams, down, sub, got>>
        /\ FeedTypes'
    BY ConnectTypes DEF T!Connect
  <1>2. down = <<>> /\ DOMAIN streams = {}
    BY <1>1 DEF FeedTypes
  <1>3. CASE ~Clean
    BY <1>1, <1>3, LeftFollows DEF Clean
  <1>4. CASE Clean
    <2>1. AsksOn /\ AsksOn' /\ Reached' = Reached /\ head <= head'
      BY <1>1, <1>4, FollowingGives, ReachedIs DEF AsksOn, Reached, T!Ask
    <2>2. up' = <<T!Ask(sub)>> /\ T!Ask(sub).n = Reached
      BY <1>1, <1>4, <2>1 DEF Clean, AsksOn
    <2>3. PICK e, asked : e = Reached /\ asked = T!Ask(sub)
      OBVIOUS
    <2>4. Len(up') = 1 /\ up'[1] = asked /\ asked.n = e
      BY <2>2, <2>3
    <2>5. AskedFrom(e)'
      BY <1>1, <1>2, <2>4 DEF AskedFrom
    <2>6. ServerFrom(e)'
      BY <1>1, <1>2, <2>5 DEF ServerFrom
    <2>7. ServerFrom(Reached)'
      <3>1. Reached' = e
        BY <2>1, <2>3
      <3>2. QED
        BY <2>6, <3>1 DEF ServerFrom, AskedFrom, StreamFrom
    <2>8. Len(down') = 0
      BY <1>1, <1>2
    <2>9. QED
      BY <1>1, <2>1, <2>7, <2>8, AnewFollows
  <1>5. QED
    BY <1>3, <1>4

\* What was on the way is asked for again.
LEMMA DropFollows == ASSUME FeedTypes, Following, T!Drop PROVE Following'
  <1>1. /\ up' = <<>> /\ down' = <<>> /\ streams' = <<>> /\ UNCHANGED <<head, sub, got>>
        /\ FeedTypes'
    BY DropTypes DEF T!Drop
  <1>2. CASE ~Clean
    BY <1>1, <1>2, LeftFollows DEF Clean
  <1>3. CASE Clean
    <2>1. AsksOn' /\ head <= head'
      BY <1>1, <1>3, FollowingGives, ReachedIs DEF AsksOn, Reached, T!Ask
    <2>2. Len(down') = 0 /\ Len(up') = 0 /\ DOMAIN streams' = {}
      BY <1>1
    <2>3. ServerFrom(Reached)'
      BY <2>2 DEF ServerFrom, AskedFrom
    <2>4. QED
      BY <1>1, <2>1, <2>2, <2>3, AnewFollows
  <1>4. QED
    BY <1>2, <1>3

\* A reader that opens the thread has every event up to its last.
LEMMA SubscribeFollows == ASSUME FeedTypes, Rendering, T!Subscribe PROVE Following'
  <1>1. /\ sub' = NewSub /\ NewSub.id = sub.id + 1 /\ NewSub.items = <<>>
        /\ NewSub.after = Len(got) /\ NewSub.last = 0 /\ NewSub \in Subscriptions
        /\ up' = Append(up, T!Ask(NewSub)) /\ UNCHANGED <<head, streams, down, live, got>>
        /\ FeedTypes'
    BY SubscribeIs, SubscribeTypes
  <1>2. head \in Nat /\ Len(got) \in Nat /\ Len(got) <= head /\ sub.id \in Nat
    BY ReachedIs DEF Rendering
  <1>3. Reached' = Len(got)
    BY <1>1, <1>2 DEF Reached
  <1>4. T!Ask(NewSub) \in Frames /\ T!Ask(NewSub).n = Len(got)
    BY <1>1, AskIsFrame DEF T!Ask, T!Frame
  <1>5. AsksOn' /\ head <= head'
    <2>1. T!Ask(sub)'.n = Len(got)
      BY <1>1 DEF T!Ask, T!Frame
    <2>2. QED
      BY <1>1, <1>2, <1>3, <2>1 DEF AsksOn
  <1>6. \A i \in 1 .. Len(down') : ~ItsItem(down[i])'
    <2> SUFFICES ASSUME NEW CONSTANT i \in 1 .. Len(down') PROVE ~ItsItem(down[i])'
      OBVIOUS
    <2>1. down'[i].id <= sub.id /\ down'[i] \in Frames
      BY <1>1 DEF FeedTypes
    <2>2. down'[i].id # sub'.id
      BY <1>1, <1>2, <2>1 DEF Frames
    <2>3. QED
      BY <2>2 DEF ItsItem
  <1>7. PICK e, asked : e = Len(got) /\ asked = T!Ask(NewSub)
    OBVIOUS
  <1>8. /\ up \in Seq(Frames) /\ Len(up) \in Nat
        /\ \A i \in 1 .. Len(up) : up[i].id <= sub.id /\ up[i] \in Frames
    BY DEF FeedTypes
  <1>9. /\ Len(up') = Len(up) + 1 /\ up'[Len(up) + 1] = asked /\ asked.n = e
        /\ \A i \in 1 .. Len(up) : up'[i] = up[i]
    BY <1>1, <1>4, <1>7, <1>8
  <1>10. \A i \in 1 .. Len(up) : up'[i].id # sub'.id
    <2> SUFFICES ASSUME NEW i \in 1 .. Len(up) PROVE up'[i].id # sub'.id
      OBVIOUS
    <2>1. up'[i].id <= sub.id /\ up'[i].id \in Nat
      BY <1>8, <1>9 DEF Frames
    <2>2. QED
      BY <1>1, <1>2, <2>1
  <1>11. sub'.id \notin DOMAIN streams'
    BY <1>1, <1>2 DEF FeedTypes
  <1>12. ASSUME NEW CONSTANT i \in 1 .. Len(up'), ItsAsk(up[i])' PROVE i = Len(up) + 1
    <2>1. up'[i].id = sub'.id
      BY <1>12 DEF ItsAsk
    <2>2. i \notin 1 .. Len(up)
      BY <1>10, <2>1
    <2>3. QED
      BY <1>8, <1>9, <2>2
  <1>13. AskedFrom(e)'
    <2> SUFFICES ASSUME NEW CONSTANT i \in 1 .. Len(up'), ItsAsk(up[i])'
                 PROVE  /\ up'[i].n = e /\ sub'.id \notin DOMAIN streams'
                        /\ \A j \in 1 .. Len(up') : ItsAsk(up[j])' => j = i
      BY DEF AskedFrom
    <2>1. i = Len(up) + 1
      BY <1>12
    <2>2. up'[i].n = e
      BY <1>9, <2>1
    <2>3. \A j \in 1 .. Len(up') : ItsAsk(up[j])' => j = i
      BY <1>12, <2>1
    <2>4. QED
      BY <1>11, <2>2, <2>3
  <1>14. ServerFrom(Reached)'
    <2>1. ServerFrom(e)'
      BY <1>11, <1>13 DEF ServerFrom
    <2>2. Reached' = e
      BY <1>3, <1>7
    <2>3. QED
      BY <2>1, <2>2 DEF ServerFrom, AskedFrom, StreamFrom
  <1>15. QED
    BY <1>1, <1>5, <1>6, <1>14, AnewFollows

\* A frame reaches the client: the reader's next event, or one that ends what it is owed.
LEMMA AnswerFollows == ASSUME FeedTypes, Rendering, Following, T!Answer
                       PROVE  Rendering' /\ Following'
  <1>1. /\ down # <<>> /\ down[1] \in Frames /\ down' = Tail(down)
        /\ UNCHANGED <<head, streams, up, live, got>> /\ sub' \in Subscriptions /\ sub'.id = sub.id
        /\ FeedTypes' /\ down \in Seq(Frames) /\ head \in Nat /\ head <= head'
        /\ sub \in Subscriptions
    <2>1. /\ down # <<>> /\ down[1] \in Frames /\ down' = Tail(down)
          /\ UNCHANGED <<head, streams, up, live, got>> /\ sub' \in Subscriptions
          /\ sub'.id = sub.id
      BY AnswerIs
    <2>2. FeedTypes'
      BY AnswerTypes
    <2>3. down \in Seq(Frames) /\ head \in Nat /\ sub \in Subscriptions
      BY DEF FeedTypes
    <2>4. head <= head'
      BY <2>1, <2>3
    <2>5. QED
      BY <2>1, <2>2, <2>3, <2>4
  <1>2. sub.items \in Seq(Nat) /\ Len(sub.items) \in Nat /\ Len(got) \in Nat /\ down[1].n \in Nat
    BY <1>1, ReachedIs DEF Frames
  <1>3. ASSUME Clean, AsksOn', NEW r, r = Reached', NEW n, n = Past(down[1], Reached), n = r
        PROVE  Following'
    <2>1. PICK f, e : /\ Chain(f, down, Reached) /\ e = f[Len(down) + 1] /\ ServerFrom(e)
      BY <1>3, FollowingGives
    <2>2. /\ Linked(down[1], Reached, f[2])
          /\ \E g : Chain(g, Tail(down), f[2]) /\ g[Len(down)] = f[Len(down) + 1]
      BY <1>1, <2>1, ChainShrinks
    <2>3. f[2] = n
      BY <1>3, <2>2 DEF Linked, Past
    <2>4. PICK g : Chain(g, down', Reached') /\ g[Len(down)] = e
      BY <1>1, <1>3, <2>1, <2>2, <2>3
    <2>5. Len(down') + 1 = Len(down)
      BY <1>1
    <2>6. ServerFrom(e)'
      BY <1>1, <2>1 DEF ServerFrom, AskedFrom, StreamFrom, ItsAsk
    <2>7. QED
      BY <1>1, <1>3, <2>4, <2>5, <2>6, FollowsOn
  <1>4. CASE sub' = sub /\ (sub.held => ~ItsItem(down[1]))
    <2>1. Rendering'
      BY <1>1, <1>4, RenderingStays
    <2>2. CASE ~Clean
      BY <1>4, <2>1, <2>2, LeftFollows DEF Clean
    <2>3. CASE Clean
      <3>1. Reached' = Reached /\ AsksOn'
        BY <1>1, <1>4, <2>3, FollowingGives DEF AsksOn, Reached, T!Ask
      <3>2. Past(down[1], Reached) = Reached
        BY <1>4, <2>3 DEF Past, Clean
      <3>3. QED
        BY <1>3, <2>1, <2>3, <3>1, <3>2
    <2>4. QED
      BY <2>2, <2>3
  <1>5. CASE /\ sub.held /\ ItsItem(down[1]) /\ sub'.held = TRUE /\ sub'.after = sub.after
             /\ sub'.last = down[1].n /\ sub'.items = Append(sub.items, down[1].n)
    <2>1. /\ Len(sub'.items) = Len(sub.items) + 1 /\ sub'.items[Len(sub.items) + 1] = down[1].n
          /\ \A i \in 1 .. Len(sub.items) : sub'.items[i] = sub.items[i]
      BY <1>2, <1>5
    <2>2. Clean => down[1].n = Reached + 1 /\ Reached + 1 <= head /\ Reached \in Nat
      <3> SUFFICES ASSUME Clean
                   PROVE  down[1].n = Reached + 1 /\ Reached + 1 <= head /\ Reached \in Nat
        OBVIOUS
      <3>1. PICK f : Chain(f, down, Reached)
        BY FollowingGives
      <3>2. Linked(down[1], Reached, f[2]) /\ f[2] <= head
        BY <1>1, <3>1, ChainShrinks
      <3>3. QED
        BY <1>5, <3>2, ReachedIs DEF Linked
    <2>3. ASSUME NEW i \in 1 .. Len(sub'.items), \A j \in 1 .. i : sub'.items[j] # T!Overflow
          PROVE  sub'.items[i] = Len(got) + i /\ sub'.items[i] <= head
      <3>1. CASE i \in 1 .. Len(sub.items)
        <4>1. \A j \in 1 .. i : sub.items[j] # T!Overflow
          BY <1>2, <2>1, <2>3, <3>1
        <4>2. QED
          BY <2>1, <3>1, <4>1 DEF Rendering
      <3>2. CASE i = Len(sub.items) + 1
        <4>1. Clean
          BY <1>2, <1>5, <2>1, <2>3, <3>2 DEF Clean
        <4>2. QED
          BY <1>2, <2>1, <2>2, <3>2, <4>1 DEF Reached
      <3>3. QED
        BY <1>2, <2>1, <3>1, <3>2
    <2>4. Rendering'
      BY <1>1, <2>3 DEF Rendering
    <2>5. CASE ~Clean
      <3>1. ~Clean'
        BY <1>2, <1>5, <2>1, <2>5 DEF Clean
      <3>2. QED
        BY <2>4, <3>1, LeftFollows
    <2>6. CASE Clean
      <3>1. Reached' = Reached + 1
        BY <1>1, <1>2, <2>1 DEF Reached
      <3>2. AsksOn'
        <4>1. sub'.last > 0 /\ sub'.last = Reached'
          BY <1>5, <2>2, <2>6, <3>1
        <4>2. QED
          BY <1>1, <2>2, <2>6, <3>1, <4>1 DEF AsksOn, T!Ask, T!Frame
      <3>3. Past(down[1], Reached) = Reached + 1
        BY <1>5 DEF Past
      <3>4. QED
        BY <1>3, <2>4, <2>6, <3>1, <3>2, <3>3
    <2>7. QED
      BY <2>5, <2>6
  <1>6. CASE sub.held /\ sub'.held = TRUE /\ sub'.items = Append(sub.items, T!Overflow)
    <2>1. /\ Len(sub'.items) = Len(sub.items) + 1 /\ sub'.items[Len(sub.items) + 1] = T!Overflow
          /\ \A i \in 1 .. Len(sub.items) : sub'.items[i] = sub.items[i]
      BY <1>2, <1>6 DEF T!Overflow
    <2>2. ASSUME NEW i \in 1 .. Len(sub'.items), \A j \in 1 .. i : sub'.items[j] # T!Overflow
          PROVE  sub'.items[i] = Len(got) + i /\ sub'.items[i] <= head
      <3>1. i \in 1 .. Len(sub.items)
        <4>1. sub'.items[i] # T!Overflow
          BY <2>2
        <4>2. QED
          BY <1>2, <2>1, <4>1
      <3>2. \A j \in 1 .. i : sub.items[j] # T!Overflow
        <4> SUFFICES ASSUME NEW j \in 1 .. i PROVE sub.items[j] # T!Overflow
          OBVIOUS
        <4>1. j \in 1 .. Len(sub.items)
          BY <1>2, <3>1
        <4>2. sub'.items[j] = sub.items[j] /\ sub'.items[j] # T!Overflow
          BY <2>1, <2>2, <4>1
        <4>3. QED
          BY <4>2
      <3>3. QED
        BY <2>1, <3>1, <3>2 DEF Rendering
    <2>3. Rendering'
      BY <1>1, <2>2 DEF Rendering
    <2>4. ~Clean'
      BY <1>2, <2>1 DEF Clean
    <2>5. QED
      BY <2>3, <2>4, LeftFollows
  <1>7. CASE sub'.held = FALSE /\ sub'.items = sub.items
    <2>1. Rendering'
      BY <1>1, <1>7, RenderingStays
    <2>2. ~Clean'
      BY <1>7 DEF Clean
    <2>3. QED
      BY <2>1, <2>2, LeftFollows
  <1>8. QED
    BY <1>4, <1>5, <1>6, <1>7, AnswerIs

\* The reader takes an item, or the error, and goes.
LEMMA RenderFollows == ASSUME FeedTypes, Rendering, Following, T!Render
                       PROVE  Rendering' /\ Following'
  <1>1. CASE /\ sub.items # <<>> /\ UNCHANGED <<head, streams, down, live>>
             /\ sub.items[1] # T!Overflow /\ got' = Append(got, sub.items[1])
             /\ sub' \in Subscriptions
             /\ sub'.items = Tail(sub.items) /\ sub'.held = sub.held /\ sub'.id = sub.id
             /\ sub'.last = sub.last /\ sub'.after = sub.after /\ up' = up
    <2>1. /\ FeedTypes' /\ sub.items \in Seq(Nat) /\ got \in Seq(Nat) /\ head \in Nat
          /\ head <= head'
      BY <1>1, RenderTypes, ReachedIs DEF FeedTypes
    <2>2. /\ Len(got') = Len(got) + 1 /\ Len(got) \in Nat
          /\ Len(sub'.items) = Len(sub.items) - 1 /\ Len(sub.items) \in Nat \ {0}
          /\ \A i \in 1 .. Len(sub'.items) : sub'.items[i] = sub.items[i + 1]
      <3>1. sub.items[1] \in Nat
        BY <1>1, <2>1
      <3>2. QED
        BY <1>1, <2>1, <3>1
    <2>3. Rendering'
      <3>1. got' # got
        <4>1. Len(got') # Len(got)
          BY <2>2
        <4>2. QED
          BY <4>1
      <3>2. QED
        BY <3>1, RenderRenders
    <2>4. Reached' = Reached
      <3>1. PICK n, m : n = Len(got) /\ m = Len(sub.items)
        OBVIOUS
      <3>2. n \in Nat /\ m \in Nat /\ Reached' = (n + 1) + (m - 1) /\ Reached = n + m
        BY <2>2, <3>1 DEF Reached
      <3>3. QED
        BY <3>2
    <2>5. CASE ~Clean
      <3>1. ASSUME sub.held PROVE \E i \in 1 .. Len(sub'.items) : sub'.items[i] = T!Overflow
        <4>1. PICK i \in 1 .. Len(sub.items) : sub.items[i] = T!Overflow
          BY <2>5, <3>1 DEF Clean
        <4>2. i # 1
          BY <1>1, <4>1
        <4>3. i - 1 \in 1 .. Len(sub'.items) /\ i - 1 + 1 = i
          BY <2>2, <4>2
        <4>4. QED
          BY <2>2, <4>1, <4>3
      <3>2. QED
        BY <1>1, <2>3, <2>5, <3>1, LeftFollows DEF Clean
    <2>6. CASE Clean
      <3>1. PICK f, e : Chain(f, down, Reached) /\ e = f[Len(down) + 1] /\ ServerFrom(e)
        BY <2>6, FollowingGives
      <3>2. AsksOn'
        BY <1>1, <2>4, <2>6, FollowingGives DEF AsksOn, T!Ask
      <3>3. ServerFrom(e)'
        BY <1>1, <3>1 DEF ServerFrom, AskedFrom, StreamFrom, ItsAsk
      <3>4. Chain(f, down', Reached') /\ f[Len(down') + 1] = e
        BY <1>1, <2>4, <3>1
      <3>5. QED
        BY <1>1, <2>1, <2>3, <3>2, <3>3, <3>4, FollowsOn
    <2>7. QED
      BY <2>5, <2>6
  <1>2. CASE T!Release /\ got' = got
    <2>1. UNCHANGED <<head, streams, down, live, got>> /\ head \in Nat
      BY <1>2, RenderIs, ReachedIs
    <2>2. FeedTypes' /\ ~sub'.held /\ sub'.items = <<>>
      BY <1>2, <2>1, ReleaseTypes
    <2>3. Rendering'
      BY <2>1, <2>2 DEF Rendering
    <2>4. QED
      BY <2>2, <2>3, LeftFollows DEF Clean
  <1>3. QED
    BY <1>1, <1>2, RenderIs

\* Nothing is on the way at first.
LEMMA FeedStarts == T!Init => FeedIInv /\ F!Init
  <1> SUFFICES ASSUME T!Init PROVE FeedIInv /\ F!Init
    OBVIOUS
  <1>1. /\ head = 0 /\ streams = <<>> /\ up = <<>> /\ down = <<>> /\ live = FALSE
        /\ sub = T!NoSub(0) /\ got = <<>>
    BY DEF T!Init
  <1>2. sub \in Subscriptions /\ sub.held = FALSE /\ sub.items = <<>> /\ sub.id = 0
    <2>1. /\ sub = [id |-> 0, held |-> FALSE, after |-> 0, last |-> 0, items |-> <<>>]
          /\ <<>> \in Seq(Nat)
      BY <1>1 DEF T!NoSub
    <2>2. QED
      BY <2>1 DEF Subscriptions
  <1>3. DOMAIN streams = {} /\ Len(up) = 0 /\ Len(down) = 0 /\ Len(got) = 0 /\ Len(sub.items) = 0
    BY <1>1, <1>2
  <1>4. FeedTypes
    <2>1. /\ up \in Seq(Frames) /\ down \in Seq(Frames) /\ got \in Seq(Nat) /\ head \in Nat
          /\ live \in BOOLEAN
      <3>1. <<>> \in Seq(Frames) /\ <<>> \in Seq(Nat) /\ 0 \in Nat
        OBVIOUS
      <3>2. live \in BOOLEAN
        BY <1>1
      <3>3. up = <<>> /\ down = <<>> /\ got = <<>> /\ head = 0
        BY <1>1
      <3>4. QED
        BY ONLY <3>1, <3>2, <3>3
    <2>2. /\ \A i \in 1 .. Len(up) : up[i].id <= sub.id
          /\ \A i \in 1 .. Len(down) : down[i].id <= sub.id
      BY <1>3
    <2>3. \A id \in DOMAIN streams : id \in 0 .. sub.id /\ streams[id] \in Streams
      BY <1>3
    <2>4. up = <<>> /\ down = <<>>
      BY <1>1
    <2>5. QED
      BY <1>2, <1>3, <2>1, <2>2, <2>3, <2>4 DEF FeedTypes
  <1>5. Rendering
    BY <1>1, <1>3 DEF Rendering
  <1>6. Following
    BY <1>2 DEF Following, Clean
  <1>7. QED
    BY <1>1, <1>4, <1>5, <1>6 DEF FeedIInv, F!Init

\* Every step keeps the invariant of the feed.
LEMMA FeedStep == FeedIInv /\ [T!Next]_transcriptVars => FeedIInv'
  <1> SUFFICES ASSUME FeedTypes, Rendering, Following, [T!Next]_transcriptVars
               PROVE  FeedTypes' /\ Rendering' /\ Following'
    BY DEF FeedIInv
  <1>1. CASE UNCHANGED transcriptVars
    <2>1. UNCHANGED <<head, streams, up, down, live, sub, got>>
      BY <1>1 DEF transcriptVars
    <2>2. FeedTypes'
      BY <2>1 DEF FeedTypes
    <2>3. Rendering'
      BY <2>1 DEF Rendering
    <2>4. Following'
      BY <2>1 DEF Following, Clean, AsksOn, Reached, Chain, Linked, ItsItem, ItsAsk, ServerFrom,
                  AskedFrom, StreamFrom, T!Ask
    <2>5. QED
      BY <2>2, <2>3, <2>4
  <1>2. FeedTypes' \/ UNCHANGED transcriptVars
    BY FeedTypesStep
  <1>3. CASE T!AppendEvent
    <2>1. head' = head + 1 /\ UNCHANGED <<sub, got>> /\ FeedTypes' /\ head \in Nat /\ head <= head'
      BY <1>3, AppendTypes, ReachedIs DEF T!AppendEvent
    <2>2. Rendering'
      BY <2>1, RenderingStays
    <2>3. QED
      BY <1>3, <2>1, <2>2, AppendFollows
  <1>4. ASSUME UNCHANGED <<head, sub, got>>, FeedTypes' PROVE Rendering'
    <2>1. head <= head'
      BY <1>4, ReachedIs
    <2>2. QED
      BY <1>4, <2>1, RenderingStays
  <1>5. CASE T!Receive
    BY <1>4, <1>5, ReceiveTypes, ReceiveFollows DEF T!Receive
  <1>6. CASE T!Opens
    BY <1>4, <1>6, OpenTypes, OpenFollows DEF T!Opens, T!Open
  <1>7. CASE T!Fills
    BY <1>4, <1>7, FillTypes, FillFollows DEF T!Fills, T!Fill
  <1>8. CASE T!Drains
    BY <1>4, <1>8, DrainTypes, DrainFollows DEF T!Drains, T!Drain
  <1>9. CASE T!Connect
    BY <1>4, <1>9, ConnectTypes, ConnectFollows DEF T!Connect
  <1>10. CASE T!Drop
    BY <1>4, <1>10, DropTypes, DropFollows DEF T!Drop
  <1>11. CASE T!Subscribe
    <2>1. FeedTypes' /\ sub'.items = sub.items /\ UNCHANGED <<head, got>>
      BY <1>11, SubscribeIs, SubscribeTypes
    <2>2. head <= head'
      BY <2>1, ReachedIs
    <2>3. Rendering'
      BY <2>1, <2>2, RenderingStays
    <2>4. QED
      BY <1>11, <2>1, <2>3, SubscribeFollows
  <1>12. CASE T!Leave
    <2>1. T!Release /\ UNCHANGED <<head, streams, down, live, got>>
      BY <1>12 DEF T!Leave
    <2>2. FeedTypes' /\ ~sub'.held /\ sub'.items = <<>>
      BY <2>1, ReleaseTypes
    <2>3. Rendering'
      BY <2>1, <2>2 DEF Rendering
    <2>4. QED
      BY <2>2, <2>3, LeftFollows DEF Clean
  <1>13. CASE T!Answer
    BY <1>13, AnswerTypes, AnswerFollows
  <1>14. CASE T!Render
    BY <1>14, RenderTypes, RenderFollows
  <1>15. QED
    BY <1>1, <1>3, <1>5, <1>6, <1>7, <1>8, <1>9, <1>10, <1>11, <1>12, <1>13, <1>14 DEF T!Next

\* Every step is one of the feed, or none: a new event, the reader's next one.
LEMMA FeedSimulates == FeedIInv /\ [T!Next]_transcriptVars => [F!Next]_F!feedVars
  <1> SUFFICES ASSUME FeedTypes, Rendering, [T!Next]_transcriptVars
               PROVE  F!Next \/ UNCHANGED <<head, got>>
    BY DEF FeedIInv, F!feedVars
  <1>1. CASE T!AppendEvent
    BY <1>1 DEF T!AppendEvent, F!Next, F!NewEvent
  <1>2. CASE T!Render
    <2>1. CASE got' = got
      BY <1>2, <2>1, RenderIs
    <2>2. CASE got' # got
      BY <1>2, <2>2, RenderRenders DEF F!Next, F!Deliver
    <2>3. QED
      BY <2>1, <2>2
  <1>3. CASE T!Receive \/ T!Opens \/ T!Fills \/ T!Drains
    BY <1>3 DEF T!Receive, T!Opens, T!Open, T!Fills, T!Fill, T!Drains, T!Drain
  <1>4. CASE T!Connect \/ T!Drop \/ T!Subscribe \/ T!Leave \/ T!Answer
    BY <1>4 DEF T!Connect, T!Drop, T!Subscribe, T!Leave, T!Answer
  <1>5. CASE UNCHANGED transcriptVars
    BY <1>5 DEF transcriptVars
  <1>6. QED
    BY <1>1, <1>2, <1>3, <1>4, <1>5 DEF T!Next

\* However the connection drops between a replay and the live events, the stream overflows or the
\* reader leaves and comes back, what it renders are the thread's events, each once and in their
\* order (events.py subscribe and _deliver, contract_server.py _Connection, contract_socket.py):
\* Feed without its fairness.
THEOREM ReaderFollows == ServingSpec => F!Init /\ [][F!Next]_F!feedVars
  <1>1. ServingInit => FeedIInv /\ F!Init
    BY FeedStarts DEF ServingInit
  <1>2. FeedIInv /\ [ServingNext]_servingVars => FeedIInv' /\ [F!Next]_F!feedVars
    <2> SUFFICES ASSUME FeedIInv, [ServingNext]_servingVars PROVE FeedIInv' /\ [F!Next]_F!feedVars
      OBVIOUS
    <2>1. [T!Next]_transcriptVars
      BY DEF ServingNext, OfDesk, OfTranscript, OfBrowsers, OfPairing, servingVars
    <2>2. QED
      BY <2>1, FeedStep, FeedSimulates
  <1>3. QED
    BY <1>1, <1>2, PTL DEF ServingSpec

(***************************************************************************)
(* The channels.  A row changes in one stretch with its secret; what waits *)
(* for a service still sees the row as it was, unless another change of    *)
(* the channel crossed it.                                                 *)
(***************************************************************************)
Rows == [there : BOOLEAN, text : Texts \cup {0}, on : BOOLEAN, coded : BOOLEAN,
         user : Users \cup {Nobody}, last : {"none", "sent", "failed"}]
AllRequests == [op : {"none", "create", "update", "test", "receive"}, i : Ids \cup {Nobody}, told : BOOLEAN,
                asked : SUBSET {"text", "on", "token"}, text : Texts \cup {0}, on : BOOLEAN,
                token : Tokens \cup {0}, row : Rows, says : {"code", "option", "nothing"},
                by : Users \cup {Nobody}]

PairingTypes ==
    /\ row \in [Ids -> Rows] /\ secret \in [Ids -> Tokens \cup {0}]
    /\ made \in SUBSET Ids
    /\ told \in [Ids -> SUBSET ((Texts \cup {0}) \X (Tokens \cup {0}))]
    /\ request \in [Requests -> AllRequests]
    /\ first \in [Ids -> Users \cup {Nobody}]
    /\ chosen \in [Ids -> [text : Texts \cup {0}, on : BOOLEAN, token : Tokens \cup {0}]]
    /\ taken \in SUBSET (Ids \X Users)

\* An id that was not drawn has nothing to it.
Undrawn ==
    \A i \in Ids \ made : ~row[i].there /\ secret[i] = 0 /\ first[i] = Nobody

\* A call waits about a channel that was made.
OfMade(q) == q.op # "none" => q.i \in made

\* A channel that is being made is nobody else's matter yet.
Making(r) ==
    request[r].op = "create" =>
        /\ ~row[request[r].i].there /\ first[request[r].i] = Nobody
        /\ request[r].asked = {"text", "on", "token"} /\ request[r].token # 0 /\ request[r].on
        /\ \A other \in Requests \ {r} : request[other].op # "none" => request[other].i # request[r].i
        /\ request[r].told => <<request[r].text, request[r].token>> \in told[request[r].i]

\* An update that nothing crossed writes what is there, but for what it was asked to change.
Updating(q) ==
    q.op = "update" =>
        /\ q.token # 0 <=> "token" \in q.asked
        /\ q.i \in P!Whole =>
            /\ row[q.i].there
            /\ "text" \notin q.asked => q.text = row[q.i].text
            /\ "on" \notin q.asked => q.on = row[q.i].on
            /\ q.told => <<q.text, P!Kept(q)>> \in told[q.i]

\* Whoever sends something is a user, and who the row said is paired is.
Hearing(q) ==
    q.op = "receive" => /\ q.i \in Bots /\ q.by \in Users
                        /\ q.row.user # Nobody => q.row.user = first[q.i]
Testing(q) ==
    q.op = "test" => IF q.i \in Bots THEN first[q.i] # Nobody /\ q.by = first[q.i] ELSE q.by = Nobody

PairingIInv ==
    /\ PairingTypes /\ Undrawn
    /\ \A r \in Requests :
        /\ OfMade(request[r]) /\ Making(r) /\ Updating(request[r]) /\ Hearing(request[r]) /\ Testing(request[r])
        /\ request[r].told => request[r].op \in {"create", "update"}
    /\ \A t \in taken : t[2] # Nobody /\ t[2] = first[t[1]]
    /\ P!FirstIsUser /\ P!SetUpAsWilled

LEMMA NoRequestIs ==
  /\ P!NoRow \in Rows /\ ~P!NoRow.there
  /\ P!NoRequest \in AllRequests /\ P!NoRequest.op = "none" /\ ~P!NoRequest.told
  BY DEF P!NoRow, Rows, P!NoRequest, AllRequests

LEMMA IdleIsFine ==
  ASSUME NEW r
  PROVE  /\ OfMade(P!NoRequest) /\ Updating(P!NoRequest) /\ Hearing(P!NoRequest) /\ Testing(P!NoRequest)
         /\ request[r] = P!NoRequest => Making(r)
  BY NoRequestIs DEF OfMade, Updating, Hearing, Testing, Making

LEMMA PairingStarts == P!Init => PairingIInv
  <1> SUFFICES ASSUME P!Init PROVE PairingIInv
    OBVIOUS
  <1> USE NoRequestIs DEF P!Init
  <1>1. PairingTypes
    BY DEF PairingTypes, Rows
  <1>2. Undrawn /\ P!There = {}
    BY DEF Undrawn, P!There
  <1>3. \A r \in Requests : request[r] = P!NoRequest
    OBVIOUS
  <1>4. P!FirstIsUser /\ P!SetUpAsWilled
    BY <1>2 DEF P!FirstIsUser, P!SetUpAsWilled, P!Whole
  <1>5. QED
    BY <1>1, <1>2, <1>3, <1>4, IdleIsFine DEF PairingIInv

\* Calls end, and nothing else happens.
LEMMA CallsEnd ==
  ASSUME PairingIInv, NEW row2 \in [Ids -> Rows], row' = row2,
         \A r \in Requests : request'[r] = request[r] \/ request'[r] = P!NoRequest,
         request' \in [Requests -> AllRequests],
         \A i \in Ids : row2[i] = row[i] \/ row2[i] = [row[i] EXCEPT !.last = row2[i].last],
         UNCHANGED <<secret, made, told, first, taken, chosen, crossed, cut>>
  PROVE  PairingIInv'
  <1> USE NoRequestIs DEF PairingIInv
  <1>1. \A i \in Ids : /\ row'[i].there = row[i].there /\ row'[i].text = row[i].text /\ row'[i].on = row[i].on
                       /\ row'[i].coded = row[i].coded /\ row'[i].user = row[i].user
    BY SMTT(30) DEF PairingTypes, Rows
  <1>2. PairingTypes' /\ Undrawn' /\ made \subseteq Ids
    BY <1>1 DEF PairingTypes, Undrawn
  <1>3. P!Whole' = P!Whole /\ P!There' = P!There /\ P!Whole \subseteq Ids /\ P!There \subseteq Ids
    BY <1>1 DEF P!Whole, P!There
  <1>4. P!FirstIsUser' /\ P!SetUpAsWilled'
    <2>1. P!FirstIsUser'
      BY <1>1, <1>3 DEF P!FirstIsUser
    <2>2. ASSUME NEW i \in P!Whole
          PROVE  /\ secret'[i] # 0 <=> i \in P!There'
                 /\ i \in P!There' => /\ chosen'[i] = [text |-> row'[i].text, on |-> row'[i].on, token |-> secret'[i]]
                                      /\ i \in Bots => <<row'[i].text, secret'[i]>> \in told'[i]
      <3>1. i \in Ids
        BY <1>3
      <3>2. QED
        BY <1>1, <1>3, <3>1 DEF P!SetUpAsWilled
    <2>3. QED
      BY <1>3, <2>1, <2>2 DEF P!SetUpAsWilled
  <1>5. ASSUME NEW r \in Requests
        PROVE  /\ OfMade(request[r])' /\ Making(r)' /\ Updating(request[r])' /\ Hearing(request[r])' /\ Testing(request[r])'
               /\ request'[r].told => request'[r].op \in {"create", "update"}
    <2>1. CASE request'[r] = P!NoRequest
      BY <2>1 DEF OfMade, Making, Updating, Hearing, Testing
    <2>2. CASE request'[r] = request[r]
      <3>1. request[r].op # "none" => request[r].i \in made /\ request[r].i \in Ids
        BY <1>2 DEF OfMade
      <3>2. \A other \in Requests : request'[other].op # "none" => request[other].op # "none" /\ request'[other].i = request[other].i
        OBVIOUS
      <3>3. Making(r)'
        <4>1. Making(r) /\ first' = first /\ told' = told
          OBVIOUS
        <4> HIDE DEF PairingIInv
        <4>2. CASE request[r].op = "create"
          <5>1. ~row'[request[r].i].there
            BY <1>1, <3>1, <4>1, <4>2 DEF Making
          <5>2. \A other \in Requests \ {r} : request'[other].op # "none" => request'[other].i # request[r].i
            BY <3>2, <4>1, <4>2 DEF Making
          <5>3. QED
            BY <2>2, <4>1, <4>2, <5>1, <5>2 DEF Making
        <4>3. QED
          BY <2>2, <4>2 DEF Making
      <3>4. Updating(request[r])'
        <4>1. Updating(request[r]) /\ (P!Kept(request[r]))' = P!Kept(request[r])
          BY <2>2 DEF P!Kept
        <4>2. QED
          BY <1>1, <1>3, <2>2, <3>1, <4>1 DEF Updating
      <3>5. QED
        BY <2>2, <3>1, <3>3, <3>4 DEF OfMade, Hearing, Testing
    <2>3. QED
      BY <2>1, <2>2
  <1>6. QED
    BY <1>2, <1>4, <1>5

\* A call starts to wait for a service.
LEMMA CallStarts ==
  ASSUME PairingIInv, NEW r \in Requests, NEW q \in AllRequests, request[r] = P!NoRequest,
         request' = [request EXCEPT ![r] = q], made' \in SUBSET Ids, made \subseteq made',
         q.i \in made', q.op # "none", ~q.told,
         q.op = "create" => q.i \notin made /\ q.asked = {"text", "on", "token"} /\ q.token # 0 /\ q.on,
         q.op # "create" => row[q.i].there,
         Updating(q), Hearing(q), Testing(q),
         UNCHANGED <<row, secret, told, first, taken, chosen, crossed, cut>>
  PROVE  PairingIInv'
  <1> USE NoRequestIs DEF PairingIInv
  <1>1. PairingTypes' /\ Undrawn'
    BY DEF PairingTypes, Undrawn
  <1>2. P!Whole' = P!Whole /\ P!There' = P!There
    BY DEF P!Whole, P!There
  <1>3. P!FirstIsUser' /\ P!SetUpAsWilled'
    BY <1>2 DEF P!FirstIsUser, P!SetUpAsWilled
  <1>4. request'[r] = q /\ \A other \in Requests \ {r} : request'[other] = request[other]
    BY DEF PairingTypes
  <1>5. \A s \in Requests : request[s].op # "none" => request[s].i \in made
    BY DEF OfMade
  <1>6. ASSUME NEW s \in Requests
        PROVE  /\ OfMade(request[s])' /\ Making(s)' /\ Updating(request[s])' /\ Hearing(request[s])' /\ Testing(request[s])'
               /\ request'[s].told => request'[s].op \in {"create", "update"}
    <2>1. OfMade(request[s])'
      BY <1>4, <1>5 DEF OfMade
    <2>2. Making(s)'
      <3>1. CASE s = r
        <4>1. q.op = "create" => ~row[q.i].there /\ first[q.i] = Nobody
          BY DEF Undrawn
        <4>2. QED
          BY <1>4, <1>5, <3>1, <4>1 DEF Making
      <3>2. CASE s # r
        <4>1. request[s].op = "create" => request[s].i # q.i
          BY <1>5 DEF Making
        <4>2. QED
          BY <1>4, <3>2, <4>1 DEF Making
      <3>3. QED
        BY <3>1, <3>2
    <2>3. Updating(request[s])' /\ Hearing(request[s])' /\ Testing(request[s])'
      <3>1. Updating(request'[s]) /\ Hearing(request'[s]) /\ Testing(request'[s])
        BY <1>4
      <3>2. \A x : (Updating(x) => Updating(x)') /\ (Hearing(x) => Hearing(x)') /\ (Testing(x) => Testing(x)')
        BY <1>2 DEF Updating, Hearing, Testing, P!Kept
      <3>3. QED
        BY <3>1, <3>2 DEF Updating, Hearing, Testing, P!Kept
    <2>4. QED
      BY <1>4, <2>1, <2>2, <2>3
  <1>7. QED
    BY <1>1, <1>3, <1>6

\* The service is told.
LEMMA TellKeeps == ASSUME PairingIInv, NEW r \in Requests, P!Tell(r) PROVE PairingIInv'
  <1> USE NoRequestIs DEF PairingIInv
  <1> DEFINE q == request[r]
  <1>1. /\ q \in AllRequests /\ q.op \in {"create", "update"} /\ ~q.told /\ q.i \in made /\ q.i \in Ids
        /\ told' = [told EXCEPT ![q.i] = @ \cup {<<q.text, P!Kept(q)>>}]
        /\ request' = [request EXCEPT ![r].told = TRUE]
        /\ UNCHANGED <<row, secret, made, first, taken, chosen, crossed, cut>>
    BY DEF P!Tell, PairingTypes, OfMade
  <1>2. P!Kept(q) \in Tokens \cup {0} /\ q.text \in Texts \cup {0}
    BY <1>1 DEF P!Kept, PairingTypes, AllRequests
  <1>3. /\ \A i \in Ids : told[i] \subseteq told'[i]
        /\ <<q.text, P!Kept(q)>> \in told'[q.i]
        /\ told' \in [Ids -> SUBSET ((Texts \cup {0}) \X (Tokens \cup {0}))]
    BY <1>1, <1>2 DEF PairingTypes
  <1>4. /\ \A s \in Requests \ {r} : request'[s] = request[s]
        /\ request'[r] = [q EXCEPT !.told = TRUE] /\ request' \in [Requests -> AllRequests]
    BY <1>1 DEF PairingTypes, AllRequests
  <1>5. \A s \in Requests :
           /\ request'[s].op = request[s].op /\ request'[s].i = request[s].i /\ request'[s].asked = request[s].asked
           /\ request'[s].text = request[s].text /\ request'[s].on = request[s].on /\ request'[s].token = request[s].token
           /\ request'[s].row = request[s].row /\ request'[s].says = request[s].says /\ request'[s].by = request[s].by
           /\ request'[s].told = (request[s].told \/ s = r)
    BY <1>1, <1>4 DEF AllRequests
  <1>6. PairingTypes' /\ Undrawn'
    BY <1>1, <1>3, <1>4 DEF PairingTypes, Undrawn
  <1>7. P!Whole' = P!Whole /\ P!There' = P!There /\ P!Whole \subseteq Ids
    BY <1>1 DEF P!Whole, P!There
  <1>8. P!FirstIsUser' /\ P!SetUpAsWilled'
    BY <1>1, <1>3, <1>7 DEF P!FirstIsUser, P!SetUpAsWilled
  <1>9. ASSUME NEW s \in Requests
        PROVE  /\ OfMade(request[s])' /\ Making(s)' /\ Updating(request[s])' /\ Hearing(request[s])' /\ Testing(request[s])'
               /\ request'[s].told => request'[s].op \in {"create", "update"}
    <2>1. OfMade(request[s])' /\ Hearing(request[s])' /\ Testing(request[s])'
      BY <1>1, <1>5 DEF OfMade, Hearing, Testing
    <2>2. request[s].op # "none" => request[s].i \in Ids
      BY DEF OfMade, PairingTypes
    <2>3. Making(s)'
      <3>1. s = r /\ request[s].op = "create" => <<request[s].text, request[s].token>> \in told'[request[s].i]
        BY <1>3 DEF Making, P!Kept
      <3>2. QED
        BY <1>1, <1>3, <1>5, <2>2, <3>1 DEF Making
    <2>4. Updating(request[s])'
      <3>1. (P!Kept(request[s]))' = P!Kept(request[s])
        BY <1>1, <1>5 DEF P!Kept
      <3>2. s = r => <<request[s].text, P!Kept(request[s])>> \in told'[request[s].i]
        BY <1>3
      <3>3. QED
        BY <1>1, <1>3, <1>5, <1>7, <2>2, <3>1, <3>2 DEF Updating
    <2>5. QED
      BY <1>1, <1>5, <2>1, <2>3, <2>4
  <1>10. QED
    BY <1>1, <1>6, <1>8, <1>9

\* The rest of create and of update.
LEMMA KeepsKeeps ==
  ASSUME PairingIInv, NEW q \in AllRequests, NEW others \in SUBSET Requests, P!Keeps(q, others),
         q.op \in {"create", "update"}, made' \in SUBSET Ids, made \subseteq made', q.i \in made', q.i \in Ids,
         q.op = "create" => /\ ~row[q.i].there /\ first[q.i] = Nobody
                            /\ q.asked = {"text", "on", "token"} /\ q.token # 0 /\ q.on,
         Updating(q),
         q.i \in P!Whole /\ P!Registers(q) => <<q.text, P!Kept(q)>> \in told[q.i],
         request' \in [Requests -> AllRequests],
         \A r \in Requests : request'[r] = request[r] \/ request'[r] = P!NoRequest,
         \A r \in Requests \ others : request'[r].op = "update" => request'[r].i # q.i,
         \A r \in Requests : request'[r].op = "create" => request'[r].i # q.i,
         UNCHANGED <<told, first, taken>>
  PROVE  PairingIInv'
  <1> USE NoRequestIs DEF PairingIInv
  <1>1. /\ secret' = [secret EXCEPT ![q.i] = P!Kept(q)] /\ row' = [row EXCEPT ![q.i] = P!Written(q)]
        /\ chosen' = [chosen EXCEPT ![q.i] = P!Wanted(q)] /\ cut' = cut
        /\ crossed' = IF \E r \in others : P!Updates(r, q.i) THEN crossed \cup {q.i} ELSE crossed
    BY DEF P!Keeps
  <1>2. P!Written(q) \in Rows /\ P!Kept(q) \in Tokens \cup {0}
        /\ P!Wanted(q) \in [text : Texts \cup {0}, on : BOOLEAN, token : Tokens \cup {0}]
    <2>1. P!Created(q) \in Rows
      BY DEF P!Created, Rows, AllRequests
    <2>2. P!Updated(q) \in Rows
      <3>1. row[q.i] \in Rows /\ q.text \in Texts \cup {0} /\ q.on \in BOOLEAN
        BY DEF PairingTypes, AllRequests
      <3>2. [row[q.i] EXCEPT !.text = q.text, !.on = q.on] \in Rows
        BY <3>1 DEF Rows
      <3>3. QED
        BY <3>1, <3>2 DEF P!Updated
    <2>3. P!Kept(q) \in Tokens \cup {0}
      BY DEF P!Kept, AllRequests, PairingTypes
    <2>4. P!Wanted(q) \in [text : Texts \cup {0}, on : BOOLEAN, token : Tokens \cup {0}]
      BY DEF P!Wanted, AllRequests, PairingTypes
    <2>5. QED
      BY <2>1, <2>2, <2>3, <2>4 DEF P!Written
  <1>3. PairingTypes'
    BY <1>1, <1>2 DEF PairingTypes
  <1>4. Undrawn'
    BY <1>1 DEF Undrawn, PairingTypes
  <1>5. /\ \A i \in Ids \ {q.i} : row'[i] = row[i] /\ secret'[i] = secret[i] /\ chosen'[i] = chosen[i]
        /\ row'[q.i] = P!Written(q) /\ secret'[q.i] = P!Kept(q) /\ chosen'[q.i] = P!Wanted(q)
    BY <1>1 DEF PairingTypes
  <1>6. P!Whole' \subseteq P!Whole /\ P!Whole \subseteq Ids
    BY <1>1 DEF P!Whole
  <1>7. /\ P!There' \ {q.i} = P!There \ {q.i}
        /\ q.i \in P!There' <=> q.op = "create" \/ row[q.i].there
    <2>1. P!Written(q).there <=> q.op = "create" \/ row[q.i].there
      BY DEF P!Written, P!Created, P!Updated, PairingTypes, Rows
    <2>2. QED
      BY <1>5, <2>1 DEF P!There
  <1>8. P!FirstIsUser'
    <2>1. q.op = "create" => P!Written(q).user = Nobody /\ (P!Written(q).coded <=> q.i \in Bots)
      BY DEF P!Written, P!Created
    <2>2. q.op = "update" => P!Written(q).user = row[q.i].user /\ P!Written(q).coded = row[q.i].coded
      BY DEF P!Written, P!Updated, PairingTypes, Rows
    <2>3. ASSUME NEW i \in P!There'
          PROVE  /\ row'[i].user = IF i \in Bots THEN first'[i] ELSE Nobody
                 /\ row'[i].coded <=> i \in Bots /\ first'[i] = Nobody
      <3>1. CASE i # q.i
        BY <1>5, <1>7, <3>1 DEF P!FirstIsUser, P!There
      <3>2. CASE i = q.i /\ q.op = "create"
        BY <1>5, <2>1, <3>2
      <3>3. CASE i = q.i /\ q.op = "update"
        BY <1>5, <1>7, <2>2, <3>3 DEF P!FirstIsUser, P!There
      <3>4. QED
        BY <3>1, <3>2, <3>3
    <2>4. QED
      BY <2>3 DEF P!FirstIsUser
  <1>9. P!SetUpAsWilled'
    <2> SUFFICES ASSUME NEW i \in P!Whole'
                 PROVE  /\ secret'[i] # 0 <=> i \in P!There'
                        /\ i \in P!There' => /\ chosen'[i] = [text |-> row'[i].text, on |-> row'[i].on, token |-> secret'[i]]
                                             /\ i \in Bots => <<row'[i].text, secret'[i]>> \in told'[i]
      BY DEF P!SetUpAsWilled
    <2>1. CASE i # q.i
      <3>1. i \in P!Whole /\ i \in Ids /\ (i \in P!There' <=> i \in P!There)
        BY <1>6, <1>7, <2>1
      <3>2. /\ secret[i] # 0 <=> i \in P!There
            /\ i \in P!There => /\ chosen[i] = [text |-> row[i].text, on |-> row[i].on, token |-> secret[i]]
                                /\ i \in Bots => <<row[i].text, secret[i]>> \in told[i]
        BY <3>1 DEF P!SetUpAsWilled
      <3> HIDE DEF PairingIInv
      <3>3. row'[i] = row[i] /\ secret'[i] = secret[i] /\ chosen'[i] = chosen[i] /\ told' = told
        BY <1>5, <2>1, <3>1
      <3>4. QED
        BY <3>1, <3>2, <3>3
    <2>2. CASE i = q.i /\ q.op = "create"
      <3>1. /\ P!Kept(q) = q.token /\ P!Wanted(q) = [text |-> q.text, on |-> q.on, token |-> q.token]
            /\ P!Written(q).text = q.text /\ P!Written(q).on = q.on
        BY <2>2 DEF P!Kept, P!Wanted, P!Written, P!Created
      <3>2. i \in Bots => P!Registers(q)
        BY <2>2 DEF P!Registers
      <3>3. QED
        BY <1>5, <1>6, <1>7, <2>2, <3>1, <3>2
    <2>3. CASE i = q.i /\ q.op = "update"
      <3>1. /\ row[i].there /\ i \in P!There /\ i \in P!Whole
            /\ "text" \notin q.asked => q.text = row[i].text
            /\ "on" \notin q.asked => q.on = row[i].on
            /\ q.token # 0 <=> "token" \in q.asked
        BY <1>6, <2>3 DEF Updating, P!There
      <3>2. /\ secret[i] # 0 /\ chosen[i] = [text |-> row[i].text, on |-> row[i].on, token |-> secret[i]]
            /\ i \in Bots => <<row[i].text, secret[i]>> \in told[i]
        BY <3>1 DEF P!SetUpAsWilled
      <3>3. P!Written(q).text = q.text /\ P!Written(q).on = q.on
        BY <2>3, <3>1 DEF P!Written, P!Updated, PairingTypes, Rows
      <3>4. P!Wanted(q) = [text |-> q.text, on |-> q.on, token |-> P!Kept(q)] /\ P!Kept(q) # 0
        BY <2>3, <3>1, <3>2 DEF P!Wanted, P!Kept
      <3>5. i \in Bots => <<q.text, P!Kept(q)>> \in told[i]
        <4>1. CASE P!Registers(q)
          BY <2>3, <3>1, <4>1
        <4>2. CASE ~P!Registers(q) /\ i \in Bots
          <5>1. "text" \notin q.asked /\ "token" \notin q.asked
            BY <2>3, <4>2 DEF P!Registers
          <5>2. P!Kept(q) = secret[i] /\ q.text = row[i].text
            BY <2>3, <3>1, <5>1 DEF P!Kept
          <5>3. QED
            BY <3>2, <4>2, <5>2
        <4>3. QED
          BY <4>1, <4>2
      <3>6. QED
        BY <1>5, <1>7, <2>3, <3>1, <3>3, <3>4, <3>5
    <2>4. QED
      BY <2>1, <2>2, <2>3
  <1>10. ASSUME NEW r \in Requests
         PROVE  /\ OfMade(request[r])' /\ Making(r)' /\ Updating(request[r])' /\ Hearing(request[r])' /\ Testing(request[r])'
                /\ request'[r].told => request'[r].op \in {"create", "update"}
    <2>1. CASE request'[r] = P!NoRequest
      BY <2>1 DEF OfMade, Making, Updating, Hearing, Testing
    <2>2. CASE request'[r] = request[r]
      <3>1. request[r].op # "none" => request[r].i \in made /\ request[r].i \in Ids
        BY DEF OfMade, PairingTypes
      <3>2. OfMade(request[r])' /\ Hearing(request[r])' /\ Testing(request[r])'
        BY <2>2 DEF OfMade, Hearing, Testing
      <3>3. Making(r)'
        <4>1. \A other \in Requests : request'[other].op # "none" => request[other].op # "none" /\ request'[other].i = request[other].i
          OBVIOUS
        <4>2. request[r].op = "create" => request[r].i # q.i
          BY <2>2
        <4>3. CASE request[r].op = "create"
          <5>1. row'[request[r].i] = row[request[r].i] /\ Making(r)
            BY <1>5, <3>1, <4>2, <4>3
          <5>2. QED
            BY <2>2, <4>1, <4>3, <5>1 DEF Making
        <4>4. QED
          BY <2>2, <4>3 DEF Making
      <3>4. Updating(request[r])'
        <4>1. CASE request[r].op = "update" /\ request[r].i # q.i
          <5>1. (P!Kept(request[r]))' = P!Kept(request[r])
            BY <1>5, <2>2, <3>1, <4>1 DEF P!Kept
          <5>2. row'[request[r].i] = row[request[r].i] /\ Updating(request[r])
            BY <1>5, <3>1, <4>1
          <5>3. QED
            BY <1>6, <2>2, <4>1, <5>1, <5>2 DEF Updating
        <4>2. CASE request[r].op = "update" /\ request[r].i = q.i
          <5>1. r \in others
            BY <2>2, <4>2
          <5>2. q.i \notin P!Whole'
            BY <1>1, <4>2, <5>1 DEF P!Updates, P!Whole
          <5>3. QED
            BY <2>2, <4>2, <5>2 DEF Updating
        <4>3. CASE request[r].op # "update"
          BY <2>2, <4>3 DEF Updating
        <4>4. QED
          BY <4>1, <4>2, <4>3
      <3>5. QED
        BY <2>2, <3>2, <3>3, <3>4
    <2>3. QED
      BY <2>1, <2>2
  <1>11. QED
    BY <1>3, <1>4, <1>8, <1>9, <1>10

\* The hub stops between the secret and the row.
LEMMA StopKeeps ==
  ASSUME PairingIInv, NEW i \in Ids, NEW v \in Tokens \cup {0}, P!Stops(i), secret' = [secret EXCEPT ![i] = v],
         made' \in SUBSET Ids, made \subseteq made', i \in made', UNCHANGED <<row, told, first, taken>>
  PROVE  PairingIInv'
  <1> USE NoRequestIs DEF PairingIInv
  <1>1. /\ cut' = cut \cup {i} /\ request' = [r \in Requests |-> P!NoRequest]
        /\ UNCHANGED <<chosen, crossed>>
    BY DEF P!Stops
  <1>2. PairingTypes' /\ Undrawn'
    BY <1>1 DEF PairingTypes, Undrawn
  <1>3. P!Whole' \subseteq P!Whole /\ P!There' = P!There /\ i \notin P!Whole' /\ P!Whole \subseteq Ids
    BY <1>1 DEF P!Whole, P!There
  <1>4. P!FirstIsUser'
    BY <1>3 DEF P!FirstIsUser
  <1>5. P!SetUpAsWilled'
    <2>1. \A j \in P!Whole' : secret'[j] = secret[j]
      BY <1>3 DEF PairingTypes
    <2>2. QED
      BY <1>1, <1>3, <2>1 DEF P!SetUpAsWilled
  <1>6. QED
    BY <1>1, <1>2, <1>4, <1>5 DEF OfMade, Making, Updating, Hearing, Testing

LEMMA DeleteKeeps == ASSUME PairingIInv, NEW i \in Ids, P!Delete(i) PROVE PairingIInv'
  <1> USE NoRequestIs DEF PairingIInv
  <1>1. /\ row[i].there /\ secret' = [secret EXCEPT ![i] = 0] /\ i \in made
        /\ UNCHANGED <<told, first, taken, made>>
    BY DEF P!Delete, P!Outside, Undrawn
  <1>2. CASE P!Stops(i) /\ UNCHANGED row
    BY <1>1, <1>2, StopKeeps DEF PairingTypes
  <1>3. CASE /\ row' = [row EXCEPT ![i] = P!NoRow]
             /\ crossed' = IF \E r \in Requests : P!Updates(r, i) THEN crossed \cup {i} ELSE crossed
             /\ UNCHANGED <<request, chosen, cut>>
    <2>1. PairingTypes' /\ Undrawn'
      BY <1>1, <1>3 DEF PairingTypes, Undrawn
    <2>2. /\ \A j \in Ids \ {i} : row'[j] = row[j] /\ secret'[j] = secret[j]
          /\ ~row'[i].there /\ secret'[i] = 0
      BY <1>1, <1>3 DEF PairingTypes
    <2>3. P!Whole' \subseteq P!Whole /\ P!There' = P!There \ {i} /\ P!Whole \subseteq Ids
      BY <1>3, <2>2 DEF P!Whole, P!There
    <2>4. P!FirstIsUser'
      BY <1>1, <2>2, <2>3 DEF P!FirstIsUser, P!There
    <2>5. P!SetUpAsWilled'
      BY <1>1, <1>3, <2>2, <2>3 DEF P!SetUpAsWilled
    <2>6. ASSUME NEW r \in Requests
          PROVE  /\ OfMade(request[r])' /\ Making(r)' /\ Updating(request[r])' /\ Hearing(request[r])' /\ Testing(request[r])'
                 /\ request'[r].told => request'[r].op \in {"create", "update"}
      <3>1. OfMade(request[r])' /\ Hearing(request[r])' /\ Testing(request[r])'
        BY <1>1, <1>3 DEF OfMade, Hearing, Testing
      <3>2. request[r].op # "none" => request[r].i \in Ids
        BY DEF OfMade, PairingTypes
      <3>3. Making(r)'
        BY <1>1, <1>3, <2>2, <3>2 DEF Making
      <3>4. Updating(request[r])'
        <4>1. CASE request[r].op = "update" /\ request[r].i # i
          <5>1. (P!Kept(request[r]))' = P!Kept(request[r])
            BY <1>3, <2>2, <3>2, <4>1 DEF P!Kept
          <5>2. QED
            BY <1>1, <1>3, <2>2, <2>3, <3>2, <4>1, <5>1 DEF Updating
        <4>2. CASE request[r].op = "update" /\ request[r].i = i
          <5>1. i \notin P!Whole'
            BY <1>3, <4>2 DEF P!Updates, P!Whole
          <5>2. QED
            BY <1>3, <4>2, <5>1 DEF Updating
        <4>3. CASE request[r].op # "update"
          BY <1>3, <4>3 DEF Updating
        <4>4. QED
          BY <4>1, <4>2, <4>3
      <3>5. QED
        BY <1>3, <3>1, <3>3, <3>4
    <2>7. QED
      BY <1>1, <2>1, <2>4, <2>5, <2>6
  <1>4. QED
    BY <1>2, <1>3 DEF P!Delete

\* A set-up begins: at once, or once the bot's service knows the channel.
LEMMA BeginKeeps ==
  ASSUME PairingIInv, NEW q \in AllRequests, P!Begins(q), q.op \in {"create", "update"}, ~q.told,
         made' \in SUBSET Ids, made \subseteq made', q.i \in made', q.i \in Ids,
         q.op = "create" => q.i \notin made /\ q.asked = {"text", "on", "token"} /\ q.token # 0 /\ q.on,
         q.op = "update" => row[q.i].there,
         Updating(q), UNCHANGED <<told, first, taken>>
  PROVE  PairingIInv'
  <1> USE NoRequestIs DEF PairingIInv
  <1>1. CASE /\ \E r \in Requests : request[r] = P!NoRequest /\ request' = [request EXCEPT ![r] = q]
             /\ UNCHANGED <<row, secret, chosen, crossed, cut, stops>>
    <2>1. PICK r \in Requests : request[r] = P!NoRequest /\ request' = [request EXCEPT ![r] = q]
      BY <1>1
    <2>2. Hearing(q) /\ Testing(q)
      BY DEF Hearing, Testing
    <2>3. UNCHANGED <<row, secret, told, first, taken, chosen, crossed, cut>>
      BY <1>1
    <2>4. QED
      BY <2>1, <2>2, <2>3, CallStarts
  <1>2. CASE ~P!Registers(q) /\ P!Keeps(q, Requests) /\ UNCHANGED request
    <2>1. \A r \in Requests : request'[r].op = "create" => request'[r].i # q.i
      <3>1. ASSUME NEW r \in Requests, request[r].op = "create" PROVE request[r].i # q.i
        <4>1. Making(r) /\ request[r].i \in made
          BY <3>1 DEF OfMade
        <4>2. QED
          BY <3>1, <4>1 DEF Making
      <3>2. QED
        BY <1>2, <3>1
    <2>2. q.op = "create" => ~row[q.i].there /\ first[q.i] = Nobody
      BY DEF Undrawn
    <2>3. request' \in [Requests -> AllRequests] /\ \A r \in Requests : request'[r] = request[r]
      BY <1>2 DEF PairingTypes
    <2>4. QED
      BY <1>2, <2>1, <2>2, <2>3, KeepsKeeps
  <1>3. CASE P!KeepsSecretOnly(q)
    <2>1. P!Kept(q) \in Tokens \cup {0}
      BY DEF P!Kept, PairingTypes, AllRequests
    <2>2. QED
      BY <1>3, <2>1, StopKeeps DEF P!KeepsSecretOnly
  <1>4. QED
    BY <1>1, <1>2, <1>3 DEF P!Begins

LEMMA CreateKeeps ==
  ASSUME PairingIInv, NEW i \in Ids, NEW text \in Texts, NEW token \in Tokens, P!Create(i, text, token)
  PROVE  PairingIInv'
  <1> DEFINE q == P!SetUp("create", i, {"text", "on", "token"}, text, TRUE, token)
  <1>1. q \in AllRequests /\ q.op = "create" /\ ~q.told /\ q.i = i /\ q.asked = {"text", "on", "token"}
        /\ q.token = token /\ q.token # 0 /\ q.on
    BY NoRequestIs, PairingAssumption DEF P!SetUp, AllRequests
  <1>2. Updating(q)
    BY <1>1 DEF Updating
  <1>3. P!Begins(q) /\ i \notin made /\ made' = made \cup {i} /\ UNCHANGED <<told, first, taken>>
    BY DEF P!Create, P!Outside
  <1>4. made' \in SUBSET Ids
    BY <1>3 DEF PairingIInv, PairingTypes
  <1> HIDE DEF q
  <1>5. QED
    BY <1>1, <1>2, <1>3, <1>4, BeginKeeps

LEMMA UpdateKeeps ==
  ASSUME PairingIInv, NEW i \in Ids, NEW asked \in SUBSET {"text", "on", "token"}, NEW text \in Texts,
         NEW on \in BOOLEAN, NEW token \in Tokens, P!Update(i, asked, text, on, token)
  PROVE  PairingIInv'
  <1> DEFINE newText == IF "text" \in asked THEN text ELSE row[i].text
             newOn == IF "on" \in asked THEN on ELSE row[i].on
             newToken == IF "token" \in asked THEN token ELSE 0
             q == P!SetUp("update", i, asked, newText, newOn, newToken)
  <1>1. newText \in Texts \cup {0} /\ newOn \in BOOLEAN /\ newToken \in Tokens \cup {0}
        /\ (newToken # 0 <=> "token" \in asked)
    BY PairingAssumption DEF PairingIInv, PairingTypes, Rows
  <1>2. P!Begins(q) /\ row[i].there /\ UNCHANGED <<told, first, taken, made>>
    BY DEF P!Update, P!Outside
  <1>3. made \in SUBSET Ids /\ i \in made
    BY <1>2 DEF PairingIInv, PairingTypes, Undrawn
  <1>4. "text" \notin asked => newText = row[i].text
    OBVIOUS
  <1>5. "on" \notin asked => newOn = row[i].on
    OBVIOUS
  <1> HIDE DEF newText, newOn, newToken
  <1>6. q \in AllRequests /\ q.op = "update" /\ ~q.told /\ q.i = i /\ q.asked = asked
        /\ q.text = newText /\ q.on = newOn /\ q.token = newToken
    BY <1>1, NoRequestIs DEF P!SetUp, AllRequests
  <1> HIDE DEF q
  <1>7. Updating(q)
    BY <1>1, <1>2, <1>4, <1>5, <1>6 DEF Updating
  <1>8. QED
    BY <1>2, <1>3, <1>6, <1>7, BeginKeeps

LEMMA AnsweredKeeps == ASSUME PairingIInv, NEW r \in Requests, P!Answered(r) PROVE PairingIInv'
  <1> USE NoRequestIs DEF PairingIInv
  <1> DEFINE q == request[r]
  <1>1. /\ q \in AllRequests /\ q.told /\ q.op \in {"create", "update"} /\ q.i \in made /\ q.i \in Ids
        /\ UNCHANGED <<made, told, first, taken>> /\ made \in SUBSET Ids
    BY DEF P!Answered, P!Outside, PairingTypes, OfMade
  <1>2. CASE P!Keeps(q, Requests \ {r}) /\ request' = [request EXCEPT ![r] = P!NoRequest]
    <2>1. /\ request'[r] = P!NoRequest /\ \A s \in Requests \ {r} : request'[s] = request[s]
          /\ request' \in [Requests -> AllRequests]
      BY <1>2 DEF PairingTypes
    <2>2. q.op = "create" => /\ ~row[q.i].there /\ first[q.i] = Nobody
                             /\ q.asked = {"text", "on", "token"} /\ q.token # 0 /\ q.on
                             /\ <<q.text, q.token>> \in told[q.i]
      BY <1>1 DEF Making
    <2>3. \A s \in Requests : request'[s].op = "create" => request'[s].i # q.i
      <3>1. ASSUME NEW s \in Requests \ {r}, request[s].op = "create" PROVE request[s].i # q.i
        <4>1. Making(s)
          OBVIOUS
        <4>2. QED
          BY <1>1, <3>1, <4>1 DEF Making
      <3>2. QED
        BY <2>1, <3>1
    <2>4. q.i \in P!Whole => <<q.text, P!Kept(q)>> \in told[q.i]
      BY <1>1, <2>2 DEF Updating, P!Kept
    <2>5. q.op = "create" => /\ ~row[q.i].there /\ first[q.i] = Nobody
                             /\ q.asked = {"text", "on", "token"} /\ q.token # 0 /\ q.on
      BY <2>2
    <2>6. Updating(q) /\ Requests \ {r} \in SUBSET Requests
      OBVIOUS
    <2>7. \A s \in Requests \ (Requests \ {r}) : request'[s].op = "update" => request'[s].i # q.i
      BY <2>1
    <2>8. \A s \in Requests : request'[s] = request[s] \/ request'[s] = P!NoRequest
      BY <2>1
    <2> HIDE DEF q
    <2>9. QED
      BY <1>1, <1>2, <2>1, <2>3, <2>4, <2>5, <2>6, <2>7, <2>8, KeepsKeeps
  <1>3. CASE P!KeepsSecretOnly(q)
    <2>1. P!Kept(q) \in Tokens \cup {0}
      BY <1>1 DEF P!Kept, PairingTypes, AllRequests
    <2>2. QED
      BY <1>1, <1>3, <2>1, StopKeeps DEF P!KeepsSecretOnly
  <1>4. QED
    BY <1>2, <1>3 DEF P!Answered

LEMMA ReceivedKeeps == ASSUME PairingIInv, NEW r \in Requests, P!Received(r) PROVE PairingIInv'
  <1> USE NoRequestIs DEF PairingIInv
  <1> DEFINE q == request[r]
             i == q.i
  <1>1. /\ q \in AllRequests /\ q.op = "receive" /\ i \in made /\ i \in Ids /\ i \in Bots /\ q.by \in Users
        /\ q.by # Nobody /\ (q.row.user # Nobody => q.row.user = first[i])
        /\ row' = IF P!Pairs(q) /\ P!StillCoded(q) THEN [row EXCEPT ![i] = P!Paired(q)] ELSE row
        /\ first' = IF P!Pairs(q) /\ first[i] = Nobody THEN [first EXCEPT ![i] = q.by] ELSE first
        /\ taken' = IF P!Replies(q) THEN taken \cup {<<i, q.by>>} ELSE taken
        /\ request' = [request EXCEPT ![r] = P!NoRequest]
        /\ UNCHANGED <<secret, made, told, chosen, crossed, cut>>
    BY PairingAssumption DEF P!Received, PairingTypes, OfMade, Hearing
  <1>2. /\ request'[r] = P!NoRequest /\ \A s \in Requests \ {r} : request'[s] = request[s]
        /\ request' \in [Requests -> AllRequests]
    BY <1>1 DEF PairingTypes
  <1>3. /\ row[i] \in Rows /\ P!Paired(q) \in Rows /\ P!Paired(q).user = q.by /\ ~P!Paired(q).coded
        /\ P!Paired(q).there = row[i].there /\ P!Paired(q).text = row[i].text /\ P!Paired(q).on = row[i].on
    <2>1. row[i] \in Rows
      BY <1>1 DEF PairingTypes
    <2> HIDE DEF q
    <2>2. QED
      BY <1>1, <2>1 DEF P!Paired, Rows
  <1> HIDE DEF q, i
  <1>4. PairingTypes'
    BY <1>1, <1>2, <1>3 DEF PairingTypes
  <1>5. Undrawn'
    BY <1>1 DEF Undrawn, PairingTypes
  <1>6. \A j \in Ids : /\ row'[j].there = row[j].there /\ row'[j].text = row[j].text /\ row'[j].on = row[j].on
                       /\ first[j] # Nobody => first'[j] = first[j]
                       /\ j # i => row'[j] = row[j] /\ first'[j] = first[j]
    BY <1>1, <1>3 DEF PairingTypes
  <1>7. P!Whole' = P!Whole /\ P!There' = P!There /\ P!Whole \subseteq Ids /\ P!There \subseteq Ids
    BY <1>1, <1>6 DEF P!Whole, P!There
  <1>8. P!FirstIsUser'
    <2>1. ASSUME i \in P!There PROVE row'[i].user = first'[i] /\ (row'[i].coded <=> first'[i] = Nobody)
      <3>1. row[i].there /\ row[i].user = first[i] /\ (row[i].coded <=> first[i] = Nobody)
        BY <1>1, <2>1 DEF P!FirstIsUser, P!There
      <3>2. P!StillCoded(q) <=> first[i] = Nobody
        BY <3>1 DEF P!StillCoded, i
      <3>3. CASE P!Pairs(q) /\ first[i] = Nobody
        BY <1>1, <1>3, <3>2, <3>3 DEF PairingTypes
      <3>4. CASE ~(P!Pairs(q) /\ first[i] = Nobody)
        BY <1>1, <3>1, <3>2, <3>4
      <3>5. QED
        BY <3>3, <3>4
    <2>2. QED
      BY <1>1, <1>6, <1>7, <2>1 DEF P!FirstIsUser
  <1>9. P!SetUpAsWilled'
    <2>1. ASSUME NEW j \in P!Whole
          PROVE  /\ secret'[j] # 0 <=> j \in P!There'
                 /\ j \in P!There' => /\ chosen'[j] = [text |-> row'[j].text, on |-> row'[j].on, token |-> secret'[j]]
                                      /\ j \in Bots => <<row'[j].text, secret'[j]>> \in told'[j]
      <3>1. j \in Ids
        BY <1>7
      <3>2. QED
        BY <1>1, <1>6, <1>7, <3>1 DEF P!SetUpAsWilled
    <2>2. QED
      BY <1>7, <2>1 DEF P!SetUpAsWilled
  <1>10. \A t \in taken' : t[2] # Nobody /\ t[2] = first'[t[1]]
    <2>1. ASSUME NEW t \in taken PROVE t[2] # Nobody /\ t[2] = first'[t[1]]
      BY <1>6, <2>1 DEF PairingTypes
    <2>2. P!Replies(q) => q.by = first[i]
      BY <1>1 DEF P!Replies
    <2>3. P!Replies(q) => q.by = first'[i]
      BY <1>1, <1>6, <2>2
    <2>4. QED
      BY <1>1, <2>1, <2>3
  <1>11. ASSUME NEW s \in Requests
         PROVE  /\ OfMade(request[s])' /\ Making(s)' /\ Updating(request[s])' /\ Hearing(request[s])' /\ Testing(request[s])'
                /\ request'[s].told => request'[s].op \in {"create", "update"}
    <2>1. CASE s = r
      BY <1>2, <2>1 DEF OfMade, Making, Updating, Hearing, Testing
    <2>2. CASE s # r
      <3>1. request'[s] = request[s] /\ (request[s].op # "none" => request[s].i \in made /\ request[s].i \in Ids)
        BY <1>2, <2>2 DEF OfMade, PairingTypes
      <3>2. OfMade(request[s])' /\ Hearing(request[s])' /\ Testing(request[s])'
        BY <1>1, <1>6, <3>1 DEF OfMade, Hearing, Testing
      <3>3. Making(s)'
        <4>1. CASE request[s].op = "create"
          <5>1. Making(s) /\ request[s].i # i
            BY <1>1, <2>2, <4>1 DEF Making, i, q
          <5>2. \A other \in Requests : request'[other].op # "none" => request'[other] = request[other]
            BY <1>2
          <5>3. row'[request[s].i] = row[request[s].i] /\ first'[request[s].i] = first[request[s].i]
            BY <1>6, <3>1, <4>1, <5>1
          <5>4. QED
            BY <1>1, <3>1, <4>1, <5>1, <5>2, <5>3 DEF Making
        <4>2. QED
          BY <3>1, <4>1 DEF Making
      <3>4. Updating(request[s])'
        <4>1. (P!Kept(request[s]))' = P!Kept(request[s]) /\ Updating(request[s]) /\ told' = told
          BY <1>1, <3>1 DEF P!Kept
        <4> HIDE DEF PairingIInv
        <4>2. QED
          BY <1>6, <1>7, <3>1, <4>1 DEF Updating
      <3>5. QED
        BY <3>1, <3>2, <3>3, <3>4
    <2>3. QED
      BY <2>1, <2>2
  <1>12. QED
    BY <1>4, <1>5, <1>8, <1>9, <1>10, <1>11

LEMMA PairingSame ==
  ASSUME PairingIInv, UNCHANGED <<row, secret, made, told, request, first, taken, chosen, crossed, cut>>
  PROVE  PairingIInv'
  <1>1. row \in [Ids -> Rows] /\ request \in [Requests -> AllRequests]
    BY DEF PairingIInv, PairingTypes
  <1>2. QED
    BY <1>1, CallsEnd

LEMMA PairingStep == PairingIInv /\ [P!Next]_pairingVars => PairingIInv'
  <1> SUFFICES ASSUME PairingIInv, [P!Next]_pairingVars PROVE PairingIInv'
    OBVIOUS
  <1>1. CASE UNCHANGED pairingVars
    BY <1>1, PairingSame DEF pairingVars
  <1>2. CASE \E i \in Ids : \E text \in Texts, token \in Tokens : P!Create(i, text, token)
    BY <1>2, CreateKeeps
  <1>3. CASE \E i \in Ids : \E text \in Texts, token \in Tokens :
               \E asked \in SUBSET {"text", "on", "token"}, on \in BOOLEAN : P!Update(i, asked, text, on, token)
    BY <1>3, UpdateKeeps
  <1>4. CASE \E i \in Ids : P!Delete(i)
    BY <1>4, DeleteKeeps
  <1>5. CASE \E i \in Ids : P!Lapse(i)
    BY <1>5, PairingSame DEF P!Lapse
  <1>6. CASE \E i \in Ids : \E r \in Requests : P!Called(r, i)
    <2>1. PICK i \in Ids, r \in Requests : P!Called(r, i)
      BY <1>6
    <2>2. row[i] \in Rows /\ made \in SUBSET Ids /\ (row[i].there => i \in made)
      BY DEF PairingIInv, PairingTypes, Undrawn
    <2>3. ASSUME NEW op \in {"test", "receive"}, NEW says \in {"code", "option", "nothing"},
                 NEW by \in Users \cup {Nobody}, row[i].there, request[r] = P!NoRequest,
                 request' = [request EXCEPT ![r] = P!Call(op, i, says, by)],
                 UNCHANGED <<row, secret, made, told, first, taken, chosen, crossed, cut>>,
                 op = "receive" => i \in Bots /\ by \in Users, op = "test" => ~row[i].coded /\ by = row[i].user
          PROVE  PairingIInv'
      <3> DEFINE q == P!Call(op, i, says, by)
      <3>1. q \in AllRequests /\ q.op = op /\ q.i = i /\ ~q.told /\ q.by = by /\ q.row = row[i]
        BY <2>2 DEF P!Call, AllRequests
      <3> HIDE DEF q
      <3>2. i \in P!There
        BY <2>3 DEF P!There
      <3>3. Updating(q) /\ Hearing(q) /\ Testing(q)
        BY <2>3, <3>1, <3>2 DEF Updating, Hearing, Testing, PairingIInv, P!FirstIsUser
      <3>4. request' = [request EXCEPT ![r] = q]
        BY <2>3 DEF q
      <3>5. q.op # "none" /\ q.op # "create" /\ q.i \in made'
        BY <2>2, <2>3, <3>1
      <3>6. QED
        BY <2>2, <2>3, <3>1, <3>3, <3>4, <3>5, CallStarts
    <2>4. CASE P!Test(r, i)
      <3>1. row[i].user \in Users \cup {Nobody}
        BY <2>2 DEF Rows
      <3>2. QED
        BY <2>3, <2>4, <3>1 DEF P!Test, P!Outside
    <2>5. CASE \E by \in Users, says \in {"code", "option", "nothing"} : P!Receive(r, i, by, says)
      BY <2>3, <2>5 DEF P!Receive, P!Outside
    <2>6. QED
      BY <2>1, <2>4, <2>5 DEF P!Called
  <1>7. CASE \E r \in Requests : P!Tell(r)
    BY <1>7, TellKeeps
  <1>8. CASE \E r \in Requests : P!Answered(r)
    BY <1>8, AnsweredKeeps
  <1>9. CASE \E r \in Requests : P!Received(r)
    BY <1>9, ReceivedKeeps
  <1>10. CASE (\E r \in Requests : P!Refused(r)) \/ P!Restart
    <2>1. /\ \A s \in Requests : request'[s] = request[s] \/ request'[s] = P!NoRequest
          /\ request' \in [Requests -> AllRequests]
          /\ UNCHANGED <<row, secret, made, told, first, taken, chosen, crossed, cut>>
      BY <1>10, NoRequestIs DEF P!Refused, P!Restart, P!Outside, PairingIInv, PairingTypes
    <2>2. row \in [Ids -> Rows]
      BY DEF PairingIInv, PairingTypes
    <2>3. QED
      BY <2>1, <2>2, CallsEnd
  <1>11. CASE \E r \in Requests : \E how \in {"sent", "failed"} : P!Tested(r, how)
    <2>1. PICK r \in Requests, how \in {"sent", "failed"} : P!Tested(r, how)
      BY <1>11
    <2>2. request[r] \in AllRequests /\ request[r].i \in Ids /\ row \in [Ids -> Rows]
      BY <2>1 DEF P!Tested, PairingIInv, PairingTypes, OfMade
    <2> DEFINE i == request[r].i
               last == IF row[i].there THEN how ELSE row[i].last
    <2>3. last \in {"none", "sent", "failed"}
      BY <2>2 DEF Rows
    <2>4. row' = [row EXCEPT ![i].last = last]
      BY <2>1, <2>2 DEF P!Tested
    <2> HIDE DEF last
    <2>5. row' \in [Ids -> Rows]
      BY <2>2, <2>3, <2>4 DEF Rows
    <2>6. \A j \in Ids : row'[j] = row[j] \/ row'[j] = [row[j] EXCEPT !.last = row'[j].last]
      BY <2>2, <2>4 DEF Rows
    <2>7. /\ \A s \in Requests : request'[s] = request[s] \/ request'[s] = P!NoRequest
          /\ request' \in [Requests -> AllRequests]
          /\ UNCHANGED <<secret, made, told, first, taken, chosen, crossed, cut>>
      BY <2>1, NoRequestIs DEF P!Tested, P!Outside, PairingIInv, PairingTypes
    <2>8. QED
      BY <2>5, <2>6, <2>7, CallsEnd
  <1>12. QED
    BY <1>1, <1>2, <1>3, <1>4, <1>5, <1>6, <1>7, <1>8, <1>9, <1>10, <1>11 DEF P!Next, P!Set, P!Goes

LEMMA PairingHolds == PairingIInv => PairingInv
  <1> SUFFICES ASSUME PairingIInv PROVE P!HisAlone
    BY DEF PairingIInv, PairingInv, P!PairingInv
  <1>1. \A r \in Requests : Testing(request[r])
    BY DEF PairingIInv
  <1>2. QED
    BY <1>1 DEF PairingIInv, P!HisAlone, Testing

\* Whatever sends the code and however the calls of the web app and of the services interleave,
\* a channel has the first user who sent its code in time, answers to no other, and is set up as
\* the user wants and as its service was told, unless a call crossed an update of it or the hub
\* stopped between its two writes (channels.py: create, update, delete, test, receive).
THEOREM ChannelsArePaired == ServingSpec => []PairingInv
  <1>1. ServingInit => PairingIInv
    BY PairingStarts DEF ServingInit
  <1>2. PairingIInv /\ [ServingNext]_servingVars => PairingIInv'
    <2> SUFFICES ASSUME PairingIInv, [ServingNext]_servingVars PROVE PairingIInv'
      OBVIOUS
    <2>1. [P!Next]_pairingVars
      BY DEF ServingNext, OfDesk, OfTranscript, OfBrowsers, OfPairing, servingVars
    <2>2. QED
      BY <2>1, PairingStep
  <1>3. QED
    BY <1>1, <1>2, PairingHolds, PTL DEF ServingSpec

=============================================================================
