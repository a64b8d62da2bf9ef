------------------------------ MODULE Pairing ------------------------------
(***************************************************************************)
(* The channels the user sets up (hub/channels.py): each has a row of the  *)
(* registry and, for its secret settings, a hub secret (hub/secrets.py).   *)
(* A bot's service is told the channel's route before any of its settings  *)
(* is kept, which is an await: another call may change the channel         *)
(* meanwhile.  A bot is paired by the first user who sends it its code.    *)
(*                                                                         *)
(* One text stands for a channel's configuration, one token for the values *)
(* of its secret settings, and `on' for its name too.  A service's call    *)
(* that the kind finds not authentic says nothing.                         *)
(***************************************************************************)
EXTENDS Naturals

CONSTANTS
    Ids,            \* channels, by the id the hub draws for each
    Bots,           \* those of a kind that registers, receives and pairs
    Texts, Tokens,  \* configurations, and values of the secret settings
    Users, Nobody,
    Requests,       \* calls of the web app and of the services under way
    MaxSetups, MaxCalls, MaxBoth, MaxStops \* bounds: set-ups and deletions, tests and calls of services, the two together, stops of the hub

VARIABLES
    row,      \* the registry's row of each channel
    secret,   \* the hub secret of each channel, 0 for none
    made,     \* the ids drawn
    told,     \* what each channel's service was told its route with
    request,  \* the calls that wait for a service
    lapsed,   \* the channels whose code's time is over
    first,    \* the first user who sent each channel's code in time
    taken,    \* the replies handed on, each with its sender
    willed,   \* what the user last asked for of each channel, call by call
    crossed,  \* the channels changed while an update of them waited
    cut,      \* the channels at which the hub stopped between two writes
    setups, calls, stops

pairingVars == <<row, secret, made, told, request, lapsed, first, taken, willed, crossed, cut, setups, calls, stops>>

-----------------------------------------------------------------------------
NoRow == [there |-> FALSE, text |-> 0, on |-> FALSE, coded |-> FALSE, user |-> Nobody, last |-> "none"]
NoRequest == [op |-> "none", i |-> Nobody, told |-> FALSE, asked |-> {}, text |-> 0, on |-> FALSE,
              token |-> 0, row |-> NoRow, says |-> "nothing", by |-> Nobody]
SetUp(op, i, asked, text, on, token) ==
    [op |-> op, i |-> i, told |-> FALSE, asked |-> asked, text |-> text, on |-> on, token |-> token,
     row |-> NoRow, says |-> "nothing", by |-> Nobody]
Call(op, i, says, by) ==
    [op |-> op, i |-> i, told |-> FALSE, asked |-> {}, text |-> 0, on |-> FALSE, token |-> 0,
     row |-> row[i], says |-> says, by |-> by]

Init ==
    /\ row = [i \in Ids |-> NoRow] /\ secret = [i \in Ids |-> 0]
    /\ made = {} /\ told = [i \in Ids |-> {}]
    /\ request = [r \in Requests |-> NoRequest]
    /\ lapsed = {} /\ first = [i \in Ids |-> Nobody] /\ taken = {}
    /\ willed = [i \in Ids |-> [text |-> 0, on |-> FALSE, token |-> 0]]
    /\ crossed = {} /\ cut = {}
    /\ setups = 0 /\ calls = 0 /\ stops = 0

Asks == setups < MaxSetups /\ setups + calls < MaxBoth /\ setups' = setups + 1 /\ UNCHANGED calls
Calls == calls < MaxCalls /\ setups + calls < MaxBoth /\ calls' = calls + 1 /\ UNCHANGED setups
Outside == UNCHANGED <<told, lapsed, first, taken>>

Updates(r, i) == request[r].op = "update" /\ request[r].i = i

\* The hub stops part way through a change of channel i.
Stops(i) ==
    /\ stops < MaxStops /\ stops' = stops + 1
    /\ cut' = cut \cup {i}
    /\ request' = [r \in Requests |-> NoRequest]
    /\ UNCHANGED <<willed, crossed>>

-----------------------------------------------------------------------------
\* A new channel is on and, of a kind that pairs, waits for its code; an update writes all the
\* settings and what it read, also what the user did not ask it to change.
Created(q) ==
    [there |-> TRUE, text |-> q.text, on |-> TRUE, coded |-> q.i \in Bots, user |-> Nobody, last |-> "none"]
Updated(q) ==
    IF row[q.i].there THEN [row[q.i] EXCEPT !.text = q.text, !.on = q.on] ELSE row[q.i]
Written(q) == IF q.op = "create" THEN Created(q) ELSE Updated(q)

\* _kept: the hub secret of a channel after call q.
Kept(q) == IF q.token = 0 THEN secret[q.i] ELSE q.token

\* What the user asks for is what he wants once the call is through.
Wanted(q) ==
    [text |-> IF "text" \in q.asked THEN q.text ELSE willed[q.i].text,
     on |-> IF "on" \in q.asked THEN q.on ELSE willed[q.i].on,
     token |-> IF "token" \in q.asked THEN q.token ELSE willed[q.i].token]

\* The rest of create and update is a stretch: the secret is kept, then the row written.
Keeps(q, others) ==
    /\ secret' = [secret EXCEPT ![q.i] = Kept(q)]
    /\ row' = [row EXCEPT ![q.i] = Written(q)]
    /\ willed' = [willed EXCEPT ![q.i] = Wanted(q)]
    /\ crossed' = IF \E r \in others : Updates(r, q.i) THEN crossed \cup {q.i} ELSE crossed
    /\ UNCHANGED <<cut, stops>>

\* The hub stops between the two.
KeepsSecretOnly(q) ==
    /\ q.token # 0
    /\ secret' = [secret EXCEPT ![q.i] = Kept(q)]
    /\ Stops(q.i)
    /\ UNCHANGED row

\* A bot's service is told of the channel first, as it will be.
Registers(q) == q.i \in Bots /\ q.asked \cap {"text", "token"} # {}
Begins(q) ==
    \/ /\ Registers(q)
       /\ \E r \in Requests : request[r] = NoRequest /\ request' = [request EXCEPT ![r] = q]
       /\ UNCHANGED <<row, secret, willed, crossed, cut, stops>>
    \/ ~Registers(q) /\ Keeps(q, Requests) /\ UNCHANGED request
    \/ ~Registers(q) /\ KeepsSecretOnly(q)

Create(i, text, token) ==
    /\ Asks /\ i \notin made /\ made' = made \cup {i}
    /\ Begins(SetUp("create", i, {"text", "on", "token"}, text, TRUE, token))
    /\ Outside

Update(i, asked, text, on, token) ==
    /\ Asks /\ row[i].there
    /\ Begins(SetUp("update", i, asked,
                    IF "text" \in asked THEN text ELSE row[i].text,
                    IF "on" \in asked THEN on ELSE row[i].on,
                    IF "token" \in asked THEN token ELSE 0))
    /\ Outside /\ UNCHANGED made

\* The service takes the route, with the settings and the token it was told by...
Tell(r) ==
    /\ request[r].op \in {"create", "update"} /\ ~request[r].told
    /\ told' = [told EXCEPT ![request[r].i] = @ \cup {<<request[r].text, Kept(request[r])>>}]
    /\ request' = [request EXCEPT ![r].told = TRUE]
    /\ UNCHANGED <<row, secret, made, lapsed, first, taken, willed, crossed, cut, setups, calls, stops>>

\* ...and answers: the call goes on.
Answered(r) ==
    /\ request[r].told
    /\ \/ /\ Keeps(request[r], Requests \ {r})
          /\ request' = [request EXCEPT ![r] = NoRequest]
       \/ KeepsSecretOnly(request[r])
    /\ Outside /\ UNCHANGED <<made, setups, calls>>

\* The service refuses, or its answer is lost, or the hub has no public URL.
Refused(r) ==
    /\ request[r].op \in {"create", "update"}
    /\ request' = [request EXCEPT ![r] = NoRequest]
    /\ Outside /\ UNCHANGED <<row, secret, made, willed, crossed, cut, setups, calls, stops>>

\* The channel's secret is deleted, then its row.
Delete(i) ==
    /\ Asks /\ row[i].there
    /\ secret' = [secret EXCEPT ![i] = 0]
    /\ \/ /\ row' = [row EXCEPT ![i] = NoRow]
          /\ crossed' = IF \E r \in Requests : Updates(r, i) THEN crossed \cup {i} ELSE crossed
          /\ UNCHANGED <<request, willed, cut, stops>>
       \/ Stops(i) /\ UNCHANGED row
    /\ Outside /\ UNCHANGED made

-----------------------------------------------------------------------------
\* A test goes to the user the channel is paired with, once it is.
Test(r, i) ==
    /\ Calls /\ request[r] = NoRequest /\ row[i].there /\ ~row[i].coded
    /\ request' = [request EXCEPT ![r] = Call("test", i, "nothing", row[i].user)]
    /\ Outside /\ UNCHANGED <<row, secret, made, willed, crossed, cut, stops>>

\* Whether it went is kept if the channel is still there.
Tested(r, how) ==
    /\ request[r].op = "test"
    /\ row' = [row EXCEPT ![request[r].i].last = IF row[request[r].i].there THEN how ELSE @]
    /\ request' = [request EXCEPT ![r] = NoRequest]
    /\ Outside /\ UNCHANGED <<secret, made, willed, crossed, cut, setups, calls, stops>>

\* A service calls the channel's route: the hub reads the row, then the call.
Receive(r, i, by, says) ==
    /\ Calls /\ request[r] = NoRequest /\ row[i].there /\ i \in Bots
    /\ request' = [request EXCEPT ![r] = Call("receive", i, says, by)]
    /\ Outside /\ UNCHANGED <<row, secret, made, willed, crossed, cut, stops>>

\* A mutant of StillCoded that pairs by the row as it was read.
CodedWhenRead(q) == row[q.i].there

\* pair_channel: no other sender of the code was first.
StillCoded(q) == row[q.i].there /\ row[q.i].coded

\* The code, in time, from whomever: the first to send it is the channel's user.
Pairs(q) == q.says = "code" /\ q.row.coded /\ q.i \notin lapsed
Paired(q) == [row[q.i] EXCEPT !.user = q.by, !.coded = FALSE]

\* An option the paired user answered a message with: the reply is handed on.
Replies(q) == q.says = "option" /\ q.by = q.row.user

Received(r) ==
    LET q == request[r] IN
    /\ q.op = "receive"
    /\ row' = IF Pairs(q) /\ StillCoded(q) THEN [row EXCEPT ![q.i] = Paired(q)] ELSE row
    /\ first' = IF Pairs(q) /\ first[q.i] = Nobody THEN [first EXCEPT ![q.i] = q.by] ELSE first
    /\ taken' = IF Replies(q) THEN taken \cup {<<q.i, q.by>>} ELSE taken
    /\ request' = [request EXCEPT ![r] = NoRequest]
    /\ UNCHANGED <<secret, made, told, lapsed, willed, crossed, cut, setups, calls, stops>>

\* The time of a code is over.
Lapse(i) ==
    /\ row[i].there /\ i \notin lapsed /\ lapsed' = lapsed \cup {i}
    /\ UNCHANGED <<row, secret, made, told, request, first, taken, willed, crossed, cut, setups, calls, stops>>

Restart ==
    /\ stops < MaxStops /\ stops' = stops + 1
    /\ request' = [r \in Requests |-> NoRequest]
    /\ UNCHANGED <<row, secret, made, told, lapsed, first, taken, willed, crossed, cut, setups, calls>>

-----------------------------------------------------------------------------
Set(i) ==
    \/ \E text \in Texts, token \in Tokens :
        \/ Create(i, text, token)
        \/ \E asked \in SUBSET {"text", "on", "token"}, on \in BOOLEAN : Update(i, asked, text, on, token)
    \/ Delete(i) \/ Lapse(i)

Called(r, i) ==
    \/ Test(r, i)
    \/ \E by \in Users, says \in {"code", "option", "nothing"} : Receive(r, i, by, says)

Goes(r) ==
    \/ Tell(r) \/ Answered(r) \/ Refused(r) \/ Received(r)
    \/ \E how \in {"sent", "failed"} : Tested(r, how)

Next ==
    \/ \E i \in Ids : Set(i) \/ \E r \in Requests : Called(r, i)
    \/ \E r \in Requests : Goes(r)
    \/ Restart

Spec == Init /\ [][Next]_pairingVars

-----------------------------------------------------------------------------
Whole == Ids \ (crossed \cup cut)
There == {i \in Ids : row[i].there}

(* A channel's user is the first who sent its code in time, for good, and only such a channel     *)
(* waits for a code no more (channels.py: receive; registry.py: pair_channel).                   *)
FirstIsUser ==
    \A i \in There : /\ row[i].user = IF i \in Bots THEN first[i] ELSE Nobody
                     /\ row[i].coded <=> i \in Bots /\ first[i] = Nobody

(* Only his replies are handed on, and tests go to him, though both are decided by a row read     *)
(* before an await.                                                                              *)
HisAlone ==
    /\ \A t \in taken : t[2] # Nobody /\ t[2] = first[t[1]]
    /\ \A r \in Requests : request[r].op = "test" =>
        request[r].by = IF request[r].i \in Bots THEN first[request[r].i] ELSE Nobody

(* A channel has its hub secret and a deleted one leaves none behind, it is as the user wants     *)
(* it, call by call, and a bot's service was told its route with the very settings and token      *)
(* that are kept (channels.py: _register), unless another call crossed an update of it or the     *)
(* hub stopped between the two writes.                                                           *)
SetUpAsWilled ==
    \A i \in Whole : /\ secret[i] # 0 <=> i \in There
                     /\ i \in There => /\ willed[i] = [text |-> row[i].text, on |-> row[i].on, token |-> secret[i]]
                                       /\ i \in Bots => <<row[i].text, secret[i]>> \in told[i]

(* The channels in order: each has the one user who paired it, answers to nobody else, and is set *)
(* up as its service was told and its user wants.                                                *)
PairingInv == FirstIsUser /\ HisAlone /\ SetUpAsWilled
=============================================================================
