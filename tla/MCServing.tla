----------------------------- MODULE MCServing -----------------------------
(***************************************************************************)
(* What the hub and an instance serve beside the work itself, each on a    *)
(* small instance: the desk of notifications and replies (Desk, whose      *)
(* names these are), a thread's subscription over a socket, the browsers,  *)
(* and the channels as they are set up and paired.  They share no state,   *)
(* so a behaviour is one of theirs: the part is chosen at its start, and   *)
(* the others stay as they start.                                          *)
(***************************************************************************)
EXTENDS Desk, Sequences, TLC

CONSTANTS
    \* Desk: an instance at its cap after one notification, an approval, and a run that stopped.
    ask, ok, stop, cap,
    \* Transcript
    Limit, MaxEvents, MaxDrops, MaxLeaves,
    \* Browsers
    Pages, BrowserCap, MaxCalls, MaxDeaths,
    \* Pairing
    Ids, Bots, Texts, Tokens, Users, Nobody, Requests, MaxSetups, MaxHeard, MaxBoth, MaxStops

ASSUME PairingAssumption == 0 \notin Tokens /\ Nobody \notin Users

MCKind == ask :> "turn" @@ ok :> "approval" @@ stop :> "stop" @@ cap :> "cap"
MCCases == {{ask, cap}, {ok}, {stop}}

VARIABLES
    part,
    head, streams, up, down, live, sub, got, drops, leaves,
    calls, turnLock, opened, lent, address, service, idle, stopping, deaths, astray,
    row, secret, made, told, request, lapsed, first, taken, chosen, crossed, cut, setups, heard, stops

T == INSTANCE Transcript
B == INSTANCE Browsers WITH Cap <- BrowserCap
P == INSTANCE Pairing WITH MaxCalls <- MaxHeard, calls <- heard, willed <- chosen

transcriptVars == <<head, streams, up, down, live, sub, got, drops, leaves>>
browsersVars == <<calls, turnLock, opened, lent, address, service, idle, stopping, deaths, astray>>
pairingVars == <<row, secret, made, told, request, lapsed, first, taken, chosen, crossed, cut, setups, heard, stops>>
servingVars == <<part, deskVars, transcriptVars, browsersVars, pairingVars>>

ServingInit ==
    /\ part \in {"desk", "transcript", "browsers", "pairing"}
    /\ Init /\ T!Init /\ B!Init /\ P!Init
    /\ part # "desk" => about = {stop}

OfDesk == part = "desk" /\ Next /\ UNCHANGED <<part, transcriptVars, browsersVars, pairingVars>>
OfTranscript == part = "transcript" /\ T!Next /\ UNCHANGED <<part, deskVars, browsersVars, pairingVars>>
OfBrowsers == part = "browsers" /\ B!Next /\ UNCHANGED <<part, deskVars, transcriptVars, pairingVars>>
OfPairing == part = "pairing" /\ P!Next /\ UNCHANGED <<part, deskVars, transcriptVars, browsersVars>>

ServingNext == OfDesk \/ OfTranscript \/ OfBrowsers \/ OfPairing

Receive == part = "transcript" /\ T!Receive
Opens == part = "transcript" /\ T!Opens
Fills == part = "transcript" /\ T!Fills
Drains == part = "transcript" /\ T!Drains
Connect == part = "transcript" /\ T!Connect
Subscribe == part = "transcript" /\ T!Subscribe
Answer == part = "transcript" /\ T!Answer
Render == part = "transcript" /\ T!Render
BrowsersWork == part = "browsers" /\ B!Work

(* Each part under its own fairness: a task runs on until it ends, time passes, and the two ends  *)
(* of a socket run on; nothing makes a browser's call, an event, a drop or a reader come or go.   *)
ServingSpec ==
    /\ ServingInit /\ [][ServingNext]_servingVars
    /\ Fairness
    /\ WF_transcriptVars(Receive)
    /\ WF_transcriptVars(Opens) /\ WF_transcriptVars(Fills)
    /\ WF_transcriptVars(Drains) /\ WF_transcriptVars(Connect)
    /\ WF_transcriptVars(Subscribe) /\ WF_transcriptVars(Answer)
    /\ WF_transcriptVars(Render)
    /\ WF_browsersVars(BrowsersWork)

-----------------------------------------------------------------------------

\* A reader is given every event of its thread once and in order (Transcript, Feed).
ImplementsFeed == T!ImplementsFeed

\* The browser service is not stopped under a lent browser (Browsers).
NeverUnderneath == B!NeverUnderneath

\* The browser service stops once nobody has a browser (Browsers).
IdleStops == B!IdleStops

\* A channel has the one user who paired it and is set up as he wants and its service was told (Pairing).
PairingInv == P!PairingInv

=============================================================================
