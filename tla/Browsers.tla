------------------------------ MODULE Browsers ------------------------------
(***************************************************************************)
(* The hub's browsers: the cap and the service that runs while one is lent *)
(* (hub/browser.py), the context of each turn, opened and closed under the *)
(* turn's lock (hub/playwright_browser.py), and the takeovers that open    *)
(* and close pages too (hub/takeovers.py).                                 *)
(*                                                                         *)
(* A call is one open or close of a page, whoever made it: an instance's   *)
(* turn, a takeover's live view, the idle timer, or the hub that stops an  *)
(* instance.  What a page shows, profiles and the vault are left out.      *)
(***************************************************************************)
EXTENDS Naturals, Sequences, FiniteSets

CONSTANTS
    Pages,     \* (instance, turn) pairs a page is opened for
    Cap,       \* BrowserLimits.cap
    MaxCalls,  \* bound: calls in all
    MaxDeaths  \* bound: times the service dies by itself

VARIABLES
    calls,    \* the calls, in the order they came
    turnLock, \* PlaywrightBrowser._turns: the lock of a page, named by the call that made it
    opened,   \* PlaywrightBrowser._opened: the call that opened a page's context
    lent,     \* the browsers lent, by the call that asked for each
    address,  \* HubBrowsers._address is set
    service,  \* the runtime's browser service
    idle,     \* HubBrowsers._idle still waits
    stopping, \* an idle stop past its wait
    deaths,
    astray    \* history: Docker refused to stop the service, or a start that failed left it, and no
              \* start succeeded since

pool == <<lent, address, service, idle, stopping, deaths, astray>>
browsersVars == <<calls, turnLock, opened, pool>>

NoCall == 0
CallIds == DOMAIN calls

Init ==
    /\ calls = <<>>
    /\ turnLock = [p \in Pages |-> NoCall]
    /\ opened = [p \in Pages |-> NoCall]
    /\ lent = {}
    /\ address = FALSE /\ service = "off"
    /\ idle = FALSE /\ stopping = FALSE
    /\ deaths = 0 /\ astray = FALSE

Works(c) == calls[c].phase \in {"lending", "starting", "connecting", "closing"}

\* asyncio.Lock: one call at a time has it, and the next is the one that has waited longest.
On(lock) == {c \in CallIds : calls[c].lock = lock /\ (Works(c) \/ calls[c].phase = "waiting")}
NextOn(c) == calls[c].phase = "waiting" /\ \A d \in On(calls[c].lock) : c <= d /\ ~Works(d)

Moves(c, phase) == calls' = [calls EXCEPT ![c].phase = phase]

-----------------------------------------------------------------------------
(* A turn's page. *)

\* A call that has the lock: _open, which keeps a page that is open and asks the pool for another,
\* and _closed, which takes the context off the table to save its state and close it.
Begun(call) ==
    LET there == opened[call.page] IN
    IF call.kind = "open"
    THEN [call EXCEPT !.phase = IF there # NoCall THEN "done" ELSE "lending"]
    ELSE [call EXCEPT !.phase = IF there # NoCall THEN "closing" ELSE "done", !.browser = there]

\* What is left of the page's entries then: a close that found nothing forgets the lock already.
Begins(call, lock) ==
    /\ opened' = IF call.kind = "close" THEN [opened EXCEPT ![call.page] = NoCall] ELSE opened
    /\ turnLock' = [turnLock EXCEPT ![call.page] =
          IF call.kind = "close" /\ opened[call.page] = NoCall THEN NoCall ELSE lock]

\* What _turns.setdefault gives: the page's lock, or a new one.
LockOf(p, c) == IF turnLock[p] = NoCall THEN c ELSE turnLock[p]

\* open and _close, which go on at once where the lock is free.
Ask(p, kind) ==
    LET c == Len(calls) + 1
        call == [page |-> p, kind |-> kind, lock |-> LockOf(p, c), phase |-> "waiting", browser |-> c]
    IN
    /\ Len(calls) < MaxCalls
    /\ IF On(call.lock) = {}
       THEN calls' = Append(calls, Begun(call)) /\ Begins(call, call.lock)
       ELSE /\ calls' = Append(calls, call)
            /\ turnLock' = [turnLock EXCEPT ![p] = call.lock]
            /\ UNCHANGED opened
    /\ UNCHANGED pool

\* A call that waited gets the lock, which the page may have forgotten since.
Enter(c) ==
    /\ NextOn(c)
    /\ calls' = [calls EXCEPT ![c] = Begun(@)]
    /\ Begins(calls[c], turnLock[calls[c].page])
    /\ UNCHANGED pool

Forgotten(p) == turnLock' = [turnLock EXCEPT ![p] = NoCall]

-----------------------------------------------------------------------------
(* The pool. *)

\* A mutant of GiveBack that starts no idle wait.
GiveBackQuietly(b) ==
    /\ lent' = lent \ {b}
    /\ UNCHANGED idle

\* give_back: the last one starts the idle wait.
GiveBack(b) ==
    /\ lent' = lent \ {b}
    /\ idle' = (idle \/ lent \ {b} = {})

\* lend, once a browser is free. It calls the idle stop off, unless that is past its wait.
Lend(c) ==
    /\ calls[c].phase = "lending" /\ Cardinality(lent) < Cap
    /\ Moves(c, "starting")
    /\ lent' = lent \union {c}
    /\ idle' = FALSE
    /\ UNCHANGED <<turnLock, opened, address, service, stopping, deaths, astray>>

\* No browser came free in time.
LendTimesOut(c) ==
    /\ calls[c].phase = "lending" /\ Cardinality(lent) >= Cap
    /\ Moves(c, "done")
    /\ UNCHANGED <<turnLock, opened, pool>>

\* What a start that fails leaves: what was there, none of it, or a service that does not listen in
\* time. (A dead one that is gone is dead to those it was lent to.)
LeftByStart == {service, "runs"} \union (IF address THEN {} ELSE {"off"})

\* Under _starting, a service that is not there or died is started, and the start may fail.
StartService(c) ==
    /\ calls[c].phase = "starting"
    /\ \/ /\ Moves(c, "connecting")
          /\ address' = TRUE /\ service' = "runs"
          /\ astray' = FALSE
          /\ UNCHANGED <<lent, idle>>
       \/ /\ ~(address /\ service = "runs")
          /\ Moves(c, "done")
          /\ GiveBack(c)
          /\ service' \in LeftByStart
          /\ astray' = (service' = "runs" /\ ~address)
          /\ UNCHANGED address
    /\ UNCHANGED <<turnLock, opened, stopping, deaths>>

\* _connected puts the context on the table, or fails and gives the browser back.
Connect(c) ==
    /\ calls[c].phase = "connecting"
    /\ Moves(c, "done")
    /\ \/ /\ service = "runs"
          /\ opened' = [opened EXCEPT ![calls[c].page] = c]
          /\ UNCHANGED <<lent, idle>>
       \/ /\ GiveBack(c)
          /\ UNCHANGED opened
    /\ UNCHANGED <<turnLock, address, service, stopping, deaths, astray>>

\* The end of _close: the browser goes back, and the page's lock is forgotten.
Close(c) ==
    /\ calls[c].phase = "closing"
    /\ Moves(c, "done") /\ Forgotten(calls[c].page)
    /\ GiveBack(calls[c].browser)
    /\ UNCHANGED <<opened, address, service, stopping, deaths, astray>>

\* A mutant of StopService that does not ask whether a browser was lent meanwhile.
StopServiceAnyway ==
    /\ stopping
    /\ stopping' = FALSE
    /\ address' = FALSE /\ service' = "off"
    /\ UNCHANGED <<calls, turnLock, opened, lent, idle, deaths, astray>>

\* _stop_when_idle has waited: from here on nothing calls it off...
IdlePasses ==
    /\ idle
    /\ idle' = FALSE /\ stopping' = TRUE
    /\ UNCHANGED <<calls, turnLock, opened, lent, address, service, deaths, astray>>

\* ...and under _starting it stops the service, unless a browser was lent meanwhile. It forgets the
\* address first, so a stop that Docker refuses is not tried again.
StopService ==
    /\ stopping
    /\ stopping' = FALSE
    /\ IF lent = {} /\ address
       THEN /\ address' = FALSE
            /\ service' \in {service, "off"}
            /\ astray' = (service' = "runs")
       ELSE UNCHANGED <<address, service, astray>>
    /\ UNCHANGED <<calls, turnLock, opened, lent, idle, deaths>>

\* The service's container dies.
Dies ==
    /\ service = "runs" /\ deaths < MaxDeaths
    /\ deaths' = deaths + 1
    /\ service' = "dead"
    /\ UNCHANGED <<calls, turnLock, opened, lent, address, idle, stopping, astray>>

-----------------------------------------------------------------------------

Steps(c) ==
    \/ Enter(c) \/ Lend(c) \/ LendTimesOut(c) \/ StartService(c) \/ Connect(c) \/ Close(c)

Next ==
    \/ \E p \in Pages, kind \in {"open", "close"} : Ask(p, kind)
    \/ \E c \in CallIds : Steps(c)
    \/ IdlePasses \/ StopService \/ Dies

Spec == Init /\ [][Next]_browsersVars

(* The calls' tasks and the idle stop run on; nothing makes a call come. *)
Work == (\E c \in CallIds : Steps(c)) \/ IdlePasses \/ StopService

-----------------------------------------------------------------------------

(* The hub never stops the service under a browser it lent, though a page is asked for just as    *)
(* the idle wait passes (browser.py: "a browser asked for waits for the stop and starts the       *)
(* service anew").                                                                                *)
NeverUnderneath ==
    \A b \in lent : service = "off" => calls[b].phase \in {"lending", "starting"}

(* The service does not run on for nobody: once no browser is lent it is stopped, or one is lent  *)
(* again, whatever connections and services fail on the way (browser.py: "a browser service that  *)
(* runs only while one is open"). But it does where Docker refused to stop it, or left it after a *)
(* start that failed.                                                                             *)
IdleStops == (lent = {} /\ service = "runs") ~> (lent # {} \/ service # "runs" \/ astray)

=============================================================================
