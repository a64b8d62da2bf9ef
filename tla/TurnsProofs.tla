---------------------------- MODULE TurnsProofs ----------------------------
(***************************************************************************)
(* Theorems about Turns, for every set of threads, turns, steps and        *)
(* reverts and every bound.  Types hold whatever a turn parks on.  The     *)
(* rest is proved for turns that park on approvals only: a takeover's      *)
(* deadline may fail a turn that was just resumed, which then parks with   *)
(* its closing event in the log, and a turn whose takeover was abandoned   *)
(* while it ran parks unseen, and may resume beside a routine.             *)
(***************************************************************************)
EXTENDS Turns, TLAPS

ClosingKinds == {"finished", "interrupted"}

\* The thread a turn runs, waits or is reserved on is its own.
OwnThreads ==
    \A th \in Threads, t \in Turns :
        /\ running[th] = t => thread[t] = th
        /\ asked[th] = t => thread[t] = th
        /\ claims[th] = Claim("turn", t) => thread[t] = th

\* Two routine turns never share a thread: one would wait where the other starts.
RoutineThreads ==
    \A r, q \in RoutineTurns : thread[r] = thread[q] /\ thread[r] # NoThread => r = q

\* A turn with no event has no task, no request and no interrupt.
NotBegun ==
    \A t \in Turns : last[t] = "none" =>
        /\ closed[t] = {}
        /\ cut[t] = "none"
        /\ \A th \in Threads : running[th] # t /\ asked[th] # t

\* A start in progress keeps its claim until it is over; a turn claim belongs to one.
Reservations ==
    /\ \A t \in Turns : admission[t] # "none" => thread[t] # NoThread
    /\ \A t \in Turns : admission[t] = "waking" =>
         last[t] = "none" /\ claims[thread[t]] = Claim("turn", t)
    /\ \A t \in Turns : admission[t] = "resuming" => last[t] # "none"
    /\ \A t \in Turns, th \in Threads : claims[th] = Claim("turn", t) => admission[t] # "none"

\* A thread runs a turn, or reserves one, or has one waiting: never two turns at once.
OneOfEach ==
    \A th \in Threads :
        /\ running[th] # NoTurn => claims[th].kind # "turn"
        /\ \A t, u \in Turns :
             Waits(t, th) /\ (running[th] = u \/ claims[th] = Claim("turn", u)) => u = t

\* A turn being interrupted keeps the interrupt's claim, or can no longer resume.
Cutting ==
    \A t \in Turns : cut[t] # "none" =>
        /\ thread[t] # NoThread
        /\ closed[t] = {}
        /\ claims[thread[t]] # Claim("turn", t)
        /\ claims[thread[t]] = Claim("cut", t) \/ ~Waits(t, thread[t])

\* A closed turn has nothing left that could write to it.
Over ==
    \A t \in Turns : closed[t] # {} =>
        /\ last[t] \in ClosingKinds
        /\ \A th \in Threads : running[th] # t /\ claims[th] # Claim("turn", t)

NoDeadlines == ending = {} /\ \A t \in Turns : armed[t] = {}

\* Step claims are kept beside the threads', and a drain admits nothing.
Stepping == \A th \in Threads : claims[th].kind # "step"
StepClaims == \A s \in StepTurns : step[s] = "holding" => claims[s] = Claim("step", s)
Draining == drain # "none" \/ sweep.pc # "idle" => ~admitting

\* Turns that park on approvals only.
ApprovalsOnly ==
    \A t \in Turns : last[t] \notin {"takeover", "abandoned"} /\ "abandoned" \notin closed[t]

Inv ==
    /\ OwnThreads /\ RoutineThreads /\ NotBegun /\ Reservations /\ OneOfEach
    /\ Cutting /\ Over /\ NoDeadlines /\ Stepping /\ StepClaims /\ Draining
    /\ ApprovalsOnly /\ SealedIsQuiet

-----------------------------------------------------------------------------
(* Types. *)

USE DEF Turns, Keys, ParkingKinds

LEMMA ClaimIsClaim ==
    /\ Free \in Claims
    /\ \A t \in Turns : Claim("turn", t) \in Claims /\ Claim("cut", t) \in Claims
                        /\ Claim("abandon", t) \in Claims
    /\ \A v \in Reverts : Claim("revert", v) \in Claims
    /\ \A s \in StepTurns : Claim("step", s) \in Claims
  BY DEF Claims, Claim, Free

\* A turn that waits on its user has asked.
Counted == \A t \in Turns : last[t] \in ParkingKinds => asks[t] > 0

LEMMA TypeInit == Init => TypeOK /\ Counted
  BY ClaimIsClaim, Bounds DEF Init, TypeOK, NoSweep, Counted

LEMMA TypeStep == TypeOK /\ Counted /\ [Next]_vars => TypeOK' /\ Counted'
  <1> SUFFICES ASSUME TypeOK, Counted, [Next]_vars PROVE TypeOK' /\ Counted'
    OBVIOUS
  <1> USE ClaimIsClaim, Subkinds, Bounds DEF TypeOK, Counted, log, calls
  <1>1. ASSUME NEW t \in Turns, Started(t) PROVE TypeOK' /\ Counted'
    BY <1>1 DEF Started, Append, Release, Spawn, Changed
  <1>2. ASSUME NEW t \in Turns, WakeFailed(t) PROVE TypeOK' /\ Counted'
    BY <1>2 DEF WakeFailed, Release, Changed
  <1>3. ASSUME NEW t \in Turns, Work(t) PROVE TypeOK' /\ Counted'
    BY <1>3 DEF Work, Append
  <1>4. ASSUME NEW t \in Turns, Park(t) PROVE TypeOK' /\ Counted'
    <2>1. last[t] = "takeover" => asks[t] \in 1..MaxAsks
      OBVIOUS
    <2>2. armed' \in [Turns -> SUBSET (1..MaxAsks)]
      BY <1>4, <2>1 DEF Park
    <2>3. QED
      BY <1>4, <2>2 DEF Park, TaskDone, Changed
  <1>5. ASSUME NEW t \in Turns, Finishing(t) PROVE TypeOK' /\ Counted'
    BY <1>5 DEF Finishing
  <1>6. ASSUME NEW t \in Turns, Finished(t) PROVE TypeOK' /\ Counted'
    BY <1>6 DEF Finished, Append, AppendClosing, TaskDone, Changed
  <1>7. ASSUME NEW t \in Turns, Stopped(t) PROVE TypeOK' /\ Counted'
    BY <1>7 DEF Stopped, TaskDone, Changed
  <1>8. ASSUME NEW t \in Turns, NEW kind \in AskKinds, Ask(t, kind) PROVE TypeOK' /\ Counted'
    <2>1. asks' \in [Turns -> 0..MaxAsks] /\ asks'[t] > 0
      BY <1>8 DEF Ask
    <2>2. last' = [last EXCEPT ![t] = kind] /\ kind \in ParkingKinds
      BY <1>8 DEF Ask, Append
    <2>3. Counted'
      BY <1>8, <2>1, <2>2 DEF Ask
    <2>4. QED
      BY <1>8, <2>1, <2>2, <2>3 DEF Ask
  <1>9. ASSUME NEW t \in Turns, Resume(t) PROVE TypeOK' /\ Counted'
    BY <1>9 DEF Resume
  <1>10. ASSUME NEW t \in Turns, Restored(t) PROVE TypeOK' /\ Counted'
    BY <1>10 DEF Restored, Release, Spawn, Changed
  <1>11. ASSUME NEW t \in Turns, NotRestored(t) PROVE TypeOK' /\ Counted'
    BY <1>11 DEF NotRestored, Release, Changed
  <1>12. ASSUME NEW t \in Turns, Settled(t) PROVE TypeOK' /\ Counted'
    BY <1>12 DEF Settled
  <1>13. ASSUME NEW t \in Turns, Interrupted(t) PROVE TypeOK' /\ Counted'
    BY <1>13 DEF Interrupted, Append, AppendClosing, Release, Changed
  <1>14. ASSUME NEW t \in Turns, Abandoned(t) PROVE TypeOK' /\ Counted'
    BY <1>14 DEF Abandoned, Append, AppendClosing, Release, Changed
  <1>15. ASSUME NEW t \in Turns, NEW n \in 1..MaxAsks, Deadline(t, n) PROVE TypeOK' /\ Counted'
    BY <1>15 DEF Deadline
  <1>16. ASSUME NEW t \in Turns, NEW th \in Threads, Receive(t, th) PROVE TypeOK' /\ Counted'
    BY <1>16 DEF Receive
  <1>17. ASSUME NEW t \in Turns, NEW th \in Threads, Wake(t, th) PROVE TypeOK' /\ Counted'
    BY <1>17 DEF Wake, Reserve
  <1>18. ASSUME NEW t \in Turns, NEW th \in Threads, WakeNewThread(t, th) PROVE TypeOK' /\ Counted'
    BY <1>18 DEF WakeNewThread, Reserve
  <1>19. ASSUME NEW t \in Turns, NEW th \in Threads, Interrupt(t, th) PROVE TypeOK' /\ Counted'
    BY <1>19 DEF Interrupt, BeginCut
  <1>20. ASSUME NEW t \in Turns, WakeRecorded(t) PROVE TypeOK' /\ Counted'
    BY <1>20 DEF WakeRecorded, Reserve
  <1>21. ASSUME NEW s \in StepTurns, StepCall(s) PROVE TypeOK' /\ Counted'
    BY <1>21 DEF StepCall
  <1>22. ASSUME NEW s \in StepTurns, StepWaiter(s) PROVE TypeOK' /\ Counted'
    BY <1>22 DEF StepWaiter
  <1>23. ASSUME NEW s \in StepTurns, StepDone(s) PROVE TypeOK' /\ Counted'
    BY <1>23 DEF StepDone, Release, Changed
  <1>24. ASSUME NEW s \in StepTurns, NEW th \in Threads, StepTurn(s, th) PROVE TypeOK' /\ Counted'
    BY <1>24 DEF StepTurn, Reserve
  <1>25. ASSUME NEW v \in Reverts, EndRevert(v) PROVE TypeOK' /\ Counted'
    BY <1>25 DEF EndRevert, Release, Changed
  <1>26. ASSUME NEW v \in Reverts, NEW th \in Threads, BeginRevert(v, th) PROVE TypeOK' /\ Counted'
    BY <1>26 DEF BeginRevert
  <1>27. ASSUME NEW th \in Threads, SweepPass(th) PROVE TypeOK' /\ Counted'
    <2>1. Live \cup Parked \subseteq Threads
      BY DEF Live, Parked
    <2>2. QED
      BY <1>27, <2>1 DEF SweepPass, SweepCut, BeginCut
  <1>28. ASSUME NEW th \in Threads, SweepNext(th) PROVE TypeOK' /\ Counted'
    BY <1>28 DEF SweepNext, SweepCut, BeginCut
  <1>29. ASSUME Drain PROVE TypeOK' /\ Counted'
    BY <1>29 DEF Drain
  <1>30. ASSUME ForceDrain PROVE TypeOK' /\ Counted'
    BY <1>30 DEF ForceDrain
  <1>31. ASSUME SweepIdle PROVE TypeOK' /\ Counted'
    BY <1>31 DEF SweepIdle
  <1>32. ASSUME SweepAgain PROVE TypeOK' /\ Counted'
    BY <1>32 DEF SweepAgain
  <1>33. ASSUME Seal PROVE TypeOK' /\ Counted'
    <2>1. answering' \in BOOLEAN /\ drain' \in {"none", "waiting", "sealed"}
      BY <1>33 DEF Seal
    <2>2. asleep' \in SUBSET (StepTurns \cup {Sealer, Sweeper})
      BY <1>33 DEF Seal
    <2>3. QED
      BY <1>33, <2>1, <2>2 DEF Seal
  <1>34. ASSUME Restart PROVE TypeOK' /\ Counted'
    BY <1>34 DEF Restart, NoSweep
  <1>35. CASE UNCHANGED vars
    BY <1>35 DEF vars
  <1>36. QED
    BY <1>1, <1>2, <1>3, <1>4, <1>5, <1>6, <1>7, <1>8, <1>9, <1>10, <1>11, <1>12, <1>13, <1>14, <1>15, <1>16, <1>17, <1>18, <1>19, <1>20, <1>21, <1>22, <1>23, <1>24, <1>25, <1>26, <1>27, <1>28, <1>29, <1>30, <1>31, <1>32, <1>33, <1>34, <1>35 DEF Next

\* Every variable keeps the type of what the code keeps in it.
THEOREM TypeCorrect == Spec => []TypeOK
  BY TypeInit, TypeStep, PTL DEF Spec

-----------------------------------------------------------------------------
(* The closing event and the seal, for turns that park on approvals.       *)

LEMMA WaitingIsOpen ==
  ASSUME TypeOK, Inv, NEW t \in Turns, NEW th \in Threads, Waits(t, th)
  PROVE closed[t] = {} /\ thread[t] = th /\ last[t] # "none"
  BY DEF TypeOK, Inv, Over, ClosingKinds, OwnThreads, Waits

LEMMA ClaimFields ==
    /\ \A k, o : Claim(k, o).kind = k /\ Claim(k, o).of = o
    /\ Free.kind = "free"
  BY DEF Claim, Free

\* A reserved thread names the turn it is reserved for.
LEMMA ReservedFor ==
  ASSUME TypeOK, NEW th \in Threads, Reserved(th)
  PROVE claims[th].of \in Turns /\ claims[th] = Claim("turn", claims[th].of)
  <1>1. claims[th] \in Claims /\ claims[th].kind = "turn"
    BY DEF TypeOK, Reserved
  <1>2. claims[th] \in [kind : {"turn", "cut", "abandon"}, of : Turns]
    BY <1>1, ClaimFields DEF Claims
  <1>3. QED
    BY <1>1, <1>2 DEF Claim

\* A thread no turn has is neither at work nor reserved, and nobody waits on it.
LEMMA FreshIsQuiet ==
  ASSUME TypeOK, Inv, NEW th \in Threads, Fresh(th)
  PROVE running[th] = NoTurn /\ ~Reserved(th) /\ \A u \in Turns : ~Waits(u, th)
  <1>1. running[th] = NoTurn
    BY DEF TypeOK, Inv, OwnThreads, Fresh
  <1>2. ~Reserved(th)
    BY ReservedFor DEF Inv, OwnThreads, Fresh
  <1>3. \A u \in Turns : ~Waits(u, th)
    BY DEF Inv, OwnThreads, Fresh, Waits
  <1>4. QED
    BY <1>1, <1>2, <1>3

\* A reservation is safe on a thread with no turn at work and none waiting.
LEMMA ReserveKeepsInv ==
  ASSUME TypeOK, TypeOK', Inv,
         NEW t \in Turns, NEW th \in Threads, Unstarted(t), Reserve(t, th), admitting,
         running[th] = NoTurn, ~Reserved(th),
         \A u \in Turns : ~Waits(u, th),
         t \in RoutineTurns => thread[t] = th \/ Fresh(th)
  PROVE Inv'
  <1> USE DistinctTurns DEF TypeOK, Inv, Reserve, Unstarted, log, calls
  <1>1. OwnThreads' /\ RoutineThreads' /\ NotBegun'
    <2>1. OwnThreads'
      <3>1. \A x \in Threads : running[x] # t /\ asked[x] # t
        BY DEF NotBegun
      <3>2. \A x \in Threads : x # th => claims[x] # Claim("turn", t)
        BY DEF Reservations
      <3>3. \A u \in Turns : u # t => Claim("turn", t) # Claim("turn", u)
        BY DEF Claim
      <3>4. QED
        BY <3>1, <3>2, <3>3 DEF OwnThreads
    <2>2. RoutineThreads'
      BY DEF RoutineThreads, Fresh
    <2>3. NotBegun'
      BY DEF NotBegun
    <2>4. QED
      BY <2>1, <2>2, <2>3
  <1>2. Reservations'
    BY ClaimFields DEF Reservations, NotBegun, Reserved
  <1>3. OneOfEach'
    BY ClaimFields DEF OneOfEach, Waits
  <1>4. Cutting'
    BY ClaimFields DEF Cutting, NotBegun, Waits
  <1>5. Over'
    BY ClaimFields DEF Over, NotBegun
  <1>6. NoDeadlines' /\ Stepping' /\ StepClaims' /\ Draining' /\ ApprovalsOnly' /\ SealedIsQuiet'
    BY ClaimFields DEF NoDeadlines, Stepping, StepClaims, Draining, ApprovalsOnly, SealedIsQuiet
  <1>7. QED
    BY <1>1, <1>2, <1>3, <1>4, <1>5, <1>6

\* An interrupt takes a claim from no turn that starts, and from no other interrupt
\* whose turn could still resume.
LEMMA BeginCutKeepsInv ==
  ASSUME TypeOK, TypeOK', Inv,
         NEW t \in Turns, NEW th \in Threads, BeginCut(t, th),
         UNCHANGED <<log, running, admitting, answering, task, armed, admission, ending,
                     step, revert>>,
         drain' = drain, sweep'.pc # "idle" => ~admitting
  PROVE Inv'
  <1> USE DistinctTurns DEF TypeOK, Inv, log
  <1>1. /\ thread[t] = th /\ closed[t] = {} /\ last[t] # "none"
        /\ ~(\E u \in Turns : admission[u] = "waking" /\ claims[th] = Claim("turn", u))
    BY WaitingIsOpen, ClaimFields
       DEF BeginCut, CutsRunning, CutsParked, OwnThreads, NotBegun, Over, OneOfEach, Reservations, Waits
  <1>2. /\ claims' = [claims EXCEPT ![th] = Claim("cut", t)]
        /\ cut' \in [Turns -> {"none", "settling", "capturing"}]
        /\ \A u \in Turns \ {t} : cut'[u] = cut[u]
    BY DEF BeginCut
  <1>3. \A u \in Turns \ {t} : claims[th] = Claim("cut", u) => ~Waits(u, th)
    BY ClaimFields DEF BeginCut, CutsRunning, CutsParked, OneOfEach, InterruptedClaims, Claim
  <1>4. OwnThreads' /\ RoutineThreads' /\ NotBegun'
    BY <1>1, <1>2, ClaimFields DEF OwnThreads, RoutineThreads, NotBegun, Claim
  <1>5. Reservations'
    BY <1>1, <1>2, ClaimFields DEF Reservations, Claim
  <1>6. OneOfEach'
    BY <1>2, ClaimFields DEF OneOfEach, Waits, Claim
  <1>7. Cutting'
    BY <1>1, <1>2, <1>3, ClaimFields DEF Cutting, Waits, Claim
  <1>8. Over'
    BY <1>1, <1>2, ClaimFields DEF Over, Claim
  <1>9. NoDeadlines' /\ Stepping' /\ StepClaims' /\ Draining' /\ ApprovalsOnly'
    BY <1>2, ClaimFields DEF NoDeadlines, Stepping, StepClaims, Draining, ApprovalsOnly
  <1>10. SealedIsQuiet'
    BY <1>2, ClaimFields DEF SealedIsQuiet, Live, Reserved
  <1>11. QED
    BY <1>4, <1>5, <1>6, <1>7, <1>8, <1>9, <1>10

LEMMA WakeKeepsInv ==
  ASSUME TypeOK, TypeOK', Inv, NEW t \in Turns, NEW th \in Threads, Wake(t, th)
  PROVE Inv'
  <1>1. ~Reserved(th) /\ admitting /\ t \notin RoutineTurns
    BY ClaimFields, DistinctTurns DEF Wake, Reserved, Available
  <1>2. QED
    BY <1>1, ReserveKeepsInv DEF Wake

LEMMA WakeNewThreadKeepsInv ==
  ASSUME TypeOK, TypeOK', Inv, NEW t \in Turns, NEW th \in Threads, WakeNewThread(t, th)
  PROVE Inv'
  BY FreshIsQuiet, ReserveKeepsInv DEF WakeNewThread, Available

LEMMA StepTurnKeepsInv ==
  ASSUME TypeOK, TypeOK', Inv, NEW s \in StepTurns, NEW th \in Threads, StepTurn(s, th)
  PROVE Inv'
  BY FreshIsQuiet, ReserveKeepsInv DEF StepTurn

\* The thread of a delivery is free by then: Holding is empty, and what could
\* still wait there without holding is a routine, which has threads of its own.
LEMMA WakeRecordedKeepsInv ==
  ASSUME TypeOK, TypeOK', Inv, NEW t \in Turns, WakeRecorded(t)
  PROVE Inv'
  <1>1. t \in RoutineTurns /\ thread[t] \in Threads /\ Holding = {} /\ admitting
    BY Subkinds DEF WakeRecorded, Available, TypeOK
  <1>2. running[thread[t]] = NoTurn /\ ~Reserved(thread[t])
    BY <1>1 DEF Holding, Live
  <1>3. \A u \in Turns : ~Waits(u, thread[t])
    <2> SUFFICES ASSUME NEW u \in Turns, Waits(u, thread[t]) PROVE FALSE
      OBVIOUS
    <2>1. closed[u] = {} /\ thread[u] = thread[t] /\ last[u] # "none"
      BY <1>1, WaitingIsOpen
    <2>2. u \in RoutineTurns
      BY <1>1, <2>1 DEF Holding, ParkedOpen
    <2>3. QED
      BY <1>1, <2>1, <2>2 DEF WakeRecorded, Unstarted, Inv, RoutineThreads
  <1>4. QED
    BY <1>1, <1>2, <1>3, ReserveKeepsInv DEF WakeRecorded

LEMMA InterruptKeepsInv ==
  ASSUME TypeOK, TypeOK', Inv, NEW t \in Turns, NEW th \in Threads, Interrupt(t, th)
  PROVE Inv'
  BY BeginCutKeepsInv DEF Interrupt, Inv, Draining

LEMMA SweepKeepsInv ==
  ASSUME TypeOK, TypeOK', Inv, NEW th \in Threads, SweepPass(th) \/ SweepNext(th)
  PROVE Inv'
  <1>1. PICK t \in Turns : BeginCut(t, th)
    BY DEF SweepPass, SweepNext, SweepCut
  <1>2. sweep.pc # "idle" /\ UNCHANGED <<log, running, admitting, answering, task, armed,
                                  admission, ending, step, revert, drain>>
    BY DEF SweepPass, SweepNext, SweepCut
  <1>3. ~admitting
    BY <1>2 DEF Inv, Draining
  <1>4. QED
    BY <1>1, <1>2, <1>3, BeginCutKeepsInv

\* A task that still owns its turn writes to an open one nobody is cutting.
LEMMA OwnedIsOpen ==
  ASSUME TypeOK, Inv, NEW t \in Turns, Owned(t)
  PROVE /\ thread[t] \in Threads /\ closed[t] = {} /\ cut[t] = "none" /\ last[t] # "none"
        /\ claims[thread[t]].kind # "turn"
        /\ \A th \in Threads : claims[th] # Claim("turn", t)
  BY ClaimFields, DistinctTurns DEF TypeOK, Inv, Owned, Over, NotBegun, OneOfEach, OwnThreads

LEMMA WorkKeepsInv ==
  ASSUME TypeOK, TypeOK', Inv, NEW t \in Turns, Work(t)
  PROVE Inv'
  <1> USE OwnedIsOpen DEF TypeOK, Inv, Work, Append, calls
  <1>1. OwnThreads' /\ RoutineThreads' /\ NotBegun'
    BY DEF OwnThreads, RoutineThreads, NotBegun
  <1>2. Reservations'
    BY DEF Reservations
  <1>3. OneOfEach' /\ Cutting' /\ Over'
    BY DEF OneOfEach, Cutting, Over, Waits
  <1>4. NoDeadlines' /\ Stepping' /\ StepClaims' /\ Draining' /\ ApprovalsOnly'
    BY DEF NoDeadlines, Stepping, StepClaims, Draining, ApprovalsOnly
  <1>5. SealedIsQuiet'
    BY DEF SealedIsQuiet, Live, Reserved
  <1>6. QED
    BY <1>1, <1>2, <1>3, <1>4, <1>5

LEMMA AskKeepsInv ==
  ASSUME TypeOK, TypeOK', Inv, NEW t \in Turns, NEW kind \in AskKinds, Ask(t, kind),
         "takeover" \notin AskKinds
  PROVE Inv'
  <1> USE OwnedIsOpen, Subkinds DEF TypeOK, Inv, Ask, Append, calls
  <1>1. OwnThreads' /\ RoutineThreads' /\ NotBegun'
    BY DEF OwnThreads, RoutineThreads, NotBegun
  <1>2. Reservations'
    BY DEF Reservations
  <1>3. OneOfEach'
    BY ClaimFields DEF OneOfEach, Waits, OwnThreads, Owned
  <1>4. Cutting' /\ Over'
    BY DEF Cutting, Over, Waits, OwnThreads, Owned
  <1>5. NoDeadlines' /\ Stepping' /\ StepClaims' /\ Draining' /\ ApprovalsOnly'
    BY DEF NoDeadlines, Stepping, StepClaims, Draining, ApprovalsOnly
  <1>6. SealedIsQuiet'
    BY DEF SealedIsQuiet, Live, Reserved
  <1>7. QED
    BY <1>1, <1>2, <1>3, <1>4, <1>5, <1>6

LEMMA FinishedKeepsInv ==
  ASSUME TypeOK, TypeOK', Inv, NEW t \in Turns, Finished(t)
  PROVE Inv'
  <1> USE OwnedIsOpen, DistinctTurns DEF TypeOK, Inv, Finished, Append, AppendClosing, TaskDone, calls
  <1>1. OwnThreads' /\ RoutineThreads' /\ NotBegun'
    BY DEF OwnThreads, RoutineThreads, NotBegun
  <1>2. Reservations'
    BY DEF Reservations
  <1>3. OneOfEach' /\ Cutting'
    BY DEF OneOfEach, Cutting, Waits
  <1>4. Over'
    BY DEF Over, OwnThreads, Owned, ClosingKinds
  <1>5. NoDeadlines' /\ Stepping' /\ StepClaims' /\ Draining' /\ ApprovalsOnly'
    BY DEF NoDeadlines, Stepping, StepClaims, Draining, ApprovalsOnly
  <1>6. SealedIsQuiet'
    BY DEF SealedIsQuiet, Live, Reserved
  <1>7. QED
    BY <1>1, <1>2, <1>3, <1>4, <1>5, <1>6

\* An answered turn has the only request its thread waits on, and no interrupt.
LEMMA ResumeKeepsInv ==
  ASSUME TypeOK, TypeOK', Inv, NEW t \in Turns, Resume(t)
  PROVE Inv'
  <1> USE DEF TypeOK, Inv, Resume, log
  <1>1. thread[t] \in Threads /\ closed[t] = {} /\ last[t] \in ParkingKinds
    BY WaitingIsOpen DEF Waits
  <1>2. cut[t] = "none"
    BY <1>1, ClaimFields DEF Cutting
  <1>3. OwnThreads' /\ RoutineThreads' /\ NotBegun'
    BY <1>1, ClaimFields DEF OwnThreads, RoutineThreads, NotBegun, Claim
  <1>4. Reservations'
    BY <1>1, ClaimFields DEF Reservations, Claim
  <1>5. OneOfEach'
    BY <1>1, ClaimFields DEF OneOfEach, Waits, Claim
  <1>6. Cutting'
    BY <1>1, <1>2, ClaimFields DEF Cutting, Waits, Claim
  <1>7. Over'
    BY <1>1, ClaimFields DEF Over, Claim
  <1>8. NoDeadlines' /\ Stepping' /\ StepClaims' /\ Draining' /\ ApprovalsOnly'
    BY <1>1, DistinctTurns, ClaimFields
       DEF NoDeadlines, Stepping, StepClaims, Draining, ApprovalsOnly
  <1>9. SealedIsQuiet'
    BY <1>1 DEF SealedIsQuiet
  <1>10. QED
    BY <1>3, <1>4, <1>5, <1>6, <1>7, <1>8, <1>9

LEMMA InterruptedKeepsInv ==
  ASSUME TypeOK, TypeOK', Inv, NEW t \in Turns, Interrupted(t)
  PROVE Inv'
  <1> USE DistinctTurns DEF TypeOK, Inv, Interrupted, Append, AppendClosing
  <1>1. thread[t] \in Threads /\ closed[t] = {} /\ last[t] # "none"
    BY DEF Cutting, NotBegun
  <1>2. /\ \A th \in Threads : claims'[th] = claims[th] \/ claims'[th] = Free
        /\ \A k \in Keys : k # thread[t] => claims'[k] = claims[k]
        /\ \A k \in Keys : claims[k].kind # "cut" => claims'[k] = claims[k]
    BY <1>1, ClaimFields DEF Release
  <1>3. \A u \in Turns \ {t} : claims[thread[t]] = Claim("cut", u) => claims'[thread[t]] = Claim("cut", u)
    BY <1>1 DEF Release, Claim
  <1>4. OwnThreads' /\ RoutineThreads' /\ NotBegun'
    BY <1>1, <1>2, ClaimFields DEF OwnThreads, RoutineThreads, NotBegun, Claim, Free
  <1>5. Reservations'
    BY <1>1, <1>2, ClaimFields DEF Reservations
  <1>6. OneOfEach'
    BY <1>1, <1>2, ClaimFields DEF OneOfEach, Waits, Claim, Free
  <1>7. Cutting'
    BY <1>1, <1>2, <1>3, ClaimFields DEF Cutting, Waits, Claim, Free
  <1>8. Over'
    BY <1>1, <1>2, ClaimFields DEF Over, Cutting, OwnThreads, ClosingKinds
  <1>9. NoDeadlines' /\ Stepping' /\ StepClaims' /\ Draining' /\ ApprovalsOnly'
    BY <1>1, <1>2, DistinctTurns, ClaimFields
       DEF NoDeadlines, Stepping, StepClaims, Draining, ApprovalsOnly
  <1>10. SealedIsQuiet'
    BY <1>1, <1>2, ClaimFields DEF SealedIsQuiet, Live, Reserved
  <1>11. QED
    BY <1>4, <1>5, <1>6, <1>7, <1>8, <1>9, <1>10

LEMMA ReceiveKeepsInv ==
  ASSUME TypeOK, TypeOK', Inv, NEW t \in Turns, NEW th \in Threads, Receive(t, th)
  PROVE Inv'
  <1> USE DistinctTurns DEF TypeOK, Inv, Receive, calls
  <1>1. t \in RoutineTurns /\ \A x \in Threads : running[x] # t /\ asked[x] # t
    BY Subkinds DEF OwnThreads
  <1>2. OwnThreads' /\ RoutineThreads' /\ NotBegun'
    BY <1>1 DEF OwnThreads, RoutineThreads, NotBegun, Fresh
  <1>3. Reservations'
    BY DEF Reservations
  <1>4. OneOfEach' /\ Cutting' /\ Over'
    BY DEF OneOfEach, Cutting, Over, Waits
  <1>5. NoDeadlines' /\ Stepping' /\ StepClaims' /\ Draining' /\ ApprovalsOnly' /\ SealedIsQuiet'
    BY DEF NoDeadlines, Stepping, StepClaims, Draining, ApprovalsOnly, SealedIsQuiet, Live, Reserved
  <1>6. QED
    BY <1>2, <1>3, <1>4, <1>5

\* What a step or a revert claims is not a thread's claim, or was free.
LEMMA StepWaiterKeepsInv ==
  ASSUME TypeOK, TypeOK', Inv, NEW s \in StepTurns, StepWaiter(s)
  PROVE Inv'
  <1> USE DistinctTurns DEF TypeOK, Inv, StepWaiter, log
  <1>1. \A th \in Threads : claims'[th] = claims[th]
    OBVIOUS
  <1>2. OwnThreads' /\ RoutineThreads' /\ NotBegun'
    BY <1>1 DEF OwnThreads, RoutineThreads, NotBegun
  <1>3. Reservations'
    BY <1>1 DEF Reservations
  <1>4. /\ OneOfEach'
        /\ Cutting'
        /\ Over'
    <2>1. \A t \in Turns, th \in Threads : Waits(t, th)' = Waits(t, th)
      BY DEF Waits
    <2>2. OneOfEach'
      BY <1>1, <2>1 DEF OneOfEach
    <2>3. Cutting'
      BY <1>1, <2>1 DEF Cutting
    <2>4. Over'
      BY <1>1 DEF Over
    <2>5. QED
      BY <2>2, <2>3, <2>4
  <1>5. NoDeadlines' /\ Stepping' /\ Draining' /\ ApprovalsOnly'
    BY <1>1 DEF NoDeadlines, Stepping, Draining, ApprovalsOnly
  <1>6. StepClaims'
    BY DEF StepClaims
  <1>7. SealedIsQuiet'
    BY <1>1 DEF SealedIsQuiet, Live, Reserved
  <1>8. QED
    BY <1>2, <1>3, <1>4, <1>5, <1>6, <1>7

LEMMA BeginRevertKeepsInv ==
  ASSUME TypeOK, TypeOK', Inv, NEW v \in Reverts, NEW th \in Threads, BeginRevert(v, th)
  PROVE Inv'
  <1> USE DistinctTurns DEF TypeOK, Inv, BeginRevert, log
  <1>1. claims[th] = Free /\ Claim("revert", v).kind = "revert"
    BY ClaimFields DEF Claimed, Keys
  <1>2. OwnThreads' /\ RoutineThreads' /\ NotBegun'
    BY <1>1, ClaimFields DEF OwnThreads, RoutineThreads, NotBegun
  <1>3. Reservations'
    BY <1>1, ClaimFields DEF Reservations
  <1>4. OneOfEach'
    BY <1>1, ClaimFields DEF OneOfEach, Waits
  <1>5. Cutting' /\ Over'
    BY <1>1, ClaimFields DEF Cutting, Over, Waits
  <1>6. NoDeadlines' /\ Stepping' /\ StepClaims' /\ Draining' /\ ApprovalsOnly'
    BY <1>1, ClaimFields DEF NoDeadlines, Stepping, StepClaims, Draining, ApprovalsOnly
  <1>7. SealedIsQuiet'
    BY <1>1, ClaimFields DEF SealedIsQuiet, Live, Reserved
  <1>8. QED
    BY <1>2, <1>3, <1>4, <1>5, <1>6, <1>7

\* Nothing is claimed when the drain seals, so no start is in progress and no
\* step holds the instance; and nothing was admitted since the drain began.
LEMMA SealKeepsInv ==
  ASSUME TypeOK, TypeOK', Inv, Seal
  PROVE Inv'
  <1> USE DEF TypeOK, Inv, Seal, log, calls
  <1>1. OwnThreads' /\ RoutineThreads' /\ NotBegun' /\ Reservations' /\ OneOfEach'
    BY DEF OwnThreads, RoutineThreads, NotBegun, Reservations, OneOfEach, Waits
  <1>2. /\ Cutting' /\ Over' /\ NoDeadlines' /\ Stepping' /\ StepClaims' /\ Draining'
        /\ ApprovalsOnly'
    BY DEF Cutting, Over, NoDeadlines, Stepping, StepClaims, Draining, ApprovalsOnly, Waits
  <1>3. ASSUME Live = {}, ~Claimed, ~admitting PROVE SealedIsQuiet'
    <2>1. \A t \in Turns : admission[t] # "waking"
      BY <1>3, ClaimFields DEF Claimed, Reservations
    <2>2. \A s \in StepTurns : step[s] # "holding"
      BY <1>3, ClaimFields DEF Claimed, StepClaims
    <2>3. Live' = Live
      BY DEF Live, Reserved
    <2>4. QED
      BY <1>3, <2>1, <2>2, <2>3 DEF SealedIsQuiet
  <1>4. ASSUME UNCHANGED answering PROVE SealedIsQuiet'
    BY <1>4 DEF SealedIsQuiet, Live, Reserved
  <1>5. ~admitting
    BY DEF Draining
  <1>6. QED
    BY <1>1, <1>2, <1>3, <1>4, <1>5

\* No takeover's deadline passes where no turn parks on a takeover.
LEMMA NothingAbandoned ==
  ASSUME Inv, NEW t \in Turns, Abandoned(t)
  PROVE FALSE
  BY DEF Inv, NoDeadlines, Abandoned

\* A start that fails gives back its claim and leaves the turn without an event.
LEMMA WakeFailedKeepsInv ==
  ASSUME TypeOK, TypeOK', Inv, NEW t \in Turns, WakeFailed(t)
  PROVE Inv'
  <1> USE DistinctTurns DEF TypeOK, Inv, WakeFailed, log, Release, Changed
  <1>1. /\ claims[thread[t]] = Claim("turn", t)
        /\ claims' = [claims EXCEPT ![thread[t]] = Free]
    BY DEF Reservations
  <1>2. OwnThreads' /\ RoutineThreads' /\ NotBegun'
    BY <1>1, ClaimFields DEF OwnThreads, RoutineThreads, NotBegun
  <1>3. Reservations'
    BY <1>1, ClaimFields DEF Reservations, OwnThreads
  <1>4. OneOfEach'
    BY <1>1, ClaimFields DEF OneOfEach, Waits
  <1>5. Cutting' /\ Over'
    BY <1>1, ClaimFields DEF Cutting, Over, Waits
  <1>6. NoDeadlines' /\ Stepping' /\ StepClaims' /\ Draining' /\ ApprovalsOnly'
    BY <1>1, ClaimFields DEF NoDeadlines, Stepping, StepClaims, Draining, ApprovalsOnly, Reservations
  <1>7. SealedIsQuiet'
    BY <1>1, ClaimFields DEF SealedIsQuiet, Live, Reserved
  <1>8. QED
    BY <1>2, <1>3, <1>4, <1>5, <1>6, <1>7

\* A start that is over turns its claim on the thread into the turn's task.
LEMMA StartedKeepsInv ==
  ASSUME TypeOK, TypeOK', Inv, NEW t \in Turns, Started(t)
  PROVE Inv'
  <1> USE DistinctTurns DEF TypeOK, Inv, Started, Append, Release, Spawn, Changed
  <1>1. /\ thread[t] \in Threads /\ last[t] = "none"
        /\ claims[thread[t]] = Claim("turn", t)
        /\ claims' = [claims EXCEPT ![thread[t]] = Free]
        /\ closed[t] = {} /\ cut[t] = "none"
    BY DEF Reservations, NotBegun
  <1>2. \A th \in Threads, u \in Turns : Waits(u, th)' <=> Waits(u, th)
    BY <1>1 DEF Waits, NotBegun
  <1>3. OwnThreads' /\ RoutineThreads' /\ NotBegun'
    BY <1>1, ClaimFields DEF OwnThreads, RoutineThreads, NotBegun
  <1>4. Reservations'
    BY <1>1, ClaimFields DEF Reservations, OwnThreads
  <1>5. OneOfEach'
    BY <1>1, <1>2, ClaimFields DEF OneOfEach
  <1>6. Cutting'
    BY <1>1, <1>2, ClaimFields DEF Cutting
  <1>7. Over'
    BY <1>1, ClaimFields DEF Over
  <1>8. NoDeadlines' /\ Stepping' /\ StepClaims' /\ Draining' /\ ApprovalsOnly'
    BY <1>1, ClaimFields DEF NoDeadlines, Stepping, StepClaims, Draining, ApprovalsOnly
  <1>9. SealedIsQuiet'
    BY <1>1 DEF SealedIsQuiet
  <1>10. QED
    BY <1>3, <1>4, <1>5, <1>6, <1>7, <1>8, <1>9

LEMMA InvStep ==
  ASSUME TypeOK, TypeOK', Inv, [Next]_vars, "takeover" \notin AskKinds
  PROVE Inv'
  <1> USE DistinctTurns, Subkinds DEF TypeOK, Inv, OwnThreads, RoutineThreads, NotBegun, Reservations,
        OneOfEach, Cutting, Over, NoDeadlines, Stepping, StepClaims, Draining, ApprovalsOnly,
        SealedIsQuiet, Live, Reserved, Claim, Free, Claims, Waits, ClosingKinds, log, calls
  <1>1. ASSUME NEW t \in Turns, Started(t) PROVE Inv'
    BY <1>1, StartedKeepsInv
  <1>2. ASSUME NEW t \in Turns, WakeFailed(t) PROVE Inv'
    BY <1>2, WakeFailedKeepsInv
  <1>3. ASSUME NEW t \in Turns, Work(t) PROVE Inv'
    BY <1>3, WorkKeepsInv
  <1>4. ASSUME NEW t \in Turns, Park(t) PROVE Inv'
    BY <1>4, SMTT(20) DEF Park, TaskDone, Changed
  <1>5. ASSUME NEW t \in Turns, Finishing(t) PROVE Inv'
    BY <1>5, SMTT(20) DEF Finishing
  <1>6. ASSUME NEW t \in Turns, Finished(t) PROVE Inv'
    BY <1>6, FinishedKeepsInv
  <1>7. ASSUME NEW t \in Turns, Stopped(t) PROVE Inv'
    BY <1>7, SMTT(20) DEF Stopped, TaskDone, Changed
  <1>8. ASSUME NEW t \in Turns, NEW kind \in AskKinds, Ask(t, kind) PROVE Inv'
    BY <1>8, AskKeepsInv
  <1>9. ASSUME NEW t \in Turns, Resume(t) PROVE Inv'
    BY <1>9, ResumeKeepsInv
  <1>10. ASSUME NEW t \in Turns, Restored(t) PROVE Inv'
    BY <1>10, SMTT(20) DEF Restored, Release, Spawn, Changed
  <1>11. ASSUME NEW t \in Turns, NotRestored(t) PROVE Inv'
    BY <1>11, SMTT(20) DEF NotRestored, Release, Changed
  <1>12. ASSUME NEW t \in Turns, Settled(t) PROVE Inv'
    BY <1>12, SMTT(20) DEF Settled
  <1>13. ASSUME NEW t \in Turns, Interrupted(t) PROVE Inv'
    BY <1>13, InterruptedKeepsInv
  <1>14. ASSUME NEW t \in Turns, Abandoned(t) PROVE Inv'
    BY <1>14, NothingAbandoned
  <1>15. ASSUME NEW t \in Turns, NEW n \in 1..MaxAsks, Deadline(t, n) PROVE Inv'
    BY <1>15, SMTT(20) DEF Deadline
  <1>16. ASSUME NEW t \in Turns, NEW th \in Threads, Receive(t, th) PROVE Inv'
    BY <1>16, ReceiveKeepsInv
  <1>17. ASSUME NEW t \in Turns, NEW th \in Threads, Wake(t, th) PROVE Inv'
    BY <1>17, WakeKeepsInv
  <1>18. ASSUME NEW t \in Turns, NEW th \in Threads, WakeNewThread(t, th) PROVE Inv'
    BY <1>18, WakeNewThreadKeepsInv
  <1>19. ASSUME NEW t \in Turns, NEW th \in Threads, Interrupt(t, th) PROVE Inv'
    BY <1>19, InterruptKeepsInv
  <1>20. ASSUME NEW t \in Turns, WakeRecorded(t) PROVE Inv'
    BY <1>20, WakeRecordedKeepsInv
  <1>21. ASSUME NEW s \in StepTurns, StepCall(s) PROVE Inv'
    BY <1>21, SMTT(20) DEF StepCall
  <1>22. ASSUME NEW s \in StepTurns, StepWaiter(s) PROVE Inv'
    BY <1>22, StepWaiterKeepsInv
  <1>23. ASSUME NEW s \in StepTurns, StepDone(s) PROVE Inv'
    BY <1>23, SMTT(20) DEF StepDone, Release, Changed
  <1>24. ASSUME NEW s \in StepTurns, NEW th \in Threads, StepTurn(s, th) PROVE Inv'
    BY <1>24, StepTurnKeepsInv
  <1>25. ASSUME NEW v \in Reverts, EndRevert(v) PROVE Inv'
    BY <1>25, SMTT(20) DEF EndRevert, Release, Changed
  <1>26. ASSUME NEW v \in Reverts, NEW th \in Threads, BeginRevert(v, th) PROVE Inv'
    BY <1>26, BeginRevertKeepsInv
  <1>27. ASSUME NEW th \in Threads, SweepPass(th) PROVE Inv'
    BY <1>27, SweepKeepsInv
  <1>28. ASSUME NEW th \in Threads, SweepNext(th) PROVE Inv'
    BY <1>28, SweepKeepsInv
  <1>29. ASSUME Drain PROVE Inv'
    BY <1>29, SMTT(20) DEF Drain
  <1>30. ASSUME ForceDrain PROVE Inv'
    BY <1>30, SMTT(20) DEF ForceDrain
  <1>31. ASSUME SweepIdle PROVE Inv'
    BY <1>31, SMTT(20) DEF SweepIdle
  <1>32. ASSUME SweepAgain PROVE Inv'
    BY <1>32, SMTT(20) DEF SweepAgain
  <1>33. ASSUME Seal PROVE Inv'
    BY <1>33, SealKeepsInv
  <1>34. ASSUME Restart PROVE Inv'
    BY <1>34, SMTT(20) DEF Restart, NoSweep
  <1>35. CASE UNCHANGED vars
    BY <1>35 DEF vars
  <1>36. QED
    BY <1>1, <1>2, <1>3, <1>4, <1>5, <1>6, <1>7, <1>8, <1>9, <1>10, <1>11, <1>12, <1>13, <1>14, <1>15, <1>16, <1>17, <1>18, <1>19, <1>20, <1>21, <1>22, <1>23, <1>24, <1>25, <1>26, <1>27, <1>28, <1>29, <1>30, <1>31, <1>32, <1>33, <1>34, <1>35 DEF Next

LEMMA InvInit == Init => Inv
  <1> SUFFICES ASSUME Init PROVE Inv
    OBVIOUS
  <1> USE DistinctTurns, ClaimFields DEF Init
  <1>1. OwnThreads /\ RoutineThreads /\ NotBegun
    BY DEF OwnThreads, RoutineThreads, NotBegun
  <1>2. Reservations /\ OneOfEach /\ Cutting /\ Over
    BY DEF Reservations, OneOfEach, Cutting, Over, Waits
  <1>3. NoDeadlines /\ Stepping /\ StepClaims /\ Draining /\ ApprovalsOnly /\ SealedIsQuiet
    BY DEF NoDeadlines, Stepping, StepClaims, Draining, NoSweep, ApprovalsOnly, SealedIsQuiet
  <1>4. QED
    BY <1>1, <1>2, <1>3 DEF Inv

\* Only a start, a task that owns its turn and an interrupt write to the log, and
\* each of them finds its turn open.
LEMMA ClosedStays ==
  ASSUME TypeOK, Inv, [Next]_vars, "takeover" \notin AskKinds, NEW u \in Turns, closed[u] # {}
  PROVE closed'[u] = closed[u] /\ last'[u] = last[u]
  <1> USE DEF TypeOK, log
  <1>1. ASSUME NEW t \in Turns, Started(t) PROVE closed'[u] = closed[u] /\ last'[u] = last[u]
    BY <1>1 DEF Started, Append, Inv, Reservations, NotBegun
  <1>2. ASSUME NEW t \in Turns, Work(t) PROVE closed'[u] = closed[u] /\ last'[u] = last[u]
    BY <1>2, OwnedIsOpen DEF Work, Append
  <1>3. ASSUME NEW t \in Turns, NEW kind \in AskKinds, Ask(t, kind)
        PROVE closed'[u] = closed[u] /\ last'[u] = last[u]
    BY <1>3, OwnedIsOpen DEF Ask, Append
  <1>4. ASSUME NEW t \in Turns, Finished(t) PROVE closed'[u] = closed[u] /\ last'[u] = last[u]
    BY <1>4, OwnedIsOpen DEF Finished, Append, AppendClosing
  <1>5. ASSUME NEW t \in Turns, Interrupted(t)
        PROVE closed'[u] = closed[u] /\ last'[u] = last[u]
    BY <1>5 DEF Interrupted, Append, AppendClosing, Inv, Cutting
  <1>6. ASSUME NEW t \in Turns, Abandoned(t) PROVE FALSE
    BY <1>6 DEF Abandoned, Inv, NoDeadlines
  <1>7. ASSUME UNCHANGED <<closed, last>> PROVE closed'[u] = closed[u] /\ last'[u] = last[u]
    BY <1>7
  <1>8. \/ UNCHANGED <<closed, last>>
        \/ \E t \in Turns : \/ Started(t) \/ Work(t) \/ Finished(t) \/ Interrupted(t)
                            \/ Abandoned(t)
                            \/ \E kind \in AskKinds : Ask(t, kind)
    BY DEF Next, vars, WakeFailed, Park, Finishing, Stopped, Resume, Restored, NotRestored,
           Settled, Deadline, Receive, Wake, WakeNewThread, WakeRecorded, StepTurn, Reserve,
           Interrupt, StepCall, StepWaiter, StepDone, BeginRevert, EndRevert, SweepPass,
           SweepNext, SweepCut, Drain, ForceDrain, SweepIdle, SweepAgain, Seal, Restart
  <1>9. QED
    BY <1>1, <1>2, <1>3, <1>4, <1>5, <1>6, <1>7, <1>8

LEMMA InvHolds ==
  ASSUME "takeover" \notin AskKinds
  PROVE Spec => [](TypeOK /\ Inv)
  <1>1. Init => TypeOK /\ Counted /\ Inv
    BY TypeInit, InvInit
  <1>2. TypeOK /\ Counted /\ Inv /\ [Next]_vars => (TypeOK /\ Counted /\ Inv)'
    BY TypeStep, InvStep
  <1>3. QED
    BY <1>1, <1>2, PTL DEF Spec

\* Once the drain seals, no turn is at work, none is about to start, and no step
\* holds the instance, until it starts again.
THEOREM SealedStaysQuiet ==
  ASSUME "takeover" \notin AskKinds
  PROVE Spec => []SealedIsQuiet
  <1>1. TypeOK /\ Inv => SealedIsQuiet
    BY DEF Inv
  <1>2. QED
    BY <1>1, InvHolds, PTL

\* A turn has one closing event and nothing after it, whatever interrupts, answers
\* and completions race for it.
THEOREM ClosedStaysFinal ==
  ASSUME "takeover" \notin AskKinds
  PROVE Spec => ClosedIsFinal
  <1>1. TypeOK /\ Inv /\ [Next]_vars =>
          [\A t \in Turns : closed[t] # {} /\ "abandoned" \notin closed'[t]
             => closed'[t] = closed[t] /\ last'[t] = last[t]]_vars
    BY ClosedStays
  <1>2. QED
    BY <1>1, InvHolds, PTL DEF Spec, ClosedIsFinal

-----------------------------------------------------------------------------
(* Waiters on _changed.  A step that changes what a waiter waits for wakes *)
(* everybody; the others leave its reason to wait, or give it a new one.   *)

\* The sweep waits in the middle of its scan, when admission has stopped.
SweepWaits == Sweeper \in asleep => sweep.pc # "idle"

LEMMA LiveHolds == (Live # {} => Holding # {}) /\ (Live' # {} => Holding' # {})
  BY DEF Holding

\* A claim, or a turn at work, is reason enough for every waiter but the sweep, and the sweep
\* does not wait while the instance admits or while there is something to interrupt.
LEMMA ReasonToWait ==
  ASSUME Inv, NoLostWakeup, SweepWaits, asleep' = asleep, Claimed' \/ Live' # {},
         ~admitting => \E th \in Threads : Interruptible(th)
  PROVE  NoLostWakeup'
  <1>1. Sweeper \notin asleep
    BY DEF Inv, Draining, SweepWaits, NoLostWakeup
  <1>2. QED
    BY <1>1, LiveHolds DEF NoLostWakeup

\* Nothing that a waiter looks at has changed.
LEMMA SameReasons ==
  ASSUME NoLostWakeup, asleep' = asleep, UNCHANGED <<last, closed, asked, running, claims>>,
         \A t \in Turns : cut'[t] = "none" <=> cut[t] = "none"
  PROVE  NoLostWakeup'
  <1>1. Live' = Live /\ Parked' = Parked /\ (Claimed' <=> Claimed)
    BY DEF Live, Reserved, Parked, ParkedOpen, Waits, Claimed
  <1>2. Holding' = Holding
    BY <1>1 DEF Holding, ParkedOpen, Waits
  <1>3. \A th \in Threads : Interruptible(th)' <=> Interruptible(th)
    BY DEF Interruptible, CutsRunning, CutsParked, Waits
  <1>4. QED
    BY <1>1, <1>2, <1>3 DEF NoLostWakeup

LEMMA ReserveKeepsWaiters ==
  ASSUME TypeOK, Inv, NoLostWakeup, SweepWaits, NEW t \in Turns, NEW th \in Threads, Reserve(t, th), admitting
  PROVE  NoLostWakeup'
  <1>1. claims'[th] = Claim("turn", t) /\ asleep' = asleep
    BY DEF Reserve, TypeOK, Keys
  <1>2. Claimed'
    BY <1>1, ClaimFields DEF Claimed, Keys
  <1>3. QED
    BY <1>1, <1>2, ReasonToWait

LEMMA BeginCutKeepsWaiters ==
  ASSUME TypeOK, Inv, NoLostWakeup, SweepWaits, NEW t \in Turns, NEW th \in Threads, BeginCut(t, th),
         asleep' = asleep
  PROVE  NoLostWakeup'
  <1>1. claims'[th] = Claim("cut", t) /\ Interruptible(th)
    BY DEF BeginCut, TypeOK, Keys, Interruptible
  <1>2. Claimed'
    BY <1>1, ClaimFields DEF Claimed, Keys
  <1>3. QED
    BY <1>1, <1>2, ReasonToWait

\* A task that owns its turn could be interrupted, so the sweep is not waiting.
LEMMA OwnerKeepsWaiters ==
  ASSUME TypeOK, Inv, NoLostWakeup, SweepWaits, NEW t \in Turns, Owned(t), UNCHANGED <<running, claims, asleep>>
  PROVE  NoLostWakeup'
  <1>1. thread[t] \in Threads /\ running[thread[t]] = t /\ t # NoTurn
    BY DistinctTurns DEF Owned, TypeOK
  <1>2. Interruptible(thread[t])
    BY <1>1 DEF Owned, Interruptible, CutsRunning
  <1>3. thread[t] \in Live'
    BY <1>1 DEF Live
  <1>4. QED
    BY <1>1, <1>2, <1>3, ReasonToWait

LEMMA ResumeKeepsWaiters ==
  ASSUME TypeOK, Inv, NoLostWakeup, SweepWaits, NEW t \in Turns, Resume(t)
  PROVE  NoLostWakeup'
  <1>1. thread[t] \in Threads /\ asleep' = asleep /\ claims'[thread[t]] = Claim("turn", t)
    BY DEF Resume, TypeOK, Keys
  <1>2. Interruptible(thread[t])
    BY <1>1, ClaimFields, DistinctTurns DEF Resume, Interruptible, CutsParked, InterruptedClaims
  <1>3. Claimed'
    BY <1>1, ClaimFields DEF Claimed, Keys
  <1>4. QED
    BY <1>1, <1>2, <1>3, ReasonToWait

\* A preview is let in while the sweep waits, and changes nothing it waits for.
LEMMA BeginRevertKeepsWaiters ==
  ASSUME TypeOK, Inv, NoLostWakeup, SweepWaits, NEW v \in Reverts, NEW th \in Threads, BeginRevert(v, th)
  PROVE  NoLostWakeup'
  <1>1. /\ claims' = [claims EXCEPT ![th] = Claim("revert", v)] /\ asleep' = asleep /\ claims[th] = Free
        /\ UNCHANGED <<last, closed, asked, running, cut>>
    BY DEF BeginRevert, TypeOK, Keys, Claimed, log
  <1>2. Claimed'
    BY <1>1, ClaimFields DEF Claimed, Keys, TypeOK
  <1>3. Live' = Live /\ Parked' = Parked
    BY <1>1, ClaimFields DEF Live, Reserved, Parked, ParkedOpen, Waits, TypeOK, Keys
  <1>4. \A x \in Threads : Interruptible(x)' => Interruptible(x)
    BY <1>1, ClaimFields DEF Interruptible, CutsRunning, CutsParked, Waits, InterruptedClaims, TypeOK, Keys
  <1>5. QED
    BY <1>1, <1>2, <1>3, <1>4 DEF NoLostWakeup

LEMMA StepWaiterKeepsWaiters ==
  ASSUME TypeOK, Inv, NoLostWakeup, SweepWaits, NEW s \in StepTurns, StepWaiter(s)
  PROVE  NoLostWakeup'
  <1>1. CASE UNCHANGED <<claims, asleep>>
    BY <1>1, SameReasons DEF StepWaiter, log
  <1>2. CASE admitting /\ claims' = [claims EXCEPT ![s] = Claim("step", s)] /\ UNCHANGED asleep
    <2>1. Claimed'
      BY <1>2, ClaimFields DEF Claimed, Keys, TypeOK
    <2>2. QED
      BY <1>2, <2>1, ReasonToWait
  <1>3. CASE (Holding # {} \/ Claimed) /\ asleep' = asleep \cup {s} /\ UNCHANGED claims
    <2>1. UNCHANGED <<last, closed, asked, running, claims, cut>>
      BY <1>3 DEF StepWaiter, log
    <2>2. Live' = Live /\ Parked' = Parked /\ (Claimed' <=> Claimed)
      BY <2>1 DEF Live, Reserved, Parked, ParkedOpen, Waits, Claimed
    <2>3. Holding' = Holding
      BY <2>1, <2>2 DEF Holding, ParkedOpen, Waits
    <2>4. \A th \in Threads : Interruptible(th)' <=> Interruptible(th)
      BY <2>1 DEF Interruptible, CutsRunning, CutsParked, Waits
    <2>5. s # Sealer /\ s # Sweeper
      BY DistinctTurns
    <2>6. QED
      BY <1>3, <2>2, <2>3, <2>4, <2>5 DEF NoLostWakeup
  <1>4. QED
    BY <1>1, <1>2, <1>3 DEF StepWaiter

LEMMA SameHere ==
  ASSUME UNCHANGED <<last, closed, asked, running, claims, cut>>
  PROVE  /\ Live' = Live /\ Parked' = Parked /\ Holding' = Holding /\ (Claimed' <=> Claimed)
         /\ \A th \in Threads : Interruptible(th)' <=> Interruptible(th)
  <1>1. Live' = Live /\ Parked' = Parked /\ (Claimed' <=> Claimed)
    BY DEF Live, Reserved, Parked, ParkedOpen, Waits, Claimed
  <1>2. Holding' = Holding
    BY <1>1 DEF Holding, ParkedOpen, Waits
  <1>3. \A th \in Threads : Interruptible(th)' <=> Interruptible(th)
    BY DEF Interruptible, CutsRunning, CutsParked, Waits
  <1>4. QED
    BY <1>1, <1>2, <1>3

\* The sweep looks at the threads that are live or parked: no other can be interrupted.
LEMMA OnlyThose ==
  ASSUME TypeOK, Inv, NEW th \in Threads, Interruptible(th)
  PROVE  th \in Live \cup Parked
  <1>1. PICK t \in Turns : CutsRunning(t, th) \/ CutsParked(t, th)
    BY DEF Interruptible
  <1>2. CASE CutsRunning(t, th)
    BY <1>2 DEF CutsRunning, Live
  <1>3. CASE CutsParked(t, th)
    <2>1. Waits(t, th)
      BY <1>3 DEF CutsParked
    <2>2. closed[t] = {}
      BY <2>1, WaitingIsOpen
    <2>3. QED
      BY <2>1, <2>2 DEF Parked, ParkedOpen
  <1>4. QED
    BY <1>1, <1>2, <1>3

LEMMA SweepIdleKeepsWaiters ==
  ASSUME TypeOK, Inv, NoLostWakeup, SweepIdle
  PROVE  NoLostWakeup'
  <1>1. UNCHANGED <<last, closed, asked, running, claims, cut>>
    BY DEF SweepIdle, log, calls
  <1>2. CASE asleep' = asleep
    BY <1>1, <1>2, SameHere DEF NoLostWakeup
  <1>3. CASE asleep' # asleep
    <2>1. asleep' = asleep \cup {Sweeper} /\ Live \cup Parked # {} /\ \A th \in Live \cup Parked : ~Interruptible(th)
      BY <1>3 DEF SweepIdle
    <2>2. \A th \in Threads : ~Interruptible(th)
      BY <2>1, OnlyThose
    <2>3. Sweeper \notin StepTurns /\ Sweeper # Sealer
      BY DistinctTurns DEF Sweeper, Sealer
    <2>4. QED
      BY <1>1, <2>1, <2>2, <2>3, SameHere DEF NoLostWakeup
  <1>4. QED
    BY <1>2, <1>3

LEMMA SealKeepsWaiters ==
  ASSUME TypeOK, Inv, NoLostWakeup, Seal
  PROVE  NoLostWakeup'
  <1>1. UNCHANGED <<last, closed, asked, running, claims, cut>>
    BY DEF Seal, log, calls
  <1>2. CASE asleep' = asleep
    BY <1>1, <1>2, SameHere DEF NoLostWakeup
  <1>3. CASE asleep' # asleep
    <2>1. asleep' = asleep \cup {Sealer} /\ (Live # {} \/ Claimed)
      BY <1>3 DEF Seal
    <2>2. Sealer \notin StepTurns /\ Sweeper # Sealer
      BY DistinctTurns DEF Sweeper, Sealer
    <2>3. QED
      BY <1>1, <2>1, <2>2, SameHere DEF NoLostWakeup
  <1>4. QED
    BY <1>2, <1>3

LEMMA WaitersStep ==
  ASSUME TypeOK, Inv, NoLostWakeup, SweepWaits, [Next]_vars, "takeover" \notin AskKinds
  PROVE  NoLostWakeup' /\ SweepWaits'
  <1>1. CASE Changed
    BY <1>1 DEF Changed, NoLostWakeup, SweepWaits
  <1>2. ASSUME NEW t \in Turns,
               \/ Started(t) \/ WakeFailed(t) \/ Park(t) \/ Finished(t) \/ Stopped(t) \/ Restored(t)
               \/ NotRestored(t) \/ Interrupted(t) \/ Abandoned(t)
        PROVE  Changed
    BY <1>2 DEF Started, WakeFailed, Park, Finished, Stopped, Restored, NotRestored, Interrupted, Abandoned, TaskDone
  <1>3. ASSUME (\E s \in StepTurns : StepDone(s)) \/ (\E v \in Reverts : EndRevert(v)) \/ Restart
        PROVE  Changed
    BY <1>3 DEF StepDone, EndRevert, Restart, Changed
  <1>4. ASSUME asleep' = asleep, sweep' = sweep \/ sweep'.pc # "idle" PROVE SweepWaits'
    BY <1>4 DEF SweepWaits
  <1>5. ASSUME NEW t \in Turns, Work(t) \/ Finishing(t) \/ (\E kind \in AskKinds : Ask(t, kind))
        PROVE  NoLostWakeup' /\ SweepWaits'
    BY <1>4, <1>5, OwnerKeepsWaiters DEF Work, Finishing, Ask, calls
  <1>6. ASSUME NEW t \in Turns, Resume(t) PROVE NoLostWakeup' /\ SweepWaits'
    BY <1>4, <1>6, ResumeKeepsWaiters DEF Resume
  <1>7. ASSUME NEW t \in Turns, Settled(t) PROVE NoLostWakeup' /\ SweepWaits'
    <2>1. \A u \in Turns : cut'[u] = "none" <=> cut[u] = "none"
      BY <1>7 DEF Settled, TypeOK
    <2>2. QED
      BY <1>4, <1>7, <2>1, SameReasons DEF Settled, log
  <1>8. ASSUME NEW t \in Turns, NEW n \in 1..MaxAsks, Deadline(t, n) PROVE FALSE
    BY <1>8 DEF Deadline, Inv, NoDeadlines
  <1>9. ASSUME NEW t \in Turns, NEW th \in Threads, Receive(t, th) PROVE NoLostWakeup' /\ SweepWaits'
    BY <1>4, <1>9, SameReasons DEF Receive, calls
  <1>10. ASSUME NEW t \in Turns, NEW th \in Threads, Wake(t, th) \/ WakeNewThread(t, th)
         PROVE  NoLostWakeup' /\ SweepWaits'
    <2>1. admitting /\ Reserve(t, th)
      BY <1>10 DEF Wake, WakeNewThread, Available
    <2>2. QED
      BY <1>4, <2>1, ReserveKeepsWaiters DEF Reserve
  <1>11. ASSUME NEW t \in Turns, WakeRecorded(t) PROVE NoLostWakeup' /\ SweepWaits'
    <2>1. admitting /\ Reserve(t, thread[t]) /\ thread[t] \in Threads
      BY <1>11 DEF WakeRecorded, Available, TypeOK
    <2>2. QED
      BY <1>4, <2>1, ReserveKeepsWaiters DEF Reserve
  <1>12. ASSUME NEW s \in StepTurns, NEW th \in Threads, StepTurn(s, th) PROVE NoLostWakeup' /\ SweepWaits'
    <2>1. admitting /\ Reserve(s, th) /\ s \in Turns
      BY <1>12 DEF StepTurn
    <2>2. QED
      BY <1>4, <2>1, ReserveKeepsWaiters DEF Reserve
  <1>13. ASSUME NEW t \in Turns, NEW th \in Threads, Interrupt(t, th) PROVE NoLostWakeup' /\ SweepWaits'
    BY <1>4, <1>13, BeginCutKeepsWaiters DEF Interrupt
  <1>14. ASSUME NEW s \in StepTurns, StepCall(s) PROVE NoLostWakeup' /\ SweepWaits'
    BY <1>4, <1>14, SameReasons DEF StepCall, log
  <1>15. ASSUME NEW s \in StepTurns, StepWaiter(s) PROVE NoLostWakeup' /\ SweepWaits'
    <2>1. SweepWaits'
      BY <1>15, DistinctTurns DEF StepWaiter, SweepWaits
    <2>2. QED
      BY <1>15, <2>1, StepWaiterKeepsWaiters
  <1>16. ASSUME NEW v \in Reverts, NEW th \in Threads, BeginRevert(v, th) PROVE NoLostWakeup' /\ SweepWaits'
    BY <1>4, <1>16, BeginRevertKeepsWaiters DEF BeginRevert
  <1>17. ASSUME NEW th \in Threads, NEW todo, SweepCut(th, todo) PROVE NoLostWakeup' /\ SweepWaits'
    <2>1. PICK t \in Turns : BeginCut(t, th) /\ sweep' = [pc |-> "cutting", todo |-> todo \ {th}, on |-> t]
      BY <1>17 DEF SweepCut
    <2>2. asleep' = asleep /\ sweep'.pc # "idle"
      BY <1>17, <2>1 DEF SweepCut
    <2>3. QED
      BY <1>4, <2>1, <2>2, BeginCutKeepsWaiters
  <1>18. ASSUME NEW th \in Threads, SweepPass(th) \/ SweepNext(th) PROVE NoLostWakeup' /\ SweepWaits'
    BY <1>17, <1>18 DEF SweepPass, SweepNext
  <1>19. CASE Drain \/ ForceDrain \/ SweepAgain
    <2>1. UNCHANGED <<last, closed, asked, running, claims, cut, asleep>>
      BY <1>19 DEF Drain, ForceDrain, SweepAgain, log, calls
    <2>2. sweep' = sweep \/ sweep'.pc # "idle"
      BY <1>19 DEF Drain, ForceDrain, SweepAgain, TypeOK
    <2>3. QED
      BY <1>4, <2>1, <2>2, SameReasons
  <1>20. CASE SweepIdle
    <2>1. SweepWaits'
      BY <1>20 DEF SweepIdle, SweepWaits, TypeOK
    <2>2. QED
      BY <1>20, <2>1, SweepIdleKeepsWaiters
  <1>21. CASE Seal
    <2>1. SweepWaits'
      BY <1>21 DEF Seal, SweepWaits, Sweeper, Sealer
    <2>2. QED
      BY <1>21, <2>1, SealKeepsWaiters
  <1>22. CASE UNCHANGED vars
    BY <1>4, <1>22, SameReasons DEF vars, log, calls
  <1>23. QED
    BY <1>1, <1>2, <1>3, <1>5, <1>6, <1>7, <1>8, <1>9, <1>10, <1>11, <1>12, <1>13, <1>14, <1>15, <1>16,
       <1>18, <1>19, <1>20, <1>21, <1>22 DEF Next

\* No waiter sleeps for ever over a change it missed: whoever is asleep on _changed has something
\* left to wait for (Turns.step, Turns.seal, Turns.interrupt_all).
THEOREM NobodySleepsOn ==
  ASSUME "takeover" \notin AskKinds
  PROVE  Spec => []NoLostWakeup
  <1>1. Init => TypeOK /\ Counted /\ Inv /\ NoLostWakeup /\ SweepWaits
    <2>1. Init => NoLostWakeup /\ SweepWaits
      BY DEF Init, NoLostWakeup, SweepWaits
    <2>2. QED
      BY <2>1, TypeInit, InvInit
  <1>2. TypeOK /\ Counted /\ Inv /\ NoLostWakeup /\ SweepWaits /\ [Next]_vars
          => (TypeOK /\ Counted /\ Inv /\ NoLostWakeup /\ SweepWaits)'
    BY TypeStep, InvStep, WaitersStep
  <1>3. QED
    BY <1>1, <1>2, PTL DEF Spec

-----------------------------------------------------------------------------
(* Who shares the workspace: a routine, a factory step and a revert that   *)
(* keeps its claim have it to themselves.                                  *)

\* A turn is at work on a thread; and it holds the instance there, at work or,
\* unless it is a routine's, waiting for its user.
AtWork(t, th) == running[th] = t \/ claims[th] = Claim("turn", t)
Holds(t, th) == AtWork(t, th) \/ (t \notin RoutineTurns /\ ParkedOpen(t, th))
Works(t) == \E th \in Threads : AtWork(t, th)
Busy(t)  == \E th \in Threads : Holds(t, th)

RevertClaims(v) == revert[v] # NoThread /\ claims[revert[v]] = Claim("revert", v)

\* Nothing that could work without asking again is about beside a routine at work,
\* a step that holds the instance, or a revert's claim; and no two of these meet.
RoutineOnly == \A r \in RoutineTurns, t \in Turns : Works(r) /\ Busy(t) => t = r
StepOnly == \A s \in StepTurns, t \in Turns : step[s] = "holding" /\ Busy(t) => t = s
OneStep == \A s, q \in StepTurns : step[s] = "holding" /\ step[q] = "holding" => s = q
RevertOnly ==
    \A v \in Reverts : RevertClaims(v) =>
        /\ \A t \in Turns : ~Busy(t)
        /\ \A s \in StepTurns : step[s] # "holding"

Exclusion == RoutineOnly /\ StepOnly /\ OneStep /\ RevertOnly

-----------------------------------------------------------------------------
USE DEF Turns, Keys, ParkingKinds

\* A turn at work is the live turn of its thread, and live threads have one.
LEMMA LiveAtWork ==
  ASSUME TypeOK, Inv, NEW th \in Threads
  PROVE /\ \A t \in Turns : AtWork(t, th) => th \in Live /\ LiveTurn(th) = t
        /\ th \in Live => LiveTurn(th) \in Turns /\ AtWork(LiveTurn(th), th)
  <1>1. ASSUME NEW t \in Turns, running[th] = t PROVE th \in Live /\ LiveTurn(th) = t
    BY <1>1, DistinctTurns DEF Inv, OneOfEach, Live, LiveTurn, Reserved
  <1>2. ASSUME NEW t \in Turns, claims[th] = Claim("turn", t)
        PROVE th \in Live /\ LiveTurn(th) = t
    BY <1>2, ClaimFields DEF Live, LiveTurn, Reserved
  <1>3. ASSUME th \in Live PROVE LiveTurn(th) \in Turns /\ AtWork(LiveTurn(th), th)
    <2>1. CASE Reserved(th)
      BY <2>1, ReservedFor DEF LiveTurn, AtWork
    <2>2. CASE ~Reserved(th)
      BY <1>3, <2>2 DEF Live, LiveTurn, AtWork, TypeOK
    <2>3. QED
      BY <2>1, <2>2
  <1>4. QED
    BY <1>1, <1>2, <1>3 DEF AtWork

\* Nobody holds an instance that Holding finds empty.
LEMMA NobodyHolds ==
  ASSUME TypeOK, Inv, Holding = {}, NEW t \in Turns
  PROVE ~Busy(t)
  BY LiveAtWork DEF Busy, Holds, Holding

\* A step that adds nobody to those who hold the instance keeps the exclusion.
LEMMA LeavingKeepsExclusion ==
  ASSUME Exclusion,
         \A t \in Turns : Busy(t)' => Busy(t),
         \A r \in RoutineTurns : Works(r)' => Works(r),
         \A s \in StepTurns : step'[s] = "holding" => step[s] = "holding",
         \A v \in Reverts : RevertClaims(v)' => RevertClaims(v)
  PROVE Exclusion'
  <1>1. RoutineOnly'
    BY DEF Exclusion, RoutineOnly
  <1>2. StepOnly' /\ OneStep'
    BY DEF Exclusion, StepOnly, OneStep
  <1>3. RevertOnly'
    BY DEF Exclusion, RevertOnly
  <1>4. QED
    BY <1>1, <1>2, <1>3 DEF Exclusion

\* The same, thread by thread.
LEMMA WithdrawalKeepsExclusion ==
  ASSUME Exclusion,
         \A t \in Turns, th \in Threads : Holds(t, th)' => Holds(t, th),
         \A r \in RoutineTurns, th \in Threads : AtWork(r, th)' => AtWork(r, th),
         \A s \in StepTurns : step'[s] = "holding" => step[s] = "holding",
         \A v \in Reverts : RevertClaims(v)' => RevertClaims(v)
  PROVE Exclusion'
  <1>1. \A t \in Turns : Busy(t)' => Busy(t)
    BY DEF Busy
  <1>2. \A r \in RoutineTurns : Works(r)' => Works(r)
    BY DEF Works
  <1>3. QED
    BY <1>1, <1>2, LeavingKeepsExclusion

\* What a claim that a turn reserves its thread with changes.
LEMMA ClaimAdds ==
  ASSUME TypeOK, NEW t \in Turns, NEW th \in Threads,
         claims' = [claims EXCEPT ![th] = Claim("turn", t)],
         UNCHANGED <<last, closed, asked, running>>
  PROVE /\ \A u \in Turns, x \in Threads : AtWork(u, x)' => AtWork(u, x) \/ u = t
        /\ \A u \in Turns, x \in Threads : Holds(u, x)' => Holds(u, x) \/ u = t
  <1>1. \A u \in Turns, x \in Threads : AtWork(u, x)' => AtWork(u, x) \/ u = t
    <2> SUFFICES ASSUME NEW u \in Turns, NEW x \in Threads, AtWork(u, x)', u # t
                 PROVE AtWork(u, x)
      OBVIOUS
    <2>1. Claim("turn", t) # Claim("turn", u)
      BY DEF Claim
    <2>2. QED
      BY <2>1 DEF AtWork, TypeOK
  <1>2. \A u \in Turns, x \in Threads : ParkedOpen(u, x)' = ParkedOpen(u, x)
    BY DEF ParkedOpen, Waits
  <1>3. QED
    BY <1>1, <1>2 DEF Holds

\* What require_available finds before it lets a turn in: no routine at work, no step
\* that holds the instance, no revert's claim, and for a routine nobody at all.
LEMMA AvailableFinds ==
  ASSUME TypeOK, Inv, NEW t \in Turns, Available(t)
  PROVE /\ \A r \in RoutineTurns : ~Works(r)
        /\ \A s \in StepTurns : step[s] # "holding"
        /\ \A k \in Keys : claims[k].kind # "revert"
        /\ t \in RoutineTurns => \A u \in Turns : ~Busy(u)
  <1>1. \A r \in RoutineTurns : ~Works(r)
    BY LiveAtWork DEF Available, Works
  <1>2. \A s \in StepTurns : step[s] # "holding"
    BY ClaimFields DEF Available, ClaimHeld, Inv, StepClaims
  <1>3. \A k \in Keys : claims[k].kind # "revert"
    BY DEF Available, ClaimHeld
  <1>4. t \in RoutineTurns => \A u \in Turns : ~Busy(u)
    BY NobodyHolds DEF Available
  <1>5. QED
    BY <1>1, <1>2, <1>3, <1>4

\* A turn let in by require_available keeps the exclusion.
LEMMA AdmissionKeepsExclusion ==
  ASSUME TypeOK, TypeOK', Inv, NEW t \in Turns, NEW th \in Threads, Available(t),
         claims' = [claims EXCEPT ![th] = Claim("turn", t)],
         UNCHANGED <<last, closed, asked, running, step, revert>>
  PROVE Exclusion'
  <1>1. \A r \in RoutineTurns : Works(r)' => r = t
    BY AvailableFinds, ClaimAdds DEF Works
  <1>2. t \in RoutineTurns => \A u \in Turns : Busy(u)' => u = t
    BY AvailableFinds, ClaimAdds DEF Busy
  <1>3. RoutineOnly'
    BY <1>1, <1>2 DEF RoutineOnly
  <1>4. StepOnly' /\ OneStep'
    BY AvailableFinds DEF StepOnly, OneStep
  <1>5. \A v \in Reverts : ~RevertClaims(v)'
    <2>1. \A k \in Keys : claims'[k].kind # "revert"
      BY AvailableFinds, ClaimFields DEF TypeOK
    <2>2. \A v \in Reverts : revert'[v] # NoThread => revert'[v] \in Keys
      BY DEF TypeOK
    <2>3. QED
      BY <2>1, <2>2, ClaimFields DEF RevertClaims
  <1>6. RevertOnly'
    BY <1>5 DEF RevertOnly
  <1>7. QED
    BY <1>3, <1>4, <1>6 DEF Exclusion

\* The turn of a step that holds the instance is alone in it.
LEMMA StepTurnKeepsExclusion ==
  ASSUME TypeOK, Inv, Exclusion, NEW s \in StepTurns, NEW th \in Threads, StepTurn(s, th)
  PROVE Exclusion'
  <1> USE DEF StepTurn, Reserve
  <1>1. \A t \in Turns : Busy(t) => t = s
    BY DEF Exclusion, StepOnly
  <1>2. \A t \in Turns : Busy(t)' => t = s
    BY <1>1, ClaimAdds DEF Busy
  <1>3. \A t \in Turns : Works(t)' => Busy(t)'
    BY DEF Works, Busy, Holds
  <1>4. RoutineOnly'
    BY <1>2, <1>3, DistinctTurns DEF RoutineOnly
  <1>5. StepOnly' /\ OneStep'
    BY <1>2 DEF Exclusion, StepOnly, OneStep
  <1>6. \A v \in Reverts : ~RevertClaims(v)'
    <2>1. \A v \in Reverts : ~RevertClaims(v)
      BY DEF Exclusion, RevertOnly
    <2>2. QED
      BY <2>1, ClaimFields DEF RevertClaims, TypeOK
  <1>7. RevertOnly'
    BY <1>6 DEF RevertOnly
  <1>8. QED
    BY <1>4, <1>5, <1>7 DEF Exclusion

\* A step takes the instance from nobody.
LEMMA StepWaiterKeepsExclusion ==
  ASSUME TypeOK, TypeOK', Inv, Exclusion, NEW s \in StepTurns, StepWaiter(s)
  PROVE Exclusion'
  <1> USE DEF StepWaiter, log
  <1>1. /\ \A th \in Threads : claims'[th] = claims[th]
        /\ \A t \in Turns, th \in Threads : ParkedOpen(t, th)' = ParkedOpen(t, th)
    BY DistinctTurns DEF TypeOK, ParkedOpen, Waits
  <1>2. /\ \A t \in Turns, th \in Threads : AtWork(t, th)' = AtWork(t, th)
        /\ \A t \in Turns, th \in Threads : Holds(t, th)' = Holds(t, th)
    BY <1>1 DEF AtWork, Holds
  <1>3. \A v \in Reverts : RevertClaims(v)' = RevertClaims(v)
    BY <1>1 DEF RevertClaims, TypeOK
  <1>4. CASE \A q \in StepTurns : step'[q] = "holding" => step[q] = "holding"
    BY <1>2, <1>3, <1>4, WithdrawalKeepsExclusion
  <1>5. CASE admitting /\ Holding = {} /\ ~Claimed
    <2>1. \A t \in Turns : ~Busy(t) /\ ~Works(t)
      BY <1>5, NobodyHolds DEF Works, Busy, Holds
    <2>2. \A t \in Turns : ~Busy(t)' /\ ~Works(t)'
      BY <1>2, <2>1 DEF Busy, Works
    <2>3. \A q \in StepTurns : step'[q] = "holding" => q = s
      BY <1>5, ClaimFields DEF Claimed, Inv, StepClaims, TypeOK
    <2>4. \A v \in Reverts : ~RevertClaims(v)'
      BY <1>3, <1>5, ClaimFields DEF Claimed, RevertClaims, TypeOK
    <2>5. QED
      BY <2>2, <2>3, <2>4 DEF Exclusion, RoutineOnly, StepOnly, OneStep, RevertOnly
  <1>6. QED
    BY <1>4, <1>5 DEF TypeOK

\* A revert claims its thread when nothing is at work, claimed or waiting for a user.
LEMMA BeginRevertKeepsExclusion ==
  ASSUME TypeOK, TypeOK', Inv, NEW v \in Reverts, NEW th \in Threads, BeginRevert(v, th)
  PROVE Exclusion'
  <1> USE DEF BeginRevert, log
  <1>1. \A t \in Turns : ~Busy(t)
    BY NobodyHolds
  <1>2. \A t \in Turns, x \in Threads : AtWork(t, x)' => AtWork(t, x)
    BY ClaimFields DEF AtWork, TypeOK
  <1>3. \A t \in Turns, x \in Threads : ParkedOpen(t, x)' = ParkedOpen(t, x)
    BY DEF ParkedOpen, Waits
  <1>4. \A t \in Turns : ~Busy(t)' /\ ~Works(t)'
    BY <1>1, <1>2, <1>3 DEF Busy, Works, Holds
  <1>5. \A s \in StepTurns : step'[s] # "holding"
    BY ClaimFields DEF Claimed, Inv, StepClaims
  <1>6. QED
    BY <1>4, <1>5 DEF Exclusion, RoutineOnly, StepOnly, OneStep, RevertOnly

\* An interrupt claims the thread of a turn at work or parked, and lets nobody in.
LEMMA BeginCutKeepsExclusion ==
  ASSUME TypeOK, Exclusion, NEW t \in Turns, NEW th \in Threads, BeginCut(t, th),
         UNCHANGED <<last, closed, asked, running, step, revert>>
  PROVE Exclusion'
  <1> USE DEF BeginCut
  <1>1. /\ \A u \in Turns : Claim("cut", t) # Claim("turn", u)
        /\ \A v \in Reverts : Claim("cut", t) # Claim("revert", v)
    BY ClaimFields
  <1>2. \A u \in Turns, x \in Threads : AtWork(u, x)' => AtWork(u, x)
    BY <1>1 DEF AtWork, TypeOK
  <1>3. \A u \in Turns, x \in Threads : ParkedOpen(u, x)' = ParkedOpen(u, x)
    BY DEF ParkedOpen, Waits
  <1>4. \A v \in Reverts : RevertClaims(v)' => RevertClaims(v)
    BY <1>1 DEF RevertClaims, TypeOK
  <1>5. QED
    BY <1>2, <1>3, <1>4, WithdrawalKeepsExclusion DEF Holds

\* A call that gives back its claim, and changes nothing else of what holds.
LEMMA ReleaseKeepsExclusion ==
  ASSUME TypeOK, Exclusion, NEW k, NEW claim, Release(k, claim),
         UNCHANGED <<last, closed, asked, running>>,
         \A s \in StepTurns : step'[s] = "holding" => step[s] = "holding",
         \A v \in Reverts : revert'[v] \in {revert[v], NoThread}
  PROVE Exclusion'
  <1>1. \A x \in Keys : claims'[x] = claims[x] \/ claims'[x] = Free
    BY DEF Release, TypeOK
  <1>2. /\ \A u \in Turns : Free # Claim("turn", u)
        /\ \A v \in Reverts : Free # Claim("revert", v)
    BY ClaimFields
  <1>3. \A u \in Turns, x \in Threads : AtWork(u, x)' => AtWork(u, x)
    BY <1>1, <1>2 DEF AtWork
  <1>4. \A u \in Turns, x \in Threads : ParkedOpen(u, x)' = ParkedOpen(u, x)
    BY DEF ParkedOpen, Waits
  <1>5. \A v \in Reverts : RevertClaims(v)' => RevertClaims(v)
    BY <1>1, <1>2 DEF RevertClaims, TypeOK
  <1>6. QED
    BY <1>3, <1>4, <1>5, WithdrawalKeepsExclusion DEF Holds

\* A start or a resume that is over puts the turn's task in the place of its claim.
LEMMA SpawnKeepsExclusion ==
  ASSUME TypeOK, Inv, Exclusion, NEW t \in Turns,
         thread[t] \in Threads, claims[thread[t]] = Claim("turn", t),
         claims' = [claims EXCEPT ![thread[t]] = Free],
         running' = [running EXCEPT ![thread[t]] = t],
         last' \in {last, [last EXCEPT ![t] = "started"]},
         UNCHANGED <<closed, asked, step, revert>>
  PROVE Exclusion'
  <1>1. /\ \A u \in Turns : Free # Claim("turn", u)
        /\ \A v \in Reverts : Free # Claim("revert", v)
    BY ClaimFields
  <1>2. \A u \in Turns, x \in Threads : AtWork(u, x)' => AtWork(u, x)
    BY <1>1 DEF AtWork, TypeOK
  <1>3. \A u \in Turns, x \in Threads : ParkedOpen(u, x)' => ParkedOpen(u, x)
    BY DEF ParkedOpen, Waits, TypeOK
  <1>4. \A v \in Reverts : RevertClaims(v)' => RevertClaims(v)
    BY <1>1 DEF RevertClaims, TypeOK
  <1>5. QED
    BY <1>2, <1>3, <1>4, WithdrawalKeepsExclusion DEF Holds

\* A task that writes to its turn, asks its user or ends.
LEMMA TaskKeepsExclusion ==
  ASSUME TypeOK, Exclusion, NEW t \in Turns,
         \A th \in Threads : running'[th] \in {running[th], NoTurn},
         \A u \in Turns \ {t} : last'[u] = last[u] /\ closed'[u] = closed[u],
         \A u \in Turns \ {t}, th \in Threads : asked'[th] = u => asked[th] = u,
         Busy(t) \/ UNCHANGED <<last, closed, asked>> \/ last'[t] \notin ParkingKinds,
         UNCHANGED <<claims, step, revert>>
  PROVE Exclusion'
  <1>1. \A u \in Turns, x \in Threads : AtWork(u, x)' => AtWork(u, x)
    BY DistinctTurns DEF AtWork, TypeOK
  <1>2. \A u \in Turns \ {t}, x \in Threads : Holds(u, x)' => Holds(u, x)
    BY <1>1 DEF Holds, ParkedOpen, Waits
  <1>3. Busy(t)' => Busy(t)
    BY <1>1 DEF Busy, Holds, ParkedOpen, Waits
  <1>4. \A u \in Turns : Busy(u)' => Busy(u)
    BY <1>2, <1>3 DEF Busy
  <1>5. \A r \in RoutineTurns : Works(r)' => Works(r)
    BY <1>1 DEF Works
  <1>6. QED
    BY <1>4, <1>5, LeavingKeepsExclusion DEF RevertClaims

LEMMA InterruptedKeepsExclusion ==
  ASSUME TypeOK, Inv, Exclusion, NEW t \in Turns, Interrupted(t)
  PROVE Exclusion'
  <1> USE DEF Interrupted, Append, AppendClosing
  <1>1. \A x \in Keys : claims'[x] = claims[x] \/ claims'[x] = Free
    BY DEF Release, TypeOK
  <1>2. /\ \A u \in Turns : Free # Claim("turn", u)
        /\ \A v \in Reverts : Free # Claim("revert", v)
    BY ClaimFields
  <1>3. \A x \in Threads : running'[x] \in {running[x], NoTurn}
    BY DEF TypeOK
  <1>4. \A u \in Turns, x \in Threads : AtWork(u, x)' => AtWork(u, x)
    BY <1>1, <1>2, <1>3, DistinctTurns DEF AtWork
  <1>5. \A u \in Turns, x \in Threads : ParkedOpen(u, x)' => ParkedOpen(u, x)
    BY DEF ParkedOpen, Waits, TypeOK
  <1>6. \A v \in Reverts : RevertClaims(v)' => RevertClaims(v)
    BY <1>1, <1>2 DEF RevertClaims, TypeOK
  <1>7. QED
    BY <1>4, <1>5, <1>6, WithdrawalKeepsExclusion DEF Holds

\* A user's turn that resumes held the instance while it waited; a routine's did not,
\* and is let in again like a new one.
LEMMA ResumeKeepsExclusion ==
  ASSUME TypeOK, TypeOK', Inv, Exclusion, NEW t \in Turns, Resume(t)
  PROVE Exclusion'
  <1> USE DEF Resume, log
  <1>1. thread[t] \in Threads /\ ParkedOpen(t, thread[t])
    BY WaitingIsOpen DEF TypeOK, ParkedOpen
  <1>2. CASE t \in RoutineTurns
    BY <1>1, <1>2, AdmissionKeepsExclusion
  <1>3. CASE t \notin RoutineTurns
    <2>1. Busy(t)
      BY <1>1, <1>3 DEF Busy, Holds
    <2>2. \A u \in Turns : Busy(u)' => Busy(u)
      BY <1>1, <2>1, ClaimAdds DEF Busy
    <2>3. \A r \in RoutineTurns : Works(r)' => Works(r)
      BY <1>1, <1>3, ClaimAdds DEF Works
    <2>4. \A v \in Reverts : RevertClaims(v)' => RevertClaims(v)
      BY <1>1, ClaimFields DEF RevertClaims, TypeOK
    <2>5. QED
      BY <2>2, <2>3, <2>4, LeavingKeepsExclusion
  <1>4. QED
    BY <1>2, <1>3

\* After a restart nothing works, no step holds the instance and no claim stands.
LEMMA RestartKeepsExclusion ==
  ASSUME TypeOK, Restart
  PROVE Exclusion'
  <1>1. \A t \in Turns : ~Works(t)'
    BY DistinctTurns, ClaimFields DEF Restart, Works, AtWork
  <1>2. \A s \in StepTurns : step'[s] # "holding"
    BY DEF Restart
  <1>3. \A v \in Reverts : ~RevertClaims(v)'
    BY DEF Restart, RevertClaims
  <1>4. QED
    BY <1>1, <1>2, <1>3 DEF Exclusion, RoutineOnly, StepOnly, OneStep, RevertOnly

\* The task of a turn that owns it is at work.
LEMMA OwnedIsBusy ==
  ASSUME TypeOK, NEW t \in Turns, Owned(t)
  PROVE Busy(t)
  BY DEF Owned, Busy, Holds, AtWork, TypeOK

LEMMA ExclusionStep ==
  ASSUME TypeOK, TypeOK', Inv, Exclusion, [Next]_vars, "takeover" \notin AskKinds
  PROVE Exclusion'
  <1> USE DEF log, calls
  <1>1. ASSUME NEW t \in Turns, Started(t) PROVE Exclusion'
    <2>1. thread[t] \in Threads /\ claims[thread[t]] = Claim("turn", t)
      BY <1>1 DEF Started, Inv, Reservations, TypeOK
    <2>2. QED
      BY <1>1, <2>1, SpawnKeepsExclusion DEF Started, Append, Release, Spawn
  <1>2. ASSUME NEW t \in Turns, Restored(t) PROVE Exclusion'
    <2>1. thread[t] \in Threads
      BY <1>2 DEF Restored, Inv, Reservations, TypeOK
    <2>2. QED
      BY <1>2, <2>1, SpawnKeepsExclusion DEF Restored, Release, Spawn
  <1>3. ASSUME NEW t \in Turns, WakeFailed(t) \/ NotRestored(t) PROVE Exclusion'
    BY <1>3, ReleaseKeepsExclusion DEF WakeFailed, NotRestored
  <1>4. ASSUME NEW t \in Turns, Work(t) PROVE Exclusion'
    BY <1>4, OwnedIsBusy, TaskKeepsExclusion DEF Work, Append, TypeOK
  <1>5. ASSUME NEW t \in Turns, NEW kind \in AskKinds, Ask(t, kind) PROVE Exclusion'
    BY <1>5, OwnedIsBusy, TaskKeepsExclusion DEF Ask, Append, TypeOK
  <1>6. ASSUME NEW t \in Turns, Park(t) \/ Stopped(t) \/ Finishing(t) PROVE Exclusion'
    BY <1>6, TaskKeepsExclusion DEF Park, Stopped, Finishing, TaskDone, TypeOK
  <1>7. ASSUME NEW t \in Turns, Finished(t) PROVE Exclusion'
    BY <1>7, OwnedIsBusy, TaskKeepsExclusion DEF Finished, Append, AppendClosing, TaskDone, TypeOK
  <1>8. ASSUME NEW t \in Turns, Resume(t) PROVE Exclusion'
    BY <1>8, ResumeKeepsExclusion
  <1>9. ASSUME NEW t \in Turns, Interrupted(t) PROVE Exclusion'
    BY <1>9, InterruptedKeepsExclusion
  <1>10. ASSUME NEW t \in Turns, NEW th \in Threads, Interrupt(t, th) PROVE Exclusion'
    BY <1>10, BeginCutKeepsExclusion DEF Interrupt
  <1>11. ASSUME NEW th \in Threads, SweepPass(th) \/ SweepNext(th) PROVE Exclusion'
    BY <1>11, BeginCutKeepsExclusion DEF SweepPass, SweepNext, SweepCut
  <1>12. ASSUME NEW t \in Turns, NEW th \in Threads, Wake(t, th) \/ WakeNewThread(t, th)
         PROVE Exclusion'
    BY <1>12, AdmissionKeepsExclusion DEF Wake, WakeNewThread, Reserve
  <1>13. ASSUME NEW t \in Turns, WakeRecorded(t) PROVE Exclusion'
    <2>1. t \in Turns /\ thread[t] \in Threads
      BY <1>13, Subkinds DEF WakeRecorded, TypeOK, Turns
    <2>2. QED
      BY <1>13, <2>1, AdmissionKeepsExclusion DEF WakeRecorded, Reserve
  <1>14. ASSUME NEW s \in StepTurns, NEW th \in Threads, StepTurn(s, th) PROVE Exclusion'
    BY <1>14, StepTurnKeepsExclusion
  <1>15. ASSUME NEW s \in StepTurns, StepWaiter(s) PROVE Exclusion'
    BY <1>15, StepWaiterKeepsExclusion
  <1>16. ASSUME NEW s \in StepTurns, StepDone(s) PROVE Exclusion'
    BY <1>16, ReleaseKeepsExclusion DEF StepDone, TypeOK
  <1>17. ASSUME NEW v \in Reverts, EndRevert(v) PROVE Exclusion'
    BY <1>17, ReleaseKeepsExclusion DEF EndRevert, TypeOK
  <1>18. ASSUME NEW v \in Reverts, NEW th \in Threads, BeginRevert(v, th) PROVE Exclusion'
    BY <1>18, BeginRevertKeepsExclusion
  <1>19. ASSUME Restart PROVE Exclusion'
    BY <1>19, RestartKeepsExclusion
  <1>20. ASSUME NEW s \in StepTurns, StepCall(s) PROVE Exclusion'
    BY <1>20, WithdrawalKeepsExclusion
       DEF StepCall, TypeOK, Holds, AtWork, ParkedOpen, Waits, RevertClaims
  <1>21. ASSUME UNCHANGED <<running, claims, last, closed, asked, step, revert>>
         PROVE Exclusion'
    BY <1>21, WithdrawalKeepsExclusion DEF Holds, AtWork, ParkedOpen, Waits, RevertClaims
  <1>22. ASSUME \/ \E t \in Turns : Settled(t) \/ \E th \in Threads : Receive(t, th)
                \/ Drain \/ ForceDrain \/ SweepIdle \/ SweepAgain \/ Seal
                \/ UNCHANGED vars
         PROVE Exclusion'
    BY <1>21, <1>22 DEF Settled, Receive, Drain, ForceDrain, SweepIdle, SweepAgain, Seal, vars
  <1>23. ASSUME NEW t \in Turns, NEW n \in 1..MaxAsks, Deadline(t, n) PROVE FALSE
    BY <1>23 DEF Deadline, Inv, NoDeadlines
  <1>24. ASSUME NEW t \in Turns, Abandoned(t) PROVE FALSE
    BY <1>24, NothingAbandoned
  <1>25. QED
    BY <1>1, <1>2, <1>3, <1>4, <1>5, <1>6, <1>7, <1>8, <1>9, <1>10, <1>11, <1>12, <1>13, <1>14,
       <1>15, <1>16, <1>17, <1>18, <1>19, <1>20, <1>22, <1>23, <1>24 DEF Next

-----------------------------------------------------------------------------
LEMMA ExclusionInit == Init => Exclusion
  <1> SUFFICES ASSUME Init PROVE Exclusion
    OBVIOUS
  <1>1. \A t \in Turns : ~Works(t)
    BY DistinctTurns, ClaimFields DEF Init, Works, AtWork
  <1>2. \A s \in StepTurns : step[s] # "holding"
    BY DEF Init
  <1>3. \A v \in Reverts : ~RevertClaims(v)
    BY DEF Init, RevertClaims
  <1>4. QED
    BY <1>1, <1>2, <1>3 DEF Exclusion, RoutineOnly, StepOnly, OneStep, RevertOnly

LEMMA ExclusionHolds ==
  ASSUME "takeover" \notin AskKinds
  PROVE Spec => [](TypeOK /\ Inv /\ Exclusion)
  <1>1. Init => TypeOK /\ Counted /\ Inv /\ Exclusion
    BY TypeInit, InvInit, ExclusionInit
  <1>2. TypeOK /\ Counted /\ Inv /\ Exclusion /\ [Next]_vars
          => (TypeOK /\ Counted /\ Inv /\ Exclusion)'
    BY TypeStep, InvStep, ExclusionStep
  <1>3. QED
    BY <1>1, <1>2, PTL DEF Spec

\* A live thread has a turn at work, which holds the instance.
LEMMA LiveIsBusy ==
  ASSUME TypeOK, Inv, NEW th \in Live
  PROVE LiveTurn(th) \in Turns /\ Works(LiveTurn(th)) /\ Busy(LiveTurn(th))
  <1>1. th \in Threads
    BY DEF Live
  <1>2. QED
    BY <1>1, LiveAtWork DEF Works, Busy, Holds

\* A routine's turn at work has the workspace to itself (require_available, over every
\* answer, interrupt and restart).
THEOREM RoutineStaysAlone ==
  ASSUME "takeover" \notin AskKinds
  PROVE Spec => []RoutineAlone
  <1>1. TypeOK /\ Inv /\ Exclusion => RoutineAlone
    <2> SUFFICES ASSUME TypeOK, Inv, Exclusion, NEW th \in Live,
                        LiveTurn(th) \in RoutineTurns
                 PROVE Live = {th}
      BY DEF RoutineAlone
    <2>1. ASSUME NEW x \in Live PROVE x = th
      <3>1. LiveTurn(x) = LiveTurn(th)
        BY LiveIsBusy DEF Exclusion, RoutineOnly
      <3>2. th \in Threads /\ x \in Threads
        BY DEF Live
      <3>3. AtWork(LiveTurn(th), th) /\ AtWork(LiveTurn(th), x)
        BY <3>1, <3>2, LiveAtWork
      <3>4. \A y \in Threads : AtWork(LiveTurn(th), y) => thread[LiveTurn(th)] = y
        BY LiveIsBusy DEF AtWork, Inv, OwnThreads
      <3>5. QED
        BY <3>2, <3>3, <3>4
    <2>2. QED
      BY <2>1
  <1>2. QED
    BY <1>1, ExclusionHolds, PTL

\* While a factory step holds the instance, no turn but its own is at work (Turns.step).
THEOREM StepStaysAlone ==
  ASSUME "takeover" \notin AskKinds
  PROVE Spec => []StepAlone
  <1>1. TypeOK /\ Inv /\ Exclusion => StepAlone
    BY LiveIsBusy DEF StepAlone, Exclusion, StepOnly
  <1>2. QED
    BY <1>1, ExclusionHolds, PTL

\* While a revert's claim stands, no turn is at work under it (_claim_revert).
THEOREM RevertClaimStaysAlone ==
  ASSUME "takeover" \notin AskKinds
  PROVE Spec => []RevertClaimAlone
  <1>1. TypeOK /\ Inv /\ Exclusion => RevertClaimAlone
    BY LiveIsBusy DEF RevertClaimAlone, RevertClaims, Exclusion, RevertOnly
  <1>2. QED
    BY <1>1, ExclusionHolds, PTL
=============================================================================
