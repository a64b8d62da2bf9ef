-------------------------- MODULE StepCallsProofs --------------------------
(***************************************************************************)
(* Theorems about StepCalls, for every number of steps, retries, losses    *)
(* and restarts: the worker, the hub's record and what the instance holds  *)
(* stay in step, and what the two of them do of an attempt implements      *)
(* StepOnce.                                                               *)
(*                                                                         *)
(* At most one attempt is being made, the current one.  The invariant says *)
(* what the hub and the instance may have of it, of those before it and of *)
(* those after it, at each point of the worker and of its call.            *)
(***************************************************************************)
EXTENDS StepCalls, SequenceTheorems, TLAPS

\* The attempt the run is at, while it is being made.
Active == status = "queued" \/ (status = "running" /\ open)
Current == NextAttempt(at)
IsCurrent(k) == Active /\ k = Current

Types ==
    /\ status \in {"queued", "running", "needs_human", "done"} /\ at \in Steps
    /\ ended \in [Steps -> Nat] /\ open \in BOOLEAN
    /\ recorded \in [Attempts -> {"nothing", "clean", "failed", "refused"}]
    /\ spent \in [Steps -> 0..Retries + 1] /\ stops \in Nat /\ reported \in BOOLEAN
    /\ queue \in Seq(0..stops) /\ later \in SUBSET (1..stops)
    /\ worker \in [pc : {"idle", "offering", "waiting", "settling", "backoff"},
                   took : 0..stops, command : Attempts \cup {NoCall}]
    /\ conn \in {"none", "sent", "taken", "answered", "lost"}
    /\ answer \in Results \cup {"none", "restarted", "error", "draining"}
    /\ pending \in Seq(Attempts \cup {ReportCall})
    /\ held \in [call : Attempts \cup {NoCall}, result : Results \cup {"none"}]
    /\ latest \in Attempts \cup {NoCall} /\ task \in [Attempts -> {"none", "waiting", "working"}]
    /\ admitting \in BOOLEAN /\ installed \in BOOLEAN
    /\ execution \in [Attempts -> Results \cup {"never", "running", "raised", "killed"}]
    /\ began \in [Attempts -> Nat]
    /\ userRetries \in 0..MaxUserRetries /\ hubRestarts \in 0..MaxHubRestarts
    /\ torn \in 0..MaxTornRestarts /\ instanceRestarts \in 0..MaxInstanceRestarts
    /\ losses \in 0..MaxLosses

RegistryTyped ==
    /\ status \in {"queued", "running", "needs_human", "done"} /\ at \in Steps
    /\ ended \in [Steps -> Nat] /\ open \in BOOLEAN
    /\ recorded \in [Attempts -> {"nothing", "clean", "failed", "refused"}]
    /\ spent \in [Steps -> 0..Retries + 1] /\ stops \in Nat /\ reported \in BOOLEAN

MemoryTyped ==
    /\ queue \in Seq(0..stops) /\ later \in SUBSET (1..stops)
    /\ worker \in [pc : {"idle", "offering", "waiting", "settling", "backoff"},
                   took : 0..stops, command : Attempts \cup {NoCall}]

InstanceTyped ==
    /\ held \in [call : Attempts \cup {NoCall}, result : Results \cup {"none"}]
    /\ latest \in Attempts \cup {NoCall} /\ task \in [Attempts -> {"none", "waiting", "working"}]
    /\ admitting \in BOOLEAN /\ installed \in BOOLEAN
    /\ execution \in [Attempts -> Results \cup {"never", "running", "raised", "killed"}]
    /\ began \in [Attempts -> Nat]

\* What the hub's registry and memory hold is typed apart from the line and the instance.
LEMMA TypedApart ==
  ASSUME Types, RegistryTyped', MemoryTyped', UNCHANGED instance,
         conn' \in {"none", "sent", "taken", "answered", "lost"}, UNCHANGED <<answer, pending>>,
         userRetries' \in 0..MaxUserRetries, hubRestarts' \in 0..MaxHubRestarts, torn' \in 0..MaxTornRestarts,
         UNCHANGED <<instanceRestarts, losses>>
  PROVE  Types'
  <1>1. InstanceTyped'
    BY SMTT(20) DEF Types, instance, InstanceTyped
  <1>2. /\ answer' \in Results \cup {"none", "restarted", "error", "draining"}
        /\ pending' \in Seq(Attempts \cup {ReportCall})
    BY DEF Types
  <1>3. instanceRestarts' \in 0..MaxInstanceRestarts /\ losses' \in 0..MaxLosses
    BY DEF Types
  <1>4. QED
    BY <1>1, <1>2, <1>3 DEF Types, RegistryTyped, MemoryTyped, InstanceTyped

\* A retry of the user's lets each step fail Retries + 1 times more, and each ended attempt
\* but the latest at a step failed.
Budget ==
    LET most == (Retries + 1) * userRetries IN
    /\ status # "needs_human" => spent[at] <= Retries
    /\ ended[at] <= most + spent[at] + (IF Active \/ status = "needs_human" THEN 0 ELSE 1)
    /\ \A s \in Steps : /\ s > at => ended[s] = 0 /\ spent[s] = 0
                        /\ s < at => ended[s] <= most + Retries + 1
    /\ stops = userRetries + (IF status = "needs_human" THEN 1 ELSE 0)

\* The attempts that ended are the recorded ones.
Record == \A k \in Attempts : recorded[k] = "nothing" <=> k.attempt > ended[k.step]

\* What the worker is at is what the run is at.
AtWork ==
    /\ open => status = "running"
    /\ worker.pc = "idle" => worker.took = 0
    /\ worker.pc = "settling" =>
         /\ status = "running" /\ ~open /\ worker.took = 0
         /\ worker.command = [step |-> at, attempt |-> ended[at]]
         /\ worker.command \in Attempts /\ recorded[worker.command] \in Results
    /\ worker.pc \in {"offering", "waiting"} /\ worker.took = 0 =>
         status = "running" /\ open /\ worker.command = Current
    /\ worker.pc = "backoff" =>
         /\ worker.took = 0
         /\ \/ worker.command = NoCall /\ status = "queued"
            \/ worker.command = Current /\ status = "running" /\ open

\* A hub that stopped between the two transactions of a settling leaves the run running
\* with nobody at it.
Stranded == torn > 0 /\ status = "running" /\ ~open /\ worker.pc # "settling"
Offered == worker.pc # "idle" /\ worker.took = 0
Without(q, v) == \A i \in DOMAIN q : q[i] # v
OnceIn(q, v) == \E i \in DOMAIN q : q[i] = v /\ \A j \in DOMAIN q : q[j] = v => j = i
Driven ==
    /\ IF status \in {"queued", "running"} /\ ~Stranded
         THEN (Offered /\ Without(queue, 0)) \/ (~Offered /\ OnceIn(queue, 0))
         ELSE Without(queue, 0) /\ ~Offered
    /\ status = "running" /\ ~Stranded => Offered /\ (open \/ worker.pc = "settling")

\* Where the report of the stop the run is at is owed.
Owing ==
    status = "needs_human" /\ installed =>
        IF reported THEN Without(queue, stops) /\ worker.took # stops /\ stops \notin later
        ELSE \/ worker.took # stops /\ stops \notin later /\ OnceIn(queue, stops)
             \/ Without(queue, stops) /\ (worker.took = stops <=> stops \notin later)

\* The call the worker listens for is the last one on its way, and what it was answered is
\* what became of the attempt.
OnTheLine ==
    /\ conn = "none" <=> worker.pc # "waiting"
    /\ conn = "sent" => pending # <<>> /\ pending[Len(pending)] = Asked
    /\ conn \in {"taken", "answered"} => pending = <<>>
    /\ worker.took = 0 /\ conn = "taken" => task[worker.command] # "none"
    /\ worker.took = 0 /\ conn = "answered" =>
         /\ \A k \in Attempts : task[k] = "none"
         /\ IF execution[worker.command] \in Results THEN answer = execution[worker.command]
                                                     ELSE answer \notin Results

\* Of an attempt that is not the current one nothing is under way, and nothing ever was of one
\* that is not recorded.
Fresh(k) == execution[k] = "never" /\ began[k] = 0 /\ held.call # k
Elsewhere ==
    \A k \in Attempts : ~IsCurrent(k) =>
        /\ task[k] = "none" /\ Without(pending, k)
        /\ recorded[k] = "nothing" => Fresh(k)

\* The instance takes every report call before the first call of the current attempt.
ReportsFirst ==
    /\ \A i, j \in DOMAIN pending : i < j /\ pending[j] = ReportCall => pending[i] = ReportCall
    /\ Active /\ (worker.took # 0 \/ ~Without(pending, ReportCall)) =>
         Fresh(Current) /\ task[Current] = "none"
    /\ Active /\ worker.took # 0 => Without(pending, Current)

\* Each task is the latest call's, and a result is there only once its task is over.
Tasks ==
    \A k \in Attempts :
        /\ task[k] # "none" <=> latest = k
        /\ task[k] = "working" <=> execution[k] = "running"
        /\ task[k] # "none" => execution[k] \notin Results
        /\ held.call = k /\ held.result # "none" => execution[k] = held.result

Removed == ~installed => pending = <<>> /\ \A k \in Attempts : task[k] = "none"

\* Each beginning of the current attempt but the first has a loss or a restart of its own: so
\* have the calls on their way that the worker no longer listens for.
Troubles == losses + hubRestarts + instanceRestarts
GivenUp == Len(pending) - (IF conn = "sent" THEN 1 ELSE 0)
MayAsk == ~(worker.took = 0 /\ (conn = "taken" \/ (conn = "answered" /\ answer # "draining")))
Beginnings ==
    /\ GivenUp <= Troubles
    /\ \A k \in Attempts : began[k] <= Troubles + 1
    /\ Active /\ installed =>
         began[Current] + GivenUp + (IF task[Current] = "waiting" THEN 1 ELSE 0)
             + (IF MayAsk THEN 1 ELSE 0) <= Troubles + 1

IInv ==
    /\ Types /\ Budget /\ Record /\ AtWork /\ Driven /\ Owing /\ OnTheLine /\ Elsewhere
    /\ ReportsFirst /\ Tasks /\ Removed /\ HeldForTheHub /\ Beginnings

-----------------------------------------------------------------------------
(* Numbers, attempts and sequences.                                        *)

LEMMA Bounds ==
    /\ LastStep \in Nat \ {0} /\ Retries \in Nat /\ MaxUserRetries \in Nat /\ MaxHubRestarts \in Nat
    /\ MaxTornRestarts \in Nat /\ MaxInstanceRestarts \in Nat /\ MaxLosses \in Nat
  BY StepCallsBounds

LEMMA Calls ==
    /\ NoCall \notin Attempts /\ NoCall # ReportCall /\ ReportCall \notin Attempts
    /\ \A k \in Attempts : k.step \in Steps /\ k.attempt \in Nat /\ k = [step |-> k.step, attempt |-> k.attempt]
  BY NoCallIsNone, Bounds DEF Attempts, ReportCall, Steps, Numbers

\* What the user's retries give each step, and what they give it in all.
LEMMA Allowance ==
  ASSUME NEW u \in Nat
  PROVE  /\ (Retries + 1) * u \in Nat
         /\ (Retries + 1) * (u + 1) = (Retries + 1) * u + Retries + 1
         /\ u <= MaxUserRetries => (Retries + 1) * u + Retries + 1 <= (Retries + 1) * (MaxUserRetries + 1)
         /\ \A v \in Nat : u <= v => (Retries + 1) * u <= (Retries + 1) * v
  <1> USE Bounds
  <1>1. (Retries + 1) * (u + 1) = (Retries + 1) * u + Retries + 1
    OBVIOUS
  <1>2. ASSUME u <= MaxUserRetries PROVE (Retries + 1) * (u + 1) <= (Retries + 1) * (MaxUserRetries + 1)
    BY <1>2
  <1>3. ASSUME NEW v \in Nat, u <= v PROVE (Retries + 1) * u <= (Retries + 1) * v
    BY <1>3
  <1>4. QED
    BY <1>1, <1>2, <1>3

LEMMA Wider == ASSUME NEW n \in Nat PROVE 0..n \subseteq 0..(n + 1) /\ 1..n \subseteq 1..(n + 1)
  OBVIOUS

LEMMA Within ==
  ASSUME NEW n \in Nat, NEW f \in Nat, NEW r \in Nat, NEW more \in Nat, f <= r, n <= more + f
  PROVE  n + r - f + 1 \in Nat /\ n + r - f + 1 > n /\ n + r - f + 1 <= more + r + 1
  OBVIOUS

LEMMA NumbersAre == Numbers = 1..((Retries + 1) * (MaxUserRetries + 1))
  BY DEF Numbers

\* Every attempt the run can come to at its step has a number.
LEMMA InReach ==
  ASSUME Types, NEW s \in Steps, NEW n \in Nat, n > 0, n <= (Retries + 1) * userRetries + Retries + 1
  PROVE  [step |-> s, attempt |-> n] \in Attempts
  <1>1. userRetries \in Nat /\ userRetries <= MaxUserRetries
    BY Bounds DEF Types
  <1>2. n \in Numbers
    BY <1>1, Allowance, NumbersAre, Bounds
  <1>3. QED
    BY <1>2 DEF Attempts

LEMMA CurrentIsAttempt ==
  ASSUME Types, Budget, Active
  PROVE  Current \in Attempts /\ Current.step = at /\ Current.attempt = ended[at] + 1
  <1>1. ended[at] \in Nat /\ at \in Steps /\ userRetries \in Nat
    BY Bounds DEF Types
  <1>2. ended[at] + 1 <= (Retries + 1) * userRetries + Retries + 1
    BY <1>1, Allowance, Bounds DEF Budget, Active, Types
  <1>3. QED
    BY <1>1, <1>2, InReach DEF Current, NextAttempt

LEMMA AppendKeeps ==
  ASSUME NEW S, NEW q \in Seq(S), NEW x \in S, NEW v
  PROVE  /\ Append(q, x) \in Seq(S)
         /\ x # v /\ Without(q, v) => Without(Append(q, x), v)
         /\ x # v /\ OnceIn(q, v) => OnceIn(Append(q, x), v)
         /\ x = v /\ Without(q, v) => OnceIn(Append(q, x), v)
  BY SMTT(20) DEF Without, OnceIn

LEMMA TailKeeps ==
  ASSUME NEW S, NEW q \in Seq(S), q # <<>>, NEW v
  PROVE  /\ Tail(q) \in Seq(S) /\ Head(q) \in S
         /\ Without(q, v) => Without(Tail(q), v) /\ Head(q) # v
         /\ OnceIn(q, v) /\ Head(q) # v => OnceIn(Tail(q), v)
         /\ OnceIn(q, v) /\ Head(q) = v => Without(Tail(q), v)
  <1>1. /\ Len(q) \in Nat /\ Len(q) > 0 /\ Tail(q) \in Seq(S) /\ Head(q) = q[1] /\ DOMAIN q = 1..Len(q)
        /\ DOMAIN Tail(q) = 1..(Len(q) - 1) /\ \A i \in 1..(Len(q) - 1) : Tail(q)[i] = q[i + 1]
    OBVIOUS
  <1>2. Head(q) \in S
    OBVIOUS
  <1>3. Without(q, v) => Without(Tail(q), v) /\ Head(q) # v
    BY <1>1 DEF Without
  <1>4. ASSUME OnceIn(q, v), Head(q) # v PROVE OnceIn(Tail(q), v)
    <2>1. PICK i \in 1..Len(q) : q[i] = v /\ \A j \in 1..Len(q) : q[j] = v => j = i
      BY <1>1, <1>4 DEF OnceIn
    <2>2. i - 1 \in 1..(Len(q) - 1) /\ Tail(q)[i - 1] = v
      BY <1>1, <1>4, <2>1
    <2>3. \A j \in 1..(Len(q) - 1) : Tail(q)[j] = v => j = i - 1
      BY <1>1, <2>1
    <2>4. QED
      BY <1>1, <2>2, <2>3 DEF OnceIn
  <1>5. OnceIn(q, v) /\ Head(q) = v => Without(Tail(q), v)
    BY <1>1 DEF OnceIn, Without
  <1>6. QED
    BY <1>1, <1>2, <1>3, <1>4, <1>5

LEMMA Empty == \A v : Without(<<>>, v)
  <1>1. DOMAIN <<>> = {}
    OBVIOUS
  <1>2. QED
    BY <1>1 DEF Without

LEMMA Single == \A v, x : OnceIn(<<v>>, v) /\ (x # v => Without(<<x>>, v))
  <1> SUFFICES ASSUME NEW v, NEW x PROVE OnceIn(<<v>>, v) /\ (x # v => Without(<<x>>, v))
    OBVIOUS
  <1>1. DOMAIN <<v>> = {1} /\ DOMAIN <<x>> = {1} /\ <<v>>[1] = v /\ <<x>>[1] = x
    OBVIOUS
  <1>2. QED
    BY <1>1 DEF Without, OnceIn

LEMMA SingleIn == ASSUME NEW S, NEW v \in S PROVE <<v>> \in Seq(S)
  OBVIOUS

LEMMA Shortened ==
  ASSUME NEW S, NEW q \in Seq(S), Len(q) > 0
  PROVE  LET p == SubSeq(q, 1, Len(q) - 1) IN
         p \in Seq(S) /\ Len(p) = Len(q) - 1 /\ \A i \in 1..(Len(q) - 1) : p[i] = q[i]
  <1> DEFINE n == Len(q) - 1
             p == SubSeq(q, 1, n)
  <1>1. n \in Nat /\ n \in 1-1..Len(q) /\ n - 1 + 1 = n
    OBVIOUS
  <1>2. p \in Seq(S) /\ Len(p) = n /\ \A i \in 1..n : p[i] = q[i]
    <2> HIDE DEF n
    <2>1. p = [i \in 1..n |-> q[i]]
      BY <1>1
    <2>2. \A i \in 1..n : q[i] \in S
      BY <1>1
    <2>3. QED
      BY <1>1, <2>1, <2>2
  <1>3. QED
    BY <1>2

LEMMA NotBoth == ASSUME NEW q, NEW v PROVE ~(Without(q, v) /\ OnceIn(q, v))
  BY DEF Without, OnceIn

-----------------------------------------------------------------------------
(* The steps.                                                              *)

LEMMA StartsInStep == Init => IInv
  <1> SUFFICES ASSUME Init PROVE IInv
    OBVIOUS
  <1> USE DEF Init
  <1>1. Types
    <2>1. worker \in [pc : {"idle", "offering", "waiting", "settling", "backoff"},
                     took : 0..stops, command : Attempts \cup {NoCall}]
      BY DEF Idle
    <2>2. held \in [call : Attempts \cup {NoCall}, result : Results \cup {"none"}]
      BY DEF Nothing
    <2>3. queue \in Seq(0..stops) /\ later \in SUBSET (1..stops) /\ pending \in Seq(Attempts \cup {ReportCall})
      OBVIOUS
    <2>4. /\ recorded \in [Attempts -> {"nothing", "clean", "failed", "refused"}]
          /\ task \in [Attempts -> {"none", "waiting", "working"}] /\ began \in [Attempts -> Nat]
          /\ execution \in [Attempts -> Results \cup {"never", "running", "raised", "killed"}]
      OBVIOUS
    <2>5. at \in Steps /\ ended \in [Steps -> Nat] /\ spent \in [Steps -> 0..Retries + 1]
      BY Bounds DEF Steps
    <2>6. /\ userRetries \in 0..MaxUserRetries /\ hubRestarts \in 0..MaxHubRestarts
          /\ torn \in 0..MaxTornRestarts /\ instanceRestarts \in 0..MaxInstanceRestarts
          /\ losses \in 0..MaxLosses
      BY Bounds
    <2>7. QED
      BY <2>1, <2>2, <2>3, <2>4, <2>5, <2>6 DEF Types
  <1>2. Budget
    BY Bounds DEF Budget, Active, Steps
  <1>3. Record
    BY Calls, Bounds DEF Record, Attempts, Numbers
  <1>4. AtWork /\ Owing /\ OnTheLine /\ Tasks /\ Removed /\ HeldForTheHub
    BY Calls DEF AtWork, Owing, OnTheLine, Tasks, Removed, HeldForTheHub, Idle, Nothing, Results
  <1>5. Driven
    BY Single DEF Driven, Offered, Idle, Stranded
  <1>6. Elsewhere /\ ReportsFirst
    BY Calls, Empty DEF Elsewhere, ReportsFirst, Fresh, Nothing, Idle
  <1>7. Beginnings
    <2>1. Current \in Attempts
      BY <1>1, <1>2, CurrentIsAttempt DEF Active
    <2>2. GivenUp = 0 /\ Troubles = 0 /\ MayAsk
      BY DEF GivenUp, Troubles, MayAsk
    <2>3. QED
      BY <2>1, <2>2 DEF Beginnings
  <1>8. QED
    BY <1>1, <1>2, <1>3, <1>4, <1>5, <1>6, <1>7 DEF IInv

\* What the instance has of the run does not change with what the hub queues and offers.
OfInstance ==
    OnTheLine /\ Elsewhere /\ ReportsFirst /\ Tasks /\ Removed /\ HeldForTheHub /\ Beginnings

LEMMA InstanceUntouched ==
  ASSUME IInv, UNCHANGED <<at, ended, recorded, answer, pending, instance, losses, instanceRestarts>>,
         Active' <=> Active, hubRestarts' = hubRestarts \/ hubRestarts' = hubRestarts + 1,
         \/ UNCHANGED <<worker, conn, hubRestarts>>
         \/ /\ worker'.pc # "waiting" /\ conn' = "none" /\ (Active => worker'.took = 0)
            /\ hubRestarts' = hubRestarts => conn # "sent" /\ MayAsk
  PROVE  OfInstance'
  <1> USE DEF IInv, instance
  <1>1. Current' = Current /\ \A k \in Attempts : IsCurrent(k)' <=> IsCurrent(k)
    BY DEF Current, NextAttempt, IsCurrent
  <1>2. OnTheLine'
    BY DEF OnTheLine, Asked
  <1>3. Elsewhere' /\ Tasks' /\ Removed' /\ HeldForTheHub'
    BY <1>1 DEF Elsewhere, Fresh, Tasks, Removed, HeldForTheHub, Without
  <1>4. ReportsFirst'
    BY <1>1 DEF ReportsFirst, Fresh, Without
  <1>5. Beginnings'
    <2>1. /\ Troubles \in Nat /\ Troubles' = Troubles + (hubRestarts' - hubRestarts)
          /\ hubRestarts \in Nat /\ Len(pending) \in Nat
      BY Bounds, SMTT(40) DEF Types, Troubles
    <2>2. \A k \in Attempts : began[k] \in Nat
      BY DEF Types
    <2>3. (Active => Current \in Attempts) /\ (installed' = installed) /\ began' = began /\ task' = task
      BY CurrentIsAttempt
    <2>4. CASE UNCHANGED <<worker, conn, hubRestarts>>
      <3>1. GivenUp' = GivenUp /\ MayAsk' = MayAsk /\ Troubles' = Troubles
        BY <2>1, <2>4 DEF GivenUp, MayAsk
      <3>2. QED
        BY <1>1, <2>3, <3>1 DEF Beginnings
    <2>5. CASE conn' = "none" /\ (hubRestarts' = hubRestarts => conn # "sent" /\ MayAsk)
      <3>1. GivenUp \in Int /\ GivenUp' = Len(pending)
        BY <2>1, <2>5 DEF GivenUp
      <3>2. GivenUp' <= GivenUp + (hubRestarts' - hubRestarts)
        BY <2>1, <2>5, <3>1, SMTT(20) DEF GivenUp, Types
      <3>3. MayAsk' /\ (hubRestarts' = hubRestarts => MayAsk)
        BY <2>5 DEF MayAsk
      <3>4. GivenUp' <= Troubles'
        BY <2>1, <3>1, <3>2 DEF Beginnings
      <3>5. \A k \in Attempts : began'[k] <= Troubles' + 1
        BY <2>1, <2>2, <2>3, SMTT(20) DEF Beginnings, Types
      <3>6. ASSUME Active', installed'
            PROVE  began'[Current'] + GivenUp' + (IF task'[Current'] = "waiting" THEN 1 ELSE 0)
                     + (IF MayAsk' THEN 1 ELSE 0) <= Troubles' + 1
        <4>1. began[Current] \in Nat /\ Current' = Current
          BY <1>1, <2>2, <2>3, <3>6
        <4>2. began[Current] + GivenUp + (IF task[Current] = "waiting" THEN 1 ELSE 0)
                + (IF MayAsk THEN 1 ELSE 0) <= Troubles + 1
          BY <3>6, <2>3 DEF Beginnings
        <4>3. CASE hubRestarts' = hubRestarts
          <5>1. GivenUp' = GivenUp /\ MayAsk /\ Troubles' = Troubles
            BY <2>1, <2>5, <4>3, <3>3 DEF GivenUp
          <5>2. QED
            BY <4>1, <4>2, <5>1, <3>3, <2>3
        <4>4. CASE hubRestarts' = hubRestarts + 1
          <5>1. Len(pending) <= GivenUp + 1
            BY <2>1 DEF GivenUp
          <5>2. CASE conn = "sent"
            <6>1. MayAsk
              BY <5>2 DEF MayAsk
            <6>2. QED
              BY <4>1, <4>2, <4>4, <5>1, <6>1, <3>1, <3>3, <2>1, <2>3
          <5>3. CASE conn # "sent"
            <6>1. GivenUp = Len(pending)
              BY <2>1, <5>3 DEF GivenUp
            <6>2. QED
              BY <4>1, <4>2, <4>4, <6>1, <3>1, <3>3, <2>1, <2>3
          <5>4. QED
            BY <5>2, <5>3
        <4>5. QED
          BY <4>3, <4>4
      <3>7. QED
        BY <3>4, <3>5, <3>6 DEF Beginnings
    <2>6. QED
      BY <2>4, <2>5
  <1>6. QED
    BY <1>2, <1>3, <1>4, <1>5 DEF OfInstance

\* An attempt the run comes to is one that the instance never heard of.
LEMMA InstanceRenewed ==
  ASSUME IInv, UNCHANGED <<answer, pending, instance, losses, instanceRestarts>>,
         hubRestarts' = hubRestarts \/ hubRestarts' = hubRestarts + 1,
         \/ UNCHANGED <<worker, conn>>
         \/ /\ worker'.pc # "waiting" /\ conn' = "none"
            /\ hubRestarts' = hubRestarts => conn # "sent",
         \A k \in Attempts : /\ task[k] = "none" /\ Without(pending, k)
                             /\ recorded'[k] = "nothing" => Fresh(k),
         Active' => Current' \in Attempts /\ recorded'[Current'] = "nothing"
  PROVE  OfInstance'
  <1> USE DEF IInv, instance
  <1>1. OnTheLine' /\ Tasks' /\ Removed'
    BY DEF OnTheLine, Asked, Tasks, Removed
  <1>2. Elsewhere' /\ HeldForTheHub'
    BY DEF Elsewhere, Fresh, HeldForTheHub, Without, Results
  <1>3. ReportsFirst'
    BY DEF ReportsFirst, Fresh, Without
  <1>4. /\ Troubles \in Nat /\ Troubles' = Troubles + (hubRestarts' - hubRestarts)
        /\ hubRestarts \in Nat /\ Len(pending) \in Nat
    BY Bounds, SMTT(40) DEF Types, Troubles
  <1>5. GivenUp \in Int /\ GivenUp' \in Int /\ GivenUp' <= GivenUp + (hubRestarts' - hubRestarts)
    BY <1>4 DEF GivenUp, Types
  <1>6. GivenUp' <= Troubles'
    BY <1>4, <1>5 DEF Beginnings
  <1>7. \A k \in Attempts : began[k] \in Nat /\ began[k] <= Troubles' + 1
    BY <1>4 DEF Beginnings, Types
  <1>8. Active' => began'[Current'] = 0 /\ task'[Current'] = "none"
    BY DEF Fresh
  <1>9. Beginnings'
    BY <1>4, <1>5, <1>6, <1>7, <1>8 DEF Beginnings
  <1>10. QED
    BY <1>1, <1>2, <1>3, <1>9 DEF OfInstance

\* Of the worker's own variables, what a step must leave in order at the hub.
OfHub == Types /\ Budget /\ Record /\ AtWork /\ Driven /\ Owing

LEMMA InParts == (OfHub /\ OfInstance <=> IInv) /\ (OfHub' /\ OfInstance' => IInv')
  BY DEF OfHub, OfInstance, IInv

LEMMA TakeStepKeeps ==
  ASSUME IInv, TakeStep PROVE IInv'
  <1> USE DEF IInv, TakeStep, Offer
  <1>1. queue \in Seq(0..stops) /\ queue # <<>> /\ ~Without(queue, 0) /\ ~Offered
    BY TailKeeps, SMTT(40) DEF Types, Offered
  <1>2. OnceIn(queue, 0) /\ status = "queued" /\ Active /\ Active'
    BY <1>1 DEF Driven, Active
  <1>3. Current \in Attempts
    BY <1>2, CurrentIsAttempt
  <1>4. Tail(queue) \in Seq(0..stops) /\ Without(Tail(queue), 0)
    BY <1>1, <1>2, TailKeeps
  <1>5. Types'
    BY <1>3, <1>4, SMTT(40) DEF Types, line, instance, counters, Current
  <1>6. Budget' /\ Record'
    BY <1>2 DEF Budget, Record, Active, counters
  <1>7. AtWork'
    BY <1>2 DEF AtWork, Current, NextAttempt
  <1>8. Driven'
    BY <1>4 DEF Driven, Offered, Stranded
  <1>9. Owing'
    BY DEF Owing
  <1>10. conn' = "none" /\ conn = "none" /\ MayAsk
    BY DEF OnTheLine, MayAsk, line
  <1>11. OfInstance'
    BY <1>2, <1>10, InstanceUntouched DEF line, counters
  <1>12. QED
    BY <1>5, <1>6, <1>7, <1>8, <1>9, <1>11, InParts DEF OfHub

\* A call that was not delivered: its attempt is as if it had never been opened, and a report
\* waits to be sent again.
LEMMA UndeliveredKeeps ==
  ASSUME IInv, Undelivered, worker.pc \in {"offering", "waiting"},
         conn' \in {"none", conn}, UNCHANGED <<answer, pending, instance, counters>>
  PROVE  /\ OfHub' /\ (Active' <=> Active) /\ UNCHANGED <<at, ended, recorded>>
         /\ worker'.pc # "waiting" /\ (Active => worker'.took = 0)
  <1> USE DEF IInv, instance, counters
  <1>1. CASE worker.took = 0
    <2>1. /\ status = "running" /\ open /\ status' = "queued" /\ open' = FALSE /\ worker.command = Current
          /\ worker' = [worker EXCEPT !.pc = "backoff", !.command = NoCall]
          /\ UNCHANGED <<at, ended, recorded, spent, stops, reported, queue, later>>
      BY <1>1, Calls DEF Undelivered, DropAttempt, Backoff, AtWork
    <2>2. worker'.pc = "backoff" /\ worker'.took = 0 /\ worker'.command = NoCall
      BY <1>1, <2>1 DEF Types
    <2>8. worker' \in [pc : {"idle", "offering", "waiting", "settling", "backoff"},
                      took : 0..stops', command : Attempts \cup {NoCall}]
      BY <2>1 DEF Types
    <2>9. conn' \in {"none", "sent", "taken", "answered", "lost"}
      BY DEF Types
    <2>3. Types'
      BY <2>1, <2>8, <2>9 DEF Types
    <2>4. Budget' /\ Record' /\ AtWork'
      BY <2>1, <2>2 DEF Budget, Active, Record, AtWork
    <2>5. Without(queue, 0) /\ Offered'
      BY <1>1, <2>1, <2>2 DEF Driven, Offered, Stranded
    <2>6. Driven' /\ Owing'
      BY <1>1, <2>1, <2>2, <2>5 DEF Driven, Stranded, Owing
    <2>7. QED
      BY <2>1, <2>2, <2>3, <2>4, <2>6 DEF OfHub, Active
  <1>2. CASE worker.took # 0
    <2>1. worker' = Idle /\ later' = later \cup {worker.took} /\ UNCHANGED <<registry, queue>>
      BY <1>2 DEF Undelivered, ReportLater
    <2>7. worker.took \in 1..stops
      BY <1>2 DEF Types
    <2>8. worker' \in [pc : {"idle", "offering", "waiting", "settling", "backoff"},
                       took : 0..stops, command : Attempts \cup {NoCall}]
      BY <2>1, <2>7, Bounds, SMTT(40) DEF Types, Idle
    <2>11. later' \in SUBSET (1..stops)
      BY <2>1, <2>7 DEF Types
    <2>9. conn' \in {"none", "sent", "taken", "answered", "lost"}
      BY DEF Types
    <2>2. Types'
      BY <2>1, <2>8, <2>9, <2>11, SMTT(40) DEF Types, registry
    <2>3. Budget' /\ Record' /\ AtWork'
      BY <1>2, <2>1 DEF Budget, Active, Record, AtWork, registry, Idle
    <2>4. ~Offered /\ ~Offered' /\ worker.pc # "settling"
      BY <1>2, <2>1 DEF Offered, Idle
    <2>5. Driven'
      BY <2>1, <2>4 DEF Driven, Stranded, registry, Idle
    <2>6. Owing'
      BY <1>2, <2>1, NotBoth DEF Owing, registry, Idle, Budget, Types
    <2>10. QED
      BY <2>1, <2>2, <2>3, <2>5, <2>6 DEF OfHub, Active, registry, Idle
  <1>3. QED
    BY <1>1, <1>2

LEMMA UnreachedKeeps ==
  ASSUME IInv, Unreached PROVE IInv'
  <1>1. conn = "none" /\ MayAsk
    BY DEF Unreached, IInv, OnTheLine, MayAsk
  <1>2. QED
    BY <1>1, UndeliveredKeeps, InstanceUntouched, InParts DEF Unreached, line, counters

LEMMA RefusedKeeps ==
  ASSUME IInv, Refused PROVE IInv'
  <1>1. MayAsk
    BY DEF Refused, MayAsk
  <1>2. QED
    BY <1>1, UndeliveredKeeps, InstanceUntouched, InParts DEF Refused, counters

LEMMA LostKeeps ==
  ASSUME IInv, Lost PROVE IInv'
  <1> USE DEF IInv, Lost
  <1>1. MayAsk
    BY DEF MayAsk
  <1>2. CASE worker.took = 0
    <2>1. /\ worker' = [worker EXCEPT !.pc = "backoff", !.command = worker.command]
          /\ UNCHANGED <<registry, queue, later>> /\ status = "running" /\ open
      BY <1>2 DEF Backoff, AtWork
    <2>2. worker'.pc = "backoff" /\ worker'.took = 0 /\ worker'.command = worker.command
      BY <1>2, <2>1 DEF Types
    <2>3. Types'
      <3>1. RegistryTyped'
        BY <2>1 DEF Types, RegistryTyped, registry
      <3>2. MemoryTyped'
        BY <2>1 DEF Types, MemoryTyped, registry
      <3>3. QED
        BY <3>1, <3>2, TypedApart DEF Types, counters
    <2>4. Budget' /\ Record' /\ AtWork'
      BY <2>1, <2>2 DEF Budget, Active, Record, AtWork, registry, counters, Current, NextAttempt
    <2>5. Driven' /\ Owing'
      BY <1>2, <2>1, <2>2 DEF Driven, Offered, Stranded, Owing, registry, instance, counters
    <2>6. OfInstance'
      BY <1>1, <2>1, <2>2, InstanceUntouched DEF registry, Active, counters
    <2>7. QED
      BY <2>3, <2>4, <2>5, <2>6, InParts DEF OfHub
  <1>3. CASE worker.took # 0
    <2>1. Undelivered
      BY <1>3 DEF Undelivered
    <2>2. QED
      BY <1>1, <2>1, UndeliveredKeeps, InstanceUntouched, InParts DEF counters
  <1>4. QED
    BY <1>2, <1>3

\* A run may be queued at the step it is at or the next, with no report of its own on its way and
\* no more attempts ended there than the user's retries allow.
MayEnqueue(s, f, queued) ==
  /\ Enqueue(s, ended[s], f, queued) /\ Without(queued, 0)
  /\ s \in {at, at + 1} /\ (s = at + 1 => ended[at] <= (Retries + 1) * userRetries + Retries + 1)
  /\ ended[s] <= (Retries + 1) * userRetries' + f
  /\ userRetries' \in 0..MaxUserRetries /\ userRetries' >= userRetries /\ stops = userRetries'
  /\ worker' = Idle \/ (worker' = worker /\ ~Offered)
  /\ later' \in SUBSET (1..stops) /\ conn' \in {"none", conn}
  /\ UNCHANGED <<answer, pending, instance, losses, instanceRestarts>>
  /\ hubRestarts' \in 0..MaxHubRestarts /\ torn' \in 0..MaxTornRestarts

\* A run queued at a step goes on from what ended there; with no instance to ask it stops.
LEMMA EnqueueKeeps ==
  ASSUME IInv, NEW s \in Steps, NEW f \in 0..Retries, NEW queued \in Seq(0..stops), MayEnqueue(s, f, queued)
  PROVE  /\ OfHub' /\ at' = s /\ (Active' <=> installed) /\ open' = FALSE
         /\ installed => ended' = ended /\ recorded' = recorded
         /\ ~installed => /\ recorded'[[step |-> s, attempt |-> ended[s] + 1]] # "nothing"
                          /\ \A k \in Attempts : recorded'[k] = "nothing" => recorded[k] = "nothing"
  <1>11. /\ Types /\ Budget /\ Record /\ AtWork /\ Driven /\ Owing /\ OnTheLine /\ Elsewhere
         /\ ReportsFirst /\ Tasks /\ Removed /\ HeldForTheHub /\ Beginnings
    BY DEF IInv
  <1>12. /\ Enqueue(s, ended[s], f, queued) /\ Without(queued, 0) /\ s \in {at, at + 1}
         /\ userRetries' \in 0..MaxUserRetries /\ stops = userRetries'
         /\ worker' = Idle \/ (worker' = worker /\ ~Offered)
         /\ later' \in SUBSET (1..stops) /\ conn' \in {"none", conn}
         /\ UNCHANGED <<answer, pending, instance, losses, instanceRestarts>>
         /\ hubRestarts' \in 0..MaxHubRestarts /\ torn' \in 0..MaxTornRestarts
    BY DEF MayEnqueue
  <1> DEFINE most == (Retries + 1) * userRetries
             more == (Retries + 1) * userRetries'
  <1>1. /\ ended \in [Steps -> Nat] /\ spent \in [Steps -> 0..Retries + 1] /\ ended[s] \in Nat
        /\ stops \in Nat /\ at \in Steps
    BY <1>11 DEF Types
  <1>9. /\ f \in Nat /\ f <= Retries /\ at \in Nat /\ s \in Nat
        /\ userRetries \in Nat /\ userRetries' \in Nat /\ userRetries' >= userRetries
    BY <1>11, <1>12, Bounds, SMTT(40) DEF Types, Steps, MayEnqueue
  <1>2. most \in Nat /\ more \in Nat /\ most <= more
    BY <1>9, Allowance
  <1>10. /\ s = at + 1 => ended[at] <= most + Retries + 1
         /\ ended[s] <= more + f
         /\ \A u \in Steps : /\ u > at => ended[u] = 0 /\ spent[u] = 0
                             /\ u < at => ended[u] <= most + Retries + 1
    BY <1>11 DEF Budget, MayEnqueue
  <1> HIDE DEF most, more
  <1>3. worker' \in [pc : {"idle", "offering", "waiting", "settling", "backoff"},
                    took : 0..stops, command : Attempts \cup {NoCall}]
    BY <1>1, <1>11, <1>12, Bounds, SMTT(40) DEF Types, Idle
  <1>4. ~Offered'
    BY <1>12 DEF Offered, Idle
  <1>5. installed' = installed
    BY <1>12 DEF instance
  <1>6. CASE installed
    <2>1. /\ status' = "queued" /\ at' = s /\ open' = FALSE /\ queue' = Append(queued, 0)
          /\ ended' = [ended EXCEPT ![s] = ended[s]] /\ spent' = [spent EXCEPT ![s] = f]
          /\ UNCHANGED <<recorded, stops, reported>>
      BY <1>6, <1>12 DEF Enqueue
    <2>2. /\ ended' = ended /\ \A t \in Steps : spent'[t] = (IF t = s THEN f ELSE spent[t])
          /\ spent' \in [Steps -> 0..Retries + 1]
      BY <1>1, <2>1, Bounds
    <2>3. queue' \in Seq(0..stops) /\ OnceIn(queue', 0)
      <3>1. 0 \in 0..stops
        BY <1>1
      <3>2. QED
        BY <2>1, <3>1, <1>12, AppendKeeps
    <2>4. Types'
      <3>1. conn' \in {"none", "sent", "taken", "answered", "lost"}
        BY <1>11, <1>12 DEF Types
      <3>2. QED
        <4>1. RegistryTyped'
          BY <1>11, <2>1, <2>2 DEF Types, RegistryTyped
        <4>2. MemoryTyped'
          BY <1>3, <1>12, <2>1, <2>3 DEF MemoryTyped
        <4>3. QED
          BY <1>11, <1>12, <3>1, <4>1, <4>2, TypedApart
    <2>5. Budget'
      <3>1. stops' = userRetries' /\ spent'[at'] = f /\ Active' /\ ended'[at'] <= more + f
        BY <1>10, <1>12, <2>1, <2>2 DEF Active
      <3>2. \A u \in Steps : u > at' => ended'[u] = 0 /\ spent'[u] = 0
        BY <1>1, <1>9, <1>10, <1>12, <2>1, <2>2 DEF Steps
      <3>3. \A u \in Steps : u < at' => ended'[u] <= more + Retries + 1
        <4> SUFFICES ASSUME NEW u \in Steps, u < at' PROVE ended'[u] <= more + Retries + 1
          OBVIOUS
        <4>1. u \in Nat /\ ended[u] \in Nat
          BY <1>1 DEF Steps
        <4>2. u < at \/ (u = at /\ s = at + 1)
          BY <1>9, <1>12, <4>1, <2>1
        <4>3. QED
          BY <1>2, <1>9, <1>10, <4>1, <4>2, <2>2, Bounds, SMTT(40)
      <3>4. QED
        <4>1. stops' = userRetries' + (IF status' = "needs_human" THEN 1 ELSE 0)
          BY <1>9, <2>1, <3>1
        <4>2. ended'[at'] <= more + spent'[at'] + (IF Active' \/ status' = "needs_human" THEN 0 ELSE 1)
          BY <1>2, <1>9, <3>1
        <4>3. spent'[at'] <= Retries
          BY <1>9, <3>1
        <4>4. QED
          BY <3>2, <3>3, <4>1, <4>2, <4>3 DEF Budget, more
    <2>6. Record'
      BY <1>11, <2>1, <2>2 DEF Record
    <2>7. AtWork' /\ Driven' /\ Owing'
      BY <1>4, <1>11, <1>12, <2>1, <2>3 DEF AtWork, Driven, Stranded, Owing, Idle, Offered
    <2>8. QED
      BY <1>6, <2>1, <2>2, <2>4, <2>5, <2>6, <2>7 DEF OfHub, Active
  <1>7. CASE ~installed
    <2> DEFINE last == ended[s] + Retries - f + 1
    <2>1. /\ status' = "needs_human" /\ at' = s /\ open' = FALSE /\ queue' = queued
          /\ stops' = stops + 1 /\ reported' = FALSE
          /\ ended' = [ended EXCEPT ![s] = last] /\ spent' = [spent EXCEPT ![s] = Retries + 1]
          /\ recorded' = [k \in Attempts |-> IF k.step = s /\ k.attempt \in (ended[s] + 1)..last
                                               THEN "refused" ELSE recorded[k]]
      BY <1>7, <1>12 DEF Enqueue, RefuseAtOnce, StopForHuman
    <2>2. last \in Nat /\ last > ended[s] /\ last <= more + Retries + 1
      <3>1. ended[s] <= more + f
        BY <1>10
      <3>2. ended[s] \in Nat
        BY <1>1
      <3>3. QED
        BY <1>2, <1>9, <3>1, <3>2, Bounds, Within
    <2>3. /\ \A u \in Steps : ended'[u] = (IF u = s THEN last ELSE ended[u])
          /\ \A u \in Steps : spent'[u] = (IF u = s THEN Retries + 1 ELSE spent[u])
          /\ ended' \in [Steps -> Nat] /\ spent' \in [Steps -> 0..Retries + 1]
      <3> HIDE DEF last
      <3>1. Retries + 1 \in 0..Retries + 1
        BY Bounds
      <3>2. QED
        BY <1>1, <2>1, <2>2, <3>1
    <2>4. queue' \in Seq(0..stops') /\ later' \in SUBSET (1..stops') /\ stops' \in Nat
      <3>0. stops \in Nat
        BY <1>1
      <3>7. stops' = stops + 1
        BY <2>1
      <3>1. 0..stops \subseteq 0..(stops + 1) /\ 1..stops \subseteq 1..(stops + 1)
        BY <3>0, Wider
      <3>2. queue' \in Seq(0..(stops + 1))
        BY <1>1, <2>1, <3>1
      <3>3. stops' \in Nat
        BY <3>0, <3>7
      <3>4. later' \in SUBSET (1..stops')
        BY <1>12, <2>1, <3>1
      <3>5. queue' \in Seq(0..stops')
        BY <2>1, <3>2
      <3>6. QED
        BY <3>3, <3>4, <3>5
    <2>5. worker' \in [pc : {"idle", "offering", "waiting", "settling", "backoff"},
                      took : 0..stops', command : Attempts \cup {NoCall}]
      BY <1>1, <1>3, <2>1
    <2>6. Types'
      <3>1. conn' \in {"none", "sent", "taken", "answered", "lost"}
        BY <1>11, <1>12 DEF Types
      <3>2. recorded' \in [Attempts -> {"nothing", "clean", "failed", "refused"}]
        BY <1>11, <2>1 DEF Types
      <3>3. QED
        <4>1. RegistryTyped'
          BY <2>1, <2>3, <2>4, <3>2 DEF RegistryTyped
        <4>2. MemoryTyped'
          BY <2>4, <2>5 DEF MemoryTyped
        <4>3. QED
          BY <1>11, <1>12, <3>1, <4>1, <4>2, TypedApart
    <2>7. Budget'
      <3>1. \A u \in Steps : u > at' => ended'[u] = 0 /\ spent'[u] = 0
        BY <1>1, <1>9, <1>10, <1>12, <2>1, <2>3 DEF Steps
      <3>2. \A u \in Steps : u < at' => ended'[u] <= more + Retries + 1
        <4> SUFFICES ASSUME NEW u \in Steps, u < at' PROVE ended'[u] <= more + Retries + 1
          OBVIOUS
        <4>1. u \in Nat /\ ended[u] \in Nat /\ u # s
          BY <1>1, <1>9, <2>1, SMTT(20) DEF Steps
        <4>2. u < at \/ (u = at /\ s = at + 1)
          BY <1>9, <1>12, <4>1, <2>1
        <4>3. QED
          BY <1>2, <1>9, <1>10, <2>1, <4>1, <4>2, <2>3, Bounds, SMTT(30)
      <3>3. ended'[at'] <= more + spent'[at'] /\ stops' = userRetries' + 1
        <4> HIDE DEF last
        <4>1. ended'[at'] = last /\ spent'[at'] = Retries + 1
          BY <2>1, <2>3
        <4>2. QED
          <5>1. Retries \in Nat /\ userRetries' \in Nat /\ more \in Nat
            BY <1>2, <1>9, Bounds
          <5>2. stops' = userRetries' + 1
            BY <1>12, <2>1
          <5>3. QED
            BY <2>2, <4>1, <5>1, <5>2
      <3>4. QED
        <4>1. stops' = userRetries' + (IF status' = "needs_human" THEN 1 ELSE 0)
          BY <1>9, <2>1, <3>3
        <4>2. ended'[at'] <= more + spent'[at'] + (IF Active' \/ status' = "needs_human" THEN 0 ELSE 1)
          <5>1. spent'[at'] \in Nat
            BY <2>1, <2>3, Bounds
          <5>2. QED
            BY <1>2, <2>1, <3>3, <5>1
        <4>3. QED
          BY <2>1, <3>1, <3>2, <4>1, <4>2 DEF Budget, more
    <2>8. Record'
      <3> SUFFICES ASSUME NEW k \in Attempts
                   PROVE  recorded'[k] = "nothing" <=> k.attempt > ended'[k.step]
        BY DEF Record
      <3>1. recorded[k] = "nothing" <=> k.attempt > ended[k.step]
        BY <1>11 DEF Record
      <3>2. k.step \in Steps /\ k.attempt \in Nat
        BY Calls
      <3>3. CASE k.step = s
        BY <1>1, <2>1, <2>2, <2>3, <3>1, <3>2, <3>3
      <3>4. CASE k.step # s
        BY <1>1, <2>1, <2>2, <2>3, <3>1, <3>2, <3>4
      <3>5. QED
        BY <3>3, <3>4
    <2>9. AtWork'
      BY <1>4, <1>11, <1>12, <2>1 DEF AtWork, Idle, Offered
    <2>10. Driven' /\ Owing'
      BY <1>4, <1>5, <1>7, <1>11, <1>12, <2>1 DEF Driven, Stranded, Owing
    <2>11. recorded'[[step |-> s, attempt |-> ended[s] + 1]] # "nothing"
      <3>1. [step |-> s, attempt |-> ended[s] + 1] \in Attempts
        <4>1. more + Retries + 1 <= (Retries + 1) * (MaxUserRetries + 1)
          <5>1. userRetries' <= MaxUserRetries
            BY <1>9, <1>12, Bounds
          <5>2. QED
            BY <1>9, <5>1, Allowance DEF more
        <4>2. ended[s] + 1 \in Numbers
          <5> DEFINE all == (Retries + 1) * (MaxUserRetries + 1)
          <5>1. all \in Int
            BY Bounds
          <5> HIDE DEF all
          <5>2. ended[s] + 1 <= more + Retries + 1 /\ ended[s] + 1 > 0
            <6>1. last \in Nat /\ last > ended[s] /\ last <= more + Retries + 1
              BY <2>2
            <6> HIDE DEF last
            <6>2. QED
              BY <1>1, <1>2, <6>1, Bounds, SMTT(40)
          <5>3. more + Retries + 1 <= all
            BY <4>1 DEF all
          <5>4. ended[s] + 1 \in 1..all
            BY <1>1, <1>2, <5>1, <5>2, <5>3, Bounds, SMTT(40)
          <5>5. QED
            BY <5>4, NumbersAre DEF all
        <4>3. QED
          BY <4>2 DEF Attempts
      <3>2. ended[s] + 1 \in (ended[s] + 1)..last
        BY <1>1, <2>2
      <3>3. QED
        BY <2>1, <3>1, <3>2
    <2>12. QED
      BY <1>7, <2>1, <2>6, <2>7, <2>8, <2>9, <2>10, <2>11 DEF OfHub, Active
  <1>8. QED
    BY <1>6, <1>7

\* What a removed instance leaves of the run that is being made: nothing.
LEMMA NothingLeft ==
  ASSUME IInv, ~Active \/ ~installed
  PROVE  \A k \in Attempts : /\ task[k] = "none" /\ Without(pending, k)
                             /\ recorded[k] = "nothing" /\ ~IsCurrent(k) => Fresh(k)
  BY Empty DEF IInv, Elsewhere, IsCurrent, Removed

LEMMA ResendKeeps ==
  ASSUME IInv, Resend PROVE IInv'
  <1> USE DEF IInv, Resend
  <1>1. /\ conn = "none" /\ MayAsk /\ Offered /\ Active /\ worker.took = 0 /\ Current \in Attempts
        /\ status \in {"queued", "running"} /\ ~Stranded /\ Without(queue, 0)
    <2>1. conn = "none" /\ MayAsk /\ Offered /\ worker.took = 0
      BY DEF OnTheLine, MayAsk, Offered, AtWork
    <2>2. Active /\ status \in {"queued", "running"} /\ ~Stranded
      BY DEF AtWork, Active, Stranded
    <2>3. QED
      BY <2>1, <2>2, CurrentIsAttempt DEF Driven
  <1>2. CASE installed
    <2>1. Offer(Current) /\ UNCHANGED queue
      BY <1>1, <1>2, Calls DEF AtWork, Current
    <2>2. Types'
      BY <1>1, <2>1 DEF Offer, Types, line, instance, counters
    <2>3. Budget' /\ Record' /\ AtWork'
      BY <1>1, <2>1 DEF Offer, Budget, Active, Record, AtWork, counters, Current, NextAttempt
    <2>4. Driven' /\ Owing' /\ (Active' <=> Active)
      BY <1>1, <2>1 DEF Offer, Driven, Offered, Stranded, Owing, Active
    <2>5. OfInstance'
      BY <1>1, <2>1, <2>4, InstanceUntouched DEF Offer, line, counters
    <2>6. QED
      BY <2>2, <2>3, <2>4, <2>5, InParts DEF OfHub
  <1>3. CASE ~installed
    <2>1. worker' = Idle /\ Enqueue(at, ended[at], spent[at], queue) /\ later' = later
      BY <1>3
    <2>2. /\ spent[at] \in 0..Retries /\ queue \in Seq(0..stops) /\ at \in Steps
          /\ ended[at] <= (Retries + 1) * userRetries + spent[at] /\ stops = userRetries
      <3>1. /\ spent[at] \in 0..Retries + 1 /\ queue \in Seq(0..stops) /\ at \in Steps /\ ended[at] \in Nat
            /\ userRetries \in Nat /\ (Retries + 1) * userRetries \in Nat
        BY Bounds, Allowance DEF Types
      <3>2. spent[at] <= Retries
        BY <1>1 DEF Budget
      <3>3. ended[at] <= (Retries + 1) * userRetries + spent[at] /\ stops = userRetries
        BY <1>1, <3>1, Bounds DEF Budget
      <3>4. QED
        BY <3>1, <3>2, <3>3, Bounds
    <2>3. userRetries' = userRetries /\ userRetries' \in 0..MaxUserRetries /\ later \in SUBSET (1..stops)
      BY DEF counters, Types
    <2>4. OfHub' /\ ~Active' /\ recorded'[Current] # "nothing"
          /\ \A k \in Attempts : recorded'[k] = "nothing" => recorded[k] = "nothing"
      <3>1. at # at + 1 /\ userRetries' >= userRetries
        BY <2>3, Bounds, SMTT(40) DEF Types, Steps
      <3>2. hubRestarts' \in 0..MaxHubRestarts /\ torn' \in 0..MaxTornRestarts /\ conn' \in {"none", conn}
            /\ UNCHANGED <<answer, pending, instance, losses, instanceRestarts>>
        BY DEF counters, line, Types
      <3>3. QED
        BY <1>1, <1>3, <2>1, <2>2, <2>3, <3>1, <3>2, EnqueueKeeps DEF MayEnqueue, Current, NextAttempt
    <2>5. \A k \in Attempts : /\ task[k] = "none" /\ Without(pending, k)
                              /\ recorded'[k] = "nothing" => Fresh(k)
      BY <1>3, <2>4, NothingLeft DEF IsCurrent
    <2>6. worker'.pc # "waiting" /\ conn' = "none"
      BY <1>1, <2>1 DEF Idle, line
    <2>7. OfInstance'
      BY <1>1, <2>4, <2>5, <2>6, InstanceRenewed DEF line, counters
    <2>8. QED
      BY <2>4, <2>7, InParts
  <1>4. QED
    BY <1>2, <1>3

LEMMA EndAttemptKeeps ==
  ASSUME IInv, EndAttempt PROVE IInv'
  <1> USE DEF IInv, EndAttempt
  <1>1. /\ status = "running" /\ open /\ worker.command = Current /\ Active /\ ~Stranded /\ Offered
        /\ Current \in Attempts /\ Current.step = at /\ Current.attempt = ended[at] + 1
    <2>1. status = "running" /\ open /\ worker.command = Current
      BY DEF AtWork
    <2>2. QED
      BY <2>1, CurrentIsAttempt DEF Active, Stranded, Offered
  <1>2. /\ worker'.pc = "settling" /\ worker'.took = 0 /\ worker'.command = Current
        /\ at \in Steps /\ ended \in [Steps -> Nat] /\ ended[at] \in Nat
        /\ \A s \in Steps : ended'[s] = (IF s = at THEN ended[at] + 1 ELSE ended[s])
        /\ \A k \in Attempts : recorded'[k] # "nothing" <=> recorded[k] # "nothing" \/ k = Current
        /\ recorded'[Current] \in Results
    <2>1. worker'.pc = "settling" /\ worker'.took = 0 /\ worker'.command = Current
      BY <1>1 DEF Types
    <2>2. at \in Steps /\ ended \in [Steps -> Nat] /\ ended[at] \in Nat
      BY DEF Types
    <2>3. \A s \in Steps : ended'[s] = (IF s = at THEN ended[at] + 1 ELSE ended[s])
      BY <2>2
    <2>4. recorded \in [Attempts -> {"nothing", "clean", "failed", "refused"}]
      BY DEF Types
    <2>5. \E r \in Results : recorded' = [recorded EXCEPT ![Current] = r]
      BY <1>1 DEF Results
    <2>6. QED
      BY <1>1, <2>1, <2>2, <2>3, <2>4, <2>5 DEF Results
  <1>3. Types'
    <2>1. /\ recorded' \in [Attempts -> {"nothing", "clean", "failed", "refused"}]
          /\ ended' \in [Steps -> Nat]
      BY <1>1, <1>2, SMTT(40) DEF Types, Results
    <2>2. worker' \in [pc : {"idle", "offering", "waiting", "settling", "backoff"},
                      took : 0..stops, command : Attempts \cup {NoCall}]
      BY DEF Types
    <2>3. QED
      <3>1. RegistryTyped'
        BY <1>1, <1>2, <2>1 DEF Types, RegistryTyped
      <3>2. MemoryTyped'
        BY <1>1, <1>2, <2>2 DEF Types, MemoryTyped
      <3>3. QED
        BY <1>1, <1>2, <3>1, <3>2, TypedApart DEF Types, counters
  <1>4. Budget'
    <2>1. userRetries \in Nat /\ (Retries + 1) * userRetries \in Nat /\ spent[at] \in Nat
      BY Bounds, Allowance DEF Types
    <2>2. ended[at] <= (Retries + 1) * userRetries + spent[at] /\ spent[at] <= Retries
      BY <1>1, <1>2, <2>1 DEF Budget
    <2>3. ended'[at] <= (Retries + 1) * userRetries + spent[at] + 1
      BY <1>2, <2>1, <2>2
    <2>4. \A s \in Steps : /\ s > at => ended'[s] = 0 /\ spent[s] = 0
                           /\ s < at => ended'[s] <= (Retries + 1) * userRetries + Retries + 1
      BY <1>2 DEF Budget, Steps
    <2>5. QED
      BY <1>1, <2>2, <2>3, <2>4 DEF Budget, counters, Active
  <1>5. Record'
    <2> SUFFICES ASSUME NEW k \in Attempts
                 PROVE  recorded'[k] = "nothing" <=> k.attempt > ended'[k.step]
      BY DEF Record
    <2>1. recorded[k] = "nothing" <=> k.attempt > ended[k.step]
      BY DEF Record
    <2>2. k.step \in Steps /\ k.attempt \in Nat /\ k = [step |-> k.step, attempt |-> k.attempt]
      BY Calls
    <2>3. k = Current <=> k.step = at /\ k.attempt = ended[at] + 1
      BY <1>1, <2>2 DEF Current, NextAttempt
    <2>4. QED
      BY <1>2, <2>1, <2>2, <2>3
  <1>6. AtWork'
    <2>1. Current = [step |-> at, attempt |-> ended'[at]]
      BY <1>2 DEF Current, NextAttempt
    <2>2. QED
      BY <1>1, <1>2, <2>1 DEF AtWork
  <1>7. Driven' /\ Owing'
    BY <1>1, <1>2 DEF Driven, Offered, Stranded, Owing, counters
  <1>8. pending = <<>> /\ ~Active' /\ \A k \in Attempts : task[k] = "none"
    BY <1>1 DEF OnTheLine, Active
  <1>9. \A k \in Attempts : /\ task[k] = "none" /\ Without(pending, k)
                            /\ recorded'[k] = "nothing" => Fresh(k)
    BY <1>2, <1>8, Empty DEF Elsewhere, IsCurrent
  <1>10. OfInstance'
    BY <1>2, <1>8, <1>9, InstanceRenewed DEF counters
  <1>11. QED
    BY <1>3, <1>4, <1>5, <1>6, <1>7, <1>10, InParts DEF OfHub

LEMMA SettleKeeps ==
  ASSUME IInv, Settle PROVE IInv'
  <1> USE DEF IInv, Settle
  <1>1. /\ status = "running" /\ ~open /\ worker.took = 0 /\ Offered /\ ~Active /\ ~Stranded
        /\ worker.command = [step |-> at, attempt |-> ended[at]] /\ worker.command \in Attempts
        /\ recorded[worker.command] \in Results /\ conn = "none" /\ worker' = Idle
    BY DEF AtWork, OnTheLine, Active, Stranded, Offered
  <1>2. Without(queue, 0) /\ queue \in Seq(0..stops) /\ at \in Steps /\ stops \in Nat
    BY <1>1 DEF Driven, Types
  <1>3. /\ ended \in [Steps -> Nat] /\ ended[at] \in Nat
        /\ spent \in [Steps -> 0..Retries + 1] /\ spent[at] \in Nat /\ spent[at] <= Retries
        /\ userRetries \in Nat /\ (Retries + 1) * userRetries \in Nat
        /\ ended[at] <= (Retries + 1) * userRetries + spent[at] + 1 /\ stops = userRetries
    <2>1. /\ ended \in [Steps -> Nat] /\ ended[at] \in Nat
          /\ spent \in [Steps -> 0..Retries + 1] /\ spent[at] \in Nat
          /\ userRetries \in Nat /\ (Retries + 1) * userRetries \in Nat
      BY Bounds, Allowance DEF Types
    <2>2. spent[at] <= Retries
      BY <1>1 DEF Budget
    <2>3. ended[at] <= (Retries + 1) * userRetries + spent[at] + 1
      BY <1>1 DEF Budget
    <2>4. stops = userRetries
      BY <1>1, <2>1 DEF Budget
    <2>5. QED
      BY <2>1, <2>2, <2>3, <2>4
  <1>4. /\ userRetries' = userRetries /\ userRetries' \in 0..MaxUserRetries /\ later' \in SUBSET (1..stops)
        /\ hubRestarts' \in 0..MaxHubRestarts /\ torn' \in 0..MaxTornRestarts /\ conn' \in {"none", conn}
        /\ UNCHANGED <<answer, pending, instance, losses, instanceRestarts, hubRestarts>>
        /\ userRetries' >= userRetries
    BY Bounds DEF counters, line, Types
  <1>5. \A k \in Attempts : /\ task[k] = "none" /\ Without(pending, k)
                            /\ recorded[k] = "nothing" => Fresh(k)
    BY <1>1, NothingLeft DEF IsCurrent
  <1>6. ASSUME NEW s \in Steps, NEW f \in 0..Retries, Enqueue(s, ended[s], f, queue), s \in {at, at + 1},
               s = at + 1 => ended[at] <= (Retries + 1) * userRetries + Retries + 1,
               ended[s] <= (Retries + 1) * userRetries' + f
        PROVE  IInv'
    <2>1. /\ OfHub' /\ at' = s /\ (Active' <=> installed)
          /\ installed => ended' = ended /\ recorded' = recorded
          /\ ~installed => \A k \in Attempts : recorded'[k] = "nothing" => recorded[k] = "nothing"
      BY <1>1, <1>2, <1>3, <1>4, <1>6, EnqueueKeeps DEF MayEnqueue
    <2>2. \A k \in Attempts : /\ task[k] = "none" /\ Without(pending, k)
                              /\ recorded'[k] = "nothing" => Fresh(k)
      BY <1>5, <2>1
    <2>3. Active' => Current' \in Attempts /\ recorded'[Current'] = "nothing"
      <3>1. ASSUME Active' PROVE Current' \in Attempts /\ Current'.step = at' /\ Current'.attempt = ended'[at'] + 1
        <4>1. Types' /\ Budget'
          BY <2>1 DEF OfHub
        <4>2. [step |-> s, attempt |-> ended[s] + 1] \in Attempts
          <5>1. ended[s] + 1 <= (Retries + 1) * userRetries + Retries + 1 /\ ended[s] + 1 \in Nat /\ ended[s] + 1 > 0
            BY <1>3, <1>4, <1>6, Bounds
          <5>2. QED
            BY <5>1, InReach
        <4>3. QED
          BY <2>1, <4>2, <3>1 DEF Current, NextAttempt
      <3>2. ASSUME Active', Current' \in Attempts, Current'.step = at', Current'.attempt = ended'[at'] + 1
            PROVE  recorded'[Current'] = "nothing"
        <4>1. ended'[at'] \in Nat /\ Record'
          BY <2>1 DEF OfHub, Types
        <4>2. QED
          BY <3>2, <4>1 DEF Record
      <3>3. QED
        BY <3>1, <3>2
    <2>4. OfInstance'
      BY <1>1, <1>4, <2>2, <2>3, InstanceRenewed DEF Idle
    <2>5. QED
      BY <2>1, <2>4, InParts
  <1>7. CASE recorded[worker.command] = "clean" /\ at = LastStep
    <2>1. status' = "done" /\ UNCHANGED <<at, ended, open, recorded, spent, stops, reported, queue>>
      BY <1>7, <1>2, Bounds DEF Steps, Results
    <2>2. worker' \in [pc : {"idle", "offering", "waiting", "settling", "backoff"},
                      took : 0..stops', command : Attempts \cup {NoCall}]
      BY <1>1, <1>2, <2>1 DEF Idle
    <2>3. Types'
      BY <1>4, <2>1, <2>2, SMTT(40) DEF Types, line, instance, counters
    <2>4. Budget' /\ Record' /\ AtWork'
      BY <1>1, <1>3, <2>1 DEF Budget, Active, Record, AtWork, Idle, counters
    <2>5. Driven' /\ Owing' /\ ~Active'
      BY <1>1, <1>2, <2>1 DEF Driven, Offered, Stranded, Owing, Idle, Active
    <2>6. OfInstance'
      BY <1>1, <1>4, <1>5, <2>1, <2>5, InstanceRenewed DEF Idle
    <2>7. QED
      BY <2>3, <2>4, <2>5, <2>6, InParts DEF OfHub
  <1>8. CASE recorded[worker.command] = "clean" /\ at < LastStep
    <2>1. Enqueue(at + 1, ended[at + 1], spent[at + 1], queue)
      BY <1>8, <1>2, Bounds DEF Steps
    <2>2. at + 1 \in Steps
      BY <1>8, <1>2, Bounds DEF Steps
    <2>3. ended[at + 1] = 0 /\ spent[at + 1] = 0
      BY <1>2, <2>2 DEF Budget, Steps
    <2>4. QED
      BY <1>3, <1>4, <1>6, <2>1, <2>2, <2>3, Bounds
  <1>9. CASE recorded[worker.command] # "clean" /\ spent[at] < Retries
    <2>1. Enqueue(at, ended[at], spent[at] + 1, queue)
      BY <1>9, <1>3, Bounds
    <2>2. spent[at] + 1 \in 0..Retries /\ ended[at] <= (Retries + 1) * userRetries' + (spent[at] + 1)
      BY <1>3, <1>4, <1>9, Bounds
    <2>3. at # at + 1
      BY <1>2, Bounds DEF Steps
    <2>4. QED
      BY <1>2, <1>6, <2>1, <2>2, <2>3
  <1>10. CASE recorded[worker.command] # "clean" /\ spent[at] = Retries
    <2>1. /\ spent' = [spent EXCEPT ![at] = spent[at] + 1] /\ StopForHuman(queue)
          /\ UNCHANGED <<at, ended, open, recorded>>
      BY <1>10, <1>3, Bounds
    <2>2. /\ status' = "needs_human" /\ stops' = stops + 1 /\ reported' = FALSE
          /\ queue' = (IF installed THEN Append(queue, stops + 1) ELSE queue)
      BY <2>1 DEF StopForHuman
    <2>3. /\ spent' \in [Steps -> 0..Retries + 1]
          /\ \A s \in Steps : spent'[s] = (IF s = at THEN Retries + 1 ELSE spent[s])
      <3>1. Retries + 1 \in 0..Retries + 1
        BY Bounds
      <3>2. spent' = [spent EXCEPT ![at] = Retries + 1]
        BY <1>10, <2>1
      <3>3. QED
        BY <1>2, <1>3, <3>1, <3>2
    <2>4. /\ stops + 1 \in 0..(stops + 1) /\ 0..stops \subseteq 0..(stops + 1) /\ 1..stops \subseteq 1..(stops + 1)
          /\ stops + 1 \notin 0..stops /\ stops + 1 # 0 /\ stops + 1 \in Nat
      BY <1>2, Wider
    <2>5. queue \in Seq(0..(stops + 1)) /\ Without(queue, stops + 1)
      BY <1>2, <2>4 DEF Without
    <2>6. queue' \in Seq(0..stops') /\ Without(queue', 0) /\ (installed => OnceIn(queue', stops'))
      <3>1. CASE installed
        <4>1. queue' = Append(queue, stops + 1)
          BY <2>2, <3>1
        <4>2. Append(queue, stops + 1) \in Seq(0..(stops + 1))
          BY <2>4, <2>5, AppendKeeps
        <4>3. Without(Append(queue, stops + 1), 0)
          BY <1>2, <2>4, <2>5, AppendKeeps
        <4>4. OnceIn(Append(queue, stops + 1), stops + 1)
          BY <2>4, <2>5, AppendKeeps
        <4>5. QED
          BY <2>2, <4>1, <4>2, <4>3, <4>4
      <3>2. CASE ~installed
        BY <1>2, <2>2, <2>5, <3>2
      <3>3. QED
        BY <3>1, <3>2
    <2>7. Types'
      <3>1. worker' \in [pc : {"idle", "offering", "waiting", "settling", "backoff"},
                        took : 0..stops', command : Attempts \cup {NoCall}]
        BY <1>1, <2>2, <2>4 DEF Idle
      <3>2. later' \in SUBSET (1..stops') /\ stops' \in Nat /\ reported' \in BOOLEAN
        BY <1>4, <2>2, <2>4
      <3>3. QED
        BY <2>1, <2>2, <2>3, <2>6, <3>1, <3>2, SMTT(40) DEF Types, line, instance, counters
    <2>8. Budget'
      <3>1. \A s \in Steps : /\ s > at' => ended'[s] = 0 /\ spent'[s] = 0
                             /\ s < at' => ended'[s] <= (Retries + 1) * userRetries' + Retries + 1
        BY <1>2, <1>4, <2>1, <2>3 DEF Budget, Steps
      <3>2. ended'[at'] <= (Retries + 1) * userRetries' + spent'[at'] + 0
        <4>1. spent'[at'] = spent[at] + 1 /\ spent[at] + 1 \in Nat
          BY <1>2, <1>3, <1>10, <2>1, <2>3
        <4>2. QED
          BY <1>3, <1>4, <2>1, <4>1
      <3>3. stops' = userRetries' + 1
        BY <1>3, <1>4, <2>2
      <3>4. QED
        BY <2>2, <3>1, <3>2, <3>3 DEF Budget
    <2>9. Record' /\ AtWork'
      BY <1>1, <2>1, <2>2 DEF Record, AtWork, Idle
    <2>10. Driven' /\ ~Active'
      BY <1>1, <2>2, <2>6 DEF Driven, Offered, Idle, Active, Stranded
    <2>11. Owing'
      <3>1. stops' \notin later' /\ worker'.took # stops'
        BY <1>1, <1>4, <2>2, <2>4, <1>2 DEF Idle
      <3>2. QED
        BY <2>2, <2>6, <3>1 DEF Owing, instance
    <2>12. OfInstance'
      BY <1>1, <1>4, <1>5, <2>1, <2>10, InstanceRenewed DEF Idle
    <2>13. QED
      BY <2>7, <2>8, <2>9, <2>10, <2>11, <2>12, InParts DEF OfHub
  <1>11. QED
    BY <1>7, <1>8, <1>9, <1>10

LEMMA UserRetryKeeps ==
  ASSUME IInv, UserRetry PROVE IInv'
  <1> USE DEF IInv, UserRetry
  <1>1. /\ ~Active /\ at \in Steps /\ ended[at] \in Nat /\ stops \in Nat /\ userRetries \in Nat
        /\ queue \in Seq(0..stops) /\ userRetries' = userRetries + 1
    BY Bounds DEF Active, Types
  <1>2. Without(queue, 0) /\ ~Offered
    BY DEF Driven
  <1>3. /\ stops = userRetries' /\ ended[at] <= (Retries + 1) * userRetries' + 0
        /\ userRetries' \in 0..MaxUserRetries /\ userRetries' >= userRetries
    <2>1. ended[at] <= (Retries + 1) * userRetries + spent[at] + 0 /\ stops = userRetries + 1
      BY DEF Budget
    <2>2. spent[at] \in Nat /\ spent[at] <= Retries + 1 /\ (Retries + 1) * userRetries \in Nat
      BY <1>1, Bounds, Allowance DEF Types
    <2>3. (Retries + 1) * userRetries' = (Retries + 1) * userRetries + Retries + 1
      BY <1>1, Allowance
    <2>4. QED
      BY <1>1, <2>1, <2>2, <2>3, Bounds
  <1>4. \A k \in Attempts : /\ task[k] = "none" /\ Without(pending, k)
                            /\ recorded[k] = "nothing" => Fresh(k)
    BY <1>1, NothingLeft DEF IsCurrent
  <1>5. /\ later' \in SUBSET (1..stops) /\ worker' = worker /\ conn' = conn
        /\ hubRestarts' \in 0..MaxHubRestarts /\ torn' \in 0..MaxTornRestarts /\ conn' \in {"none", conn}
        /\ UNCHANGED <<answer, pending, instance, losses, instanceRestarts, hubRestarts>>
    BY DEF line, Types
  <1>6. /\ OfHub' /\ at' = at /\ (Active' <=> installed)
        /\ installed => ended' = ended /\ recorded' = recorded
        /\ ~installed => \A k \in Attempts : recorded'[k] = "nothing" => recorded[k] = "nothing"
    <2>1. at # at + 1 /\ 0 \in 0..Retries
      BY <1>1, Bounds DEF Steps
    <2>2. Enqueue(at, ended[at], 0, queue)
      OBVIOUS
    <2>3. QED
      BY <1>1, <1>2, <1>3, <1>5, <2>1, <2>2, EnqueueKeeps DEF MayEnqueue
  <1>7. Active' => Current' \in Attempts /\ recorded'[Current'] = "nothing"
    <2>1. ASSUME Active' PROVE Current' = [step |-> at, attempt |-> ended[at] + 1] /\ recorded' = recorded
      BY <1>6, <2>1 DEF Current, NextAttempt
    <2>2. [step |-> at, attempt |-> ended[at] + 1] \in Attempts
      <3>1. ended[at] + 1 <= (Retries + 1) * userRetries' + Retries + 1
        BY <1>1, <1>3, Bounds, Allowance
      <3>2. ended[at] + 1 \in 1..((Retries + 1) * (MaxUserRetries + 1))
        <4>1. (Retries + 1) * userRetries' + Retries + 1 <= (Retries + 1) * (MaxUserRetries + 1)
          BY <1>1, <1>3, Allowance, Bounds
        <4>2. (Retries + 1) * userRetries' \in Nat /\ (Retries + 1) * (MaxUserRetries + 1) \in Nat
          BY <1>1, Bounds, Allowance
        <4>3. QED
          BY <1>1, <3>1, <4>1, <4>2, Bounds
      <3>3. QED
        BY <1>1, <3>2, NumbersAre DEF Attempts
    <2>3. recorded[[step |-> at, attempt |-> ended[at] + 1]] = "nothing"
      BY <1>1, <2>2 DEF Record
    <2>4. QED
      BY <2>1, <2>2, <2>3
  <1>8. \A k \in Attempts : /\ task[k] = "none" /\ Without(pending, k)
                            /\ recorded'[k] = "nothing" => Fresh(k)
    BY <1>4, <1>6
  <1>9. OfInstance'
    BY <1>5, <1>7, <1>8, InstanceRenewed
  <1>10. QED
    BY <1>6, <1>9, InParts

LEMMA RestartHubKeeps ==
  ASSUME IInv, RestartHub PROVE IInv'
  <1> USE DEF IInv, RestartHub
  <1>1. /\ hubRestarts' = hubRestarts + 1 /\ later' = {} /\ worker' = Idle /\ conn' = "none"
        /\ UNCHANGED <<answer, pending, instance, userRetries, instanceRestarts, losses>>
        /\ hubRestarts' \in 0..MaxHubRestarts /\ torn' \in 0..MaxTornRestarts /\ torn' \in {torn, torn + 1}
        /\ worker.pc = "settling" => torn' > 0
    BY Bounds DEF Types
  <1>2. /\ at \in Steps /\ ended[at] \in Nat /\ stops \in Nat /\ userRetries \in Nat /\ spent[at] \in Nat
        /\ torn \in Nat
    BY Bounds DEF Types
  <1>3. CASE Active
    <2>1. Enqueue(at, ended[at], spent[at], <<>>) /\ Current \in Attempts
      BY <1>3, CurrentIsAttempt DEF Active
    <2>2. /\ spent[at] \in 0..Retries /\ stops = userRetries /\ userRetries' = userRetries
          /\ ended[at] <= (Retries + 1) * userRetries + spent[at] /\ at # at + 1
          /\ userRetries \in 0..MaxUserRetries /\ userRetries' >= userRetries
      <3>1. spent[at] <= Retries /\ stops = userRetries + 0
        BY <1>3 DEF Budget, Active
      <3>2. ended[at] <= (Retries + 1) * userRetries + spent[at] + 0
        BY <1>3 DEF Budget
      <3>3. (Retries + 1) * userRetries \in Nat
        BY <1>2, Bounds, Allowance
      <3>4. QED
        BY <1>1, <1>2, <3>1, <3>2, <3>3, Bounds DEF Steps, Types
    <2>3. <<>> \in Seq(0..stops) /\ Without(<<>>, 0) /\ later' \in SUBSET (1..stops) /\ conn' \in {"none", conn}
      BY <1>1, Empty
    <2>4. /\ OfHub' /\ at' = at /\ (Active' <=> installed)
          /\ installed => ended' = ended /\ recorded' = recorded
          /\ ~installed => /\ recorded'[Current] # "nothing"
                           /\ \A k \in Attempts : recorded'[k] = "nothing" => recorded[k] = "nothing"
      BY <1>1, <1>2, <2>1, <2>2, <2>3, EnqueueKeeps DEF MayEnqueue, Current, NextAttempt
    <2>5. CASE installed
      BY <1>1, <1>3, <2>4, <2>5, InstanceUntouched, InParts DEF Idle
    <2>6. CASE ~installed
      <3>1. \A k \in Attempts : /\ task[k] = "none" /\ Without(pending, k)
                                /\ recorded'[k] = "nothing" => Fresh(k)
        BY <2>4, <2>6, NothingLeft DEF IsCurrent
      <3>2. OfInstance'
        BY <1>1, <2>4, <2>6, <3>1, InstanceRenewed DEF Idle
      <3>3. QED
        BY <2>4, <3>2, InParts
    <2>7. QED
      BY <2>5, <2>6
  <1>4. CASE ~Active
    <2>1. /\ UNCHANGED registry
          /\ \/ status = "needs_human" /\ ~reported /\ installed /\ queue' = <<stops>>
             \/ status # "needs_human" /\ queue' = <<>>
             \/ status = "needs_human" /\ (reported \/ ~installed) /\ queue' = <<>>
      BY <1>4 DEF Active
    <2>2. queue' \in Seq(0..stops)
      <3>1. stops \in 0..stops
        BY <1>2
      <3>2. <<stops>> \in Seq(0..stops) /\ <<>> \in Seq(0..stops)
        BY <3>1, SingleIn
      <3>3. QED
        BY <2>1, <3>2
    <2>3. Types'
      <3>1. worker' \in [pc : {"idle", "offering", "waiting", "settling", "backoff"},
                        took : 0..stops, command : Attempts \cup {NoCall}]
        BY <1>1, <1>2 DEF Idle
      <3>2. QED
        BY <1>1, <2>1, <2>2, <3>1, SMTT(40) DEF Types, registry, instance
    <2>4. Budget' /\ Record' /\ AtWork' /\ ~Active'
      BY <1>1, <1>4, <2>1 DEF Budget, Record, AtWork, Active, Idle, registry
    <2>5. stops # 0 \/ status # "needs_human"
      BY <1>2 DEF Budget
    <2>6. Driven'
      <3>1. Without(queue', 0) /\ ~Offered'
        <4>1. queue' = <<>> \/ (queue' = <<stops>> /\ stops # 0)
          BY <2>1, <2>5
        <4>2. Without(<<>>, 0) /\ (stops # 0 => Without(<<stops>>, 0))
          BY Empty, Single
        <4>3. QED
          BY <1>1, <4>1, <4>2 DEF Offered, Idle
      <3>2. status' = "running" => Stranded'
        <4>1. ASSUME status = "running" PROVE ~open /\ torn' > 0
          <5>1. ~open /\ (Stranded \/ worker.pc = "settling")
            BY <1>4, <4>1 DEF Active, Driven
          <5>2. QED
            BY <1>1, <1>2, <5>1 DEF Stranded
        <4>2. QED
          BY <1>1, <2>1, <4>1 DEF Stranded, registry, Idle
      <3>3. status' # "queued"
        BY <1>4, <2>1 DEF Active, registry
      <3>4. QED
        BY <3>1, <3>2, <3>3 DEF Driven
    <2>7. Owing'
      BY <1>1, <2>1, <2>5, Empty, Single DEF Owing, Idle, registry, instance
    <2>8. OfInstance'
      BY <1>1, <1>4, <2>1, <2>4, InstanceUntouched DEF Idle, registry
    <2>9. QED
      BY <2>3, <2>4, <2>6, <2>7, <2>8, InParts DEF OfHub
  <1>5. QED
    BY <1>3, <1>4

LEMMA TakeReportKeeps ==
  ASSUME IInv, TakeReport PROVE IInv'
  <1> USE DEF IInv, TakeReport
  <1>1. /\ queue \in Seq(0..stops) /\ queue # <<>> /\ Tail(queue) \in Seq(0..stops) /\ Head(queue) \in 0..stops
        /\ Head(queue) # 0 /\ ~Offered /\ ~Offered' /\ worker.took = 0 /\ conn = "none" /\ MayAsk
    BY TailKeeps, SMTT(40) DEF Types, Offered, AtWork, Idle, OnTheLine, MayAsk
  <1>2. \/ Stale(Head(queue)) /\ worker' = Idle
        \/ /\ status = "needs_human" /\ stops = Head(queue)
           /\ worker' = [pc |-> "offering", took |-> Head(queue), command |-> NoCall]
    BY DEF Stale
  <1>3. Types'
    <2>1. worker' \in [pc : {"idle", "offering", "waiting", "settling", "backoff"},
                      took : 0..stops, command : Attempts \cup {NoCall}]
      BY <1>1, <1>2, Bounds DEF Idle, Types
    <2>2. queue' \in Seq(0..stops)
      BY <1>1
    <2>3. UNCHANGED <<registry, later, line, instance, counters>>
      OBVIOUS
    <2> HIDE DEF TakeReport
    <2>4. QED
      BY <2>1, <2>2, <2>3, SMTT(40) DEF Types, registry, line, instance, counters
  <1>4. Budget' /\ Record' /\ AtWork'
    BY <1>1, <1>2 DEF Budget, Record, AtWork, Active, Idle, registry, counters
  <1>5. Driven'
    <2>1. /\ Without(queue, 0) => Without(queue', 0)
          /\ OnceIn(queue, 0) => OnceIn(queue', 0)
      BY <1>1, TailKeeps
    <2>2. Stranded' <=> Stranded
      BY <1>1, <1>2 DEF Stranded, registry, counters, Idle, AtWork
    <2>3. status' = status /\ open' = open
      BY DEF registry
    <2>4. QED
      BY <1>1, <2>1, <2>2, <2>3 DEF Driven
  <1>6. Owing'
    <2> SUFFICES ASSUME status = "needs_human", installed
                 PROVE  IF reported THEN Without(queue', stops) /\ worker'.took # stops /\ stops \notin later
                        ELSE \/ worker'.took # stops /\ stops \notin later /\ OnceIn(queue', stops)
                             \/ Without(queue', stops) /\ (worker'.took = stops <=> stops \notin later)
      BY DEF Owing, registry, instance
    <2>1. stops # 0 /\ stops \in Nat
      BY Bounds DEF Budget, Types
    <2>2. CASE Head(queue) = stops
      <3>1. worker'.took = stops /\ ~Without(queue, stops)
        BY <1>1, <1>2, <2>2, TailKeeps DEF Stale
      <3>2. ~reported /\ stops \notin later /\ OnceIn(queue, stops)
        BY <1>1, <2>1, <3>1 DEF Owing
      <3>3. Without(queue', stops)
        BY <1>1, <2>2, <3>2, TailKeeps
      <3>4. QED
        BY <3>1, <3>2, <3>3
    <2>3. CASE Head(queue) # stops
      <3>1. worker'.took = 0
        BY <1>2, <2>3 DEF Idle
      <3>2. QED
        BY <1>1, <2>1, <2>3, <3>1, TailKeeps DEF Owing
    <2>4. QED
      BY <2>2, <2>3
  <1>7. OfInstance'
    BY <1>1, <1>2, InstanceUntouched DEF registry, line, counters, Active, Idle
  <1>8. QED
    BY <1>3, <1>4, <1>5, <1>6, <1>7, InParts DEF OfHub

LEMMA ReportedKeeps ==
  ASSUME IInv, Reported PROVE IInv'
  <1> USE DEF IInv, Reported
  <1>1. MayAsk
    BY DEF MayAsk
  <1>2. CASE answer = "clean"
    <2>1. /\ reported' = (reported \/ stops = worker.took) /\ worker' = Idle /\ later' = later
          /\ UNCHANGED <<status, at, ended, open, recorded, spent, stops, queue>>
      BY <1>2
    <2>2. worker' \in [pc : {"idle", "offering", "waiting", "settling", "backoff"},
                      took : 0..stops, command : Attempts \cup {NoCall}]
      BY <2>1, Bounds DEF Idle, Types
    <2>3. Types'
      BY <2>1, <2>2, SMTT(40) DEF Types, instance, counters
    <2>4. Budget' /\ Record' /\ AtWork' /\ (Active' <=> Active)
      BY <2>1 DEF Budget, Record, AtWork, Active, Idle, counters
    <2>5. Driven'
      BY <2>1 DEF Driven, Offered, Stranded, Idle, counters
    <2>6. Owing'
      <3>1. status = "needs_human" => stops # 0
        BY Bounds DEF Budget, Types
      <3>2. QED
        BY <2>1, <3>1, NotBoth DEF Owing, Idle, instance
    <2>7. OfInstance'
      BY <1>1, <2>1, <2>4, InstanceUntouched DEF counters, Idle
    <2>8. QED
      BY <2>3, <2>4, <2>5, <2>6, <2>7, InParts DEF OfHub
  <1>3. CASE answer # "clean"
    <2>1. Undelivered
      BY <1>3 DEF Undelivered, registry
    <2>2. QED
      BY <1>1, <2>1, UndeliveredKeeps, InstanceUntouched, InParts DEF counters
  <1>4. QED
    BY <1>2, <1>3

LEMMA ReportAgainKeeps ==
  ASSUME IInv, NEW stop \in later, ReportAgain(stop) PROVE IInv'
  <1> USE DEF IInv, ReportAgain
  <1>1. /\ queue \in Seq(0..stops) /\ stop \in 0..stops /\ stop # 0 /\ later' \in SUBSET (1..stops)
        /\ queue' = (IF installed THEN Append(queue, stop) ELSE queue)
    BY Bounds DEF Types
  <1>8. /\ queue' \in Seq(0..stops)
        /\ Without(queue, 0) => Without(queue', 0)
        /\ OnceIn(queue, 0) => OnceIn(queue', 0)
        /\ stop # stops /\ Without(queue, stops) => Without(queue', stops)
        /\ stop # stops /\ OnceIn(queue, stops) => OnceIn(queue', stops)
        /\ installed /\ stop = stops /\ Without(queue, stops) => OnceIn(queue', stops)
    <2>1. CASE installed
      <3>1. queue' = Append(queue, stop)
        BY <1>1, <2>1
      <3>2. /\ Append(queue, stop) \in Seq(0..stops)
            /\ Without(queue, 0) => Without(Append(queue, stop), 0)
            /\ OnceIn(queue, 0) => OnceIn(Append(queue, stop), 0)
        BY <1>1, AppendKeeps
      <3>3. /\ stop # stops /\ Without(queue, stops) => Without(Append(queue, stop), stops)
            /\ stop # stops /\ OnceIn(queue, stops) => OnceIn(Append(queue, stop), stops)
            /\ stop = stops /\ Without(queue, stops) => OnceIn(Append(queue, stop), stops)
        BY <1>1, AppendKeeps
      <3>4. QED
        BY <3>1, <3>2, <3>3
    <2>2. CASE ~installed
      BY <1>1, <2>2
    <2>3. QED
      BY <2>1, <2>2
  <1>2. Types'
    BY <1>1, <1>8, SMTT(40) DEF Types, registry, line, instance, counters
  <1>3. Budget' /\ Record' /\ AtWork'
    <2>1. UNCHANGED <<registry, worker, counters>>
      OBVIOUS
    <2> HIDE DEF ReportAgain
    <2>2. QED
      BY <2>1 DEF Budget, Record, AtWork, Active, registry, counters, Current, NextAttempt
  <1>4. Driven'
    BY <1>1, <1>8 DEF Driven, Stranded, Offered, registry, counters
  <1>5. Owing'
    BY <1>1, <1>8 DEF Owing, registry, instance
  <1>6. OfInstance'
    BY InstanceUntouched DEF registry, line, counters, Active
  <1>7. QED
    BY <1>2, <1>3, <1>4, <1>5, <1>6, InParts DEF OfHub

LEMMA SendKeeps ==
  ASSUME IInv, Send PROVE IInv'
  <1> USE DEF IInv, Send
  <1>1. /\ worker'.pc = "waiting" /\ worker'.took = worker.took /\ worker'.command = worker.command
        /\ worker' \in [pc : {"idle", "offering", "waiting", "settling", "backoff"},
                        took : 0..stops, command : Attempts \cup {NoCall}]
        /\ conn = "none" /\ conn' = "sent" /\ pending \in Seq(Attempts \cup {ReportCall})
        /\ UNCHANGED <<registry, queue, later, instance, counters>>
    BY DEF Types, OnTheLine
  <1>2. /\ worker.took = 0 => Active /\ worker.command = Current /\ Current \in Attempts /\ Asked = Current
        /\ worker.took # 0 => Asked = ReportCall
        /\ Asked \in Attempts \cup {ReportCall} /\ Asked' = Asked
    <2>1. worker.took = 0 => Active /\ worker.command = Current
      BY DEF AtWork, Active
    <2>2. QED
      BY <1>1, <2>1, CurrentIsAttempt DEF Asked
  <1>3. /\ pending' = Append(pending, Asked) /\ pending' \in Seq(Attempts \cup {ReportCall})
        /\ Len(pending) \in Nat /\ Len(pending') = Len(pending) + 1
        /\ pending' # <<>> /\ pending'[Len(pending')] = Asked
        /\ DOMAIN pending = 1..Len(pending) /\ DOMAIN pending' = 1..(Len(pending) + 1)
        /\ \A i \in DOMAIN pending : pending'[i] = pending[i] /\ pending[i] \in Attempts \cup {ReportCall}
    BY <1>1, <1>2
  <1> HIDE DEF Send
  <1>4. Types'
    <2>1. worker' \in [pc : {"idle", "offering", "waiting", "settling", "backoff"},
                      took : 0..stops', command : Attempts \cup {NoCall}]
      BY <1>1 DEF registry
    <2>2. queue' \in Seq(0..stops') /\ later' \in SUBSET (1..stops') /\ stops' \in Nat
      BY <1>1 DEF registry, Types
    <2>3. answer' = "none" /\ conn' = "sent"
      BY DEF Send
    <2>4. UNCHANGED <<registry, instance, counters>>
      BY <1>1
    <2>5. pending' \in Seq(Attempts \cup {ReportCall})
      BY <1>3
    <2>6. QED
      BY <2>1, <2>2, <2>3, <2>4, <2>5, SMTT(40) DEF Types, registry, instance, counters
  <1>5. Budget' /\ Record'
    BY <1>1 DEF Budget, Active, Record, registry, counters
  <1>7. worker.pc = "offering"
    BY DEF Send
  <1>6. AtWork'
    BY <1>1, <1>7 DEF AtWork, Current, NextAttempt, registry
  <1>8. Driven' /\ Owing'
    BY <1>1, <1>7 DEF Driven, Offered, Stranded, Owing, registry, instance, counters
  <1>9. (Active' <=> Active) /\ Current' = Current /\ \A k \in Attempts : IsCurrent(k)' <=> IsCurrent(k)
    BY <1>1 DEF Active, Current, NextAttempt, IsCurrent, registry
  <1>10. OnTheLine'
    BY <1>1, <1>2, <1>3 DEF OnTheLine
  <1>11. \A v : v # Asked /\ Without(pending, v) => Without(pending', v)
    BY <1>3 DEF Without
  <1>12. Elsewhere'
    <2>1. \A k \in Attempts : ~IsCurrent(k) => k # Asked
      BY <1>2, Calls DEF IsCurrent
    <2>2. QED
      BY <1>1, <1>9, <1>11, <2>1 DEF Elsewhere, Fresh, instance, registry
  <1>13. ReportsFirst'
    <2>1. worker.took # 0 => \A i \in DOMAIN pending : pending[i] = ReportCall
      BY <1>3 DEF ReportsFirst, Elsewhere, IsCurrent, Without
    <2>2. \A i, j \in DOMAIN pending' : i < j /\ pending'[j] = ReportCall => pending'[i] = ReportCall
      <3> SUFFICES ASSUME NEW i \in DOMAIN pending', NEW j \in DOMAIN pending', i < j, pending'[j] = ReportCall
                   PROVE  pending'[i] = ReportCall
        OBVIOUS
      <3>1. i \in DOMAIN pending /\ pending'[i] = pending[i]
        BY <1>3
      <3>2. CASE j \in DOMAIN pending
        BY <1>3, <3>1, <3>2 DEF ReportsFirst
      <3>3. CASE j \notin DOMAIN pending
        <4>1. Asked = ReportCall
          BY <1>3, <3>3
        <4>2. worker.took # 0
          BY <1>2, <4>1, Calls
        <4>3. QED
          BY <2>1, <3>1, <4>2
      <3>4. QED
        BY <3>2, <3>3
    <2>3. Active /\ (worker.took # 0 \/ ~Without(pending', ReportCall)) => Fresh(Current) /\ task[Current] = "none"
      <3>1. worker.took = 0 => Asked # ReportCall
        BY <1>2, Calls
      <3>2. QED
        BY <1>2, <1>11, <3>1 DEF ReportsFirst
    <2>4. Active /\ worker.took # 0 => Without(pending', Current)
      BY <1>2, <1>11, Calls, CurrentIsAttempt DEF ReportsFirst
    <2>5. QED
      BY <1>1, <1>9, <2>2, <2>3, <2>4 DEF ReportsFirst, Fresh, instance, registry
  <1>14. Tasks' /\ HeldForTheHub'
    BY <1>1 DEF Tasks, HeldForTheHub, instance, registry
  <1>15. Removed'
    <2>1. installed
      BY DEF Send
    <2>2. QED
      BY <1>1, <2>1 DEF Removed, instance
  <1>16. Beginnings'
    <2>1. GivenUp' = GivenUp
      BY <1>1, <1>3 DEF GivenUp
    <2>2. MayAsk' = MayAsk
      BY <1>1 DEF MayAsk
    <2>3. Troubles' = Troubles
      BY <1>1 DEF Troubles, counters
    <2>4. QED
      BY <1>1, <1>9, <2>1, <2>2, <2>3 DEF Beginnings, instance
  <1>17. QED
    BY <1>4, <1>5, <1>6, <1>8, <1>10, <1>12, <1>13, <1>14, <1>15, <1>16

-----------------------------------------------------------------------------
(* The instance's steps, which leave the hub as it was.                    *)

LEMMA HubUntouched ==
  ASSUME IInv, Types', UNCHANGED <<registry, memory, userRetries, torn>>, installed' \in {installed, FALSE}
  PROVE  /\ OfHub' /\ (Active' <=> Active) /\ Current' = Current /\ Asked' = Asked
         /\ \A k \in Attempts : IsCurrent(k)' <=> IsCurrent(k)
         /\ \A k \in Attempts : recorded'[k] = recorded[k]
  <1> USE DEF IInv
  <1>1. Budget' /\ Record' /\ AtWork'
    BY DEF Budget, Active, Record, AtWork, registry, memory, Current, NextAttempt
  <1>2. Driven' /\ Owing'
    <2>1. Driven'
      BY DEF Driven, Offered, Stranded, registry, memory
    <2>2. Owing'
      BY DEF Owing, registry, memory
    <2>3. QED
      BY <2>1, <2>2
  <1>3. QED
    BY <1>1, <1>2 DEF OfHub, Active, Current, NextAttempt, Asked, IsCurrent, registry, memory

\* What the instance takes is what the worker asks, or what it asked and gave up.
LEMMA TakeGives ==
  ASSUME IInv, NEW call, Take(call)
  PROVE  /\ pending \in Seq(Attempts \cup {ReportCall}) /\ pending' \in Seq(Attempts \cup {ReportCall})
         /\ call \in Attempts \cup {ReportCall} /\ installed /\ conn \in {"none", "sent", "lost"}
         /\ ~Without(pending, call) /\ \A v : Without(pending, v) => Without(pending', v)
         /\ Len(pending) \in Nat /\ Len(pending) > 0 /\ Len(pending') = Len(pending) - 1
         /\ \A i, j \in DOMAIN pending' : i < j /\ pending'[j] = ReportCall => pending'[i] = ReportCall
         /\ call # ReportCall => Without(pending', ReportCall)
         /\ call \in Attempts => /\ IsCurrent(call) /\ worker.took = 0 /\ recorded[call] = "nothing"
                                 /\ call = Current /\ Active
         /\ Listening => call = Asked /\ pending' = <<>> /\ conn = "sent" /\ worker.pc = "waiting"
         /\ conn = "sent" /\ ~Listening => pending' # <<>> /\ pending'[Len(pending')] = Asked
         /\ Active => Current \in Attempts
  <1> USE DEF IInv, Take
  <1>1. /\ pending \in Seq(Attempts \cup {ReportCall}) /\ pending # <<>> /\ pending' = Tail(pending)
        /\ call = pending[1] /\ Len(pending) \in Nat /\ Len(pending) > 0 /\ Len(pending') = Len(pending) - 1
        /\ DOMAIN pending = 1..Len(pending) /\ DOMAIN pending' = 1..(Len(pending) - 1)
        /\ \A i \in DOMAIN pending' : pending'[i] = pending[i + 1]
        /\ pending' \in Seq(Attempts \cup {ReportCall})
    BY DEF Types
  <1>2. call \in Attempts \cup {ReportCall} /\ installed /\ conn \in {"none", "sent", "lost"}
    BY <1>1 DEF Removed, OnTheLine, Types
  <1>3. ~Without(pending, call) /\ \A v : Without(pending, v) => Without(pending', v)
    BY <1>1 DEF Without
  <1>4. \A i, j \in DOMAIN pending' : i < j /\ pending'[j] = ReportCall => pending'[i] = ReportCall
    <2>1. \A i \in DOMAIN pending' : i + 1 \in DOMAIN pending /\ i \in Nat
      BY <1>1
    <2>2. QED
      BY <1>1, <2>1 DEF ReportsFirst
  <1>5. call # ReportCall => Without(pending', ReportCall)
    <2>1. ASSUME NEW j \in DOMAIN pending', pending'[j] = ReportCall PROVE call = ReportCall
      <3>1. 1 \in DOMAIN pending /\ j + 1 \in DOMAIN pending /\ 1 < j + 1 /\ pending[j + 1] = ReportCall
        BY <1>1, <2>1
      <3>2. QED
        BY <1>1, <3>1 DEF ReportsFirst
    <2>2. QED
      BY <2>1 DEF Without
  <1>6. call \in Attempts => /\ IsCurrent(call) /\ worker.took = 0 /\ recorded[call] = "nothing"
                             /\ call = Current /\ Active
    <2>1. call \in Attempts => IsCurrent(call)
      BY <1>3 DEF Elsewhere
    <2>2. call \in Attempts => worker.took = 0
      BY <1>3, <2>1 DEF ReportsFirst, IsCurrent
    <2>3. call \in Attempts => recorded[call] = "nothing"
      <3> SUFFICES ASSUME call \in Attempts PROVE recorded[call] = "nothing"
        OBVIOUS
      <3>1. call.step = at /\ call.attempt = ended[at] + 1 /\ ended[at] \in Nat
        BY <2>1, CurrentIsAttempt DEF IsCurrent, Types
      <3>2. QED
        BY <3>1 DEF Record
    <2>4. QED
      BY <2>1, <2>2, <2>3 DEF IsCurrent
  <1>7. Listening => call = Asked /\ pending' = <<>> /\ conn = "sent" /\ worker.pc = "waiting"
    BY <1>1 DEF Listening, OnTheLine
  <1>8. conn = "sent" /\ ~Listening => pending' # <<>> /\ pending'[Len(pending')] = Asked
    <2> SUFFICES ASSUME conn = "sent", ~Listening PROVE pending' # <<>> /\ pending'[Len(pending')] = Asked
      OBVIOUS
    <2>1. Len(pending) # 1 /\ pending[Len(pending)] = Asked
      BY <1>1 DEF Listening, OnTheLine
    <2>2. Len(pending') \in DOMAIN pending' /\ Len(pending') + 1 = Len(pending)
      BY <1>1, <2>1
    <2>3. pending'[Len(pending')] = pending[Len(pending') + 1] /\ pending' # <<>>
      BY <1>1, <2>2
    <2>4. QED
      BY <2>1, <2>2, <2>3
  <1>9. QED
    BY <1>1, <1>2, <1>3, <1>4, <1>5, <1>6, <1>7, <1>8, CurrentIsAttempt

\* Taking a call leaves one given-up call fewer, or is what the worker asks.
LEMMA TakeCounts ==
  ASSUME IInv, NEW call, Take(call), UNCHANGED <<counters, worker, installed>>,
         IF Listening THEN conn' \in {"taken", "answered"} ELSE conn' = conn
  PROVE  /\ Troubles \in Nat /\ Troubles' = Troubles
         /\ GivenUp \in Int /\ GivenUp' \in Int /\ MayAsk /\ GivenUp >= 0
         /\ IF Listening THEN GivenUp = 0 /\ GivenUp' = 0 ELSE GivenUp' = GivenUp - 1 /\ MayAsk'
  <1>1. /\ Len(pending) \in Nat /\ Len(pending) > 0 /\ Len(pending') \in Nat /\ Len(pending') = Len(pending) - 1
        /\ conn \in {"none", "sent", "lost"}
    BY TakeGives
  <1>2. Troubles \in Nat /\ Troubles' = Troubles
    BY Bounds DEF IInv, Types, Troubles, counters
  <1>3. GivenUp = Len(pending) - (IF conn = "sent" THEN 1 ELSE 0)
    BY DEF GivenUp
  <1>4. GivenUp' = Len(pending') - (IF conn' = "sent" THEN 1 ELSE 0)
    BY DEF GivenUp
  <1>5. MayAsk
    BY <1>1 DEF MayAsk
  <1>6. CASE Listening
    <2>1. conn = "sent" /\ Len(pending) = 1 /\ conn' # "sent"
      BY <1>6 DEF Listening
    <2>2. Len(pending') = 0
      BY <1>1, <2>1
    <2>3. GivenUp = 1 - 1 /\ GivenUp' = 0 - 0
      BY <1>3, <1>4, <2>1, <2>2, Zenon
    <2>4. QED
      BY <1>2, <1>5, <1>6, <2>3
  <1>7. CASE ~Listening
    <2>1. conn' = conn /\ MayAsk'
      BY <1>1, <1>7 DEF MayAsk
    <2>2. QED
      BY <1>1, <1>2, <1>3, <1>4, <1>5, <1>7, <2>1
  <1>8. QED
    BY <1>6, <1>7

LEMMA TakeReportCallKeeps ==
  ASSUME IInv, TakeReportCall PROVE IInv'
  <1> USE DEF IInv
  <1>1. Take(ReportCall)
    BY DEF TakeReportCall
  <1>2. /\ held' = Nothing /\ conn' = (IF Listening THEN "taken" ELSE conn)
        /\ UNCHANGED <<registry, memory, answer, latest, task, admitting, installed, execution, began, counters>>
    BY DEF TakeReportCall
  <1>3. Types'
    <2>1. held' \in [call : Attempts \cup {NoCall}, result : Results \cup {"none"}]
      BY <1>2 DEF Nothing
    <2>2. pending' \in Seq(Attempts \cup {ReportCall})
      BY <1>1, TakeGives
    <2>3. conn' \in {"none", "sent", "taken", "answered", "lost"}
      BY <1>2 DEF Types
    <2>4. QED
      BY <1>2, <2>1, <2>2, <2>3, SMTT(40) DEF Types, registry, memory, counters
  <1>4. /\ OfHub' /\ (Active' <=> Active) /\ Current' = Current /\ Asked' = Asked
        /\ \A k \in Attempts : IsCurrent(k)' <=> IsCurrent(k)
        /\ \A k \in Attempts : recorded'[k] = recorded[k]
    BY <1>2, <1>3, HubUntouched DEF counters
  <1>5. OnTheLine'
    <2>1. CASE Listening
      <3>1. conn' = "taken" /\ worker'.pc = "waiting" /\ pending' = <<>> /\ ReportCall = Asked
        BY <1>1, <1>2, <2>1, TakeGives DEF memory
      <3>2. worker'.took # 0
        <4>1. worker.pc = "waiting" /\ worker.took = 0 => Asked = Current /\ Current \in Attempts
          BY CurrentIsAttempt DEF AtWork, Asked, Active
        <4>2. QED
          BY <1>2, <3>1, <4>1, Calls DEF memory
      <3>3. QED
        BY <3>1, <3>2 DEF OnTheLine
    <2>2. CASE ~Listening
      <3>1. conn' = conn /\ conn \in {"none", "sent", "lost"}
        BY <1>1, <1>2, <2>2, TakeGives
      <3>2. conn' = "sent" => pending' # <<>> /\ pending'[Len(pending')] = Asked'
        BY <1>1, <1>4, <2>2, <3>1, TakeGives
      <3>3. QED
        BY <1>2, <3>1, <3>2 DEF OnTheLine, memory
    <2>3. QED
      BY <2>1, <2>2
  <1>6. \A k \in Attempts : Fresh(k) => Fresh(k)'
    BY <1>2, Calls DEF Fresh, Nothing
  <1>7. Elsewhere'
    <2>1. \A v : Without(pending, v) => Without(pending', v)
      BY <1>1, TakeGives
    <2>2. QED
      BY <1>2, <1>4, <1>6, <2>1 DEF Elsewhere
  <1>8. /\ Active => Current \in Attempts /\ Fresh(Current) /\ task[Current] = "none"
        /\ ~Without(pending, ReportCall)
    BY <1>1, TakeGives DEF ReportsFirst
  <1>9. ReportsFirst'
    <2>1. /\ \A i, j \in DOMAIN pending' : i < j /\ pending'[j] = ReportCall => pending'[i] = ReportCall
          /\ \A v : Without(pending, v) => Without(pending', v)
      BY <1>1, TakeGives
    <2>2. worker' = worker /\ task' = task
      BY <1>2 DEF memory
    <2>3. Active' => Fresh(Current)' /\ task'[Current'] = "none"
      BY <1>4, <1>6, <1>8, <2>2 DEF Fresh
    <2>4. QED
      BY <1>4, <2>1, <2>2, <2>3 DEF ReportsFirst
  <1>10. Tasks' /\ Removed'
    <2>1. installed
      BY <1>1, TakeGives
    <2>2. \A k \in Attempts : held'.call # k
      BY <1>2, Calls DEF Nothing
    <2>3. QED
      BY <1>2, <2>1, <2>2 DEF Tasks, Removed
  <1>11. HeldForTheHub'
    <2>1. \A k \in Attempts : recorded[k] = "nothing" => execution[k] = "never"
      BY <1>8 DEF Elsewhere, IsCurrent, Fresh
    <2>2. QED
      BY <1>2, <1>4, <2>1 DEF HeldForTheHub, Results
  <1>12. Beginnings'
    <2>1. /\ Troubles \in Nat /\ Troubles' = Troubles
          /\ GivenUp \in Int /\ GivenUp' \in Int /\ MayAsk /\ GivenUp >= 0 /\ GivenUp' <= GivenUp
      <3>1. IF Listening THEN conn' \in {"taken", "answered"} ELSE conn' = conn
        BY <1>2
      <3>2. QED
        BY <1>1, <1>2, <3>1, TakeCounts DEF memory
    <2>2. \A k \in Attempts : began[k] \in Nat
      BY DEF Types
    <2>3. Active /\ installed => began[Current] + GivenUp' + (IF task[Current] = "waiting" THEN 1 ELSE 0)
             + (IF MayAsk' THEN 1 ELSE 0) <= Troubles + 1
      BY <1>8, <2>1, <2>2 DEF Beginnings
    <2>4. QED
      BY <1>2, <1>4, <2>1, <2>3 DEF Beginnings
  <1>13. QED
    BY <1>4, <1>5, <1>7, <1>9, <1>10, <1>11, <1>12, InParts DEF OfInstance

LEMMA JoinTaskKeeps ==
  ASSUME IInv, NEW k \in Attempts, JoinTask(k) PROVE IInv'
  <1> USE DEF IInv
  <1>1. Take(k) /\ latest = k
    BY DEF JoinTask
  <1>2. /\ conn' = (IF Listening THEN "taken" ELSE conn)
        /\ UNCHANGED <<registry, memory, answer, instance, counters>>
    BY DEF JoinTask
  <1>3. Types'
    <2>1. pending' \in Seq(Attempts \cup {ReportCall})
      BY <1>1, TakeGives
    <2>2. conn' \in {"none", "sent", "taken", "answered", "lost"}
      BY <1>2 DEF Types
    <2>3. QED
      BY <1>2, <2>1, <2>2, SMTT(40) DEF Types, registry, memory, counters, instance
  <1>4. /\ OfHub' /\ (Active' <=> Active) /\ Current' = Current /\ Asked' = Asked
        /\ \A l \in Attempts : IsCurrent(l)' <=> IsCurrent(l)
        /\ \A l \in Attempts : recorded'[l] = recorded[l]
    BY <1>2, <1>3, HubUntouched DEF counters, instance
  <1>5. /\ task[k] # "none" /\ k = Current /\ Active /\ worker.took = 0
        /\ Without(pending', ReportCall) /\ installed
    BY <1>1, TakeGives, Calls DEF Tasks
  <1>6. OnTheLine'
    <2>1. CASE Listening
      <3>1. conn' = "taken" /\ worker'.pc = "waiting" /\ pending' = <<>> /\ k = Asked
        BY <1>1, <1>2, <2>1, TakeGives DEF memory
      <3>2. worker'.command = k
        BY <1>2, <1>5, <3>1 DEF memory, Asked
      <3>3. QED
        BY <1>2, <1>5, <3>1, <3>2 DEF OnTheLine, instance
    <2>2. CASE ~Listening
      <3>1. conn' = conn /\ conn \in {"none", "sent", "lost"}
        BY <1>1, <1>2, <2>2, TakeGives
      <3>2. conn' = "sent" => pending' # <<>> /\ pending'[Len(pending')] = Asked'
        BY <1>1, <1>4, <2>2, <3>1, TakeGives
      <3>3. QED
        BY <1>2, <3>1, <3>2 DEF OnTheLine, memory
    <2>3. QED
      BY <2>1, <2>2
  <1>7. Elsewhere' /\ ReportsFirst'
    <2>1. /\ \A i, j \in DOMAIN pending' : i < j /\ pending'[j] = ReportCall => pending'[i] = ReportCall
          /\ \A v : Without(pending, v) => Without(pending', v)
      BY <1>1, TakeGives
    <2>2. worker' = worker /\ task' = task /\ execution' = execution /\ began' = began /\ held' = held
      BY <1>2 DEF memory, instance
    <2>3. QED
      BY <1>4, <1>5, <2>1, <2>2 DEF Elsewhere, ReportsFirst, Fresh
  <1>8. Tasks' /\ Removed' /\ HeldForTheHub'
    BY <1>2, <1>4, <1>5 DEF Tasks, Removed, HeldForTheHub, instance
  <1>9. Beginnings'
    <2>1. /\ Troubles \in Nat /\ Troubles' = Troubles /\ GivenUp \in Int /\ GivenUp' \in Int /\ MayAsk
          /\ IF Listening THEN GivenUp = 0 /\ GivenUp' = 0 ELSE GivenUp' = GivenUp - 1 /\ MayAsk'
      <3>1. IF Listening THEN conn' \in {"taken", "answered"} ELSE conn' = conn
        BY <1>2
      <3>2. QED
        BY <1>1, <1>2, <3>1, TakeCounts DEF memory, instance
    <2>2. \A l \in Attempts : began[l] \in Nat
      BY DEF Types
    <2>3. GivenUp' <= Troubles
      BY <2>1 DEF Beginnings
    <2>4. began[Current] + GivenUp' + (IF task[Current] = "waiting" THEN 1 ELSE 0)
             + (IF MayAsk' THEN 1 ELSE 0) <= Troubles + 1
      BY <1>5, <2>1, <2>2 DEF Beginnings
    <2>5. QED
      BY <1>2, <1>4, <2>1, <2>3, <2>4 DEF Beginnings, instance
  <1>10. QED
    BY <1>4, <1>6, <1>7, <1>8, <1>9, InParts DEF OfInstance

LEMMA AnswerHeldKeeps ==
  ASSUME IInv, NEW k \in Attempts, AnswerHeld(k) PROVE IInv'
  <1> USE DEF IInv
  <1>1. Take(k) /\ latest # k /\ held.call = k
    BY DEF AnswerHeld
  <1>2. /\ IF Listening THEN Answered(IF held.result = "none" THEN "restarted" ELSE held.result)
                        ELSE UNCHANGED <<conn, answer>>
        /\ UNCHANGED <<registry, memory, instance, counters>>
    BY DEF AnswerHeld
  <1>3. /\ Listening => /\ conn' = "answered"
                        /\ answer' = (IF held.result = "none" THEN "restarted" ELSE held.result)
        /\ ~Listening => conn' = conn /\ answer' = answer
    BY <1>2 DEF Answered
  <1>4. Types'
    <2>1. pending' \in Seq(Attempts \cup {ReportCall})
      BY <1>1, TakeGives
    <2>2. /\ conn' \in {"none", "sent", "taken", "answered", "lost"}
          /\ answer' \in Results \cup {"none", "restarted", "error", "draining"}
      BY <1>3 DEF Types
    <2>3. QED
      BY <1>2, <2>1, <2>2, SMTT(40) DEF Types, registry, memory, counters, instance
  <1>5. /\ OfHub' /\ (Active' <=> Active) /\ Current' = Current /\ Asked' = Asked
        /\ \A l \in Attempts : IsCurrent(l)' <=> IsCurrent(l)
        /\ \A l \in Attempts : recorded'[l] = recorded[l]
    BY <1>2, <1>4, HubUntouched DEF counters, instance
  <1>6. /\ k = Current /\ Active /\ worker.took = 0 /\ recorded[k] = "nothing"
        /\ Without(pending', ReportCall) /\ installed
    BY <1>1, TakeGives, Calls
  <1>7. \A l \in Attempts : task[l] = "none"
    BY <1>1, <1>6 DEF Tasks, Elsewhere, IsCurrent
  <1>8. OnTheLine'
    <2>1. CASE Listening
      <3>1. conn' = "answered" /\ worker'.pc = "waiting" /\ pending' = <<>> /\ k = Asked
        BY <1>1, <1>3, <2>1, TakeGives, <1>2 DEF memory
      <3>2. worker'.command = k
        BY <1>2, <1>6, <3>1 DEF memory, Asked
      <3>3. IF execution[k] \in Results THEN answer' = execution[k] ELSE answer' \notin Results
        <4>1. CASE execution[k] \in Results
          <5>1. held = [call |-> k, result |-> execution[k]]
            BY <1>6, <4>1 DEF HeldForTheHub
          <5>2. held.result = execution[k] /\ held.result # "none"
            BY <4>1, <5>1 DEF Results
          <5>3. QED
            BY <1>3, <2>1, <4>1, <5>2
        <4>2. CASE execution[k] \notin Results
          <5>1. held.result \in Results \cup {"none"}
            BY DEF Types
          <5>2. held.result = "none"
            BY <1>1, <4>2, <5>1 DEF Tasks
          <5>3. QED
            BY <1>3, <2>1, <4>2, <5>2 DEF Results
        <4>3. QED
          BY <4>1, <4>2
      <3>4. QED
        BY <1>2, <1>7, <3>1, <3>2, <3>3 DEF OnTheLine, instance
    <2>2. CASE ~Listening
      <3>1. conn' = conn /\ conn \in {"none", "sent", "lost"}
        BY <1>1, <1>3, <2>2, TakeGives
      <3>2. conn' = "sent" => pending' # <<>> /\ pending'[Len(pending')] = Asked'
        BY <1>1, <1>5, <2>2, <3>1, TakeGives
      <3>3. QED
        BY <1>2, <3>1, <3>2 DEF OnTheLine, memory
    <2>3. QED
      BY <2>1, <2>2
  <1>9. Elsewhere' /\ ReportsFirst'
    <2>1. /\ \A i, j \in DOMAIN pending' : i < j /\ pending'[j] = ReportCall => pending'[i] = ReportCall
          /\ \A v : Without(pending, v) => Without(pending', v)
      BY <1>1, TakeGives
    <2>2. worker' = worker /\ task' = task /\ execution' = execution /\ began' = began /\ held' = held
      BY <1>2 DEF memory, instance
    <2>3. QED
      BY <1>5, <1>6, <2>1, <2>2 DEF Elsewhere, ReportsFirst, Fresh
  <1>10. Tasks' /\ Removed' /\ HeldForTheHub'
    BY <1>2, <1>5, <1>6 DEF Tasks, Removed, HeldForTheHub, instance
  <1>11. Beginnings'
    <2>1. /\ Troubles \in Nat /\ Troubles' = Troubles /\ GivenUp \in Int /\ GivenUp' \in Int /\ MayAsk
          /\ IF Listening THEN GivenUp = 0 /\ GivenUp' = 0 ELSE GivenUp' = GivenUp - 1 /\ MayAsk'
      <3>1. IF Listening THEN conn' \in {"taken", "answered"} ELSE conn' = conn
        BY <1>3
      <3>2. QED
        BY <1>1, <1>2, <3>1, TakeCounts DEF memory, instance
    <2>2. \A l \in Attempts : began[l] \in Nat
      BY DEF Types
    <2>3. GivenUp' <= Troubles
      BY <2>1 DEF Beginnings
    <2>4. began[Current] + GivenUp' + (IF task[Current] = "waiting" THEN 1 ELSE 0)
             + (IF MayAsk' THEN 1 ELSE 0) <= Troubles + 1
      BY <1>6, <2>1, <2>2 DEF Beginnings
    <2>5. QED
      BY <1>2, <1>5, <2>1, <2>3, <2>4 DEF Beginnings, instance
  <1>12. QED
    BY <1>5, <1>8, <1>9, <1>10, <1>11, InParts DEF OfInstance

LEMMA StartTaskKeeps ==
  ASSUME IInv, NEW k \in Attempts, StartTask(k) PROVE IInv'
  <1> USE DEF IInv
  <1>1. Take(k) /\ latest # k /\ held.call # k
    BY DEF StartTask
  <1>2. /\ held' = [call |-> k, result |-> "none"] /\ latest' = k /\ task' = [task EXCEPT ![k] = "waiting"]
        /\ conn' = (IF Listening THEN "taken" ELSE conn)
        /\ UNCHANGED <<registry, memory, answer, admitting, installed, execution, began, counters>>
    BY DEF StartTask
  <1>3. /\ task' \in [Attempts -> {"none", "waiting", "working"}]
        /\ \A l \in Attempts : task'[l] = (IF l = k THEN "waiting" ELSE task[l])
    BY <1>2 DEF Types
  <1>4. held'.call = k /\ held'.result = "none"
    BY <1>2
  <1>5. Types'
    <2>1. pending' \in Seq(Attempts \cup {ReportCall})
      BY <1>1, TakeGives
    <2>2. conn' \in {"none", "sent", "taken", "answered", "lost"}
      BY <1>2 DEF Types
    <2>3. held' \in [call : Attempts \cup {NoCall}, result : Results \cup {"none"}] /\ latest' \in Attempts \cup {NoCall}
      BY <1>2
    <2>4. QED
      BY <1>2, <1>3, <2>1, <2>2, <2>3, SMTT(40) DEF Types, registry, memory, counters
  <1>6. /\ OfHub' /\ (Active' <=> Active) /\ Current' = Current /\ Asked' = Asked
        /\ \A l \in Attempts : IsCurrent(l)' <=> IsCurrent(l)
        /\ \A l \in Attempts : recorded'[l] = recorded[l]
    BY <1>2, <1>5, HubUntouched DEF counters
  <1>7. /\ k = Current /\ Active /\ worker.took = 0 /\ recorded[k] = "nothing" /\ IsCurrent(k)
        /\ Without(pending', ReportCall) /\ installed
    BY <1>1, TakeGives, Calls
  <1>8. \A l \in Attempts : /\ task[l] = "none"
                            /\ l # k => ~IsCurrent(l)
                            /\ recorded[l] = "nothing" => execution[l] \notin Results
    <2>1. \A l \in Attempts : task[l] = "none" /\ (l # k => ~IsCurrent(l))
      BY <1>1, <1>7 DEF Tasks, Elsewhere, IsCurrent
    <2>2. execution[k] \notin Results
      <3>1. ASSUME execution[k] \in Results PROVE FALSE
        <4>1. held = [call |-> k, result |-> execution[k]]
          BY <1>7, <3>1 DEF HeldForTheHub
        <4>2. QED
          BY <1>1, <4>1
      <3>2. QED
        BY <3>1
    <2>3. \A l \in Attempts : l # k /\ recorded[l] = "nothing" => execution[l] \notin Results
      BY <2>1 DEF Elsewhere, Fresh, Results
    <2>4. QED
      BY <2>1, <2>2, <2>3
  <1>9. OnTheLine'
    <2>1. CASE Listening
      <3>1. conn' = "taken" /\ worker'.pc = "waiting" /\ pending' = <<>> /\ k = Asked
        BY <1>1, <1>2, <2>1, TakeGives DEF memory
      <3>2. worker'.command = k
        BY <1>2, <1>7, <3>1 DEF memory, Asked
      <3>3. QED
        BY <1>2, <1>3, <3>1, <3>2 DEF OnTheLine
    <2>2. CASE ~Listening
      <3>1. conn' = conn /\ conn \in {"none", "sent", "lost"}
        BY <1>1, <1>2, <2>2, TakeGives
      <3>2. conn' = "sent" => pending' # <<>> /\ pending'[Len(pending')] = Asked'
        BY <1>1, <1>6, <2>2, <3>1, TakeGives
      <3>3. QED
        BY <1>2, <3>1, <3>2 DEF OnTheLine, memory
    <2>3. QED
      BY <2>1, <2>2
  <1>10. Elsewhere' /\ ReportsFirst'
    <2>1. /\ \A i, j \in DOMAIN pending' : i < j /\ pending'[j] = ReportCall => pending'[i] = ReportCall
          /\ \A v : Without(pending, v) => Without(pending', v)
      BY <1>1, TakeGives
    <2>2. worker' = worker /\ execution' = execution /\ began' = began
      BY <1>2 DEF memory
    <2>3. Elsewhere'
      BY <1>3, <1>4, <1>6, <1>7, <1>8, <2>1, <2>2 DEF Elsewhere, Fresh
    <2>4. ReportsFirst'
      BY <1>6, <1>7, <2>1, <2>2 DEF ReportsFirst
    <2>5. QED
      BY <2>3, <2>4
  <1>11. Tasks'
    <2> SUFFICES ASSUME NEW l \in Attempts
                 PROVE  /\ task'[l] # "none" <=> latest' = l
                        /\ task'[l] = "working" <=> execution'[l] = "running"
                        /\ task'[l] # "none" => execution'[l] \notin Results
                        /\ held'.call = l /\ held'.result # "none" => execution'[l] = held'.result
      BY DEF Tasks
    <2>1. execution[l] # "running" /\ (task[l] = "working" <=> execution[l] = "running")
      BY <1>8 DEF Tasks
    <2>2. QED
      BY <1>2, <1>3, <1>4, <1>7, <1>8, <2>1
  <1>12. Removed' /\ HeldForTheHub'
    BY <1>2, <1>6, <1>7, <1>8 DEF Removed, HeldForTheHub
  <1>13. Beginnings'
    <2>1. /\ Troubles \in Nat /\ Troubles' = Troubles /\ GivenUp \in Int /\ GivenUp' \in Int /\ MayAsk
          /\ IF Listening THEN GivenUp = 0 /\ GivenUp' = 0 ELSE GivenUp' = GivenUp - 1 /\ MayAsk'
      <3>1. IF Listening THEN conn' \in {"taken", "answered"} ELSE conn' = conn
        BY <1>2
      <3>2. QED
        BY <1>1, <1>2, <3>1, TakeCounts DEF memory
    <2>2. \A l \in Attempts : began[l] \in Nat
      BY DEF Types
    <2>3. GivenUp' <= Troubles
      BY <2>1 DEF Beginnings
    <2>4. Listening => ~MayAsk'
      BY <1>2, <1>7 DEF MayAsk, memory
    <2>5. began[Current] + GivenUp + 1 <= Troubles + 1
      BY <1>7, <1>8, <2>1, <2>2 DEF Beginnings
    <2>6. began[Current] + GivenUp' + 1 + (IF MayAsk' THEN 1 ELSE 0) <= Troubles + 1
      BY <1>7, <2>1, <2>2, <2>4, <2>5
    <2>7. task'[Current] = "waiting"
      BY <1>3, <1>7
    <2>8. QED
      BY <1>2, <1>6, <2>1, <2>3, <2>6, <2>7 DEF Beginnings
  <1>14. QED
    BY <1>6, <1>9, <1>10, <1>11, <1>12, <1>13, InParts DEF OfInstance

LEMMA BeginStepKeeps ==
  ASSUME IInv, NEW k \in Attempts, BeginStep(k) PROVE IInv'
  <1> USE DEF IInv
  <1>1. /\ task[k] = "waiting" /\ task' = [task EXCEPT ![k] = "working"]
        /\ execution' = [execution EXCEPT ![k] = "running"] /\ began' = [began EXCEPT ![k] = began[k] + 1]
        /\ UNCHANGED <<registry, memory, line, held, latest, admitting, installed, counters>>
    BY DEF BeginStep
  <1>2. /\ \A l \in Attempts : task'[l] = (IF l = k THEN "working" ELSE task[l])
        /\ \A l \in Attempts : execution'[l] = (IF l = k THEN "running" ELSE execution[l])
        /\ \A l \in Attempts : began'[l] = (IF l = k THEN began[l] + 1 ELSE began[l])
        /\ task' \in [Attempts -> {"none", "waiting", "working"}] /\ began' \in [Attempts -> Nat]
        /\ execution' \in [Attempts -> Results \cup {"never", "running", "raised", "killed"}]
    BY <1>1, SMTT(40) DEF Types
  <1>3. Types'
    BY <1>1, <1>2, SMTT(40) DEF Types, registry, memory, line, counters
  <1>4. /\ OfHub' /\ (Active' <=> Active) /\ Current' = Current /\ Asked' = Asked
        /\ \A l \in Attempts : IsCurrent(l)' <=> IsCurrent(l)
        /\ \A l \in Attempts : recorded'[l] = recorded[l]
    BY <1>1, <1>3, HubUntouched DEF counters
  <1>5. IsCurrent(k) /\ k = Current /\ Active /\ installed /\ latest = k
    BY <1>1 DEF Elsewhere, IsCurrent, Removed, Tasks
  <1>6. OnTheLine'
    <2>1. conn # "answered" \/ worker.took # 0
      BY <1>1 DEF OnTheLine
    <2>2. worker'.took = 0 /\ conn' = "taken" => task'[worker'.command] # "none"
      <3>1. worker.took = 0 /\ conn = "taken" => worker.command = k
        BY <1>5 DEF OnTheLine, AtWork
      <3>2. QED
        BY <1>1, <1>2, <3>1 DEF memory, line
    <2>3. QED
      BY <1>1, <1>4, <2>1, <2>2 DEF OnTheLine, memory, line
  <1>7. Elsewhere'
    BY <1>1, <1>2, <1>4, <1>5 DEF Elsewhere, Fresh, line, Without
  <1>8. ReportsFirst'
    BY <1>1, <1>4, <1>5 DEF ReportsFirst, line, memory, Without
  <1>9. Tasks' /\ Removed'
    <2>1. execution[k] \notin Results
      BY <1>1 DEF Tasks
    <2>2. held.call = k => held.result = "none"
      <3>1. held.result \in Results \cup {"none"}
        BY DEF Types
      <3>2. QED
        BY <2>1, <3>1 DEF Tasks
    <2>3. QED
      BY <1>1, <1>2, <1>5, <2>2 DEF Tasks, Removed, Results
  <1>10. HeldForTheHub'
    BY <1>1, <1>2, <1>4 DEF HeldForTheHub, Results
  <1>11. Beginnings'
    <2>1. Troubles' = Troubles /\ GivenUp' = GivenUp /\ MayAsk' = MayAsk
      BY <1>1 DEF Troubles, GivenUp, MayAsk, line, memory, counters
    <2>2. Troubles \in Nat /\ GivenUp \in Int /\ GivenUp >= 0
      <3>1. Len(pending) \in Nat /\ (pending # <<>> => Len(pending) > 0)
        BY DEF Types
      <3>2. QED
        BY <3>1, Bounds, SMTT(40) DEF Types, Troubles, GivenUp, OnTheLine
    <2>3. \A l \in Attempts : began[l] \in Nat
      BY DEF Types
    <2>4. began[k] + GivenUp + 1 + (IF MayAsk THEN 1 ELSE 0) <= Troubles + 1
      BY <1>1, <1>5 DEF Beginnings
    <2>5. \A l \in Attempts : began'[l] <= Troubles + 1
      BY <1>2, <2>2, <2>3, <2>4 DEF Beginnings
    <2>6. began'[k] + GivenUp + 0 + (IF MayAsk THEN 1 ELSE 0) <= Troubles + 1
      BY <1>2, <2>2, <2>3, <2>4
    <2>7. task'[k] # "waiting"
      BY <1>2
    <2>8. QED
      BY <1>1, <1>4, <1>5, <2>1, <2>5, <2>6, <2>7 DEF Beginnings
  <1>12. QED
    BY <1>4, <1>6, <1>7, <1>8, <1>9, <1>10, <1>11, InParts DEF OfInstance

LEMMA TaskOverKeeps ==
  ASSUME IInv, NEW k \in Attempts, NEW result \in Results \cup {"error", "draining"}, TaskOver(k, result),
         task[k] # "none", result = "draining" => task[k] = "waiting", began' = began,
         NEW x \in Results \cup {"never", "raised", "killed"}, x \in Results \/ result \in Results => x = result,
         execution' = [execution EXCEPT ![k] = x]
  PROVE  IInv'
  <1> USE DEF IInv
  <1>1. IsCurrent(k) /\ k = Current /\ Active /\ installed /\ latest = k
    BY DEF Elsewhere, IsCurrent, Removed, Tasks
  <1>2. /\ task' = [task EXCEPT ![k] = "none"] /\ latest' = NoCall
        /\ held' = (IF result \in Results THEN [call |-> k, result |-> result] ELSE Nothing)
        /\ IF conn = "taken" /\ Asked = k THEN conn' = "answered" /\ answer' = result
                                          ELSE UNCHANGED <<conn, answer>>
        /\ UNCHANGED <<registry, memory, pending, admitting, installed, counters>>
    BY <1>1 DEF TaskOver, Answered
  <1>3. /\ \A l \in Attempts : task'[l] = (IF l = k THEN "none" ELSE task[l])
        /\ \A l \in Attempts : execution'[l] = (IF l = k THEN x ELSE execution[l])
        /\ task' \in [Attempts -> {"none", "waiting", "working"}]
        /\ execution' \in [Attempts -> Results \cup {"never", "running", "raised", "killed"}]
    BY <1>2 DEF Types
  <1>4. Types'
    <2>1. held' \in [call : Attempts \cup {NoCall}, result : Results \cup {"none"}] /\ latest' \in Attempts \cup {NoCall}
      BY <1>2 DEF Nothing
    <2>2. /\ conn' \in {"none", "sent", "taken", "answered", "lost"}
          /\ answer' \in Results \cup {"none", "restarted", "error", "draining"}
      BY <1>2 DEF Types
    <2>3. QED
      BY <1>2, <1>3, <2>1, <2>2, SMTT(40) DEF Types, registry, memory, counters
  <1>5. /\ OfHub' /\ (Active' <=> Active) /\ Current' = Current /\ Asked' = Asked
        /\ \A l \in Attempts : IsCurrent(l)' <=> IsCurrent(l)
        /\ \A l \in Attempts : recorded'[l] = recorded[l]
    BY <1>2, <1>4, HubUntouched DEF counters
  <1>6. \A l \in Attempts : /\ task'[l] = "none"
                            /\ l # k => ~IsCurrent(l) /\ task[l] = "none" /\ execution[l] # "running"
                            /\ held'.call = l => l = k
    <2>1. \A l \in Attempts : l # k => ~IsCurrent(l) /\ task[l] = "none"
      BY <1>1 DEF IsCurrent, Tasks
    <2>2. held'.call \in {k, NoCall}
      BY <1>2 DEF Nothing
    <2>3. QED
      BY <1>3, <2>1, <2>2, Calls DEF Tasks
  <1>7. worker.took = 0 /\ worker.pc = "waiting" => Asked = k /\ worker.command = k
    BY <1>1 DEF AtWork, Asked
  <1>8. worker.took # 0 => Asked # k
    BY Calls DEF Asked
  <1>9. OnTheLine'
    <2>1. (worker.took # 0 \/ conn # "answered") /\ (conn = "none" <=> worker.pc # "waiting")
      BY DEF OnTheLine
    <2>2. CASE conn = "taken" /\ Asked = k
      <3>1. worker.took = 0 /\ worker.pc = "waiting" /\ pending = <<>>
        BY <1>8, <2>1, <2>2 DEF OnTheLine
      <3>2. conn' = "answered" /\ answer' = result /\ worker' = worker /\ worker.command = k /\ pending' = <<>>
        BY <1>2, <1>7, <2>2, <3>1 DEF memory
      <3>3. execution'[k] = x
        BY <1>3
      <3>4. QED
        BY <1>6, <3>1, <3>2, <3>3 DEF OnTheLine
    <2>3. CASE ~(conn = "taken" /\ Asked = k)
      <3>1. conn' = conn /\ worker' = worker /\ pending' = pending
        BY <1>2, <2>3 DEF memory
      <3>2. worker.took # 0 \/ conn \notin {"taken", "answered"}
        BY <1>7, <2>1, <2>3
      <3>3. QED
        BY <1>5, <3>1, <3>2 DEF OnTheLine
    <2>4. QED
      BY <2>2, <2>3
  <1>10. Elsewhere'
    BY <1>2, <1>3, <1>5, <1>6, <1>1 DEF Elsewhere, Fresh, Without
  <1>11. ReportsFirst'
    BY <1>1, <1>2, <1>5 DEF ReportsFirst, memory, Without
  <1>12. Tasks'
    <2> SUFFICES ASSUME NEW l \in Attempts
                 PROVE  /\ task'[l] # "none" <=> latest' = l
                        /\ task'[l] = "working" <=> execution'[l] = "running"
                        /\ task'[l] # "none" => execution'[l] \notin Results
                        /\ held'.call = l /\ held'.result # "none" => execution'[l] = held'.result
      BY DEF Tasks
    <2>1. latest' # l /\ task'[l] = "none"
      BY <1>2, <1>6, Calls
    <2>2. execution'[l] # "running"
      BY <1>3, <1>6 DEF Results
    <2>3. held'.call = l /\ held'.result # "none" => l = k /\ held'.result = result /\ result \in Results
      BY <1>2, <1>6 DEF Nothing
    <2>4. QED
      BY <1>3, <2>1, <2>2, <2>3
  <1>13. Removed' /\ HeldForTheHub'
    <2>1. \A l \in Attempts : l # k /\ recorded[l] = "nothing" => execution[l] = "never"
      BY <1>6 DEF Elsewhere, Fresh
    <2>2. \A l \in Attempts : execution'[l] \in Results /\ recorded[l] = "nothing" => l = k /\ x \in Results
      BY <1>3, <2>1 DEF Results
    <2>3. x \in Results => held' = [call |-> k, result |-> execution'[k]]
      BY <1>2, <1>3
    <2>4. QED
      BY <1>1, <1>2, <1>5, <2>2, <2>3 DEF HeldForTheHub, Removed
  <1>14. Beginnings'
    <2>1. Troubles' = Troubles /\ GivenUp' = GivenUp
      BY <1>2 DEF Troubles, GivenUp, counters
    <2>2. Troubles \in Nat /\ GivenUp \in Int /\ began[k] \in Nat
      BY Bounds, SMTT(40) DEF Types, Troubles, GivenUp
    <2>3. began[k] + GivenUp + (IF task[k] = "waiting" THEN 1 ELSE 0) + (IF MayAsk THEN 1 ELSE 0) <= Troubles + 1
      BY <1>1 DEF Beginnings
    <2>4. MayAsk' => MayAsk \/ task[k] = "waiting"
      <3>1. CASE conn = "taken" /\ Asked = k
        <4>1. conn' = "answered" /\ answer' = result /\ worker' = worker /\ worker.took = 0
          BY <1>2, <1>8, <3>1 DEF memory
        <4>2. QED
          BY <4>1 DEF MayAsk
      <3>2. CASE ~(conn = "taken" /\ Asked = k)
        BY <1>2, <3>2 DEF MayAsk, memory
      <3>3. QED
        BY <3>1, <3>2
    <2>5. began[k] + GivenUp + 0 + (IF MayAsk' THEN 1 ELSE 0) <= Troubles + 1
      BY <2>2, <2>3, <2>4
    <2>6. task'[k] # "waiting" /\ began' = began
      BY <1>6
    <2>7. QED
      BY <1>1, <1>5, <2>1, <2>5, <2>6 DEF Beginnings
  <1>15. QED
    BY <1>5, <1>9, <1>10, <1>11, <1>12, <1>13, <1>14, InParts DEF OfInstance

LEMMA TaskEndsKeeps ==
  ASSUME IInv, NEW k \in Attempts, (\E r \in Results : StepEnds(k, r)) \/ StepRaises(k) \/ StepRefused(k)
  PROVE  IInv'
  <1>1. ASSUME NEW r \in Results, StepEnds(k, r) PROVE IInv'
    BY <1>1, TaskOverKeeps DEF StepEnds, Results
  <1>2. CASE StepRaises(k)
    <2>1. /\ TaskOver(k, "error") /\ task[k] # "none" /\ began' = began
          /\ execution' = [execution EXCEPT ![k] = "raised"]
      BY <1>2 DEF StepRaises
    <2>2. "raised" \notin Results /\ "error" \notin Results
      BY DEF Results
    <2>3. QED
      BY <2>1, <2>2, TaskOverKeeps
  <1>3. CASE StepRefused(k)
    <2>1. execution[k] \in {"never", "raised", "killed"} /\ execution \in [Attempts -> Results \cup {"never", "running", "raised", "killed"}]
      BY <1>3 DEF StepRefused, IInv, Tasks, Types
    <2>2. execution' = [execution EXCEPT ![k] = execution[k]]
      BY <1>3, <2>1 DEF StepRefused
    <2>3. TaskOver(k, "draining") /\ task[k] = "waiting" /\ began' = began
      BY <1>3 DEF StepRefused
    <2>4. execution[k] \notin Results /\ "draining" \notin Results
      BY <2>1 DEF Results
    <2>5. QED
      BY <2>1, <2>2, <2>3, <2>4, TaskOverKeeps
  <1>4. QED
    BY <1>1, <1>2, <1>3

LEMMA ReportEndsKeeps ==
  ASSUME IInv, ReportEnds PROVE IInv'
  <1> USE DEF IInv
  <1>1. /\ conn = "taken" /\ conn' = "answered" /\ answer' \in Results \cup {"draining"} /\ Asked = ReportCall
        /\ UNCHANGED <<registry, memory, pending, instance, counters>>
    BY DEF ReportEnds, Answered
  <1>2. worker.took # 0 /\ worker.pc = "waiting"
    <2>1. worker.pc = "waiting"
      BY <1>1 DEF OnTheLine
    <2>2. worker.took = 0 => Asked = Current /\ Active
      BY <2>1 DEF AtWork, Active, Asked
    <2>3. QED
      BY <1>1, <2>1, <2>2, CurrentIsAttempt, Calls
  <1>3. Types'
    BY <1>1, SMTT(40) DEF Types, registry, memory, instance, counters
  <1>4. /\ OfHub' /\ (Active' <=> Active) /\ Current' = Current /\ Asked' = Asked
        /\ \A l \in Attempts : IsCurrent(l)' <=> IsCurrent(l)
        /\ \A l \in Attempts : recorded'[l] = recorded[l]
    BY <1>1, <1>3, HubUntouched DEF counters, instance
  <1>5. OnTheLine'
    BY <1>1, <1>2 DEF OnTheLine, memory
  <1>6. Elsewhere' /\ ReportsFirst' /\ Tasks' /\ Removed' /\ HeldForTheHub'
    BY <1>1, <1>4 DEF Elsewhere, ReportsFirst, Tasks, Removed, HeldForTheHub, Fresh, instance, memory
  <1>7. Beginnings'
    <2>1. Troubles' = Troubles /\ GivenUp' = GivenUp /\ MayAsk' = MayAsk
      BY <1>1, <1>2 DEF Troubles, GivenUp, MayAsk, counters, memory
    <2>2. QED
      BY <1>1, <1>4, <2>1 DEF Beginnings, instance
  <1>8. QED
    BY <1>4, <1>5, <1>6, <1>7, InParts DEF OfInstance

LEMMA LoseConnectionKeeps ==
  ASSUME IInv, LoseConnection PROVE IInv'
  <1> USE DEF IInv
  <1>1. /\ conn \in {"sent", "taken", "answered"} /\ conn' = "lost" /\ losses' = losses + 1 /\ losses < MaxLosses
        /\ UNCHANGED <<registry, memory, answer, instance, userRetries, hubRestarts, torn, instanceRestarts>>
    BY DEF LoseConnection
  <1>2. /\ Len(pending) \in Nat /\ Len(pending') \in Nat /\ pending' \in Seq(Attempts \cup {ReportCall})
        /\ Len(pending') = Len(pending) \/ (conn = "sent" /\ Len(pending') = Len(pending) - 1)
        /\ DOMAIN pending' \subseteq DOMAIN pending /\ \A i \in DOMAIN pending' : pending'[i] = pending[i]
    <2>1. pending \in Seq(Attempts \cup {ReportCall}) /\ Len(pending) \in Nat
      BY DEF Types
    <2>2. CASE pending' = pending
      BY <2>1, <2>2
    <2>3. CASE conn = "sent" /\ pending' = SubSeq(pending, 1, Len(pending) - 1)
      <3>1. pending # <<>> /\ Len(pending) > 0
        BY <2>1, <2>3 DEF OnTheLine
      <3>2. /\ pending' \in Seq(Attempts \cup {ReportCall}) /\ Len(pending') = Len(pending) - 1
            /\ \A i \in 1..(Len(pending) - 1) : pending'[i] = pending[i]
        BY <2>1, <2>3, <3>1, Shortened
      <3>3. QED
        BY <2>1, <2>3, <3>1, <3>2
    <2>4. QED
      BY <2>2, <2>3 DEF LoseConnection
  <1>3. Types'
    <2>1. losses' \in 0..MaxLosses
      BY <1>1, Bounds DEF Types
    <2>2. QED
      BY <1>1, <1>2, <2>1, SMTT(40) DEF Types, registry, memory, instance
  <1>4. /\ OfHub' /\ (Active' <=> Active) /\ Current' = Current /\ Asked' = Asked
        /\ \A l \in Attempts : IsCurrent(l)' <=> IsCurrent(l)
        /\ \A l \in Attempts : recorded'[l] = recorded[l]
    BY <1>1, <1>3, HubUntouched DEF instance
  <1>5. \A v : Without(pending, v) => Without(pending', v)
    BY <1>2 DEF Without
  <1>6. OnTheLine'
    BY <1>1 DEF OnTheLine, memory
  <1>7. Elsewhere' /\ Tasks' /\ HeldForTheHub'
    BY <1>1, <1>4, <1>5 DEF Elsewhere, Tasks, HeldForTheHub, Fresh, instance
  <1>8. ReportsFirst'
    BY <1>1, <1>2, <1>4, <1>5 DEF ReportsFirst, Fresh, instance, memory
  <1>9. Removed'
    <2>1. ~installed => pending' = <<>>
      BY <1>2 DEF Removed
    <2>2. QED
      BY <1>1, <2>1 DEF Removed, instance
  <1>10. Beginnings'
    <2>1. Troubles \in Nat /\ Troubles' = Troubles + 1
      BY <1>1, Bounds, SMTT(40) DEF Types, Troubles
    <2>2. GivenUp \in Int /\ GivenUp' \in Int /\ GivenUp' <= GivenUp + 1 /\ (conn # "sent" => GivenUp' = GivenUp)
      BY <1>1, <1>2 DEF GivenUp
    <2>3. MayAsk' /\ (conn = "sent" => MayAsk)
      BY <1>1 DEF MayAsk
    <2>4. \A l \in Attempts : began[l] \in Nat
      BY DEF Types
    <2>5. Active /\ installed =>
            began[Current] + GivenUp' + (IF task[Current] = "waiting" THEN 1 ELSE 0) + 1 <= Troubles' + 1
      <3> SUFFICES ASSUME Active, installed
                   PROVE  began[Current] + GivenUp' + (IF task[Current] = "waiting" THEN 1 ELSE 0) + 1 <= Troubles' + 1
        OBVIOUS
      <3>1. began[Current] \in Nat
        BY <2>4, CurrentIsAttempt
      <3>2. began[Current] + GivenUp + (IF task[Current] = "waiting" THEN 1 ELSE 0)
              + (IF MayAsk THEN 1 ELSE 0) <= Troubles + 1
        BY DEF Beginnings
      <3>3. CASE conn = "sent"
        BY <2>1, <2>2, <2>3, <3>1, <3>2, <3>3
      <3>4. CASE conn # "sent"
        BY <2>1, <2>2, <2>3, <3>1, <3>2, <3>4
      <3>5. QED
        BY <3>3, <3>4
    <2>6. GivenUp' <= Troubles' /\ \A l \in Attempts : began[l] <= Troubles' + 1
      BY <2>1, <2>2, <2>4 DEF Beginnings
    <2>7. QED
      BY <1>1, <1>4, <2>3, <2>5, <2>6 DEF Beginnings, instance
  <1>11. QED
    BY <1>4, <1>6, <1>7, <1>8, <1>9, <1>10, InParts DEF OfInstance

LEMMA DrainKeeps ==
  ASSUME IInv, Drain PROVE IInv'
  <1> USE DEF IInv
  <1>1. UNCHANGED <<registry, memory, line, held, latest, task, installed, execution, began, counters>> /\ admitting' = FALSE
    BY DEF Drain
  <1>2. Types'
    <2>1. UNCHANGED <<registry, memory, line, counters>>
      BY <1>1
    <2>2. UNCHANGED <<held, latest, task, installed, execution, began>> /\ admitting' \in BOOLEAN
      BY <1>1
    <2>3. QED
      BY <2>1, <2>2, SMTT(40) DEF Types, registry, memory, line, counters
  <1>3. /\ OfHub' /\ (Active' <=> Active) /\ Current' = Current /\ Asked' = Asked
        /\ \A l \in Attempts : IsCurrent(l)' <=> IsCurrent(l)
        /\ \A l \in Attempts : recorded'[l] = recorded[l]
    BY <1>1, <1>2, HubUntouched DEF counters
  <1>4. OnTheLine' /\ Elsewhere' /\ ReportsFirst'
    BY <1>1, <1>3 DEF OnTheLine, Elsewhere, ReportsFirst, Fresh, line, memory
  <1>5. Tasks' /\ Removed' /\ HeldForTheHub'
    BY <1>1, <1>3 DEF Tasks, Removed, HeldForTheHub, line
  <1>6. Beginnings'
    BY <1>1, <1>3 DEF Beginnings, Troubles, GivenUp, MayAsk, line, memory, counters
  <1>7. QED
    BY <1>3, <1>4, <1>5, <1>6, InParts DEF OfInstance

LEMMA StopInstanceKeeps ==
  ASSUME IInv, StopInstance, UNCHANGED <<registry, memory, userRetries, hubRestarts, torn, losses>>, admitting' \in BOOLEAN,
         \/ installed' = installed /\ instanceRestarts' = instanceRestarts + 1 /\ instanceRestarts < MaxInstanceRestarts
         \/ installed' = FALSE /\ instanceRestarts' = instanceRestarts
  PROVE  IInv'
  <1> USE DEF IInv
  <1>1. /\ latest' = NoCall /\ pending' = <<>> /\ conn' = (IF conn = "none" THEN "none" ELSE "lost")
        /\ UNCHANGED <<answer, held, began>>
        /\ \A k \in Attempts : task'[k] = "none"
        /\ \A k \in Attempts : execution'[k] = (IF task[k] = "working" THEN "killed" ELSE execution[k])
        /\ task' \in [Attempts -> {"none", "waiting", "working"}]
        /\ execution' \in [Attempts -> Results \cup {"never", "running", "raised", "killed"}]
    BY DEF StopInstance, Types
  <1>2. Types'
    <2>1. instanceRestarts' \in 0..MaxInstanceRestarts
      <3>1. instanceRestarts \in 0..MaxInstanceRestarts
        BY DEF Types
      <3>2. QED
        BY <3>1, Bounds
    <2>4. installed' \in BOOLEAN
      BY DEF Types
    <2>2. conn' \in {"none", "sent", "taken", "answered", "lost"} /\ pending' \in Seq(Attempts \cup {ReportCall})
      BY <1>1
    <2>3. QED
      BY <1>1, <2>1, <2>2, <2>4, SMTT(40) DEF Types, registry, memory
  <1>3. /\ OfHub' /\ (Active' <=> Active) /\ Current' = Current /\ Asked' = Asked
        /\ \A l \in Attempts : IsCurrent(l)' <=> IsCurrent(l)
        /\ \A l \in Attempts : recorded'[l] = recorded[l]
    BY <1>2, HubUntouched
  <1>4. /\ \A v : Without(pending', v)
        /\ \A k \in Attempts : execution'[k] \in Results => execution'[k] = execution[k]
        /\ \A k \in Attempts : Fresh(k) => Fresh(k)'
    BY <1>1, Empty DEF Fresh, Results, Tasks
  <1>5. OnTheLine'
    BY <1>1 DEF OnTheLine, memory
  <1>6. Elsewhere'
    BY <1>1, <1>3, <1>4 DEF Elsewhere
  <1>7. ReportsFirst'
    <2>1. DOMAIN pending' = {}
      BY <1>1
    <2>2. Active => Current \in Attempts
      BY CurrentIsAttempt
    <2>3. Active /\ worker.took # 0 => Fresh(Current)'
      BY <1>3, <1>4, <2>2 DEF ReportsFirst, Fresh
    <2>4. worker' = worker
      BY DEF memory
    <2>5. QED
      BY <1>1, <1>3, <1>4, <2>1, <2>2, <2>3, <2>4 DEF ReportsFirst
  <1>8. Tasks'
    <2> SUFFICES ASSUME NEW l \in Attempts
                 PROVE  /\ task'[l] # "none" <=> latest' = l
                        /\ task'[l] = "working" <=> execution'[l] = "running"
                        /\ task'[l] # "none" => execution'[l] \notin Results
                        /\ held'.call = l /\ held'.result # "none" => execution'[l] = held'.result
      BY DEF Tasks
    <2>1. latest' # l /\ task'[l] = "none"
      BY <1>1, Calls
    <2>2. execution'[l] # "running"
      BY <1>1 DEF Tasks
    <2>3. held.call = l /\ held.result # "none" => execution[l] = held.result /\ task[l] # "working"
      <3>1. held.result \in Results \cup {"none"}
        BY DEF Types
      <3>2. QED
        BY <3>1 DEF Tasks
    <2>4. QED
      BY <1>1, <2>1, <2>2, <2>3
  <1>9. Removed' /\ HeldForTheHub'
    BY <1>1, <1>3, <1>4 DEF Removed, HeldForTheHub
  <1>10. Beginnings'
    <2>1. Troubles \in Nat /\ Troubles' = Troubles + (instanceRestarts' - instanceRestarts) /\ instanceRestarts \in Nat
      BY Bounds, SMTT(40) DEF Types, Troubles
    <2>2. GivenUp' = 0
      BY <1>1 DEF GivenUp
    <2>3. \A l \in Attempts : began[l] \in Nat /\ began[l] <= Troubles + 1
      BY DEF Types, Beginnings
    <2>4. Active => Current \in Attempts
      BY CurrentIsAttempt
    <2>5. installed' => Troubles' = Troubles + 1 
      BY <2>1
    <2>6. Active /\ installed' => began[Current] + 0 + 0 + (IF MayAsk' THEN 1 ELSE 0) <= Troubles' + 1
      BY <2>1, <2>3, <2>4, <2>5
    <2>7. GivenUp' <= Troubles' /\ \A l \in Attempts : began[l] <= Troubles' + 1
      BY <2>1, <2>2, <2>3
    <2>8. Active => task'[Current] # "waiting"
      BY <1>1, <2>4
    <2>9. QED
      BY <1>1, <1>3, <2>2, <2>6, <2>7, <2>8 DEF Beginnings
  <1>11. QED
    BY <1>3, <1>5, <1>6, <1>7, <1>8, <1>9, <1>10, InParts DEF OfInstance

LEMMA KeptInStep == IInv /\ [Next]_vars => IInv'
  <1> SUFFICES ASSUME IInv, [Next]_vars PROVE IInv'
    OBVIOUS
  <1>1. CASE TakeStep \/ Unreached \/ Send \/ Lost \/ Refused \/ Resend
    BY <1>1, TakeStepKeeps, UnreachedKeeps, SendKeeps, LostKeeps, RefusedKeeps, ResendKeeps
  <1>2. CASE EndAttempt \/ Settle \/ UserRetry
    BY <1>2, EndAttemptKeeps, SettleKeeps, UserRetryKeeps
  <1>3. CASE TakeReport \/ Reported \/ \E stop \in later : ReportAgain(stop)
    BY <1>3, TakeReportKeeps, ReportedKeeps, ReportAgainKeeps
  <1>4. CASE TakeReportCall \/ ReportEnds
    BY <1>4, TakeReportCallKeeps, ReportEndsKeeps
  <1>5. ASSUME NEW k \in Attempts, JoinTask(k) \/ AnswerHeld(k) \/ StartTask(k) \/ BeginStep(k)
        PROVE  IInv'
    BY <1>5, JoinTaskKeeps, AnswerHeldKeeps, StartTaskKeeps, BeginStepKeeps
  <1>6. ASSUME NEW k \in Attempts, StepRaises(k) \/ StepRefused(k) \/ \E r \in Results : StepEnds(k, r)
        PROVE  IInv'
    BY <1>6, TaskEndsKeeps
  <1>7. CASE LoseConnection \/ Drain \/ RestartHub
    BY <1>7, LoseConnectionKeeps, DrainKeeps, RestartHubKeeps
  <1>8. CASE RestartInstance
    BY <1>8, StopInstanceKeeps DEF RestartInstance
  <1>9. CASE RemoveInstance
    <2>1. admitting' \in BOOLEAN
      BY <1>9 DEF RemoveInstance, IInv, Types
    <2>2. QED
      BY <1>9, <2>1, StopInstanceKeeps DEF RemoveInstance, counters
  <1>10. CASE UNCHANGED vars
    <2>1. Types'
      <3>1. Types /\ UNCHANGED <<registry, memory, line, instance, counters>>
        BY <1>10 DEF vars, IInv
      <3>2. RegistryTyped' /\ MemoryTyped'
        BY <3>1, SMTT(20) DEF Types, registry, memory, RegistryTyped, MemoryTyped
      <3>3. QED
        BY <3>1, <3>2, TypedApart DEF Types, line, counters
    <2>2. OfHub'
      BY <1>10, <2>1, HubUntouched DEF vars, counters, instance
    <2>3. OfInstance'
      BY <1>10, InstanceUntouched DEF vars, registry, memory, line, counters, Active
    <2>4. QED
      BY <2>2, <2>3, InParts
  <1>11. QED
    BY <1>1, <1>2, <1>3, <1>4, <1>5, <1>6, <1>7, <1>8, <1>9, <1>10 DEF Next, LeftAlone

-----------------------------------------------------------------------------
(* What the invariant gives.                                               *)

LEMMA InRange == IInv => TypeOK
  <1> SUFFICES ASSUME IInv PROVE TypeOK
    OBVIOUS
  <1> USE DEF IInv
  <1>1. ended \in [Steps -> 0..((Retries + 1) * (MaxUserRetries + 1))]
    <2> DEFINE most == (Retries + 1) * userRetries
               all == (Retries + 1) * (MaxUserRetries + 1)
    <2>1. userRetries \in Nat /\ userRetries <= MaxUserRetries /\ at \in Steps /\ spent[at] \in Nat /\ spent[at] <= Retries + 1
      BY Bounds DEF Types
    <2>2. most \in Nat /\ most + Retries + 1 <= all /\ all \in Nat
      BY <2>1, Bounds, Allowance
    <2>3. /\ status # "needs_human" => spent[at] <= Retries
          /\ ended[at] <= most + spent[at] + (IF Active \/ status = "needs_human" THEN 0 ELSE 1)
          /\ \A s \in Steps : /\ s > at => ended[s] = 0
                              /\ s < at => ended[s] <= most + Retries + 1
      BY DEF Budget
    <2> HIDE DEF most, all
    <2>4. ended[at] <= most + Retries + 1
      BY <2>1, <2>2, <2>3, Bounds DEF Types
    <2>5. \A s \in Steps : ended[s] <= most + Retries + 1
      BY <2>1, <2>2, <2>3, <2>4, Bounds DEF Steps
    <2>6. \A s \in Steps : ended[s] \in 0..all
      BY <2>2, <2>5, Bounds DEF Types
    <2>7. ended \in [Steps -> 0..all]
      BY <2>6 DEF Types
    <2>8. QED
      BY <2>7 DEF all
  <1>2. stops \in 0..MaxUserRetries + 1
    BY Bounds DEF Budget, Types
  <1>3. began \in [Attempts -> 0..MaxInstanceRestarts + MaxLosses + MaxHubRestarts + 1]
    <2>1. Troubles + 1 <= MaxInstanceRestarts + MaxLosses + MaxHubRestarts + 1 /\ Troubles \in Nat
      BY Bounds, SMTT(40) DEF Types, Troubles
    <2>2. \A k \in Attempts : began[k] \in 0..MaxInstanceRestarts + MaxLosses + MaxHubRestarts + 1
      BY <2>1, Bounds, SMTT(40) DEF Types, Beginnings
    <2>3. QED
      BY <2>2 DEF Types
  <1>4. QED
    BY <1>1, <1>2, <1>3, SMTT(40) DEF Types, TypeOK

LEMMA NeverTwo == IInv => OneSession /\ ReportOwed
  <1> SUFFICES ASSUME IInv PROVE OneSession /\ ReportOwed
    OBVIOUS
  <1> USE DEF IInv
  <1>1. OneSession
    BY DEF OneSession, Tasks
  <1>2. ReportOwed
    BY DEF ReportOwed, Owing, Without, OnceIn
  <1>3. QED
    BY <1>1, <1>2

LEMMA OneAtIt == IInv /\ torn = 0 => OneDriver /\ NeverStranded
  <1> SUFFICES ASSUME IInv, torn = 0 PROVE OneDriver /\ NeverStranded
    OBVIOUS
  <1>1. Driven /\ ~Stranded
    BY DEF IInv, Stranded
  <1>2. OneDriver
    BY <1>1 DEF OneDriver, Driven, Offered, Without, OnceIn
  <1>3. NeverStranded
    BY <1>1 DEF NeverStranded, Driven, Offered
  <1>4. QED
    BY <1>2, <1>3

\* Whatever is lost, restarted or removed, and however often: two executions never share the
\* instance, a finished one is held until the hub has its answer, and the report of a stop is owed
\* in exactly one place until it is delivered (hub/runs.py, core/held_results.py).
THEOREM HeldAndOwed == Spec => [](TypeOK /\ OneSession /\ HeldForTheHub /\ ReportOwed)
  <1>1. IInv => TypeOK /\ OneSession /\ HeldForTheHub /\ ReportOwed
    BY InRange, NeverTwo DEF IInv
  <1>2. QED
    BY StartsInStep, KeptInStep, <1>1, PTL DEF Spec

\* Until the hub stops between the two transactions that settle a step, a run at work has one
\* driver and is never left to nobody (runs.py: _settle, resume).
THEOREM DrivenUntilTorn == Spec => [](torn = 0 => OneDriver /\ NeverStranded)
  BY StartsInStep, KeptInStep, OneAtIt, PTL DEF Spec

\* Where the hub never stops there, the worker, the hub's record and what the instance holds stay
\* in step, for every number of steps, retries, restarts and losses.
THEOREM InStep == ASSUME MaxTornRestarts = 0 PROVE Spec => []StepCallsInv
  <1>1. IInv => torn = 0
    BY DEF IInv, Types
  <1>2. IInv => StepCallsInv
    BY <1>1, InRange, NeverTwo, OneAtIt DEF IInv, StepCallsInv
  <1>3. QED
    BY StartsInStep, KeptInStep, <1>2, PTL DEF Spec

-----------------------------------------------------------------------------
(* The implementation of StepOnce.                                         *)

\* The call of a task is the one held, and a call whose task died with the instance is held until
\* the attempt is recorded: so it is answered, and not started again.
Killed ==
    \A k \in Attempts :
        /\ task[k] # "none" => held.call = k
        /\ task[k] = "waiting" => execution[k] \in {"never", "raised"}
        /\ execution[k] = "killed" /\ recorded[k] = "nothing" => held.call = k

LEMMA KilledStays == IInv /\ Killed /\ [Next]_vars => Killed'
  <1> SUFFICES ASSUME IInv, Killed, [Next]_vars PROVE Killed'
    OBVIOUS
  <1> DEFINE Kept == \A k \in Attempts : recorded'[k] = "nothing" => recorded[k] = "nothing"
  <1>1. ASSUME UNCHANGED <<held, task, execution>>, Kept PROVE Killed'
    BY <1>1 DEF Killed
  <1>2. ASSUME NEW s \in Steps, NEW n, NEW f, NEW q, Enqueue(s, n, f, q), IInv PROVE Kept
    BY <1>2 DEF Enqueue, RefuseAtOnce, IInv, Types
  <1>3. IInv'
    BY KeptInStep
  <1>4. CASE TakeStep \/ Unreached \/ Send \/ Lost \/ Refused \/ TakeReport \/ Reported
    BY <1>1, <1>4 DEF TakeStep, Unreached, Send, Lost, Refused, TakeReport, Reported, Offer, Undelivered,
                      DropAttempt, registry, instance
  <1>5. CASE Resend
    <2>1. Kept
      <3>1. at \in Steps
        BY DEF IInv, Types
      <3>2. QED
        BY <1>2, <1>5, <3>1 DEF Resend, Offer
    <2>2. QED
      BY <1>1, <1>5, <2>1 DEF Resend, instance
  <1>6. CASE EndAttempt
    <2>1. Kept
      BY <1>6 DEF EndAttempt, IInv, Types, Results
    <2>2. QED
      BY <1>1, <1>6, <2>1 DEF EndAttempt, instance
  <1>7. CASE Settle
    <2>1. at \in Steps
      BY DEF IInv, Types
    <2>2. at < LastStep => at + 1 \in Steps
      BY <2>1, Bounds DEF Steps
    <2>3. Kept
      BY <1>2, <1>7, <2>1, <2>2 DEF Settle
    <2>4. QED
      BY <1>1, <1>7, <2>3 DEF Settle, instance
  <1>8. CASE UserRetry \/ RestartHub
    <2>1. at \in Steps
      BY DEF IInv, Types
    <2>2. Kept
      BY <1>2, <1>8, <2>1 DEF UserRetry, RestartHub, registry
    <2>3. QED
      BY <1>1, <1>8, <2>2 DEF UserRetry, RestartHub, instance
  <1>9. ASSUME NEW stop \in later, ReportAgain(stop) PROVE Killed'
    BY <1>1, <1>9 DEF ReportAgain, registry, instance
  <1>10. CASE TakeReportCall
    <2>1. /\ Take(ReportCall) /\ UNCHANGED <<recorded, task, execution>>
      BY <1>10 DEF TakeReportCall, registry
    <2>2. Active => Fresh(Current) /\ task[Current] = "none"
      BY <2>1, TakeGives DEF IInv, ReportsFirst
    <2>3. \A k \in Attempts : task[k] = "none" /\ (recorded[k] = "nothing" => execution[k] = "never")
      BY <2>2 DEF IInv, Elsewhere, IsCurrent, Fresh
    <2>4. QED
      BY <2>1, <2>3 DEF Killed
  <1>11. ASSUME NEW k \in Attempts, JoinTask(k) \/ AnswerHeld(k) PROVE Killed'
    BY <1>1, <1>11 DEF JoinTask, AnswerHeld, registry, instance
  <1>12. ASSUME NEW k \in Attempts, StartTask(k) PROVE Killed'
    <2>1. /\ Take(k) /\ latest # k /\ held.call # k /\ held'.call = k
          /\ task' = [task EXCEPT ![k] = "waiting"] /\ UNCHANGED <<recorded, execution>>
      BY <1>12 DEF StartTask, registry
    <2>2. IsCurrent(k) /\ recorded[k] = "nothing"
      BY <2>1, TakeGives
    <2>3. execution[k] \in {"never", "raised"}
      <3>1. task[k] = "none" /\ execution[k] # "running" /\ execution[k] # "killed"
        BY <2>1, <2>2 DEF Killed, IInv, Tasks
      <3>2. execution[k] \notin Results
        <4>1. execution[k] \in Results => held = [call |-> k, result |-> execution[k]]
          BY <2>2 DEF IInv, HeldForTheHub
        <4>2. QED
          BY <2>1, <4>1
      <3>3. execution[k] \in Results \cup {"never", "running", "raised", "killed"}
        BY DEF IInv, Types
      <3>4. QED
        BY <3>1, <3>2, <3>3
    <2>4. \A l \in Attempts : l # k => task[l] = "none" /\ (recorded[l] = "nothing" => execution[l] = "never")
      BY <2>2 DEF IInv, Elsewhere, IsCurrent, Fresh
    <2>5. \A l \in Attempts : task'[l] = (IF l = k THEN "waiting" ELSE task[l])
      BY <2>1 DEF IInv, Types
    <2>6. QED
      BY <2>1, <2>3, <2>4, <2>5 DEF Killed
  <1>13. ASSUME NEW k \in Attempts, BeginStep(k) PROVE Killed'
    <2>1. /\ UNCHANGED <<recorded, held>> /\ task[k] = "waiting"
          /\ \A l \in Attempts : task'[l] = (IF l = k THEN "working" ELSE task[l])
          /\ \A l \in Attempts : execution'[l] = (IF l = k THEN "running" ELSE execution[l])
      BY <1>13 DEF BeginStep, registry, IInv, Types
    <2>2. QED
      BY <2>1 DEF Killed
  <1>14. ASSUME NEW k \in Attempts, StepRaises(k) \/ StepRefused(k) \/ \E r \in Results : StepEnds(k, r)
         PROVE  Killed'
    <2>1. /\ task[k] # "none" /\ (\E r : TaskOver(k, r)) /\ recorded' = recorded
          /\ \A l \in Attempts : task'[l] = (IF l = k THEN "none" ELSE task[l])
          /\ \A l \in Attempts : l # k => execution'[l] = execution[l]
          /\ execution'[k] = "killed" => execution[k] = "killed" /\ task[k] = "waiting"
      BY <1>14 DEF StepRaises, StepRefused, StepEnds, TaskOver, registry, IInv, Types, Results
    <2>2. \A l \in Attempts : l # k => task[l] = "none" /\ (recorded[l] = "nothing" => execution[l] = "never")
      BY <2>1 DEF IInv, Elsewhere, IsCurrent, Fresh
    <2>3. QED
      BY <2>1, <2>2 DEF Killed
  <1>15. CASE ReportEnds \/ LoseConnection \/ Drain
    BY <1>1, <1>15 DEF ReportEnds, LoseConnection, Drain, registry, instance
  <1>16. CASE RestartInstance \/ RemoveInstance
    <2>1. /\ UNCHANGED <<recorded, held>> /\ \A k \in Attempts : task'[k] = "none"
          /\ \A k \in Attempts : execution'[k] = (IF task[k] = "working" THEN "killed" ELSE execution[k])
      BY <1>16 DEF RestartInstance, RemoveInstance, StopInstance, registry
    <2>2. QED
      BY <2>1 DEF Killed
  <1>17. CASE UNCHANGED vars
    BY <1>1, <1>17 DEF vars, registry, instance
  <1>18. QED
    BY <1>4, <1>5, <1>6, <1>7, <1>8, <1>9, <1>10, <1>11, <1>12, <1>13, <1>14, <1>15, <1>16, <1>17 DEF Next, LeftAlone

\* Attempts that fail with no instance to ask were recorded as nothing, and do not execute.
LEMMA RefusedUnasked ==
  ASSUME IInv, NEW s \in Steps, NEW n \in Nat, n = ended[s], NEW f, NEW q, Enqueue(s, n, f, q),
         installed \/ \A k \in Attempts : task[k] = "none", UNCHANGED execution
  PROVE  [Once!Next]_<<execution, recorded>>
  <1>1. CASE installed
    BY <1>1 DEF Enqueue
  <1>2. CASE ~installed
    <2> DEFINE last == n + Retries - f + 1
               refused == {k \in Attempts : k.step = s /\ k.attempt \in (n + 1)..last}
    <2>1. recorded' = [k \in Attempts |-> IF k \in refused THEN "refused" ELSE recorded[k]]
      BY <1>2 DEF Enqueue, RefuseAtOnce
    <2>2. \A k \in refused : recorded[k] = "nothing" /\ execution[k] # "running"
      <3> SUFFICES ASSUME NEW k \in refused PROVE recorded[k] = "nothing" /\ execution[k] # "running"
        OBVIOUS
      <3>1. k \in Attempts /\ k.step = s /\ k.attempt \in (n + 1)..last /\ k.attempt \in Nat
        BY Calls
      <3>2. k.attempt > ended[k.step]
        BY <3>1
      <3>3. recorded[k] = "nothing"
        BY <3>1, <3>2 DEF IInv, Record
      <3>4. QED
        BY <1>2, <3>1, <3>3 DEF IInv, Tasks
    <2>3. refused \in SUBSET Attempts
      OBVIOUS
    <2> HIDE DEF refused
    <2>4. Once!Refuse(refused)
      BY <2>1, <2>2 DEF Once!Refuse
    <2>5. QED
      BY <2>3, <2>4 DEF Once!Next
  <1>3. QED
    BY <1>1, <1>2

LEMMA StepOfOnce == IInv /\ Killed /\ [Next]_vars => [Once!Next]_<<execution, recorded>>
  <1> SUFFICES ASSUME IInv, Killed, [Next]_vars PROVE [Once!Next]_<<execution, recorded>>
    OBVIOUS
  <1>1. /\ at \in Steps /\ ended[at] \in Nat /\ execution \in [Attempts -> Results \cup {"never", "running", "raised", "killed"}]
        /\ recorded \in [Attempts -> {"nothing", "clean", "failed", "refused"}]
        /\ ~installed => \A k \in Attempts : task[k] = "none"
    BY DEF IInv, Types, Removed
  <1>2. CASE TakeStep \/ Unreached \/ Send \/ Lost \/ Refused \/ TakeReport \/ Reported
    BY <1>2 DEF TakeStep, Unreached, Send, Lost, Refused, TakeReport, Reported, Offer, Undelivered, DropAttempt,
                registry, instance
  <1>3. CASE Resend
    <2>1. CASE installed
      BY <1>3, <2>1 DEF Resend, Offer, instance
    <2>2. CASE ~installed
      BY <1>1, <1>3, <2>2, RefusedUnasked DEF Resend, instance
    <2>3. QED
      BY <2>1, <2>2
  <1>4. CASE EndAttempt
    <2> DEFINE k == worker.command
    <2>1. /\ k = Current /\ Active /\ conn = "answered" /\ worker.took = 0 /\ UNCHANGED execution
          /\ recorded' = [recorded EXCEPT ![k] = IF answer \in Results THEN answer ELSE "failed"]
      BY <1>4 DEF EndAttempt, IInv, AtWork, Active, instance
    <2>2. k \in Attempts /\ k.step = at /\ k.attempt = ended[at] + 1
      BY <2>1, CurrentIsAttempt DEF IInv
    <2>3. recorded[k] = "nothing" /\ execution[k] # "running"
      BY <1>1, <2>1, <2>2 DEF IInv, Record, Tasks, OnTheLine
    <2>4. IF execution[k] \in Results THEN answer = execution[k] ELSE answer \notin Results
      BY <2>1 DEF IInv, OnTheLine
    <2>5. recorded' = [recorded EXCEPT ![k] = IF execution[k] \in Results THEN execution[k] ELSE "failed"]
      BY <2>1, <2>4
    <2> HIDE DEF k
    <2>6. Once!Record(k)
      BY <2>1, <2>3, <2>5 DEF Once!Record
    <2>7. QED
      BY <2>2, <2>6 DEF Once!Next
  <1>5. CASE Settle
    <2>1. at < LastStep => at + 1 \in Steps /\ ended[at + 1] \in Nat
      BY <1>1, Bounds DEF Steps, IInv, Types
    <2>2. UNCHANGED execution
      BY <1>5 DEF Settle, instance
    <2>3. \/ UNCHANGED recorded
          \/ at < LastStep /\ Enqueue(at + 1, ended[at + 1], spent[at + 1], queue)
          \/ Enqueue(at, ended[at], spent[at] + 1, queue)
      BY <1>5 DEF Settle
    <2>4. QED
      BY <1>1, <2>1, <2>2, <2>3, RefusedUnasked
  <1>6. CASE UserRetry
    BY <1>1, <1>6, RefusedUnasked DEF UserRetry, instance
  <1>7. CASE RestartHub
    <2>1. UNCHANGED execution
      BY <1>7 DEF RestartHub, instance
    <2>2. UNCHANGED recorded \/ Enqueue(at, ended[at], spent[at], <<>>)
      BY <1>7 DEF RestartHub, registry
    <2>3. QED
      BY <1>1, <2>1, <2>2, RefusedUnasked
  <1>8. CASE TakeReportCall \/ ReportEnds \/ LoseConnection \/ Drain \/ \E stop \in later : ReportAgain(stop)
    BY <1>8 DEF TakeReportCall, ReportEnds, LoseConnection, Drain, ReportAgain, registry, instance
  <1>9. ASSUME NEW k \in Attempts, JoinTask(k) \/ AnswerHeld(k) \/ StartTask(k)
        PROVE  [Once!Next]_<<execution, recorded>>
    BY <1>9 DEF JoinTask, AnswerHeld, StartTask, registry, instance
  <1>10. ASSUME NEW k \in Attempts, BeginStep(k) PROVE Once!Next
    <2>1. task[k] = "waiting" /\ execution' = [execution EXCEPT ![k] = "running"] /\ UNCHANGED recorded
      BY <1>10 DEF BeginStep, registry
    <2>2. IsCurrent(k)
      BY <2>1 DEF IInv, Elsewhere
    <2>3. k.step = at /\ k.attempt = ended[at] + 1
      BY <2>2, CurrentIsAttempt DEF IInv, IsCurrent
    <2>4. recorded[k] = "nothing"
      BY <1>1, <2>3 DEF IInv, Record
    <2>5. Once!Execute(k)
      BY <2>1, <2>4 DEF Once!Execute, Killed
    <2>6. QED
      BY <2>5 DEF Once!Next
  <1>11. ASSUME NEW k \in Attempts, StepRaises(k) \/ \E r \in Results : StepEnds(k, r) PROVE Once!Next
    <2>1. execution[k] = "running"
      BY <1>11 DEF StepRaises, StepEnds, IInv, Tasks
    <2>2. UNCHANGED recorded /\ \E r \in Results \cup {"raised", "killed"} : execution' = [execution EXCEPT ![k] = r]
      BY <1>11 DEF StepRaises, StepEnds, TaskOver, registry
    <2>3. Once!End(k)
      BY <2>1, <2>2 DEF Once!End
    <2>4. QED
      BY <2>3 DEF Once!Next
  <1>12. ASSUME NEW k \in Attempts, StepRefused(k) PROVE UNCHANGED <<execution, recorded>>
    BY <1>12 DEF StepRefused, TaskOver, registry
  <1>13. CASE RestartInstance \/ RemoveInstance
    <2>1. /\ UNCHANGED recorded
          /\ execution' = [k \in Attempts |-> IF task[k] = "working" THEN "killed" ELSE execution[k]]
      BY <1>13 DEF RestartInstance, RemoveInstance, StopInstance, registry
    <2>2. CASE \A k \in Attempts : task[k] # "working"
      BY <1>1, <2>1, <2>2
    <2>3. ASSUME NEW k \in Attempts, task[k] = "working" PROVE Once!Next
      <3>1. \A l \in Attempts : l # k => task[l] # "working"
        BY <2>3 DEF IInv, Tasks
      <3>2. execution' = [execution EXCEPT ![k] = "killed"]
        BY <1>1, <2>1, <2>3, <3>1
      <3>3. execution[k] = "running"
        BY <2>3 DEF IInv, Tasks
      <3>4. Once!End(k)
        BY <2>1, <3>2, <3>3 DEF Once!End
      <3>5. QED
        BY <3>4 DEF Once!Next
    <2>4. QED
      BY <2>2, <2>3
  <1>14. CASE UNCHANGED vars
    BY <1>14 DEF vars, registry, instance
  <1>15. QED
    BY <1>2, <1>3, <1>4, <1>5, <1>6, <1>7, <1>8, <1>9, <1>10, <1>11, <1>12, <1>13, <1>14 DEF Next, LeftAlone

\* Whatever queues, connections, crashes and restarts do, an attempt executes at most once, unless
\* it raised, and what the hub records of it is what that execution came to (ADR 0102, ADR 0107).
THEOREM StepOnceImplemented == Spec => ImplementsStepOnce
  <1>1. Init => Once!Init /\ Killed
    BY Calls DEF Init, Once!Init, Killed
  <1>2. QED
    BY <1>1, StartsInStep, KeptInStep, KilledStays, StepOfOnce, PTL DEF Spec, ImplementsStepOnce, Once!Spec

=============================================================================
