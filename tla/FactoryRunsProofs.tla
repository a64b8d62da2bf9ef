------------------------- MODULE FactoryRunsProofs -------------------------
(***************************************************************************)
(* Theorems about FactoryRuns, for every set of runs, factories and        *)
(* instances, every number of steps and every bound: a run that works has  *)
(* one driver, the calls its stops owe are each about to be made once, and *)
(* a finished run stays as it ended.                                       *)
(*                                                                         *)
(* IInv adds to what the theorems say where each thing of a run may be at  *)
(* all: no queue or worker has a step its run is not at, or one that is    *)
(* not work, or a call of a stop that never was; only a timed run has a    *)
(* timer, and the clock of every timer that runs says how it ends.         *)
(***************************************************************************)
EXTENDS FactoryRuns, SequenceTheorems, TLAPS

-----------------------------------------------------------------------------
(* Lines: what the workers w and the queues q of the instances hold.  Free *)
(* of the entries E, or with one of them in one place only.                *)

Lines == [Instances -> Seq(Entries)]
Hands == [Instances -> Entries \cup {NoWork}]
InLine(q, w, i, k) == IF k = 0 THEN w[i] ELSE q[i][k]
Free(q, w, E) == \A i \in Instances : \A k \in 0..Len(q[i]) : InLine(q, w, i, k) \notin E
OnlyIn(q, w, E, i, k) ==
    \A j \in Instances : \A l \in 0..Len(q[j]) : (InLine(q, w, j, l) \in E) <=> (j = i /\ l = k)
Only(q, w, E) == \E i \in Instances : \E k \in 0..Len(q[i]) : OnlyIn(q, w, E, i, k)

\* The places of the runs' invariants, as lines.
LEMMA Lined ==
    ASSUME NEW E PROVE /\ Unheld(E) <=> Free(queue, work, E)
                       /\ \A here, there : Nowhere(E, here, there) <=> Free(queue, work, E) /\ ~here /\ ~there
                       /\ \A here, there : Once(E, here, there) <=>
                             \/ Only(queue, work, E) /\ ~here /\ ~there
                             \/ Free(queue, work, E) /\ (here <=> ~there)
  BY DEF Unheld, Nowhere, Once, HeldAt, Free, Only, OnlyIn, InLine, Held, Slots

LEMMA EntrySets ==
    /\ \A r \in Runs : StepsOf(r) \subseteq Entries
    /\ Calls \subseteq Entries /\ NoWork \notin Entries
    /\ \A r \in Runs : \A e \in StepsOf(r) : e \notin Calls
    /\ \A r, q \in Runs : \A e \in StepsOf(r) : e \in StepsOf(q) => r = q
  BY Nobody DEF Entries, Calls, StepsOf

\* An entry joins the end of a queue.
LEMMA Joined ==
    ASSUME NEW q \in Lines, NEW w \in Hands, NEW i \in Instances, NEW e \in Entries, NEW E
    PROVE  LET p == [q EXCEPT ![i] = Append(@, e)]
           IN  /\ p \in Lines
               /\ e \notin E => (Free(q, w, E) => Free(p, w, E)) /\ (Only(q, w, E) => Only(p, w, E))
               /\ e \in E => (Free(q, w, E) => Only(p, w, E))
  <1> DEFINE p == [q EXCEPT ![i] = Append(@, e)]
  <1>1. q[i] \in Seq(Entries) /\ p \in Lines
    BY DEF Lines
  <1>2. /\ \A j \in Instances : j # i => p[j] = q[j]
        /\ Len(p[i]) = Len(q[i]) + 1 /\ Len(q[i]) \in Nat
        /\ p[i][Len(q[i]) + 1] = e
        /\ \A k \in 1..Len(q[i]) : p[i][k] = q[i][k]
    BY <1>1 DEF Lines
  <1>3. \A j \in Instances : Len(q[j]) \in Nat
    BY DEF Lines
  <1> HIDE DEF p
  <1>4. /\ \A j \in Instances : \A k \in 0..Len(q[j]) : k \in 0..Len(p[j]) /\ InLine(p, w, j, k) = InLine(q, w, j, k)
        /\ Len(q[i]) + 1 \in 0..Len(p[i]) /\ InLine(p, w, i, Len(q[i]) + 1) = e
        /\ \A j \in Instances : \A k \in 0..Len(p[j]) : k \in 0..Len(q[j]) \/ (j = i /\ k = Len(q[i]) + 1)
        /\ Len(q[i]) + 1 \notin 0..Len(q[i])
    <2>1. \A j \in Instances : \A k \in 0..Len(q[j]) : k \in 0..Len(p[j])
      BY <1>2, <1>3
    <2>2. \A j \in Instances : \A k \in 0..Len(q[j]) : InLine(p, w, j, k) = InLine(q, w, j, k)
      BY <1>2, <1>3 DEF InLine
    <2>3. InLine(p, w, i, Len(q[i]) + 1) = e
      BY <1>2 DEF InLine
    <2>4. QED
      BY <1>2, <1>3, <2>1, <2>2, <2>3
  <1>5. e \notin E /\ Free(q, w, E) => Free(p, w, E)
    BY <1>4 DEF Free
  <1>6. e \notin E /\ Only(q, w, E) => Only(p, w, E)
    <2> SUFFICES ASSUME e \notin E, NEW j \in Instances, NEW k \in 0..Len(q[j]), OnlyIn(q, w, E, j, k)
                 PROVE  OnlyIn(p, w, E, j, k) /\ k \in 0..Len(p[j])
      BY DEF Only
    <2> QED
      BY <1>4 DEF OnlyIn
  <1>7. e \in E /\ Free(q, w, E) => Only(p, w, E)
    <2> SUFFICES ASSUME e \in E, Free(q, w, E) PROVE OnlyIn(p, w, E, i, Len(q[i]) + 1)
      BY <1>4 DEF Only
    <2> QED
      BY <1>4 DEF OnlyIn, Free
  <1>8. QED
    BY <1>1, <1>5, <1>6, <1>7 DEF p

\* A worker is done with what it has.
LEMMA LaidDown ==
    ASSUME NEW q \in Lines, NEW w \in Hands, NEW i \in Instances, NEW E \in SUBSET Entries
    PROVE  LET v == [w EXCEPT ![i] = NoWork]
           IN  /\ v \in Hands
               /\ Free(q, w, E) => Free(q, v, E)
               /\ w[i] \notin E => (Only(q, w, E) => Only(q, v, E))
               /\ w[i] \in E => (Only(q, w, E) => Free(q, v, E))
  <1> DEFINE v == [w EXCEPT ![i] = NoWork]
  <1>1. v \in Hands /\ v[i] = NoWork /\ \A j \in Instances : j # i => v[j] = w[j]
    BY DEF Hands
  <1>2. \A j \in Instances : Len(q[j]) \in Nat
    BY DEF Lines
  <1> HIDE DEF v
  <1>3. /\ NoWork \notin E
        /\ \A j \in Instances : \A k \in 0..Len(q[j]) :
              InLine(q, v, j, k) = IF j = i /\ k = 0 THEN NoWork ELSE InLine(q, w, j, k)
        /\ 0 \in 0..Len(q[i]) /\ InLine(q, w, i, 0) = w[i]
    BY <1>1, <1>2, EntrySets DEF InLine
  <1>4. Free(q, w, E) => Free(q, v, E)
    BY <1>3 DEF Free
  <1>5. ASSUME w[i] \notin E, Only(q, w, E) PROVE Only(q, v, E)
    <2> PICK h \in Instances : \E m \in 0..Len(q[h]) : OnlyIn(q, w, E, h, m)
      BY <1>5 DEF Only
    <2>1. PICK m \in 0..Len(q[h]) : OnlyIn(q, w, E, h, m)
      OBVIOUS
    <2>2. \A j \in Instances : \A k \in 0..Len(q[j]) : InLine(q, v, j, k) \in E <=> InLine(q, w, j, k) \in E
      BY <1>3, <1>5
    <2>3. OnlyIn(q, v, E, h, m)
      BY <2>1, <2>2 DEF OnlyIn
    <2>4. QED
      BY <2>3 DEF Only
  <1>6. ASSUME w[i] \in E, Only(q, w, E) PROVE Free(q, v, E)
    <2> PICK h \in Instances : \E m \in 0..Len(q[h]) : OnlyIn(q, w, E, h, m)
      BY <1>6 DEF Only
    <2>1. PICK m \in 0..Len(q[h]) : OnlyIn(q, w, E, h, m)
      OBVIOUS
    <2>2. h = i /\ m = 0
      BY <1>3, <1>6, <2>1 DEF OnlyIn
    <2>3. \A j \in Instances : \A k \in 0..Len(q[j]) : InLine(q, v, j, k) \notin E
      BY <1>3, <2>1, <2>2 DEF OnlyIn
    <2>4. QED
      BY <2>3 DEF Free
  <1>7. QED
    BY <1>1, <1>4, <1>5, <1>6 DEF v

LEMMA Shifted ==
    ASSUME NEW q \in Lines, NEW i \in Instances, q[i] # <<>>
    PROVE  LET p == [q EXCEPT ![i] = Tail(@)]
           IN  /\ p \in Lines /\ Head(q[i]) \in Entries /\ Head(q[i]) = q[i][1]
               /\ \A j \in Instances : j # i => p[j] = q[j]
               /\ Len(q[i]) \in Nat \ {0} /\ Len(p[i]) = Len(q[i]) - 1
               /\ \A k \in 1..Len(p[i]) : p[i][k] = q[i][k + 1]
               /\ \A j \in Instances : Len(q[j]) \in Nat
  <1>1. q[i] \in Seq(Entries) /\ \A j \in Instances : Len(q[j]) \in Nat
    BY DEF Lines
  <1>2. Tail(q[i]) \in Seq(Entries) /\ Len(Tail(q[i])) = Len(q[i]) - 1 /\ Len(q[i]) \in Nat \ {0}
        /\ Head(q[i]) \in Entries /\ Head(q[i]) = q[i][1]
        /\ \A k \in 1..Len(Tail(q[i])) : Tail(q[i])[k] = q[i][k + 1]
    BY <1>1, HeadTailProperties
  <1>3. QED
    BY <1>1, <1>2 DEF Lines

\* A free worker takes what is in front of its queue.
LEMMA Taken ==
    ASSUME NEW q \in Lines, NEW w \in Hands, NEW i \in Instances, q[i] # <<>>, w[i] = NoWork,
           NEW E \in SUBSET Entries
    PROVE  LET p == [q EXCEPT ![i] = Tail(@)]  v == [w EXCEPT ![i] = Head(q[i])]
           IN  /\ p \in Lines /\ v \in Hands /\ Head(q[i]) \in Entries
               /\ Free(q, w, E) => Free(p, v, E)
               /\ Only(q, w, E) => Only(p, v, E)
  <1> DEFINE p == [q EXCEPT ![i] = Tail(@)]
             v == [w EXCEPT ![i] = Head(q[i])]
  <1>1. /\ p \in Lines /\ Head(q[i]) \in Entries /\ Head(q[i]) = q[i][1]
        /\ \A j \in Instances : j # i => p[j] = q[j]
        /\ Len(q[i]) \in Nat \ {0} /\ Len(p[i]) = Len(q[i]) - 1
        /\ \A k \in 1..Len(p[i]) : p[i][k] = q[i][k + 1]
        /\ \A j \in Instances : Len(q[j]) \in Nat
    BY Shifted
  <1>2. v \in Hands /\ v[i] = q[i][1] /\ \A j \in Instances : j # i => v[j] = w[j]
    BY <1>1 DEF Hands
  <1> HIDE DEF p, v
  <1>3. /\ \A j \in Instances : \A k \in 0..Len(p[j]) : j # i => InLine(p, v, j, k) = InLine(q, w, j, k)
        /\ \A j \in Instances : j # i => Len(p[j]) = Len(q[j])
        /\ \A k \in 0..Len(p[i]) : InLine(p, v, i, k) = InLine(q, w, i, k + 1) /\ k + 1 \in 0..Len(q[i])
        /\ InLine(q, w, i, 0) \notin E
        /\ \A k \in 0..Len(q[i]) : k # 0 => k - 1 \in 0..Len(p[i]) /\ (k - 1) + 1 = k
    <2>1. \A k \in 0..Len(p[i]) : InLine(p, v, i, k) = InLine(q, w, i, k + 1) /\ k + 1 \in 0..Len(q[i])
      BY <1>1, <1>2 DEF InLine
    <2>2. InLine(q, w, i, 0) \notin E
      BY EntrySets DEF InLine
    <2>3. \A j \in Instances : \A k \in 0..Len(p[j]) : j # i => InLine(p, v, j, k) = InLine(q, w, j, k)
      BY <1>1, <1>2 DEF InLine
    <2>4. \A k \in 0..Len(q[i]) : k # 0 => k - 1 \in 0..Len(p[i]) /\ (k - 1) + 1 = k
      BY <1>1
    <2>5. QED
      BY <1>1, <2>1, <2>2, <2>3, <2>4
  <1>4. Free(q, w, E) => Free(p, v, E)
    BY <1>3 DEF Free
  <1>5. ASSUME NEW j \in Instances, NEW k \in 0..Len(q[j]), OnlyIn(q, w, E, j, k) PROVE Only(p, v, E)
    <2>1. CASE j # i
      <3>1. k \in 0..Len(p[j]) /\ OnlyIn(p, v, E, j, k)
        BY <1>3, <1>5, <2>1 DEF OnlyIn
      <3>2. QED
        BY <3>1 DEF Only
    <2>2. CASE j = i
      <3>1. k # 0
        BY <1>3, <1>5, <2>2 DEF OnlyIn
      <3>2. k - 1 \in 0..Len(p[i]) /\ (k - 1) + 1 = k
        BY <1>3, <2>2, <3>1
      <3>3. ASSUME NEW l \in 0..Len(p[i]) PROVE (InLine(p, v, i, l) \in E) <=> (l = k - 1)
        <4>1. l + 1 \in 0..Len(q[i]) /\ InLine(p, v, i, l) = InLine(q, w, i, l + 1)
          BY <1>3
        <4>2. (InLine(q, w, i, l + 1) \in E) <=> (l + 1 = k)
          BY <4>1, <1>5, <2>2 DEF OnlyIn
        <4>3. (l + 1 = k) <=> (l = k - 1)
          BY <1>1, <3>2, <2>2
        <4>4. QED
          BY <4>1, <4>2, <4>3
      <3>4. ASSUME NEW m \in Instances, m # i, NEW l \in 0..Len(p[m]) PROVE InLine(p, v, m, l) \notin E
        BY <1>3, <1>5, <2>2, <3>4 DEF OnlyIn
      <3>5. OnlyIn(p, v, E, i, k - 1)
        BY <3>3, <3>4 DEF OnlyIn
      <3>6. QED
        BY <3>2, <3>5 DEF Only
    <2>3. QED
      BY <2>1, <2>2
  <1>6. QED
    BY <1>1, <1>2, <1>4, <1>5 DEF p, v, Only

\* What is in front of a queue is dropped.
LEMMA Dropped ==
    ASSUME NEW q \in Lines, NEW w \in Hands, NEW i \in Instances, q[i] # <<>>, w[i] = NoWork,
           NEW E \in SUBSET Entries
    PROVE  LET p == [q EXCEPT ![i] = Tail(@)]
           IN  /\ p \in Lines
               /\ Free(q, w, E) => Free(p, w, E)
               /\ Head(q[i]) \notin E => (Only(q, w, E) => Only(p, w, E))
               /\ Head(q[i]) \in E => (Only(q, w, E) => Free(p, w, E))
  <1> DEFINE p == [q EXCEPT ![i] = Tail(@)]
             v == [w EXCEPT ![i] = Head(q[i])]
  <1>1. /\ p \in Lines /\ v \in Hands /\ Head(q[i]) \in Entries
        /\ Free(q, w, E) => Free(p, v, E)
        /\ Only(q, w, E) => Only(p, v, E)
    BY Taken
  <1>2. w = [v EXCEPT ![i] = NoWork] /\ v[i] = Head(q[i])
    BY <1>1 DEF Hands
  <1> HIDE DEF p, v
  <1>3. /\ Free(p, v, E) => Free(p, w, E)
        /\ v[i] \notin E => (Only(p, v, E) => Only(p, w, E))
        /\ v[i] \in E => (Only(p, v, E) => Free(p, w, E))
    <2>1. LET u == [v EXCEPT ![i] = NoWork]
          IN  /\ Free(p, v, E) => Free(p, u, E)
              /\ v[i] \notin E => (Only(p, v, E) => Only(p, u, E))
              /\ v[i] \in E => (Only(p, v, E) => Free(p, u, E))
      BY <1>1, LaidDown
    <2>2. QED
      BY <1>2, <2>1
  <1>4. QED
    BY <1>1, <1>2, <1>3 DEF p

\* A restarted hub has nothing.
LEMMA Emptied ==
    ASSUME NEW E \in SUBSET Entries
    PROVE  LET q == [i \in Instances |-> <<>>]  w == [i \in Instances |-> NoWork]
           IN  q \in Lines /\ w \in Hands /\ Free(q, w, E)
  BY EntrySets, EmptySeq DEF Lines, Hands, Free, InLine

LEMMA Exclusive ==
    ASSUME NEW q, NEW w, NEW E, Only(q, w, E) PROVE ~Free(q, w, E)
  BY DEF Only, OnlyIn, Free

-----------------------------------------------------------------------------
(* The inductive invariant.                                                *)

\* Steps no line may hold when the run is at step n of the factory f, and calls of no stop up to g.
BadSteps(r, n, f) == {e \in StepsOf(r) : e.n # n \/ f.kind[e.n] # "work"}
BadCalls(r, g) == {c \in Calls : c.run = r /\ c.n \notin 1..g}

\* A run that is about is at a step.
StepKnown(r) == status[r] \notin {"new", "done"} => step[r] \in Steps

\* What OneDriver says of the run, its timer aside.
RunDriven(r) ==
    /\ IF status[r] \in {"queued", "running"} THEN Driven(r) ELSE Undriven(r)
    /\ Free(queue, work, BadSteps(r, step[r], factory))
    /\ status[r] = "running" => \E i \in Instances \ paused : work[i] = StepEntry(r)

\* A run's timer times its park, and wakes_at is a parked work step's; resume may have yet to arm it.
Clocked(r) ==
    /\ armed[r] # "none" => Timed(r)
    /\ ~resuming.on => (Timed(r) => armed[r] # "none")
    /\ wakes[r] => status[r] = "parked" /\ factory.kind[step[r]] = "work"
    /\ \A t \in strays[r] : t.ends # "none"

CallOwed(r, g) ==
    /\ IF <<r, g>> \in told THEN Dismissed(Call("stop", r, g)) ELSE Pending(Call("stop", r, g))
    /\ IF owes[r] /\ g = gen[r]
       THEN Pending(Call("ended", r, g)) ELSE Dismissed(Call("ended", r, g))
    /\ Pending(Call("needs_human", r, g)) \/ Dismissed(Call("needs_human", r, g))
    /\ status[r] = "needs_human" /\ g = gen[r]
        => (Pending(Call("needs_human", r, g)) <=> ~reported[r])

\* What CallsOwed says of the run, and that its stops account for every call about it.
RunCalls(r) ==
    /\ status[r] \in Stops => gen[r] >= 1
    /\ owes[r] => status[r] \in Ends
    /\ \A g \in Nat : <<r, g>> \in told => g <= gen[r]
    /\ Free(queue, work, BadCalls(r, gen[r]))
    /\ \A c \in later \cup resuming.owed : c \notin BadCalls(r, gen[r])
    /\ \A g \in 1..gen[r] : CallOwed(r, g)

Idle == ~resuming.on => resuming.todo = {}
Backing == \A i \in paused : work[i] # NoWork /\ work[i].kind = "step"

IInv == /\ TypeOK /\ Idle /\ Backing
        /\ \A r \in Runs : StepKnown(r) /\ RunDriven(r) /\ Clocked(r) /\ RunCalls(r)

\* Where a move takes a run.
Targets == {t \in [status : {"queued", "needs_human", "done", "cancelled"}, step : OrNone] :
               t.status # "done" => t.step \in Steps}

LEMMA Numbers1 ==
    /\ Steps \subseteq Nat /\ OrNone \subseteq Nat /\ Steps \subseteq OrNone
    /\ 1 \in Steps /\ 0 \notin Steps /\ 0 \in OrNone
    /\ \A s \in OrNone : s # 0 => s \in Steps
  BY Roles DEF Steps, OrNone

LEMMA FactoryIs ==
    ASSUME factory \in Factories
    PROVE  /\ factory.kind \in [Steps -> {"work", "wait", "approve"}]
           /\ factory.role \in [Steps -> Instances]
           /\ factory.back \in [Steps -> OrNone] /\ factory.failed \in [Steps -> OrNone]
           /\ factory.timer \in [Steps -> Timers]
  <1>1. factory \in Factory
    BY CheckedFactories DEF Checked
  <1>2. QED
    BY <1>1 DEF Factory

LEMMA SettledTo ==
    ASSUME TypeOK, NEW r \in Runs, NEW s \in Steps, NEW result \in Results
    PROVE  Settled(r, s, result) \in Targets
  <1>1. Edge(s, result) \in OrNone
    BY FactoryIs, Numbers1 DEF Edge, TypeOK
  <1>2. s < LastStep => s + 1 \in Steps
    BY Roles DEF Steps
  <1> DEFINE back == Edge(s, result)
  <1>3. back # 0 => back \in Steps
    BY <1>1, Numbers1
  <1> HIDE DEF back
  <1>4. \/ Settled(r, s, result) = To("queued", back) /\ back # 0
        \/ Settled(r, s, result) = To("cancelled", s)
        \/ Settled(r, s, result) = To("queued", s + 1) /\ s < LastStep
        \/ Settled(r, s, result) = To("done", NoStep)
        \/ Settled(r, s, result) = To("queued", s)
        \/ Settled(r, s, result) = To("needs_human", s)
    BY DEF Settled, back
  <1>5. \A st \in {"queued", "cancelled", "needs_human"} : \A t \in Steps : To(st, t) \in Targets
    <2> SUFFICES ASSUME NEW st \in {"queued", "cancelled", "needs_human"}, NEW t \in Steps PROVE To(st, t) \in Targets
      OBVIOUS
    <2>1. [status |-> st, step |-> t] \in [status : {"queued", "needs_human", "done", "cancelled"}, step : OrNone]
      BY Numbers1
    <2>2. [status |-> st, step |-> t].step = t
      OBVIOUS
    <2>3. QED
      BY <2>1, <2>2 DEF To, Targets
  <1>6. To("done", NoStep) \in Targets
    BY Numbers1 DEF To, Targets, NoStep
  <1>7. QED
    BY <1>2, <1>3, <1>4, <1>5, <1>6

LEMMA Moved ==
    ASSUME TypeOK, NEW r \in Runs, NEW to \in Targets, Move(r, to)
    PROVE  /\ status' \in [Runs -> Unfinished \cup Ends \cup {"new"}]
           /\ step' \in [Runs -> OrNone] /\ wakes' \in [Runs -> BOOLEAN]
           /\ owes' \in [Runs -> BOOLEAN] /\ moving' \in Runs \cup {NoRun}
           /\ gen' \in [Runs -> Nat] /\ reported' \in [Runs -> BOOLEAN] /\ told' = told
           /\ queue' \in [Instances -> Seq(Entries)]
           /\ status'[r] = to.status /\ step'[r] = to.step /\ wakes'[r] = FALSE
           /\ (owes'[r] <=> to.status \in Ends)
           /\ \A q \in Runs : q # r => /\ status'[q] = status[q] /\ step'[q] = step[q]
                                       /\ wakes'[q] = wakes[q] /\ owes'[q] = owes[q]
                                       /\ gen'[q] = gen[q] /\ reported'[q] = reported[q]
           /\ to.status \in Stops => /\ gen'[r] = gen[r] + 1
                                     /\ (reported'[r] <=> reported[r] /\ to.status # "needs_human")
           /\ to.status \notin Stops => gen' = gen /\ reported' = reported /\ queue' = queue
  <1>1. to.status \in {"queued", "needs_human", "done", "cancelled"} /\ to.step \in OrNone
    BY DEF Targets
  <1>2. status' \in [Runs -> Unfinished \cup Ends \cup {"new"}] /\ status'[r] = to.status
        /\ \A q \in Runs : q # r => status'[q] = status[q]
    BY <1>1 DEF Move, TypeOK, Unfinished, Ends
  <1>3. step' \in [Runs -> OrNone] /\ step'[r] = to.step /\ \A q \in Runs : q # r => step'[q] = step[q]
    BY <1>1 DEF Move, TypeOK
  <1>4. wakes' \in [Runs -> BOOLEAN] /\ wakes'[r] = FALSE /\ \A q \in Runs : q # r => wakes'[q] = wakes[q]
    BY DEF Move, TypeOK
  <1>5. owes' \in [Runs -> BOOLEAN] /\ (owes'[r] <=> to.status \in Ends) /\ \A q \in Runs : q # r => owes'[q] = owes[q]
    <2> DEFINE ends == to.status \in Ends
    <2>1. owes' = [owes EXCEPT ![r] = ends] /\ ends \in BOOLEAN
      BY DEF Move
    <2>2. owes \in [Runs -> BOOLEAN]
      BY DEF TypeOK
    <2> HIDE DEF ends
    <2>3. owes' \in [Runs -> BOOLEAN] /\ owes'[r] = ends /\ \A q \in Runs : q # r => owes'[q] = owes[q]
      BY <2>1, <2>2
    <2>4. QED
      BY <2>3 DEF ends
  <1>6. moving' \in Runs \cup {NoRun} /\ told' = told
    BY DEF Move
  <1>7. CASE to.status \in Stops
    <2>1. gen' = [gen EXCEPT ![r] = @ + 1]
          /\ reported' = [reported EXCEPT ![r] = @ /\ to.status # "needs_human"]
          /\ queue' = Queued(Queued(queue, Call("stop", r, gen[r] + 1)), StopCall(r, to.status, gen[r] + 1))
      BY <1>7 DEF Move
    <2>2. gen' \in [Runs -> Nat] /\ gen'[r] = gen[r] + 1 /\ gen[r] + 1 \in Nat
          /\ \A q \in Runs : q # r => gen'[q] = gen[q]
      BY <2>1 DEF TypeOK
    <2>3. reported' \in [Runs -> BOOLEAN] /\ (reported'[r] <=> reported[r] /\ to.status # "needs_human")
          /\ \A q \in Runs : q # r => reported'[q] = reported[q]
      BY <2>1 DEF TypeOK
    <2>4. Call("stop", r, gen[r] + 1) \in Calls /\ StopCall(r, to.status, gen[r] + 1) \in Calls
      BY <2>2 DEF Call, StopCall, Calls
    <2>5. \A c \in Calls : Receiver(c) \in Instances /\ c \in Entries
      BY Roles, EntrySets DEF Receiver
    <2>6. \A q \in Lines : \A c \in Calls : Queued(q, c) \in Lines
      BY <2>5 DEF Queued, Lines
    <2>7. queue' \in Lines
      BY <2>1, <2>4, <2>6 DEF TypeOK, Lines
    <2>8. QED
      BY <1>2, <1>3, <1>4, <1>5, <1>6, <1>7, <2>2, <2>3, <2>7 DEF Lines
  <1>8. CASE to.status \notin Stops
    BY <1>2, <1>3, <1>4, <1>5, <1>6, <1>8 DEF Move, TypeOK
  <1>9. QED
    BY <1>7, <1>8

LEMMA CountedIs ==
    ASSUME TypeOK, NEW r \in Runs, NEW s \in Steps, NEW result \in Results, Counted(r, s, result)
    PROVE  failures' \in [Runs -> [Steps -> Nat]] /\ sent' \in [Runs -> [Edges -> Nat]]
  <1>1. Edge(s, result) \in OrNone
    BY FactoryIs, Numbers1 DEF Edge, TypeOK
  <1> DEFINE back == Edge(s, result)
  <1>2. back # 0 => <<s, back>> \in Edges
    BY <1>1, Numbers1 DEF Edges
  <1>3. sent' = IF back = 0 THEN sent ELSE [sent EXCEPT ![r][<<s, back>>] = @ + 1]
    BY DEF Counted
  <1> HIDE DEF back
  <1>4. sent' \in [Runs -> [Edges -> Nat]]
    BY <1>2, <1>3 DEF TypeOK
  <1>5. failures' \in [Runs -> [Steps -> Nat]]
    BY DEF Counted, TypeOK
  <1>6. QED
    BY <1>4, <1>5

-----------------------------------------------------------------------------
(* What a step does to the lines of runs it is not about.                  *)

WorkKeeps(S) ==
    \A E \in SUBSET S : /\ Free(queue, work, E) => Free(queue, work', E)
                        /\ Only(queue, work, E) => Only(queue, work', E)
LinesKeep(S) ==
    \A E \in SUBSET S : /\ Free(queue, work, E) => Free(queue', work', E)
                        /\ Only(queue, work, E) => Only(queue', work', E)

LEMMA QueuedOne ==
    ASSUME NEW q \in Lines, NEW w \in Hands, NEW c \in Calls, NEW E
    PROVE  /\ Queued(q, c) \in Lines
           /\ c \notin E => (Free(q, w, E) => Free(Queued(q, c), w, E)) /\ (Only(q, w, E) => Only(Queued(q, c), w, E))
           /\ c \in E => (Free(q, w, E) => Only(Queued(q, c), w, E))
  <1>1. Receiver(c) \in Instances /\ c \in Entries
    BY Roles, EntrySets DEF Receiver
  <1>2. QED
    BY <1>1, Joined DEF Queued

LEMMA StopCalls ==
    ASSUME NEW r \in Runs, NEW st, NEW g \in Nat
    PROVE  /\ Call("stop", r, g) \in Calls /\ StopCall(r, st, g) \in Calls
           /\ Call("stop", r, g) # StopCall(r, st, g)
           /\ Call("stop", r, g).run = r /\ StopCall(r, st, g).run = r
           /\ Call("stop", r, g).n = g /\ StopCall(r, st, g).n = g
           /\ Call("stop", r, g).kind = "stop"
           /\ StopCall(r, st, g) = Call(IF st \in Ends THEN "ended" ELSE "needs_human", r, g)
  BY DEF Call, StopCall, Calls

LEMMA MovedLines ==
    ASSUME TypeOK, NEW r \in Runs, NEW to \in Targets, Move(r, to), NEW w \in Hands, NEW E \in SUBSET Entries
    PROVE  LET c == Call("stop", r, gen[r] + 1)  d == StopCall(r, to.status, gen[r] + 1)
           IN  /\ to.status \notin Stops \/ (c \notin E /\ d \notin E) =>
                     (Free(queue, w, E) => Free(queue', w, E)) /\ (Only(queue, w, E) => Only(queue', w, E))
               /\ to.status \in Stops /\ c \in E /\ d \notin E => (Free(queue, w, E) => Only(queue', w, E))
               /\ to.status \in Stops /\ d \in E /\ c \notin E => (Free(queue, w, E) => Only(queue', w, E))
  <1> DEFINE c == Call("stop", r, gen[r] + 1)
             d == StopCall(r, to.status, gen[r] + 1)
             p == Queued(queue, c)
  <1>1. CASE to.status \notin Stops
    BY <1>1 DEF Move
  <1>2. CASE to.status \in Stops
    <2>1. queue' = Queued(p, d)
      BY <1>2 DEF Move
    <2>2. gen[r] + 1 \in Nat /\ queue \in Lines
      BY DEF TypeOK, Lines
    <2>3. c \in Calls /\ d \in Calls
      BY <2>2, StopCalls
    <2> HIDE DEF c, d
    <2>4. /\ p \in Lines
          /\ c \notin E => (Free(queue, w, E) => Free(p, w, E)) /\ (Only(queue, w, E) => Only(p, w, E))
          /\ c \in E => (Free(queue, w, E) => Only(p, w, E))
      BY <2>2, <2>3, QueuedOne
    <2> HIDE DEF p
    <2>5. /\ d \notin E => (Free(p, w, E) => Free(queue', w, E)) /\ (Only(p, w, E) => Only(queue', w, E))
          /\ d \in E => (Free(p, w, E) => Only(queue', w, E))
      BY <2>1, <2>3, <2>4, QueuedOne
    <2>6. QED
      BY <1>2, <2>4, <2>5 DEF c, d
  <1>3. QED
    BY <1>1, <1>2

LEMMA Disjoint ==
    ASSUME NEW E, NEW F \in SUBSET E, NEW q, NEW w, Free(q, w, E)
    PROVE  Free(q, w, F)
  BY DEF Free

LEMMA DrivenIs ==
    ASSUME NEW r \in Runs
    PROVE  /\ Driven(r) <=> \/ Only(queue, work, StepsOf(r)) /\ moving # r /\ r \notin resuming.todo
                            \/ Free(queue, work, StepsOf(r)) /\ ((moving = r) <=> (r \notin resuming.todo))
           /\ Undriven(r) <=> Free(queue, work, StepsOf(r)) /\ moving # r /\ r \notin resuming.todo
           /\ Driven(r)' <=> \/ Only(queue', work', StepsOf(r)) /\ moving' # r /\ r \notin resuming'.todo
                             \/ Free(queue', work', StepsOf(r)) /\ ((moving' = r) <=> (r \notin resuming'.todo))
           /\ Undriven(r)' <=> Free(queue', work', StepsOf(r)) /\ moving' # r /\ r \notin resuming'.todo
  <1>1. StepsOf(r)' = StepsOf(r)
    BY DEF StepsOf, Steps
  <1>2. QED
    BY <1>1, Lined DEF Driven, Undriven, Once, Nowhere, Unheld, HeldAt, Free, Only, OnlyIn, InLine, Held, Slots

\* A run that nothing is done to stays as driven as it was.
LEMMA StaysDriven ==
    ASSUME NEW r \in Runs, StepKnown(r), RunDriven(r), factory' = factory, status'[r] = status[r], step'[r] = step[r],
           (moving' = r) <=> (moving = r), (r \in resuming'.todo) <=> (r \in resuming.todo),
           LinesKeep(StepsOf(r)),
           \A i \in Instances \ paused : work[i] \in StepsOf(r) => work'[i] = work[i] /\ i \notin paused'
    PROVE  RunDriven(r)'
  <1>1. (Driven(r) => Driven(r)') /\ (Undriven(r) => Undriven(r)')
    <2>1. /\ Free(queue, work, StepsOf(r)) => Free(queue', work', StepsOf(r))
          /\ Only(queue, work, StepsOf(r)) => Only(queue', work', StepsOf(r))
      BY DEF LinesKeep
    <2>2. QED
      BY <2>1, DrivenIs
  <1>2. Free(queue', work', BadSteps(r, step[r], factory))
    BY DEF LinesKeep, BadSteps, RunDriven
  <1>3. status[r] = "running" => \E i \in Instances \ paused' : work'[i] = [kind |-> "step", run |-> r, n |-> step[r]]
    <2> SUFFICES ASSUME status[r] = "running"
                 PROVE  \E i \in Instances \ paused' : work'[i] = [kind |-> "step", run |-> r, n |-> step[r]]
      OBVIOUS
    <2>1. PICK i \in Instances \ paused : work[i] = [kind |-> "step", run |-> r, n |-> step[r]]
      BY DEF RunDriven, StepEntry
    <2>2. step[r] \in Steps
      BY DEF StepKnown
    <2>3. work[i] \in StepsOf(r)
      BY <2>1, <2>2 DEF StepsOf
    <2>4. QED
      BY <2>1, <2>3
  <1>4. (Free(queue, work, BadSteps(r, step[r], factory)))' = Free(queue', work', BadSteps(r, step[r], factory))
    BY DEF BadSteps, StepsOf, Steps, Free, InLine
  <1>5. QED
    BY <1>1, <1>2, <1>3, <1>4 DEF RunDriven, StepEntry

\* The run that a move takes is driven as its new status asks; the others stay as they were.
LEMMA MoveDrives ==
    ASSUME IInv, NEW r \in Runs, NEW to \in Targets, Move(r, to), work' \in Hands,
           Free(queue, work', StepsOf(r)), r \notin resuming.todo, moving \in {NoRun, r},
           resuming' = resuming, paused' = paused, factory' = factory,
           \A q \in Runs : q # r => WorkKeeps(StepsOf(q)),
           \A i \in Instances \ paused : \A q \in Runs : q # r /\ work[i] \in StepsOf(q) => work'[i] = work[i]
    PROVE  \A q \in Runs : RunDriven(q)'
  <1>1. TypeOK /\ NoRun \notin Runs
    BY Nobody DEF IInv
  <1>2. ASSUME NEW q \in Runs PROVE /\ Call("stop", r, gen[r] + 1) \notin StepsOf(q)
                                    /\ StopCall(r, to.status, gen[r] + 1) \notin StepsOf(q)
    <2>1. gen[r] + 1 \in Nat
      BY <1>1 DEF TypeOK
    <2>2. QED
      BY <2>1, StopCalls, EntrySets
  <1>3. ASSUME NEW q \in Runs, NEW E \in SUBSET StepsOf(q)
        PROVE  (Free(queue, work', E) => Free(queue', work', E)) /\ (Only(queue, work', E) => Only(queue', work', E))
    <2>1. E \in SUBSET Entries
      BY EntrySets
    <2>2. Call("stop", r, gen[r] + 1) \notin E /\ StopCall(r, to.status, gen[r] + 1) \notin E
      BY <1>2
    <2>3. QED
      BY <1>1, <2>1, <2>2, MovedLines
  <1>4. ASSUME NEW q \in Runs, q # r PROVE RunDriven(q)'
    <2>1. LinesKeep(StepsOf(q))
      BY <1>3, <1>4 DEF LinesKeep, WorkKeeps
    <2>2. status'[q] = status[q] /\ step'[q] = step[q]
      BY <1>1, <1>4, Moved
    <2>3. (moving' = q) <=> (moving = q)
      BY <1>1, <1>4 DEF Move
    <2>4. StepKnown(q) /\ RunDriven(q)
      BY DEF IInv
    <2>5. \A i \in Instances \ paused : work[i] \in StepsOf(q) => work'[i] = work[i] /\ i \notin paused'
      BY <1>4
    <2>6. QED
      BY <2>1, <2>2, <2>3, <2>4, <2>5, StaysDriven
  <1>5. RunDriven(r)'
    <2>1. Free(queue', work', StepsOf(r))
      BY <1>3
    <2>2. status'[r] = to.status /\ to.status # "running"
      BY <1>1, Moved DEF Targets
    <2>3. moving' = IF to.status = "queued" THEN r ELSE NoRun
      BY DEF Move
    <2>4. IF status'[r] \in {"queued", "running"} THEN Driven(r)' ELSE Undriven(r)'
      BY <1>1, <2>1, <2>2, <2>3, DrivenIs
    <2>5. (Free(queue, work, BadSteps(r, step[r], factory)))'
      <3>1. \A n, f : BadSteps(r, n, f) \subseteq StepsOf(r)
        BY DEF BadSteps
      <3>2. \A n, f : Free(queue', work', BadSteps(r, n, f))
        BY <2>1, <3>1, Disjoint
      <3>3. (Free(queue, work, BadSteps(r, step[r], factory)))' = Free(queue', work', BadSteps(r, step'[r], factory'))
        BY DEF BadSteps, StepsOf, Steps, Free, InLine
      <3>4. QED
        BY <3>2, <3>3
    <2>6. QED
      BY <2>2, <2>4, <2>5 DEF RunDriven
  <1>6. QED
    BY <1>4, <1>5

-----------------------------------------------------------------------------
CallsOf(r) == {c \in Calls : c.run = r}

LEMMA CallsOfIs ==
    ASSUME NEW r \in Runs
    PROVE  /\ \A n : BadCalls(r, n) \subseteq CallsOf(r)
           /\ CallsOf(r) \subseteq Entries
           /\ \A k \in {"stop", "needs_human", "ended"} : \A g \in Nat :
                 Call(k, r, g) \in CallsOf(r) /\ Call(k, r, g).n = g /\ Call(k, r, g).kind = k
  BY EntrySets DEF BadCalls, CallsOf, Call, Calls

LEMMA PendingIs ==
    ASSUME NEW c
    PROVE  /\ Pending(c) <=> \/ Only(queue, work, {c}) /\ c \notin later /\ c \notin resuming.owed
                             \/ Free(queue, work, {c}) /\ ((c \in later) <=> (c \notin resuming.owed))
           /\ Dismissed(c) <=> Free(queue, work, {c}) /\ c \notin later /\ c \notin resuming.owed
           /\ Pending(c)' <=> \/ Only(queue', work', {c}) /\ c \notin later' /\ c \notin resuming'.owed
                              \/ Free(queue', work', {c}) /\ ((c \in later') <=> (c \notin resuming'.owed))
           /\ Dismissed(c)' <=> Free(queue', work', {c}) /\ c \notin later' /\ c \notin resuming'.owed
  BY Lined DEF Pending, Dismissed, Once, Nowhere, Unheld, HeldAt, Free, Only, OnlyIn, InLine, Held, Slots

\* A call that nothing is done to is as pending as it was.
LEMMA StaysPending ==
    ASSUME NEW r \in Runs, NEW c \in CallsOf(r), LinesKeep(CallsOf(r)), (c \in later') <=> (c \in later),
           (c \in resuming'.owed) <=> (c \in resuming.owed)
    PROVE  (Pending(c) => Pending(c)') /\ (Dismissed(c) => Dismissed(c)')
  <1>1. /\ Free(queue, work, {c}) => Free(queue', work', {c})
        /\ Only(queue, work, {c}) => Only(queue', work', {c})
    BY DEF LinesKeep
  <1>2. QED
    BY <1>1, PendingIs

LEMMA PendingOnce ==
    ASSUME NEW c PROVE ~(Pending(c) /\ Dismissed(c)) /\ ~(Pending(c)' /\ Dismissed(c)')
  BY PendingIs, Exclusive

\* A run none of whose calls is made or taken up owes what it owed.
LEMMA KeepsOwed ==
    ASSUME TypeOK, NEW r \in Runs, RunCalls(r),
           gen'[r] = gen[r], owes'[r] = owes[r], reported'[r] = reported[r],
           \A g \in Nat : (<<r, g>> \in told') <=> (<<r, g>> \in told),
           \A c \in CallsOf(r) : (Pending(c) => Pending(c)') /\ (Dismissed(c) => Dismissed(c)'),
           Free(queue', work', BadCalls(r, gen[r])),
           \A c \in later' \cup resuming'.owed : c \notin BadCalls(r, gen[r]),
           status'[r] \in Stops => status[r] = status'[r],
           status[r] \in Ends => status'[r] = status[r]
    PROVE  RunCalls(r)'
  <1>1. Free(queue', work', BadCalls(r, gen[r])) /\ \A c \in later' \cup resuming'.owed : c \notin BadCalls(r, gen[r])
    OBVIOUS
  <1>2. ASSUME NEW g \in 1..gen[r] PROVE CallOwed(r, g)'
    <2>1. CallOwed(r, g) /\ g \in Nat
      BY DEF RunCalls, TypeOK
    <2> DEFINE c == Call("stop", r, g)
               d == Call("ended", r, g)
               e == Call("needs_human", r, g)
    <2>2. c \in CallsOf(r) /\ d \in CallsOf(r) /\ e \in CallsOf(r)
      BY <2>1, CallsOfIs
    <2>3. c' = c /\ d' = d /\ e' = e
      BY DEF Call
    <2>4. /\ IF <<r, g>> \in told THEN Dismissed(c) ELSE Pending(c)
          /\ IF owes[r] /\ g = gen[r] THEN Pending(d) ELSE Dismissed(d)
          /\ Pending(e) \/ Dismissed(e)
          /\ status[r] = "needs_human" /\ g = gen[r] => (Pending(e) <=> ~reported[r])
      BY <2>1 DEF CallOwed
    <2>5. /\ (Pending(c) => Pending(c)') /\ (Dismissed(c) => Dismissed(c)')
          /\ (Pending(d) => Pending(d)') /\ (Dismissed(d) => Dismissed(d)')
          /\ (Pending(e) => Pending(e)') /\ (Dismissed(e) => Dismissed(e)')
      BY <2>2, <2>3
    <2>6. ~(Pending(e)' /\ Dismissed(e)')
      BY <2>3, PendingOnce
    <2>7. (<<r, g>> \in told') <=> (<<r, g>> \in told)
      BY <2>1
    <2>8. status'[r] = "needs_human" => status[r] = "needs_human"
      BY DEF Stops
    <2> HIDE DEF c, d, e
    <2>9. /\ IF <<r, g>> \in told' THEN Dismissed(c)' ELSE Pending(c)'
          /\ IF owes'[r] /\ g = gen'[r] THEN Pending(d)' ELSE Dismissed(d)'
          /\ Pending(e)' \/ Dismissed(e)'
          /\ status'[r] = "needs_human" /\ g = gen'[r] => (Pending(e)' <=> ~reported'[r])
      BY <2>4, <2>5, <2>6, <2>7, <2>8
    <2>10. QED
      BY <2>9 DEF CallOwed, c, d, e
  <1>3. (Free(queue, work, BadCalls(r, gen[r])))' = Free(queue', work', BadCalls(r, gen'[r]))
    BY DEF BadCalls, Calls, Free, InLine
  <1>4. \A c : c \in BadCalls(r, gen[r])' <=> c \in BadCalls(r, gen[r])
    BY DEF BadCalls, Calls
  <1>5. /\ status'[r] \in Stops => gen'[r] >= 1
        /\ owes'[r] => status'[r] \in Ends
        /\ \A g \in Nat : <<r, g>> \in told' => g <= gen'[r]
    BY DEF RunCalls
  <1>6. QED
    BY <1>1, <1>2, <1>3, <1>4, <1>5 DEF RunCalls

LEMMA StaysOwed ==
    ASSUME TypeOK, NEW r \in Runs, RunCalls(r), LinesKeep(CallsOf(r)),
           gen'[r] = gen[r], owes'[r] = owes[r], reported'[r] = reported[r],
           \A g \in Nat : (<<r, g>> \in told') <=> (<<r, g>> \in told),
           \A c \in CallsOf(r) : (c \in later') <=> (c \in later),
           \A c \in CallsOf(r) : (c \in resuming'.owed) <=> (c \in resuming.owed),
           status'[r] \in Stops => status[r] = status'[r],
           status[r] \in Ends => status'[r] = status[r]
    PROVE  RunCalls(r)'
  <1>1. \A c \in CallsOf(r) : (Pending(c) => Pending(c)') /\ (Dismissed(c) => Dismissed(c)')
    <2>1. ASSUME NEW c \in CallsOf(r) PROVE (Pending(c) => Pending(c)') /\ (Dismissed(c) => Dismissed(c)')
      BY StaysPending
    <2>2. QED
      BY <2>1
  <1>2. Free(queue', work', BadCalls(r, gen[r]))
    BY CallsOfIs DEF RunCalls, LinesKeep
  <1>3. \A c \in later' \cup resuming'.owed : c \notin BadCalls(r, gen[r])
    BY CallsOfIs DEF RunCalls
  <1>4. QED
    BY <1>1, <1>2, <1>3, KeepsOwed

LEMMA MoveOwes ==
    ASSUME IInv, NEW r \in Runs, NEW to \in Targets, Move(r, to), work' \in Hands, WorkKeeps(Calls),
           later' = later, resuming' = resuming, status[r] \notin Ends
    PROVE  \A q \in Runs : RunCalls(q)'
  <1>1. TypeOK /\ gen[r] \in Nat /\ RunCalls(r) /\ ~owes[r] /\ told' = told
    BY Moved DEF IInv, RunCalls, TypeOK
  <1> DEFINE g1 == gen[r] + 1
             c1 == Call("stop", r, g1)
             d1 == StopCall(r, to.status, g1)
  <1>2. g1 \in Nat /\ c1 \in CallsOf(r) /\ d1 \in CallsOf(r) /\ c1.n = g1 /\ d1.n = g1 /\ c1 # d1
    <2>1. g1 \in Nat
      BY <1>1
    <2>2. QED
      BY <2>1, StopCalls DEF CallsOf
  <1>3. ASSUME NEW E \in SUBSET Calls
        PROVE  /\ to.status \notin Stops \/ (c1 \notin E /\ d1 \notin E) =>
                     (Free(queue, work, E) => Free(queue', work', E)) /\ (Only(queue, work, E) => Only(queue', work', E))
               /\ to.status \in Stops /\ c1 \in E /\ d1 \notin E => (Free(queue, work, E) => Only(queue', work', E))
               /\ to.status \in Stops /\ d1 \in E /\ c1 \notin E => (Free(queue, work, E) => Only(queue', work', E))
    <2>1. E \in SUBSET Entries
      BY EntrySets
    <2>2. /\ Free(queue, work, E) => Free(queue, work', E)
          /\ Only(queue, work, E) => Only(queue, work', E)
      BY DEF WorkKeeps
    <2>3. QED
      BY <1>1, <2>1, <2>2, MovedLines
  <1>4. ASSUME NEW q \in Runs, q # r \/ to.status \notin Stops PROVE RunCalls(q)'
    <2>1. LinesKeep(CallsOf(q))
      <3>1. CallsOf(q) \subseteq Calls /\ (to.status \notin Stops \/ (c1 \notin CallsOf(q) /\ d1 \notin CallsOf(q)))
        BY <1>2, <1>4 DEF CallsOf
      <3>2. QED
        BY <1>3, <3>1 DEF LinesKeep
    <2>2. gen'[q] = gen[q] /\ owes'[q] = owes[q] /\ reported'[q] = reported[q]
      <3>1. CASE q # r
        BY <1>1, <3>1, Moved
      <3>2. CASE q = r
        <4>1. to.status \notin Ends /\ to.status \notin Stops
          BY <1>4, <3>2 DEF Stops
        <4>2. owes[r] \in BOOLEAN /\ owes'[r] \in BOOLEAN /\ ~owes'[r]
          BY <1>1, <4>1, Moved DEF TypeOK
        <4>3. owes[r] = owes'[r]
          BY <1>1, <4>2
        <4>4. QED
          BY <1>1, <3>2, <4>1, <4>3, Moved
      <3>3. QED
        BY <3>1, <3>2
    <2>3. status'[q] \in Stops => status[q] = status'[q]
      BY <1>1, <1>4, Moved
    <2>4. status[q] \in Ends => status'[q] = status[q]
      BY <1>1, <1>4, Moved
    <2>5. RunCalls(q)
      BY DEF IInv
    <2> HIDE DEF g1, c1, d1
    <2>6. QED
      BY <1>1, <2>1, <2>2, <2>3, <2>4, <2>5, StaysOwed
  <1>5. ASSUME to.status \in Stops PROVE RunCalls(r)'
    <2>1. gen'[r] = g1 /\ status'[r] = to.status /\ (owes'[r] <=> to.status \in Ends)
          /\ (reported'[r] <=> reported[r] /\ to.status # "needs_human")
      BY <1>1, <1>5, Moved
    <2>2. ASSUME NEW g \in 1..gen[r] PROVE CallOwed(r, g)'
      <3>1. CallOwed(r, g) /\ g \in Nat /\ g # g1
        BY <1>1 DEF RunCalls
      <3>2. ASSUME NEW k \in {"stop", "needs_human", "ended"}, NEW x, x = Call(k, r, g)
            PROVE  (Pending(x) => Pending(x)') /\ (Dismissed(x) => Dismissed(x)')
        <4>1. x \in CallsOf(r) /\ x.n = g
          BY <3>1, <3>2, CallsOfIs
        <4>2. {x} \in SUBSET Calls /\ c1 \notin {x} /\ d1 \notin {x}
          BY <1>2, <3>1, <4>1 DEF CallsOf
        <4>3. /\ Free(queue, work, {x}) => Free(queue', work', {x})
              /\ Only(queue, work, {x}) => Only(queue', work', {x})
          BY <1>3, <4>2
        <4>4. QED
          BY <4>3, PendingIs
      <3> DEFINE c == Call("stop", r, g)
                 d == Call("ended", r, g)
                 e == Call("needs_human", r, g)
      <3>3. /\ (Pending(c) => Pending(c)') /\ (Dismissed(c) => Dismissed(c)')
            /\ (Dismissed(d) => Dismissed(d)')
            /\ (Pending(e) => Pending(e)') /\ (Dismissed(e) => Dismissed(e)')
        BY <3>2 DEF Call
      <3>4. /\ IF <<r, g>> \in told THEN Dismissed(c) ELSE Pending(c)
            /\ Dismissed(d)
            /\ Pending(e) \/ Dismissed(e)
        BY <1>1, <3>1 DEF CallOwed
      <3> HIDE DEF c, d, e
      <3>5. /\ IF <<r, g>> \in told' THEN Dismissed(c)' ELSE Pending(c)'
            /\ IF owes'[r] /\ g = gen'[r] THEN Pending(d)' ELSE Dismissed(d)'
            /\ Pending(e)' \/ Dismissed(e)'
            /\ status'[r] = "needs_human" /\ g = gen'[r] => (Pending(e)' <=> ~reported'[r])
        BY <1>1, <2>1, <3>1, <3>3, <3>4
      <3>6. QED
        BY <3>5 DEF CallOwed, c, d, e
    <2>3. ASSUME NEW g, g = g1 PROVE CallOwed(r, g)'
      <3>1. ASSUME NEW k \in {"stop", "needs_human", "ended"}, NEW x, x = Call(k, r, g1)
            PROVE  /\ Free(queue, work, {x}) /\ x \notin later' /\ x \notin resuming'.owed /\ {x} \in SUBSET Calls
        <4>1. x \in CallsOf(r) /\ x.n = g1
          BY <1>2, <3>1, CallsOfIs
        <4>2. x \in BadCalls(r, gen[r])
          BY <1>1, <4>1 DEF BadCalls, CallsOf
        <4>3. QED
          BY <1>1, <4>1, <4>2, Disjoint DEF RunCalls, CallsOf
      <3> DEFINE e == Call("needs_human", r, g1)
                 d == Call("ended", r, g1)
      <3>2. d1 = IF to.status \in Ends THEN d ELSE e
        BY DEF StopCall
      <3>3. c1 # e /\ c1 # d /\ d # e
        BY <1>2, CallsOfIs
      <3>4. Only(queue', work', {c1}) /\ c1 \notin later' /\ c1 \notin resuming'.owed
        BY <1>2, <1>3, <1>5, <3>1
      <3>5. IF to.status \in Ends THEN Only(queue', work', {d}) /\ Free(queue', work', {e})
                                  ELSE Only(queue', work', {e}) /\ Free(queue', work', {d})
        <4>1. Only(queue', work', {d1})
          BY <1>2, <1>3, <1>5, <3>1, <3>2
        <4>2. ASSUME NEW k \in {"needs_human", "ended"}, NEW x, x = Call(k, r, g1), x # d1 PROVE Free(queue', work', {x})
          <5>1. c1 \notin {x} /\ d1 \notin {x}
            BY <3>3, <4>2
          <5>2. QED
            BY <1>3, <3>1, <4>2, <5>1
        <4>3. QED
          BY <3>2, <3>3, <4>1, <4>2
      <3>6. e \notin later' /\ e \notin resuming'.owed /\ d \notin later' /\ d \notin resuming'.owed
        BY <3>1
      <3>7. <<r, g1>> \notin told'
        BY <1>1, <1>2 DEF RunCalls
      <3>8. to.status \in Ends => to.status # "needs_human"
        BY DEF Ends
      <3>9. /\ Pending(Call("stop", r, g))'
            /\ to.status \in Ends => Pending(Call("ended", r, g))' /\ Dismissed(Call("needs_human", r, g))'
            /\ to.status \notin Ends => Dismissed(Call("ended", r, g))' /\ Pending(Call("needs_human", r, g))'
        <4>1. c1 = Call("stop", r, g) /\ d = Call("ended", r, g) /\ e = Call("needs_human", r, g)
          BY <2>3
        <4> HIDE DEF c1, d, e
        <4>2. /\ Pending(Call("stop", r, g))' <=> \/ Only(queue', work', {c1}) /\ c1 \notin later' /\ c1 \notin resuming'.owed
                                                  \/ Free(queue', work', {c1}) /\ ((c1 \in later') <=> (c1 \notin resuming'.owed))
              /\ Pending(Call("ended", r, g))' <=> \/ Only(queue', work', {d}) /\ d \notin later' /\ d \notin resuming'.owed
                                                   \/ Free(queue', work', {d}) /\ ((d \in later') <=> (d \notin resuming'.owed))
              /\ Dismissed(Call("ended", r, g))' <=> Free(queue', work', {d}) /\ d \notin later' /\ d \notin resuming'.owed
              /\ Pending(Call("needs_human", r, g))' <=> \/ Only(queue', work', {e}) /\ e \notin later' /\ e \notin resuming'.owed
                                                         \/ Free(queue', work', {e}) /\ ((e \in later') <=> (e \notin resuming'.owed))
              /\ Dismissed(Call("needs_human", r, g))' <=> Free(queue', work', {e}) /\ e \notin later' /\ e \notin resuming'.owed
          BY <4>1, PendingIs DEF Call
        <4>3. QED
          BY <3>4, <3>5, <3>6, <4>2
      <3>10. <<r, g>> \notin told' /\ g = gen'[r]
        BY <2>1, <2>3, <3>7
      <3>11. status'[r] = "needs_human" => to.status \notin Ends /\ ~reported'[r]
        BY <2>1, <3>8
      <3>12. to.status \in Ends <=> owes'[r]
        BY <2>1
      <3>13. QED
        BY <3>9, <3>10, <3>11, <3>12, PendingOnce DEF CallOwed
    <2>4. \A g \in 1..gen'[r] : CallOwed(r, g)'
      <3>1. \A g \in 1..gen'[r] : g \in 1..gen[r] \/ g = g1
        BY <1>1, <2>1
      <3>2. QED
        BY <2>2, <2>3, <3>1
    <2>5. (Free(queue, work, BadCalls(r, gen[r])))' /\ \A x \in later' \cup resuming'.owed : x \notin BadCalls(r, gen[r])'
      <3>1. ASSUME NEW x \in BadCalls(r, g1) PROVE x \in BadCalls(r, gen[r])
        BY <1>1 DEF BadCalls
      <3>2. BadCalls(r, g1) \in SUBSET Calls /\ c1 \notin BadCalls(r, g1) /\ d1 \notin BadCalls(r, g1)
        <4>1. g1 \in 1..g1
          BY <1>1
        <4>2. QED
          BY <1>2, <4>1 DEF BadCalls
      <3>3. Free(queue, work, BadCalls(r, g1))
        BY <1>1, <3>1, Disjoint DEF RunCalls
      <3>4. Free(queue', work', BadCalls(r, g1))
        BY <1>3, <3>2, <3>3
      <3>5. (Free(queue, work, BadCalls(r, gen[r])))' = Free(queue', work', BadCalls(r, gen'[r]))
        BY DEF BadCalls, Calls, Free, InLine
      <3>6. BadCalls(r, gen[r])' = BadCalls(r, gen'[r])
        BY DEF BadCalls, Calls
      <3>7. gen'[r] = g1
        BY <2>1
      <3> HIDE DEF g1, c1, d1
      <3>8. QED
        BY <1>1, <3>1, <3>4, <3>5, <3>6, <3>7 DEF RunCalls
    <2>6. (status'[r] \in Stops => gen'[r] >= 1) /\ (owes'[r] => status'[r] \in Ends)
      BY <1>1, <2>1
    <2>7. \A g \in Nat : <<r, g>> \in told' => g <= gen'[r]
      BY <1>1, <2>1 DEF RunCalls
    <2>8. QED
      BY <2>4, <2>5, <2>6, <2>7 DEF RunCalls
  <1>6. QED
    BY <1>4, <1>5

-----------------------------------------------------------------------------
StrayTimers == [ends : Timers \cup {"wake"}, at : Steps, own : BOOLEAN]

LEMMA StaysClocked ==
    ASSUME NEW r \in Runs, Clocked(r), factory' = factory, status'[r] = status[r], step'[r] = step[r],
           wakes'[r] = wakes[r], armed'[r] = armed[r], \A t \in strays'[r] : t.ends # "none",
           resuming.on => resuming'.on
    PROVE  Clocked(r)'
  BY DEF Clocked, Timed, Waits, Steps

LEMMA UnarmedClocked ==
    ASSUME NEW r \in Runs, factory' = factory, status'[r] # "parked", ~wakes'[r], armed'[r] = "none",
           \A t \in strays'[r] : t.ends # "none"
    PROVE  Clocked(r)'
  BY DEF Clocked, Timed, Waits, Steps

LEMMA SameWork ==
    ASSUME work' = work PROVE \A S : WorkKeeps(S)
  BY DEF WorkKeeps

LEMMA SameLines ==
    ASSUME work' = work, queue' = queue PROVE \A S : LinesKeep(S)
  BY DEF LinesKeep

LEMMA MoveKeeps ==
    ASSUME IInv, NEW r \in Runs, NEW to \in Targets, Move(r, to), status[r] \notin Ends,
           factory' = factory, open' \in [Runs -> BOOLEAN], failures' \in [Runs -> [Steps -> Nat]],
           sent' \in [Runs -> [Edges -> Nat]], work' \in Hands, paused' = paused, later' = later,
           resuming' = resuming, Free(queue, work', StepsOf(r)), r \notin resuming.todo, moving \in {NoRun, r},
           \A q \in Runs : q # r => WorkKeeps(StepsOf(q)), WorkKeeps(Calls),
           \A i \in Instances \ paused : \A q \in Runs : q # r /\ work[i] \in StepsOf(q) => work'[i] = work[i],
           \A i \in paused : work'[i] = work[i],
           armed' \in [Runs -> Timers \cup {"wake"}], strays' \in [Runs -> SUBSET StrayTimers],
           woken' \in [Runs -> SUBSET Steps], used' \in [Bounded -> Nat],
           armed'[r] = "none", \A q \in Runs : q # r => armed'[q] = armed[q],
           \A q \in Runs : \A t \in strays'[q] : t.ends # "none"
    PROVE  IInv'
  <1>1. TypeOK /\ Idle /\ Backing
    BY DEF IInv
  <1>2. /\ status' \in [Runs -> Unfinished \cup Ends \cup {"new"}]
        /\ step' \in [Runs -> OrNone] /\ wakes' \in [Runs -> BOOLEAN]
        /\ owes' \in [Runs -> BOOLEAN] /\ moving' \in Runs \cup {NoRun}
        /\ gen' \in [Runs -> Nat] /\ reported' \in [Runs -> BOOLEAN] /\ told' = told
        /\ queue' \in [Instances -> Seq(Entries)]
        /\ status'[r] = to.status /\ step'[r] = to.step /\ wakes'[r] = FALSE
        /\ \A q \in Runs : q # r => status'[q] = status[q] /\ step'[q] = step[q] /\ wakes'[q] = wakes[q]
    <2>1. /\ status' \in [Runs -> Unfinished \cup Ends \cup {"new"}]
          /\ step' \in [Runs -> OrNone] /\ wakes' \in [Runs -> BOOLEAN]
          /\ owes' \in [Runs -> BOOLEAN] /\ moving' \in Runs \cup {NoRun}
      BY <1>1, Moved
    <2>2. /\ gen' \in [Runs -> Nat] /\ reported' \in [Runs -> BOOLEAN] /\ told' = told
          /\ queue' \in [Instances -> Seq(Entries)]
      BY <1>1, Moved
    <2>3. status'[r] = to.status /\ step'[r] = to.step /\ wakes'[r] = FALSE
      BY <1>1, Moved
    <2>4. \A q \in Runs : q # r => status'[q] = status[q] /\ step'[q] = step[q] /\ wakes'[q] = wakes[q]
      <3>1. \A q \in Runs : q # r => status'[q] = status[q] /\ step'[q] = step[q]
        BY <1>1, Moved
      <3>2. \A q \in Runs : q # r => wakes'[q] = wakes[q]
        BY <1>1, Moved
      <3>3. QED
        BY <3>1, <3>2
    <2>5. QED
      BY <2>1, <2>2, <2>3, <2>4
  <1>3. TypeOK'
    <2>1. factory' \in Factories /\ later' \subseteq Calls /\ told' \subseteq Runs \X Nat /\ paused' \subseteq Instances
          /\ resuming' \in [on : BOOLEAN, todo : SUBSET Runs, owed : SUBSET Calls]
      BY <1>1, <1>2 DEF TypeOK
    <2>2. work' \in [Instances -> Entries \cup {NoWork}]
          /\ strays' \in [Runs -> SUBSET [ends : Timers \cup {"wake"}, at : Steps, own : BOOLEAN]]
      BY DEF Hands, StrayTimers
    <2>3. QED
      BY <1>2, <2>1, <2>2 DEF TypeOK
  <1>4. \A q \in Runs : RunDriven(q)'
    BY MoveDrives
  <1>5. \A q \in Runs : RunCalls(q)'
    BY MoveOwes
  <1>6. \A q \in Runs : StepKnown(q)'
    BY <1>2 DEF StepKnown, Steps, IInv, Targets
  <1>7. to.status # "parked"
    BY DEF Targets
  <1>8. \A q \in Runs : Clocked(q)'
    BY <1>2, <1>7, StaysClocked, UnarmedClocked DEF IInv
  <1>9. Idle' /\ Backing'
    BY <1>1 DEF Idle, Backing
  <1>10. QED
    BY <1>3, <1>4, <1>5, <1>6, <1>8, <1>9 DEF IInv

LEMMA UsesIs ==
    ASSUME TypeOK, NEW what \in Bounded, Uses(what) PROVE used' \in [Bounded -> Nat]
  BY DEF Uses, TypeOK

LEMMA Apart ==
    ASSUME IInv, NEW r \in Runs
    PROVE  /\ status[r] \notin {"queued", "running"} =>
                 Free(queue, work, StepsOf(r)) /\ moving # r /\ r \notin resuming.todo
           /\ moving = r => Free(queue, work, StepsOf(r)) /\ r \notin resuming.todo /\ status[r] = "queued"
           /\ moving = r => step[r] \in Steps
  <1>1. RunDriven(r) /\ StepKnown(r) /\ Backing
    BY DEF IInv
  <1>2. status[r] \notin {"queued", "running"} => Undriven(r)
    BY <1>1 DEF RunDriven
  <1>3. moving = r => status[r] \in {"queued", "running"} /\ Driven(r)
    BY <1>1, DrivenIs DEF RunDriven
  <1>4. moving = r => Free(queue, work, StepsOf(r)) /\ r \notin resuming.todo
    BY <1>3, DrivenIs
  <1>5. ASSUME moving = r, status[r] = "running" PROVE FALSE
    <2>1. PICK i \in Instances : work[i] = StepEntry(r)
      BY <1>1, <1>5 DEF RunDriven
    <2>2. step[r] \in Steps
      BY <1>1, <1>5 DEF StepKnown
    <2>3. StepEntry(r) \in StepsOf(r)
      BY <2>2 DEF StepEntry, StepsOf
    <2>4. \A j \in Instances : Len(queue[j]) \in Nat
      BY DEF IInv, TypeOK
    <2>5. 0 \in 0..Len(queue[i]) /\ InLine(queue, work, i, 0) = work[i]
      BY <2>4 DEF InLine
    <2>6. QED
      BY <1>4, <1>5, <2>1, <2>3, <2>5 DEF Free
  <1>6. QED
    BY <1>1, <1>2, <1>3, <1>4, <1>5, DrivenIs DEF StepKnown

LEMMA Typed ==
    ASSUME IInv
    PROVE  /\ TypeOK /\ work \in Hands /\ queue \in Lines /\ factory \in Factories
           /\ open \in [Runs -> BOOLEAN] /\ failures \in [Runs -> [Steps -> Nat]]
           /\ sent \in [Runs -> [Edges -> Nat]]
           /\ armed \in [Runs -> Timers \cup {"wake"}] /\ strays \in [Runs -> SUBSET StrayTimers]
           /\ woken \in [Runs -> SUBSET Steps] /\ used \in [Bounded -> Nat]
           /\ \A q \in Runs : \A t \in strays[q] : t.ends # "none"
           /\ \A q \in Runs : armed[q] # "none" => status[q] = "parked"
           /\ \A q \in Runs : Timed(q) => status[q] = "parked"
           /\ paused \subseteq Instances
  BY DEF IInv, TypeOK, Hands, Lines, StrayTimers, Clocked, Timed

LEMMA DisarmIs ==
    ASSUME IInv, NEW r \in Runs, Disarm(r)
    PROVE  /\ armed' \in [Runs -> Timers \cup {"wake"}] /\ armed'[r] = "none"
           /\ \A q \in Runs : q # r => armed'[q] = armed[q]
           /\ strays' \in [Runs -> SUBSET StrayTimers]
           /\ \A q \in Runs : \A t \in strays'[q] : t.ends # "none"
  <1>1. /\ armed' \in [Runs -> Timers \cup {"wake"}] /\ armed'[r] = "none"
        /\ \A q \in Runs : q # r => armed'[q] = armed[q]
    BY Typed DEF Disarm, Timers
  <1>2. \A t \in StrayTimers : [t EXCEPT !.own = FALSE] \in StrayTimers /\ [t EXCEPT !.own = FALSE].ends = t.ends
    BY DEF StrayTimers
  <1>3. strays[r] \subseteq StrayTimers /\ \A t \in strays[r] : t.ends # "none"
    BY Typed
  <1>4. Estranged(r) \subseteq StrayTimers /\ \A t \in Estranged(r) : t.ends # "none"
    BY <1>2, <1>3 DEF Estranged
  <1>5. strays' = [strays EXCEPT ![r] = Estranged(r)]
    BY DEF Disarm
  <1> DEFINE e == Estranged(r)
  <1> HIDE DEF e
  <1>6. strays' \in [Runs -> SUBSET StrayTimers] /\ \A q \in Runs : \A t \in strays'[q] : t.ends # "none"
    <2>1. strays' = [strays EXCEPT ![r] = e] /\ e \subseteq StrayTimers /\ \A t \in e : t.ends # "none"
      BY <1>4, <1>5 DEF e
    <2>2. QED
      BY <2>1, Typed
  <1>7. QED
    BY <1>1, <1>6

LEMMA SettleKeeps ==
    ASSUME IInv, NEW r \in Runs, NEW s \in Steps, NEW result \in Results, Settle(r, s, result), status[r] \notin Ends,
           factory' = factory, work' \in Hands, paused' = paused, later' = later,
           resuming' = resuming, Free(queue, work', StepsOf(r)), r \notin resuming.todo, moving \in {NoRun, r},
           \A q \in Runs : q # r => WorkKeeps(StepsOf(q)), WorkKeeps(Calls),
           \A i \in Instances \ paused : \A q \in Runs : q # r /\ work[i] \in StepsOf(q) => work'[i] = work[i],
           \A i \in paused : work'[i] = work[i],
           armed' \in [Runs -> Timers \cup {"wake"}], strays' \in [Runs -> SUBSET StrayTimers],
           woken' \in [Runs -> SUBSET Steps], used' \in [Bounded -> Nat],
           armed'[r] = "none", \A q \in Runs : q # r => armed'[q] = armed[q],
           \A q \in Runs : \A t \in strays'[q] : t.ends # "none"
    PROVE  IInv'
  <1>1. Settled(r, s, result) \in Targets
    BY SettledTo, Typed
  <1>2. Move(r, Settled(r, s, result)) /\ Counted(r, s, result) /\ open' = [open EXCEPT ![r] = FALSE]
    BY DEF Settle
  <1>3. failures' \in [Runs -> [Steps -> Nat]] /\ sent' \in [Runs -> [Edges -> Nat]]
    BY <1>2, CountedIs, Typed
  <1>4. open' \in [Runs -> BOOLEAN]
    BY <1>2, Typed
  <1> DEFINE to == Settled(r, s, result)
  <1>5. to \in Targets /\ Move(r, to)
    BY <1>1, <1>2
  <1> HIDE DEF to
  <1>6. QED
    BY <1>3, <1>4, <1>5, MoveKeeps

-----------------------------------------------------------------------------
LEMMA ToTargets ==
    /\ \A st \in {"queued", "cancelled", "needs_human", "done"} : \A t \in Steps : To(st, t) \in Targets
    /\ To("done", NoStep) \in Targets
  <1>1. ASSUME NEW st \in {"queued", "cancelled", "needs_human", "done"}, NEW t \in Steps PROVE To(st, t) \in Targets
    <2>1. [status |-> st, step |-> t] \in [status : {"queued", "needs_human", "done", "cancelled"}, step : OrNone]
      BY Numbers1
    <2>2. [status |-> st, step |-> t].step = t
      OBVIOUS
    <2>3. QED
      BY <2>1, <2>2 DEF To, Targets
  <1>2. To("done", NoStep) \in Targets
    BY Numbers1 DEF To, Targets, NoStep
  <1>3. QED
    BY <1>1, <1>2

\* Timers that end nothing and signals that are only kept change nothing else.
LEMMA OnlyMemory ==
    ASSUME IInv, factory' = factory, UNCHANGED <<registry, queue, work, paused, later, armed, moving, resuming>>,
           woken' \in [Runs -> SUBSET Steps], used' \in [Bounded -> Nat], strays' \in [Runs -> SUBSET StrayTimers], \A q \in Runs : \A t \in strays'[q] : t.ends # "none"
    PROVE  IInv'
  <1>1. UNCHANGED <<status, step, open, failures, sent, wakes, gen, reported, owes, told>>
    BY DEF registry
  <1>2. TypeOK'
    BY <1>1 DEF IInv, TypeOK, StrayTimers
  <1>3. ASSUME NEW r \in Runs PROVE StepKnown(r)' /\ RunDriven(r)' /\ Clocked(r)' /\ RunCalls(r)'
    <2>1. StepKnown(r) /\ RunDriven(r) /\ Clocked(r) /\ RunCalls(r) /\ TypeOK
      BY DEF IInv
    <2>2. StepKnown(r)'
      BY <1>1, <2>1 DEF StepKnown, Steps
    <2>3. RunDriven(r)'
      BY <1>1, <2>1, SameLines, StaysDriven
    <2>4. Clocked(r)'
      BY <1>1, <2>1, StaysClocked
    <2>5. RunCalls(r)'
      BY <1>1, <2>1, SameLines, StaysOwed
    <2>6. QED
      BY <2>2, <2>3, <2>4, <2>5
  <1>4. Idle' /\ Backing'
    BY DEF IInv, Idle, Backing
  <1>5. QED
    BY <1>2, <1>3, <1>4 DEF IInv

LEMMA UnarmedIs ==
    ASSUME IInv, NEW r \in Runs, ~Timed(r), UNCHANGED timers
    PROVE  /\ armed' \in [Runs -> Timers \cup {"wake"}] /\ armed'[r] = "none"
           /\ \A q \in Runs : q # r => armed'[q] = armed[q]
           /\ strays' \in [Runs -> SUBSET StrayTimers]
           /\ \A q \in Runs : \A t \in strays'[q] : t.ends # "none"
  BY Typed DEF timers, IInv, Clocked

LEMMA ApproveKeeps == ASSUME IInv, NEW r \in Runs, Approve(r) PROVE IInv'
  <1>1. status[r] = "parked" /\ factory.kind[step[r]] = "approve" /\ UNCHANGED timers /\ moving = NoRun
        /\ Passes(r) /\ factory' = factory /\ UNCHANGED <<work, paused, later, woken, resuming>>
        /\ Uses("user")
    BY DEF Approve, ByUser, AwaitsApproval, AtRest, workers
  <1>2. Free(queue, work, StepsOf(r)) /\ r \notin resuming.todo /\ step[r] \in Steps /\ status[r] \notin Ends
    BY <1>1, Apart DEF IInv, StepKnown, Ends
  <1>3. ~Timed(r)
    BY <1>1, <1>2 DEF Timed, IInv, Clocked, Waits
  <1>4. used' \in [Bounded -> Nat]
    BY <1>1, UsesIs, Typed DEF Bounded
  <1>5. PICK result \in Results : Settle(r, step[r], result)
    BY <1>1 DEF Passes, Results
  <1>6. QED
    BY <1>1, <1>2, <1>3, <1>4, <1>5, SettleKeeps, SameWork, Typed, UnarmedIs

LEMMA CancelKeeps == ASSUME IInv, NEW r \in Runs, Cancel(r) PROVE IInv'
  <1>1. status[r] \in {"parked", "needs_human"} /\ moving = NoRun
        /\ Move(r, To("cancelled", step[r])) /\ factory' = factory /\ UNCHANGED <<work, paused, later, woken, resuming>>
        /\ Uses("user") /\ open' = [open EXCEPT ![r] = FALSE] /\ UNCHANGED <<failures, sent>>
        /\ IF status[r] = "parked" THEN Disarm(r) ELSE UNCHANGED timers
    BY DEF Cancel, ByUser, AtRest, workers
  <1>2. Free(queue, work, StepsOf(r)) /\ r \notin resuming.todo /\ step[r] \in Steps /\ status[r] \notin Ends
    BY <1>1, Apart DEF IInv, StepKnown, Ends
  <1>3. /\ armed' \in [Runs -> Timers \cup {"wake"}] /\ armed'[r] = "none"
        /\ \A q \in Runs : q # r => armed'[q] = armed[q]
        /\ strays' \in [Runs -> SUBSET StrayTimers]
        /\ \A q \in Runs : \A t \in strays'[q] : t.ends # "none"
    <2>1. CASE status[r] = "parked"
      BY <1>1, <2>1, DisarmIs
    <2>2. CASE status[r] = "needs_human"
      BY <1>1, <2>2, Typed, UnarmedIs
    <2>3. QED
      BY <1>1, <2>1, <2>2
  <1>4. used' \in [Bounded -> Nat]
    BY <1>1, UsesIs, Typed DEF Bounded
  <1>5. To("cancelled", step[r]) \in Targets
    BY <1>2, ToTargets
  <1>6. open' \in [Runs -> BOOLEAN] /\ failures' \in [Runs -> [Steps -> Nat]] /\ sent' \in [Runs -> [Edges -> Nat]]
    BY <1>1, Typed
  <1> DEFINE to == To("cancelled", step[r])
  <1>7. to \in Targets /\ Move(r, to)
    BY <1>1, <1>5
  <1> HIDE DEF to
  <1>8. QED
    BY <1>1, <1>2, <1>3, <1>4, <1>6, <1>7, MoveKeeps, SameWork, Typed

LEMMA RefuseKeeps == ASSUME IInv, NEW r \in Runs, NEW s \in Steps, Refuse(r, s) PROVE IInv'
  <1>1. moving = r /\ Settle(r, s, "failed") /\ factory' = factory
        /\ UNCHANGED <<work, paused, later, woken, resuming>> /\ UNCHANGED timers /\ Uses("refused")
    BY DEF Refuse, workers
  <1>2. Free(queue, work, StepsOf(r)) /\ r \notin resuming.todo /\ status[r] = "queued" /\ status[r] \notin Ends
    BY <1>1, Apart DEF Ends
  <1>3. ~Timed(r)
    BY <1>2 DEF Timed
  <1>4. used' \in [Bounded -> Nat]
    BY <1>1, UsesIs, Typed DEF Bounded
  <1>5. "failed" \in Results
    BY DEF Results
  <1>6. QED
    BY <1>1, <1>2, <1>3, <1>4, <1>5, SettleKeeps, SameWork, Typed, UnarmedIs

LEMMA PassWaitKeeps == ASSUME IInv, NEW r \in Runs, PassWait(r) PROVE IInv'
  <1>1. moving = r /\ Passes(r) /\ factory' = factory
        /\ UNCHANGED <<work, paused, later, resuming, used>> /\ UNCHANGED timers
        /\ woken' = [woken EXCEPT ![r] = @ \ {step[r]}]
    BY DEF PassWait, Parks, workers
  <1>2. Free(queue, work, StepsOf(r)) /\ r \notin resuming.todo /\ status[r] = "queued" /\ status[r] \notin Ends
        /\ step[r] \in Steps
    BY <1>1, Apart DEF Ends
  <1>3. ~Timed(r)
    BY <1>2 DEF Timed
  <1>4. woken' \in [Runs -> SUBSET Steps] /\ used' \in [Bounded -> Nat]
    BY <1>1, Typed
  <1>5. PICK result \in Results : Settle(r, step[r], result)
    BY <1>1 DEF Passes, Results
  <1>6. QED
    BY <1>1, <1>2, <1>3, <1>4, <1>5, SettleKeeps, SameWork, Typed, UnarmedIs

LEMMA SignalParkedKeeps == ASSUME IInv, NEW r \in Runs, NEW matched, SignalParked(r, matched) PROVE IInv'
  <1>1. status[r] = "parked" /\ moving = NoRun /\ Passes(r) /\ factory' = factory
        /\ UNCHANGED <<work, paused, later, woken, resuming>> /\ Disarm(r) /\ Uses("signal")
    BY DEF SignalParked, BySignal, AtRest, workers
  <1>2. Free(queue, work, StepsOf(r)) /\ r \notin resuming.todo /\ step[r] \in Steps /\ status[r] \notin Ends
    BY <1>1, Apart DEF IInv, StepKnown, Ends
  <1>4. used' \in [Bounded -> Nat]
    BY <1>1, UsesIs, Typed DEF Bounded
  <1>5. PICK result \in Results : Settle(r, step[r], result)
    BY <1>1 DEF Passes, Results
  <1>6. QED
    BY <1>1, <1>2, <1>4, <1>5, SettleKeeps, SameWork, Typed, DisarmIs

LEMMA SignalClosesKeeps == ASSUME IInv, NEW r \in Runs, NEW end \in Ends, SignalCloses(r, end) PROVE IInv'
  <1> DEFINE to == To(end, IF end = "done" THEN NoStep ELSE step[r])
  <1>1. status[r] = "needs_human" /\ moving = NoRun /\ Move(r, to) /\ factory' = factory
        /\ UNCHANGED <<work, paused, later, woken, resuming>> /\ Uses("signal")
        /\ UNCHANGED timers /\ UNCHANGED <<open, failures, sent>>
    BY DEF SignalCloses, BySignal, AtRest, workers, timers
  <1>2. Free(queue, work, StepsOf(r)) /\ r \notin resuming.todo /\ step[r] \in Steps /\ status[r] \notin Ends
    BY <1>1, Apart DEF IInv, StepKnown, Ends
  <1>3. ~Timed(r)
    BY <1>1 DEF Timed
  <1>4. used' \in [Bounded -> Nat]
    BY <1>1, UsesIs, Typed DEF Bounded
  <1>5. to \in Targets
    BY <1>2, ToTargets DEF Ends
  <1>6. open' \in [Runs -> BOOLEAN] /\ failures' \in [Runs -> [Steps -> Nat]] /\ sent' \in [Runs -> [Edges -> Nat]]
    BY <1>1, Typed
  <1> HIDE DEF to
  <1>8. QED
    BY <1>1, <1>2, <1>3, <1>4, <1>5, <1>6, MoveKeeps, SameWork, Typed, UnarmedIs

\* A timer ends the park, whichever way it does.
LEMMA EndedKeeps ==
    ASSUME IInv, NEW r \in Runs, NEW ends \in (Timers \cup {"wake"}) \ {"none"}, NEW at \in Steps, Ended(r, ends, at),
           status[r] = "parked", AtRest, factory' = factory, UNCHANGED <<work, paused, later, woken, resuming, used>>,
           armed' \in [Runs -> Timers \cup {"wake"}], strays' \in [Runs -> SUBSET StrayTimers],
           armed'[r] = "none", \A q \in Runs : q # r => armed'[q] = armed[q],
           \A q \in Runs : \A t \in strays'[q] : t.ends # "none"
    PROVE  IInv'
  <1>1. Free(queue, work, StepsOf(r)) /\ r \notin resuming.todo /\ step[r] \in Steps /\ status[r] \notin Ends
        /\ moving = NoRun
    BY Apart DEF IInv, StepKnown, Ends, AtRest
  <1>2. CASE ends = "wake"
    <2> DEFINE to == To("queued", at)
    <2>1. Move(r, to) /\ UNCHANGED <<open, failures, sent>>
      BY <1>2 DEF Ended
    <2>2. to \in Targets
      BY ToTargets
    <2>3. open' \in [Runs -> BOOLEAN] /\ failures' \in [Runs -> [Steps -> Nat]] /\ sent' \in [Runs -> [Edges -> Nat]]
      BY <2>1, Typed
    <2> HIDE DEF to
    <2>4. QED
      BY <1>1, <2>1, <2>2, <2>3, MoveKeeps, SameWork, Typed
  <1>3. CASE ends \in {"quiet", "deadline"}
    <2>1. PICK result \in Results : Settle(r, step[r], result)
      BY <1>3 DEF Ended, Passes, Results
    <2>2. QED
      BY <1>1, <2>1, SettleKeeps, SameWork, Typed
  <1>4. QED
    BY <1>2, <1>3 DEF Timers

LEMMA ExpireKeeps == ASSUME IInv, NEW r \in Runs, Expire(r) PROVE IInv'
  <1>1. AtRest /\ armed[r] # "none" /\ Disarm(r) /\ Ended(r, armed[r], step[r]) /\ factory' = factory
        /\ UNCHANGED <<work, paused, later, woken, resuming, used>>
    BY DEF Expire, workers
  <1>2. status[r] = "parked" /\ armed[r] \in (Timers \cup {"wake"}) \ {"none"}
    BY <1>1, Typed
  <1>3. step[r] \in Steps
    BY <1>2 DEF IInv, StepKnown
  <1>4. QED
    BY <1>1, <1>2, <1>3, DisarmIs, EndedKeeps

LEMMA StrayExpiresKeeps == ASSUME IInv, NEW r \in Runs, NEW t \in strays[r], StrayExpires(r, t) PROVE IInv'
  <1>1. AtRest /\ factory' = factory /\ UNCHANGED <<work, paused, later, woken, resuming, used>>
    BY DEF StrayExpires, workers
  <1>2. t \in StrayTimers /\ t.ends \in (Timers \cup {"wake"}) \ {"none"} /\ t.at \in Steps
    <2>1. t \in StrayTimers /\ t.ends # "none"
      BY Typed
    <2>2. QED
      BY <2>1 DEF StrayTimers
  <1>3. CASE armed[r] = "none"
    <2>1. strays' = [strays EXCEPT ![r] = @ \ {t}] /\ UNCHANGED <<registry, queue, armed, moving>>
      BY <1>3 DEF StrayExpires
    <2>2. strays' \in [Runs -> SUBSET StrayTimers] /\ \A q \in Runs : \A u \in strays'[q] : u.ends # "none"
      BY <2>1, Typed
    <2>3. QED
      BY <1>1, <2>1, <2>2, OnlyMemory, Typed
  <1>4. CASE armed[r] # "none"
    <2> DEFINE left == (Estranged(r) \ {[t EXCEPT !.own = FALSE]}) \cup {Stray(r, FALSE)}
    <2>1. armed' = [armed EXCEPT ![r] = "none"] /\ strays' = [strays EXCEPT ![r] = left] /\ Ended(r, t.ends, t.at)
      BY <1>4 DEF StrayExpires
    <2>2. status[r] = "parked" /\ step[r] \in Steps
      BY <1>4, Typed DEF IInv, StepKnown
    <2>3. Stray(r, FALSE) \in StrayTimers /\ Stray(r, FALSE).ends # "none"
      BY <1>4, <2>2, Typed DEF Stray, StrayTimers
    <2>4. \A u \in StrayTimers : [u EXCEPT !.own = FALSE] \in StrayTimers /\ [u EXCEPT !.own = FALSE].ends = u.ends
      BY DEF StrayTimers
    <2>5. Estranged(r) \subseteq StrayTimers /\ \A u \in Estranged(r) : u.ends # "none"
      <3>1. strays[r] \subseteq StrayTimers /\ \A u \in strays[r] : u.ends # "none"
        BY Typed
      <3>2. QED
        BY <2>4, <3>1 DEF Estranged
    <2>6. left \subseteq StrayTimers /\ \A u \in left : u.ends # "none"
      BY <2>3, <2>5
    <2> HIDE DEF left
    <2>7. strays' \in [Runs -> SUBSET StrayTimers] /\ \A q \in Runs : \A u \in strays'[q] : u.ends # "none"
      BY <2>1, <2>6, Typed
    <2>8. armed' \in [Runs -> Timers \cup {"wake"}] /\ armed'[r] = "none" /\ \A q \in Runs : q # r => armed'[q] = armed[q]
      BY <2>1, Typed DEF Timers
    <2>9. QED
      BY <1>1, <1>2, <2>1, <2>2, <2>7, <2>8, EndedKeeps
  <1>5. QED
    BY <1>3, <1>4

-----------------------------------------------------------------------------
\* What one run's step, queues and calls need, and nothing about the others, when lines stay.
LEMMA RequeueKeeps ==
    ASSUME IInv, NEW r \in Runs, NEW s \in Steps, moving = NoRun, status[r] \notin {"queued", "running"} \cup Ends,
           ~wakes[r], armed[r] = "none",
           status' = [status EXCEPT ![r] = "queued"], step' = [step EXCEPT ![r] = s], moving' = r,
           factory' = factory, UNCHANGED <<wakes, gen, reported, owes, told, queue, work, paused, later, resuming, armed, strays, woken>>,
           open' \in [Runs -> BOOLEAN], failures' \in [Runs -> [Steps -> Nat]],
           sent' \in [Runs -> [Edges -> Nat]], used' \in [Bounded -> Nat]
    PROVE  IInv'
  <1>1. TypeOK'
    <2>1. status' \in [Runs -> Unfinished \cup Ends \cup {"new"}]
      BY Typed DEF TypeOK, Unfinished
    <2>2. step' \in [Runs -> OrNone]
      BY Typed, Numbers1 DEF TypeOK
    <2>3. QED
      BY <2>1, <2>2, Typed DEF TypeOK
  <1>2. /\ status'[r] = "queued" /\ step'[r] = s
        /\ \A q \in Runs : q # r => status'[q] = status[q] /\ step'[q] = step[q]
    BY Typed DEF TypeOK
  <1>3. Free(queue, work, StepsOf(r)) /\ r \notin resuming.todo /\ NoRun \notin Runs
    BY Apart, Nobody
  <1>4. ASSUME NEW q \in Runs PROVE StepKnown(q)' /\ RunDriven(q)' /\ Clocked(q)' /\ RunCalls(q)'
    <2>1. StepKnown(q) /\ RunDriven(q) /\ Clocked(q) /\ RunCalls(q)
      BY DEF IInv
    <2>2. StepKnown(q)'
      BY <1>2, <2>1 DEF StepKnown, Steps
    <2>3. RunCalls(q)'
      <3>1. (status'[q] \in Stops => status[q] = status'[q]) /\ (status[q] \in Ends => status'[q] = status[q])
        BY <1>2 DEF Stops, Ends
      <3>2. QED
        BY <2>1, <3>1, SameLines, StaysOwed, Typed
    <2>4. CASE q # r
      <3>1. RunDriven(q)'
        BY <1>2, <1>3, <2>1, <2>4, SameLines, StaysDriven
      <3>2. Clocked(q)'
        BY <1>2, <2>1, <2>4, StaysClocked, Typed
      <3>3. QED
        BY <2>2, <2>3, <3>1, <3>2
    <2>5. CASE q = r
      <3>1. Clocked(q)'
        BY <1>2, <2>5, UnarmedClocked, Typed
      <3>2. Driven(r)'
        BY <1>3, DrivenIs
      <3>3. \A n, f : BadSteps(r, n, f) \subseteq StepsOf(r)
        BY DEF BadSteps
      <3>4. \A n, f : Free(queue', work', BadSteps(r, n, f))
        BY <1>3, <3>3, Disjoint
      <3>5. (Free(queue, work, BadSteps(r, step[r], factory)))' = Free(queue', work', BadSteps(r, step'[r], factory'))
        BY DEF BadSteps, StepsOf, Steps, Free, InLine
      <3>6. RunDriven(r)'
        BY <1>2, <3>2, <3>4, <3>5 DEF RunDriven
      <3>7. QED
        BY <2>2, <2>3, <2>5, <3>1, <3>6
    <2>6. QED
      BY <2>4, <2>5
  <1>5. Idle' /\ Backing'
    BY DEF IInv, Idle, Backing
  <1>6. QED
    BY <1>1, <1>4, <1>5 DEF IInv

LEMMA AcceptKeeps == ASSUME IInv, NEW r \in Runs, Accept(r) PROVE IInv'
  <1>1. moving = NoRun /\ status[r] = "new"
    BY DEF Accept, AtRest
  <1>2. /\ status' = [status EXCEPT ![r] = "queued"] /\ step' = [step EXCEPT ![r] = 1] /\ moving' = r /\ factory' = factory
        /\ UNCHANGED <<open, failures, sent, wakes, gen, reported, owes, told, queue, work, paused, later, armed, strays,
                       woken, resuming, used>>
    BY DEF Accept, workers, timers
  <1>3. ~wakes[r] /\ armed[r] = "none"
    BY <1>1, Typed DEF IInv, Clocked
  <1>4. 1 \in Steps /\ status[r] \notin {"queued", "running"} \cup Ends
    BY <1>1, Numbers1 DEF Ends
  <1>5. QED
    BY <1>1, <1>2, <1>3, <1>4, RequeueKeeps, Typed

LEMMA RestartKeeps ==
    ASSUME IInv, NEW r \in Runs, NEW s \in Steps, ByUser, status[r] = "needs_human" \/ AwaitsApproval(r),
           Restart(r, s), UNCHANGED timers
    PROVE  IInv'
  <1>1. moving = NoRun /\ Uses("user") /\ factory' = factory /\ UNCHANGED <<work, paused, later, woken, resuming, armed, strays>>
    BY DEF ByUser, AtRest, workers, timers
  <1>2. /\ status' = [status EXCEPT ![r] = "queued"] /\ step' = [step EXCEPT ![r] = s] /\ moving' = r
        /\ open' = [open EXCEPT ![r] = FALSE]
        /\ failures' = [failures EXCEPT ![r] = [t \in Steps |-> 0]]
        /\ sent' = [sent EXCEPT ![r] = [e \in Edges |-> 0]]
        /\ UNCHANGED <<wakes, gen, reported, owes, told, queue>>
    BY DEF Restart
  <1>3. open' \in [Runs -> BOOLEAN] /\ failures' \in [Runs -> [Steps -> Nat]] /\ sent' \in [Runs -> [Edges -> Nat]]
    BY <1>2, Typed
  <1>4. status[r] \notin {"queued", "running"} \cup Ends /\ ~wakes[r] /\ armed[r] = "none"
    <2>1. CASE status[r] = "needs_human"
      BY <2>1, Typed DEF IInv, Clocked, Ends
    <2>2. CASE AwaitsApproval(r)
      BY <2>2, Typed DEF IInv, Clocked, Ends, AwaitsApproval, Timed, Waits
    <2>3. QED
      BY <2>1, <2>2
  <1>5. used' \in [Bounded -> Nat]
    BY <1>1, UsesIs, Typed DEF Bounded
  <1>6. QED
    BY <1>1, <1>2, <1>3, <1>4, <1>5, RequeueKeeps

LEMMA RetryKeeps == ASSUME IInv, NEW r \in Runs, Retry(r) PROVE IInv'
  <1>1. ByUser /\ status[r] = "needs_human" /\ Restart(r, step[r]) /\ UNCHANGED timers
    BY DEF Retry
  <1>2. step[r] \in Steps
    BY <1>1 DEF IInv, StepKnown
  <1>3. QED
    BY <1>1, <1>2, RestartKeeps

LEMMA SendBackKeeps == ASSUME IInv, NEW r \in Runs, NEW s \in Steps, SendBack(r, s) PROVE IInv'
  BY RestartKeeps DEF SendBack

\* A step that changes nothing but the lines, and those for one run or its calls.
LEMMA PlaceKeeps == ASSUME IInv, NEW r \in Runs, Place(r) PROVE IInv'
  <1>1. moving = r /\ factory.kind[step[r]] = "work" /\ moving' = NoRun /\ factory' = factory
        /\ queue' = [queue EXCEPT ![factory.role[step[r]]] = Append(@, StepEntry(r))]
        /\ UNCHANGED <<status, step, open, failures, sent, wakes, gen, reported, owes, told, work, paused, later, armed, strays,
                       woken, resuming, used>>
    BY DEF Place, registry, workers, timers
  <1>2. Free(queue, work, StepsOf(r)) /\ r \notin resuming.todo /\ status[r] = "queued" /\ step[r] \in Steps /\ NoRun \notin Runs
    BY <1>1, Apart, Nobody
  <1>3. StepEntry(r) \in StepsOf(r) /\ StepEntry(r) \in Entries /\ StepEntry(r).n = step[r]
    <2>1. StepEntry(r) \in StepsOf(r) /\ StepEntry(r).n = step[r]
      BY <1>2 DEF StepEntry, StepsOf
    <2>2. QED
      BY <2>1, EntrySets
  <1>4. factory.role[step[r]] \in Instances
    BY <1>2, FactoryIs, Typed
  <1>5. /\ queue' \in Lines
        /\ \A E : StepEntry(r) \notin E => /\ Free(queue, work, E) => Free(queue', work, E)
                                           /\ Only(queue, work, E) => Only(queue', work, E)
        /\ \A E : StepEntry(r) \in E => (Free(queue, work, E) => Only(queue', work, E))
    <2> DEFINE e == StepEntry(r)  i == factory.role[step[r]]
    <2>1. e \in Entries /\ i \in Instances /\ queue' = [queue EXCEPT ![i] = Append(@, e)]
      BY <1>1, <1>3, <1>4
    <2> HIDE DEF e, i
    <2>2. ASSUME NEW E PROVE /\ queue' \in Lines
                             /\ e \notin E => (Free(queue, work, E) => Free(queue', work, E)) /\ (Only(queue, work, E) => Only(queue', work, E))
                             /\ e \in E => (Free(queue, work, E) => Only(queue', work, E))
      BY <2>1, Joined, Typed
    <2>3. QED
      BY <2>2 DEF e
  <1>6. TypeOK'
    BY <1>1, <1>5, Typed DEF TypeOK, Lines
  <1>7. ASSUME NEW q \in Runs PROVE StepKnown(q)' /\ RunDriven(q)' /\ Clocked(q)' /\ RunCalls(q)'
    <2>1. StepKnown(q) /\ RunDriven(q) /\ Clocked(q) /\ RunCalls(q)
      BY DEF IInv
    <2>2. StepKnown(q)' /\ Clocked(q)'
      BY <1>1, <2>1, StaysClocked, Typed DEF StepKnown, Steps
    <2>3. RunCalls(q)'
      <3>1. LinesKeep(CallsOf(q))
        BY <1>1, <1>3, <1>5, EntrySets DEF LinesKeep, CallsOf
      <3>2. QED
        BY <1>1, <2>1, <3>1, StaysOwed, Typed
    <2>4. CASE q # r
      <3>1. LinesKeep(StepsOf(q))
        BY <1>1, <1>3, <1>5, <2>4, EntrySets DEF LinesKeep
      <3>2. RunDriven(q)'
        BY <1>1, <1>2, <2>1, <2>4, <3>1, StaysDriven
      <3>3. QED
        BY <2>2, <2>3, <3>2
    <2>5. CASE q = r
      <3>1. Driven(r)'
        BY <1>1, <1>2, <1>3, <1>5, DrivenIs
      <3>2. Free(queue', work', BadSteps(r, step[r], factory))
        <4>1. StepEntry(r) \notin BadSteps(r, step[r], factory)
          BY <1>1, <1>3 DEF BadSteps
        <4>2. Free(queue, work, BadSteps(r, step[r], factory))
          BY <2>1, <2>5 DEF RunDriven
        <4>3. QED
          BY <1>1, <1>5, <4>1, <4>2
      <3>3. (Free(queue, work, BadSteps(r, step[r], factory)))' = Free(queue', work', BadSteps(r, step[r], factory))
        BY <1>1 DEF BadSteps, StepsOf, Steps, Free, InLine
      <3>4. RunDriven(r)'
        BY <1>1, <1>2, <3>1, <3>2, <3>3 DEF RunDriven
      <3>5. QED
        BY <2>2, <2>3, <2>5, <3>4
    <2>6. QED
      BY <2>4, <2>5
  <1>8. Idle' /\ Backing'
    BY <1>1 DEF IInv, Idle, Backing
  <1>9. QED
    BY <1>6, <1>7, <1>8 DEF IInv

\* The run's timer is armed, over one that may be there.
LEMMA ArmIs ==
    ASSUME IInv, NEW D \in SUBSET Runs, NEW ends, Arm(ends), DOMAIN ends = D,
           \A q \in D : ends[q] \in (Timers \cup {"wake"}) \ {"none"}
    PROVE  /\ armed' \in [Runs -> Timers \cup {"wake"}]
           /\ \A q \in Runs : armed'[q] = IF q \in D THEN ends[q] ELSE armed[q]
           /\ strays' \in [Runs -> SUBSET StrayTimers]
           /\ \A q \in Runs : \A t \in strays'[q] : t.ends # "none"
  <1>1. armed' = [q \in Runs |-> IF q \in D THEN ends[q] ELSE armed[q]]
    BY DEF Arm
  <1>2. armed' \in [Runs -> Timers \cup {"wake"}] /\ \A q \in Runs : armed'[q] = IF q \in D THEN ends[q] ELSE armed[q]
    BY <1>1, Typed
  <1>3. ASSUME NEW q \in Runs, armed[q] # "none" PROVE Stray(q, TRUE) \in StrayTimers /\ Stray(q, TRUE).ends # "none"
    <2>1. status[q] = "parked" /\ armed[q] \in Timers \cup {"wake"}
      BY <1>3, Typed
    <2>2. step[q] \in Steps
      BY <2>1 DEF IInv, StepKnown
    <2>3. QED
      BY <1>3, <2>1, <2>2 DEF Stray, StrayTimers
  <1>4. strays' = [q \in Runs |-> IF q \in D /\ armed[q] # "none" THEN strays[q] \cup {Stray(q, TRUE)} ELSE strays[q]]
    BY DEF Arm
  <1>5. \A q \in Runs : strays[q] \subseteq StrayTimers /\ \A t \in strays[q] : t.ends # "none"
    BY Typed
  <1>6. QED
    BY <1>2, <1>3, <1>4, <1>5

-----------------------------------------------------------------------------
LEMMA AtHand ==
    ASSUME IInv, NEW i \in Instances, work[i] # NoWork, work[i].kind = "step"
    PROVE  /\ work[i].run \in Runs /\ work[i] \in StepsOf(work[i].run)
           /\ work[i].n = step[work[i].run] /\ step[work[i].run] \in Steps
           /\ factory.kind[step[work[i].run]] = "work"
           /\ status[work[i].run] \in {"queued", "running"} /\ moving # work[i].run
           /\ work[i].run \notin resuming.todo
           /\ Only(queue, work, StepsOf(work[i].run))
           /\ work[i] = StepEntry(work[i].run)
  <1>1. work[i] \in Entries /\ Len(queue[i]) \in Nat
    BY DEF IInv, TypeOK
  <1>2. PICK r \in Runs : work[i] \in StepsOf(r)
    BY <1>1 DEF Entries, Calls
  <1>3. work[i].run = r /\ work[i].n \in Steps /\ work[i] = [kind |-> "step", run |-> r, n |-> work[i].n]
    BY <1>2 DEF StepsOf
  <1>4. 0 \in 0..Len(queue[i]) /\ InLine(queue, work, i, 0) = work[i]
    BY <1>1 DEF InLine
  <1>5. ~Free(queue, work, StepsOf(r))
    BY <1>2, <1>4 DEF Free
  <1>6. RunDriven(r)
    BY DEF IInv
  <1>7. status[r] \in {"queued", "running"} /\ moving # r /\ r \notin resuming.todo /\ Only(queue, work, StepsOf(r))
    BY <1>5, <1>6, DrivenIs DEF RunDriven
  <1>8. work[i] \notin BadSteps(r, step[r], factory)
    BY <1>4, <1>6 DEF RunDriven, Free
  <1>9. work[i].n = step[r] /\ factory.kind[step[r]] = "work"
    BY <1>2, <1>8 DEF BadSteps
  <1>10. QED
    BY <1>2, <1>3, <1>7, <1>9 DEF StepEntry

LEMMA HandDown ==
    ASSUME IInv, NEW i \in Instances, work[i] # NoWork, work[i].kind = "step", Done(i)
    PROVE  /\ work' \in Hands /\ Free(queue, work', StepsOf(work[i].run))
           /\ \A q \in Runs : q # work[i].run => WorkKeeps(StepsOf(q))
           /\ WorkKeeps(Calls)
           /\ \A j \in Instances : j # i => work'[j] = work[j]
           /\ \A j \in Instances : \A q \in Runs : q # work[i].run /\ work[j] \in StepsOf(q) => work'[j] = work[j]
  <1> DEFINE r == work[i].run
  <1>1. work[i] \in StepsOf(r) /\ Only(queue, work, StepsOf(r)) /\ r \in Runs
    BY AtHand
  <1>2. work' = [work EXCEPT ![i] = NoWork] /\ queue \in Lines /\ work \in Hands
    BY Typed DEF Done
  <1> HIDE DEF r
  <1>3. ASSUME NEW E \in SUBSET Entries
        PROVE  /\ work' \in Hands
               /\ Free(queue, work, E) => Free(queue, work', E)
               /\ work[i] \notin E => (Only(queue, work, E) => Only(queue, work', E))
               /\ work[i] \in E => (Only(queue, work, E) => Free(queue, work', E))
    BY <1>2, LaidDown
  <1>4. Free(queue, work', StepsOf(r)) /\ work' \in Hands
    BY <1>1, <1>3, EntrySets
  <1>5. \A q \in Runs : q # r => WorkKeeps(StepsOf(q))
    BY <1>1, <1>3, EntrySets DEF WorkKeeps
  <1>6. WorkKeeps(Calls)
    BY <1>1, <1>3, EntrySets DEF WorkKeeps
  <1>7. \A j \in Instances : j # i => work'[j] = work[j]
    BY <1>2 DEF Hands
  <1>8. \A j \in Instances : \A q \in Runs : q # r /\ work[j] \in StepsOf(q) => work'[j] = work[j]
    BY <1>1, <1>7, EntrySets
  <1>9. QED
    BY <1>4, <1>5, <1>6, <1>7, <1>8 DEF r

LEMMA AnswerKeeps == ASSUME IInv, NEW i \in Instances, NEW result \in Results, Answer(i, result) PROVE IInv'
  <1> DEFINE r == work[i].run
             s == work[i].n
  <1>1. /\ moving = NoRun /\ work[i] # NoWork /\ work[i].kind = "step" /\ i \notin paused /\ Done(i)
        /\ Settle(r, s, result) /\ factory' = factory
        /\ UNCHANGED <<paused, later, armed, strays, woken, resuming, used>>
    BY DEF Answer, AtStep, AtRest, timers
  <1>2. r \in Runs /\ s \in Steps /\ status[r] \in {"queued", "running"} /\ r \notin resuming.todo
    BY <1>1, AtHand
  <1>3. /\ work' \in Hands /\ Free(queue, work', StepsOf(r))
        /\ \A q \in Runs : q # r => WorkKeeps(StepsOf(q))
        /\ WorkKeeps(Calls)
        /\ \A j \in Instances : j # i => work'[j] = work[j]
        /\ \A j \in Instances : \A q \in Runs : q # r /\ work[j] \in StepsOf(q) => work'[j] = work[j]
    BY <1>1, HandDown
  <1> HIDE DEF r, s
  <1>4. \A j \in paused : work'[j] = work[j]
    BY <1>1, <1>3, Typed
  <1>5. status[r] \notin Ends /\ ~Timed(r)
    BY <1>2, Typed DEF Ends
  <1>6. /\ armed' \in [Runs -> Timers \cup {"wake"}] /\ armed'[r] = "none"
        /\ \A q \in Runs : q # r => armed'[q] = armed[q]
        /\ strays' \in [Runs -> SUBSET StrayTimers]
        /\ \A q \in Runs : \A t \in strays'[q] : t.ends # "none"
    BY <1>1, <1>2, <1>5, UnarmedIs DEF timers
  <1>7. woken' \in [Runs -> SUBSET Steps] /\ used' \in [Bounded -> Nat]
    BY <1>1, Typed
  <1>8. QED
    BY <1>1, <1>2, <1>3, <1>4, <1>5, <1>6, <1>7, SettleKeeps

\* A run that comes to rest, parked and with nothing left to run it.
LEMMA ParkedKeeps ==
    ASSUME IInv, NEW r \in Runs, status[r] \in {"queued", "running"}, step[r] \in Steps,
           status' = [status EXCEPT ![r] = "parked"], factory' = factory,
           UNCHANGED <<step, failures, sent, gen, reported, owes, told, queue, paused, later, resuming>>,
           open' \in [Runs -> BOOLEAN], wakes' \in [Runs -> BOOLEAN], \A q \in Runs : q # r => wakes'[q] = wakes[q],
           work' \in Hands, Free(queue, work', StepsOf(r)), r \notin resuming.todo,
           moving \in {NoRun, r}, moving' = NoRun,
           \A q \in Runs : q # r => WorkKeeps(StepsOf(q)), WorkKeeps(Calls),
           \A j \in Instances : \A q \in Runs : q # r /\ work[j] \in StepsOf(q) => work'[j] = work[j],
           \A j \in paused : work'[j] = work[j],
           armed' \in [Runs -> Timers \cup {"wake"}], strays' \in [Runs -> SUBSET StrayTimers],
           \A q \in Runs : q # r => armed'[q] = armed[q],
           \A q \in Runs : \A t \in strays'[q] : t.ends # "none",
           woken' \in [Runs -> SUBSET Steps], used' \in [Bounded -> Nat],
           wakes'[r] => factory.kind[step[r]] = "work",
           armed'[r] # "none" <=> (wakes'[r] \/ (step[r] \in Waits /\ factory.timer[step[r]] # "none"))
    PROVE  IInv'
  <1>1. TypeOK'
    <2>1. status' \in [Runs -> Unfinished \cup Ends \cup {"new"}]
      BY Typed DEF TypeOK, Unfinished
    <2>2. QED
      BY <2>1, Typed DEF TypeOK, Hands, StrayTimers
  <1>2. status'[r] = "parked" /\ \A q \in Runs : q # r => status'[q] = status[q]
    BY Typed DEF TypeOK
  <1>3. NoRun \notin Runs /\ \A q \in Runs : (moving' = q) <=> (moving = q /\ q # r)
    BY Nobody
  <1>4. ASSUME NEW q \in Runs PROVE StepKnown(q)' /\ RunDriven(q)' /\ Clocked(q)' /\ RunCalls(q)'
    <2>1. StepKnown(q) /\ RunDriven(q) /\ Clocked(q) /\ RunCalls(q)
      BY DEF IInv
    <2>2. StepKnown(q)'
      BY <1>2, <2>1 DEF StepKnown, Steps
    <2>3. RunCalls(q)'
      <3>1. (status'[q] \in Stops => status[q] = status'[q]) /\ (status[q] \in Ends => status'[q] = status[q])
        BY <1>2 DEF Stops, Ends
      <3>2. LinesKeep(CallsOf(q))
        BY DEF LinesKeep, WorkKeeps, CallsOf
      <3>3. QED
        BY <2>1, <3>1, <3>2, StaysOwed, Typed
    <2>4. CASE q # r
      <3>1. LinesKeep(StepsOf(q))
        BY <2>4 DEF LinesKeep, WorkKeeps
      <3>2. RunDriven(q)'
        BY <1>2, <1>3, <2>1, <2>4, <3>1, StaysDriven
      <3>3. Clocked(q)'
        BY <1>2, <2>1, <2>4, StaysClocked
      <3>4. QED
        BY <2>2, <2>3, <3>2, <3>3
    <2>5. CASE q = r
      <3>1. Clocked(r)'
        BY <1>2 DEF Clocked, Timed, Waits, Steps
      <3>2. Undriven(r)'
        BY <1>3, DrivenIs
      <3>3. \A n, f : BadSteps(r, n, f) \subseteq StepsOf(r)
        BY DEF BadSteps
      <3>4. \A n, f : Free(queue', work', BadSteps(r, n, f))
        BY <3>3, Disjoint
      <3>5. (Free(queue, work, BadSteps(r, step[r], factory)))' = Free(queue', work', BadSteps(r, step'[r], factory'))
        BY DEF BadSteps, StepsOf, Steps, Free, InLine
      <3>6. RunDriven(r)'
        BY <1>2, <3>2, <3>4, <3>5 DEF RunDriven
      <3>7. QED
        BY <2>2, <2>3, <2>5, <3>1, <3>6
    <2>6. QED
      BY <2>4, <2>5
  <1>5. Idle' /\ Backing'
    BY DEF IInv, Idle, Backing
  <1>6. QED
    BY <1>1, <1>4, <1>5 DEF IInv

LEMMA ParkKeeps == ASSUME IInv, NEW r \in Runs, Park(r) PROVE IInv'
  <1>1. moving = r /\ status' = [status EXCEPT ![r] = "parked"] /\ factory' = factory /\ moving' = NoRun
        /\ open' = [open EXCEPT ![r] = TRUE]
        /\ UNCHANGED <<step, failures, sent, wakes, gen, reported, owes, told, queue, work, paused, later, woken, resuming, used>>
    BY DEF Park, Parks, workers
  <1>2. Free(queue, work, StepsOf(r)) /\ r \notin resuming.todo /\ status[r] = "queued" /\ step[r] \in Steps
    BY <1>1, Apart
  <1>3. ~wakes[r] /\ armed[r] = "none" /\ ~Timed(r)
    BY <1>2, Typed DEF IInv, Clocked
  <1>4. /\ armed' \in [Runs -> Timers \cup {"wake"}] /\ strays' \in [Runs -> SUBSET StrayTimers]
        /\ \A q \in Runs : q # r => armed'[q] = armed[q]
        /\ \A q \in Runs : \A t \in strays'[q] : t.ends # "none"
        /\ armed'[r] # "none" <=> (step[r] \in Waits /\ factory.timer[step[r]] # "none")
    <2>1. CASE factory.kind[step[r]] = "wait" /\ factory.timer[step[r]] # "none"
      <3> DEFINE ends == [q \in {r} |-> factory.timer[step[q]]]
      <3>1. Arm(ends)
        BY <2>1 DEF Park
      <3>2. DOMAIN ends = {r} /\ \A q \in {r} : ends[q] \in (Timers \cup {"wake"}) \ {"none"}
        BY <1>2, <2>1, FactoryIs, Typed
      <3>3. ends[r] # "none"
        BY <2>1
      <3> HIDE DEF ends
      <3>4. /\ armed' \in [Runs -> Timers \cup {"wake"}]
            /\ \A q \in Runs : armed'[q] = IF q \in {r} THEN ends[q] ELSE armed[q]
            /\ strays' \in [Runs -> SUBSET StrayTimers]
            /\ \A q \in Runs : \A t \in strays'[q] : t.ends # "none"
        BY <3>1, <3>2, ArmIs
      <3>5. QED
        BY <1>2, <2>1, <3>3, <3>4 DEF Waits
    <2>2. CASE ~(factory.kind[step[r]] = "wait" /\ factory.timer[step[r]] # "none")
      <3>1. UNCHANGED timers
        BY <2>2 DEF Park
      <3>2. QED
        BY <1>2, <1>3, <2>2, <3>1, UnarmedIs DEF Waits
    <2>3. QED
      BY <2>1, <2>2
  <1>5. open' \in [Runs -> BOOLEAN] /\ wakes' \in [Runs -> BOOLEAN] /\ woken' \in [Runs -> SUBSET Steps] /\ used' \in [Bounded -> Nat]
    BY <1>1, Typed DEF TypeOK
  <1>6. work' \in Hands /\ \A S : WorkKeeps(S)
    BY <1>1, SameWork, Typed
  <1>7. QED
    BY <1>1, <1>2, <1>3, <1>4, <1>5, <1>6, ParkedKeeps

LEMMA LimitedKeeps == ASSUME IInv, NEW i \in Instances, Limited(i) PROVE IInv'
  <1> DEFINE r == work[i].run
  <1>1. /\ moving = NoRun /\ work[i] # NoWork /\ work[i].kind = "step" /\ i \notin paused /\ Done(i) /\ Uses("limited")
        /\ open' = [open EXCEPT ![r] = FALSE] /\ status' = [status EXCEPT ![r] = "parked"]
        /\ wakes' = [wakes EXCEPT ![r] = TRUE] /\ factory' = factory
        /\ UNCHANGED <<step, failures, sent, gen, reported, owes, told, queue, paused, later, woken, moving, resuming>>
        /\ Arm([q \in {r} |-> "wake"])
    BY DEF Limited, AtStep, AtRest
  <1>2. r \in Runs /\ step[r] \in Steps /\ status[r] \in {"queued", "running"} /\ r \notin resuming.todo
        /\ factory.kind[step[r]] = "work"
    BY <1>1, AtHand
  <1>3. /\ work' \in Hands /\ Free(queue, work', StepsOf(r))
        /\ \A q \in Runs : q # r => WorkKeeps(StepsOf(q))
        /\ WorkKeeps(Calls)
        /\ \A j \in Instances : j # i => work'[j] = work[j]
        /\ \A j \in Instances : \A q \in Runs : q # r /\ work[j] \in StepsOf(q) => work'[j] = work[j]
    BY <1>1, HandDown
  <1> HIDE DEF r
  <1>4. \A j \in paused : work'[j] = work[j]
    BY <1>1, <1>3, Typed
  <1>5. /\ armed' \in [Runs -> Timers \cup {"wake"}] /\ strays' \in [Runs -> SUBSET StrayTimers]
        /\ \A q \in Runs : armed'[q] = IF q = r THEN "wake" ELSE armed[q]
        /\ \A q \in Runs : \A t \in strays'[q] : t.ends # "none"
    <2> DEFINE ends == [q \in {r} |-> "wake"]
    <2>1. Arm(ends) /\ DOMAIN ends = {r} /\ \A q \in {r} : ends[q] = "wake"
      BY <1>1
    <2>2. \A q \in {r} : ends[q] \in (Timers \cup {"wake"}) \ {"none"}
      BY <2>1
    <2> HIDE DEF ends
    <2>3. /\ armed' \in [Runs -> Timers \cup {"wake"}]
          /\ \A q \in Runs : armed'[q] = IF q \in {r} THEN ends[q] ELSE armed[q]
          /\ strays' \in [Runs -> SUBSET StrayTimers]
          /\ \A q \in Runs : \A t \in strays'[q] : t.ends # "none"
      BY <1>2, <2>1, <2>2, ArmIs
    <2>4. QED
      BY <2>1, <2>3
  <1>6. open' \in [Runs -> BOOLEAN] /\ wakes' \in [Runs -> BOOLEAN] /\ wakes'[r] /\ \A q \in Runs : q # r => wakes'[q] = wakes[q]
    <2>1. wakes \in [Runs -> BOOLEAN] /\ open \in [Runs -> BOOLEAN]
      BY Typed DEF TypeOK
    <2>2. QED
      BY <1>1, <1>2, <2>1
  <1>7. woken' \in [Runs -> SUBSET Steps] /\ used' \in [Bounded -> Nat]
    BY <1>1, UsesIs, Typed DEF Bounded
  <1>8. armed'[r] # "none"
    BY <1>2, <1>5
  <1>9. QED
    BY <1>1, <1>2, <1>3, <1>4, <1>5, <1>6, <1>7, <1>8, ParkedKeeps

-----------------------------------------------------------------------------
LEMMA KnownCall ==
    ASSUME IInv, NEW c \in Calls, ~Dismissed(c)
    PROVE  /\ c.run \in Runs /\ c \in CallsOf(c.run) /\ c.n \in 1..gen[c.run] /\ c.n \in Nat
           /\ c.kind \in {"stop", "needs_human", "ended"} /\ c = Call(c.kind, c.run, c.n)
           /\ Pending(c)
           /\ c.kind = "stop" => <<c.run, c.n>> \notin told
           /\ c.kind = "ended" => owes[c.run] /\ c.n = gen[c.run] /\ status[c.run] \in Ends
  <1> DEFINE r == c.run
             g == c.n
  <1>1. r \in Runs /\ g \in Nat /\ c.kind \in {"stop", "needs_human", "ended"} /\ c = Call(c.kind, r, g) /\ c \in CallsOf(r)
    BY DEF Calls, Call, CallsOf
  <1> HIDE DEF r, g
  <1>2. RunCalls(r) /\ TypeOK
    BY <1>1 DEF IInv
  <1>3. g \in 1..gen[r]
    <2> SUFFICES ASSUME g \notin 1..gen[r] PROVE FALSE
      OBVIOUS
    <2>1. c \in BadCalls(r, gen[r])
      BY <1>1 DEF BadCalls, r, g
    <2>2. c \notin later /\ c \notin resuming.owed
      BY <1>2, <2>1 DEF RunCalls
    <2>3. Free(queue, work, {c})
      BY <1>2, <2>1, Disjoint DEF RunCalls
    <2>4. QED
      BY <2>2, <2>3, PendingIs
  <1>4. CallOwed(r, g)
    BY <1>2, <1>3 DEF RunCalls
  <1>5. CASE c.kind = "stop"
    <2>1. c = Call("stop", r, g)
      BY <1>1, <1>5
    <2>2. Pending(c) /\ <<r, g>> \notin told
      BY <1>4, <2>1 DEF CallOwed
    <2>3. QED
      BY <1>1, <1>3, <1>5, <2>2 DEF r, g
  <1>6. CASE c.kind = "ended"
    <2>1. c = Call("ended", r, g)
      BY <1>1, <1>6
    <2>2. Pending(c) /\ owes[r] /\ g = gen[r]
      BY <1>4, <2>1 DEF CallOwed
    <2>3. QED
      BY <1>1, <1>2, <1>3, <1>6, <2>2 DEF r, g, RunCalls
  <1>7. CASE c.kind = "needs_human"
    <2>1. c = Call("needs_human", r, g)
      BY <1>1, <1>7
    <2>2. Pending(c)
      BY <1>4, <2>1 DEF CallOwed
    <2>3. QED
      BY <1>1, <1>3, <1>7, <2>2 DEF r, g
  <1>8. QED
    BY <1>1, <1>5, <1>6, <1>7

\* A step about calls alone leaves the runs and their steps as they are.
LEMMA CallKeeps ==
    ASSUME IInv, factory' = factory,
           UNCHANGED <<status, step, open, failures, sent, wakes, gen, paused, armed, strays, moving, woken>>,
           resuming'.on = resuming.on, resuming'.todo = resuming.todo,
           resuming' \in [on : BOOLEAN, todo : SUBSET Runs, owed : SUBSET Calls],
           used' \in [Bounded -> Nat], queue' \in Lines, work' \in Hands, later' \subseteq Calls,
           told' \subseteq Runs \X Nat, reported' \in [Runs -> BOOLEAN], owes' \in [Runs -> BOOLEAN],
           \A q \in Runs : LinesKeep(StepsOf(q)),
           \A j \in Instances : \A q \in Runs : work[j] \in StepsOf(q) => work'[j] = work[j],
           \A j \in paused : work'[j] = work[j],
           \A q \in Runs : RunCalls(q)'
    PROVE  IInv'
  <1>1. TypeOK'
    BY Typed DEF TypeOK, Lines, Hands, StrayTimers
  <1>2. ASSUME NEW q \in Runs PROVE StepKnown(q)' /\ RunDriven(q)' /\ Clocked(q)' /\ RunCalls(q)'
    <2>1. StepKnown(q) /\ RunDriven(q) /\ Clocked(q)
      BY DEF IInv
    <2>2. StepKnown(q)'
      BY <2>1 DEF StepKnown, Steps
    <2>3. RunDriven(q)'
      BY <2>1, StaysDriven
    <2>4. Clocked(q)'
      BY <2>1, StaysClocked, Typed
    <2>5. QED
      BY <2>2, <2>3, <2>4
  <1>3. Idle' /\ Backing'
    BY DEF IInv, Idle, Backing
  <1>4. QED
    BY <1>1, <1>2, <1>3 DEF IInv

\* A call moves from one place to another.
LEMMA ShiftedOwed ==
    ASSUME IInv, NEW c \in Calls, ~Dismissed(c), Pending(c)', UNCHANGED <<status, gen, reported, owes, told>>,
           \A x \in Calls : x # c => (Pending(x) => Pending(x)') /\ (Dismissed(x) => Dismissed(x)'),
           \A E \in SUBSET Calls : c \notin E => (Free(queue, work, E) => Free(queue', work', E)),
           later' \cup resuming'.owed \subseteq later \cup resuming.owed \cup {c}
    PROVE  \A q \in Runs : RunCalls(q)'
  <1> SUFFICES ASSUME NEW q \in Runs PROVE RunCalls(q)'
    OBVIOUS
  <1>1. RunCalls(q) /\ TypeOK
    BY DEF IInv
  <1>2. \A x \in CallsOf(q) : (Pending(x) => Pending(x)') /\ (Dismissed(x) => Dismissed(x)')
    BY DEF CallsOf
  <1>3. c \notin BadCalls(q, gen[q])
    BY KnownCall DEF BadCalls
  <1>4. Free(queue', work', BadCalls(q, gen[q]))
    BY <1>1, <1>3 DEF RunCalls, BadCalls
  <1>5. \A x \in later' \cup resuming'.owed : x \notin BadCalls(q, gen[q])
    BY <1>1, <1>3 DEF RunCalls
  <1>6. QED
    BY <1>1, <1>2, <1>4, <1>5, KeepsOwed

\* A call is over: it was made, or dropped as stale.
LEMMA EndedOwed ==
    ASSUME IInv, NEW c \in Calls, ~Dismissed(c), Dismissed(c)', UNCHANGED <<status, gen, later, resuming>>,
           \A E \in SUBSET Calls : c \notin E => /\ Free(queue, work, E) => Free(queue', work', E)
                                                 /\ Only(queue, work, E) => Only(queue', work', E),
           Free(queue', work', {c}),
           \A E \in SUBSET Calls : Free(queue, work, E) => Free(queue', work', E),
           \A q \in Runs : q # c.run => owes'[q] = owes[q] /\ reported'[q] = reported[q],
           \A q \in Runs : \A g \in Nat : ~(c.kind = "stop" /\ q = c.run /\ g = c.n) =>
                (<<q, g>> \in told') <=> (<<q, g>> \in told),
           c.kind = "stop" => <<c.run, c.n>> \in told',
           owes'[c.run] <=> owes[c.run] /\ c.kind # "ended",
           c.kind # "needs_human" \/ gen[c.run] # c.n => (reported'[c.run] <=> reported[c.run]),
           c.kind = "needs_human" /\ gen[c.run] = c.n /\ status[c.run] = "needs_human" => reported'[c.run]
    PROVE  \A q \in Runs : RunCalls(q)'
  <1>1. /\ c.run \in Runs /\ c \in CallsOf(c.run) /\ c.n \in 1..gen[c.run] /\ c.n \in Nat
        /\ c.kind \in {"stop", "needs_human", "ended"} /\ c = Call(c.kind, c.run, c.n)
        /\ Pending(c)
        /\ c.kind = "ended" => c.n = gen[c.run]
    BY KnownCall
  <1>2. ASSUME NEW q \in Runs, q # c.run PROVE RunCalls(q)'
    <2>1. RunCalls(q) /\ TypeOK
      BY DEF IInv
    <2>2. LinesKeep(CallsOf(q))
      BY <1>2 DEF LinesKeep, CallsOf
    <2>3. \A g \in Nat : (<<q, g>> \in told') <=> (<<q, g>> \in told)
      BY <1>2
    <2>4. QED
      BY <1>2, <2>1, <2>2, <2>3, StaysOwed
  <1> DEFINE r == c.run
  <1>3. RunCalls(r)'
    <2>1. RunCalls(r) /\ TypeOK /\ r \in Runs
      BY <1>1 DEF IInv
    <2>2. ASSUME NEW g \in 1..gen[r] PROVE CallOwed(r, g)'
      <3> DEFINE x == Call("stop", r, g)
                 d == Call("ended", r, g)
                 e == Call("needs_human", r, g)
      <3>1. CallOwed(r, g) /\ g \in Nat
        BY <2>1 DEF RunCalls, TypeOK
      <3>2. ASSUME NEW k \in {"stop", "needs_human", "ended"}, NEW y, y = Call(k, r, g)
            PROVE  /\ y # c => (Pending(y) => Pending(y)') /\ (Dismissed(y) => Dismissed(y)')
                   /\ y = c => Dismissed(y)'
                   /\ (y = c) <=> (k = c.kind /\ g = c.n)
        <4>1. y \in Calls /\ y.kind = k /\ y.n = g
          BY <2>1, <3>1, <3>2, CallsOfIs DEF CallsOf
        <4>2. (y = c) <=> (k = c.kind /\ g = c.n)
          BY <1>1, <3>2, <4>1
        <4>3. y # c => (Free(queue, work, {y}) => Free(queue', work', {y})) /\ (Only(queue, work, {y}) => Only(queue', work', {y}))
          BY <4>1
        <4>4. QED
          BY <4>2, <4>3, PendingIs
      <3>3. /\ IF <<r, g>> \in told THEN Dismissed(x) ELSE Pending(x)
            /\ IF owes[r] /\ g = gen[r] THEN Pending(d) ELSE Dismissed(d)
            /\ Pending(e) \/ Dismissed(e)
            /\ status[r] = "needs_human" /\ g = gen[r] => (Pending(e) <=> ~reported[r])
        BY <3>1 DEF CallOwed
      <3>4. /\ x # c => (Pending(x) => Pending(x)') /\ (Dismissed(x) => Dismissed(x)')
            /\ x = c => Dismissed(x)'
            /\ (x = c) <=> (c.kind = "stop" /\ g = c.n)
        BY <3>2 DEF Call
      <3>5. /\ d # c => (Pending(d) => Pending(d)') /\ (Dismissed(d) => Dismissed(d)')
            /\ d = c => Dismissed(d)'
            /\ (d = c) <=> (c.kind = "ended" /\ g = c.n)
        BY <3>2 DEF Call
      <3>6. /\ e # c => (Pending(e) => Pending(e)') /\ (Dismissed(e) => Dismissed(e)')
            /\ e = c => Dismissed(e)'
            /\ (e = c) <=> (c.kind = "needs_human" /\ g = c.n)
        BY <3>2 DEF Call
      <3>7. ~(Pending(e) /\ Dismissed(e)) /\ ~(Pending(e)' /\ Dismissed(e)')
        <4>1. ASSUME NEW y PROVE ~(Pending(y) /\ Dismissed(y))
          BY PendingOnce
        <4>2. ASSUME NEW y, y = e PROVE ~(Pending(y)' /\ Dismissed(y)')
          BY PendingOnce
        <4>3. QED
          BY <4>1, <4>2 DEF Call
      <3>8. /\ ~(c.kind = "stop" /\ g = c.n) => (<<r, g>> \in told' <=> <<r, g>> \in told)
            /\ c.kind = "stop" /\ g = c.n => <<r, g>> \in told'
        BY <2>1, <3>1
      <3> HIDE DEF x, d, e
      <3>9. IF <<r, g>> \in told' THEN Dismissed(x)' ELSE Pending(x)'
        BY <3>3, <3>4, <3>8
      <3>10. IF owes'[r] /\ g = gen'[r] THEN Pending(d)' ELSE Dismissed(d)'
        BY <1>1, <3>3, <3>5
      <3>11. Pending(e)' \/ Dismissed(e)'
        BY <3>3, <3>6
      <3>12. status'[r] = "needs_human" /\ g = gen'[r] => (Pending(e)' <=> ~reported'[r])
        BY <3>3, <3>6, <3>7
      <3>13. QED
        BY <3>9, <3>10, <3>11, <3>12 DEF CallOwed, x, d, e
    <2>3. (Free(queue, work, BadCalls(r, gen[r])))'
      <3>1. BadCalls(r, gen[r]) \in SUBSET Calls /\ Free(queue, work, BadCalls(r, gen[r]))
        BY <2>1 DEF BadCalls, RunCalls
      <3>2. Free(queue', work', BadCalls(r, gen[r]))
        BY <3>1
      <3>3. (Free(queue, work, BadCalls(r, gen[r])))' = Free(queue', work', BadCalls(r, gen'[r]))
        BY DEF BadCalls, Calls, Free, InLine
      <3> HIDE DEF r
      <3>4. QED
        BY <3>2, <3>3
    <2>4. (\A y \in later \cup resuming.owed : y \notin BadCalls(r, gen[r]))'
      BY <2>1 DEF RunCalls, BadCalls, Calls
    <2>5. (status'[r] \in Stops => gen'[r] >= 1) /\ (owes'[r] => status'[r] \in Ends)
      BY <2>1 DEF RunCalls
    <2>6. \A g \in Nat : <<r, g>> \in told' => g <= gen'[r]
      BY <1>1, <2>1 DEF RunCalls
    <2> HIDE DEF r
    <2>7. \A g \in 1..gen'[r] : CallOwed(r, g)'
      BY <2>2
    <2>8. QED
      BY <2>3, <2>4, <2>5, <2>6, <2>7 DEF RunCalls
  <1>4. QED
    BY <1>2, <1>3

-----------------------------------------------------------------------------
LEMMA CallAtHand ==
    ASSUME IInv, NEW i \in Instances, work[i] # NoWork, work[i].kind # "step"
    PROVE  /\ work[i] \in Calls /\ ~Dismissed(work[i]) /\ i \notin paused
           /\ Only(queue, work, {work[i]}) /\ work[i] \notin later /\ work[i] \notin resuming.owed
           /\ \A q \in Runs : work[i] \notin StepsOf(q)
  <1>1. work[i] \in Entries /\ Len(queue[i]) \in Nat
    BY DEF IInv, TypeOK
  <1>2. work[i] \in Calls
    BY <1>1 DEF Entries, StepsOf
  <1>3. 0 \in 0..Len(queue[i]) /\ InLine(queue, work, i, 0) = work[i]
    BY <1>1 DEF InLine
  <1>4. ~Free(queue, work, {work[i]})
    BY <1>3 DEF Free
  <1> DEFINE c == work[i]
  <1>5. c \in Calls /\ ~Free(queue, work, {c})
    BY <1>2, <1>4
  <1>6. i \notin paused
    BY DEF IInv, Backing
  <1> HIDE DEF c
  <1>7. ~Dismissed(c)
    BY <1>5, PendingIs
  <1>8. Pending(c)
    BY <1>5, <1>7, KnownCall
  <1>9. Only(queue, work, {c}) /\ c \notin later /\ c \notin resuming.owed
    BY <1>5, <1>8, PendingIs
  <1>10. \A q \in Runs : c \notin StepsOf(q)
    BY <1>5, EntrySets
  <1>11. QED
    BY <1>5, <1>6, <1>7, <1>9, <1>10 DEF c

LEMMA CallLaidDown ==
    ASSUME IInv, NEW i \in Instances, work[i] # NoWork, work[i].kind # "step", Done(i), queue' = queue
    PROVE  /\ work' \in Hands /\ Free(queue', work', {work[i]})
           /\ \A E \in SUBSET Entries : Free(queue, work, E) => Free(queue', work', E)
           /\ \A E \in SUBSET Entries : work[i] \notin E => (Only(queue, work, E) => Only(queue', work', E))
           /\ \A q \in Runs : LinesKeep(StepsOf(q))
           /\ \A j \in Instances : \A q \in Runs : work[j] \in StepsOf(q) => work'[j] = work[j]
           /\ \A j \in paused : work'[j] = work[j]
  <1> DEFINE c == work[i]
  <1>1. c \in Calls /\ i \notin paused /\ Only(queue, work, {c}) /\ \A q \in Runs : c \notin StepsOf(q)
    BY CallAtHand
  <1>2. work' = [work EXCEPT ![i] = NoWork] /\ work \in Hands /\ queue \in Lines
    BY Typed DEF Done
  <1>3. ASSUME NEW E \in SUBSET Entries
        PROVE  /\ work' \in Hands
               /\ Free(queue, work, E) => Free(queue', work', E)
               /\ c \notin E => (Only(queue, work, E) => Only(queue', work', E))
               /\ c \in E => (Only(queue, work, E) => Free(queue', work', E))
    BY <1>2, LaidDown
  <1>4. work' \in Hands /\ Free(queue', work', {c})
    <2>1. {c} \in SUBSET Entries
      BY <1>1, EntrySets
    <2>2. QED
      BY <1>1, <1>3, <2>1
  <1>5. \A j \in Instances : j # i => work'[j] = work[j]
    BY <1>2 DEF Hands
  <1>6. ASSUME NEW q \in Runs PROVE LinesKeep(StepsOf(q))
    <2>1. \A E \in SUBSET StepsOf(q) : E \in SUBSET Entries /\ c \notin E
      BY <1>1, EntrySets
    <2>2. QED
      BY <1>3, <2>1 DEF LinesKeep
  <1>7. \A j \in Instances : \A q \in Runs : work[j] \in StepsOf(q) => work'[j] = work[j]
    BY <1>1, <1>5
  <1>8. \A j \in paused : work'[j] = work[j]
    BY <1>1, <1>5, Typed
  <1>9. QED
    BY <1>3, <1>4, <1>6, <1>7, <1>8

LEMMA CallMadeKeeps == ASSUME IInv, NEW i \in Instances, CallMade(i) PROVE IInv'
  <1>1. PICK c, r : c = work[i] /\ r = work[i].run
    OBVIOUS
  <1>2. /\ work[i] # NoWork /\ work[i].kind # "step" /\ Done(i) /\ r = c.run
        /\ told' = IF c.kind = "stop" THEN told \cup {<<r, c.n>>} ELSE told
        /\ reported' = [reported EXCEPT ![r] = @ \/ (c.kind = "needs_human" /\ gen[r] = c.n)]
        /\ owes' = [owes EXCEPT ![r] = @ /\ c.kind # "ended"]
        /\ factory' = factory
        /\ UNCHANGED <<status, step, open, failures, sent, wakes, gen, queue, paused, later, armed, strays, woken, moving, resuming, used>>
    BY <1>1 DEF CallMade, AtCall, timers
  <1>3. /\ work' \in Hands /\ Free(queue', work', {c})
        /\ \A E \in SUBSET Entries : Free(queue, work, E) => Free(queue', work', E)
        /\ \A E \in SUBSET Entries : c \notin E => (Only(queue, work, E) => Only(queue', work', E))
        /\ \A q \in Runs : LinesKeep(StepsOf(q))
        /\ \A j \in Instances : \A q \in Runs : work[j] \in StepsOf(q) => work'[j] = work[j]
        /\ \A j \in paused : work'[j] = work[j]
    BY <1>1, <1>2, CallLaidDown
  <1>4. c \in Calls /\ ~Dismissed(c) /\ c \notin later /\ c \notin resuming.owed
    BY <1>1, <1>2, CallAtHand
  <1>5. r \in Runs /\ c.n \in Nat
    BY <1>2, <1>4 DEF Calls
  <1>6. told' \subseteq Runs \X Nat
    BY <1>2, <1>5, Typed DEF TypeOK
  <1> DEFINE hears == c.kind = "needs_human" /\ gen[r] = c.n
             stays == c.kind # "ended"
  <1>7. hears \in BOOLEAN /\ stays \in BOOLEAN /\ reported' = [reported EXCEPT ![r] = @ \/ hears] /\ owes' = [owes EXCEPT ![r] = @ /\ stays]
        /\ reported \in [Runs -> BOOLEAN] /\ owes \in [Runs -> BOOLEAN]
    BY <1>2, Typed DEF TypeOK
  <1>8. /\ reported' \in [Runs -> BOOLEAN] /\ (reported'[r] <=> reported[r] \/ hears)
        /\ \A q \in Runs : q # r => reported'[q] = reported[q]
    <2> HIDE DEF hears, stays
    <2> QED
      BY <1>5, <1>7
  <1>9. /\ owes' \in [Runs -> BOOLEAN] /\ (owes'[r] <=> owes[r] /\ stays)
        /\ \A q \in Runs : q # r => owes'[q] = owes[q]
    <2> HIDE DEF hears, stays
    <2> QED
      BY <1>5, <1>7
  <1>10. \A q \in Runs : \A g \in Nat : ~(c.kind = "stop" /\ q = r /\ g = c.n) => ((<<q, g>> \in told') <=> (<<q, g>> \in told))
    BY <1>2
  <1>11. c.kind = "stop" => <<r, c.n>> \in told'
    BY <1>2
  <1>12. Dismissed(c)'
    BY <1>2, <1>3, <1>4, PendingIs
  <1>13. /\ \A E \in SUBSET Calls : c \notin E => /\ Free(queue, work, E) => Free(queue', work', E)
                                                  /\ Only(queue, work, E) => Only(queue', work', E)
         /\ \A E \in SUBSET Calls : Free(queue, work, E) => Free(queue', work', E)
    BY <1>3, EntrySets
  <1>14. \A q \in Runs : RunCalls(q)'
    BY <1>2, <1>3, <1>4, <1>8, <1>9, <1>10, <1>11, <1>12, <1>13, EndedOwed
  <1>15. resuming' \in [on : BOOLEAN, todo : SUBSET Runs, owed : SUBSET Calls] /\ later' \subseteq Calls
         /\ used' \in [Bounded -> Nat] /\ queue' \in Lines
    BY <1>2, Typed DEF TypeOK
  <1>16. QED
    BY <1>2, <1>3, <1>6, <1>8, <1>9, <1>14, <1>15, CallKeeps

LEMMA CallFailedKeeps == ASSUME IInv, NEW i \in Instances, CallFailed(i) PROVE IInv'
  <1>1. PICK c : c = work[i]
    OBVIOUS
  <1>2. /\ work[i] # NoWork /\ work[i].kind # "step" /\ Done(i) /\ later' = later \cup {c} /\ factory' = factory /\ Uses("unsent")
        /\ UNCHANGED <<status, step, open, failures, sent, wakes, gen, reported, owes, told, queue, paused, armed, strays, woken,
                       moving, resuming>>
    BY <1>1 DEF CallFailed, AtCall, timers, registry
  <1>3. /\ work' \in Hands /\ Free(queue', work', {c})
        /\ \A E \in SUBSET Entries : Free(queue, work, E) => Free(queue', work', E)
        /\ \A E \in SUBSET Entries : c \notin E => (Only(queue, work, E) => Only(queue', work', E))
        /\ \A q \in Runs : LinesKeep(StepsOf(q))
        /\ \A j \in Instances : \A q \in Runs : work[j] \in StepsOf(q) => work'[j] = work[j]
        /\ \A j \in paused : work'[j] = work[j]
    BY <1>1, <1>2, CallLaidDown
  <1>4. c \in Calls /\ ~Dismissed(c) /\ c \notin later /\ c \notin resuming.owed
    BY <1>1, <1>2, CallAtHand
  <1>5. Pending(c)'
    BY <1>2, <1>3, <1>4, PendingIs
  <1>6. \A x \in Calls : x # c => (Pending(x) => Pending(x)') /\ (Dismissed(x) => Dismissed(x)')
    <2> SUFFICES ASSUME NEW x \in Calls, x # c PROVE (Pending(x) => Pending(x)') /\ (Dismissed(x) => Dismissed(x)')
      OBVIOUS
    <2>1. {x} \in SUBSET Entries /\ c \notin {x}
      BY EntrySets
    <2>2. /\ Free(queue, work, {x}) => Free(queue', work', {x})
          /\ Only(queue, work, {x}) => Only(queue', work', {x})
      BY <1>3, <2>1
    <2>3. (x \in later' <=> x \in later) /\ (x \in resuming'.owed <=> x \in resuming.owed)
      BY <1>2
    <2>4. QED
      BY <2>2, <2>3, PendingIs
  <1>7. \A E \in SUBSET Calls : c \notin E => (Free(queue, work, E) => Free(queue', work', E))
    BY <1>3, EntrySets
  <1>8. later' \cup resuming'.owed \subseteq later \cup resuming.owed \cup {c}
    BY <1>2
  <1>9. UNCHANGED <<status, gen, reported, owes, told>>
    BY <1>2
  <1>10. \A q \in Runs : RunCalls(q)'
    BY <1>4, <1>5, <1>6, <1>7, <1>8, <1>9, ShiftedOwed
  <1>11. later' \subseteq Calls /\ used' \in [Bounded -> Nat] /\ queue' \in Lines
    BY <1>2, <1>4, UsesIs, Typed DEF Bounded, TypeOK
  <1>12. resuming' \in [on : BOOLEAN, todo : SUBSET Runs, owed : SUBSET Calls] /\ told' \subseteq Runs \X Nat
         /\ reported' \in [Runs -> BOOLEAN] /\ owes' \in [Runs -> BOOLEAN]
    BY <1>2, Typed DEF TypeOK
  <1>13. QED
    BY <1>2, <1>3, <1>10, <1>11, <1>12, CallKeeps

-----------------------------------------------------------------------------
\* A call is queued that was kept elsewhere.
LEMMA RequeuedKeeps ==
    ASSUME IInv, NEW c \in Calls, c \in later \/ c \in resuming.owed, queue' = Queued(queue, c), factory' = factory,
           UNCHANGED <<status, step, open, failures, sent, wakes, gen, reported, owes, told, work, paused, armed, strays, moving,
                       woken, used>>,
           \/ later' = later \ {c} /\ resuming' = resuming /\ c \in later
           \/ later' = later /\ c \in resuming.owed /\ resuming' = [resuming EXCEPT !.owed = @ \ {c}]
    PROVE  IInv'
  <1>1. ~Dismissed(c)
    BY PendingIs
  <1>2. Pending(c)
    BY <1>1, KnownCall
  <1>3. Free(queue, work, {c}) /\ ((c \in later) <=> (c \notin resuming.owed))
    BY <1>2, PendingIs
  <1>4. resuming \in [on : BOOLEAN, todo : SUBSET Runs, owed : SUBSET Calls] /\ later \subseteq Calls
    BY Typed DEF TypeOK
  <1>5. /\ resuming' \in [on : BOOLEAN, todo : SUBSET Runs, owed : SUBSET Calls] /\ later' \subseteq Calls
        /\ resuming'.on = resuming.on /\ resuming'.todo = resuming.todo
        /\ c \notin later' /\ c \notin resuming'.owed
        /\ \A x : x # c => ((x \in later') <=> (x \in later)) /\ ((x \in resuming'.owed) <=> (x \in resuming.owed))
    <2>1. CASE later' = later \ {c} /\ resuming' = resuming /\ c \in later
      BY <1>3, <1>4, <2>1
    <2>2. CASE later' = later /\ c \in resuming.owed /\ resuming' = [resuming EXCEPT !.owed = @ \ {c}]
      <3>1. resuming'.owed = resuming.owed \ {c} /\ resuming'.on = resuming.on /\ resuming'.todo = resuming.todo
            /\ resuming' \in [on : BOOLEAN, todo : SUBSET Runs, owed : SUBSET Calls]
        BY <1>4, <2>2
      <3>2. QED
        BY <1>3, <1>4, <2>2, <3>1
    <2>3. QED
      BY <2>1, <2>2
  <1>6. ASSUME NEW E
        PROVE  /\ queue' \in Lines
               /\ c \notin E => (Free(queue, work, E) => Free(queue', work', E)) /\ (Only(queue, work, E) => Only(queue', work', E))
               /\ c \in E => (Free(queue, work, E) => Only(queue', work', E))
    BY QueuedOne, Typed
  <1>7. Pending(c)'
    <2>1. Only(queue', work', {c})
      BY <1>3, <1>6
    <2>2. QED
      BY <1>5, <2>1, PendingIs
  <1>8. \A x \in Calls : x # c => (Pending(x) => Pending(x)') /\ (Dismissed(x) => Dismissed(x)')
    <2> SUFFICES ASSUME NEW x \in Calls, x # c PROVE (Pending(x) => Pending(x)') /\ (Dismissed(x) => Dismissed(x)')
      OBVIOUS
    <2>1. /\ Free(queue, work, {x}) => Free(queue', work', {x})
          /\ Only(queue, work, {x}) => Only(queue', work', {x})
      BY <1>6
    <2>2. (x \in later' <=> x \in later) /\ (x \in resuming'.owed <=> x \in resuming.owed)
      BY <1>5
    <2>3. QED
      BY <2>1, <2>2, PendingIs
  <1>9. \A E \in SUBSET Calls : c \notin E => (Free(queue, work, E) => Free(queue', work', E))
    BY <1>6
  <1>10. later' \cup resuming'.owed \subseteq later \cup resuming.owed \cup {c}
    BY <1>5
  <1>11. UNCHANGED <<status, gen, reported, owes, told>>
    OBVIOUS
  <1>12. \A q \in Runs : RunCalls(q)'
    BY <1>1, <1>7, <1>8, <1>9, <1>10, <1>11, ShiftedOwed
  <1>13. \A q \in Runs : LinesKeep(StepsOf(q))
    BY <1>6, EntrySets DEF LinesKeep
  <1>14. queue' \in Lines /\ work' \in Hands /\ used' \in [Bounded -> Nat] /\ told' \subseteq Runs \X Nat
         /\ reported' \in [Runs -> BOOLEAN] /\ owes' \in [Runs -> BOOLEAN]
    BY <1>6, Typed DEF TypeOK
  <1>15. QED
    BY <1>5, <1>12, <1>13, <1>14, CallKeeps

LEMMA CallAgainKeeps == ASSUME IInv, NEW c \in later, CallAgain(c) PROVE IInv'
  <1>1. c \in Calls
    BY Typed DEF TypeOK
  <1>2. queue' = Queued(queue, c) /\ factory' = factory /\ later' = later \ {c} /\ resuming' = resuming
        /\ UNCHANGED <<status, step, open, failures, sent, wakes, gen, reported, owes, told, work, paused, armed, strays, moving,
                       woken, used>>
    BY DEF CallAgain, registry, timers
  <1>3. QED
    BY <1>1, <1>2, RequeuedKeeps

LEMMA ResumeOwedKeeps == ASSUME IInv, NEW c \in resuming.owed, ResumeOwed(c) PROVE IInv'
  <1>1. c \in Calls
    BY Typed DEF TypeOK
  <1>2. queue' = Queued(queue, c) /\ factory' = factory /\ later' = later /\ resuming' = [resuming EXCEPT !.owed = @ \ {c}]
        /\ UNCHANGED <<status, step, open, failures, sent, wakes, gen, reported, owes, told, work, paused, armed, strays, moving,
                       woken, used>>
    BY DEF ResumeOwed, registry, timers, workers
  <1>3. QED
    BY <1>1, <1>2, RequeuedKeeps

LEMMA TakeCallKeeps == ASSUME IInv, NEW i \in Instances, TakeCall(i) PROVE IInv'
  <1>1. PICK c : c = Head(queue[i])
    OBVIOUS
  <1>2. /\ work[i] = NoWork /\ queue[i] # <<>> /\ c.kind # "step" /\ factory' = factory
        /\ queue' = [queue EXCEPT ![i] = Tail(@)]
        /\ work' = [work EXCEPT ![i] = IF Stale(c) THEN NoWork ELSE c]
        /\ UNCHANGED <<status, step, open, failures, sent, wakes, gen, reported, owes, told, paused, later, armed, strays, woken,
                       moving, resuming, used>>
    BY <1>1 DEF TakeCall, Takes, registry, timers
  <1>3. queue \in Lines /\ work \in Hands
    BY Typed
  <1>4. c \in Entries /\ Len(queue[i]) \in Nat \ {0} /\ queue[i][1] = c
    BY <1>1, <1>2, <1>3, Shifted
  <1>5. c \in Calls /\ \A q \in Runs : c \notin StepsOf(q)
    <2>1. c \in Calls
      BY <1>2, <1>4 DEF Entries, StepsOf
    <2>2. QED
      BY <2>1, EntrySets
  <1>6. ~Free(queue, work, {c})
    <2>1. 1 \in 0..Len(queue[i]) /\ InLine(queue, work, i, 1) = c
      BY <1>4 DEF InLine
    <2>2. QED
      BY <2>1 DEF Free
  <1>7. ~Dismissed(c)
    BY <1>6, PendingIs
  <1>8. Pending(c)
    BY <1>5, <1>7, KnownCall
  <1>9. c \notin later /\ c \notin resuming.owed /\ Only(queue, work, {c})
    BY <1>6, <1>8, PendingIs
  <1>10. \A j \in Instances : j # i => work'[j] = work[j]
    BY <1>2, <1>3 DEF Hands
  <1>11. (\A j \in Instances : \A q \in Runs : work[j] \in StepsOf(q) => work'[j] = work[j])
         /\ (\A j \in paused : work'[j] = work[j])
    <2>1. i \notin paused /\ \A q \in Runs : work[i] \notin StepsOf(q)
      BY <1>2, EntrySets DEF IInv, Backing
    <2>2. QED
      BY <1>10, <2>1, Typed
  <1>12. told' \subseteq Runs \X Nat /\ reported' \in [Runs -> BOOLEAN] /\ owes' \in [Runs -> BOOLEAN]
         /\ resuming' \in [on : BOOLEAN, todo : SUBSET Runs, owed : SUBSET Calls] /\ later' \subseteq Calls
         /\ used' \in [Bounded -> Nat]
    BY <1>2, Typed DEF TypeOK
  <1>13. CASE ~Stale(c)
    <2>1. work' = [work EXCEPT ![i] = Head(queue[i])]
      BY <1>1, <1>2, <1>13
    <2>2. ASSUME NEW E \in SUBSET Entries
          PROVE  /\ queue' \in Lines /\ work' \in Hands
                 /\ Free(queue, work, E) => Free(queue', work', E)
                 /\ Only(queue, work, E) => Only(queue', work', E)
      <3>1. LET p == [queue EXCEPT ![i] = Tail(@)]  v == [work EXCEPT ![i] = Head(queue[i])]
            IN  /\ p \in Lines /\ v \in Hands
                /\ Free(queue, work, E) => Free(p, v, E)
                /\ Only(queue, work, E) => Only(p, v, E)
        BY <1>2, <1>3, Taken
      <3>2. QED
        BY <1>2, <2>1, <3>1
    <2>3. queue' \in Lines /\ work' \in Hands
      <3>1. {} \in SUBSET Entries
        OBVIOUS
      <3>2. QED
        BY <2>2, <3>1
    <2>4. \A q \in Runs : LinesKeep(StepsOf(q)) /\ LinesKeep(CallsOf(q))
      BY <2>2, EntrySets, CallsOfIs DEF LinesKeep
    <2>5. ASSUME NEW q \in Runs PROVE RunCalls(q)'
      <3>1. RunCalls(q)
        BY DEF IInv
      <3>2. QED
        BY <1>2, <2>4, <3>1, StaysOwed, Typed
    <2>6. QED
      BY <1>2, <1>11, <1>12, <2>3, <2>4, <2>5, CallKeeps
  <1>14. CASE Stale(c)
    <2>1. work' = work
      <3>1. work' = [work EXCEPT ![i] = NoWork]
        BY <1>2, <1>14
      <3>2. QED
        BY <1>2, <1>3, <3>1 DEF Hands
    <2>2. ASSUME NEW E \in SUBSET Entries
          PROVE  /\ queue' \in Lines
                 /\ Free(queue, work, E) => Free(queue', work', E)
                 /\ c \notin E => (Only(queue, work, E) => Only(queue', work', E))
                 /\ c \in E => (Only(queue, work, E) => Free(queue', work', E))
      BY <1>1, <1>2, <1>3, <2>1, Dropped
    <2>3. queue' \in Lines /\ work' \in Hands
      BY <1>3, <2>1, <2>2
    <2>4. Free(queue', work', {c})
      <3>1. {c} \in SUBSET Entries
        BY <1>4
      <3>2. QED
        BY <1>9, <2>2, <3>1
    <2>5. Dismissed(c)'
      BY <1>2, <1>9, <2>4, PendingIs
    <2>6. /\ \A E \in SUBSET Calls : c \notin E => /\ Free(queue, work, E) => Free(queue', work', E)
                                                   /\ Only(queue, work, E) => Only(queue', work', E)
          /\ \A E \in SUBSET Calls : Free(queue, work, E) => Free(queue', work', E)
      BY <2>2, EntrySets
    <2>7. c.kind = "needs_human" /\ ~(gen[c.run] = c.n /\ status[c.run] = "needs_human")
      <3>1. c.kind \in {"stop", "needs_human", "ended"} /\ c.kind # "stop"
            /\ (c.kind = "ended" => c.n = gen[c.run] /\ status[c.run] \in Ends)
        BY <1>5, <1>7, <1>14, KnownCall DEF Stale
      <3>2. QED
        BY <1>14, <3>1 DEF Stale
    <2>8. \A q \in Runs : RunCalls(q)'
      BY <1>2, <1>5, <1>7, <2>4, <2>5, <2>6, <2>7, EndedOwed
    <2>9. \A q \in Runs : LinesKeep(StepsOf(q))
      <3>1. \A q \in Runs : \A E \in SUBSET StepsOf(q) : E \in SUBSET Entries /\ c \notin E
        BY <1>5, EntrySets
      <3>2. QED
        BY <2>2, <3>1 DEF LinesKeep
    <2>10. QED
      BY <1>2, <1>11, <1>12, <2>3, <2>8, <2>9, CallKeeps
  <1>15. QED
    BY <1>13, <1>14

LEMMA SignalWorkingKeeps == ASSUME IInv, NEW r \in Runs, NEW matched, SignalWorking(r, matched) PROVE IInv'
  <1>1. /\ woken' = [woken EXCEPT ![r] = @ \cup matched] /\ matched \subseteq Waits /\ Uses("signal") /\ factory' = factory
        /\ UNCHANGED <<registry, queue, work, paused, later, armed, strays, moving, resuming>>
    BY DEF SignalWorking, BySignal, workers, timers
  <1>2. woken' \in [Runs -> SUBSET Steps] /\ used' \in [Bounded -> Nat]
    BY <1>1, UsesIs, Typed DEF Bounded, Waits
  <1>3. QED
    BY <1>1, <1>2, OnlyMemory, Typed

LEMMA SignalPassesByKeeps == ASSUME IInv, NEW r \in Runs, NEW matched, SignalPassesBy(r, matched) PROVE IInv'
  <1>1. /\ Uses("signal") /\ factory' = factory
        /\ UNCHANGED <<registry, queue, work, paused, later, armed, strays, moving, resuming, woken>>
    BY DEF SignalPassesBy, BySignal, workers, timers
  <1>2. used' \in [Bounded -> Nat]
    BY <1>1, UsesIs, Typed DEF Bounded
  <1>3. QED
    BY <1>1, <1>2, OnlyMemory, Typed

-----------------------------------------------------------------------------
\* The step of a run is offered, or the instance did not take it: the run stays on its way.
LEMMA OfferedKeeps ==
    ASSUME IInv, NEW r \in Runs, NEW st \in {"queued", "running"}, status[r] \in {"queued", "running"},
           status' = [status EXCEPT ![r] = st], factory' = factory,
           UNCHANGED <<step, failures, sent, wakes, gen, reported, owes, told, later, armed, strays, woken, moving, resuming>>,
           open' \in [Runs -> BOOLEAN], used' \in [Bounded -> Nat], queue' \in Lines, work' \in Hands,
           paused' \subseteq Instances,
           \A q \in Runs : LinesKeep(StepsOf(q)), \A q \in Runs : LinesKeep(CallsOf(q)),
           \A q \in Runs : q # r => \A i \in Instances \ paused :
               work[i] \in StepsOf(q) => work'[i] = work[i] /\ i \notin paused',
           st = "running" => \E i \in Instances \ paused' : work'[i] = StepEntry(r),
           \A i \in paused' : work'[i] # NoWork /\ work'[i].kind = "step"
    PROVE  IInv'
  <1>1. TypeOK'
    <2>1. status' \in [Runs -> Unfinished \cup Ends \cup {"new"}]
      BY Typed DEF TypeOK, Unfinished
    <2>2. QED
      BY <2>1, Typed DEF TypeOK, Hands, Lines, StrayTimers
  <1>2. status'[r] = st /\ \A q \in Runs : q # r => status'[q] = status[q]
    BY Typed DEF TypeOK
  <1>3. ASSUME NEW q \in Runs PROVE StepKnown(q)' /\ RunDriven(q)' /\ Clocked(q)' /\ RunCalls(q)'
    <2>1. StepKnown(q) /\ RunDriven(q) /\ Clocked(q) /\ RunCalls(q)
      BY DEF IInv
    <2>2. StepKnown(q)'
      BY <1>2, <2>1 DEF StepKnown, Steps
    <2>3. RunCalls(q)'
      <3>1. (status'[q] \in Stops => status[q] = status'[q]) /\ (status[q] \in Ends => status'[q] = status[q])
        BY <1>2 DEF Stops, Ends
      <3>2. QED
        BY <2>1, <3>1, StaysOwed, Typed
    <2>4. CASE q # r
      <3>1. RunDriven(q)'
        BY <1>2, <2>1, <2>4, StaysDriven
      <3>2. Clocked(q)'
        BY <1>2, <2>1, <2>4, StaysClocked, Typed
      <3>3. QED
        BY <2>2, <2>3, <3>1, <3>2
    <2>5. CASE q = r
      <3>1. Clocked(r)'
        <4>1. ~wakes[r] /\ armed[r] = "none"
          BY Typed DEF IInv, Clocked
        <4>2. QED
          BY <1>2, <4>1, UnarmedClocked, Typed
      <3>2. Driven(r)
        BY <2>1, <2>5 DEF RunDriven
      <3>3. Driven(r)'
        <4>1. /\ Free(queue, work, StepsOf(r)) => Free(queue', work', StepsOf(r))
              /\ Only(queue, work, StepsOf(r)) => Only(queue', work', StepsOf(r))
          BY DEF LinesKeep
        <4>2. QED
          BY <3>2, <4>1, DrivenIs
      <3>4. Free(queue', work', BadSteps(r, step[r], factory))
        <4>1. Free(queue, work, BadSteps(r, step[r], factory)) /\ BadSteps(r, step[r], factory) \in SUBSET StepsOf(r)
          BY <2>1, <2>5 DEF RunDriven, BadSteps
        <4>2. QED
          BY <4>1 DEF LinesKeep
      <3>5. (Free(queue, work, BadSteps(r, step[r], factory)))' = Free(queue', work', BadSteps(r, step[r], factory))
        BY DEF BadSteps, StepsOf, Steps, Free, InLine
      <3>6. status'[r] = "running" => \E i \in Instances \ paused' : work'[i] = StepEntry(r)'
        BY <1>2 DEF StepEntry
      <3>7. RunDriven(r)'
        BY <1>2, <3>3, <3>4, <3>5, <3>6 DEF RunDriven
      <3>8. QED
        BY <2>2, <2>3, <2>5, <3>1, <3>7
    <2>6. QED
      BY <2>4, <2>5
  <1>4. Idle' /\ Backing'
    BY DEF IInv, Idle, Backing
  <1>5. QED
    BY <1>1, <1>3, <1>4 DEF IInv

LEMMA OfferAgainKeeps == ASSUME IInv, NEW i \in Instances, OfferAgain(i) PROVE IInv'
  <1> DEFINE r == work[i].run
             s == work[i].n
  <1>1. /\ i \in paused /\ paused' = paused \ {i} /\ factory' = factory
        /\ status' = [status EXCEPT ![r] = "running"] /\ step' = [step EXCEPT ![r] = s] /\ open' = [open EXCEPT ![r] = TRUE]
        /\ UNCHANGED <<failures, sent, wakes, gen, reported, owes, told, armed, strays, woken, moving, resuming, used,
                       later, queue, work>>
    BY DEF OfferAgain, Offer, timers
  <1>2. work[i] # NoWork /\ work[i].kind = "step"
    BY <1>1 DEF IInv, Backing
  <1>3. /\ r \in Runs /\ s = step[r] /\ status[r] \in {"queued", "running"} /\ work[i] = StepEntry(r)
        /\ work[i] \in StepsOf(r)
    BY <1>2, AtHand
  <1> HIDE DEF r, s
  <1>4. step' = step
    BY <1>1, <1>3, Typed DEF TypeOK
  <1>5. open' \in [Runs -> BOOLEAN] /\ queue' \in Lines /\ work' \in Hands /\ used' \in [Bounded -> Nat]
        /\ paused' \subseteq Instances
    BY <1>1, Typed
  <1>6. \A S : LinesKeep(S)
    BY <1>1, SameLines
  <1>7. \A q \in Runs : q # r => \A j \in Instances \ paused : work[j] \in StepsOf(q) => work'[j] = work[j] /\ j \notin paused'
    BY <1>1
  <1>8. \E j \in Instances \ paused' : work'[j] = StepEntry(r)
    BY <1>1, <1>3
  <1>9. \A j \in paused' : work'[j] # NoWork /\ work'[j].kind = "step"
    BY <1>1 DEF IInv, Backing
  <1>10. QED
    BY <1>1, <1>3, <1>4, <1>5, <1>6, <1>7, <1>8, <1>9, OfferedKeeps

LEMMA UndeliveredKeeps == ASSUME IInv, NEW i \in Instances, Undelivered(i) PROVE IInv'
  <1> DEFINE r == work[i].run
  <1>1. /\ work[i] # NoWork /\ work[i].kind = "step" /\ Uses("unsent") /\ paused' = paused \cup {i} /\ factory' = factory
        /\ status' = [status EXCEPT ![r] = "queued"] /\ open' = [open EXCEPT ![r] = FALSE]
        /\ UNCHANGED <<step, failures, sent, wakes, gen, reported, owes, told, armed, strays, woken, moving, resuming,
                       later, queue, work>>
    BY DEF Undelivered, AtStep, timers
  <1>2. r \in Runs /\ status[r] \in {"queued", "running"} /\ work[i] \in StepsOf(r)
    BY <1>1, AtHand
  <1> HIDE DEF r
  <1>3. open' \in [Runs -> BOOLEAN] /\ queue' \in Lines /\ work' \in Hands /\ used' \in [Bounded -> Nat]
        /\ paused' \subseteq Instances
    BY <1>1, UsesIs, Typed DEF Bounded
  <1>4. \A S : LinesKeep(S)
    BY <1>1, SameLines
  <1>5. \A q \in Runs : q # r => \A j \in Instances \ paused : work[j] \in StepsOf(q) => work'[j] = work[j] /\ j \notin paused'
    BY <1>1, <1>2, EntrySets
  <1>6. \A j \in paused' : work'[j] # NoWork /\ work'[j].kind = "step"
    BY <1>1 DEF IInv, Backing
  <1>7. QED
    BY <1>1, <1>2, <1>3, <1>4, <1>5, <1>6, OfferedKeeps

\* The step in front of a queue is the step its run is at, and the run is on its way.
LEMMA InFront ==
    ASSUME IInv, NEW i \in Instances, queue[i] # <<>>, NEW e, e = Head(queue[i]), e.kind = "step"
    PROVE  /\ e.run \in Runs /\ e \in StepsOf(e.run) /\ e = StepEntry(e.run) /\ e.n = step[e.run]
           /\ status[e.run] \in {"queued", "running"}
  <1>1. queue \in Lines
    BY Typed
  <1>2. e \in Entries /\ Len(queue[i]) \in Nat \ {0} /\ queue[i][1] = e
    BY <1>1, Shifted
  <1>3. PICK r \in Runs : e \in StepsOf(r)
    BY <1>2 DEF Entries, Calls
  <1>4. e.run = r /\ e.n \in Steps /\ e = [kind |-> "step", run |-> r, n |-> e.n]
    BY <1>3 DEF StepsOf
  <1>5. 1 \in 0..Len(queue[i]) /\ InLine(queue, work, i, 1) = e
    BY <1>2 DEF InLine
  <1>6. RunDriven(r)
    BY DEF IInv
  <1>7. status[r] \in {"queued", "running"}
    BY <1>3, <1>5, <1>6, DrivenIs DEF RunDriven, Free
  <1>8. e \notin BadSteps(r, step[r], factory)
    BY <1>5, <1>6 DEF RunDriven, Free
  <1>9. e.n = step[r]
    BY <1>3, <1>8 DEF BadSteps
  <1>10. QED
    BY <1>3, <1>4, <1>7, <1>9 DEF StepEntry

LEMMA TakeStepKeeps == ASSUME IInv, NEW i \in Instances, TakeStep(i) PROVE IInv'
  <1>1. PICK e, r, s : e = Head(queue[i]) /\ r = Head(queue[i]).run /\ s = Head(queue[i]).n
    OBVIOUS
  <1>2. /\ work[i] = NoWork /\ queue[i] # <<>> /\ e.kind = "step" /\ factory' = factory /\ r = e.run /\ s = e.n
        /\ work' = [work EXCEPT ![i] = e] /\ queue' = [queue EXCEPT ![i] = Tail(@)]
        /\ status' = [status EXCEPT ![r] = "running"] /\ step' = [step EXCEPT ![r] = s] /\ open' = [open EXCEPT ![r] = TRUE]
        /\ UNCHANGED <<failures, sent, wakes, gen, reported, owes, told, armed, strays, woken, moving, resuming, used,
                       later, paused>>
    BY <1>1 DEF TakeStep, Takes, Offer, timers
  <1>3. queue \in Lines /\ work \in Hands
    BY Typed
  <1>4. /\ r \in Runs /\ e \in StepsOf(r) /\ e = StepEntry(r) /\ s = step[r]
        /\ status[r] \in {"queued", "running"}
    BY <1>1, <1>2, InFront
  <1>5. step' = step
    BY <1>2, <1>4, Typed DEF TypeOK
  <1>6. ASSUME NEW E \in SUBSET Entries
         PROVE  /\ queue' \in Lines /\ work' \in Hands
                /\ Free(queue, work, E) => Free(queue', work', E)
                /\ Only(queue, work, E) => Only(queue', work', E)
    <2>1. LET p == [queue EXCEPT ![i] = Tail(@)]  v == [work EXCEPT ![i] = Head(queue[i])]
          IN  /\ p \in Lines /\ v \in Hands
              /\ Free(queue, work, E) => Free(p, v, E)
              /\ Only(queue, work, E) => Only(p, v, E)
      BY <1>2, <1>3, Taken
    <2>2. QED
      BY <1>1, <1>2, <2>1
  <1>7. queue' \in Lines /\ work' \in Hands
    <2>1. {} \in SUBSET Entries
      OBVIOUS
    <2>2. QED
      BY <1>6, <2>1
  <1>8. \A q \in Runs : LinesKeep(StepsOf(q))
    BY <1>6, EntrySets DEF LinesKeep
  <1>9. \A q \in Runs : LinesKeep(CallsOf(q))
    BY <1>6, CallsOfIs DEF LinesKeep
  <1>10. i \notin paused /\ work'[i] = e /\ \A j \in Instances : j # i => work'[j] = work[j]
    BY <1>2, <1>3 DEF IInv, Backing, Hands
  <1>11. \A q \in Runs : q # r => \A j \in Instances \ paused : work[j] \in StepsOf(q) => work'[j] = work[j] /\ j \notin paused'
    BY <1>2, <1>10, EntrySets
  <1>12. \E j \in Instances \ paused' : work'[j] = StepEntry(r)
    BY <1>2, <1>4, <1>10
  <1>13. \A j \in paused' : work'[j] # NoWork /\ work'[j].kind = "step"
    BY <1>2, <1>10, Typed DEF IInv, Backing
  <1>14. open' \in [Runs -> BOOLEAN] /\ used' \in [Bounded -> Nat] /\ paused' \subseteq Instances
    BY <1>2, Typed
  <1>15. QED
    BY <1>2, <1>4, <1>5, <1>7, <1>8, <1>9, <1>11, <1>12, <1>13, <1>14, OfferedKeeps

-----------------------------------------------------------------------------
(* A restart of the hub, and resume.                                       *)

LEMMA ResumeQueuedKeeps == ASSUME IInv, NEW r \in Runs, ResumeQueued(r) PROVE IInv'
  <1>1. /\ moving = NoRun /\ r \in resuming.todo /\ moving' = r /\ factory' = factory
        /\ resuming' = [resuming EXCEPT !.todo = @ \ {r}]
        /\ UNCHANGED <<status, step, open, failures, sent, wakes, gen, reported, owes, told, queue, work, paused, later,
                       armed, strays, woken, used>>
    BY DEF ResumeQueued, registry, timers, workers
  <1>2. resuming \in [on : BOOLEAN, todo : SUBSET Runs, owed : SUBSET Calls] /\ NoRun \notin Runs
    BY Typed, Nobody DEF TypeOK
  <1>3. /\ resuming' \in [on : BOOLEAN, todo : SUBSET Runs, owed : SUBSET Calls]
        /\ resuming'.on = resuming.on /\ resuming'.todo = resuming.todo \ {r} /\ resuming'.owed = resuming.owed
    BY <1>1, <1>2
  <1>4. TypeOK'
    BY <1>1, <1>3, Typed DEF TypeOK
  <1>5. \A S : LinesKeep(S)
    BY <1>1, SameLines
  <1>6. ASSUME NEW q \in Runs PROVE StepKnown(q)' /\ RunDriven(q)' /\ Clocked(q)' /\ RunCalls(q)'
    <2>1. StepKnown(q) /\ RunDriven(q) /\ Clocked(q) /\ RunCalls(q)
      BY DEF IInv
    <2>2. StepKnown(q)' /\ Clocked(q)'
      BY <1>1, <1>3, <2>1, StaysClocked, Typed DEF StepKnown, Steps
    <2>3. RunCalls(q)'
      BY <1>1, <1>3, <1>5, <2>1, StaysOwed, Typed
    <2>4. CASE q # r
      <3>1. (moving' = q <=> moving = q) /\ (q \in resuming'.todo <=> q \in resuming.todo)
        BY <1>1, <1>2, <1>3, <2>4
      <3>2. RunDriven(q)'
        BY <1>1, <1>5, <2>1, <3>1, StaysDriven
      <3>3. QED
        BY <2>2, <2>3, <3>2
    <2>5. CASE q = r
      <3>1. Driven(r) /\ Free(queue, work, StepsOf(r)) /\ status[r] \in {"queued", "running"}
        <4>1. ~Undriven(r)
          BY <1>1, DrivenIs
        <4>2. Driven(r) /\ status[r] \in {"queued", "running"}
          BY <2>1, <2>5, <4>1 DEF RunDriven
        <4>3. QED
          BY <1>1, <4>2, DrivenIs
      <3>2. Driven(r)'
        BY <1>1, <1>3, <3>1, DrivenIs
      <3>3. (Free(queue, work, BadSteps(r, step[r], factory)))' = Free(queue, work, BadSteps(r, step[r], factory))
        BY <1>1 DEF BadSteps, StepsOf, Steps, Free, InLine
      <3>4. RunDriven(r)'
        BY <1>1, <2>1, <2>5, <3>1, <3>2, <3>3 DEF RunDriven, StepEntry
      <3>5. QED
        BY <2>2, <2>3, <2>5, <3>4
    <2>6. QED
      BY <2>4, <2>5
  <1>7. Idle' /\ Backing'
    <2>1. Idle'
      BY <1>1, <1>3 DEF IInv, Idle
    <2>2. QED
      BY <1>1, <2>1 DEF IInv, Backing
  <1>8. QED
    BY <1>4, <1>6, <1>7 DEF IInv

LEMMA ResumeParkedKeeps == ASSUME IInv, ResumeParked PROVE IInv'
  <1> DEFINE D == {q \in Runs : Timed(q)}
             ends == [q \in D |-> IF wakes[q] THEN "wake" ELSE factory.timer[step[q]]]
  <1>1. /\ resuming.on /\ moving = NoRun /\ resuming.todo = {} /\ Arm(ends) /\ factory' = factory
        /\ resuming' = [resuming EXCEPT !.on = FALSE]
        /\ UNCHANGED <<status, step, open, failures, sent, wakes, gen, reported, owes, told, queue, work, paused, later,
                       woken, moving, used>>
    BY DEF ResumeParked, registry, workers
  <1>2. \A q \in D : ends[q] \in (Timers \cup {"wake"}) \ {"none"}
    BY FactoryIs, Typed DEF Timed, Waits
  <1>3. D \in SUBSET Runs /\ DOMAIN ends = D /\ \A q \in Runs : q \in D <=> Timed(q)
    OBVIOUS
  <1> HIDE DEF D, ends
  <1>4. /\ armed' \in [Runs -> Timers \cup {"wake"}]
        /\ \A q \in Runs : armed'[q] = IF q \in D THEN ends[q] ELSE armed[q]
        /\ strays' \in [Runs -> SUBSET StrayTimers]
        /\ \A q \in Runs : \A t \in strays'[q] : t.ends # "none"
    BY <1>1, <1>2, <1>3, ArmIs
  <1>5. resuming \in [on : BOOLEAN, todo : SUBSET Runs, owed : SUBSET Calls]
    BY Typed DEF TypeOK
  <1>6. /\ resuming' \in [on : BOOLEAN, todo : SUBSET Runs, owed : SUBSET Calls]
        /\ resuming'.on = FALSE /\ resuming'.todo = resuming.todo /\ resuming'.owed = resuming.owed
    BY <1>1, <1>5
  <1>7. TypeOK'
    BY <1>1, <1>4, <1>6, Typed DEF TypeOK, StrayTimers
  <1>8. \A S : LinesKeep(S)
    BY <1>1, SameLines
  <1>9. ASSUME NEW q \in Runs PROVE StepKnown(q)' /\ RunDriven(q)' /\ Clocked(q)' /\ RunCalls(q)'
    <2>1. StepKnown(q) /\ RunDriven(q) /\ Clocked(q) /\ RunCalls(q)
      BY DEF IInv
    <2>2. StepKnown(q)'
      BY <1>1, <2>1 DEF StepKnown, Steps
    <2>3. RunDriven(q)'
      BY <1>1, <1>6, <1>8, <2>1, StaysDriven
    <2>4. RunCalls(q)'
      BY <1>1, <1>6, <1>8, <2>1, StaysOwed, Typed
    <2>5. Clocked(q)'
      <3>1. (armed'[q] # "none") <=> Timed(q)
        BY <1>2, <1>3, <1>4, <2>1 DEF Clocked
      <3>2. Timed(q)' <=> Timed(q)
        BY <1>1 DEF Timed, Waits, Steps
      <3>3. QED
        BY <1>1, <1>4, <2>1, <3>1, <3>2 DEF Clocked
    <2>6. QED
      BY <2>2, <2>3, <2>4, <2>5
  <1>10. Idle' /\ Backing'
    <2>1. Idle'
      BY <1>1, <1>6 DEF Idle
    <2>2. QED
      BY <1>1, <2>1 DEF IInv, Backing
  <1>11. QED
    BY <1>7, <1>9, <1>10 DEF IInv

\* What resume finds owed in the registry.
LEMMA OwedIs ==
    ASSUME IInv
    PROVE  /\ Owed \subseteq Calls
           /\ \A r \in Runs : \A c \in Owed : c \notin BadCalls(r, gen[r])
           /\ \A r \in Runs : \A g \in 1..gen[r] :
                 /\ (Call("stop", r, g) \in Owed) <=> (<<r, g>> \notin told)
                 /\ (Call("ended", r, g) \in Owed) <=> (owes[r] /\ g = gen[r])
                 /\ (Call("needs_human", r, g) \in Owed) <=> (status[r] = "needs_human" /\ ~reported[r] /\ g = gen[r])
  <1>1. gen \in [Runs -> Nat]
    BY Typed DEF TypeOK
  <1>2. \A r \in Runs : gen[r] \in Nat /\ (status[r] \in Stops => gen[r] \in 1..gen[r]) /\ (owes[r] => gen[r] \in 1..gen[r])
    <2> SUFFICES ASSUME NEW r \in Runs
                 PROVE  gen[r] \in Nat /\ (status[r] \in Stops => gen[r] \in 1..gen[r]) /\ (owes[r] => gen[r] \in 1..gen[r])
      OBVIOUS
    <2>1. gen[r] \in Nat
      BY <1>1
    <2>2. (status[r] \in Stops => gen[r] >= 1) /\ (owes[r] => status[r] \in Stops)
      BY DEF IInv, RunCalls, Stops
    <2>3. gen[r] >= 1 => gen[r] \in 1..gen[r]
      BY <2>1
    <2>4. QED
      BY <2>1, <2>2, <2>3
  <1>3. ASSUME NEW c
        PROVE  (c \in Owed) <=>
                 \/ \E r \in Runs : c = Call("needs_human", r, gen[r]) /\ status[r] = "needs_human" /\ ~reported[r]
                 \/ \E r \in Runs : c = Call("ended", r, gen[r]) /\ owes[r]
                 \/ \E r \in Runs : \E g \in 1..gen[r] : c = Call("stop", r, g) /\ <<r, g>> \notin told
    BY DEF Owed
  <1>4. ASSUME NEW c \in Owed PROVE c \in Calls /\ c.n \in 1..gen[c.run]
    <2>1. CASE \E r \in Runs : c = Call("needs_human", r, gen[r]) /\ status[r] = "needs_human"
      BY <1>2, <2>1 DEF Call, Calls, Stops
    <2>2. CASE \E r \in Runs : c = Call("ended", r, gen[r]) /\ owes[r]
      BY <1>2, <2>2 DEF Call, Calls
    <2>3. CASE \E r \in Runs : \E g \in 1..gen[r] : c = Call("stop", r, g)
      BY <1>2, <2>3 DEF Call, Calls
    <2>4. QED
      BY <1>3, <2>1, <2>2, <2>3
  <1>5. ASSUME NEW r \in Runs, NEW g \in 1..gen[r]
        PROVE  /\ (Call("stop", r, g) \in Owed) <=> (<<r, g>> \notin told)
               /\ (Call("ended", r, g) \in Owed) <=> (owes[r] /\ g = gen[r])
               /\ (Call("needs_human", r, g) \in Owed) <=> (status[r] = "needs_human" /\ ~reported[r] /\ g = gen[r])
    <2>1. ASSUME NEW k, NEW c, c = Call(k, r, g)
          PROVE  (c \in Owed) <=>
                   \/ k = "needs_human" /\ g = gen[r] /\ status[r] = "needs_human" /\ ~reported[r]
                   \/ k = "ended" /\ g = gen[r] /\ owes[r]
                   \/ k = "stop" /\ <<r, g>> \notin told
      <3>1. \A l, q, n : c = Call(l, q, n) <=> k = l /\ r = q /\ g = n
        BY <2>1 DEF Call
      <3>2. (c \in Owed) <=>
                 \/ \E q \in Runs : c = Call("needs_human", q, gen[q]) /\ status[q] = "needs_human" /\ ~reported[q]
                 \/ \E q \in Runs : c = Call("ended", q, gen[q]) /\ owes[q]
                 \/ \E q \in Runs : \E h \in 1..gen[q] : c = Call("stop", q, h) /\ <<q, h>> \notin told
        BY <1>3
      <3>3. \A q : \A h : (c = Call("needs_human", q, h) <=> k = "needs_human" /\ r = q /\ g = h)
                           /\ (c = Call("ended", q, h) <=> k = "ended" /\ r = q /\ g = h)
                           /\ (c = Call("stop", q, h) <=> k = "stop" /\ r = q /\ g = h)
        BY <3>1
      <3>4. (\E q \in Runs : c = Call("needs_human", q, gen[q]) /\ status[q] = "needs_human" /\ ~reported[q])
            <=> k = "needs_human" /\ g = gen[r] /\ status[r] = "needs_human" /\ ~reported[r]
        BY <3>3
      <3>5. (\E q \in Runs : c = Call("ended", q, gen[q]) /\ owes[q]) <=> k = "ended" /\ g = gen[r] /\ owes[r]
        BY <3>3
      <3>6. (\E q \in Runs : \E h \in 1..gen[q] : c = Call("stop", q, h) /\ <<q, h>> \notin told)
            <=> k = "stop" /\ <<r, g>> \notin told
        <4>1. ASSUME NEW q \in Runs, NEW h \in 1..gen[q], c = Call("stop", q, h), <<q, h>> \notin told
              PROVE  k = "stop" /\ <<r, g>> \notin told
          BY <3>3, <4>1
        <4>2. ASSUME k = "stop", <<r, g>> \notin told
              PROVE  c = Call("stop", r, g)
          BY <3>3, <4>2
        <4>3. QED
          BY <4>1, <4>2
      <3>7. QED
        BY <3>2, <3>4, <3>5, <3>6
    <2>2. PICK c, d, e : c = Call("stop", r, g) /\ d = Call("ended", r, g) /\ e = Call("needs_human", r, g)
      OBVIOUS
    <2>3. /\ (c \in Owed) <=> (<<r, g>> \notin told)
          /\ (d \in Owed) <=> (owes[r] /\ g = gen[r])
          /\ (e \in Owed) <=> (status[r] = "needs_human" /\ ~reported[r] /\ g = gen[r])
      <3>1. (c \in Owed) <=> (<<r, g>> \notin told)
        BY <2>1, <2>2
      <3>2. (d \in Owed) <=> (owes[r] /\ g = gen[r])
        BY <2>1, <2>2
      <3>3. (e \in Owed) <=> (status[r] = "needs_human" /\ ~reported[r] /\ g = gen[r])
        BY <2>1, <2>2
      <3>4. QED
        BY <3>1, <3>2, <3>3
    <2>4. QED
      BY <2>2, <2>3
  <1>6. QED
    BY <1>4, <1>5 DEF BadCalls

LEMMA RestartHubKeeps == ASSUME IInv, RestartHub PROVE IInv'
  <1> DEFINE dropped == {r \in Runs : status[r] = "running"}
  <1>1. /\ factory' = factory
        /\ status' = [r \in Runs |-> IF status[r] = "running" THEN "queued" ELSE status[r]]
        /\ open' = [r \in Runs |-> open[r] /\ r \notin dropped]
        /\ queue' = [i \in Instances |-> <<>>] /\ work' = [i \in Instances |-> NoWork]
        /\ paused' = {} /\ later' = {}
        /\ armed' = [r \in Runs |-> "none"] /\ strays' = [r \in Runs |-> {}]
        /\ woken' = [r \in Runs |-> {}] /\ moving' = NoRun
        /\ resuming' = [on |-> TRUE, todo |-> {r \in Runs : status'[r] = "queued"}, owed |-> Owed]
        /\ UNCHANGED <<step, failures, sent, wakes, gen, reported, owes, told>>
    <2>1. /\ factory' = factory
          /\ status' = [r \in Runs |-> IF r \in dropped THEN "queued" ELSE status[r]]
          /\ open' = [r \in Runs |-> open[r] /\ r \notin dropped]
          /\ queue' = [i \in Instances |-> <<>>] /\ work' = [i \in Instances |-> NoWork]
          /\ paused' = {} /\ later' = {}
          /\ armed' = [r \in Runs |-> "none"] /\ strays' = [r \in Runs |-> {}]
          /\ woken' = [r \in Runs |-> {}] /\ moving' = NoRun
          /\ resuming' = [on |-> TRUE, todo |-> {r \in Runs : status'[r] = "queued"}, owed |-> Owed]
          /\ UNCHANGED <<step, failures, sent, wakes, gen, reported, owes, told>>
      BY DEF RestartHub
    <2>2. QED
      BY <2>1
  <1>2. /\ queue' \in Lines /\ work' \in Hands /\ \A E \in SUBSET Entries : Free(queue', work', E)
    <2>1. \A E \in SUBSET Entries : queue' \in Lines /\ work' \in Hands /\ Free(queue', work', E)
      BY <1>1, Emptied
    <2>2. {} \in SUBSET Entries
      OBVIOUS
    <2>3. QED
      BY <2>1, <2>2
  <1>3. /\ Owed \subseteq Calls
        /\ resuming'.on = TRUE /\ resuming'.todo = {r \in Runs : status'[r] = "queued"} /\ resuming'.owed = Owed
    BY <1>1, OwedIs
  <1>4. resuming' \in [on : BOOLEAN, todo : SUBSET Runs, owed : SUBSET Calls]
    <2>1. {r \in Runs : status'[r] = "queued"} \in SUBSET Runs /\ Owed \in SUBSET Calls
      BY <1>3
    <2>2. QED
      BY <1>1, <2>1
  <1>5. /\ status' \in [Runs -> Unfinished \cup Ends \cup {"new"}]
        /\ \A r \in Runs : status'[r] = IF status[r] = "running" THEN "queued" ELSE status[r]
    BY <1>1, Typed DEF TypeOK, Unfinished
  <1>6. open' \in [Runs -> BOOLEAN] /\ used' \in [Bounded -> Nat]
    <2>1. used' \in [Bounded -> Nat]
      BY UsesIs, Typed DEF RestartHub, Bounded
    <2>2. ASSUME NEW r \in Runs PROVE (open[r] /\ r \notin dropped) \in BOOLEAN
      OBVIOUS
    <2> HIDE DEF dropped
    <2>3. QED
      BY <1>1, <2>1, <2>2
  <1>7. TypeOK'
    <2>1. /\ armed' \in [Runs -> Timers \cup {"wake"}] /\ woken' \in [Runs -> SUBSET Steps]
          /\ strays' \in [Runs -> SUBSET [ends : Timers \cup {"wake"}, at : Steps, own : BOOLEAN]]
      BY <1>1 DEF Timers
    <2>2. QED
      BY <1>1, <1>2, <1>4, <1>5, <1>6, <2>1, Typed DEF TypeOK, Lines, Hands
  <1>8. ASSUME NEW r \in Runs PROVE StepKnown(r)' /\ RunDriven(r)' /\ Clocked(r)' /\ RunCalls(r)'
    <2>1. StepKnown(r) /\ RunDriven(r) /\ Clocked(r) /\ RunCalls(r) /\ NoRun \notin Runs
      BY Nobody DEF IInv
    <2>2. StepKnown(r)'
      BY <1>1, <1>5, <2>1 DEF StepKnown, Steps
    <2>3. Clocked(r)'
      <3>1. wakes'[r] => status'[r] = "parked" /\ factory'.kind[step'[r]] = "work"
        BY <1>1, <1>5, <2>1 DEF Clocked
      <3>2. QED
        BY <1>1, <1>3, <3>1 DEF Clocked
    <2>4. RunDriven(r)'
      <3>1. Free(queue', work', StepsOf(r))
        BY <1>2, EntrySets
      <3>2. IF status'[r] \in {"queued", "running"} THEN Driven(r)' ELSE Undriven(r)'
        BY <1>1, <1>3, <1>5, <2>1, <3>1, DrivenIs
      <3>3. \A n, f : BadSteps(r, n, f) \subseteq StepsOf(r)
        BY DEF BadSteps
      <3>4. \A n, f : Free(queue', work', BadSteps(r, n, f))
        BY <3>1, <3>3, Disjoint
      <3>5. (Free(queue, work, BadSteps(r, step[r], factory)))' = Free(queue', work', BadSteps(r, step'[r], factory'))
        BY DEF BadSteps, StepsOf, Steps, Free, InLine
      <3>6. status'[r] # "running"
        BY <1>5
      <3>7. QED
        BY <3>2, <3>4, <3>5, <3>6 DEF RunDriven
    <2>5. RunCalls(r)'
      <3>1. (Free(queue, work, BadCalls(r, gen[r])))'
        <4>1. \A n : BadCalls(r, n) \in SUBSET Entries
          BY CallsOfIs
        <4>2. (Free(queue, work, BadCalls(r, gen[r])))' = Free(queue', work', BadCalls(r, gen'[r]))
          BY DEF BadCalls, Calls, Free, InLine
        <4>3. QED
          BY <1>2, <4>1, <4>2
      <3>2. (\A c \in later \cup resuming.owed : c \notin BadCalls(r, gen[r]))'
        <4>1. \A c \in Owed : c \notin BadCalls(r, gen[r])
          BY OwedIs
        <4>2. \A c : c \in BadCalls(r, gen[r])' <=> c \in BadCalls(r, gen[r])
          BY <1>1 DEF BadCalls, Calls
        <4>3. QED
          BY <1>1, <1>3, <4>1, <4>2
      <3>3. ASSUME NEW g \in 1..gen[r] PROVE CallOwed(r, g)'
        <4> DEFINE c == Call("stop", r, g)
                   d == Call("ended", r, g)
                   e == Call("needs_human", r, g)
        <4>1. g \in Nat
          BY Typed DEF TypeOK
        <4>2. /\ (c \in Owed) <=> (<<r, g>> \notin told)
              /\ (d \in Owed) <=> (owes[r] /\ g = gen[r])
              /\ (e \in Owed) <=> (status[r] = "needs_human" /\ ~reported[r] /\ g = gen[r])
          BY OwedIs
        <4>3. {c} \in SUBSET Entries /\ {d} \in SUBSET Entries /\ {e} \in SUBSET Entries
          BY <4>1, CallsOfIs
        <4>4. c' = c /\ d' = d /\ e' = e
          BY DEF Call
        <4> HIDE DEF c, d, e
        <4>5. ASSUME NEW x, {x} \in SUBSET Entries
              PROVE  (x \in Owed => Pending(x)') /\ (x \notin Owed => Dismissed(x)')
          BY <1>1, <1>2, <1>3, <4>5, PendingIs
        <4>6. IF <<r, g>> \in told THEN Dismissed(c)' ELSE Pending(c)'
          BY <4>2, <4>3, <4>4, <4>5
        <4>7. IF owes[r] /\ g = gen[r] THEN Pending(d)' ELSE Dismissed(d)'
          BY <4>2, <4>3, <4>4, <4>5
        <4>8. IF status[r] = "needs_human" /\ ~reported[r] /\ g = gen[r] THEN Pending(e)' ELSE Dismissed(e)'
          BY <4>2, <4>3, <4>4, <4>5
        <4>9. ~(Pending(e)' /\ Dismissed(e)')
          BY <4>4, PendingOnce
        <4>10. status'[r] = "needs_human" <=> status[r] = "needs_human"
          BY <1>5
        <4>11. /\ IF <<r, g>> \in told' THEN Dismissed(c)' ELSE Pending(c)'
               /\ IF owes'[r] /\ g = gen'[r] THEN Pending(d)' ELSE Dismissed(d)'
               /\ Pending(e)' \/ Dismissed(e)'
               /\ status'[r] = "needs_human" /\ g = gen'[r] => (Pending(e)' <=> ~reported'[r])
          BY <1>1, <4>6, <4>7, <4>8, <4>9, <4>10
        <4>12. QED
          BY <4>11 DEF CallOwed, c, d, e
      <3>4. /\ status'[r] \in Stops => gen'[r] >= 1
            /\ owes'[r] => status'[r] \in Ends
            /\ \A g \in Nat : <<r, g>> \in told' => g <= gen'[r]
        BY <1>1, <1>5, <2>1 DEF RunCalls, Stops, Ends
      <3>5. \A g \in 1..gen'[r] : CallOwed(r, g)'
        BY <1>1, <3>3
      <3>6. QED
        BY <3>1, <3>2, <3>4, <3>5 DEF RunCalls
    <2>6. QED
      BY <2>2, <2>3, <2>4, <2>5
  <1>9. Idle' /\ Backing'
    BY <1>1, <1>3 DEF Idle, Backing
  <1>10. QED
    BY <1>7, <1>8, <1>9 DEF IInv

-----------------------------------------------------------------------------
LEMMA InitKeeps == Init => IInv
  <1> SUFFICES ASSUME Init PROVE IInv
    OBVIOUS
  <1>1. queue \in Lines /\ work \in Hands /\ \A E \in SUBSET Entries : Free(queue, work, E)
    <2>1. \A E \in SUBSET Entries : queue \in Lines /\ work \in Hands /\ Free(queue, work, E)
      BY Emptied DEF Init
    <2>2. {} \in SUBSET Entries
      OBVIOUS
    <2>3. QED
      BY <2>1, <2>2
  <1>2. TypeOK
    <2>1. factory \in Factories /\ status \in [Runs -> Unfinished \cup Ends \cup {"new"}]
          /\ step \in [Runs -> OrNone] /\ open \in [Runs -> BOOLEAN]
      BY Numbers1 DEF Init, NoStep
    <2>2. failures \in [Runs -> [Steps -> Nat]] /\ sent \in [Runs -> [Edges -> Nat]]
          /\ used \in [Bounded -> Nat]
      BY DEF Init
    <2>3. wakes \in [Runs -> BOOLEAN] /\ gen \in [Runs -> Nat] /\ reported \in [Runs -> BOOLEAN]
          /\ owes \in [Runs -> BOOLEAN] /\ told \subseteq Runs \X Nat
      BY DEF Init
    <2>4. paused \subseteq Instances /\ later \subseteq Calls /\ armed \in [Runs -> Timers \cup {"wake"}]
          /\ strays \in [Runs -> SUBSET [ends : Timers \cup {"wake"}, at : Steps, own : BOOLEAN]]
          /\ woken \in [Runs -> SUBSET Steps] /\ moving \in Runs \cup {NoRun}
      BY DEF Init, Timers
    <2>5. resuming \in [on : BOOLEAN, todo : SUBSET Runs, owed : SUBSET Calls]
      BY DEF Init, NotResuming
    <2>6. QED
      BY <1>1, <2>1, <2>2, <2>3, <2>4, <2>5 DEF TypeOK, Lines, Hands
  <1>3. Idle /\ Backing
    BY DEF Init, Idle, Backing, NotResuming
  <1>4. ASSUME NEW r \in Runs PROVE StepKnown(r) /\ RunDriven(r) /\ Clocked(r) /\ RunCalls(r)
    <2>1. /\ status[r] = "new" /\ ~wakes[r] /\ gen[r] = 0 /\ ~owes[r] /\ armed[r] = "none" /\ strays[r] = {}
          /\ moving = NoRun /\ told = {} /\ later = {} /\ resuming = [on |-> FALSE, todo |-> {}, owed |-> {}]
      BY DEF Init, NotResuming
    <2>2. resuming.todo = {} /\ resuming.owed = {} /\ NoRun \notin Runs
      BY <2>1, Nobody
    <2>3. Free(queue, work, StepsOf(r)) /\ Free(queue, work, BadSteps(r, step[r], factory))
      <3>1. StepsOf(r) \in SUBSET Entries /\ BadSteps(r, step[r], factory) \in SUBSET Entries
        BY EntrySets DEF BadSteps
      <3>2. QED
        BY <1>1, <3>1
    <2>4. Free(queue, work, BadCalls(r, gen[r]))
      <3>1. BadCalls(r, gen[r]) \in SUBSET Entries
        BY CallsOfIs
      <3>2. QED
        BY <1>1, <3>1
    <2>5. Undriven(r)
      BY <2>1, <2>2, <2>3, DrivenIs
    <2>6. RunCalls(r)
      BY <2>1, <2>2, <2>4 DEF RunCalls, Stops, Ends
    <2>7. Clocked(r)
      BY <2>1 DEF Clocked, Timed
    <2>8. QED
      BY <2>1, <2>3, <2>5, <2>6, <2>7 DEF RunDriven, StepKnown
  <1>5. QED
    BY <1>2, <1>3, <1>4 DEF IInv

LEMMA NextKeeps == IInv /\ [Next]_vars => IInv'
  <1> SUFFICES ASSUME IInv, [Next]_vars PROVE IInv'
    OBVIOUS
  <1>1. ASSUME NEW r \in Runs, Accept(r) \/ Place(r) \/ Park(r) \/ Expire(r) \/ ResumeQueued(r) PROVE IInv'
    BY <1>1, AcceptKeeps, PlaceKeeps, ParkKeeps, ExpireKeeps, ResumeQueuedKeeps
  <1>2. ASSUME NEW i \in Instances,
               \/ TakeStep(i) \/ OfferAgain(i) \/ Undelivered(i)
               \/ TakeCall(i) \/ CallMade(i) \/ CallFailed(i)
        PROVE  IInv'
    BY <1>2, TakeStepKeeps, OfferAgainKeeps, UndeliveredKeeps, TakeCallKeeps, CallMadeKeeps, CallFailedKeeps
  <1>3. ASSUME NEW i \in Instances, NEW result \in Results, Answer(i, result) PROVE IInv'
    BY <1>3, AnswerKeeps
  <1>4. ASSUME NEW c \in later, CallAgain(c) PROVE IInv'
    BY <1>4, CallAgainKeeps
  <1>5. ASSUME NEW c \in resuming.owed, ResumeOwed(c) PROVE IInv'
    BY <1>5, ResumeOwedKeeps
  <1>6. ASSUME RestartHub \/ ResumeParked PROVE IInv'
    BY <1>6, RestartHubKeeps, ResumeParkedKeeps
  <1>7. ASSUME NEW r \in Runs, Retry(r) \/ Approve(r) \/ Cancel(r) \/ PassWait(r) PROVE IInv'
    BY <1>7, RetryKeeps, ApproveKeeps, CancelKeeps, PassWaitKeeps
  <1>8. ASSUME NEW r \in Runs, NEW s \in Steps, SendBack(r, s) \/ Refuse(r, s) PROVE IInv'
    BY <1>8, SendBackKeeps, RefuseKeeps
  <1>9. ASSUME NEW r \in Runs, NEW matched, SignalParked(r, matched) \/ SignalWorking(r, matched) \/ SignalPassesBy(r, matched)
        PROVE  IInv'
    BY <1>9, SignalParkedKeeps, SignalWorkingKeeps, SignalPassesByKeeps
  <1>10. ASSUME NEW r \in Runs, NEW end \in Ends, SignalCloses(r, end) PROVE IInv'
    BY <1>10, SignalClosesKeeps
  <1>11. ASSUME NEW r \in Runs, NEW t \in strays[r], StrayExpires(r, t) PROVE IInv'
    BY <1>11, StrayExpiresKeeps
  <1>12. ASSUME NEW i \in Instances, Limited(i) PROVE IInv'
    BY <1>12, LimitedKeeps
  <1>13. ASSUME UNCHANGED vars PROVE IInv'
    <2>1. /\ factory' = factory /\ UNCHANGED <<registry, queue, work, paused, later, armed, moving, resuming>>
          /\ UNCHANGED <<woken, used, strays>>
      BY <1>13 DEF vars, workers, timers
    <2>2. woken' \in [Runs -> SUBSET Steps] /\ used' \in [Bounded -> Nat] /\ strays' \in [Runs -> SUBSET StrayTimers]
          /\ \A q \in Runs : \A t \in strays'[q] : t.ends # "none"
      BY <2>1, Typed
    <2>3. QED
      BY <2>1, <2>2, OnlyMemory
  <1>14. CASE LeftAlone
    BY <1>14, <1>1, <1>2, <1>3, <1>4, <1>5, <1>6 DEF LeftAlone
  <1>15. CASE Disturbed
    BY <1>15, <1>7, <1>8, <1>9, <1>10, <1>11, <1>12 DEF Disturbed
  <1>16. QED
    BY <1>13, <1>14, <1>15 DEF Next

LEMMA IInvImplies == IInv => TypeOK /\ OneDriver /\ CallsOwed
  <1> SUFFICES ASSUME IInv PROVE TypeOK /\ OneDriver /\ CallsOwed
    OBVIOUS
  <1>1. TypeOK
    BY DEF IInv
  <1>2. ASSUME NEW r \in Runs
        PROVE  /\ IF status[r] \in {"queued", "running"} THEN Driven(r) ELSE Undriven(r)
               /\ \A i \in Instances : \A k \in Slots(i) : Held(i, k) \in StepsOf(r) => Held(i, k) = StepEntry(r)
               /\ status[r] = "running" => \E i \in Instances \ paused : work[i] = StepEntry(r)
               /\ ~resuming.on => ((armed[r] # "none") = Timed(r))
    <2>1. RunDriven(r) /\ Clocked(r)
      BY DEF IInv
    <2>2. ASSUME NEW i \in Instances, NEW k \in Slots(i), Held(i, k) \in StepsOf(r) PROVE Held(i, k) = StepEntry(r)
      <3>1. InLine(queue, work, i, k) = Held(i, k) /\ k \in 0..Len(queue[i])
        BY DEF InLine, Held, Slots
      <3>2. Held(i, k) \notin BadSteps(r, step[r], factory)
        BY <2>1, <3>1 DEF RunDriven, Free
      <3>3. Held(i, k).n = step[r]
        BY <2>2, <3>2 DEF BadSteps
      <3>4. QED
        BY <2>2, <3>3 DEF StepsOf, StepEntry
    <2>3. ~resuming.on => ((armed[r] # "none") = Timed(r))
      BY <2>1 DEF Clocked, Timed
    <2>4. QED
      BY <2>1, <2>2, <2>3 DEF RunDriven
  <1>3. \A r \in Runs : \A g \in 1..gen[r] : CallOwed(r, g)
    BY DEF IInv, RunCalls
  <1>4. QED
    BY <1>1, <1>2, <1>3 DEF OneDriver, CallsOwed, CallOwed

\* Only the run r changes, and it was not finished.
Spares(r) ==
    /\ status[r] \notin Ends
    /\ \A q \in Runs : q # r => status'[q] = status[q] /\ step'[q] = step[q] /\ gen'[q] = gen[q]

LEMMA SparesFinished == ASSUME NEW r \in Runs, Spares(r) PROVE FinishedStay
  BY DEF Spares, FinishedStay

LEMMA MoveSpares ==
    ASSUME IInv, NEW r \in Runs, NEW to, Move(r, to), status[r] \notin Ends PROVE FinishedStay
  <1>1. status' = [status EXCEPT ![r] = to.status] /\ step' = [step EXCEPT ![r] = to.step]
        /\ (gen' = [gen EXCEPT ![r] = @ + 1] \/ gen' = gen)
    BY DEF Move
  <1>2. QED
    BY <1>1, SparesFinished, Typed DEF Spares, TypeOK

LEMMA StatusSpares ==
    ASSUME IInv, NEW r \in Runs, NEW st, NEW s, status' = [status EXCEPT ![r] = st],
           step' = [step EXCEPT ![r] = s] \/ step' = step, gen' = gen, status[r] \notin Ends
    PROVE  FinishedStay
  BY SparesFinished, Typed DEF Spares, TypeOK

LEMMA FinishedStays == IInv /\ [Next]_vars => FinishedStay
  <1> SUFFICES ASSUME IInv, [Next]_vars PROVE FinishedStay
    OBVIOUS
  <1>1. ASSUME NEW r \in Runs, Accept(r) PROVE FinishedStay
    <2>1. /\ status[r] \notin Ends /\ status' = [status EXCEPT ![r] = "queued"] /\ step' = [step EXCEPT ![r] = 1] /\ gen' = gen
      BY <1>1 DEF Accept, Ends
    <2>2. QED
      BY <2>1, StatusSpares
  <1>2. ASSUME NEW r \in Runs, Park(r) PROVE FinishedStay
    <2>1. /\ status[r] = "queued" /\ status' = [status EXCEPT ![r] = "parked"] /\ step' = step /\ gen' = gen
      BY <1>2, Apart DEF Park, Parks
    <2>2. QED
      BY <2>1, StatusSpares DEF Ends
  <1>3. ASSUME NEW r \in Runs, armed[r] # "none", NEW ends \in {"wake", "quiet", "deadline"}, NEW at,
               Ended(r, ends, at)
        PROVE  FinishedStay
    <2>1. status[r] \notin Ends
      BY <1>3, Typed DEF Ends
    <2>2. \E to : Move(r, to)
      BY <1>3 DEF Ended, Passes, Settle
    <2>3. QED
      BY <2>1, <2>2, MoveSpares
  <1>4. ASSUME NEW r \in Runs, Retry(r) \/ \E s \in Steps : SendBack(r, s) PROVE FinishedStay
    <2>1. status[r] \notin Ends /\ \E s : Restart(r, s)
      BY <1>4 DEF Retry, SendBack, AwaitsApproval, Ends
    <2>2. QED
      BY <2>1, StatusSpares DEF Restart
  <1>5. ASSUME NEW r \in Runs, Approve(r) \/ Cancel(r) \/ PassWait(r) \/ \E s \in Steps : Refuse(r, s) PROVE FinishedStay
    <2>1. status[r] \notin Ends
      BY <1>5, Apart DEF Approve, Cancel, PassWait, Refuse, Parks, AwaitsApproval, Ends
    <2>2. \E to : Move(r, to)
      BY <1>5 DEF Approve, Cancel, PassWait, Refuse, Passes, Settle
    <2>3. QED
      BY <2>1, <2>2, MoveSpares
  <1>6. ASSUME NEW r \in Runs, (\E end : SignalCloses(r, end)) \/ \E matched : SignalParked(r, matched) PROVE FinishedStay
    <2>1. status[r] \notin Ends
      BY <1>6 DEF SignalCloses, SignalParked, Ends
    <2>2. \E to : Move(r, to)
      BY <1>6 DEF SignalCloses, SignalParked, Passes, Settle
    <2>3. QED
      BY <2>1, <2>2, MoveSpares
  <1>7. ASSUME NEW i \in Instances, TakeStep(i) PROVE FinishedStay
    <2>1. PICK e, s : e = Head(queue[i]) /\ s = Head(queue[i]).n
      OBVIOUS
    <2>2. queue[i] # <<>> /\ e.kind = "step" /\ status' = [status EXCEPT ![e.run] = "running"]
          /\ step' = [step EXCEPT ![e.run] = s] /\ gen' = gen
      BY <1>7, <2>1 DEF TakeStep, Takes, Offer
    <2>3. e.run \in Runs /\ status[e.run] \notin Ends
      BY <2>1, <2>2, InFront DEF Ends
    <2>4. QED
      BY <2>2, <2>3, StatusSpares
  <1>8. ASSUME NEW i \in Instances,
               OfferAgain(i) \/ Undelivered(i) \/ Limited(i) \/ \E result \in Results : Answer(i, result)
        PROVE  FinishedStay
    <2>1. work[i] # NoWork /\ work[i].kind = "step"
      BY <1>8 DEF OfferAgain, Undelivered, Limited, Answer, AtStep, IInv, Backing
    <2>2. work[i].run \in Runs /\ status[work[i].run] \notin Ends
      BY <2>1, AtHand DEF Ends
    <2>3. CASE OfferAgain(i)
      <3>1. PICK r, s : r = work[i].run /\ s = work[i].n
        OBVIOUS
      <3>2. status' = [status EXCEPT ![r] = "running"] /\ step' = [step EXCEPT ![r] = s] /\ gen' = gen
        BY <2>3, <3>1 DEF OfferAgain, Offer
      <3>3. QED
        BY <2>2, <3>1, <3>2, StatusSpares
    <2>4. CASE Undelivered(i) \/ Limited(i)
      <3>1. PICK r : r = work[i].run
        OBVIOUS
      <3>2. (status' = [status EXCEPT ![r] = "queued"] \/ status' = [status EXCEPT ![r] = "parked"])
            /\ step' = step /\ gen' = gen
        BY <2>4, <3>1 DEF Undelivered, Limited
      <3>3. QED
        BY <2>2, <3>1, <3>2, StatusSpares
    <2>5. CASE \E result \in Results : Answer(i, result)
      <3>1. \E to : Move(work[i].run, to)
        BY <2>5 DEF Answer, Settle
      <3>2. QED
        BY <2>2, <3>1, MoveSpares
    <2>6. QED
      BY <1>8, <2>3, <2>4, <2>5
  <1>9. ASSUME UNCHANGED <<status, step, gen>> PROVE FinishedStay
    BY <1>9 DEF FinishedStay
  <1>10. ASSUME RestartHub PROVE FinishedStay
    <2>1. \A r \in Runs : status[r] \in Ends => status'[r] = status[r]
      BY <1>10 DEF RestartHub, Ends
    <2>2. step' = step /\ gen' = gen
      BY <1>10 DEF RestartHub
    <2>3. QED
      BY <2>1, <2>2 DEF FinishedStay
  <1>11. ASSUME NEW r \in Runs, Place(r) \/ ResumeQueued(r) PROVE FinishedStay
    BY <1>9, <1>11 DEF Place, ResumeQueued, registry
  <1>12. ASSUME NEW r \in Runs, Expire(r) PROVE FinishedStay
    <2>1. armed[r] # "none" /\ armed[r] \in {"wake", "quiet", "deadline"} /\ Ended(r, armed[r], step[r])
      BY <1>12, Typed DEF Expire, Timers
    <2>2. QED
      BY <1>3, <2>1
  <1>13. ASSUME NEW r \in Runs, NEW t \in strays[r], StrayExpires(r, t) PROVE FinishedStay
    <2>1. CASE armed[r] = "none"
      BY <1>9, <1>13, <2>1 DEF StrayExpires, registry
    <2>2. CASE armed[r] # "none"
      <3>1. t.ends \in {"wake", "quiet", "deadline"}
        BY Typed DEF StrayTimers, Timers
      <3>2. Ended(r, t.ends, t.at)
        BY <1>13, <2>2 DEF StrayExpires
      <3>3. QED
        BY <1>3, <2>2, <3>1, <3>2
    <2>3. QED
      BY <2>1, <2>2
  <1>14. ASSUME NEW r \in Runs, \E matched : SignalWorking(r, matched) \/ SignalPassesBy(r, matched) PROVE FinishedStay
    BY <1>9, <1>14 DEF SignalWorking, SignalPassesBy, registry
  <1>15. ASSUME NEW i \in Instances, TakeCall(i) \/ CallMade(i) \/ CallFailed(i) PROVE FinishedStay
    <2>1. UNCHANGED <<status, step, gen>>
      BY <1>15 DEF TakeCall, CallMade, CallFailed, registry
    <2>2. QED
      BY <1>9, <2>1
  <1>16. ASSUME (\E c : CallAgain(c) \/ ResumeOwed(c)) \/ ResumeParked PROVE FinishedStay
    BY <1>9, <1>16 DEF CallAgain, ResumeOwed, ResumeParked, registry
  <1>17. ASSUME UNCHANGED vars PROVE FinishedStay
    BY <1>9, <1>17 DEF vars, registry
  <1>18. CASE LeftAlone
    BY <1>18, <1>1, <1>2, <1>7, <1>8, <1>10, <1>11, <1>12, <1>15, <1>16 DEF LeftAlone
  <1>19. CASE Disturbed
    BY <1>19, <1>4, <1>5, <1>6, <1>8, <1>13, <1>14 DEF Disturbed
  <1>20. QED
    BY <1>17, <1>18, <1>19 DEF Next

-----------------------------------------------------------------------------
LEMMA Always == Spec => []IInv
  BY InitKeeps, NextKeeps, PTL DEF Spec

\* A queued or running run is in exactly one place that will run its step, the one it is at, no
\* other run is in any, and a run parked at a timed wait or until its plan window resets has its
\* timer, over every restart and however a move is torn (_enqueue, resume, _arm).
THEOREM RunsHaveOneDriver == Spec => []OneDriver
  BY Always, IInvImplies, PTL

\* Every call a stop owes and nobody took yet is about to be made exactly once, and none that was
\* made is about to be made again (_put_stop, _put_report, resume, mark_reported).
THEOREM CallsStayOwed == Spec => []CallsOwed
  BY Always, IInvImplies, PTL

\* A run that is done or cancelled stays so, whatever timer, answer, signal or call of it is left.
THEOREM FinishedRunsAreFinal == Spec => FinishedIsFinal
  <1>1. IInv /\ [Next]_vars => [FinishedStay]_vars
    BY FinishedStays
  <1>2. QED
    BY <1>1, Always, PTL DEF Spec, FinishedIsFinal

=============================================================================
