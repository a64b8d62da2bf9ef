-------------------------- MODULE LifecycleProofs --------------------------
(***************************************************************************)
(* Theorems about Lifecycle, for every set of instances and images and     *)
(* every bound: the record, the container and the storage of an instance   *)
(* agree over every request, failed call and restart, and a collection     *)
(* takes no image an instance needs.                                       *)
(*                                                                         *)
(* The invariant is one of each instance, but for the images: what its     *)
(* line of operations looks like (InTurn, Lined), what the operation under *)
(* way knows (UnderWay), what its record says of its storage (Recorded)    *)
(* and of its container (Truthful).  Of the images it says that what a     *)
(* collection still removes is nobody's (Spared).                          *)
(***************************************************************************)
EXTENDS Lifecycle, SequenceTheorems, TLAPS

Places == [directory : {"none", "torn", "whole"}, volume : BOOLEAN]
Types ==
    /\ rec \in [Inst -> Records] /\ ops \in [Inst -> Seq(Operations)]
    /\ line \in [Inst -> Seq(Nat)] /\ pc \in [Inst -> Calls \cup {"idle"}]
    /\ landed \in [Inst -> BOOLEAN]
    /\ box \in [Inst -> Containers] /\ data \in [Inst -> Places]
    /\ login \in SUBSET Inst /\ recovering \in SUBSET Inst
ImageTypes ==
    /\ got \in [Inst -> AllImages \cup {NoImage}]
    /\ artifacts \in SUBSET AllImages /\ images \in SUBSET AllImages /\ doomed \in SUBSET AllImages

-----------------------------------------------------------------------------
(* The line of an instance.                                                *)

\* What changed the container, and whether there is a latest of it.
Changes(q) == {n \in DOMAIN q : Changed(q[n])}
HasLatest(q) == Changes(q) = {} \/ \E n \in Changes(q) : \A m \in Changes(q) : m <= n

\* How many operations of an instance are over, and which are left.
Before(i) == Len(ops[i]) - Len(line[i])
Left(i) == {n \in 1..Len(ops[i]) : n > Before(i)}
Alone(i) == Len(line[i]) = 1

\* The operations in line are the last that were opened, in their order, and only the first of
\* them has begun.  What waits behind another asks for little.
InTurn(i) ==
    /\ Len(line[i]) <= Len(ops[i])
    /\ \A n \in 1..Len(line[i]) : line[i][n] = Before(i) + n
    /\ \A n \in 1..Len(ops[i]) : ops[i][n].state = "unfinished" <=> n > Before(i)
    /\ \A n \in 1..Len(ops[i]) : n > Before(i) + 1 =>
          ~ops[i][n].begun /\ ops[i][n].kind \in {"start", "stop", "secrets"}
    /\ pc[i] = "idle" <=> ~Works(i) \/ ~ops[i][Before(i) + 1].begun
    /\ HasLatest(ops[i])

\* What may wait behind what, and what an operation in line may count on.
Lined(i) ==
    /\ Works(i) => rec[i].kept # "no" /\ rec[i].intended # "deleted" /\ i \notin recovering
    /\ \A n \in Left(i) : ops[i][n].kind \in {"stop", "recreate", "update", "remove"} => Active(i)
    /\ \A n, m \in Left(i) : ~(ops[i][n].kind = "remove" /\ ops[i][m].kind = "stop")
    /\ Works(i) /\ Kind(i) \in {"restore", "delete"} => Removed(i) /\ Alone(i)
    /\ Works(i) /\ Kind(i) = "delete" => i \notin login
    /\ Works(i) /\ Kind(i) = "create" => i \in Hosted /\ rec[i].kept = "opened" /\ Alone(i)
    /\ Works(i) /\ Kind(i) = "adopt" =>
          /\ i \in Foreign
          /\ IF pc[i] \in {"remove", "create", "start"} THEN Active(i) ELSE rec[i].kept = "opened" /\ Alone(i)

\* The call an operation is in is one of its kind's, and what it found or did still holds.
TakesDown == {"recreate", "update", "remove", "start", "adopt"}
Has(i, call) ==
    /\ call = "build" => Kind(i) \in {"create", "update"}
    /\ call = "write" => Kind(i) = "create"
    /\ call \in {"probe", "drain", "halt"} => Kind(i) \in TakesDown \cup {"stop"}
    /\ call = "remove" => Kind(i) \in TakesDown
    /\ call = "create" => Kind(i) \in {"create", "update", "recreate", "start", "restore", "adopt"}
    /\ call = "start" => Kind(i) \in {"start", "resume", "recreate", "update", "adopt"}
    /\ call = "ready" => Kind(i) = "update"
    /\ call \in Storage => Kind(i) = "delete"
UnderWay(i) ==
    /\ Has(i, pc[i])
    /\ pc[i] # "idle" /\ Kind(i) \in {"start", "resume"} => Active(i)
    /\ pc[i] = "halt" /\ landed[i] => box[i].state # "running"
    /\ pc[i] = "remove" /\ landed[i] => box[i].state = "absent"
    /\ pc[i] = "create" => rec[i].owns = Storage /\ data[i].directory # "none"
    /\ pc[i] = "create" /\ landed[i] => box[i].state = "stopped"
    /\ pc[i] \in {"start", "ready"} => rec[i].intended = "running"
    /\ pc[i] \in Storage => box[i].state = "absent"
    /\ pc[i] = "directory" => "directory" \in rec[i].owns
    /\ pc[i] = "directory" /\ landed[i] => data[i].directory = "none"
    /\ pc[i] = "volume" => "directory" \notin rec[i].owns
    /\ pc[i] = "volume" /\ landed[i] => ~data[i].volume

-----------------------------------------------------------------------------
(* The record of an instance.                                              *)

Whole(i) == data[i].directory # "none" /\ data[i].volume
Gone(i) == data[i].directory = "none" /\ ~data[i].volume

\* What the hub has no record of is as it was; what it owns and has not deleted is there.
Recorded(i) ==
    /\ rec[i].kept = "no" => rec[i] = NoRecord
    /\ rec[i].kept = "no" /\ i \in Hosted => box[i].state = "absent"
    /\ rec[i].kept # "prepared" => rec[i].intended \in {"stopped", "running"} /\ rec[i].owns \in {{}, Storage}
    /\ i \in Foreign /\ rec[i].kept # "prepared" => box[i].state # "absent" /\ box[i].image = Brought
    /\ i \in Foreign /\ rec[i].kept = "opened" => rec[i].owns = Storage
    /\ rec[i].kept = "prepared" /\ "directory" \notin rec[i].owns => data[i].directory = "none"
    /\ rec[i].kept = "prepared" /\ "volume" \notin rec[i].owns => Gone(i) /\ rec[i].owns = {}
    /\ box[i].state = "absent" => box[i].by = "nobody"
    /\ box[i].state # "absent" => Whole(i) /\ (rec[i].kept # "no" => rec[i].owns = Storage)
    /\ Active(i) => Whole(i)
    /\ i \in login => rec[i].kept = "prepared" /\ rec[i].intended # "deleted" /\ Whole(i)
    /\ i \in recovering => rec[i].kept # "no"
    /\ rec[i].intended = "deleted" => /\ rec[i].kept = "prepared" /\ i \notin recovering
                                      /\ box[i].state = "absent" /\ Gone(i)

\* What was stopped does not run, and what was removed comes back only by a restoration.
Truthful(i) ==
    /\ rec[i].intended = "stopped" /\ LastOperation(i).state = "succeeded" => box[i].state # "running"
    /\ rec[i].intended = "removed" /\ box[i].by = "hub"
         => LastOperation(i).kind = "restore" /\ LastOperation(i).state # "succeeded"

\* An image that is to go is one the hub built, and nobody's but a container's.
Spared ==
    /\ doomed \subseteq artifacts /\ Brought \notin artifacts
    /\ \A i \in Inst : /\ got[i] # NoImage => pc[i] \in {"build", "write"} /\ doomed = {}
                       /\ box[i].state # "absent" => box[i].image \in images
                       /\ i \in Managed => {rec[i].image, rec[i].candidate} \cap doomed = {}

-----------------------------------------------------------------------------
(* The latest operation that changed the container.                        *)

Latest(q) == LET changed == Changes(q)
             IN IF changed = {} THEN Nothing ELSE q[CHOOSE n \in changed : \A m \in changed : m <= n]

\* LastOperation is the latest of the operations that changed the container, now and after a step.
LEMMA LatestIs == ASSUME NEW i PROVE LastOperation(i) = Latest(ops[i]) /\ LastOperation(i)' = Latest(ops'[i])
  <1>1. LastOperation(i) = Latest(ops[i])
    BY DEF LastOperation, Latest, Changes
  <1>2. LastOperation(i)' = Latest(ops'[i])
    BY DEF LastOperation, Latest, Changes
  <1>3. QED
    BY <1>1, <1>2

\* The latest of a line that grew is the new one if it changed the container.
LEMMA LatestNew ==
  ASSUME NEW q \in Seq(Operations), NEW n \in DOMAIN q, Changed(q[n]), \A m \in DOMAIN q : Changed(q[m]) => m <= n
  PROVE  HasLatest(q) /\ Latest(q) = q[n]
  <1>1. n \in Changes(q) /\ \A m \in Changes(q) : m <= n
    BY DEF Changes
  <1>2. HasLatest(q)
    BY <1>1 DEF HasLatest
  <1>3. \A m \in Changes(q) : (\A k \in Changes(q) : k <= m) => m = n
    <2>1. DOMAIN q \subseteq Nat
      OBVIOUS
    <2>2. Changes(q) \subseteq Nat
      BY <2>1 DEF Changes
    <2>3. QED
      BY <1>1, <2>2
  <1>4. (CHOOSE k \in Changes(q) : \A m \in Changes(q) : m <= k) = n
    BY <1>1, <1>3
  <1>5. QED
    BY <1>1, <1>2, <1>4 DEF Latest

\* It is the same where what changed the container is.
LEMMA LatestSame ==
  ASSUME NEW q, NEW p, HasLatest(q), Changes(p) = Changes(q), \A n \in Changes(q) : p[n] = q[n]
  PROVE  HasLatest(p) /\ Latest(p) = Latest(q)
  <1>1. HasLatest(p)
    BY DEF HasLatest
  <1>2. CASE Changes(q) = {}
    BY <1>1, <1>2 DEF Latest
  <1>3. CASE Changes(q) # {}
    <2>1. (CHOOSE k \in Changes(q) : \A m \in Changes(q) : m <= k) \in Changes(q)
      BY <1>3 DEF HasLatest
    <2>2. QED
      BY <1>1, <1>3, <2>1 DEF Latest
  <1>4. QED
    BY <1>2, <1>3

\* It keeps its kind where those that were not finished have failed.
LEMMA LatestFailed ==
  ASSUME NEW q, NEW p, HasLatest(q), Changes(p) = Changes(q),
         \A n \in Changes(q) : /\ p[n].kind = q[n].kind
                               /\ p[n].state = IF q[n].state = "unfinished" THEN "failed" ELSE q[n].state
  PROVE  /\ HasLatest(p) /\ Latest(p).kind = Latest(q).kind
         /\ Latest(p).state = "succeeded" <=> Latest(q).state = "succeeded"
  <1>1. HasLatest(p)
    BY DEF HasLatest
  <1>2. CASE Changes(q) = {}
    BY <1>1, <1>2 DEF Latest
  <1>3. CASE Changes(q) # {}
    <2> DEFINE k == CHOOSE n \in Changes(q) : \A m \in Changes(q) : m <= n
    <2>1. k \in Changes(q)
      BY <1>3 DEF HasLatest
    <2>2. Latest(p) = p[k] /\ Latest(q) = q[k]
      BY <1>3 DEF Latest
    <2>3. QED
      BY <1>1, <2>1, <2>2
  <1>4. QED
    BY <1>2, <1>3

-----------------------------------------------------------------------------
(* Opening, calling, ending.                                               *)

\* The first in line is the first operation that is not over.
LEMMA HeadIs ==
  ASSUME Types, NEW i \in Inst, InTurn(i)
  PROVE  /\ Len(ops[i]) \in Nat /\ Len(line[i]) \in Nat /\ Before(i) \in Nat
         /\ DOMAIN ops[i] = 1..Len(ops[i]) /\ DOMAIN line[i] = 1..Len(line[i])
         /\ Before(i) + Len(line[i]) = Len(ops[i])
         /\ Works(i) <=> Len(line[i]) >= 1
         /\ \A n \in 1..Len(ops[i]) : ops[i][n] \in Operations
         /\ Works(i) => /\ Op(i) = Before(i) + 1 /\ Op(i) \in 1..Len(ops[i]) /\ Op(i) \in Left(i)
                        /\ ops[i][Op(i)] \in Operations /\ ops[i][Op(i)].state = "unfinished"
                        /\ Kind(i) = ops[i][Op(i)].kind /\ Kind(i) \in Kinds
                        /\ pc[i] = "idle" <=> ~ops[i][Op(i)].begun
  <1>1. ops[i] \in Seq(Operations) /\ line[i] \in Seq(Nat)
    BY DEF Types
  <1>2. /\ Len(ops[i]) \in Nat /\ Len(line[i]) \in Nat /\ DOMAIN ops[i] = 1..Len(ops[i])
        /\ DOMAIN line[i] = 1..Len(line[i]) /\ \A n \in 1..Len(ops[i]) : ops[i][n] \in Operations
    BY <1>1
  <1>3. Before(i) \in Nat /\ Before(i) + Len(line[i]) = Len(ops[i])
    BY <1>2 DEF InTurn, Before
  <1>4. Works(i) <=> Len(line[i]) >= 1
    BY <1>1 DEF Works
  <1>5. ASSUME Works(i) PROVE Op(i) = Before(i) + 1 /\ Op(i) \in 1..Len(ops[i])
    <2>1. Op(i) = line[i][1] /\ 1 \in 1..Len(line[i])
      BY <1>1, <1>2, <1>4, <1>5 DEF Op, Works
    <2>2. Op(i) = Before(i) + 1
      BY <2>1 DEF InTurn
    <2>3. QED
      BY <1>2, <1>3, <1>4, <1>5, <2>2
  <1>6. ASSUME Works(i) PROVE Op(i) \in Left(i) /\ ops[i][Op(i)].state = "unfinished" /\ (pc[i] = "idle" <=> ~ops[i][Op(i)].begun)
    BY <1>3, <1>5, <1>6 DEF InTurn, Left
  <1>7. ASSUME Works(i) PROVE Kind(i) = ops[i][Op(i)].kind /\ Kind(i) \in Kinds
    BY <1>2, <1>5, <1>7 DEF Kind, Operations
  <1>8. QED
    BY <1>2, <1>3, <1>4, <1>5, <1>6, <1>7

\* An operation in a call is the latest change, and not over.
LEMMA InCall ==
  ASSUME Types, NEW i \in Inst, InTurn(i), Works(i), ops[i][Op(i)].begun, Kind(i) # "secrets"
  PROVE  LastOperation(i) = ops[i][Op(i)] /\ LastOperation(i).state = "unfinished" /\ LastOperation(i).kind = Kind(i)
  <1>1. Changed(ops[i][Op(i)])
    BY HeadIs DEF Changed
  <1>2. \A m \in 1..Len(ops[i]) : m > Op(i) => ~Changed(ops[i][m])
    <2> SUFFICES ASSUME NEW m \in 1..Len(ops[i]), m > Op(i) PROVE ~Changed(ops[i][m])
      OBVIOUS
    <2>1. Op(i) = Before(i) + 1 /\ Before(i) \in Nat /\ Len(ops[i]) \in Nat
      BY HeadIs
    <2>2. m > Before(i) + 1 /\ m > Before(i)
      BY <2>1
    <2>3. ops[i][m].state = "unfinished" /\ ~ops[i][m].begun /\ ops[i][m].kind \in {"start", "stop", "secrets"}
      BY <2>2 DEF InTurn
    <2>4. QED
      BY <2>3 DEF Changed
  <1>3. \A m \in DOMAIN ops[i] : Changed(ops[i][m]) => m <= Op(i)
    BY <1>2, HeadIs
  <1>4. Latest(ops[i]) = ops[i][Op(i)]
    BY <1>1, <1>3, HeadIs, LatestNew DEF Types
  <1>5. QED
    BY <1>4, HeadIs, LatestIs

\* An operation that is opened joins the end of the line.
LEMMA Opening ==
  ASSUME Types, NEW i \in Inst, InTurn(i), NEW kind \in Kinds, Opened(i, kind), pc'[i] = pc[i],
         Works(i) => kind \in {"start", "stop", "secrets"}
  PROVE  /\ ops' \in [Inst -> Seq(Operations)] /\ line' \in [Inst -> Seq(Nat)]
         /\ InTurn(i)' /\ Works(i)' /\ Len(ops'[i]) = Len(ops[i]) + 1 /\ Before(i)' = Before(i)
         /\ \A n \in 1..Len(ops[i]) : ops'[i][n] = ops[i][n]
         /\ ops'[i][Len(ops[i]) + 1].kind = kind
         /\ Alone(i)' <=> ~Works(i)
         /\ Kind(i)' = IF Works(i) THEN Kind(i) ELSE kind
         /\ IF kind \in {"remove", "adopt"}
              THEN LastOperation(i)'.kind = kind /\ LastOperation(i)'.state = "unfinished"
              ELSE LastOperation(i)' = LastOperation(i)
         /\ \A j \in Inst \ {i} : ops'[j] = ops[j] /\ line'[j] = line[j]
  <1> DEFINE q == ops[i]
             new == [kind |-> kind, state |-> "unfinished", begun |-> FALSE]
             p == Append(q, new)
             l == Append(line[i], Len(q) + 1)
  <1>0. new \in Operations /\ new.kind = kind /\ new.state = "unfinished" /\ ~new.begun
    BY DEF Operations, OperationState
  <1>1. q \in Seq(Operations) /\ line[i] \in Seq(Nat) /\ Len(q) + 1 \in Nat /\ q = ops[i] /\ DOMAIN q = 1..Len(q)
    BY DEF Types
  <1> HIDE DEF new
  <1>2. /\ p \in Seq(Operations) /\ Len(p) = Len(q) + 1 /\ DOMAIN p = 1..(Len(q) + 1) /\ p[Len(q) + 1] = new
        /\ \A n \in 1..Len(q) : p[n] = q[n]
    BY <1>0, <1>1
  <1>3. /\ l \in Seq(Nat) /\ Len(l) = Len(line[i]) + 1 /\ DOMAIN l = 1..(Len(line[i]) + 1)
        /\ l[Len(line[i]) + 1] = Len(q) + 1 /\ \A n \in 1..Len(line[i]) : l[n] = line[i][n]
    BY <1>1
  <1>4. /\ ops'[i] = p /\ line'[i] = l /\ ops' \in [Inst -> Seq(Operations)] /\ line' \in [Inst -> Seq(Nat)]
        /\ \A j \in Inst \ {i} : ops'[j] = ops[j] /\ line'[j] = line[j]
    BY <1>2, <1>3 DEF Opened, Types, new
  <1> HIDE DEF q, p, l
  <1>a. /\ Len(q) \in Nat /\ Len(line[i]) \in Nat /\ Before(i) \in Nat /\ Before(i) + Len(line[i]) = Len(q)
        /\ Works(i) <=> Len(line[i]) >= 1
    BY <1>1, HeadIs
  <1>5. Before(i)' = Before(i) /\ Before(i) \in Nat /\ Before(i) + Len(line[i]) = Len(q)
    <2>1. Before(i)' = Len(p) - Len(l) /\ Before(i) = Len(q) - Len(line[i])
      BY <1>1, <1>4 DEF Before
    <2>2. QED
      BY <1>2, <1>3, <1>a, <2>1
  <1>6. Works(i)' /\ (Works(i) <=> Len(line[i]) >= 1)
    BY <1>1, <1>3, <1>4, HeadIs DEF Works
  <1>7. Alone(i)' <=> ~Works(i)
    <2>1. Len(line'[i]) = Len(line[i]) + 1
      BY <1>3, <1>4
    <2>2. Alone(i)' <=> Len(line[i]) = 0
      BY <2>1, <1>a DEF Alone
    <2>3. QED
      BY <2>2, <1>a
  <1>8. Kind(i)' = IF Works(i) THEN Kind(i) ELSE kind
    <2>1. Op(i)' = l[1]
      BY <1>3, <1>4 DEF Op
    <2>2. CASE Works(i)
      <3>1. l[1] = Op(i) /\ Op(i) \in 1..Len(q)
        BY <1>1, <1>3, <1>6, <2>2, HeadIs DEF Op
      <3>2. QED
        BY <1>1, <1>2, <1>4, <2>1, <2>2, <3>1 DEF Kind
    <2>3. CASE ~Works(i)
      <3>1. l[1] = Len(q) + 1
        BY <1>3, <1>6, <2>3, HeadIs
      <3>2. QED
        BY <1>0, <1>1, <1>2, <1>4, <2>1, <2>3, <3>1 DEF Kind
    <2>4. QED
      BY <2>2, <2>3
  <1>9. /\ HasLatest(p)
        /\ IF kind \in {"remove", "adopt"} THEN Latest(p) = new ELSE Latest(p) = Latest(q)
    <2>1. CASE kind \in {"remove", "adopt"}
      <3>1. Changed(new)
        BY <1>0, <2>1 DEF Changed
      <3>2. \A m \in DOMAIN p : Changed(p[m]) => m <= Len(q) + 1
        BY <1>1, <1>2
      <3>3. QED
        BY <1>1, <1>2, <2>1, <3>1, <3>2, LatestNew
    <2>2. CASE kind \notin {"remove", "adopt"}
      <3>1. ~Changed(new)
        BY <1>0, <2>2 DEF Changed
      <3>2. Changes(p) = Changes(q) /\ \A n \in Changes(q) : p[n] = q[n]
        BY <1>1, <1>2, <3>1 DEF Changes
      <3>3. HasLatest(q)
        BY <1>1 DEF InTurn
      <3>4. QED
        BY <2>2, <3>2, <3>3, LatestSame
    <2>3. QED
      BY <2>1, <2>2
  <1>10. InTurn(i)'
    <2>1. Len(l) <= Len(p) /\ \A n \in 1..Len(l) : l[n] = Before(i) + n
      <3>1. \A n \in 1..Len(line[i]) : l[n] = Before(i) + n
        BY <1>3 DEF InTurn
      <3>2. QED
        BY <1>a, <1>2, <1>3, <3>1
    <2>2. \A n \in 1..Len(p) : p[n].state = "unfinished" <=> n > Before(i)
      <3>1. \A n \in 1..Len(q) : p[n].state = "unfinished" <=> n > Before(i)
        BY <1>1, <1>2 DEF InTurn
      <3>2. p[Len(q) + 1].state = "unfinished" /\ Len(q) + 1 > Before(i)
        BY <1>0, <1>1, <1>2, <1>5, HeadIs
      <3>3. QED
        BY <1>a, <1>2, <3>1, <3>2
    <2>3. \A n \in 1..Len(p) : n > Before(i) + 1 => ~p[n].begun /\ p[n].kind \in {"start", "stop", "secrets"}
      <3>1. Len(q) + 1 > Before(i) + 1 => Works(i)
        BY <1>5, <1>6, HeadIs
      <3>2. \A n \in 1..Len(q) : n > Before(i) + 1 => ~q[n].begun /\ q[n].kind \in {"start", "stop", "secrets"}
        BY <1>1 DEF InTurn
      <3>3. QED
        <4>1. ASSUME NEW n \in 1..Len(q), n > Before(i) + 1 PROVE ~p[n].begun /\ p[n].kind \in {"start", "stop", "secrets"}
          BY <1>2, <3>2, <4>1
        <4>2. ASSUME Len(q) + 1 > Before(i) + 1 PROVE ~p[Len(q) + 1].begun /\ p[Len(q) + 1].kind \in {"start", "stop", "secrets"}
          BY <1>0, <1>2, <3>1, <4>2
        <4>3. QED
          BY <1>2, <1>a, <4>1, <4>2
    <2>4. pc[i] = "idle" <=> ~p[Before(i) + 1].begun
      <3>1. CASE Works(i)
        BY <1>1, <1>2, <3>1, HeadIs DEF InTurn
      <3>2. CASE ~Works(i)
        BY <1>0, <1>1, <1>2, <1>5, <1>6, <3>2, HeadIs DEF InTurn
      <3>3. QED
        BY <3>1, <3>2
    <2>5. QED
      BY <1>4, <1>5, <1>6, <1>9, <2>1, <2>2, <2>3, <2>4 DEF InTurn
  <1>11. LastOperation(i)' = Latest(p) /\ LastOperation(i) = Latest(q)
    BY <1>1, <1>4, LatestIs
  <1>12. QED
    BY <1>0, <1>1, <1>2, <1>4, <1>5, <1>6, <1>7, <1>8, <1>9, <1>10, <1>11

\* A call begins the first operation in line and leaves the others as they are.
LEMMA Calling ==
  ASSUME Types, NEW i \in Inst, InTurn(i), Works(i), Kind(i) # "secrets", NEW call \in Calls, Call(i, call)
  PROVE  /\ ops' \in [Inst -> Seq(Operations)] /\ line' = line
         /\ pc' = [pc EXCEPT ![i] = call] /\ landed' = [landed EXCEPT ![i] = FALSE]
         /\ InTurn(i)' /\ Works(i)' /\ Len(ops'[i]) = Len(ops[i]) /\ Before(i)' = Before(i)
         /\ \A n \in 1..Len(ops[i]) : ops'[i][n].kind = ops[i][n].kind
         /\ (Alone(i)' <=> Alone(i)) /\ Kind(i)' = Kind(i)
         /\ LastOperation(i)'.kind = Kind(i) /\ LastOperation(i)'.state = "unfinished"
         /\ \A j \in Inst \ {i} : ops'[j] = ops[j]
  <1> DEFINE q == ops[i]
             k == Op(i)
             op == [q[k] EXCEPT !.begun = TRUE]
             p == [q EXCEPT ![k] = op]
  <1>1. /\ q \in Seq(Operations) /\ q = ops[i] /\ DOMAIN q = 1..Len(q) /\ Len(q) \in Nat /\ k = Before(i) + 1
        /\ k = Op(i) /\ k \in 1..Len(q) /\ q[k] \in Operations /\ q[k].state = "unfinished" /\ q[k].kind = Kind(i)
        /\ Before(i) \in Nat /\ Len(line[i]) \in Nat /\ Before(i) + Len(line[i]) = Len(q)
    BY HeadIs DEF Types
  <1>2. op \in Operations /\ op.kind = Kind(i) /\ op.state = "unfinished" /\ op.begun
    BY <1>1 DEF Operations
  <1>3. /\ ops' = [ops EXCEPT ![i] = p] /\ line' = line
        /\ pc' = [pc EXCEPT ![i] = call] /\ landed' = [landed EXCEPT ![i] = FALSE]
    BY DEF Call
  <1> HIDE DEF op, k, q
  <1>4. p \in Seq(Operations) /\ Len(p) = Len(q) /\ DOMAIN p = 1..Len(q) /\ p[k] = op /\ \A n \in 1..Len(q) : n # k => p[n] = q[n]
    <2>1. /\ p \in [1..Len(q) -> Operations] /\ p[k] = op /\ \A n \in 1..Len(q) : n # k => p[n] = q[n]
      BY <1>1, <1>2
    <2>2. p \in Seq(Operations) /\ Len(p) = Len(q)
      BY <1>1, <2>1
    <2>3. QED
      BY <2>1, <2>2
  <1> HIDE DEF p
  <1>5. ops'[i] = p /\ ops' \in [Inst -> Seq(Operations)] /\ (\A j \in Inst \ {i} : ops'[j] = ops[j]) /\ pc'[i] = call
    BY <1>3, <1>4 DEF Types
  <1>6. Works(i)' /\ (Alone(i)' <=> Alone(i)) /\ Op(i)' = k /\ Before(i)' = Before(i)
    BY <1>1, <1>3, <1>4, <1>5 DEF Works, Alone, Op, Before
  <1>7. Kind(i)' = Kind(i)
    BY <1>2, <1>4, <1>5, <1>6 DEF Kind
  <1>8. \A n \in 1..Len(q) : p[n].kind = q[n].kind /\ p[n].state = q[n].state
    BY <1>1, <1>2, <1>4
  <1>9. \A n \in 1..Len(q) : n > k => ~q[n].begun /\ q[n].kind \in {"start", "stop", "secrets"}
    BY <1>1 DEF InTurn
  <1>10. HasLatest(p) /\ Latest(p) = op
    <2>1. Changed(op)
      BY <1>2 DEF Changed
    <2>2. \A m \in 1..Len(q) : m > k => ~Changed(p[m])
      <3> SUFFICES ASSUME NEW m \in 1..Len(q), m > k PROVE ~Changed(p[m])
        OBVIOUS
      <3>1. m # k
        BY <1>1
      <3>2. p[m] = q[m]
        BY <1>4, <3>1
      <3>3. q[m].state = "unfinished"
        BY <1>1 DEF InTurn
      <3>4. QED
        BY <1>9, <3>2, <3>3 DEF Changed
    <2>3. \A m \in DOMAIN p : Changed(p[m]) => m <= k
      BY <1>1, <1>4, <2>2
    <2>4. k \in DOMAIN p /\ Changed(p[k]) /\ p \in Seq(Operations)
      BY <1>1, <1>4, <2>1
    <2>5. HasLatest(p) /\ Latest(p) = p[k]
      BY <2>3, <2>4, LatestNew
    <2>6. QED
      BY <1>4, <2>5
  <1>11. InTurn(i)'
    <2>1. Len(line[i]) <= Len(p) /\ \A n \in 1..Len(line[i]) : line[i][n] = Before(i) + n
      BY <1>1, <1>4 DEF InTurn
    <2>2. \A n \in 1..Len(p) : p[n].state = "unfinished" <=> n > Before(i)
      BY <1>1, <1>4, <1>8 DEF InTurn
    <2>3. \A n \in 1..Len(p) : n > Before(i) + 1 => ~p[n].begun /\ p[n].kind \in {"start", "stop", "secrets"}
      BY <1>1, <1>4, <1>9
    <2>4. pc'[i] # "idle" /\ p[Before(i) + 1].begun
      BY <1>1, <1>2, <1>4, <1>5 DEF Calls
    <2>5. QED
      BY <1>3, <1>5, <1>6, <1>10, <2>1, <2>2, <2>3, <2>4 DEF InTurn
  <1>12. QED
    BY <1>1, <1>2, <1>3, <1>4, <1>5, <1>6, <1>7, <1>8, <1>10, <1>11, LatestIs

\* The end of the first operation brings the next to the head of the line.
LEMMA Ending ==
  ASSUME Types, NEW i \in Inst, InTurn(i), Works(i), NEW state \in {"succeeded", "failed"}, End(i, state)
  PROVE  /\ ops' \in [Inst -> Seq(Operations)] /\ line' \in [Inst -> Seq(Nat)]
         /\ pc' = [pc EXCEPT ![i] = "idle"] /\ landed' = [landed EXCEPT ![i] = FALSE]
         /\ InTurn(i)' /\ Len(ops'[i]) = Len(ops[i]) /\ Before(i)' = Before(i) + 1
         /\ \A n \in 1..Len(ops[i]) : ops'[i][n].kind = ops[i][n].kind
         /\ (Works(i)' <=> ~Alone(i)) /\ (Works(i)' => Kind(i)' \in {"start", "stop", "secrets"})
         /\ IF Kind(i) # "secrets" /\ (Kind(i) \in {"remove", "adopt"} \/ state = "succeeded" \/ pc[i] # "idle")
              THEN LastOperation(i)'.kind = Kind(i) /\ LastOperation(i)'.state = state
              ELSE LastOperation(i)' = LastOperation(i)
         /\ \A j \in Inst \ {i} : ops'[j] = ops[j] /\ line'[j] = line[j]
  <1> DEFINE q == ops[i]
             k == Op(i)
             op == [q[k] EXCEPT !.state = state]
             p == [q EXCEPT ![k] = op]
             l == Tail(line[i])
  <1>1. /\ q \in Seq(Operations) /\ q = ops[i] /\ DOMAIN q = 1..Len(q) /\ Len(q) \in Nat /\ k = Before(i) + 1
        /\ k = Op(i) /\ k \in 1..Len(q) /\ q[k] \in Operations /\ q[k].state = "unfinished" /\ q[k].kind = Kind(i)
        /\ Before(i) \in Nat /\ Len(line[i]) \in Nat /\ Before(i) + Len(line[i]) = Len(q)
        /\ Len(line[i]) >= 1 /\ line[i] \in Seq(Nat) /\ (pc[i] = "idle" <=> ~q[k].begun)
    BY HeadIs DEF Types
  <1>2. op \in Operations /\ op.kind = Kind(i) /\ op.state = state /\ op.begun = q[k].begun
    BY <1>1 DEF Operations, OperationState
  <1>3. /\ ops' = [ops EXCEPT ![i] = p] /\ line' = [line EXCEPT ![i] = l]
        /\ pc' = [pc EXCEPT ![i] = "idle"] /\ landed' = [landed EXCEPT ![i] = FALSE]
    BY DEF End
  <1> HIDE DEF op, k, q
  <1>4. p \in Seq(Operations) /\ Len(p) = Len(q) /\ DOMAIN p = 1..Len(q) /\ p[k] = op /\ \A n \in 1..Len(q) : n # k => p[n] = q[n]
    <2>1. /\ p \in [1..Len(q) -> Operations] /\ p[k] = op /\ \A n \in 1..Len(q) : n # k => p[n] = q[n]
      BY <1>1, <1>2
    <2>2. p \in Seq(Operations) /\ Len(p) = Len(q)
      BY <1>1, <2>1
    <2>3. QED
      BY <2>1, <2>2
  <1>5. l \in Seq(Nat) /\ Len(l) = Len(line[i]) - 1 /\ \A n \in 1..(Len(line[i]) - 1) : l[n] = line[i][n + 1]
    BY <1>1
  <1> HIDE DEF p, l
  <1>6. /\ ops'[i] = p /\ ops' \in [Inst -> Seq(Operations)] /\ line'[i] = l /\ line' \in [Inst -> Seq(Nat)]
        /\ (\A j \in Inst \ {i} : ops'[j] = ops[j] /\ line'[j] = line[j]) /\ pc'[i] = "idle"
    BY <1>3, <1>4, <1>5 DEF Types
  <1>a. /\ Before(i) \in Nat /\ Len(line[i]) \in Nat /\ Len(q) \in Nat /\ Before(i) + Len(line[i]) = Len(q)
        /\ Len(line[i]) >= 1 /\ k = Before(i) + 1 /\ k \in 1..Len(q)
    BY <1>1
  <1>b. Len(p) = Len(q) /\ Len(l) = Len(line[i]) - 1
    BY <1>4, <1>5
  <1>7. Before(i)' = Before(i) + 1
    <2>1. Before(i)' = Len(p) - Len(l)
      BY <1>6 DEF Before
    <2>2. QED
      <3>1. Len(p) \in Nat /\ Len(l) \in Nat /\ Len(l) + 1 = Len(line[i])
        BY <1>a, <1>b
      <3>2. Len(p) = Before(i) + Len(l) + 1
        BY <1>a, <1>b, <3>1
      <3>3. Before(i) \in Nat
        BY <1>a
      <3>4. QED
        BY <2>1, <3>1, <3>2, <3>3
  <1>8. \A n \in 1..Len(q) : p[n].kind = q[n].kind
    BY <1>1, <1>2, <1>4
  <1>9. \A n \in 1..Len(q) : n > k => p[n] = q[n] /\ ~q[n].begun /\ q[n].kind \in {"start", "stop", "secrets"} /\ q[n].state = "unfinished"
    <2>1. \A n \in 1..Len(q) : n > Before(i) + 1 => ~q[n].begun /\ q[n].kind \in {"start", "stop", "secrets"}
      BY <1>1 DEF InTurn
    <2>2. \A n \in 1..Len(q) : q[n].state = "unfinished" <=> n > Before(i)
      BY <1>1 DEF InTurn
    <2>3. \A n \in 1..Len(q) : n > k => n # k /\ n > Before(i) + 1 /\ n > Before(i)
      BY <1>a
    <2>4. \A n \in 1..Len(q) : n # k => p[n] = q[n]
      BY <1>4
    <2>5. QED
      BY <2>1, <2>2, <2>3, <2>4
  <1>10. (Works(i)' <=> ~Alone(i)) /\ (Works(i)' <=> Len(l) >= 1)
    <2>1. Works(i)' <=> Len(l) >= 1
      BY <1>5, <1>6 DEF Works
    <2>2. Len(l) >= 1 <=> ~Alone(i)
      <3>1. Len(l) \in Nat /\ Len(l) + 1 = Len(line[i])
        BY <1>a, <1>b
      <3>2. Len(l) >= 1 <=> Len(line[i]) # 1
        <4>1. ASSUME Len(line[i]) = 1 PROVE ~(Len(l) >= 1)
          BY <3>1, <4>1
        <4>2. ASSUME ~(Len(l) >= 1) PROVE Len(l) = 0
          BY <3>1, <4>2
        <4>3. ASSUME Len(l) = 0 PROVE Len(line[i]) = 1
          BY <3>1, <4>3
        <4>4. QED
          BY <4>1, <4>2, <4>3
      <3>3. QED
        BY <3>2 DEF Alone
    <2>3. QED
      BY <2>1, <2>2
  <1>11. ASSUME Works(i)' PROVE Kind(i)' \in {"start", "stop", "secrets"}
    <2>1. Op(i)' = l[1] /\ Len(line[i]) >= 2 /\ 1 \in 1..Len(l)
      BY <1>1, <1>5, <1>6, <1>10, <1>11 DEF Op
    <2>a. l[1] = line[i][2] /\ 2 \in 1..Len(line[i])
      <3>1. 1 \in 1..(Len(line[i]) - 1)
        BY <1>a, <2>1
      <3>2. QED
        BY <1>5, <1>a, <2>1, <3>1
    <2>2. l[1] = Before(i) + 2
      BY <2>a DEF InTurn
    <2>3. k + 1 \in 1..Len(q) /\ Op(i)' = k + 1
      BY <1>a, <2>1, <2>2
    <2>4. Kind(i)' = p[k + 1].kind
      BY <1>6, <2>3 DEF Kind
    <2>5. QED
      BY <1>8, <1>9, <1>a, <2>3, <2>4
  <1>12. /\ HasLatest(p)
         /\ IF Changed(op) THEN Latest(p) = op ELSE Latest(p) = Latest(q)
    <2>1. \A m \in 1..Len(q) : m > k => ~Changed(p[m])
      BY <1>9 DEF Changed
    <2>2. CASE Changed(op)
      <3>1. \A m \in DOMAIN p : Changed(p[m]) => m <= k
        <4>1. \A m \in 1..Len(q) : ~(m > k) => m <= k
          BY <1>a
        <4>2. DOMAIN p = 1..Len(q)
          BY <1>4
        <4>3. QED
          BY <2>1, <4>1, <4>2
      <3>2. QED
        BY <1>1, <1>4, <2>2, <3>1, LatestNew
    <2>3. CASE ~Changed(op)
      <3>1. ~Changed(q[k])
        BY <1>1, <1>2, <2>3 DEF Changed
      <3>2. Changes(p) = Changes(q) /\ \A n \in Changes(q) : p[n] = q[n]
        BY <1>1, <1>4, <2>3, <3>1 DEF Changes
      <3>3. HasLatest(q)
        BY <1>1 DEF InTurn
      <3>4. QED
        BY <2>3, <3>2, <3>3, LatestSame
    <2>4. QED
      BY <2>2, <2>3
  <1>13. InTurn(i)'
    <2>1. Len(l) <= Len(p)
      BY <1>1, <1>4, <1>5
    <2>2. \A n \in 1..Len(l) : l[n] = Before(i) + 1 + n
      <3> SUFFICES ASSUME NEW n \in 1..Len(l) PROVE l[n] = Before(i) + 1 + n
        OBVIOUS
      <3>1. n + 1 \in 1..Len(line[i]) /\ l[n] = line[i][n + 1]
        BY <1>1, <1>5
      <3>2. line[i][n + 1] = Before(i) + (n + 1)
        BY <3>1 DEF InTurn
      <3>3. QED
        BY <1>1, <3>1, <3>2
    <2>3. \A n \in 1..Len(p) : p[n].state = "unfinished" <=> n > Before(i) + 1
      <3> SUFFICES ASSUME NEW n \in 1..Len(q) PROVE p[n].state = "unfinished" <=> n > k
        BY <1>1, <1>4
      <3>1. CASE n = k
        BY <1>1, <1>2, <1>4, <3>1
      <3>2. CASE n # k
        <4>1. q[n].state = "unfinished" <=> n > Before(i)
          BY <1>1 DEF InTurn
        <4>2. QED
          BY <1>1, <1>4, <3>2, <4>1
      <3>3. QED
        BY <3>1, <3>2
    <2>4. \A n \in 1..Len(p) : n > Before(i) + 1 => ~p[n].begun /\ p[n].kind \in {"start", "stop", "secrets"}
      BY <1>1, <1>4, <1>9
    <2>5. Works(i)' => ~p[Before(i) + 2].begun
      <3>1. Len(l) \in Nat /\ Len(p) \in Nat /\ Before(i) \in Nat /\ Len(p) = Before(i) + Len(l) + 1
        BY <1>a, <1>b
      <3>2. Works(i)' => Before(i) + 2 \in 1..Len(p) /\ Before(i) + 2 > Before(i) + 1
        <4>1. ASSUME Len(l) >= 1 PROVE Before(i) + 2 \in 1..Len(p) /\ Before(i) + 2 > Before(i) + 1
          BY <3>1, <4>1
        <4>2. QED
          BY <1>10, <4>1
      <3>3. QED
        BY <2>4, <3>2
    <2>6. \A n \in 1..Len(p) : n > Before(i) + 1 + 1 => ~p[n].begun /\ p[n].kind \in {"start", "stop", "secrets"}
      <3>1. \A n \in Nat : n > Before(i) + 1 + 1 => n > Before(i) + 1
        BY <1>a
      <3>2. QED
        BY <1>b, <2>4, <3>1
    <2>7. Before(i) + 1 + 1 = Before(i) + 2
      BY <1>a
    <2>8. QED
      BY <1>6, <1>7, <1>12, <2>1, <2>2, <2>3, <2>5, <2>6, <2>7 DEF InTurn
  <1>14. LastOperation(i)' = Latest(p) /\ LastOperation(i) = Latest(q)
    BY <1>1, <1>6, LatestIs
  <1>15. Changed(op) <=> Kind(i) # "secrets" /\ (Kind(i) \in {"remove", "adopt"} \/ state = "succeeded" \/ pc[i] # "idle")
    BY <1>1, <1>2 DEF Changed
  <1>16. QED
    BY <1>1, <1>2, <1>3, <1>4, <1>6, <1>7, <1>8, <1>10, <1>11, <1>12, <1>13, <1>14, <1>15

\* A restart fails what was left.
LEMMA Failing ==
  ASSUME Types, NEW i \in Inst, InTurn(i), FailInterrupted, line' = [j \in Inst |-> <<>>], pc' = [j \in Inst |-> "idle"]
  PROVE  /\ ops'[i] \in Seq(Operations) /\ InTurn(i)' /\ ~Works(i)' /\ Left(i)' = {}
         /\ LastOperation(i)'.kind = LastOperation(i).kind
         /\ LastOperation(i)'.state = "succeeded" <=> LastOperation(i).state = "succeeded"
  <1> DEFINE q == ops[i]
             p == [n \in DOMAIN q |-> IF q[n].state = "unfinished" THEN [q[n] EXCEPT !.state = "failed"] ELSE q[n]]
  <1>1. q \in Seq(Operations) /\ q = ops[i] /\ DOMAIN q = 1..Len(q) /\ Len(q) \in Nat /\ \A n \in 1..Len(q) : q[n] \in Operations
    BY DEF Types
  <1>2. ops'[i] = p /\ line'[i] = <<>> /\ pc'[i] = "idle"
    BY DEF FailInterrupted
  <1> HIDE DEF q
  <1>3. \A n \in 1..Len(q) :
           /\ p[n] \in Operations /\ p[n].kind = q[n].kind /\ p[n].begun = q[n].begun
           /\ p[n].state = IF q[n].state = "unfinished" THEN "failed" ELSE q[n].state
    <2> SUFFICES ASSUME NEW n \in 1..Len(q)
                 PROVE  /\ p[n] \in Operations /\ p[n].kind = q[n].kind /\ p[n].begun = q[n].begun
                        /\ p[n].state = IF q[n].state = "unfinished" THEN "failed" ELSE q[n].state
      OBVIOUS
    <2>1. p[n] = IF q[n].state = "unfinished" THEN [q[n] EXCEPT !.state = "failed"] ELSE q[n]
      BY <1>1
    <2>2. q[n] \in Operations
      BY <1>1
    <2> HIDE DEF p
    <2>3. QED
      BY <2>1, <2>2 DEF Operations, OperationState
  <1>4. p \in Seq(Operations) /\ Len(p) = Len(q) /\ DOMAIN p = 1..Len(q)
    <2>1. p \in [1..Len(q) -> Operations]
      BY <1>1, <1>3
    <2>2. QED
      BY <1>1, <2>1
  <1> HIDE DEF p
  <1>5. ~Works(i)' /\ Before(i)' = Len(q) /\ Left(i)' = {}
    BY <1>1, <1>2, <1>4 DEF Works, Before, Left
  <1>6. HasLatest(q)
    BY <1>1 DEF InTurn
  <1>7. Changes(p) = Changes(q)
    BY <1>1, <1>3, <1>4 DEF Changes, Changed
  <1>8. \A n \in Changes(q) : /\ p[n].kind = q[n].kind
                              /\ p[n].state = IF q[n].state = "unfinished" THEN "failed" ELSE q[n].state
    BY <1>1, <1>3 DEF Changes
  <1>9. /\ HasLatest(p) /\ Latest(p).kind = Latest(q).kind
        /\ Latest(p).state = "succeeded" <=> Latest(q).state = "succeeded"
    BY <1>6, <1>7, <1>8, LatestFailed
  <1>10. \A n \in 1..Len(p) : p[n].state # "unfinished"
    BY <1>1, <1>3, <1>4
  <1>11. InTurn(i)'
    BY <1>1, <1>2, <1>4, <1>5, <1>9, <1>10 DEF InTurn
  <1>12. QED
    BY <1>1, <1>2, <1>4, <1>5, <1>9, <1>11, LatestIs

-----------------------------------------------------------------------------
(* The invariant of every instance, and what leaves it alone.              *)

Sound(i) == InTurn(i) /\ Lined(i) /\ UnderWay(i) /\ Recorded(i) /\ Truthful(i)
Holds == Types /\ \A i \in Inst : Sound(i)

\* A step on one instance alone.
Touches(i) ==
    /\ rec' \in [Inst -> Records] /\ box' \in [Inst -> Containers] /\ data' \in [Inst -> Places]
    /\ \A j \in Inst \ {i} : rec'[j] = rec[j] /\ box'[j] = box[j] /\ data'[j] = data[j]
    /\ login' \subseteq login /\ recovering' \subseteq recovering

\* What a step leaves alone stays as sound as it was.
LEMMA Untouched ==
  ASSUME NEW i \in Inst, Sound(i), rec'[i] = rec[i], ops'[i] = ops[i], line'[i] = line[i], pc'[i] = pc[i],
         landed'[i] = landed[i], box'[i] = box[i], data'[i] = data[i],
         i \in login' => i \in login, i \in recovering' => i \in recovering
  PROVE  Sound(i)'
  <1>1. Works(i)' = Works(i) /\ Op(i)' = Op(i) /\ Kind(i)' = Kind(i) /\ Before(i)' = Before(i)
        /\ Left(i)' = Left(i) /\ Alone(i)' = Alone(i) /\ Active(i)' = Active(i) /\ Removed(i)' = Removed(i)
        /\ Whole(i)' = Whole(i) /\ Gone(i)' = Gone(i)
    BY DEF Works, Op, Kind, Before, Left, Alone, Active, Removed, Whole, Gone
  <1>2. InTurn(i)'
    BY <1>1 DEF Sound, InTurn
  <1>3. Lined(i)'
    BY <1>1 DEF Sound, Lined
  <1>4. UnderWay(i)'
    BY <1>1 DEF Sound, UnderWay, Has
  <1>5. Recorded(i)'
    BY <1>1 DEF Sound, Recorded
  <1>6. LastOperation(i)' = LastOperation(i)
    BY LatestIs
  <1>7. Truthful(i)'
    BY <1>6 DEF Sound, Truthful
  <1>8. QED
    BY <1>2, <1>3, <1>4, <1>5, <1>7 DEF Sound

\* What holds of an instance with an operation under way, by its kind.
LEMMA ByKind ==
  ASSUME Holds, NEW i \in Inst, Works(i)
  PROVE  /\ rec[i].kept # "no" /\ rec[i].intended # "deleted" /\ i \notin recovering
         /\ Kind(i) \in {"stop", "recreate", "update", "remove"} => Active(i)
         /\ Kind(i) \in {"restore", "delete"} => Removed(i) /\ Alone(i)
         /\ Kind(i) = "delete" => i \notin login
         /\ Kind(i) = "create" => i \in Hosted /\ rec[i].kept = "opened" /\ Alone(i)
         /\ Kind(i) = "adopt" =>
               /\ i \in Foreign
               /\ IF pc[i] \in {"remove", "create", "start"} THEN Active(i)
                                                           ELSE rec[i].kept = "opened" /\ Alone(i)
         /\ pc[i] # "idle" /\ Kind(i) \in {"start", "resume"} => Active(i)
         /\ Has(i, pc[i]) /\ Kind(i) \in Kinds
  <1>1. Op(i) \in Left(i) /\ Kind(i) = ops[i][Op(i)].kind /\ Kind(i) \in Kinds
    BY HeadIs DEF Holds, Sound
  <1>2. Kind(i) \in {"stop", "recreate", "update", "remove"} => Active(i)
    BY <1>1 DEF Holds, Sound, Lined
  <1>3. QED
    BY <1>1, <1>2 DEF Holds, Sound, Lined, UnderWay

\* What an active instance owns is all there.
LEMMA OwnsAll ==
  ASSUME Types, NEW i \in Inst, Recorded(i)
  PROVE  /\ rec[i] \in Records /\ box[i] \in Containers /\ data[i] \in Places
         /\ Active(i) => rec[i].owns = Storage /\ Whole(i)
         /\ Active(i) => rec[i].kept = "prepared" /\ rec[i].intended \in {"stopped", "running"}
         /\ Removed(i) => rec[i].kept = "prepared" /\ rec[i].intended = "removed"
  <1>1. rec[i] \in Records /\ box[i] \in Containers /\ data[i] \in Places
    BY DEF Types
  <1>2. rec[i].owns \in SUBSET Storage
    BY <1>1 DEF Records
  <1>3. ASSUME Active(i) PROVE "directory" \in rec[i].owns /\ "volume" \in rec[i].owns
    BY <1>3 DEF Active, Recorded, Whole, Gone
  <1>4. Active(i) => rec[i].owns = Storage
    BY <1>2, <1>3 DEF Storage
  <1>5. QED
    BY <1>1, <1>4 DEF Active, Removed, Recorded

-----------------------------------------------------------------------------
(* Calling, finishing, opening, landing: what each has to show.            *)

\* What an operation must have found or written to make a call.
MayCall(i, call) ==
    /\ rec'[i].kept # "no" /\ rec'[i].intended # "deleted"
    /\ Active(i) => Active(i)'
    /\ Kind(i) \in {"restore", "delete"} => Removed(i)'
    /\ Kind(i) = "create" => rec'[i].kept = "opened"
    /\ Kind(i) = "adopt" => IF call \in {"remove", "create", "start"} THEN Active(i)'
                            ELSE rec'[i].kept = "opened" /\ Alone(i)
    /\ Kind(i) \in {"start", "resume"} => Active(i)'
    /\ Has(i, call)
    /\ call = "create" => rec'[i].owns = Storage /\ data'[i].directory # "none"
    /\ call \in {"start", "ready"} => rec'[i].intended = "running"
    /\ call \in Storage => box'[i].state = "absent"
    /\ call = "directory" => "directory" \in rec'[i].owns
    /\ call = "volume" => "directory" \notin rec'[i].owns
    /\ rec'[i].intended = "removed" /\ box'[i].by = "hub" => Kind(i) = "restore"

\* An operation that goes on with a call keeps the invariant, if the call is one of its kind's.
LEMMA Called ==
  ASSUME Holds, NEW i \in Inst, Works(i), Kind(i) # "secrets", NEW call \in Calls, Call(i, call), Touches(i),
         MayCall(i, call), Recorded(i)'
  PROVE  Holds'
  <1>1. Types /\ InTurn(i) /\ Lined(i)
    BY DEF Holds, Sound
  <1>2. /\ ops' \in [Inst -> Seq(Operations)] /\ line' = line
        /\ pc' = [pc EXCEPT ![i] = call] /\ landed' = [landed EXCEPT ![i] = FALSE]
        /\ InTurn(i)' /\ Works(i)' /\ Len(ops'[i]) = Len(ops[i]) /\ Before(i)' = Before(i)
        /\ \A n \in 1..Len(ops[i]) : ops'[i][n].kind = ops[i][n].kind
        /\ (Alone(i)' <=> Alone(i)) /\ Kind(i)' = Kind(i)
        /\ LastOperation(i)'.kind = Kind(i) /\ LastOperation(i)'.state = "unfinished"
        /\ \A j \in Inst \ {i} : ops'[j] = ops[j]
    BY <1>1, Calling
  <1>3. Types' /\ pc'[i] = call /\ ~landed'[i]
    BY <1>1, <1>2 DEF Types, Touches
  <1>4. Left(i)' = Left(i) /\ \A n \in Left(i) : ops'[i][n].kind = ops[i][n].kind
    BY <1>2 DEF Left
  <1>5. Lined(i)'
    <2>1. /\ \A n \in Left(i) : ops[i][n].kind \in {"stop", "recreate", "update", "remove"} => Active(i)
          /\ \A n, m \in Left(i) : ~(ops[i][n].kind = "remove" /\ ops[i][m].kind = "stop")
      BY <1>1 DEF Lined
    <2>2. /\ \A n \in Left(i)' : ops'[i][n].kind \in {"stop", "recreate", "update", "remove"} => Active(i)'
          /\ \A n, m \in Left(i)' : ~(ops'[i][n].kind = "remove" /\ ops'[i][m].kind = "stop")
      BY <1>4, <2>1 DEF MayCall
    <2>3. /\ rec[i].kept # "no" /\ i \notin recovering' /\ (Kind(i) \in {"restore", "delete"} => Alone(i))
          /\ (Kind(i) = "delete" => i \notin login') /\ (Kind(i) = "create" => i \in Hosted /\ Alone(i))
          /\ (Kind(i) = "adopt" => i \in Foreign)
      BY ByKind DEF Touches
    <2>4. QED
      BY <1>2, <1>3, <2>2, <2>3 DEF Lined, MayCall
  <1>6. UnderWay(i)'
    BY <1>2, <1>3 DEF UnderWay, MayCall, Has
  <1>7. Truthful(i)'
    BY <1>2 DEF Truthful, MayCall
  <1>8. Sound(i)'
    BY <1>2, <1>5, <1>6, <1>7 DEF Sound
  <1>9. ASSUME NEW j \in Inst \ {i} PROVE Sound(j)'
    <2>1. pc'[j] = pc[j] /\ landed'[j] = landed[j] /\ line'[j] = line[j] /\ ops'[j] = ops[j]
      BY <1>1, <1>2 DEF Types
    <2>2. Sound(j)
      BY DEF Holds
    <2>3. QED
      BY <2>1, <2>2, Untouched DEF Touches
  <1>10. QED
    BY <1>3, <1>8, <1>9 DEF Holds

\* An operation that ends keeps the invariant, if the record tells the truth afterwards.
LEMMA Finished ==
  ASSUME Holds, NEW i \in Inst, Works(i), NEW state \in {"succeeded", "failed"}, End(i, state), Touches(i),
         rec'[i].kept # "no", rec'[i].intended = "deleted" => Alone(i),
         Active(i) => Active(i)' \/ Kind(i) = "remove",
         Recorded(i)', Truthful(i)'
  PROVE  Holds'
  <1>1. Types /\ InTurn(i) /\ Lined(i)
    BY DEF Holds, Sound
  <1>2. /\ ops' \in [Inst -> Seq(Operations)] /\ line' \in [Inst -> Seq(Nat)]
        /\ pc' = [pc EXCEPT ![i] = "idle"] /\ landed' = [landed EXCEPT ![i] = FALSE]
        /\ InTurn(i)' /\ Len(ops'[i]) = Len(ops[i]) /\ Before(i)' = Before(i) + 1
        /\ \A n \in 1..Len(ops[i]) : ops'[i][n].kind = ops[i][n].kind
        /\ (Works(i)' <=> ~Alone(i)) /\ (Works(i)' => Kind(i)' \in {"start", "stop", "secrets"})
        /\ \A j \in Inst \ {i} : ops'[j] = ops[j] /\ line'[j] = line[j]
    BY <1>1, Ending
  <1>3. Types' /\ pc'[i] = "idle" /\ ~landed'[i]
    BY <1>1, <1>2 DEF Types, Touches
  <1>4. \A n \in Left(i)' : n \in Left(i) /\ n \in 1..Len(ops[i]) /\ n > Before(i) + 1
    <2>1. Before(i) \in Nat /\ Len(ops[i]) \in Nat
      BY <1>1, HeadIs
    <2>2. QED
      BY <1>2, <2>1 DEF Left
  <1>5. Lined(i)'
    <2>1. /\ \A n \in Left(i) : ops[i][n].kind \in {"stop", "recreate", "update", "remove"} => Active(i)
          /\ \A n, m \in Left(i) : ~(ops[i][n].kind = "remove" /\ ops[i][m].kind = "stop")
      BY <1>1 DEF Lined
    <2>2. \A n \in 1..Len(ops[i]) : n > Before(i) + 1 => ops[i][n].kind \in {"start", "stop", "secrets"}
      BY <1>1 DEF InTurn
    <2>3. Op(i) \in Left(i) /\ Kind(i) = ops[i][Op(i)].kind
      BY <1>1, HeadIs
    <2>4. \A n \in Left(i)' : ops'[i][n].kind = ops[i][n].kind /\ ops[i][n].kind \in {"start", "stop", "secrets"}
      BY <1>2, <1>4, <2>2
    <2>5. \A n \in Left(i)' : ops[i][n].kind = "stop" => Active(i)'
      BY <1>4, <2>1, <2>3
    <2>6. /\ \A n \in Left(i)' : ops'[i][n].kind \in {"stop", "recreate", "update", "remove"} => Active(i)'
          /\ \A n, m \in Left(i)' : ~(ops'[i][n].kind = "remove" /\ ops'[i][m].kind = "stop")
      BY <2>4, <2>5
    <2>7. i \notin recovering'
      BY ByKind DEF Touches
    <2>8. QED
      BY <1>2, <2>6, <2>7 DEF Lined
  <1>6. UnderWay(i)'
    BY <1>3 DEF UnderWay, Has, Storage
  <1>7. Sound(i)'
    BY <1>2, <1>5, <1>6 DEF Sound
  <1>8. ASSUME NEW j \in Inst \ {i} PROVE Sound(j)'
    <2>1. pc'[j] = pc[j] /\ landed'[j] = landed[j] /\ line'[j] = line[j] /\ ops'[j] = ops[j]
      BY <1>1, <1>2 DEF Types
    <2>2. Sound(j)
      BY DEF Holds
    <2>3. QED
      BY <2>1, <2>2, Untouched DEF Touches
  <1>9. QED
    BY <1>3, <1>7, <1>8 DEF Holds

\* A request that opens an operation keeps the invariant, if what is opened may be in line.
LEMMA Asked ==
  ASSUME Holds, NEW i \in Inst, NEW kind \in Kinds, Opened(i, kind), Touches(i), pc' = pc, landed' = landed,
         rec'[i].kept # "no", rec'[i].intended # "deleted", i \notin recovering',
         Works(i) => /\ rec'[i] = rec[i] /\ Active(i) /\ kind \in {"start", "stop", "secrets"}
                     /\ kind = "stop" => \A n \in Left(i) : ops[i][n].kind # "remove",
         box'[i] = box[i], data'[i] = data[i],
         kind \in {"stop", "recreate", "update", "remove"} => Active(i)',
         kind \in {"restore", "delete"} => Removed(i)', kind = "delete" => i \notin login',
         kind = "create" => i \in Hosted /\ rec'[i].kept = "opened",
         kind = "adopt" => i \in Foreign /\ rec'[i].kept = "opened",
         Recorded(i)', Truthful(i)'
  PROVE  Holds'
  <1>1. Types /\ InTurn(i) /\ Lined(i) /\ UnderWay(i)
    BY DEF Holds, Sound
  <1>2. /\ ops' \in [Inst -> Seq(Operations)] /\ line' \in [Inst -> Seq(Nat)]
        /\ InTurn(i)' /\ Works(i)' /\ Len(ops'[i]) = Len(ops[i]) + 1 /\ Before(i)' = Before(i)
        /\ \A n \in 1..Len(ops[i]) : ops'[i][n] = ops[i][n]
        /\ ops'[i][Len(ops[i]) + 1].kind = kind
        /\ Alone(i)' <=> ~Works(i)
        /\ Kind(i)' = IF Works(i) THEN Kind(i) ELSE kind
        /\ \A j \in Inst \ {i} : ops'[j] = ops[j] /\ line'[j] = line[j]
    BY <1>1, Opening
  <1>3. Types'
    BY <1>1, <1>2 DEF Types, Touches
  <1>4. /\ Len(ops[i]) \in Nat /\ Before(i) \in Nat
        /\ ~Works(i) => Left(i) = {} /\ pc[i] = "idle"
    <2>1. Len(ops[i]) \in Nat /\ Before(i) \in Nat /\ Len(line[i]) \in Nat /\ Before(i) + Len(line[i]) = Len(ops[i])
          /\ (Works(i) <=> Len(line[i]) >= 1)
      BY <1>1, HeadIs
    <2>2. ~Works(i) => Left(i) = {}
      BY <2>1 DEF Left
    <2>3. ~Works(i) => pc[i] = "idle"
      BY <1>1 DEF InTurn
    <2>4. QED
      BY <2>1, <2>2, <2>3
  <1>5. \A n \in Left(i)' : (n \in Left(i) /\ ops'[i][n] = ops[i][n]) \/ n = Len(ops[i]) + 1
    <2>1. \A n \in 1..(Len(ops[i]) + 1) : n \in 1..Len(ops[i]) \/ n = Len(ops[i]) + 1
      BY <1>4
    <2>2. QED
      BY <1>2, <2>1 DEF Left
  <1>6. Lined(i)'
    <2>1. /\ \A n \in Left(i) : ops[i][n].kind \in {"stop", "recreate", "update", "remove"} => Active(i)
          /\ \A n, m \in Left(i) : ~(ops[i][n].kind = "remove" /\ ops[i][m].kind = "stop")
      BY <1>1 DEF Lined
    <2>2. Works(i) => (Active(i) <=> Active(i)')
      BY DEF Active
    <2>3. \A n \in Left(i)' : ops'[i][n].kind \in {"stop", "recreate", "update", "remove"} => Active(i)'
      BY <1>2, <1>4, <1>5, <2>1, <2>2
    <2>4. \A n, m \in Left(i)' : ~(ops'[i][n].kind = "remove" /\ ops'[i][m].kind = "stop")
      BY <1>2, <1>4, <1>5, <2>1
    <2>5. ASSUME Works(i)
          PROVE  /\ Kind(i)' = Kind(i) /\ Kind(i) \notin {"restore", "delete", "create"}
                 /\ Kind(i) = "adopt" => i \in Foreign /\ pc[i] \in {"remove", "create", "start"}
      BY <1>2, <2>5, ByKind DEF Active, Removed
    <2>6. CASE Works(i)
      BY <1>2, <2>2, <2>3, <2>4, <2>5, <2>6 DEF Lined
    <2>7. CASE ~Works(i)
      BY <1>2, <1>4, <2>3, <2>4, <2>7 DEF Lined
    <2>8. QED
      BY <2>6, <2>7
  <1>7. UnderWay(i)'
    <2>1. CASE Works(i)
      <3>1. Kind(i)' = Kind(i) /\ Active(i)' = Active(i)
        BY <1>2, <2>1 DEF Active
      <3>2. QED
        BY <1>1, <2>1, <3>1 DEF UnderWay, Has
    <2>2. CASE ~Works(i)
      BY <1>4, <2>2 DEF UnderWay, Has, Storage
    <2>3. QED
      BY <2>1, <2>2
  <1>8. Sound(i)'
    BY <1>2, <1>6, <1>7 DEF Sound
  <1>9. ASSUME NEW j \in Inst \ {i} PROVE Sound(j)'
    <2>1. Sound(j)
      BY DEF Holds
    <2>2. QED
      BY <1>2, <2>1, Untouched DEF Touches
  <1>10. QED
    BY <1>3, <1>8, <1>9 DEF Holds

\* A call that takes effect keeps the invariant, if what it did is as the record has it.
LEMMA Landed ==
  ASSUME Holds, NEW i \in Inst, Touches(i), rec' = rec, ops' = ops, line' = line, pc' = pc,
         landed' = [landed EXCEPT ![i] = TRUE], UnderWay(i)', Recorded(i)', Truthful(i)'
  PROVE  Holds'
  <1>1. Types /\ Sound(i)
    BY DEF Holds
  <1>2. Types'
    BY <1>1 DEF Types, Touches
  <1>3. InTurn(i)'
    BY <1>1 DEF Sound, InTurn, Works, Before
  <1>4. Lined(i)'
    <2>1. Works(i)' = Works(i) /\ Kind(i)' = Kind(i) /\ Left(i)' = Left(i) /\ Alone(i)' = Alone(i)
          /\ Active(i)' = Active(i) /\ Removed(i)' = Removed(i)
      BY DEF Works, Op, Kind, Before, Left, Alone, Active, Removed
    <2>2. QED
      BY <1>1, <2>1 DEF Sound, Lined, Touches
  <1>5. ASSUME NEW j \in Inst \ {i} PROVE Sound(j)'
    <2>1. landed'[j] = landed[j] /\ Sound(j)
      BY <1>1 DEF Types, Holds
    <2>2. QED
      BY <2>1, Untouched DEF Touches
  <1>6. QED
    BY <1>2, <1>3, <1>4, <1>5 DEF Holds, Sound

-----------------------------------------------------------------------------
(* What is written over a record.                                          *)

\* What each write of the registry makes of a record.
LEMMA Written ==
  ASSUME Types, NEW i \in Inst
  PROVE  /\ rec[i] \in Records /\ Same(i) = rec[i]
         /\ \A s \in IntendedState :
               /\ Intend(i, s) \in Records /\ Intend(i, s).intended = s
               /\ Intend(i, s).kept = rec[i].kept /\ Intend(i, s).owns = rec[i].owns
               /\ Intend(i, s).image = rec[i].image /\ Intend(i, s).candidate = rec[i].candidate
         /\ MarkPrepared(i) \in Records /\ MarkPrepared(i).kept = "prepared"
         /\ MarkPrepared(i).intended = rec[i].intended /\ MarkPrepared(i).owns = rec[i].owns
         /\ MarkPrepared(i).image = rec[i].image /\ MarkPrepared(i).candidate = rec[i].candidate
         /\ \A image \in AllImages \cup {NoImage} :
               /\ RecordPreparation(i, image) \in Records /\ RecordPreparation(i, image).kept = rec[i].kept
               /\ RecordPreparation(i, image).intended = rec[i].intended /\ RecordPreparation(i, image).owns = Storage
               /\ RecordPreparation(i, image).image = image
               /\ RecordPreparation(i, image).candidate = rec[i].candidate
               /\ StageCandidate(i, image) \in Records /\ StageCandidate(i, image).kept = rec[i].kept
               /\ StageCandidate(i, image).intended = rec[i].intended /\ StageCandidate(i, image).owns = rec[i].owns
               /\ StageCandidate(i, image).image = rec[i].image /\ StageCandidate(i, image).candidate = image
               /\ Selection(i, image) \in Records /\ Selection(i, image).kept = rec[i].kept
               /\ Selection(i, image).intended = rec[i].intended /\ Selection(i, image).owns = rec[i].owns
               /\ Selection(i, image).image = image /\ Selection(i, image).candidate = NoImage
         /\ \A targets \in SUBSET Storage :
               /\ Release(i, targets) \in Records /\ Release(i, targets).kept = rec[i].kept
               /\ Release(i, targets).intended = rec[i].intended /\ Release(i, targets).owns = rec[i].owns \ targets
               /\ Release(i, targets).image = rec[i].image /\ Release(i, targets).candidate = rec[i].candidate
  <1>1. rec[i] \in Records
    BY DEF Types
  <1>2. \A s \in IntendedState :
               /\ Intend(i, s) \in Records /\ Intend(i, s).intended = s
               /\ Intend(i, s).kept = rec[i].kept /\ Intend(i, s).owns = rec[i].owns
               /\ Intend(i, s).image = rec[i].image /\ Intend(i, s).candidate = rec[i].candidate
    BY <1>1 DEF Intend, Records
  <1>3. /\ MarkPrepared(i) \in Records /\ MarkPrepared(i).kept = "prepared"
        /\ MarkPrepared(i).intended = rec[i].intended /\ MarkPrepared(i).owns = rec[i].owns
        /\ MarkPrepared(i).image = rec[i].image /\ MarkPrepared(i).candidate = rec[i].candidate
    BY <1>1 DEF MarkPrepared, Records, Kept
  <1>4. \A image \in AllImages \cup {NoImage} :
               /\ RecordPreparation(i, image) \in Records /\ RecordPreparation(i, image).kept = rec[i].kept
               /\ RecordPreparation(i, image).intended = rec[i].intended /\ RecordPreparation(i, image).owns = Storage
               /\ RecordPreparation(i, image).image = image
               /\ RecordPreparation(i, image).candidate = rec[i].candidate
    BY <1>1 DEF RecordPreparation, Records
  <1>5. \A image \in AllImages \cup {NoImage} :
               /\ StageCandidate(i, image) \in Records /\ StageCandidate(i, image).kept = rec[i].kept
               /\ StageCandidate(i, image).intended = rec[i].intended /\ StageCandidate(i, image).owns = rec[i].owns
               /\ StageCandidate(i, image).image = rec[i].image /\ StageCandidate(i, image).candidate = image
    BY <1>1 DEF StageCandidate, Records
  <1>6. NoImage \in AllImages \cup {NoImage}
    OBVIOUS
  <1>7. \A image \in AllImages \cup {NoImage} :
               /\ Selection(i, image) \in Records /\ Selection(i, image).kept = rec[i].kept
               /\ Selection(i, image).intended = rec[i].intended /\ Selection(i, image).owns = rec[i].owns
               /\ Selection(i, image).image = image /\ Selection(i, image).candidate = NoImage
    BY <1>1, <1>6 DEF Selection, Records
  <1>8. \A targets \in SUBSET Storage :
               /\ Release(i, targets) \in Records /\ Release(i, targets).kept = rec[i].kept
               /\ Release(i, targets).intended = rec[i].intended /\ Release(i, targets).owns = rec[i].owns \ targets
               /\ Release(i, targets).image = rec[i].image /\ Release(i, targets).candidate = rec[i].candidate
    BY <1>1 DEF Release, Records
  <1>9. QED
    BY <1>1, <1>2, <1>3, <1>4, <1>5, <1>7, <1>8 DEF Same

\* A step that only writes the record of an instance touches no other.
LEMMA Writes ==
  ASSUME Types, NEW i \in Inst, NEW r \in Records, Write(i, r), box' = box, data' = data,
         login' = login, recovering' = recovering
  PROVE  Touches(i) /\ rec'[i] = r /\ box'[i] = box[i] /\ data'[i] = data[i]
  BY DEF Types, Write, Touches

\* Nor does a step that writes none.
LEMMA Leaves ==
  ASSUME Types, NEW i \in Inst, rec' = rec, box' = box, data' = data, login' = login, recovering' = recovering
  PROVE  Touches(i)
  BY DEF Types, Touches

\* A record stays as good where only what it intends of an active instance changes, and its images.
LEMMA StaysRecorded ==
  ASSUME Types, NEW i \in Inst, Recorded(i), rec'[i] = rec[i] \/ rec[i].kept # "no",
         rec'[i].kept = rec[i].kept, rec'[i].owns = rec[i].owns,
         \/ rec'[i].intended = rec[i].intended
         \/ Active(i) /\ rec'[i].intended \in {"stopped", "running", "removed"},
         box'[i] = box[i], data'[i] = data[i], i \in login' => i \in login, i \in recovering' => i \in recovering
  PROVE  Recorded(i)'
  <1>1. Whole(i)' = Whole(i) /\ Gone(i)' = Gone(i)
    BY DEF Whole, Gone
  <1>2. Active(i)' => Active(i)
    BY DEF Active
  <1>3. Active(i) => rec[i].kept = "prepared" /\ rec[i].intended \in {"stopped", "running"}
    BY DEF Active
  <1>4. QED
    BY <1>1, <1>2, <1>3 DEF Recorded

-----------------------------------------------------------------------------
(* Taking a container down, and what comes after.                          *)

\* The record an operation may write over that of an active instance.
Stays(i, r) == /\ r \in Records /\ r.kept = "prepared"
               /\ r.intended \in {"stopped", "running"} /\ r.owns = rec[i].owns

\* A step that takes a container down, with the record it may write meanwhile.
LEMMA GoesAway ==
  ASSUME Holds, NEW i \in Inst, Works(i), Kind(i) \in TakesDown, NEW r \in Records, IntoRemoval(i, r),
         box' = box, data' = data, login' = login, recovering' = recovering,
         IF Kind(i) = "adopt" THEN rec[i].kept = "opened" /\ i \in Foreign ELSE Active(i) /\ Stays(i, r)
  PROVE  Holds'
  <1>1. Types /\ Recorded(i)
    BY DEF Holds, Sound
  <1> DEFINE s == IF Kind(i) = "adopt" THEN MarkPrepared(i) ELSE r
  <1>2. s \in Records /\ Write(i, s) /\ Call(i, "remove") /\ Kind(i) # "secrets" /\ "remove" \in Calls
    BY <1>1, Written DEF IntoRemoval, TakesDown, Calls
  <1>3. s.kept = "prepared" /\ s.intended \in {"stopped", "running"} /\ s.owns = rec[i].owns
    BY <1>1, Written DEF Stays, Recorded
  <1> HIDE DEF s
  <1>4. Touches(i) /\ rec'[i] = s /\ box'[i] = box[i] /\ data'[i] = data[i]
    BY <1>1, <1>2, Writes
  <1>5. Active(i)'
    BY <1>3, <1>4 DEF Active
  <1>6. MayCall(i, "remove")
    BY <1>3, <1>4, <1>5, ByKind DEF MayCall, Has, TakesDown, Storage
  <1>7. Recorded(i)'
    <2>1. CASE Kind(i) = "adopt"
      <3>1. rec[i].owns = Storage /\ Whole(i) /\ box[i].state # "absent" /\ i \notin login
        BY <1>1, <2>1 DEF Recorded
      <3>2. Whole(i)'
        BY <1>4, <3>1 DEF Whole
      <3>3. QED
        BY <1>1, <1>3, <1>4, <3>1, <3>2 DEF Recorded, Storage
    <2>2. CASE Kind(i) # "adopt"
      <3>1. rec[i].kept = "prepared" /\ Active(i)
        BY <2>2 DEF Active
      <3>2. QED
        BY <1>1, <1>3, <1>4, <3>1, StaysRecorded
    <2>3. QED
      BY <2>1, <2>2
  <1>8. QED
    BY <1>2, <1>4, <1>6, <1>7, Called

\* A step of an operation whose container is gone.
LEMMA IsAway ==
  ASSUME Holds, NEW i \in Inst, Works(i), Kind(i) \in TakesDown, NEW r \in Records, AfterRemoval(i, r),
         box' = box, data' = data, login' = login, recovering' = recovering,
         Active(i), Stays(i, r), box[i].state = "absent"
  PROVE  Holds'
  <1>1. Types /\ Recorded(i)
    BY DEF Holds, Sound
  <1>2. CASE Kind(i) = "remove"
    <2>1. /\ Intend(i, "removed") \in Records /\ Write(i, Intend(i, "removed")) /\ End(i, "succeeded")
          /\ Intend(i, "removed").kept = rec[i].kept /\ Intend(i, "removed").intended = "removed"
          /\ Intend(i, "removed").owns = rec[i].owns
      BY <1>1, <1>2, Written DEF AfterRemoval, IntendedState
    <2>2. /\ Touches(i) /\ box'[i] = box[i] /\ data'[i] = data[i] /\ rec'[i].kept = rec[i].kept
          /\ rec'[i].intended = "removed" /\ rec'[i].owns = rec[i].owns /\ rec[i].kept = "prepared"
      BY <1>1, <2>1, Writes DEF Active
    <2>3. Recorded(i)'
      BY <1>1, <2>2, StaysRecorded
    <2>4. Truthful(i)'
      BY <1>1, <2>2 DEF Truthful, Recorded
    <2>5. QED
      BY <1>2, <2>1, <2>2, <2>3, <2>4, Finished
  <1>3. CASE Kind(i) # "remove"
    <2>1. Write(i, r) /\ Call(i, "create") /\ Kind(i) # "secrets" /\ "create" \in Calls
      BY <1>3 DEF AfterRemoval, CallCreate, TakesDown, Calls
    <2>2. Touches(i) /\ rec'[i] = r /\ box'[i] = box[i] /\ data'[i] = data[i]
      BY <1>1, <2>1, Writes
    <2>3. /\ Active(i)' /\ rec[i].kept = "prepared" /\ rec'[i].kept = "prepared"
          /\ rec'[i].intended \in {"stopped", "running"} /\ rec'[i].owns = rec[i].owns
      BY <2>2 DEF Active, Stays
    <2>4. rec[i].owns = Storage /\ data[i].directory # "none"
      BY <1>1, OwnsAll DEF Whole
    <2>5. MayCall(i, "create")
      BY <1>3, <2>2, <2>3, <2>4, ByKind DEF MayCall, Has, TakesDown, Storage
    <2>6. Recorded(i)'
      BY <1>1, <2>2, <2>3, StaysRecorded
    <2>7. QED
      BY <2>1, <2>2, <2>5, <2>6, Called
  <1>4. QED
    BY <1>2, <1>3

\* Whatever the container is found to be, taking it down keeps the invariant.
LEMMA TakenDown ==
  ASSUME Holds, NEW i \in Inst, Works(i), Kind(i) \in TakesDown, pc[i] \in {"idle", "build"},
         NEW r \in Records, TakeDown(i, r), box' = box, data' = data, login' = login, recovering' = recovering,
         IF Kind(i) = "adopt" THEN r = rec[i] ELSE Active(i) /\ Stays(i, r)
  PROVE  Holds'
  <1>1. Types /\ Recorded(i)
    BY DEF Holds, Sound
  <1>2. Kind(i) = "adopt" => rec[i].kept = "opened" /\ i \in Foreign /\ Alone(i)
    BY ByKind
  <1>3. CASE Runs(i)
    <2>1. Write(i, r) /\ Call(i, "probe") /\ Kind(i) # "secrets" /\ "probe" \in Calls
      BY <1>3 DEF TakeDown, StopRunning, TakesDown, Calls
    <2>2. Touches(i) /\ rec'[i] = r /\ box'[i] = box[i] /\ data'[i] = data[i]
      BY <1>1, <2>1, Writes
    <2>3. /\ r.kept = rec[i].kept /\ r.intended \in {"stopped", "running"} /\ r.owns = rec[i].owns
          /\ rec[i].kept # "no"
      BY <1>1, <1>2 DEF Recorded, Stays, Active
    <2>4. Kind(i) # "adopt" => Active(i)'
      BY <2>2 DEF Stays, Active
    <2>5. Kind(i) = "adopt" => ~Active(i)
      BY <1>2 DEF Active
    <2>6. MayCall(i, "probe")
      BY <1>2, <2>2, <2>3, <2>4, <2>5 DEF MayCall, Has, TakesDown, Storage
    <2>7. Recorded(i)'
      BY <1>1, <2>2, <2>3, StaysRecorded
    <2>8. QED
      BY <2>1, <2>2, <2>6, <2>7, Called
  <1>4. CASE ~Runs(i) /\ (box[i].state = "stopped" \/ Kind(i) = "adopt")
    <2>1. IntoRemoval(i, r)
      BY <1>4 DEF TakeDown
    <2>2. QED
      BY <1>2, <2>1, GoesAway
  <1>5. CASE ~Runs(i) /\ ~(box[i].state = "stopped" \/ Kind(i) = "adopt")
    <2>1. AfterRemoval(i, r)
      BY <1>5 DEF TakeDown
    <2>2. box[i].state = "absent"
      <3>1. box[i] \in Containers
        BY <1>1 DEF Types
      <3>2. box[i].state \in ProcessState
        BY <3>1 DEF Containers
      <3>3. QED
        BY <1>5, <3>2 DEF ProcessState, Runs
    <2>3. QED
      BY <1>5, <2>1, <2>2, IsAway
  <1>6. QED
    BY <1>3, <1>4, <1>5

\* A replaced container comes up if the instance is meant to run.
LEMMA ComesUp ==
  ASSUME Holds, NEW i \in Inst, Works(i), Kind(i) \in {"start", "recreate", "update", "adopt"}, NEW r \in Records,
         IntoRunning(i, r), box' = box, data' = data, login' = login, recovering' = recovering,
         Active(i), Stays(i, r), r.intended = rec[i].intended, box[i].state = "stopped"
  PROVE  Holds'
  <1>1. Types /\ Recorded(i) /\ Write(i, r)
    BY DEF Holds, Sound, IntoRunning
  <1>2. Touches(i) /\ rec'[i] = r /\ box'[i] = box[i] /\ data'[i] = data[i]
    BY <1>1, Writes
  <1>3. /\ Active(i)' /\ rec[i].kept = "prepared" /\ rec'[i].kept = "prepared"
        /\ rec'[i].intended \in {"stopped", "running"} /\ rec'[i].intended = rec[i].intended
        /\ rec'[i].owns = rec[i].owns
    BY <1>2 DEF Active, Stays
  <1>4. Recorded(i)'
    BY <1>1, <1>2, <1>3, StaysRecorded
  <1>5. CASE rec[i].intended = "running"
    <2>1. Call(i, "start") /\ Kind(i) # "secrets" /\ "start" \in Calls
      BY <1>5 DEF IntoRunning, Calls
    <2>2. MayCall(i, "start")
      BY <1>2, <1>3, <1>5, ByKind DEF MayCall, Has, Storage
    <2>3. QED
      BY <1>2, <1>4, <2>1, <2>2, Called
  <1>6. CASE rec[i].intended # "running"
    <2>1. End(i, "succeeded")
      BY <1>6 DEF IntoRunning
    <2>2. Truthful(i)'
      BY <1>2, <1>3 DEF Truthful
    <2>3. QED
      BY <1>2, <1>3, <1>4, <2>1, <2>2, Finished
  <1>7. QED
    BY <1>5, <1>6

\* An erasure goes on with what is left, or is over.
LEMMA ErasesOn ==
  ASSUME Holds, NEW i \in Inst, Works(i), Kind(i) = "delete", NEW owns \in SUBSET Storage, EraseNext(i, owns),
         box' = box, data' = data, login' = login, recovering' = recovering, box[i].state = "absent",
         "directory" \notin owns => data[i].directory = "none",
         "volume" \notin owns => Gone(i) /\ owns = {}
  PROVE  Holds'
  <1>1. Types /\ Recorded(i) /\ rec[i] \in Records /\ rec[i].kept = "prepared" /\ rec[i].intended = "removed"
        /\ Alone(i) /\ i \notin login /\ i \notin recovering
    BY ByKind, OwnsAll DEF Holds, Sound
  <1>2. box[i].by = "nobody"
    BY <1>1 DEF Recorded
  <1>3. CASE owns = {}
    <2> DEFINE r == [rec[i] EXCEPT !.owns = {}, !.intended = "deleted"]
    <2>1. Write(i, r) /\ End(i, "succeeded")
      BY <1>3 DEF EraseNext
    <2>2. r \in Records /\ r.owns = {} /\ r.intended = "deleted" /\ r.kept = "prepared"
      BY <1>1 DEF Records, IntendedState
    <2> HIDE DEF r
    <2>3. Touches(i) /\ rec'[i] = r /\ box'[i] = box[i] /\ data'[i] = data[i]
      BY <1>1, <2>1, <2>2, Writes
    <2>4. Gone(i)' /\ ~Active(i)' /\ i \notin login' /\ i \notin recovering' /\ data'[i].directory = "none"
      BY <1>1, <1>3, <2>2, <2>3 DEF Gone, Active
    <2>5. Recorded(i)'
      BY <1>1, <1>2, <2>2, <2>3, <2>4 DEF Recorded
    <2>6. Truthful(i)'
      BY <2>2, <2>3 DEF Truthful
    <2>7. QED
      BY <1>1, <2>1, <2>2, <2>3, <2>5, <2>6, Finished DEF Active
  <1>4. CASE owns # {}
    <2> DEFINE r == [rec[i] EXCEPT !.owns = owns]
               call == IF "directory" \in owns THEN "directory" ELSE "volume"
    <2>1. Write(i, r) /\ Call(i, call)
      BY <1>4 DEF EraseNext
    <2>2. r \in Records /\ r.owns = owns /\ r.intended = "removed" /\ r.kept = "prepared"
      BY <1>1 DEF Records
    <2> HIDE DEF r
    <2>3. Touches(i) /\ rec'[i] = r /\ box'[i] = box[i] /\ data'[i] = data[i]
      BY <1>1, <2>1, <2>2, Writes
    <2>4. ~Active(i) /\ ~Active(i)' /\ Removed(i)' /\ i \notin login'
      BY <1>1, <2>2, <2>3 DEF Active, Removed
    <2>5. call \in Storage /\ call \in Calls
      BY DEF Storage, Calls
    <2>6. MayCall(i, call)
      BY <1>2, <2>2, <2>3, <2>4, <2>5 DEF MayCall, Has, Storage
    <2>7. Gone(i)' = Gone(i)
      BY <2>3 DEF Gone
    <2>8. Recorded(i)'
      BY <1>1, <1>2, <1>4, <2>2, <2>3, <2>4, <2>7 DEF Recorded
    <2>9. QED
      BY <2>1, <2>3, <2>5, <2>6, <2>8, Called
  <1>5. QED
    BY <1>3, <1>4

-----------------------------------------------------------------------------
(* What the user asks.                                                     *)

\* An operation is unfinished where one is in line.
LEMMA OperationActive ==
  ASSUME Holds, NEW i \in Inst
  PROVE  (ActiveOperation(i) <=> Works(i)) /\ Unfinished(i) = Left(i)
  <1>1. Types /\ InTurn(i)
    BY DEF Holds, Sound
  <1>2. /\ Len(ops[i]) \in Nat /\ Len(line[i]) \in Nat /\ Before(i) \in Nat /\ DOMAIN ops[i] = 1..Len(ops[i])
        /\ Before(i) + Len(line[i]) = Len(ops[i]) /\ (Works(i) <=> Len(line[i]) >= 1)
    BY <1>1, HeadIs
  <1>3. Unfinished(i) = Left(i)
    BY <1>1, <1>2 DEF Unfinished, Left, InTurn
  <1>4. Works(i) => Len(ops[i]) \in Left(i)
    BY <1>2 DEF Left
  <1>5. ~Works(i) => Left(i) = {}
    BY <1>2 DEF Left
  <1>6. QED
    BY <1>3, <1>4, <1>5 DEF ActiveOperation

\* Every request keeps the invariant.
LEMMA Requested ==
  ASSUME Holds, NEW i \in Inst, Requests(i)
  PROVE  Holds'
  <1>1. Types /\ InTurn(i) /\ Lined(i) /\ Recorded(i) /\ Truthful(i)
    BY DEF Holds, Sound
  <1>2. (ActiveOperation(i) <=> Works(i)) /\ Unfinished(i) = Left(i)
    BY OperationActive
  \* A request that opens an operation and writes nothing.
  <1>3. ASSUME NEW kind \in Kinds, Opened(i, kind), Serving,
               rec' = rec, pc' = pc, landed' = landed, box' = box, data' = data, login' = login,
               recovering' = recovering,
               Works(i) => kind \in {"start", "stop", "secrets"},
               kind = "stop" => \A n \in Left(i) : ops[i][n].kind # "remove",
               kind \notin {"create", "adopt"}, IF kind \in {"restore", "delete"} THEN Removed(i) ELSE Active(i),
               kind = "delete" => i \notin login
        PROVE  Holds'
    <2>1. Touches(i) /\ rec'[i] = rec[i] /\ box'[i] = box[i] /\ data'[i] = data[i] /\ i \notin recovering'
      BY <1>1, <1>3, Leaves DEF Serving
    <2>2. rec[i].kept = "prepared" /\ rec[i].intended # "deleted" /\ kind # "create" /\ kind # "adopt"
      BY <1>3 DEF Active, Removed
    <2>3. Active(i)' = Active(i) /\ Removed(i)' = Removed(i)
      BY <2>1 DEF Active, Removed
    <2>4. Recorded(i)'
      BY <1>1, <1>3, <2>1, StaysRecorded
    <2>5. \/ LastOperation(i)' = LastOperation(i)
          \/ LastOperation(i)'.kind = "remove" /\ LastOperation(i)'.state = "unfinished"
      <3>1. kind # "remove" => LastOperation(i)' = LastOperation(i)
        BY <1>1, <1>3, <2>2, Opening
      <3>2. kind = "remove" => LastOperation(i)'.kind = "remove" /\ LastOperation(i)'.state = "unfinished"
        BY <1>1, <1>3, Opening
      <3>3. QED
        BY <3>1, <3>2
    <2>6. kind = "remove" => Active(i)
      BY <1>3
    <2>7. LastOperation(i)' # LastOperation(i) => rec[i].intended # "removed"
      <3>1. kind # "remove" => LastOperation(i)' = LastOperation(i)
        BY <1>1, <1>3, <2>2, Opening
      <3>2. QED
        BY <2>6, <3>1 DEF Active
    <2>8. Truthful(i)'
      BY <1>1, <2>1, <2>5, <2>7 DEF Truthful
    <2>9. Works(i) => Active(i)
      BY <1>3
    <2>10. QED
      BY <1>3, <2>1, <2>2, <2>3, <2>4, <2>8, <2>9, Asked
  <1>4. CASE Create(i)
    <2> DEFINE r == [rec[i] EXCEPT !.kept = "opened"]
    <2>1. /\ Opened(i, "create") /\ Write(i, r) /\ i \in Hosted /\ rec[i].kept = "no" /\ pc' = pc /\ landed' = landed
          /\ box' = box /\ data' = data /\ login' = login /\ recovering' = recovering /\ i \notin recovering
      BY <1>4 DEF Create, BeginCreate, Asks, Serving, docker
    <2>2. rec[i] = NoRecord /\ rec[i] \in Records
      BY <1>1, <2>1 DEF Recorded, Types
    <2>3. r \in Records /\ r.kept = "opened" /\ r.intended = "stopped" /\ r.owns = {}
      BY <2>2 DEF Records, NoRecord, Kept
    <2> HIDE DEF r
    <2>4. Touches(i) /\ rec'[i] = r /\ box'[i] = box[i] /\ data'[i] = data[i]
      BY <1>1, <2>1, <2>3, Writes
    <2>5. ~Works(i)
      BY <2>1, ByKind
    <2>6. box[i].state = "absent" /\ i \notin Foreign /\ i \notin login
      BY <1>1, <2>1, PartsAssumption DEF Recorded
    <2>7. LastOperation(i)' = LastOperation(i)
      BY <1>1, <2>1, <2>5, Opening DEF Kinds
    <2>8. Truthful(i)'
      BY <1>1, <2>2, <2>3, <2>4, <2>7 DEF Truthful, NoRecord
    <2>9. Recorded(i)'
      <3>1. ~Active(i)' /\ i \notin login' /\ i \notin recovering'
        BY <2>1, <2>3, <2>4, <2>6 DEF Active
      <3>2. box[i].by = "nobody"
        BY <1>1, <2>6 DEF Recorded
      <3>3. QED
        BY <2>3, <2>4, <2>6, <3>1, <3>2 DEF Recorded
    <2>10. i \notin recovering' /\ "create" \in Kinds
      BY <2>1 DEF Kinds
    <2>11. QED
      BY <2>1, <2>3, <2>4, <2>5, <2>8, <2>9, <2>10, Asked
  <1>5. CASE Adopt(i)
    <2> DEFINE r == [rec[i] EXCEPT !.kept = "opened", !.owns = Storage, !.image = box[i].image,
                                   !.intended = IF box[i].state = "running" THEN "running" ELSE "stopped"]
    <2>1. /\ Opened(i, "adopt") /\ Write(i, r) /\ i \in Foreign /\ rec[i].kept # "prepared" /\ pc' = pc
          /\ landed' = landed /\ box' = box /\ data' = data /\ login' = login /\ recovering' = recovering
          /\ i \notin recovering /\ ~Works(i)
      BY <1>2, <1>5 DEF Adopt, BeginAdoption, Asks, Serving, docker
    <2>2. rec[i] \in Records /\ box[i].image \in AllImages \cup {NoImage}
      <3>1. rec[i] \in Records /\ box[i] \in Containers
        BY <1>1 DEF Types
      <3>2. QED
        BY <3>1 DEF Containers
    <2>3. r \in Records /\ r.kept = "opened" /\ r.intended \in {"stopped", "running"} /\ r.owns = Storage
      BY <2>2 DEF Records, Kept, IntendedState
    <2> HIDE DEF r
    <2>4. Touches(i) /\ rec'[i] = r /\ box'[i] = box[i] /\ data'[i] = data[i]
      BY <1>1, <2>1, <2>3, Writes
    <2>5. LastOperation(i)'.kind = "adopt" /\ LastOperation(i)'.state = "unfinished" /\ "adopt" \in Kinds
      BY <1>1, <2>1, Opening DEF Kinds
    <2>6. Truthful(i)'
      BY <2>3, <2>4, <2>5 DEF Truthful
    <2>7. Recorded(i)'
      <3>1. ~Active(i)' /\ i \notin login' /\ i \notin recovering' /\ i \notin Hosted
        BY <1>1, <2>1, <2>3, <2>4, PartsAssumption DEF Active, Recorded
      <3>2. box[i].state # "absent" /\ box[i].image = Brought /\ Whole(i) /\ Whole(i)'
        BY <1>1, <2>1, <2>4 DEF Recorded, Whole
      <3>3. QED
        BY <2>3, <2>4, <3>1, <3>2 DEF Recorded
    <2>8. QED
      BY <2>1, <2>3, <2>4, <2>5, <2>6, <2>7, Asked
  <1>6. CASE SignIn(i)
    <2>1. /\ login' = login \cup {i} /\ Active(i) /\ rec' = rec /\ ops' = ops /\ line' = line /\ pc' = pc
          /\ landed' = landed /\ recovering' = recovering /\ box' = box /\ data' = data
      BY <1>6 DEF SignIn, BeginLogin, registry, tasks, docker
    <2>2. Types'
      BY <1>1, <2>1 DEF Types
    <2>3. ASSUME NEW j \in Inst \ {i} PROVE Sound(j)'
      <3>1. Sound(j)
        BY DEF Holds
      <3>2. QED
        BY <2>1, <3>1, Untouched
    <2>4. Works(i)' = Works(i) /\ Op(i)' = Op(i) /\ Kind(i)' = Kind(i) /\ Before(i)' = Before(i)
          /\ Left(i)' = Left(i) /\ Alone(i)' = Alone(i) /\ Active(i)' = Active(i) /\ Removed(i)' = Removed(i)
          /\ Whole(i)' = Whole(i) /\ Gone(i)' = Gone(i) /\ LastOperation(i)' = LastOperation(i)
      BY <2>1, LatestIs DEF Works, Op, Kind, Before, Left, Alone, Active, Removed, Whole, Gone
    <2>5. InTurn(i)' /\ UnderWay(i)' /\ Truthful(i)'
      <3>1. InTurn(i)'
        BY <1>1, <2>1, <2>4 DEF InTurn
      <3>2. UnderWay(i)'
        BY <2>1, <2>4 DEF Holds, Sound, UnderWay, Has
      <3>3. Truthful(i)'
        BY <1>1, <2>1, <2>4 DEF Truthful
      <3>4. QED
        BY <3>1, <3>2, <3>3
    <2>6. Works(i) => Kind(i) # "delete"
      BY <2>1, ByKind DEF Active, Removed
    <2>7. Lined(i)'
      BY <1>1, <2>1, <2>4, <2>6 DEF Lined
    <2>8. Recorded(i)'
      <3>1. rec[i].kept = "prepared" /\ rec[i].intended # "deleted" /\ Whole(i)
        BY <1>1, <2>1 DEF Recorded, Active
      <3>2. QED
        BY <1>1, <2>1, <2>4, <3>1 DEF Recorded
    <2>9. QED
      BY <2>2, <2>3, <2>5, <2>7, <2>8 DEF Holds, Sound
  <1>7. ASSUME NEW force \in BOOLEAN, Stop(i, force) PROVE Holds'
    <2> DEFINE joins == {n \in Unfinished(i) : ops[i][n].kind \in {"stop", "remove"}}
               drains == force /\ pc[i] = "drain"
    <2>1. /\ rec' = rec /\ pc' = pc /\ landed' = landed /\ box' = box /\ data' = data /\ login' = login
          /\ recovering' = recovering /\ Serving
      BY <1>7 DEF Stop, Asks, docker
    <2>2. CASE drains \/ joins # {}
      <3>1. ops' = ops /\ line' = line
        BY <1>7, <2>2 DEF Stop
      <3>2. ASSUME NEW j \in Inst PROVE Sound(j)'
        <4>1. Sound(j)
          BY DEF Holds
        <4>2. QED
          BY <2>1, <3>1, <4>1, Untouched
      <3>3. QED
        BY <1>1, <2>1, <3>1, <3>2 DEF Holds, Types
    <2>3. CASE ~(drains \/ joins # {})
      <3>1. Opened(i, "stop") /\ Active(i) /\ "stop" \in Kinds
        BY <1>7, <2>3 DEF Stop, Kinds
      <3>2. \A n \in Left(i) : ops[i][n].kind # "remove"
        BY <1>2, <2>3
      <3>3. QED
        BY <1>3, <2>1, <3>1, <3>2
    <2>4. QED
      BY <2>2, <2>3
  <1>8. ASSUME NEW kind \in {"recreate", "update", "remove", "restore", "delete", "secrets"}, Ask(i, kind),
               IF kind \in {"restore", "delete"} THEN Removed(i) ELSE Active(i),
               kind # "secrets" => ~ActiveOperation(i), kind = "delete" => i \notin login
        PROVE  Holds'
    <2>1. /\ rec' = rec /\ pc' = pc /\ landed' = landed /\ box' = box /\ data' = data /\ login' = login
          /\ recovering' = recovering /\ Serving /\ Opened(i, kind)
      BY <1>8 DEF Ask, Asks, docker
    <2>2. kind \in Kinds
      BY DEF Kinds
    <2>3. QED
      BY <1>2, <1>3, <1>8, <2>1, <2>2
  <1>9. CASE Start(i)
    <2>1. /\ rec' = rec /\ pc' = pc /\ landed' = landed /\ box' = box /\ data' = data /\ login' = login
          /\ recovering' = recovering /\ Serving /\ Opened(i, "start") /\ Active(i) /\ "start" \in Kinds
      BY <1>9 DEF Start, BeginOperation, Asks, docker, Kinds
    <2>2. QED
      BY <1>3, <2>1
  <1>10. CASE Recreate(i)
    BY <1>8, <1>10 DEF Recreate
  <1>11. CASE Update(i)
    BY <1>8, <1>11 DEF Update
  <1>12. CASE SetSecrets(i)
    BY <1>8, <1>12 DEF SetSecrets
  <1>13. CASE Remove(i)
    BY <1>8, <1>13 DEF Remove
  <1>14. CASE Restore(i)
    BY <1>8, <1>14 DEF Restore
  <1>15. CASE Delete(i)
    BY <1>8, <1>15 DEF Delete, NotSigningIn, SigningIn
  <1>16. QED
    BY <1>4, <1>5, <1>6, <1>7, <1>9, <1>10, <1>11, <1>12, <1>13, <1>14, <1>15 DEF Requests

-----------------------------------------------------------------------------
(* An operation takes the lock.                                            *)

\* A call that writes nothing, and an end that does not.
LEMMA Goes ==
  ASSUME Holds, NEW i \in Inst, Works(i), Kind(i) # "secrets", NEW call \in Calls, Call(i, call), rec' = rec,
         box' = box, data' = data, login' = login, recovering' = recovering, MayCall(i, call)
  PROVE  Holds'
  <1>1. Types /\ Recorded(i)
    BY DEF Holds, Sound
  <1>2. Touches(i)
    BY <1>1, Leaves
  <1>3. Recorded(i)'
    BY <1>1, StaysRecorded
  <1>4. QED
    BY <1>2, <1>3, Called

\* An operation that ends without a write keeps the invariant.
LEMMA Ends ==
  ASSUME Holds, NEW i \in Inst, Works(i), NEW state \in {"succeeded", "failed"}, End(i, state), rec' = rec,
         box' = box, data' = data, login' = login, recovering' = recovering, Truthful(i)'
  PROVE  Holds'
  <1>1. Types /\ Recorded(i)
    BY DEF Holds, Sound
  <1>2. Touches(i)
    BY <1>1, Leaves
  <1>3. Recorded(i)'
    BY <1>1, StaysRecorded
  <1>4. Active(i)' = Active(i) /\ rec'[i].kept # "no" /\ rec'[i].intended # "deleted"
    BY ByKind DEF Active
  <1>5. QED
    BY <1>2, <1>3, <1>4, Finished

\* What is refused has changed nothing.
LEMMA Refusing ==
  ASSUME Holds, NEW i \in Inst, Works(i), pc[i] = "idle", Kind(i) # "adopt", Kind(i) = "remove" => rec[i].intended # "removed",
         Refuse(i), box' = box, data' = data, login' = login, recovering' = recovering
  PROVE  Holds'
  <1>1. Types /\ InTurn(i) /\ Truthful(i)
    BY DEF Holds, Sound
  <1>2. End(i, "failed") /\ rec' = rec
    BY DEF Refuse
  <1>3. /\ Kind(i) # "remove" => LastOperation(i)' = LastOperation(i)
        /\ Kind(i) = "remove" => LastOperation(i)'.state = "failed"
    <2>1. IF Kind(i) # "secrets" /\ (Kind(i) \in {"remove", "adopt"} \/ pc[i] # "idle")
          THEN LastOperation(i)'.kind = Kind(i) /\ LastOperation(i)'.state = "failed"
          ELSE LastOperation(i)' = LastOperation(i)
      BY <1>1, <1>2, Ending
    <2>2. QED
      BY <2>1
  <1>4. Truthful(i)'
    BY <1>1, <1>2, <1>3 DEF Truthful
  <1>5. QED
    BY <1>2, <1>4, Ends

\* An operation that takes the lock keeps the invariant.
LEMMA Begun ==
  ASSUME Holds, NEW i \in Inst, Begins(i)
  PROVE  Holds'
  <1>1. Types /\ InTurn(i) /\ Recorded(i) /\ Truthful(i)
    BY DEF Holds, Sound
  <1>2. Works(i) /\ pc[i] = "idle"
    BY DEF Begins, BeginBuild, BeginStart, BeginStop, BeginRecreate, BeginAdopt, BeginRemove, BeginRestore, BeginDelete,
           ReplaceSecrets, Takes
  <1>3. CASE BeginBuild(i)
    <2>1. /\ Kind(i) \in {"create", "update"} /\ Kind(i) # "secrets" /\ Call(i, "build") /\ "build" \in Calls
          /\ rec' = rec /\ box' = box /\ data' = data /\ login' = login /\ recovering' = recovering
      BY <1>3 DEF BeginBuild, Takes, World, docker, Calls
    <2>2. rec[i].intended # "removed" /\ Active(i)' = Active(i)
      BY <1>1, <1>2, <2>1, ByKind DEF Active, Recorded
    <2>3. MayCall(i, "build")
      BY <1>2, <2>1, <2>2, ByKind DEF MayCall, Has, Storage
    <2>4. QED
      BY <1>2, <2>1, <2>3, Goes
  <1>4. CASE BeginStart(i)
    <2>1. /\ Kind(i) \in {"start", "resume"} /\ box' = box /\ data' = data /\ login' = login /\ recovering' = recovering
      BY <1>4 DEF BeginStart, Takes, World, docker
    <2>2. CASE ~Active(i)
      <3>1. Refuse(i)
        BY <1>4, <2>2 DEF BeginStart
      <3>2. QED
        BY <1>2, <2>1, <3>1, Refusing
    <2>3. CASE Active(i)
      <3> DEFINE r == Intend(i, "running")
      <3>1. /\ Stays(i, r) /\ r \in Records /\ r.intended = "running" /\ r.kept = "prepared" /\ rec[i].kept = "prepared"
        BY <1>1, <2>3, Written DEF Stays, IntendedState, Active
      <3> HIDE DEF r
      <3>2. CASE Kind(i) = "start" /\ box[i].state = "stopped" /\ ~box[i].fresh
        <4>1. TakeDown(i, r)
          BY <1>4, <2>3, <3>2 DEF BeginStart, r
        <4>2. Kind(i) \in TakesDown
          BY <3>2 DEF TakesDown
        <4>3. QED
          BY <1>2, <2>1, <2>3, <3>1, <3>2, <4>1, <4>2, TakenDown
      <3>3. CASE ~(Kind(i) = "start" /\ box[i].state = "stopped" /\ ~box[i].fresh)
        <4>1. Write(i, r) /\ Call(i, "start") /\ Kind(i) # "secrets" /\ "start" \in Calls
          BY <1>4, <2>1, <2>3, <3>3 DEF BeginStart, Calls, r
        <4>2. Touches(i) /\ rec'[i] = r /\ box'[i] = box[i] /\ data'[i] = data[i]
          BY <1>1, <2>1, <3>1, <4>1, Writes
        <4>3. Active(i)'
          BY <3>1, <4>2 DEF Active
        <4>4. Recorded(i)'
          BY <1>1, <2>1, <2>3, <3>1, <4>2, StaysRecorded DEF Stays
        <4>5. MayCall(i, "start")
          BY <2>1, <3>1, <4>2, <4>3 DEF MayCall, Has, Storage
        <4>6. QED
          BY <1>2, <4>1, <4>2, <4>4, <4>5, Called
      <3>4. QED
        BY <3>2, <3>3
    <2>4. QED
      BY <2>2, <2>3
  <1>5. CASE BeginStop(i)
    <2> DEFINE r == Intend(i, "stopped")
    <2>1. /\ Kind(i) = "stop" /\ Write(i, r) /\ box' = box /\ data' = data /\ login' = login
          /\ recovering' = recovering /\ (IF Runs(i) THEN Call(i, "probe") ELSE End(i, "succeeded"))
      BY <1>5 DEF BeginStop, Takes, World, docker, StopRunning
    <2>2. Active(i)
      BY <1>2, <2>1, ByKind
    <2>3. /\ r \in Records /\ r.intended = "stopped" /\ r.kept = "prepared" /\ rec[i].kept = "prepared" /\ r.owns = rec[i].owns
      BY <1>1, <2>2, Written DEF IntendedState, Active
    <2> HIDE DEF r
    <2>4. Touches(i) /\ rec'[i] = r /\ box'[i] = box[i] /\ data'[i] = data[i] /\ Active(i)'
      BY <1>1, <2>1, <2>3, Writes DEF Active
    <2>5. Recorded(i)'
      BY <1>1, <2>1, <2>2, <2>3, <2>4, StaysRecorded
    <2>6. CASE Runs(i)
      <3>1. MayCall(i, "probe") /\ "probe" \in Calls
        BY <2>1, <2>3, <2>4 DEF MayCall, Has, Storage, TakesDown, Calls
      <3>2. QED
        BY <1>2, <2>1, <2>4, <2>5, <2>6, <3>1, Called
    <2>7. CASE ~Runs(i)
      <3>1. Truthful(i)'
        BY <2>3, <2>4, <2>7 DEF Truthful, Runs
      <3>2. QED
        BY <1>2, <2>1, <2>3, <2>4, <2>5, <2>7, <3>1, Finished
    <2>8. QED
      BY <2>6, <2>7
  <1>6. CASE BeginRecreate(i) \/ BeginAdopt(i)
    <2>1. /\ Kind(i) \in {"recreate", "adopt"} /\ Kind(i) \in TakesDown /\ TakeDown(i, Same(i))
          /\ box' = box /\ data' = data /\ login' = login /\ recovering' = recovering
      BY <1>6 DEF BeginRecreate, BeginAdopt, Takes, World, docker, TakesDown
    <2>2. Kind(i) = "recreate" => Active(i)
      BY <1>2, ByKind
    <2>3. rec[i] \in Records /\ Same(i) = rec[i] /\ (Active(i) => Stays(i, Same(i)))
      BY <1>1, OwnsAll DEF Same, Stays
    <2>4. QED
      BY <1>2, <2>1, <2>2, <2>3, TakenDown
  <1>7. CASE BeginRemove(i)
    <2>1. /\ Kind(i) = "remove" /\ Kind(i) \in TakesDown /\ box' = box /\ data' = data /\ login' = login
          /\ recovering' = recovering
      BY <1>7 DEF BeginRemove, Takes, World, docker, TakesDown
    <2>2. Active(i)
      BY <1>2, <2>1, ByKind
    <2>3. CASE Refuse(i)
      BY <1>2, <2>1, <2>2, <2>3, Refusing DEF Active
    <2>4. CASE TakeDown(i, Intend(i, "stopped"))
      <3>1. Intend(i, "stopped") \in Records /\ Stays(i, Intend(i, "stopped"))
        BY <1>1, <2>2, Written DEF Stays, IntendedState, Active
      <3>2. QED
        BY <1>2, <2>1, <2>2, <2>4, <3>1, TakenDown
    <2>5. QED
      BY <1>7, <2>3, <2>4 DEF BeginRemove
  <1>8. CASE BeginRestore(i)
    <2>1. /\ Kind(i) = "restore" /\ box' = box /\ data' = data /\ login' = login /\ recovering' = recovering
      BY <1>8 DEF BeginRestore, Takes, World, docker
    <2>2. Removed(i)
      BY <1>2, <2>1, ByKind
    <2>3. CASE Refuse(i)
      BY <1>2, <2>1, <2>3, Refusing
    <2>4. CASE ~Refuse(i)
      <3>1. /\ data[i].directory # "none" /\ ("volume" \in rec[i].owns => data[i].volume) /\ box[i].state = "absent"
            /\ Call(i, "create") /\ rec' = rec /\ "create" \in Calls
        BY <1>8, <2>4 DEF BeginRestore, CallCreate, HasVolume, Calls
      <3>2. rec[i].owns = Storage
        <4>1. "directory" \in rec[i].owns /\ "volume" \in rec[i].owns
          BY <1>1, <2>2, <3>1 DEF Recorded, Removed, Gone
        <4>2. rec[i].owns \in SUBSET Storage
          BY <1>1, OwnsAll DEF Records
        <4>3. QED
          BY <4>1, <4>2 DEF Storage
      <3>3. Removed(i)' /\ ~Active(i)
        BY <2>2, <3>1 DEF Removed, Active
      <3>4. MayCall(i, "create")
        BY <1>1, <2>1, <2>2, <3>1, <3>2, <3>3 DEF MayCall, Has, Storage, Removed
      <3>5. QED
        BY <1>2, <2>1, <3>1, <3>4, Goes
    <2>5. QED
      BY <2>3, <2>4
  <1>9. CASE BeginDelete(i)
    <2>1. /\ Kind(i) = "delete" /\ box' = box /\ data' = data /\ login' = login /\ recovering' = recovering
      BY <1>9 DEF BeginDelete, Takes, World, docker
    <2>2. CASE Refuse(i)
      BY <1>2, <2>1, <2>2, Refusing
    <2>3. CASE Removed(i) /\ box[i].state = "absent" /\ EraseNext(i, rec[i].owns)
      <3>1. rec[i].owns \in SUBSET Storage
        BY <1>1, OwnsAll DEF Records
      <3>2. /\ "directory" \notin rec[i].owns => data[i].directory = "none"
            /\ "volume" \notin rec[i].owns => Gone(i) /\ rec[i].owns = {}
        BY <1>1, <2>3 DEF Recorded, Removed
      <3>3. QED
        BY <1>2, <2>1, <2>3, <3>1, <3>2, ErasesOn
    <2>4. QED
      BY <1>9, <2>2, <2>3 DEF BeginDelete, DeletionTargets
  <1>10. CASE ReplaceSecrets(i)
    <2>1. /\ Kind(i) = "secrets" /\ rec' = rec /\ data' = data /\ login' = login /\ recovering' = recovering
      BY <1>10 DEF ReplaceSecrets, Takes
    <2>2. PICK state \in {"succeeded", "failed"} : End(i, state)
      BY <1>10 DEF ReplaceSecrets
    <2>3. /\ box' \in [Inst -> Containers] /\ box'[i].state = box[i].state /\ box'[i].by = box[i].by
          /\ box'[i].image = box[i].image /\ \A j \in Inst \ {i} : box'[j] = box[j]
      <3>1. CASE box' = box
        BY <1>1, <3>1 DEF Types
      <3>2. CASE box' = [box EXCEPT ![i].fresh = (@ /\ box[i].by # "hub")]
        <4> DEFINE c == [box[i] EXCEPT !.fresh = (box[i].fresh /\ box[i].by # "hub")]
        <4>1. box[i] \in Containers
          BY <1>1 DEF Types
        <4>2. c \in Containers /\ c.state = box[i].state /\ c.by = box[i].by /\ c.image = box[i].image
          BY <4>1 DEF Containers
        <4>3. box' = [box EXCEPT ![i] = c]
          BY <3>2
        <4> HIDE DEF c
        <4>4. QED
          BY <1>1, <4>2, <4>3 DEF Types
      <3>3. QED
        BY <1>10, <3>1, <3>2 DEF ReplaceSecrets
    <2>4. Touches(i)
      BY <1>1, <2>1, <2>3 DEF Touches, Types
    <2>5. LastOperation(i)' = LastOperation(i)
      BY <1>1, <1>2, <2>1, <2>2, Ending
    <2>6. Truthful(i)'
      BY <1>1, <2>1, <2>3, <2>5 DEF Truthful
    <2>7. Whole(i)' = Whole(i) /\ Gone(i)' = Gone(i) /\ Active(i)' = Active(i)
      BY <2>1 DEF Whole, Gone, Active
    <2>8. Recorded(i)'
      BY <1>1, <2>1, <2>3, <2>7 DEF Recorded
    <2>9. rec'[i].kept # "no" /\ rec'[i].intended # "deleted"
      BY <1>2, <2>1, ByKind
    <2>10. QED
      BY <1>2, <2>2, <2>4, <2>6, <2>7, <2>8, <2>9, Finished
  <1>11. QED
    BY <1>3, <1>4, <1>5, <1>6, <1>7, <1>8, <1>9, <1>10 DEF Begins

-----------------------------------------------------------------------------
(* The calls and their answers.                                            *)

\* A call that takes effect keeps the invariant.
LEMMA LandedCall ==
  ASSUME Holds, NEW i \in Inst,
         \/ \E image \in Images : ImageBuilt(i, image)
         \/ Halt(i) \/ RemoveContainer(i) \/ CreateContainer(i) \/ StartContainer(i) \/ EraseDirectory(i) \/ EraseVolume(i)
  PROVE  Holds'
  <1>1. Types /\ InTurn(i) /\ UnderWay(i) /\ Recorded(i) /\ Truthful(i) /\ box[i] \in Containers /\ data[i] \in Places
    BY DEF Holds, Sound, Types
  <1>2. PICK call \in Calls : Lands(i, call)
    BY DEF ImageBuilt, Halt, RemoveContainer, CreateContainer, StartContainer, EraseDirectory, EraseVolume, Calls
  <1>3. /\ Works(i) /\ pc[i] = call /\ landed' = [landed EXCEPT ![i] = TRUE] /\ landed'[i] /\ rec' = rec
        /\ ops' = ops /\ line' = line /\ pc' = pc /\ login' = login /\ recovering' = recovering /\ pc[i] # "idle"
    BY <1>1, <1>2 DEF Lands, In, Types, Calls
  <1>4. Works(i)' = Works(i) /\ Kind(i)' = Kind(i) /\ Active(i)' = Active(i) /\ LastOperation(i)' = LastOperation(i)
    BY <1>3, LatestIs DEF Works, Kind, Op, Active
  \* The container comes out as it should.
  <1>5. ASSUME NEW b \in Containers, box' = [box EXCEPT ![i] = b], NEW d \in Places, data' = [data EXCEPT ![i] = d]
        PROVE  Touches(i) /\ box'[i] = b /\ data'[i] = d
    BY <1>1, <1>3, <1>5 DEF Touches, Types
  <1>6. data = [data EXCEPT ![i] = data[i]] /\ box = [box EXCEPT ![i] = box[i]]
    BY <1>1 DEF Types
  <1>7. Active(i) => /\ rec[i].owns = Storage /\ Whole(i) /\ rec[i].kept = "prepared"
                     /\ rec[i].intended \in {"stopped", "running"}
    BY <1>1, OwnsAll
  <1>8. ASSUME NEW image \in Images, ImageBuilt(i, image) PROVE Holds'
    <2>1. call = "build" /\ box' = box /\ data' = data
      BY <1>3, <1>8 DEF ImageBuilt, Lands, In
    <2>2. Touches(i)
      BY <1>1, <1>3, <2>1, Leaves
    <2>3. UnderWay(i)' /\ Truthful(i)'
      BY <1>1, <1>3, <1>4, <2>1 DEF UnderWay, Has, Storage, Truthful
    <2>4. Recorded(i)'
      BY <1>1, <1>3, <2>1, StaysRecorded
    <2>5. QED
      BY <1>3, <2>2, <2>3, <2>4, Landed
  <1>9. CASE Halt(i)
    <2> DEFINE b == [box[i] EXCEPT !.state = IF @ = "running" THEN "stopped" ELSE @]
    <2>1. call = "halt" /\ box' = [box EXCEPT ![i] = b] /\ data' = data
      BY <1>3, <1>9 DEF Halt, Lands, In
    <2>2. /\ b \in Containers /\ b.state # "running" /\ (b.state = "absent" <=> box[i].state = "absent")
          /\ b.by = box[i].by /\ b.image = box[i].image
      BY <1>1 DEF Containers, ProcessState
    <2> HIDE DEF b
    <2>3. Touches(i) /\ box'[i] = b /\ data'[i] = data[i]
      BY <1>1, <1>5, <1>6, <2>1, <2>2
    <2>4. UnderWay(i)' /\ Truthful(i)'
      BY <1>1, <1>3, <1>4, <2>1, <2>2, <2>3 DEF UnderWay, Has, Storage, Truthful
    <2>5. Recorded(i)'
      BY <1>1, <1>3, <1>4, <2>2, <2>3 DEF Recorded, Whole, Gone
    <2>6. QED
      BY <1>3, <2>3, <2>4, <2>5, Landed
  <1>10. CASE RemoveContainer(i)
    <2>1. call = "remove" /\ box' = [box EXCEPT ![i] = NoBox] /\ data' = data
      BY <1>3, <1>10 DEF RemoveContainer, Lands, In
    <2>2. NoBox \in Containers /\ NoBox.state = "absent" /\ NoBox.by = "nobody"
      BY DEF NoBox, Containers, ProcessState, ContainerOwner
    <2>3. Touches(i) /\ box'[i] = NoBox /\ data'[i] = data[i]
      BY <1>1, <1>5, <1>6, <2>1, <2>2
    <2>4. Active(i)
      BY <1>3, <2>1, ByKind DEF Has, TakesDown
    <2>5. UnderWay(i)' /\ Truthful(i)'
      BY <1>1, <1>3, <1>4, <2>1, <2>2, <2>3 DEF UnderWay, Has, Storage, Truthful
    <2>6. Recorded(i)'
      BY <1>1, <1>3, <1>4, <1>7, <2>2, <2>3, <2>4 DEF Recorded, Whole, Gone
    <2>7. QED
      BY <1>3, <2>3, <2>5, <2>6, Landed
  <1>11. CASE CreateContainer(i)
    <2> DEFINE b == [state |-> "stopped", image |-> ImageFor(i), by |-> "hub", fresh |-> TRUE]
               d == [data[i] EXCEPT !.volume = (data[i].volume \/ "volume" \in rec[i].owns)]
    <2>1. call = "create" /\ box' = [box EXCEPT ![i] = b] /\ data' = [data EXCEPT ![i] = d]
      BY <1>3, <1>11 DEF CreateContainer, Lands, In
    <2>2. ImageFor(i) \in AllImages \cup {NoImage}
      <3>1. rec[i] \in Records
        BY <1>1 DEF Types
      <3>2. QED
        BY <3>1 DEF ImageFor, Records
    <2>3. b \in Containers /\ b.state = "stopped" /\ b.by = "hub"
      BY <2>2 DEF Containers, ProcessState, ContainerOwner
    <2>4. rec[i].owns = Storage /\ data[i].directory # "none"
      BY <1>1, <1>3, <2>1 DEF UnderWay
    <2>5. d \in Places /\ d.directory = data[i].directory /\ d.volume
      BY <1>1, <2>4 DEF Places, Storage
    <2> HIDE DEF b, d
    <2>6. Touches(i) /\ box'[i] = b /\ data'[i] = d
      BY <1>5, <2>1, <2>3, <2>5
    <2>7. Whole(i)' /\ ~Gone(i)'
      BY <2>4, <2>5, <2>6 DEF Whole, Gone
    <2>8. UnderWay(i)'
      BY <1>1, <1>3, <1>4, <2>1, <2>3, <2>4, <2>5, <2>6 DEF UnderWay, Has, Storage
    <2>9. Truthful(i)'
      <3>1. rec[i].intended = "removed" => Kind(i) = "restore"
        BY <1>1, <1>3, <2>1, ByKind DEF Has, Active, Recorded
      <3>2. ops[i][Op(i)].begun
        BY <1>1, <1>3, HeadIs
      <3>3. Kind(i) = "restore" => LastOperation(i).kind = "restore" /\ LastOperation(i).state = "unfinished"
        BY <1>1, <1>3, <3>2, InCall
      <3>4. QED
        BY <1>3, <1>4, <2>3, <2>6, <3>1, <3>3 DEF Truthful
    <2>10. rec[i].kept # "prepared" => i \in Hosted
      BY <1>3, <2>1, ByKind DEF Has, Active, Removed
    <2>11. Recorded(i)'
      <3>1. rec[i].kept # "no" /\ rec[i].intended # "deleted"
        BY <1>3, ByKind
      <3>2. QED
        BY <1>1, <1>3, <1>4, <2>3, <2>4, <2>6, <2>7, <2>10, <3>1, PartsAssumption DEF Recorded, Storage
    <2>12. QED
      BY <1>3, <2>6, <2>8, <2>9, <2>11, Landed
  <1>12. CASE StartContainer(i)
    <2> DEFINE b == [box[i] EXCEPT !.state = "running"]
    <2>1. call = "start" /\ box' = [box EXCEPT ![i] = b] /\ data' = data /\ box[i].state # "absent"
      BY <1>3, <1>12 DEF StartContainer, Lands, In
    <2>2. b \in Containers /\ b.state = "running" /\ b.by = box[i].by /\ b.image = box[i].image
      BY <1>1 DEF Containers, ProcessState
    <2> HIDE DEF b
    <2>3. Touches(i) /\ box'[i] = b /\ data'[i] = data[i]
      BY <1>1, <1>5, <1>6, <2>1, <2>2
    <2>4. rec[i].intended = "running"
      BY <1>1, <1>3, <2>1 DEF UnderWay
    <2>5. UnderWay(i)' /\ Truthful(i)'
      BY <1>1, <1>3, <1>4, <2>1, <2>3, <2>4 DEF UnderWay, Has, Storage, Truthful
    <2>6. Recorded(i)'
      BY <1>1, <1>3, <1>4, <2>1, <2>2, <2>3, <2>4 DEF Recorded, Whole, Gone
    <2>7. QED
      BY <1>3, <2>3, <2>5, <2>6, Landed
  <1>13. CASE EraseDirectory(i)
    <2> DEFINE d == [data[i] EXCEPT !.directory = "none"]
    <2>1. call = "directory" /\ data' = [data EXCEPT ![i] = d] /\ box' = box
      BY <1>3, <1>13 DEF EraseDirectory, Lands, In
    <2>2. d \in Places /\ d.directory = "none" /\ d.volume = data[i].volume
      BY <1>1 DEF Places
    <2> HIDE DEF d
    <2>3. Touches(i) /\ box'[i] = box[i] /\ data'[i] = d
      BY <1>1, <1>5, <1>6, <2>1, <2>2
    <2>4. Kind(i) = "delete" /\ Removed(i) /\ i \notin login /\ ~Active(i) /\ box[i].state = "absent"
          /\ "directory" \in rec[i].owns
      BY <1>1, <1>3, <2>1, ByKind DEF Has, Storage, Removed, Active, UnderWay
    <2>5. UnderWay(i)' /\ Truthful(i)'
      BY <1>1, <1>3, <1>4, <2>1, <2>2, <2>3 DEF UnderWay, Has, Storage, Truthful
    <2>6. Recorded(i)'
      BY <1>1, <1>3, <1>4, <2>1, <2>2, <2>3, <2>4 DEF Recorded, Whole, Gone, Removed
    <2>7. QED
      BY <1>3, <2>3, <2>5, <2>6, Landed
  <1>14. CASE EraseVolume(i)
    <2> DEFINE d == [data[i] EXCEPT !.volume = FALSE]
    <2>1. call = "volume" /\ data' = [data EXCEPT ![i] = d] /\ box' = box
      BY <1>3, <1>14 DEF EraseVolume, Lands, In
    <2>2. d \in Places /\ d.directory = data[i].directory /\ ~d.volume
      BY <1>1 DEF Places
    <2> HIDE DEF d
    <2>3. Touches(i) /\ box'[i] = box[i] /\ data'[i] = d
      BY <1>1, <1>5, <1>6, <2>1, <2>2
    <2>4. Kind(i) = "delete" /\ Removed(i) /\ i \notin login /\ ~Active(i) /\ box[i].state = "absent"
          /\ "directory" \notin rec[i].owns
      BY <1>1, <1>3, <2>1, ByKind DEF Has, Storage, Removed, Active, UnderWay
    <2>5. data[i].directory = "none"
      BY <1>1, <2>4 DEF Recorded, Removed
    <2>6. UnderWay(i)' /\ Truthful(i)'
      BY <1>1, <1>3, <1>4, <2>1, <2>2, <2>3 DEF UnderWay, Has, Storage, Truthful
    <2>7. Recorded(i)'
      BY <1>1, <1>3, <1>4, <2>1, <2>2, <2>3, <2>4, <2>5 DEF Recorded, Whole, Gone, Removed
    <2>8. QED
      BY <1>3, <2>3, <2>6, <2>7, Landed
  <1>15. QED
    BY <1>8, <1>9, <1>10, <1>11, <1>12, <1>13, <1>14

\* An operation that has its answer keeps the invariant.
LEMMA AnsweredCall ==
  ASSUME Holds, ImageTypes, NEW i \in Inst,
         \/ AfterBuild(i) \/ Publish(i) \/ Probed(i) \/ Drained(i) \/ AfterHalt(i) \/ AfterRemove(i) \/ AfterCreate(i)
         \/ AfterStart(i) \/ Ready(i) \/ AfterErase(i)
  PROVE  Holds'
  <1>1. Types /\ InTurn(i) /\ UnderWay(i) /\ Recorded(i) /\ Truthful(i) /\ rec[i] \in Records
        /\ got[i] \in AllImages \cup {NoImage}
    BY DEF Holds, Sound, Types, ImageTypes
  <1>2. Works(i) /\ pc[i] # "idle" /\ login' = login /\ recovering' = recovering /\ box' = box
    BY DEF AfterBuild, Publish, Probed, Drained, AfterHalt, AfterRemove, AfterCreate, AfterStart, Ready, AfterErase,
           Answered, In, World, docker, Storage
  <1>3. Active(i) => /\ rec[i].owns = Storage /\ Whole(i) /\ rec[i].kept = "prepared"
                     /\ rec[i].intended \in {"stopped", "running"}
    BY <1>1, OwnsAll
  <1>4. Has(i, pc[i]) /\ Kind(i) # "secrets"
    <2>1. Has(i, pc[i]) /\ pc[i] \in Calls
      BY <1>1, <1>2 DEF UnderWay, Types
    <2>2. QED
      BY <2>1 DEF Has, Calls, TakesDown, Storage
  \* An answer that writes nothing and makes the next call, of an operation on an active instance
  \* or of an adoption that has not prepared it.
  <1>5. ASSUME NEW call \in {"drain", "halt"}, In(i, "probe") \/ In(i, "drain"), Call(i, call), rec' = rec, data' = data
        PROVE  Holds'
    <2>1. Kind(i) \in TakesDown \cup {"stop"} /\ call \in Calls
      BY <1>4, <1>5 DEF Has, In, Calls
    <2>2. rec[i].intended # "removed" /\ Active(i)' = Active(i)
      BY <1>1, <1>2, <1>3, <1>5, <2>1, ByKind DEF TakesDown, Active, Recorded, In
    <2>3. MayCall(i, call)
      BY <1>2, <1>5, <2>1, <2>2, ByKind DEF MayCall, Has, TakesDown, Storage, Active, In
    <2>4. QED
      BY <1>2, <1>4, <1>5, <2>1, <2>3, Goes
  <1>6. CASE AfterBuild(i)
    <2>1. pc[i] = "build" /\ data' = data /\ Kind(i) \in {"create", "update"}
      BY <1>4, <1>6 DEF AfterBuild, Answered, In, docker, Has
    <2>2. CASE Kind(i) = "create"
      <3>1. Call(i, "write") /\ rec' = rec /\ "write" \in Calls
        BY <1>6, <2>2 DEF AfterBuild, Calls
      <3>2. rec[i].kept = "opened" /\ rec[i].intended \in {"stopped", "running"}
        BY <1>1, <1>2, <2>2, ByKind DEF Recorded
      <3>3. MayCall(i, "write")
        BY <2>2, <3>1, <3>2 DEF MayCall, Has, Storage, Active
      <3>4. QED
        BY <1>2, <1>4, <2>1, <3>1, <3>3, Goes
    <2>3. CASE Kind(i) # "create"
      <3>1. TakeDown(i, StageCandidate(i, got[i])) /\ Kind(i) = "update" /\ Kind(i) \in TakesDown
        BY <1>6, <2>1, <2>3 DEF AfterBuild, TakesDown
      <3>2. Active(i)
        BY <1>2, <3>1, ByKind
      <3>3. StageCandidate(i, got[i]) \in Records /\ Stays(i, StageCandidate(i, got[i]))
        BY <1>1, <1>3, <3>2, Written DEF Stays
      <3>4. QED
        BY <1>2, <2>1, <3>1, <3>2, <3>3, TakenDown
    <2>4. QED
      BY <2>2, <2>3
  <1>7. CASE Publish(i)
    <2> DEFINE r == RecordPreparation(i, got[i])
               d == [data[i] EXCEPT !.directory = "whole"]
    <2>1. /\ pc[i] = "write" /\ Kind(i) = "create" /\ data' = [data EXCEPT ![i] = d] /\ Write(i, r)
          /\ Call(i, "create") /\ "create" \in Calls
      BY <1>4, <1>7 DEF Publish, In, CallCreate, Has, Calls
    <2>2. /\ r \in Records /\ r.kept = "opened" /\ r.intended \in {"stopped", "running"} /\ r.owns = Storage
          /\ rec[i].kept = "opened" /\ i \in Hosted /\ i \notin Foreign /\ i \notin login
      BY <1>1, <1>2, <2>1, Written, ByKind, PartsAssumption DEF Recorded
    <2>3. d \in Places /\ d.directory = "whole" /\ d.volume = data[i].volume
      BY <1>1 DEF Types, Places
    <2> HIDE DEF r, d
    <2>4. Touches(i) /\ rec'[i] = r /\ box'[i] = box[i] /\ data'[i] = d
      BY <1>1, <1>2, <2>1, <2>2, <2>3 DEF Touches, Types, Write
    <2>5. ~Active(i)' /\ ~Active(i) /\ i \notin login'
      BY <1>2, <2>2, <2>4 DEF Active
    <2>6. MayCall(i, "create")
      BY <2>1, <2>2, <2>3, <2>4, <2>5 DEF MayCall, Has, Storage
    <2>7. Recorded(i)'
      <3>1. box[i].state # "absent" => Whole(i)'
        BY <1>1, <2>3, <2>4 DEF Recorded, Whole
      <3>2. i \notin recovering'
        BY <1>2, ByKind
      <3>3. QED
        BY <1>1, <2>2, <2>4, <2>5, <3>1, <3>2 DEF Recorded
    <2>8. QED
      BY <1>2, <1>4, <2>1, <2>4, <2>6, <2>7, Called
  <1>8. CASE Probed(i)
    <2>1. PICK call \in {"drain", "halt"} : Call(i, call)
      BY <1>8 DEF Probed
    <2>2. QED
      BY <1>5, <1>8, <2>1 DEF Probed, World, docker
  <1>9. CASE Drained(i)
    BY <1>5, <1>9 DEF Drained, World, docker
  <1>10. CASE AfterHalt(i)
    <2>1. /\ pc[i] = "halt" /\ landed[i] /\ data' = data /\ Kind(i) \in TakesDown \cup {"stop"}
          /\ box[i].state # "running"
      BY <1>1, <1>4, <1>10 DEF AfterHalt, Answered, In, World, docker, Has, UnderWay
    <2>2. CASE Kind(i) = "stop"
      <3>1. End(i, "succeeded") /\ rec' = rec
        BY <1>10, <2>2 DEF AfterHalt
      <3>2. Active(i)
        BY <1>2, <2>2, ByKind
      <3>3. Truthful(i)'
        BY <1>2, <1>3, <2>1, <3>1, <3>2 DEF Truthful
      <3>4. QED
        BY <1>2, <2>1, <3>1, <3>3, Ends
    <2>3. CASE Kind(i) # "stop"
      <3>1. IntoRemoval(i, rec[i]) /\ Kind(i) \in TakesDown
        BY <1>10, <2>1, <2>3 DEF AfterHalt, Same
      <3>2. IF Kind(i) = "adopt" THEN rec[i].kept = "opened" /\ i \in Foreign ELSE Active(i) /\ Stays(i, rec[i])
        BY <1>1, <1>2, <1>3, <2>1, <3>1, ByKind DEF TakesDown, Stays
      <3>3. QED
        BY <1>1, <1>2, <2>1, <3>1, <3>2, GoesAway
    <2>4. QED
      BY <2>2, <2>3
  <1>11. CASE AfterRemove(i)
    <2>1. /\ pc[i] = "remove" /\ landed[i] /\ data' = data /\ Kind(i) \in TakesDown /\ box[i].state = "absent"
          /\ AfterRemoval(i, rec[i])
      BY <1>1, <1>4, <1>11 DEF AfterRemove, Answered, In, World, docker, Has, UnderWay, Same
    <2>2. Active(i) /\ Stays(i, rec[i])
      BY <1>1, <1>2, <1>3, <2>1, ByKind DEF TakesDown, Stays
    <2>3. QED
      BY <1>1, <1>2, <2>1, <2>2, IsAway
  <1>12. CASE AfterCreate(i)
    <2>1. /\ pc[i] = "create" /\ landed[i] /\ data' = data /\ box[i].state = "stopped" /\ rec[i].owns = Storage
          /\ Kind(i) \in {"create", "update", "recreate", "start", "restore", "adopt"} /\ Whole(i)
      BY <1>1, <1>4, <1>12 DEF AfterCreate, Answered, In, World, docker, Has, UnderWay, Recorded
    <2>2. CASE Kind(i) = "create"
      <3>1. Write(i, MarkPrepared(i)) /\ End(i, "succeeded")
        BY <1>12, <2>2 DEF AfterCreate
      <3>2. /\ MarkPrepared(i) \in Records /\ MarkPrepared(i).kept = "prepared"
            /\ MarkPrepared(i).intended \in {"stopped", "running"} /\ MarkPrepared(i).owns = Storage
            /\ Alone(i) /\ i \notin login /\ i \notin recovering
        BY <1>1, <1>2, <2>1, <2>2, Written, ByKind DEF Recorded
      <3>3. Touches(i) /\ rec'[i] = MarkPrepared(i) /\ box'[i] = box[i] /\ data'[i] = data[i]
        BY <1>1, <1>2, <2>1, <3>1, <3>2, Writes
      <3>4. Active(i)' /\ Whole(i)' /\ i \notin login'
        BY <1>2, <2>1, <3>2, <3>3 DEF Active, Whole
      <3>5. Recorded(i)'
        BY <1>1, <1>2, <2>1, <3>2, <3>3, <3>4 DEF Recorded, Storage
      <3>6. Truthful(i)'
        BY <2>1, <3>2, <3>3 DEF Truthful
      <3>7. QED
        BY <1>2, <3>1, <3>2, <3>3, <3>4, <3>5, <3>6, Finished
    <2>3. CASE Kind(i) = "restore"
      <3>1. Write(i, Intend(i, "stopped")) /\ End(i, "succeeded")
        BY <1>12, <2>3 DEF AfterCreate
      <3>2. Removed(i) /\ rec[i].kept = "prepared" /\ rec[i].intended = "removed"
        BY <1>2, <2>3, ByKind DEF Removed
      <3>3. /\ Intend(i, "stopped") \in Records /\ Intend(i, "stopped").kept = "prepared"
            /\ Intend(i, "stopped").intended = "stopped" /\ Intend(i, "stopped").owns = Storage
        BY <1>1, <2>1, <3>2, Written DEF IntendedState
      <3>4. Touches(i) /\ rec'[i] = Intend(i, "stopped") /\ box'[i] = box[i] /\ data'[i] = data[i]
        BY <1>1, <1>2, <2>1, <3>1, <3>3, Writes
      <3>5. Active(i)' /\ Whole(i)'
        BY <2>1, <3>3, <3>4 DEF Active, Whole
      <3>6. Recorded(i)'
        BY <1>1, <1>2, <2>1, <3>3, <3>4, <3>5 DEF Recorded, Storage
      <3>7. Truthful(i)'
        BY <2>1, <3>3, <3>4 DEF Truthful
      <3>8. QED
        BY <1>2, <3>1, <3>3, <3>4, <3>5, <3>6, <3>7, Finished
    <2>4. CASE Kind(i) \notin {"create", "restore"}
      <3> DEFINE r == IF Kind(i) = "update" THEN Selection(i, rec[i].candidate) ELSE Same(i)
      <3>1. IntoRunning(i, r)
        BY <1>12, <2>4 DEF AfterCreate
      <3>2. Active(i)
        BY <1>2, <2>1, <2>4, ByKind
      <3>3. rec[i].candidate \in AllImages \cup {NoImage}
        BY <1>1 DEF Records
      <3>4. r \in Records /\ Stays(i, r) /\ r.intended = rec[i].intended
        BY <1>1, <1>3, <3>2, <3>3, Written DEF Stays
      <3> HIDE DEF r
      <3>5. QED
        BY <1>2, <2>1, <2>4, <3>1, <3>2, <3>4, ComesUp
    <2>5. QED
      BY <2>2, <2>3, <2>4
  <1>13. CASE AfterStart(i)
    <2>1. /\ pc[i] = "start" /\ rec' = rec /\ data' = data /\ rec[i].intended = "running"
          /\ Kind(i) \in {"start", "resume", "recreate", "update", "adopt"}
      BY <1>1, <1>4, <1>13 DEF AfterStart, Answered, In, World, docker, Has, UnderWay
    <2>2. Active(i)
      BY <1>2, <2>1, ByKind
    <2>3. CASE Kind(i) = "update"
      <3>1. Call(i, "ready") /\ "ready" \in Calls
        BY <1>13, <2>3 DEF AfterStart, Calls
      <3>2. MayCall(i, "ready")
        BY <1>2, <1>3, <2>1, <2>2, <2>3 DEF MayCall, Has, Storage, Active
      <3>3. QED
        BY <1>2, <1>4, <2>1, <3>1, <3>2, Goes
    <2>4. CASE Kind(i) # "update"
      <3>1. End(i, "succeeded")
        BY <1>13, <2>4 DEF AfterStart
      <3>2. Truthful(i)'
        BY <2>1 DEF Truthful
      <3>3. QED
        BY <1>2, <2>1, <3>1, <3>2, Ends
    <2>5. QED
      BY <2>3, <2>4
  <1>14. CASE Ready(i)
    <2>1. /\ pc[i] = "ready" /\ rec' = rec /\ data' = data /\ rec[i].intended = "running" /\ End(i, "succeeded")
      BY <1>1, <1>14 DEF Ready, In, World, docker, UnderWay
    <2>2. Truthful(i)'
      BY <2>1 DEF Truthful
    <2>3. QED
      BY <1>2, <2>1, <2>2, Ends
  <1>15. CASE AfterErase(i)
    <2>1. PICK target \in Storage : pc[i] = target /\ landed[i] /\ EraseNext(i, Release(i, {target}).owns) /\ data' = data
      BY <1>15 DEF AfterErase, Answered, In, World, docker
    <2>2. Kind(i) = "delete" /\ Removed(i) /\ box[i].state = "absent"
      BY <1>1, <1>2, <1>4, <2>1, ByKind DEF Has, UnderWay
    <2>3. Release(i, {target}).owns = rec[i].owns \ {target} /\ rec[i].owns \in SUBSET Storage
      BY <1>1, Written DEF Records
    <2> DEFINE owns == rec[i].owns \ {target}
    <2>4. owns \in SUBSET Storage /\ EraseNext(i, owns)
      BY <2>1, <2>3
    <2>5. rec[i].kept = "prepared"
      BY <2>2 DEF Removed
    <2>6. CASE target = "directory"
      <3>1. data[i].directory = "none" /\ "directory" \in rec[i].owns
        BY <1>1, <2>1, <2>6 DEF UnderWay
      <3>2. "volume" \in rec[i].owns
        BY <1>1, <2>5, <3>1 DEF Recorded
      <3>3. "volume" \in owns /\ "directory" \notin owns
        BY <2>6, <3>2
      <3>4. QED
        BY <1>2, <2>1, <2>2, <2>4, <3>1, <3>3, ErasesOn
    <2>7. CASE target = "volume"
      <3>1. ~data[i].volume /\ "directory" \notin rec[i].owns
        BY <1>1, <2>1, <2>7 DEF UnderWay
      <3>2. data[i].directory = "none" /\ Gone(i)
        BY <1>1, <2>5, <3>1 DEF Recorded, Gone
      <3>3. owns = {}
        BY <2>3, <2>7, <3>1 DEF Storage
      <3>4. QED
        BY <1>2, <2>1, <2>2, <2>4, <3>2, <3>3, ErasesOn
    <2>8. QED
      BY <2>6, <2>7 DEF Storage
  <1>16. QED
    BY <1>6, <1>7, <1>8, <1>9, <1>10, <1>11, <1>12, <1>13, <1>14, <1>15

\* A call that raises keeps the invariant: the operation is failed, whatever had been done.
LEMMA Raised ==
  ASSUME Holds, NEW i \in Inst, Raises(i)
  PROVE  Holds'
  <1>1. Types /\ InTurn(i) /\ UnderWay(i) /\ Recorded(i) /\ Truthful(i) /\ rec[i] \in Records /\ data[i] \in Places
    BY DEF Holds, Sound, Types
  <1>2. /\ Works(i) /\ pc[i] # "idle" /\ End(i, "failed") /\ login' = login /\ recovering' = recovering /\ box' = box
    BY DEF Raises
  <1>3. Has(i, pc[i]) /\ Kind(i) # "secrets"
    <2>1. Has(i, pc[i]) /\ pc[i] \in Calls
      BY <1>1, <1>2 DEF UnderWay, Types
    <2>2. QED
      BY <2>1 DEF Has, Calls, TakesDown, Storage
  <1>4. LastOperation(i)'.kind = Kind(i) /\ LastOperation(i)'.state = "failed"
    BY <1>1, <1>2, <1>3, Ending
  <1>5. rec[i].intended = "removed" => Kind(i) = "restore" \/ box[i].by = "nobody"
    <2>1. Kind(i) = "delete" => pc[i] \in Storage
      BY <1>1, <1>2, <1>3 DEF Has, TakesDown, Calls, Types, Storage
    <2>2. Kind(i) = "delete" => box[i].by = "nobody"
      BY <1>1, <2>1 DEF UnderWay, Recorded
    <2>3. rec[i].intended = "removed" => Kind(i) \in {"restore", "delete"}
      BY <1>1, <1>2, <1>3, ByKind DEF Active, Recorded, Kinds
    <2>4. QED
      BY <2>2, <2>3
  <1>6. CASE Discarded(i)
    <2> DEFINE r == Release(i, Storage)
               d == [data[i] EXCEPT !.directory = "none"]
    <2>1. Kind(i) = "create" /\ box[i].state = "absent" /\ data' = [data EXCEPT ![i] = d] /\ Write(i, r)
      BY <1>6 DEF Discarded
    <2>2. /\ rec[i].kept = "opened" /\ i \in Hosted /\ i \notin Foreign /\ i \notin login /\ Alone(i)
          /\ r \in Records /\ r.kept = "opened" /\ r.intended \in {"stopped", "running"} /\ r.owns = {}
      <3>1. rec[i].kept = "opened" /\ i \in Hosted /\ Alone(i) /\ i \notin login
        BY <1>1, <1>2, <2>1, ByKind DEF Recorded
      <3>2. rec[i].owns \in SUBSET Storage /\ rec[i].intended \in {"stopped", "running"}
        BY <1>1, <3>1 DEF Records, Recorded
      <3>3. r \in Records /\ r.kept = rec[i].kept /\ r.intended = rec[i].intended /\ r.owns = rec[i].owns \ Storage
        BY <1>1, Written
      <3>4. rec[i].owns \ Storage = {}
        BY <3>2
      <3>5. QED
        BY <3>1, <3>2, <3>3, <3>4, PartsAssumption
    <2>3. d \in Places
      BY <1>1 DEF Places
    <2> HIDE DEF r, d
    <2>4. Touches(i) /\ rec'[i] = r /\ box'[i] = box[i] /\ data'[i] = d
      BY <1>1, <1>2, <2>1, <2>2, <2>3 DEF Touches, Types, Write
    <2>5. ~Active(i)' /\ ~Active(i) /\ i \notin login' /\ i \notin recovering'
      BY <1>2, <2>2, <2>4, ByKind DEF Active
    <2>6. Recorded(i)'
      <3>1. box[i].by = "nobody"
        BY <1>1, <2>1 DEF Recorded
      <3>2. QED
        BY <2>1, <2>2, <2>4, <2>5, <3>1 DEF Recorded
    <2>7. Truthful(i)'
      BY <1>4, <2>2, <2>4 DEF Truthful
    <2>8. QED
      BY <1>2, <2>2, <2>4, <2>5, <2>6, <2>7, Finished
  <1>7. CASE pc[i] = "directory" /\ ~landed[i] /\ data' = [data EXCEPT ![i].directory = "torn"] /\ rec' = rec
    <2> DEFINE d == [data[i] EXCEPT !.directory = "torn"]
    <2>1. d \in Places /\ data' = [data EXCEPT ![i] = d]
      BY <1>1, <1>7 DEF Places
    <2> HIDE DEF d
    <2>2. Touches(i) /\ data'[i] = d
      BY <1>1, <1>2, <1>7, <2>1 DEF Touches, Types
    <2>3. /\ Kind(i) = "delete" /\ Removed(i) /\ i \notin login /\ ~Active(i) /\ Alone(i) /\ box[i].state = "absent"
          /\ "directory" \in rec[i].owns
      BY <1>1, <1>2, <1>3, <1>7, ByKind DEF Has, Storage, Removed, Active, UnderWay
    <2>4. /\ rec[i].kept = "prepared" /\ rec[i].intended = "removed" /\ "volume" \in rec[i].owns
      BY <1>1, <2>3 DEF Removed, Recorded
    <2>5. ~Active(i)' /\ i \notin login' /\ i \notin recovering'
      BY <1>2, <1>7, <2>4, <2>3, ByKind DEF Active
    <2>6. Recorded(i)'
      <3>1. box[i].by = "nobody"
        BY <1>1, <2>3 DEF Recorded
      <3>2. QED
        BY <1>2, <1>7, <2>3, <2>4, <2>5, <3>1 DEF Recorded
    <2>7. Truthful(i)'
      BY <1>2, <1>4, <1>5, <1>7, <2>3, <2>4 DEF Truthful
    <2>8. QED
      BY <1>2, <1>7, <2>2, <2>3, <2>4, <2>6, <2>7, Finished
  <1>8. CASE rec' = rec /\ data' = data
    <2>1. Truthful(i)'
      BY <1>1, <1>2, <1>4, <1>5, <1>8 DEF Truthful, Recorded
    <2>2. QED
      BY <1>2, <1>8, <2>1, Ends
  <1>9. QED
    BY <1>6, <1>7, <1>8 DEF Raises

-----------------------------------------------------------------------------
(* Sign-ins that end, containers that exit, a restart and its recovery.    *)

\* A container that stops by itself keeps the invariant.
LEMMA Exited ==
  ASSUME Holds, NEW i \in Inst, Exits(i)
  PROVE  Holds'
  <1>1. Types /\ InTurn(i) /\ Lined(i) /\ UnderWay(i) /\ Recorded(i) /\ Truthful(i) /\ box[i] \in Containers
    BY DEF Holds, Sound, Types
  <1> DEFINE b == [box[i] EXCEPT !.state = "stopped"]
  <1>2. /\ box[i].state = "running" /\ box' = [box EXCEPT ![i] = b] /\ rec' = rec /\ ops' = ops /\ line' = line
        /\ pc' = pc /\ landed' = landed /\ login' = login /\ recovering' = recovering /\ data' = data
    BY DEF Exits, registry, memory, tasks
  <1>3. b \in Containers /\ b.state = "stopped" /\ b.by = box[i].by /\ b.image = box[i].image
    BY <1>1 DEF Containers, ProcessState
  <1> HIDE DEF b
  <1>4. Types' /\ box'[i] = b /\ \A j \in Inst \ {i} : box'[j] = box[j]
    BY <1>1, <1>2, <1>3 DEF Types
  <1>5. ASSUME NEW j \in Inst \ {i} PROVE Sound(j)'
    <2>1. Sound(j)
      BY DEF Holds
    <2>2. QED
      BY <1>2, <1>4, <2>1, Untouched
  <1>6. Works(i)' = Works(i) /\ Op(i)' = Op(i) /\ Kind(i)' = Kind(i) /\ Before(i)' = Before(i)
        /\ Left(i)' = Left(i) /\ Alone(i)' = Alone(i) /\ Active(i)' = Active(i) /\ Removed(i)' = Removed(i)
        /\ Whole(i)' = Whole(i) /\ Gone(i)' = Gone(i) /\ LastOperation(i)' = LastOperation(i)
    BY <1>2, LatestIs DEF Works, Op, Kind, Before, Left, Alone, Active, Removed, Whole, Gone
  <1>7. InTurn(i)'
    BY <1>1, <1>2, <1>6 DEF InTurn
  <1>8. Lined(i)'
    BY <1>1, <1>2, <1>6 DEF Lined
  <1>9. UnderWay(i)'
    BY <1>1, <1>2, <1>3, <1>4, <1>6 DEF UnderWay, Has
  <1>10. Recorded(i)'
    BY <1>1, <1>2, <1>3, <1>4, <1>6 DEF Recorded
  <1>11. Truthful(i)'
    BY <1>1, <1>2, <1>3, <1>4, <1>6 DEF Truthful
  <1>12. QED
    BY <1>4, <1>5, <1>7, <1>8, <1>9, <1>10, <1>11 DEF Holds, Sound

\* A restart keeps the invariant: every operation under way is failed, every record is looked at.
LEMMA Restarted ==
  ASSUME Holds, RestartHub
  PROVE  Holds'
  <1>1. /\ Types /\ FailInterrupted /\ line' = [j \in Inst |-> <<>>] /\ pc' = [j \in Inst |-> "idle"]
        /\ landed' = [j \in Inst |-> FALSE] /\ login' = {} /\ recovering' = Managed /\ rec' = rec
        /\ box' = box /\ data' = data
    BY DEF Holds, RestartHub
  <1>2. ASSUME NEW i \in Inst
        PROVE  /\ ops'[i] \in Seq(Operations) /\ InTurn(i)' /\ ~Works(i)' /\ Left(i)' = {}
               /\ LastOperation(i)'.kind = LastOperation(i).kind
               /\ LastOperation(i)'.state = "succeeded" <=> LastOperation(i).state = "succeeded"
    <2>1. InTurn(i)
      BY DEF Holds, Sound
    <2>2. QED
      BY <1>1, <2>1, Failing
  <1>3. Types'
    <2>1. ops' \in [Inst -> Seq(Operations)]
      <3>1. ops' = [j \in Inst |-> ops'[j]]
        BY <1>1 DEF FailInterrupted
      <3>2. QED
        BY <1>2, <3>1
    <2>2. Managed \in SUBSET Inst
      BY DEF Managed
    <2>3. QED
      BY <1>1, <2>1, <2>2 DEF Types
  <1>4. ASSUME NEW i \in Inst PROVE Sound(i)'
    <2>1. Recorded(i) /\ Truthful(i) /\ pc'[i] = "idle"
      BY <1>1 DEF Holds, Sound
    <2>2. Lined(i)'
      BY <1>2 DEF Lined
    <2>3. UnderWay(i)'
      BY <2>1 DEF UnderWay, Has, Storage
    <2>4. Active(i)' = Active(i) /\ Whole(i)' = Whole(i) /\ Gone(i)' = Gone(i)
      BY <1>1 DEF Active, Whole, Gone
    <2>5. i \in recovering' => rec[i].kept # "no" /\ rec[i].intended # "deleted"
      BY <1>1 DEF Managed
    <2>6. Recorded(i)'
      BY <1>1, <2>1, <2>4, <2>5 DEF Recorded
    <2>7. Truthful(i)'
      BY <1>1, <1>2, <2>1 DEF Truthful
    <2>8. QED
      BY <1>2, <2>2, <2>3, <2>6, <2>7 DEF Sound
  <1>5. QED
    BY <1>3, <1>4 DEF Holds

\* A step that leaves every record, operation, container and directory alone.
LEMMA NothingHappened ==
  ASSUME Holds, rec' = rec, ops' = ops, line' = line, pc' = pc, landed' = landed, box' = box, data' = data,
         login' \subseteq login, recovering' \subseteq recovering
  PROVE  Holds'
  <1>1. Types'
    BY DEF Holds, Types
  <1>2. ASSUME NEW i \in Inst PROVE Sound(i)'
    <2>1. Sound(i)
      BY DEF Holds
    <2>2. QED
      BY <2>1, Untouched
  <1>3. QED
    BY <1>1, <1>2 DEF Holds

\* What recovery makes of a record keeps the invariant.
LEMMA Recovered ==
  ASSUME Holds, NEW i \in Inst, Recover(i)
  PROVE  Holds'
  <1>1. Types /\ InTurn(i) /\ Recorded(i) /\ Truthful(i) /\ rec[i] \in Records
    BY DEF Holds, Sound, Types
  <1>2. /\ i \in recovering /\ recovering' = recovering \ {i} /\ ~Works(i) /\ pc' = pc /\ landed' = landed
        /\ login' = login /\ box' = box /\ data' = data /\ Write(i, Reconciled(i))
        /\ (IF ToStart(i) THEN Opened(i, "resume") ELSE ops' = ops /\ line' = line)
    BY DEF Recover, Looks, docker
  <1> DEFINE r == Reconciled(i)
  <1>3. rec[i].kept # "no" /\ rec[i].intended # "deleted"
    BY <1>1, <1>2 DEF Recorded
  \* What is written is a record of what the container shows.
  <1>4. /\ r \in Records /\ r.owns = rec[i].owns /\ r.kept # "no" /\ r.intended # "deleted"
        /\ \/ r.kept = rec[i].kept /\ r.intended = rec[i].intended
           \/ r.kept = "prepared" /\ r.intended = rec[i].intended /\ box[i].state # "absent"
           \/ r.kept = rec[i].kept /\ r.intended = "stopped" /\ rec[i].intended = "removed"
              /\ box[i].state # "absent" /\ box[i].by = "hub" /\ rec[i].kept = "prepared"
           \/ r.kept = rec[i].kept /\ r.intended = "removed" /\ box[i].state = "absent" /\ rec[i].kept = "prepared"
    <2>1. r \in {Same(i), MarkPrepared(i), Intend(i, "stopped"), Intend(i, "removed"), Selection(i, rec[i].candidate)}
      BY DEF Reconciled, Unclaimed, Retained, UnfinishedRemoval
    <2>2. CASE rec[i].kept = "opened"
      <3>1. r = Same(i) \/ (r = MarkPrepared(i) /\ box[i].state # "absent")
        BY <2>2 DEF Reconciled, Unclaimed
      <3>2. QED
        BY <1>1, <1>3, <3>1, Written
    <2>3. CASE rec[i].kept # "opened"
      <3>1. rec[i].kept = "prepared"
        BY <1>1, <1>3, <2>3 DEF Records, Kept
      <3>2. CASE Removed(i)
        <4>1. r = Same(i) \/ (r = Intend(i, "stopped") /\ box[i].state # "absent" /\ box[i].by = "hub")
          BY <2>3, <3>2 DEF Reconciled, Retained
        <4>2. rec[i].intended = "removed" /\ "stopped" \in IntendedState
          BY <3>2 DEF Removed, IntendedState
        <4>3. QED
          BY <1>1, <1>3, <3>1, <4>1, <4>2, Written
      <3>3. CASE ~Removed(i)
        <4>1. \/ r = Same(i) \/ (r = Intend(i, "removed") /\ box[i].state = "absent")
              \/ r = Selection(i, rec[i].candidate)
          BY <2>3, <3>3 DEF Reconciled, UnfinishedRemoval
        <4>2. rec[i].candidate \in AllImages \cup {NoImage} /\ "removed" \in IntendedState
          BY <1>1 DEF Records, IntendedState
        <4>3. QED
          BY <1>1, <1>3, <3>1, <4>1, <4>2, Written
      <3>4. QED
        BY <3>2, <3>3
    <2>4. QED
      BY <2>2, <2>3
  <1> HIDE DEF r
  <1>5. Touches(i) /\ rec'[i] = r /\ box'[i] = box[i] /\ data'[i] = data[i] /\ i \notin recovering'
        /\ \A j \in Inst \ {i} : rec'[j] = rec[j]
    BY <1>1, <1>2, <1>4 DEF Touches, Types, Write, r
  <1>6. LastOperation(i)' = LastOperation(i)
    <2>1. CASE ToStart(i)
      BY <1>1, <1>2, <2>1, Opening DEF Kinds
    <2>2. CASE ~ToStart(i)
      BY <1>2, <2>2, LatestIs
    <2>3. QED
      BY <2>1, <2>2
  <1>7. Truthful(i)'
    BY <1>1, <1>4, <1>5, <1>6 DEF Truthful, Recorded
  <1>8. Recorded(i)'
    <2>1. Whole(i)' = Whole(i) /\ Gone(i)' = Gone(i) /\ (i \in login' <=> i \in login)
      BY <1>2 DEF Whole, Gone
    <2>2. box[i].state # "absent" => Whole(i) /\ rec[i].owns = Storage
      BY <1>1, <1>3 DEF Recorded
    <2>3. Active(i)' => Active(i) \/ box[i].state # "absent"
      BY <1>4, <1>5 DEF Active
    <2>4. Active(i)' => Whole(i)
      BY <1>1, <2>2, <2>3 DEF Recorded
    <2>5. r.kept = rec[i].kept \/ (r.kept = "prepared" /\ box[i].state # "absent")
      BY <1>4
    <2>6. r.kept # "prepared" => r.kept = rec[i].kept /\ r.intended = rec[i].intended
      BY <1>4
    <2>7. i \in login => rec[i].kept = "prepared" /\ r.kept = "prepared" /\ Whole(i)
      BY <1>1, <2>5 DEF Recorded
    <2>8. r.kept = "prepared" => rec[i].kept = "prepared" \/ rec[i].owns = Storage
      BY <2>2, <2>5
    <2>9. QED
      BY <1>1, <1>2, <1>3, <1>4, <1>5, <2>1, <2>2, <2>4, <2>6, <2>7, <2>8 DEF Recorded, Storage
  <1>9. CASE ToStart(i)
    <2>1. Opened(i, "resume") /\ "resume" \in Kinds
      BY <1>2, <1>9 DEF Kinds
    <2>2. QED
      BY <1>2, <1>4, <1>5, <1>7, <1>8, <2>1, Asked
  <1>10. CASE ~ToStart(i)
    <2>1. ops' = ops /\ line' = line
      BY <1>2, <1>10
    <2>2. Types'
      BY <1>1, <1>2, <1>5, <2>1 DEF Types, Touches
    <2>3. ASSUME NEW j \in Inst \ {i} PROVE Sound(j)'
      <3>1. Sound(j)
        BY DEF Holds
      <3>2. QED
        BY <1>2, <1>5, <2>1, <3>1, Untouched
    <2>4. ~Works(i)' /\ InTurn(i)' /\ Left(i)' = {} /\ pc'[i] = "idle"
      <3>1. InTurn(i)' = InTurn(i) /\ Left(i)' = Left(i) /\ ~Works(i)'
        BY <1>2, <2>1 DEF InTurn, Left, Before, Works
      <3>2. /\ Len(ops[i]) \in Nat /\ Len(line[i]) \in Nat /\ Before(i) \in Nat
            /\ Before(i) + Len(line[i]) = Len(ops[i]) /\ (Works(i) <=> Len(line[i]) >= 1)
        BY <1>1, HeadIs
      <3>3. Left(i) = {}
        BY <1>2, <3>2 DEF Left
      <3>4. pc[i] = "idle"
        BY <1>1, <1>2 DEF InTurn
      <3>5. QED
        BY <1>1, <1>2, <3>1, <3>3, <3>4
    <2>5. Lined(i)' /\ UnderWay(i)'
      BY <2>4 DEF Lined, UnderWay, Has, Storage
    <2>6. QED
      BY <1>7, <1>8, <2>2, <2>3, <2>4, <2>5 DEF Holds, Sound
  <1>11. QED
    BY <1>9, <1>10

-----------------------------------------------------------------------------
(* The types of what concerns images.                                      *)

\* Images have their types.
LEMMA ImageTyped ==
  ASSUME Types, ImageTypes, [Next]_vars
  PROVE  ImageTypes'
  <1> USE DEF ImageTypes
  <1>1. CASE UNCHANGED vars
    BY <1>1 DEF vars, registry, memory, tasks, docker
  <1>2. ASSUME NEW i \in Inst, NEW image \in Images, ImageBuilt(i, image) PROVE ImageTypes'
    BY <1>2 DEF ImageBuilt, Lands, RecordArtifact, AllImages
  <1>3. ASSUME NEW i \in Inst, AfterBuild(i) \/ Publish(i) \/ Raises(i) PROVE ImageTypes'
    <2>1. /\ got' = got \/ got' = [got EXCEPT ![i] = NoImage]
          /\ artifacts' = artifacts /\ images' = images /\ doomed' = doomed
      BY <1>3 DEF AfterBuild, Publish, Raises, docker
    <2>2. QED
      BY <2>1
  <1>4. CASE Collect
    BY <1>4 DEF Collect, UnreferencedImages, tasks, docker, registry
  <1>5. ASSUME NEW image \in AllImages, RemoveImage(image) PROVE ImageTypes'
    BY <1>5 DEF RemoveImage, ForgetImage, tasks
  <1>6. CASE RestartHub
    BY <1>6 DEF RestartHub
  <1>7. ASSUME NEW i \in Inst,
               \/ Requests(i) \/ Begins(i) \/ Probed(i) \/ Halt(i) \/ AfterHalt(i) \/ RemoveContainer(i)
               \/ AfterRemove(i) \/ CreateContainer(i) \/ AfterCreate(i) \/ StartContainer(i) \/ AfterStart(i) \/ Ready(i)
               \/ EraseDirectory(i) \/ EraseVolume(i) \/ AfterErase(i) \/ Drained(i) \/ SignInEnds(i) \/ Exits(i)
               \/ Recover(i) \/ Unavailable(i)
        PROVE  ImageTypes'
    <2>1. got' = got /\ artifacts' = artifacts /\ images' = images /\ doomed' = doomed
      <3>1. CASE Requests(i)
        BY <3>1 DEF Requests, Create, Start, Recreate, Update, SetSecrets, Remove, Restore, Delete, Adopt, SignIn, Stop,
                    Ask, docker, registry, tasks
      <3>2. CASE Begins(i)
        BY <3>2 DEF Begins, BeginBuild, BeginStart, BeginStop, BeginRecreate, BeginAdopt, BeginRemove, BeginRestore,
                    BeginDelete, ReplaceSecrets, World, docker
      <3>3. CASE \/ Probed(i) \/ AfterHalt(i) \/ AfterRemove(i) \/ AfterCreate(i) \/ AfterStart(i) \/ Ready(i)
                 \/ AfterErase(i) \/ Drained(i)
        BY <3>3 DEF Probed, AfterHalt, AfterRemove, AfterCreate, AfterStart, Ready, AfterErase, Drained, World, docker
      <3>4. CASE \/ Halt(i) \/ RemoveContainer(i) \/ CreateContainer(i) \/ StartContainer(i) \/ EraseDirectory(i)
                 \/ EraseVolume(i)
        BY <3>4 DEF Halt, RemoveContainer, CreateContainer, StartContainer, EraseDirectory, EraseVolume, Lands
      <3>5. CASE SignInEnds(i) \/ Exits(i) \/ Recover(i) \/ Unavailable(i)
        BY <3>5 DEF SignInEnds, Exits, Recover, Unavailable, Looks, registry, tasks, memory, docker
      <3>6. QED
        BY <1>7, <3>1, <3>2, <3>3, <3>4, <3>5
    <2>2. QED
      BY <2>1
  <1>8. QED
    BY <1>1, <1>2, <1>3, <1>4, <1>5, <1>6, <1>7 DEF Next, GoesOn

-----------------------------------------------------------------------------
(* The invariant holds.                                                    *)

\* The invariant holds at the start.
LEMMA Initial ==
  ASSUME Init
  PROVE  Holds /\ ImageTypes
  <1>1. ImageTypes
    BY DEF Init, ImageTypes, AllImages
  <1> DEFINE prepared == [kept |-> "prepared", intended |-> "stopped", image |-> Given,
                          candidate |-> NoImage, owns |-> Storage]
             created == [kind |-> "create", state |-> "succeeded", begun |-> TRUE]
             stopped == [state |-> "stopped", image |-> Given, by |-> "hub", fresh |-> TRUE]
             running == [state |-> "running", image |-> Brought, by |-> "other", fresh |-> TRUE]
             full == [directory |-> "whole", volume |-> TRUE]
             empty == [directory |-> "none", volume |-> FALSE]
  <1>2. /\ prepared \in Records /\ NoRecord \in Records /\ created \in Operations
        /\ stopped \in Containers /\ running \in Containers /\ NoBox \in Containers /\ full \in Places /\ empty \in Places
    BY DEF Records, NoRecord, Operations, Containers, NoBox, Places, Kept, IntendedState, OperationState, ProcessState,
           ContainerOwner, Kinds, Storage, AllImages
  <1>3. ASSUME NEW i \in Inst
        PROVE  /\ rec[i] = IF i \in Existing THEN prepared ELSE NoRecord
               /\ ops[i] = IF i \in Existing THEN <<created>> ELSE <<>>
               /\ line[i] = <<>> /\ pc[i] = "idle" /\ landed[i] = FALSE
               /\ i \in Existing => i \in Hosted /\ i \notin Foreign /\ box[i] = stopped /\ data[i] = full
               /\ i \in Foreign => i \notin Existing /\ i \notin Hosted /\ box[i] = running /\ data[i] = full
               /\ i \notin Existing /\ i \notin Foreign => box[i] = NoBox /\ data[i] = empty
    BY PartsAssumption DEF Init
  <1>a. /\ prepared.kept = "prepared" /\ prepared.intended = "stopped" /\ prepared.owns = Storage
        /\ NoRecord.kept = "no" /\ NoRecord.intended = "stopped" /\ NoRecord.owns = {}
        /\ stopped.state = "stopped" /\ NoBox.state = "absent" /\ NoBox.by = "nobody"
        /\ running.state = "running" /\ running.image = Brought
        /\ full.directory = "whole" /\ full.volume
        /\ created.kind = "create" /\ created.state = "succeeded"
    BY DEF NoRecord, NoBox
  <1> HIDE DEF prepared, created, stopped, running, full, empty
  <1>4. Types
    <2>1. created \in Operations
      BY <1>2
    <2>2. <<created>> \in Seq(Operations) /\ <<>> \in Seq(Operations) /\ <<>> \in Seq(Nat)
      BY <2>1
    <2>3. \A i \in Inst : rec[i] \in Records /\ ops[i] \in Seq(Operations) /\ box[i] \in Containers /\ data[i] \in Places
      BY <1>2, <1>3, <2>2
    <2>4. /\ rec = [i \in Inst |-> rec[i]] /\ ops = [i \in Inst |-> ops[i]] /\ box = [i \in Inst |-> box[i]]
          /\ data = [i \in Inst |-> data[i]]
      BY DEF Init
    <2>5. rec \in [Inst -> Records] /\ ops \in [Inst -> Seq(Operations)] /\ box \in [Inst -> Containers] /\ data \in [Inst -> Places]
      BY <2>3, <2>4
    <2>6. QED
      BY <2>2, <2>5 DEF Init, Types
  <1>5. ASSUME NEW i \in Inst PROVE Sound(i)
    <2>1. ~Works(i) /\ i \notin login /\ i \notin recovering
      BY <1>3 DEF Works, Init
    <2>2. Left(i) = {} /\ InTurn(i) /\ LastOperation(i).state \in {"none", "succeeded"} /\ (i \notin Existing => LastOperation(i).state = "none")
      <3>1. CASE i \in Existing
        <4>1. ops[i] = <<created>> /\ line[i] = <<>> /\ pc[i] = "idle"
          BY <1>3, <3>1
        <4>2. created \in Operations /\ created.state = "succeeded" /\ created.kind = "create"
          BY <1>2, <1>a
        <4>3. Len(ops[i]) = 1 /\ Len(line[i]) = 0 /\ DOMAIN ops[i] = 1..1 /\ ops[i][1] = created /\ ops[i] \in Seq(Operations)
          BY <4>1, <4>2
        <4>4. Before(i) = 1
          BY <4>3 DEF Before
        <4>5. HasLatest(ops[i]) /\ Latest(ops[i]) = created
          <5>1. Changed(ops[i][1]) /\ 1 \in DOMAIN ops[i] /\ \A m \in DOMAIN ops[i] : Changed(ops[i][m]) => m <= 1
            BY <4>2, <4>3 DEF Changed
          <5>2. QED
            BY <4>3, <5>1, LatestNew
        <4>6. Left(i) = {}
          BY <4>3, <4>4 DEF Left
        <4>7. InTurn(i)
          BY <2>1, <4>1, <4>2, <4>3, <4>4, <4>5 DEF InTurn
        <4>8. QED
          BY <3>1, <4>2, <4>5, <4>6, <4>7, LatestIs
      <3>2. CASE i \notin Existing
        <4>1. ops[i] = <<>> /\ line[i] = <<>> /\ pc[i] = "idle"
          BY <1>3, <3>2
        <4>2. Len(ops[i]) = 0 /\ Len(line[i]) = 0 /\ DOMAIN ops[i] = {}
          BY <4>1
        <4>3. Before(i) = 0
          BY <4>2 DEF Before
        <4>4. Changes(ops[i]) = {} /\ HasLatest(ops[i]) /\ Latest(ops[i]) = Nothing
          BY <4>2 DEF Changes, HasLatest, Latest
        <4>5. Left(i) = {}
          BY <4>2 DEF Left
        <4>6. InTurn(i)
          BY <2>1, <4>1, <4>2, <4>3, <4>4 DEF InTurn
        <4>7. QED
          BY <4>4, <4>5, <4>6, LatestIs DEF Nothing
      <3>3. QED
        BY <3>1, <3>2
    <2>3. Lined(i)
      BY <2>1, <2>2 DEF Lined
    <2>4. UnderWay(i)
      BY <1>3 DEF UnderWay, Has, Storage
    <2>5. Recorded(i)
      <3>1. CASE i \in Existing
        <4>1. /\ rec[i].kept = "prepared" /\ rec[i].intended = "stopped" /\ rec[i].owns = Storage
              /\ i \notin Foreign /\ box[i].state = "stopped" /\ data[i].directory = "whole" /\ data[i].volume
          <5>1. rec[i] = prepared /\ i \notin Foreign /\ box[i] = stopped /\ data[i] = full
            BY <1>3, <3>1
          <5>2. QED
            BY <1>a, <5>1
        <4>2. QED
          BY <2>1, <4>1 DEF Recorded, Whole, Gone, Active, Storage
      <3>2. CASE i \in Foreign
        <4>1. /\ rec[i] = NoRecord /\ rec[i].kept = "no" /\ rec[i].intended = "stopped" /\ rec[i].owns = {}
              /\ i \notin Hosted /\ box[i].state = "running" /\ box[i].image = Brought
              /\ data[i].directory = "whole" /\ data[i].volume
          <5>1. rec[i] = NoRecord /\ i \notin Hosted /\ box[i] = running /\ data[i] = full
            BY <1>3, <3>2
          <5>2. QED
            BY <1>a, <5>1
        <4>2. QED
          BY <2>1, <4>1 DEF Recorded, Whole, Gone, Active
      <3>3. CASE i \notin Existing /\ i \notin Foreign
        <4>1. /\ rec[i] = NoRecord /\ rec[i].kept = "no" /\ rec[i].intended = "stopped" /\ rec[i].owns = {}
              /\ box[i].state = "absent" /\ box[i].by = "nobody"
          <5>1. rec[i] = NoRecord /\ box[i] = NoBox
            BY <1>3, <3>3
          <5>2. QED
            BY <1>a, <5>1
        <4>2. QED
          BY <2>1, <3>3, <4>1 DEF Recorded, Whole, Gone, Active
      <3>4. QED
        BY <3>1, <3>2, <3>3
    <2>6. Truthful(i)
      <3>1. rec[i].intended = "stopped" /\ (i \in Existing => box[i].state = "stopped")
        <4>1. (rec[i] = prepared \/ rec[i] = NoRecord) /\ (i \in Existing => box[i] = stopped)
          BY <1>3
        <4>2. QED
          BY <1>a, <4>1
      <3>2. QED
        BY <2>2, <3>1 DEF Truthful
    <2>7. QED
      BY <2>2, <2>3, <2>4, <2>5, <2>6 DEF Sound
  <1>6. QED
    BY <1>1, <1>4, <1>5 DEF Holds

\* Every step keeps the invariant.
LEMMA Inductive ==
  ASSUME Holds, ImageTypes, [Next]_vars
  PROVE  Holds' /\ ImageTypes'
  <1>1. ImageTypes'
    BY ImageTyped DEF Holds
  <1>2. ASSUME UNCHANGED vars PROVE Holds'
    <2>1. /\ rec' = rec /\ ops' = ops /\ line' = line /\ pc' = pc /\ landed' = landed /\ box' = box /\ data' = data
          /\ login' \subseteq login /\ recovering' \subseteq recovering
      BY <1>2 DEF vars, registry, memory, tasks, docker
    <2>2. QED
      BY <2>1, NothingHappened
  <1>3. ASSUME NEW i \in Inst, GoesOn(i) PROVE Holds'
    BY <1>3, Begun, LandedCall, AnsweredCall, Raised DEF GoesOn
  <1>4. ASSUME NEW i \in Inst, SignInEnds(i) \/ Unavailable(i) PROVE Holds'
    BY <1>4, NothingHappened DEF SignInEnds, Unavailable, Looks, registry, tasks, docker
  <1>5. ASSUME Collect PROVE Holds'
    <2>1. /\ rec' = rec /\ ops' = ops /\ line' = line /\ pc' = pc /\ landed' = landed /\ box' = box /\ data' = data
          /\ login' \subseteq login /\ recovering' \subseteq recovering
      BY <1>5 DEF Collect, registry, tasks, docker
    <2>2. QED
      BY <2>1, NothingHappened
  <1>6. ASSUME NEW image \in AllImages, RemoveImage(image) PROVE Holds'
    BY <1>6, NothingHappened DEF RemoveImage, tasks
  <1>7. QED
    BY <1>1, <1>2, <1>3, <1>4, <1>5, <1>6, Requested, AnsweredCall, Exited, Recovered, Restarted DEF Next

\* The latest change is one of the instance's operations.
LEMMA LatestIn ==
  ASSUME NEW i \in Inst, InTurn(i), LastOperation(i) # Nothing
  PROVE  \E n \in DOMAIN ops[i] : LastOperation(i) = ops[i][n]
  <1>1. LastOperation(i) = Latest(ops[i]) /\ HasLatest(ops[i])
    BY LatestIs DEF InTurn
  <1>2. Changes(ops[i]) # {}
    BY <1>1 DEF Latest
  <1> DEFINE k == CHOOSE n \in Changes(ops[i]) : \A m \in Changes(ops[i]) : m <= n
  <1>3. k \in Changes(ops[i])
    BY <1>1, <1>2 DEF HasLatest
  <1>4. QED
    BY <1>1, <1>2, <1>3 DEF Latest, Changes

\* The invariant implies what the run checks.
LEMMA Agree ==
  ASSUME Holds, ImageTypes
  PROVE  LifecycleInv
  <1>1. ASSUME NEW i \in Inst
        PROVE  /\ rec[i] \in Records /\ box[i] \in Containers
               /\ data[i] \in [directory : {"none", "torn", "whole"}, volume : BOOLEAN]
               /\ \A n \in DOMAIN ops[i] : ops[i][n] \in Operations
               /\ {line[i][n] : n \in DOMAIN line[i]} = Unfinished(i)
               /\ pc[i] \in Calls \cup {"idle"} /\ (pc[i] # "idle" => Works(i))
    <2>1. Types /\ InTurn(i)
      BY DEF Holds, Sound
    <2>2. /\ Len(ops[i]) \in Nat /\ Len(line[i]) \in Nat /\ Before(i) \in Nat /\ DOMAIN ops[i] = 1..Len(ops[i])
          /\ DOMAIN line[i] = 1..Len(line[i]) /\ Before(i) + Len(line[i]) = Len(ops[i])
          /\ \A n \in 1..Len(ops[i]) : ops[i][n] \in Operations
      BY <2>1, HeadIs
    <2>3. {line[i][n] : n \in DOMAIN line[i]} = {Before(i) + n : n \in 1..Len(line[i])}
      BY <2>1, <2>2 DEF InTurn
    <2>4. {Before(i) + n : n \in 1..Len(line[i])} = Left(i)
      <3>1. \A n \in 1..Len(line[i]) : Before(i) + n \in Left(i)
        BY <2>2 DEF Left
      <3>2. \A m \in Left(i) : m - Before(i) \in 1..Len(line[i]) /\ m = Before(i) + (m - Before(i))
        BY <2>2 DEF Left
      <3>3. QED
        BY <3>1, <3>2
    <2>5. Unfinished(i) = Left(i)
      BY OperationActive
    <2>6. QED
      BY <2>1, <2>2, <2>3, <2>4, <2>5 DEF Types, Places, InTurn
  <1>2. TypeOK
    BY <1>1 DEF TypeOK, ImageTypes
  <1>3. Mounted
    BY DEF Mounted, Holds, Sound, Recorded, Whole
  <1>4. ASSUME NEW i \in Inst, Settled(i)
        PROVE  /\ rec[i].intended = "stopped" /\ LastOperation(i).state = "succeeded" => box[i].state # "running"
               /\ rec[i].intended = "removed" /\ box[i].by = "hub"
                     => LastOperation(i).kind = "restore" /\ LastOperation(i).state = "failed"
               /\ rec[i].intended = "deleted"
                     => box[i].state = "absent" /\ data[i].directory = "none" /\ ~data[i].volume
    <2>1. InTurn(i) /\ Truthful(i) /\ Recorded(i)
      BY DEF Holds, Sound
    <2>2. LastOperation(i).kind = "restore" => LastOperation(i).state \in {"succeeded", "failed"}
      <3>1. LastOperation(i).kind = "restore" => \E n \in DOMAIN ops[i] : LastOperation(i) = ops[i][n]
        BY <2>1, LatestIn DEF Nothing
      <3>2. \A n \in DOMAIN ops[i] : ops[i][n] \in Operations /\ ops[i][n].state # "unfinished"
        BY <1>1, <1>4 DEF Settled, ActiveOperation, Unfinished
      <3>3. QED
        BY <3>1, <3>2 DEF Operations, OperationState
    <2>3. QED
      BY <2>1, <2>2 DEF Truthful, Recorded, Gone
  <1>5. AtRest
    BY <1>4 DEF AtRest
  <1>6. QED
    BY <1>2, <1>3, <1>5 DEF LifecycleInv

\* The record, the container and the storage of every instance agree, whatever is asked, whatever
\* fails and wherever the hub stops (service.py, recovery.py, registry.py).
THEOREM RecordsTellTruth == Spec => []LifecycleInv
  <1>1. Init => Holds /\ ImageTypes
    BY Initial
  <1>2. Holds /\ ImageTypes /\ [Next]_vars => Holds' /\ ImageTypes'
    BY Inductive
  <1>3. Holds /\ ImageTypes => LifecycleInv
    BY Agree
  <1>4. QED
    BY <1>1, <1>2, <1>3, PTL DEF Spec

-----------------------------------------------------------------------------
(* The images.                                                             *)

\* What is there to stay, and the images a step of an operation may write into its record.
Safe == (images \ doomed) \cup {NoImage}
Known(i) == {rec[i].image, rec[i].candidate, got[i], NoImage}
FromKnown(i, record) == record.image \in Known(i) /\ record.candidate \in Known(i)

\* A step of an operation writes one record, from the images it knows, and moves itself only.
Names(i) ==
    /\ \A j \in Inst \ {i} : rec'[j] = rec[j] /\ pc'[j] = pc[j]
    /\ FromKnown(i, rec'[i])

\* Every write of an operation takes its images from those the operation knows.
LEMMA KnownRecords ==
  ASSUME Types, ImageTypes, NEW i \in Inst
  PROVE  /\ FromKnown(i, rec[i]) /\ FromKnown(i, Same(i)) /\ FromKnown(i, MarkPrepared(i))
         /\ \A s \in IntendedState : FromKnown(i, Intend(i, s))
         /\ FromKnown(i, RecordPreparation(i, got[i])) /\ FromKnown(i, StageCandidate(i, got[i]))
         /\ FromKnown(i, Selection(i, rec[i].candidate))
         /\ \A targets \in SUBSET Storage : FromKnown(i, Release(i, targets))
  <1>1. got[i] \in AllImages \cup {NoImage} /\ rec[i].candidate \in AllImages \cup {NoImage}
    BY DEF Types, ImageTypes, Records
  <1>2. QED
    BY <1>1, Written DEF FromKnown, Known

\* An operation that writes such a record and goes on names no other image.
LEMMA WritesKnown ==
  ASSUME Types, ImageTypes, NEW i \in Inst, NEW record, Write(i, record), FromKnown(i, record),
         NEW call, pc' = [pc EXCEPT ![i] = call]
  PROVE  Names(i)
  <1>1. rec'[i] = record /\ \A j \in Inst \ {i} : rec'[j] = rec[j] /\ pc'[j] = pc[j]
    BY DEF Write, Types
  <1>2. QED
    BY <1>1 DEF Names

\* Nor does one that writes none.
LEMMA LeavesRecords ==
  ASSUME Types, ImageTypes, NEW i \in Inst, rec' = rec, NEW call, pc' = [pc EXCEPT ![i] = call]
  PROVE  Names(i)
  BY KnownRecords DEF Names, Types

\* A step of an operation that takes a container down, or goes on once it is down.
LEMMA GoingDown ==
  ASSUME Types, ImageTypes, NEW i \in Inst, NEW record, FromKnown(i, record),
         \/ TakeDown(i, record) \/ IntoRemoval(i, record) \/ AfterRemoval(i, record) \/ IntoRunning(i, record)
  PROVE  Names(i)
  <1>1. FromKnown(i, MarkPrepared(i)) /\ FromKnown(i, Intend(i, "removed"))
    BY KnownRecords DEF IntendedState
  <1>2. ASSUME NEW written, FromKnown(i, written), Write(i, written),
               (\E call \in Calls : Call(i, call)) \/ (\E state \in OperationState : End(i, state))
        PROVE  Names(i)
    <2>1. \E call : pc' = [pc EXCEPT ![i] = call]
      BY <1>2 DEF Call, End
    <2>2. QED
      BY <1>2, <2>1, WritesKnown
  <1>3. ASSUME IntoRemoval(i, record) PROVE Names(i)
    <2>1. Call(i, "remove") /\ "remove" \in Calls /\ (Write(i, MarkPrepared(i)) \/ Write(i, record))
      BY <1>3 DEF IntoRemoval, Calls
    <2>2. QED
      BY <1>1, <1>2, <2>1
  <1>4. ASSUME AfterRemoval(i, record) PROVE Names(i)
    <2>1. \/ Write(i, Intend(i, "removed")) /\ End(i, "succeeded")
          \/ Write(i, record) /\ Call(i, "create")
      BY <1>4 DEF AfterRemoval, CallCreate
    <2>2. "create" \in Calls /\ "succeeded" \in OperationState
      BY DEF Calls, OperationState
    <2>3. QED
      BY <1>1, <1>2, <2>1, <2>2
  <1>5. ASSUME IntoRunning(i, record) PROVE Names(i)
    <2>1. Write(i, record) /\ (Call(i, "start") \/ End(i, "succeeded"))
      BY <1>5 DEF IntoRunning
    <2>2. "start" \in Calls /\ "succeeded" \in OperationState
      BY DEF Calls, OperationState
    <2>3. QED
      BY <1>2, <2>1, <2>2
  <1>6. ASSUME TakeDown(i, record) PROVE Names(i)
    <2>1. (Write(i, record) /\ Call(i, "probe")) \/ IntoRemoval(i, record) \/ AfterRemoval(i, record)
      BY <1>6 DEF TakeDown, StopRunning
    <2>2. "probe" \in Calls
      BY DEF Calls
    <2>3. QED
      BY <1>2, <1>3, <1>4, <2>1, <2>2
  <1>7. QED
    BY <1>3, <1>4, <1>5, <1>6

\* A deletion that goes on, or that is over.
LEMMA ErasedRecord ==
  ASSUME Types, ImageTypes, NEW i \in Inst, NEW owns, EraseNext(i, owns)
  PROVE  Names(i)
  <1> DEFINE gone == [rec[i] EXCEPT !.owns = {}, !.intended = "deleted"]
             less == [rec[i] EXCEPT !.owns = owns]
  <1>1. FromKnown(i, gone) /\ FromKnown(i, less)
    BY DEF FromKnown, Known, Types, Records
  <1>2. \E record : Write(i, record) /\ FromKnown(i, record)
    BY <1>1 DEF EraseNext
  <1>3. \E call : pc' = [pc EXCEPT ![i] = call]
    BY DEF EraseNext, Call, End
  <1>4. QED
    BY <1>2, <1>3, WritesKnown

\* What a step of an instance leaves of the images.
Frames(i) ==
    /\ images' = images /\ doomed' = doomed /\ artifacts' = artifacts
    /\ \A j \in Inst \ {i} : rec'[j] = rec[j] /\ pc'[j] = pc[j] /\ got'[j] = got[j] /\ box'[j] = box[j]
    /\ got'[i] = NoImage \/ (got'[i] = got[i] /\ pc'[i] \in {"build", "write"})
    /\ box'[i].state # "absent" => box'[i].image \in images
StaysWithin(i) == Names(i) /\ Frames(i)

\* The invariant about images, with what it rests on.
Guarded == Holds /\ ImageTypes /\ Spared /\ ImagesKept

\* No image is none, and what a record names is there to stay.
LEMMA SafeRecord ==
  ASSUME Guarded, NEW i \in Inst
  PROVE  /\ NoImage \notin AllImages /\ NoImage \notin doomed
         /\ i \in Managed => {rec[i].image, rec[i].candidate} \subseteq Safe
         /\ rec[i].kept = "no" => rec[i].image = NoImage /\ rec[i].candidate = NoImage
         /\ got[i] \in Safe
         /\ Works(i) => i \in Managed
  <1>1. NoImage \notin AllImages
    BY TagsAssumption DEF AllImages
  <1>2. NoImage \notin doomed
    BY <1>1 DEF Guarded, ImageTypes
  <1>3. i \in Managed <=> rec[i].kept # "no" /\ rec[i].intended # "deleted"
    BY DEF Managed
  <1>4. i \in Managed => {rec[i].image, rec[i].candidate} \subseteq Safe
    BY <1>3 DEF Guarded, Spared, ImagesKept, Safe
  <1>5. got[i] \in Safe
    BY DEF Guarded, Spared, ImagesKept, Safe
  <1>6. rec[i].kept = "no" => rec[i].image = NoImage /\ rec[i].candidate = NoImage
    BY DEF Guarded, Holds, Sound, Recorded, NoRecord
  <1>7. Works(i) => i \in Managed
    BY <1>3 DEF Guarded, Holds, Sound, Lined
  <1>8. QED
    BY <1>1, <1>2, <1>4, <1>5, <1>6, <1>7

\* A step that writes nothing but what is there to stay keeps the images.
LEMMA FrameKeeps ==
  ASSUME Guarded, NEW i \in Inst, Frames(i), rec'[i].image \in Safe, rec'[i].candidate \in Safe
  PROVE  Spared' /\ ImagesKept'
  <1>1. rec'[i].image \in Safe /\ rec'[i].candidate \in Safe
    OBVIOUS
  <1>2. doomed \subseteq artifacts /\ Brought \notin artifacts /\ NoImage \notin doomed
    BY SafeRecord DEF Guarded, Spared
  <1>3. ASSUME NEW j \in Inst
        PROVE  /\ got'[j] # NoImage => pc'[j] \in {"build", "write"} /\ doomed = {}
               /\ box'[j].state # "absent" => box'[j].image \in images
               /\ rec'[j].kept # "no" /\ rec'[j].intended # "deleted" =>
                     {rec'[j].image, rec'[j].candidate} \cap doomed = {} /\ {rec'[j].image, rec'[j].candidate} \subseteq images \cup {NoImage}
               /\ got'[j] \in images \cup {NoImage}
    <2>1. CASE j = i
      BY <1>1, <1>2, <2>1 DEF Frames, Guarded, Spared, ImagesKept, Safe
    <2>2. CASE j # i
      <3>1. rec'[j] = rec[j] /\ pc'[j] = pc[j] /\ got'[j] = got[j] /\ box'[j] = box[j]
        BY <2>2 DEF Frames
      <3>2. QED
        BY <3>1 DEF Guarded, Spared, ImagesKept, Managed
    <2>3. QED
      BY <2>1, <2>2
  <1>4. images' = images /\ doomed' = doomed /\ artifacts' = artifacts
    BY DEF Frames
  <1>5. Spared'
    BY <1>2, <1>3, <1>4 DEF Spared, Managed
  <1>6. ImagesKept'
    BY <1>3, <1>4 DEF ImagesKept
  <1>7. QED
    BY <1>5, <1>6

\* An operation that names what it knows keeps the images.
LEMMA WithinKeeps ==
  ASSUME Guarded, NEW i \in Inst, i \in Managed \/ rec[i].kept = "no", StaysWithin(i)
  PROVE  Spared' /\ ImagesKept'
  <1>1. NoImage \in Safe
    BY DEF Safe
  <1>2. {rec[i].image, rec[i].candidate, got[i], NoImage} \subseteq Safe
    BY <1>1, SafeRecord
  <1>3. rec'[i].image \in Safe /\ rec'[i].candidate \in Safe /\ Frames(i)
    BY <1>2 DEF StaysWithin, Names, FromKnown, Known
  <1>4. QED
    BY <1>3, FrameKeeps

\* An operation that begins, that goes on, or that a call fails.
LEMMA OperationKeeps ==
  ASSUME Guarded, NEW i \in Inst,
         \/ Begins(i) \/ Drained(i) \/ AfterBuild(i) \/ Publish(i) \/ Probed(i) \/ Halt(i) \/ AfterHalt(i)
         \/ RemoveContainer(i) \/ AfterRemove(i) \/ CreateContainer(i) \/ AfterCreate(i) \/ StartContainer(i)
         \/ AfterStart(i) \/ Ready(i) \/ EraseDirectory(i) \/ EraseVolume(i) \/ AfterErase(i) \/ Raises(i)
  PROVE  Spared' /\ ImagesKept'
  <1>1. Types /\ ImageTypes /\ InTurn(i)
    BY DEF Guarded, Holds, Sound
  <1>2. /\ box[i].state # "absent" => box[i].image \in images
        /\ pc[i] \notin {"build", "write"} => got[i] = NoImage
    BY DEF Guarded, Spared
  <1>3. got = [j \in Inst |-> got[j]] /\ pc = [j \in Inst |-> pc[j]] /\ box = [j \in Inst |-> box[j]]
    BY <1>1 DEF Types, ImageTypes
  <1>4. /\ FromKnown(i, rec[i]) /\ FromKnown(i, Same(i)) /\ FromKnown(i, MarkPrepared(i))
        /\ FromKnown(i, Intend(i, "running")) /\ FromKnown(i, Intend(i, "stopped"))
        /\ FromKnown(i, RecordPreparation(i, got[i])) /\ FromKnown(i, StageCandidate(i, got[i]))
        /\ FromKnown(i, Selection(i, rec[i].candidate)) /\ FromKnown(i, Release(i, Storage))
    BY <1>1, KnownRecords DEF IntendedState
  \* What ends, goes on or refuses moves itself only.
  <1>5. ASSUME NEW record, FromKnown(i, record), Write(i, record) \/ (rec' = rec /\ record = rec[i]),
               (\E call : Call(i, call)) \/ (\E state : End(i, state))
        PROVE  Names(i)
    <2>1. \E call : pc' = [pc EXCEPT ![i] = call]
      BY <1>5 DEF Call, End
    <2>2. QED
      BY <1>1, <1>5, <2>1, WritesKnown, LeavesRecords
  <1>6. ASSUME World' = World, Names(i), pc[i] \notin {"build", "write"}
        PROVE  StaysWithin(i)
    BY <1>2, <1>6 DEF StaysWithin, Frames, Names, World, docker
  <1>7. ASSUME Begins(i) PROVE StaysWithin(i)
    <2>1. pc[i] = "idle"
      BY <1>7 DEF Begins, BeginBuild, BeginStart, BeginStop, BeginRecreate, BeginAdopt, BeginRemove, BeginRestore,
                  BeginDelete, ReplaceSecrets, Takes
    <2>2. CASE BeginBuild(i) \/ BeginStart(i) \/ BeginStop(i) \/ BeginRecreate(i) \/ BeginAdopt(i)
      <3>1. World' = World
        BY <2>2 DEF BeginBuild, BeginStart, BeginStop, BeginRecreate, BeginAdopt
      <3>2. CASE BeginBuild(i)
        <4>1. Call(i, "build") /\ rec' = rec
          BY <3>2 DEF BeginBuild
        <4>2. QED
          BY <1>4, <1>5, <1>6, <2>1, <3>1, <4>1
      <3>3. CASE BeginStart(i)
        <4>1. \/ End(i, "failed") /\ rec' = rec
              \/ TakeDown(i, Intend(i, "running"))
              \/ Write(i, Intend(i, "running")) /\ Call(i, "start")
          BY <3>3 DEF BeginStart, Refuse
        <4>2. QED
          BY <1>1, <1>4, <1>5, <1>6, <2>1, <3>1, <4>1, GoingDown
      <3>4. CASE BeginStop(i)
        <4>1. Write(i, Intend(i, "stopped")) /\ (Call(i, "probe") \/ End(i, "succeeded"))
          BY <3>4 DEF BeginStop, StopRunning
        <4>2. QED
          BY <1>4, <1>5, <1>6, <2>1, <3>1, <4>1
      <3>5. CASE BeginRecreate(i) \/ BeginAdopt(i)
        <4>1. TakeDown(i, Same(i))
          BY <3>5 DEF BeginRecreate, BeginAdopt
        <4>2. QED
          BY <1>1, <1>4, <1>6, <2>1, <3>1, <4>1, GoingDown
      <3>6. QED
        BY <1>6, <2>1, <2>2, <3>1, <3>2, <3>3, <3>4, <3>5
    <2>3. CASE BeginRemove(i) \/ BeginRestore(i) \/ BeginDelete(i)
      <3>1. World' = World
        BY <2>3 DEF BeginRemove, BeginRestore, BeginDelete
      <3>2. CASE BeginRemove(i) \/ BeginRestore(i)
        <4>1. \/ End(i, "failed") /\ rec' = rec
              \/ TakeDown(i, Intend(i, "stopped"))
              \/ Call(i, "create") /\ rec' = rec
          BY <3>2 DEF BeginRemove, BeginRestore, Refuse, CallCreate
        <4>2. QED
          BY <1>1, <1>4, <1>5, <1>6, <2>1, <3>1, <4>1, GoingDown
      <3>3. CASE BeginDelete(i)
        <4>1. (End(i, "failed") /\ rec' = rec) \/ EraseNext(i, rec[i].owns)
          BY <3>3 DEF BeginDelete, Refuse, DeletionTargets
        <4>2. QED
          BY <1>4, <1>5, <1>6, <2>1, <3>1, <4>1, ErasedRecord, <1>1
      <3>4. QED
        BY <2>3, <3>2, <3>3
    <2>4. CASE ReplaceSecrets(i)
      <3>1. /\ rec' = rec /\ got' = got /\ images' = images /\ doomed' = doomed /\ artifacts' = artifacts
            /\ \E state : End(i, state)
            /\ box' = box \/ box' = [box EXCEPT ![i].fresh = (@ /\ box[i].by # "hub")]
        BY <2>4 DEF ReplaceSecrets
      <3>2. /\ \A j \in Inst \ {i} : box'[j] = box[j]
            /\ box'[i].state = box[i].state /\ box'[i].image = box[i].image
        <4>1. box[i] \in Containers
          BY <1>1 DEF Types
        <4>2. QED
          BY <1>1, <3>1, <4>1 DEF Types, Containers
      <3>3. Names(i)
        BY <1>4, <1>5, <3>1
      <3>4. QED
        BY <1>2, <2>1, <3>1, <3>2, <3>3 DEF StaysWithin, Frames, Names
    <2>5. QED
      BY <1>7, <2>2, <2>3, <2>4 DEF Begins
  <1>8. ASSUME AfterBuild(i) \/ Publish(i) \/ Raises(i) PROVE StaysWithin(i)
    <2>1. CASE AfterBuild(i)
      <3>1. /\ images' = images /\ doomed' = doomed /\ artifacts' = artifacts /\ box' = box
            /\ \/ Call(i, "write") /\ rec' = rec /\ got' = got
               \/ TakeDown(i, StageCandidate(i, got[i])) /\ got' = [got EXCEPT ![i] = NoImage]
        BY <2>1 DEF AfterBuild, docker
      <3>2. Names(i)
        BY <1>1, <1>4, <1>5, <3>1, GoingDown
      <3>3. /\ \A j \in Inst \ {i} : got'[j] = got[j]
            /\ got'[i] = NoImage \/ (got'[i] = got[i] /\ pc'[i] = "write")
        BY <1>1, <3>1 DEF Call, Types, ImageTypes
      <3>4. QED
        BY <1>2, <3>1, <3>2, <3>3 DEF StaysWithin, Frames, Names
    <2>2. CASE Publish(i)
      <3>1. /\ images' = images /\ doomed' = doomed /\ artifacts' = artifacts /\ box' = box
            /\ Call(i, "create") /\ Write(i, RecordPreparation(i, got[i])) /\ got' = [got EXCEPT ![i] = NoImage]
        BY <2>2 DEF Publish, CallCreate
      <3>2. Names(i)
        BY <1>4, <1>5, <3>1
      <3>3. QED
        BY <1>1, <1>2, <3>1, <3>2 DEF StaysWithin, Frames, Names, ImageTypes
    <2>3. CASE Raises(i)
      <3>1. /\ images' = images /\ doomed' = doomed /\ artifacts' = artifacts /\ box' = box
            /\ End(i, "failed") /\ (Write(i, Release(i, Storage)) \/ rec' = rec) /\ got' = [got EXCEPT ![i] = NoImage]
        BY <2>3 DEF Raises, Discarded
      <3>2. Names(i)
        BY <1>4, <1>5, <3>1
      <3>3. QED
        BY <1>1, <1>2, <3>1, <3>2 DEF StaysWithin, Frames, Names, ImageTypes
    <2>4. QED
      BY <1>8, <2>1, <2>2, <2>3
  <1>9. ASSUME \/ Drained(i) \/ Probed(i) \/ AfterHalt(i) \/ AfterRemove(i) \/ AfterCreate(i) \/ AfterStart(i)
               \/ Ready(i) \/ AfterErase(i)
        PROVE  StaysWithin(i)
    <2>1. World' = World /\ pc[i] \notin {"build", "write"}
      BY <1>9 DEF Drained, Probed, AfterHalt, AfterRemove, AfterCreate, AfterStart, Ready, AfterErase, In, Answered, Storage
    <2>2. CASE Drained(i) \/ Probed(i) \/ AfterStart(i) \/ Ready(i)
      <3>1. rec' = rec /\ ((\E call : Call(i, call)) \/ (\E state : End(i, state)))
        BY <2>2 DEF Drained, Probed, AfterStart, Ready
      <3>2. QED
        BY <1>4, <1>5, <1>6, <2>1, <3>1
    <2>3. CASE AfterHalt(i)
      <3>1. (End(i, "succeeded") /\ rec' = rec) \/ IntoRemoval(i, Same(i))
        BY <2>3 DEF AfterHalt
      <3>2. QED
        BY <1>1, <1>4, <1>5, <1>6, <2>1, <3>1, GoingDown
    <2>4. CASE AfterRemove(i)
      <3>1. AfterRemoval(i, Same(i))
        BY <2>4 DEF AfterRemove
      <3>2. QED
        BY <1>1, <1>4, <1>6, <2>1, <3>1, GoingDown
    <2>5. CASE AfterCreate(i)
      <3>1. \/ Write(i, MarkPrepared(i)) /\ End(i, "succeeded")
            \/ Write(i, Intend(i, "stopped")) /\ End(i, "succeeded")
            \/ IntoRunning(i, Selection(i, rec[i].candidate))
            \/ IntoRunning(i, Same(i))
        BY <2>5 DEF AfterCreate
      <3>2. QED
        BY <1>1, <1>4, <1>5, <1>6, <2>1, <3>1, GoingDown
    <2>6. CASE AfterErase(i)
      <3>1. \E owns : EraseNext(i, owns)
        BY <2>6 DEF AfterErase
      <3>2. QED
        BY <1>1, <1>6, <2>1, <3>1, ErasedRecord
    <2>7. QED
      BY <1>9, <2>2, <2>3, <2>4, <2>5, <2>6
  <1>10. ASSUME \/ Halt(i) \/ RemoveContainer(i) \/ CreateContainer(i) \/ StartContainer(i) \/ EraseDirectory(i)
                \/ EraseVolume(i)
         PROVE  StaysWithin(i)
    <2>1. /\ rec' = rec /\ pc' = pc /\ got' = got /\ images' = images /\ doomed' = doomed /\ artifacts' = artifacts
          /\ pc[i] \notin {"build", "write"}
      BY <1>10 DEF Halt, RemoveContainer, CreateContainer, StartContainer, EraseDirectory, EraseVolume, Lands, In
    <2>2. Names(i)
      BY <1>4, <2>1 DEF Names
    <2>3. box[i] \in Containers
      BY <1>1 DEF Types
    <2>4. /\ \A j \in Inst \ {i} : box'[j] = box[j]
          /\ box'[i].state # "absent" => box'[i].image \in images
      <3>1. CASE EraseDirectory(i) \/ EraseVolume(i)
        BY <1>2, <3>1 DEF EraseDirectory, EraseVolume
      <3>2. CASE Halt(i)
        <4>1. \E s : box' = [box EXCEPT ![i].state = s] /\ (s # "absent" => box[i].state # "absent")
          BY <3>2 DEF Halt
        <4>2. QED
          BY <1>1, <1>2, <2>3, <4>1 DEF Types, Containers
      <3>3. CASE StartContainer(i)
        <4>1. box' = [box EXCEPT ![i].state = "running"] /\ box[i].state # "absent"
          BY <3>3 DEF StartContainer
        <4>2. QED
          BY <1>1, <1>2, <2>3, <4>1 DEF Types, Containers
      <3>4. CASE RemoveContainer(i)
        BY <1>1, <3>4 DEF RemoveContainer, NoBox, Types
      <3>5. CASE CreateContainer(i)
        BY <1>1, <3>5 DEF CreateContainer, HasImage, Types
      <3>6. QED
        BY <1>10, <3>1, <3>2, <3>3, <3>4, <3>5
    <2>5. QED
      BY <1>2, <2>1, <2>2, <2>4 DEF StaysWithin, Frames, Names
  <1>11. i \in Managed
    <2>1. Works(i)
      BY DEF Begins, BeginBuild, BeginStart, BeginStop, BeginRecreate, BeginAdopt, BeginRemove, BeginRestore, BeginDelete,
             ReplaceSecrets, Takes, Drained, AfterBuild, Publish, Probed, Halt, AfterHalt, RemoveContainer, AfterRemove,
             CreateContainer, AfterCreate, StartContainer, AfterStart, Ready, EraseDirectory, EraseVolume, AfterErase,
             Raises, Lands, Answered, In
    <2>2. QED
      BY <2>1, SafeRecord
  <1>12. StaysWithin(i)
    BY <1>7, <1>8, <1>9, <1>10
  <1>13. QED
    BY <1>11, <1>12, WithinKeeps

\* What is asked, but for a creation and an adoption, and what only looks, moves no image.
LEMMA StillKeeps ==
  ASSUME Guarded, rec' = rec, pc' = pc, got' = got, images' = images, doomed' = doomed, artifacts' = artifacts,
         \A j \in Inst : box'[j].state # "absent" => box[j].state # "absent" /\ box'[j].image = box[j].image
  PROVE  Spared' /\ ImagesKept'
  BY DEF Guarded, Spared, ImagesKept, Managed

\* A request keeps the images; an adoption names the image of a container that is there.
LEMMA RequestKeeps ==
  ASSUME Guarded, NEW i \in Inst, Requests(i)
  PROVE  Spared' /\ ImagesKept'
  <1>1. Types /\ ImageTypes /\ InTurn(i) /\ Recorded(i) /\ rec[i] \in Records
    BY DEF Guarded, Holds, Sound, Types
  <1>2. /\ pc' = pc /\ got' = got /\ images' = images /\ doomed' = doomed /\ artifacts' = artifacts /\ box' = box
    BY DEF Requests, Create, Start, Recreate, Update, SetSecrets, Remove, Restore, Delete, Adopt, SignIn, Stop,
           Ask, docker, registry, tasks
  <1>3. CASE rec' = rec
    BY <1>2, <1>3, StillKeeps
  <1>4. rec' = rec \/ Create(i) \/ Adopt(i)
    BY DEF Requests, Start, Recreate, Update, SetSecrets, Remove, Restore, Delete, SignIn, Stop, Ask, registry
  <1>5. ASSUME \A j \in Inst \ {i} : rec'[j] = rec[j] PROVE Frames(i)
    BY <1>2, <1>5 DEF Frames, Guarded, Spared
  <1>6. CASE Create(i)
    <2>1. rec[i].kept = "no" /\ rec' = [rec EXCEPT ![i] = [rec[i] EXCEPT !.kept = "opened"]]
      BY <1>6 DEF Create, BeginCreate, Write
    <2>2. rec'[i].image = rec[i].image /\ rec'[i].candidate = rec[i].candidate /\ \A j \in Inst \ {i} : rec'[j] = rec[j]
      BY <1>1, <2>1 DEF Types, Records
    <2>3. rec'[i].image \in Safe /\ rec'[i].candidate \in Safe
      BY <2>1, <2>2, SafeRecord DEF Safe
    <2>4. QED
      BY <1>5, <2>2, <2>3, FrameKeeps
  <1>7. CASE Adopt(i)
    <2>1. /\ i \in Foreign /\ box[i].state # "absent" /\ rec[i].kept # "prepared"
          /\ \E s : rec' = [rec EXCEPT ![i] = [rec[i] EXCEPT !.kept = "opened", !.owns = Storage,
                                                             !.image = box[i].image, !.intended = s]]
      BY <1>7 DEF Adopt, BeginAdoption, Write
    <2>2. rec'[i].image = box[i].image /\ rec'[i].candidate = rec[i].candidate /\ \A j \in Inst \ {i} : rec'[j] = rec[j]
      BY <1>1, <2>1 DEF Types, Records
    <2>3. box[i].image \in Safe
      BY <1>1, <2>1 DEF Recorded, Guarded, Spared, Safe
    <2>4. rec[i].candidate \in Safe
      <3>1. rec[i].kept = "no" \/ i \in Managed
        BY <1>1, <2>1 DEF Recorded, Managed
      <3>2. QED
        BY <3>1, SafeRecord DEF Safe
    <2>5. QED
      BY <1>5, <2>2, <2>3, <2>4, FrameKeeps
  <1>8. QED
    BY <1>3, <1>4, <1>6, <1>7

\* A container that stops, a sign-in that ends, a record that recovery looks at.
LEMMA LookKeeps ==
  ASSUME Guarded, NEW i \in Inst, Exits(i) \/ SignInEnds(i) \/ Recover(i) \/ Unavailable(i)
  PROVE  Spared' /\ ImagesKept'
  <1>1. Types /\ ImageTypes /\ InTurn(i) /\ Recorded(i) /\ box[i] \in Containers
    BY DEF Guarded, Holds, Sound, Types
  <1>2. CASE Exits(i)
    <2>1. /\ rec' = rec /\ pc' = pc /\ got' = got /\ images' = images /\ doomed' = doomed /\ artifacts' = artifacts
          /\ box' = [box EXCEPT ![i].state = "stopped"] /\ box[i].state = "running"
      BY <1>2 DEF Exits, registry, memory, tasks
    <2>2. \A j \in Inst : box'[j].state # "absent" => box[j].state # "absent" /\ box'[j].image = box[j].image
      BY <1>1, <2>1 DEF Types, Containers
    <2>3. QED
      BY <2>1, <2>2, StillKeeps
  <1>3. CASE SignInEnds(i) \/ Unavailable(i)
    BY <1>3, StillKeeps DEF SignInEnds, Unavailable, Looks, registry, tasks, docker
  <1>4. CASE Recover(i)
    <2>1. /\ pc' = pc /\ got' = got /\ images' = images /\ doomed' = doomed /\ artifacts' = artifacts /\ box' = box
          /\ Write(i, Reconciled(i)) /\ i \in recovering
      BY <1>4 DEF Recover, Looks, docker
    <2>2. i \in Managed
      BY <1>1, <2>1 DEF Recorded, Managed
    <2>3. Reconciled(i) \in {Same(i), MarkPrepared(i), Intend(i, "stopped"), Intend(i, "removed"),
                             Selection(i, rec[i].candidate)}
      BY DEF Reconciled, Unclaimed, Retained, UnfinishedRemoval
    <2>4. FromKnown(i, Reconciled(i))
      BY <1>1, <2>3, KnownRecords DEF IntendedState
    <2>5. Names(i)
      BY <1>1, <2>1, <2>4 DEF Names, Write, Types
    <2>6. Frames(i)
      BY <2>1, <2>5 DEF Frames, Names, Guarded, Spared
    <2>7. QED
      BY <2>2, <2>5, <2>6, WithinKeeps DEF StaysWithin
  <1>5. QED
    BY <1>2, <1>3, <1>4

\* An image that was built is not one that is to go.
LEMMA BuildKeeps ==
  ASSUME Guarded, Brought \notin Images, NEW i \in Inst, NEW image \in Images, ImageBuilt(i, image)
  PROVE  Spared' /\ ImagesKept'
  <1>1. /\ rec' = rec /\ pc' = pc /\ box' = box /\ doomed' = doomed /\ doomed = {} /\ pc[i] = "build"
        /\ images' = images \cup {image} /\ artifacts' = artifacts \cup {image} /\ got' = [got EXCEPT ![i] = image]
    BY DEF ImageBuilt, Lands, RecordArtifact, In
  <1>2. QED
    BY <1>1 DEF Guarded, Spared, ImagesKept, Managed, ImageTypes

\* A collection begins: while an image is being built there is none, and what it takes no record names.
LEMMA CollectKeeps ==
  ASSUME Guarded, Collect
  PROVE  Spared' /\ ImagesKept'
  <1>1. /\ rec' = rec /\ pc' = pc /\ got' = got /\ images' = images /\ artifacts' = artifacts /\ box' = box
        /\ doomed' = IF PreparingImages THEN {} ELSE UnreferencedImages
    BY DEF Collect, registry, tasks, docker
  <1>2. ASSUME NEW i \in Inst, got[i] # NoImage PROVE doomed' = {}
    <2>1. pc[i] \in {"build", "write"} /\ Types /\ InTurn(i) /\ UnderWay(i)
      BY <1>2 DEF Guarded, Spared, Holds, Sound
    <2>2. Works(i) /\ Kind(i) \in {"create", "update"}
      BY <2>1 DEF InTurn, UnderWay, Has
    <2>3. Op(i) \in Unfinished(i)
      BY <2>1, <2>2, HeadIs DEF InTurn, Unfinished
    <2>4. PreparingImages
      BY <2>2, <2>3 DEF PreparingImages, Kind
    <2>5. QED
      BY <1>1, <2>4
  <1>3. doomed' \subseteq artifacts /\ \A i \in Managed : {rec[i].image, rec[i].candidate} \cap doomed' = {}
    BY <1>1 DEF UnreferencedImages, Named
  <1>4. Spared'
    BY <1>1, <1>2, <1>3 DEF Guarded, Spared, Managed
  <1>5. ImagesKept'
    BY <1>1 DEF Guarded, ImagesKept
  <1>6. QED
    BY <1>4, <1>5

\* A collection goes on.
LEMMA RemovalKeeps ==
  ASSUME Guarded, NEW image \in AllImages, RemoveImage(image)
  PROVE  Spared' /\ ImagesKept'
  <1>1. /\ rec' = rec /\ pc' = pc /\ got' = got /\ box' = box /\ image \in doomed /\ doomed' = doomed \ {image}
        /\ \/ images' = images /\ artifacts' = artifacts
           \/ /\ images' = images \ {image} /\ artifacts' = artifacts \ {image}
              /\ \A j \in Inst : box[j].state # "absent" => box[j].image # image
    BY DEF RemoveImage, ForgetImage, tasks
  <1>2. \A i \in Inst : got[i] = NoImage
    BY <1>1 DEF Guarded, Spared
  <1>3. Spared'
    BY <1>1, <1>2 DEF Guarded, Spared, Managed
  <1>4. ImagesKept'
    BY <1>1, <1>2 DEF Guarded, Spared, ImagesKept, Managed
  <1>5. QED
    BY <1>3, <1>4

\* A restarted hub remembers no collection and nothing it was building.
LEMMA RestartKeeps ==
  ASSUME Guarded, RestartHub
  PROVE  Spared' /\ ImagesKept'
  <1>1. /\ rec' = rec /\ box' = box /\ images' = images /\ artifacts' = artifacts /\ doomed' = {}
        /\ \A i \in Inst : got'[i] = NoImage
    BY DEF RestartHub
  <1>2. QED
    BY <1>1 DEF Guarded, Spared, ImagesKept, Managed

\* A collection of images takes none that a record selects or has staged, nor one just built, so
\* long as no image another manager brought is one this hub builds (images.py collect,
\* registry.py unreferenced_images, preparing_images).
THEOREM ImagesStay ==
  ASSUME Brought \notin Images \cup {Given}
  PROVE  Spec => []ImagesKept
  <1>1. Init => Guarded
    <2>1. SUFFICES ASSUME Init PROVE Guarded
      OBVIOUS
    <2>2. Holds /\ ImageTypes
      BY <2>1, Initial
    <2>3. artifacts \subseteq {Given} /\ doomed = {} /\ images = {Given, Brought} /\ \A i \in Inst : got[i] = NoImage
      BY <2>1 DEF Init
    <2>4. ASSUME NEW i \in Inst
          PROVE  /\ {rec[i].image, rec[i].candidate} \subseteq images \cup {NoImage}
                 /\ box[i].state # "absent" => box[i].image \in images
      <3>1. CASE i \in Existing
        BY <2>1, <2>3, <3>1 DEF Init
      <3>2. CASE i \notin Existing /\ i \in Foreign
        BY <2>1, <2>3, <3>2 DEF Init, NoRecord
      <3>3. CASE i \notin Existing /\ i \notin Foreign
        BY <2>1, <2>3, <3>3 DEF Init, NoRecord, NoBox
      <3>4. QED
        BY <3>1, <3>2, <3>3
    <2>5. QED
      BY <2>2, <2>3, <2>4 DEF Guarded, Spared, ImagesKept
  <1>2. Guarded /\ [Next]_vars => Guarded'
    <2>1. SUFFICES ASSUME Guarded, [Next]_vars PROVE Guarded'
      OBVIOUS
    <2>2. Holds' /\ ImageTypes'
      BY <2>1, Inductive DEF Guarded
    <2>3. Spared' /\ ImagesKept'
      <3>1. ASSUME UNCHANGED vars PROVE Spared' /\ ImagesKept'
        BY <2>1, <3>1, StillKeeps DEF vars, registry, memory, tasks, docker
      <3>2. ASSUME NEW i \in Inst, GoesOn(i) \/ Drained(i) PROVE Spared' /\ ImagesKept'
        BY <2>1, <3>2, OperationKeeps, BuildKeeps DEF GoesOn
      <3>3. QED
        BY <2>1, <3>1, <3>2, RequestKeeps, LookKeeps, CollectKeeps, RemovalKeeps, RestartKeeps DEF Next
    <2>4. QED
      BY <2>2, <2>3 DEF Guarded
  <1>3. Guarded => ImagesKept
    BY DEF Guarded
  <1>4. QED
    BY <1>1, <1>2, <1>3, PTL DEF Spec

=============================================================================
