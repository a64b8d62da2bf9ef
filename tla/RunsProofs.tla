----------------------------- MODULE RunsProofs -----------------------------
(***************************************************************************)
(* Proofs about the work of a hub's instances (MCRuns): the tool calls of  *)
(* one turn, whatever tools, files, messages and restarts there are; the   *)
(* runs of a factory, from FactoryRunsProofs; and what a run holds, for    *)
(* every factory the check passes and any number of attempts.              *)
(***************************************************************************)
EXTENDS MCRuns, FiniteSetTheorems, SequenceTheorems, WellFoundedInduction, TLAPS

-----------------------------------------------------------------------------
(* What holds of a turn's tool calls.                                      *)

TurnCalls == G!Calls
CallNo(i) == <<round, i>>

Nodes == [granted : SUBSET Tools, marked : SUBSET Tools, met : Nat,
          verdicts : Seq([allows : BOOLEAN, by : {"policy", "user"}])]
Checkpoints == [waits : BOOLEAN, answers : Seq(G!Decisions)]

TurnTypes ==
    /\ place \in {"admitted", "code", "model", "gate", "asking", "parked", "answered", "run", "closed"}
    /\ round \in Nat /\ msg \in Seq(Tools) /\ Len(msg) <= MaxCalls /\ next \in Nat \ {0}
    /\ node \in Nodes
    /\ state \in [granted : SUBSET Tools, marked : SUBSET Tools]
    /\ grants \in SUBSET Tools /\ marks \in SUBSET Tools
    /\ answers \in Seq(G!Decisions) /\ saved \in Checkpoints
    /\ emitted \in SUBSET TurnCalls /\ quiet \in BOOLEAN
    /\ called \in [TurnCalls -> Nat] /\ ran \in [TurnCalls -> Nat]
    /\ said \in [TurnCalls -> G!Decisions \cup {"none"}] /\ asUser \in SUBSET TurnCalls /\ moved \in BOOLEAN

\* Nothing is logged, run or said of a message the model has yet to give; what is remembered as
\* logged was, and what ran as the user's ran.
Ahead ==
    /\ \A c \in TurnCalls : c[1] > round => called[c] = 0 /\ ran[c] = 0 /\ said[c] = "none"
    /\ place \in {"admitted", "code"} => /\ round = 0 /\ called[<<0, 1>>] = 0 /\ ran[<<0, 1>>] = 0
                                         /\ said[<<0, 1>>] = "none" /\ ~quiet
    /\ place \in {"admitted", "code", "model"} => answers = <<>> /\ ~quiet
    /\ place \in {"parked", "answered"} => quiet
    /\ place \in {"gate", "asking", "parked", "answered", "run"} => Len(msg) >= 1 /\ round \in 1..MaxRounds
    /\ place = "asking" => next <= Len(msg)
    /\ \A c \in emitted : called[c] > 0
    /\ \A c \in asUser : ran[c] > 0

\* Before the calls of a message run they are gated, however often: each that was logged is
\* remembered, or will be once the log is read again.
Gated ==
    /\ place \in {"gate", "asking", "parked", "answered"} =>
          \A i \in 1..MaxCalls : ran[CallNo(i)] = 0
    /\ place = "gate" => \A i \in 1..MaxCalls : called[CallNo(i)] > 0 => CallNo(i) \in emitted
    /\ place \in {"asking", "parked", "answered"} =>
          \/ emitted = {}
          \/ \A i \in 1..MaxCalls : called[CallNo(i)] > 0 => CallNo(i) \in emitted
    /\ place = "run" => \A i \in 1..MaxCalls : i >= next => ran[CallNo(i)] = 0
    /\ place = "run" /\ next > 1 => ~quiet

\* Nothing ran of the message that an open request is about, which a restart parks at again.
Open ==
    quiet /\ place # "closed" =>
        /\ asked[1] = round /\ asked[2] \in 1..Len(msg) /\ asked = CallNo(asked[2])
        /\ Len(msg) >= 1 /\ round \in 1..MaxRounds
        /\ \A i \in 1..MaxCalls : ran[CallNo(i)] = 0
        /\ place = "answered" => said[asked] \in G!Decisions

OnceEach == \A c \in TurnCalls : ran[c] <= 1 /\ called[c] <= 1

\* What the calls before the i-th were answered, as the graph's state and the answers have it.
HasAnswer(i) == said[CallNo(i)] # "none"
GrantedAt(i) == state.granted \cup {msg[l] : l \in {k \in 1..(i - 1) : said[CallNo(k)] = "grant"}}
MarkedAt(i) == state.marked \cup {msg[l] : l \in {k \in 1..(i - 1) : said[CallNo(k)] = "mark"}}
Asks(i) == G!Evaluate(msg[i], GrantedAt(i), MarkedAt(i)) = "ask"

\* The answers of q are those to the calls of B, in their order.
Enumerates(e, q, B) ==
    /\ e \in [1..Len(q) -> B]
    /\ \A k, m \in 1..Len(q) : k < m => e[k] < e[m]
    /\ \A i \in B : \E k \in 1..Len(q) : e[k] = i
    /\ \A k \in 1..Len(q) : q[k] = said[CallNo(e[k])]
OfCalls == {i \in 1..Len(msg) : HasAnswer(i)}

\* Only calls that ask were answered, and every call that asks before one that was.
Rightly ==
    \A i \in OfCalls : Asks(i) /\ \A l \in 1..(i - 1) : Asks(l) => HasAnswer(l)

AtTheGate ==
    /\ next <= Len(msg) + 1
    /\ node.granted = GrantedAt(next) /\ node.marked = MarkedAt(next)
    /\ Len(node.verdicts) = next - 1
    /\ \A i \in 1..(next - 1) : /\ (node.verdicts[i].by = "user") <=> HasAnswer(i)
                                /\ HasAnswer(i) => (node.verdicts[i].allows <=> said[CallNo(i)] # "deny")
                                /\ Asks(i) => HasAnswer(i)
    /\ node.met \in 0..Len(answers)
    /\ \E e : /\ Enumerates(e, answers, OfCalls)
              /\ \A k \in 1..Len(answers) : e[k] < next <=> k <= node.met
    /\ \A i \in next..Len(msg) : called[CallNo(i)] > 0 => \E j \in OfCalls : i <= j
    /\ quiet => HasAnswer(asked[2])

\* The checkpoint holds the answers to the calls before the one that asks.
Asking ==
    /\ \E e : Enumerates(e, saved.answers, OfCalls)
    /\ Asks(next) /\ \A i \in OfCalls : i < next
    /\ \A l \in 1..(next - 1) : Asks(l) => HasAnswer(l)
    /\ \A i \in 1..Len(msg) : i > next => called[CallNo(i)] = 0
    /\ ~quiet

AtTheRun ==
    /\ Len(node.verdicts) = Len(msg)
    /\ \A i \in 1..Len(msg) : /\ (node.verdicts[i].by = "user") <=> HasAnswer(i)
                              /\ HasAnswer(i) => (node.verdicts[i].allows <=> said[CallNo(i)] # "deny")
    /\ quiet => HasAnswer(asked[2])

\* While a request is the last of the log, the checkpoint holds the answers before it.
Waiting ==
    /\ \E e : Enumerates(e, saved.answers, OfCalls \ {asked[2]})
    /\ Asks(asked[2]) /\ \A i \in OfCalls : i <= asked[2]
    /\ \A l \in 1..(asked[2] - 1) : Asks(l) => HasAnswer(l)
    /\ \A i \in 1..Len(msg) : i > asked[2] => called[CallNo(i)] = 0
    /\ place = "answered" => HasAnswer(asked[2])

Meeting ==
    /\ G!Own
    /\ place \notin {"admitted", "code", "model", "closed"} => Rightly
    /\ place = "gate" => AtTheGate
    /\ place = "asking" => Asking
    /\ place = "run" => AtTheRun
    /\ quiet /\ place # "closed" => Waiting

Replayed == TurnTypes /\ Ahead /\ Gated /\ Open /\ OnceEach
TurnIInv == Replayed /\ (moved \/ Meeting) /\ G!NoStaleGrant

-----------------------------------------------------------------------------
(* Calls, and what the actions do.                                         *)

LEMMA CallSet ==
  /\ MaxCalls \in Nat \ {0} /\ MaxRounds \in Nat /\ CodeStep \in Tools /\ Authored \subseteq Tools
  /\ \A r \in 0..MaxRounds, i \in 1..MaxCalls : <<r, i>> \in TurnCalls
  /\ \A c \in TurnCalls : c[1] \in 0..MaxRounds /\ c[2] \in 1..MaxCalls /\ c = <<c[1], c[2]>>
  BY TurnAssumption DEF TurnCalls, G!Calls

\* The calls of the last message.
LEMMA OfRound ==
  ASSUME round \in 0..MaxRounds
  PROVE  \A i \in 1..MaxCalls : CallNo(i) \in TurnCalls /\ CallNo(i)[1] = round /\ CallNo(i)[2] = i
  BY CallSet DEF CallNo

\* A tool's call is denied, allowed or asked about.
LEMMA Verdicts ==
  ASSUME NEW t, NEW g, NEW m PROVE G!Evaluate(t, g, m) \in {"allow", "deny", "ask"}
  BY DEF G!Evaluate

LEMMA GateCallDoes ==
  ASSUME G!GateCall
  PROVE  /\ place = "gate" /\ next <= Len(msg)
         /\ \/ CallNo(next) \in emitted /\ UNCHANGED <<emitted, called, quiet>>
            \/ /\ CallNo(next) \notin emitted /\ emitted' = emitted \cup {CallNo(next)} /\ quiet' = FALSE
               /\ called' = [called EXCEPT ![CallNo(next)] = @ + 1]
         /\ LET action == G!Evaluate(msg[next], node.granted, node.marked) IN
            \/ /\ action # "ask" /\ next' = next + 1 /\ UNCHANGED <<place, saved>>
               /\ node' = [node EXCEPT !.verdicts =
                             Append(@, [allows |-> (action = "allow"), by |-> "policy"])]
            \/ /\ action = "ask" /\ node.met < Len(answers) /\ next' = next + 1 /\ UNCHANGED <<place, saved>>
               /\ LET d == answers[node.met + 1] IN
                  node' = [granted |-> node.granted \cup (IF d = "grant" THEN {msg[next]} ELSE {}),
                           marked |-> node.marked \cup (IF d = "mark" THEN {msg[next]} ELSE {}),
                           met |-> node.met + 1,
                           verdicts |-> Append(node.verdicts, [allows |-> d # "deny", by |-> "user"])]
            \/ /\ action = "ask" /\ ~(node.met < Len(answers)) /\ place' = "asking"
               /\ saved' = [waits |-> TRUE, answers |-> answers] /\ UNCHANGED <<node, next>>
         /\ UNCHANGED <<policy, grants, marks, loaded, state, msg, round, answers, asked, ran, said, asUser,
                        given, moved, edited, edits, restarts>>
  <1> DEFINE action == G!Evaluate(msg[next], node.granted, node.marked)
  <1>1. CASE action # "ask"
    BY <1>1 DEF G!GateCall, G!LogCall, G!LogSomething, G!Call, G!Tool, G!Verdict, G!files, G!history, CallNo
  <1>2. CASE action = "ask" /\ node.met < Len(answers)
    BY <1>2 DEF G!GateCall, G!LogCall, G!LogSomething, G!Call, G!Tool, G!MeetAnswer, G!files, G!history, CallNo
  <1>3. CASE action = "ask" /\ ~(node.met < Len(answers))
    BY <1>3 DEF G!GateCall, G!LogCall, G!LogSomething, G!Call, G!Tool, G!Stop, G!files, G!history, CallNo
  <1>4. QED
    BY <1>1, <1>2, <1>3

-----------------------------------------------------------------------------
(* No call is logged or run twice.                                         *)

LEMMA GateCallReplayed ==
  ASSUME Replayed, G!GateCall PROVE Replayed'
  <1> DEFINE action == G!Evaluate(msg[next], node.granted, node.marked)
             d == answers[node.met + 1]
  <1>1. /\ place = "gate" /\ next <= Len(msg)
        /\ \/ CallNo(next) \in emitted /\ UNCHANGED <<emitted, called, quiet>>
           \/ /\ CallNo(next) \notin emitted /\ emitted' = emitted \cup {CallNo(next)} /\ quiet' = FALSE
              /\ called' = [called EXCEPT ![CallNo(next)] = @ + 1]
        /\ \/ /\ next' = next + 1 /\ UNCHANGED <<place, saved>>
              /\ node' = [node EXCEPT !.verdicts = Append(@, [allows |-> (action = "allow"), by |-> "policy"])]
           \/ /\ node.met < Len(answers) /\ next' = next + 1 /\ UNCHANGED <<place, saved>>
              /\ node' = [granted |-> node.granted \cup (IF d = "grant" THEN {msg[next]} ELSE {}),
                          marked |-> node.marked \cup (IF d = "mark" THEN {msg[next]} ELSE {}),
                          met |-> node.met + 1,
                          verdicts |-> Append(node.verdicts, [allows |-> d # "deny", by |-> "user"])]
           \/ /\ place' = "asking" /\ saved' = [waits |-> TRUE, answers |-> answers]
              /\ UNCHANGED <<node, next>>
        /\ UNCHANGED <<policy, grants, marks, loaded, state, msg, round, answers, asked, ran, said, asUser,
                       given, moved, edited, edits, restarts>>
    BY GateCallDoes
  <1>2. TurnTypes /\ Ahead /\ Gated /\ Open /\ OnceEach
    BY DEF Replayed
  <1>3. /\ next \in 1..MaxCalls /\ round \in 0..MaxRounds /\ round \in 1..MaxRounds
        /\ CallNo(next) \in TurnCalls /\ msg[next] \in Tools
        /\ \A i \in 1..MaxCalls : CallNo(i) \in TurnCalls /\ CallNo(i)[1] = round /\ CallNo(i)[2] = i
    <2>1. next \in 1..Len(msg) /\ Len(msg) <= MaxCalls /\ Len(msg) \in Nat /\ round \in 1..MaxRounds
      BY <1>1, <1>2 DEF TurnTypes, Ahead
    <2>2. next \in 1..MaxCalls /\ round \in 0..MaxRounds
      BY <2>1, CallSet
    <2>3. QED
      BY <1>2, <2>1, <2>2, OfRound DEF TurnTypes
  <1>4. /\ called' \in [TurnCalls -> Nat] /\ emitted' \in SUBSET TurnCalls /\ quiet' \in BOOLEAN
        /\ \A c \in TurnCalls : c # CallNo(next) => called'[c] = called[c]
        /\ called'[CallNo(next)] > 0 /\ called'[CallNo(next)] <= 1 /\ CallNo(next) \in emitted'
        /\ \A c \in emitted : c \in emitted'
        /\ \A c \in emitted' : c # CallNo(next) => c \in emitted
        /\ quiet' => quiet
    <2>1. /\ called \in [TurnCalls -> Nat] /\ emitted \in SUBSET TurnCalls /\ quiet \in BOOLEAN
          /\ CallNo(next) \notin emitted => called[CallNo(next)] = 0
          /\ CallNo(next) \in emitted => called[CallNo(next)] > 0
          /\ called[CallNo(next)] <= 1 /\ called[CallNo(next)] \in Nat
      BY <1>1, <1>2, <1>3 DEF TurnTypes, Ahead, Gated, OnceEach
    <2>2. CASE CallNo(next) \in emitted /\ UNCHANGED <<emitted, called, quiet>>
      BY <2>1, <2>2, <1>3
    <2>3. CASE /\ CallNo(next) \notin emitted /\ emitted' = emitted \cup {CallNo(next)} /\ quiet' = FALSE
               /\ called' = [called EXCEPT ![CallNo(next)] = @ + 1]
      <3>1. called[CallNo(next)] = 0 /\ CallNo(next) \in TurnCalls
        BY <2>1, <2>3, <1>3
      <3>2. called' = [called EXCEPT ![CallNo(next)] = 1]
        BY <2>3, <3>1
      <3>3. /\ called' \in [TurnCalls -> Nat] /\ called'[CallNo(next)] = 1
            /\ \A c \in TurnCalls : c # CallNo(next) => called'[c] = called[c]
        BY <2>1, <3>1, <3>2
      <3>4. called'[CallNo(next)] > 0 /\ called'[CallNo(next)] <= 1
        BY <3>3
      <3>5. emitted' \in SUBSET TurnCalls /\ CallNo(next) \in emitted'
        BY <2>1, <2>3, <3>1
      <3>6. quiet' \in BOOLEAN
        BY <2>3
      <3>7. quiet' => quiet
        BY <2>3
      <3>8. /\ \A c \in emitted : c \in emitted'
            /\ \A c \in emitted' : c # CallNo(next) => c \in emitted
        BY <2>3
      <3>9. QED
        BY <3>3, <3>4, <3>5, <3>6, <3>7, <3>8
    <2>4. QED
      BY <1>1, <2>2, <2>3
  <1>5. TurnTypes'
    <2>1. node' \in Nodes
      <3> HIDE DEF action, d
      <3>1. node \in Nodes
        BY <1>2 DEF TurnTypes
      <3>2. \A b \in BOOLEAN, u \in {"policy", "user"} :
               Append(node.verdicts, [allows |-> b, by |-> u]) \in Seq([allows : BOOLEAN, by : {"policy", "user"}])
        BY <3>1 DEF Nodes
      <3>3. (action = "allow") \in BOOLEAN /\ (d # "deny") \in BOOLEAN
        OBVIOUS
      <3>4. CASE node' = node
        BY <3>1, <3>4
      <3>5. CASE node' = [node EXCEPT !.verdicts = Append(@, [allows |-> (action = "allow"), by |-> "policy"])]
        BY <3>1, <3>2, <3>3, <3>5 DEF Nodes
      <3>6. CASE node' = [granted |-> node.granted \cup (IF d = "grant" THEN {msg[next]} ELSE {}),
                          marked |-> node.marked \cup (IF d = "mark" THEN {msg[next]} ELSE {}),
                          met |-> node.met + 1,
                          verdicts |-> Append(node.verdicts, [allows |-> d # "deny", by |-> "user"])]
        BY <1>3, <3>1, <3>2, <3>3, <3>6 DEF Nodes
      <3>7. QED
        BY <1>1, <3>4, <3>5, <3>6
    <2>2. saved' \in Checkpoints /\ next' \in Nat \ {0}
          /\ place' \in {"gate", "asking"}
      <3> HIDE DEF action, d
      <3>1. saved \in Checkpoints /\ answers \in Seq(G!Decisions)
            /\ next \in Nat \ {0}
        BY <1>2 DEF TurnTypes
      <3>2. saved' = saved \/ saved' = [waits |-> TRUE, answers |-> answers]
        BY <1>1
      <3>3. next' = next + 1 \/ next' = next
        BY <1>1
      <3>4. QED
        <4>1. place' \in {"gate", "asking"}
          BY <1>1
        <4>2. next' \in Nat \ {0}
          BY <3>1, <3>3
        <4>3. saved' \in Checkpoints
          <5>1. [waits |-> TRUE, answers |-> answers] \in Checkpoints
            BY <3>1 DEF Checkpoints
          <5>2. QED
            BY <3>1, <3>2, <5>1
        <4>4. QED
          BY <4>1, <4>2, <4>3
    <2>3. QED
      BY <1>1, <1>2, <1>4, <2>1, <2>2 DEF TurnTypes
  <1>6. place' \in {"gate", "asking"} /\ (place' = "asking" => next' = next)
    BY <1>1
  <1>7. Ahead' /\ OnceEach'
    <2>1. \A c \in TurnCalls : c[1] > round' => called'[c] = 0 /\ ran'[c] = 0 /\ said'[c] = "none"
      BY <1>1, <1>2, <1>3, <1>4 DEF Ahead
    <2>2. \A c \in emitted' : called'[c] > 0
      BY <1>1, <1>2, <1>4 DEF Ahead, TurnTypes
    <2>3. QED
      BY <1>1, <1>2, <1>3, <1>4, <1>6, <2>1, <2>2 DEF Ahead, OnceEach
  <1>8. Gated' /\ Open'
    <2>1. \A i \in 1..MaxCalls : CallNo(i)' = CallNo(i)
      BY <1>1 DEF CallNo
    <2>2. \A i \in 1..MaxCalls : called'[CallNo(i)] > 0 => CallNo(i) \in emitted'
      BY <1>1, <1>2, <1>3, <1>4 DEF Gated
    <2>3. Gated'
      BY <1>1, <1>2, <1>3, <1>6, <2>1, <2>2 DEF Gated
    <2>4. Open'
      BY <1>1, <1>2, <1>4, <2>1 DEF Open, CallNo
    <2>5. QED
      BY <2>3, <2>4
  <1>9. QED
    BY <1>5, <1>7, <1>8 DEF Replayed

LEMMA BeginReplayed ==
  ASSUME Replayed, G!Begin PROVE Replayed'
  <1>1. /\ place = "admitted" /\ place' = "code" /\ state' = [granted |-> grants, marked |-> marks]
        /\ UNCHANGED <<grants, marks, msg, round, node, next, answers, saved, emitted, asked, quiet, called,
                       ran, said, asUser, moved>>
    BY DEF G!Begin, G!files, G!record, G!history
  <1>2. TurnTypes /\ Ahead /\ Gated /\ Open /\ OnceEach
    BY DEF Replayed
  <1>3. TurnTypes'
    BY <1>1, <1>2 DEF TurnTypes
  <1>4. Ahead'
    BY <1>1, <1>2 DEF Ahead
  <1>5. Gated' /\ Open' /\ OnceEach'
    BY <1>1, <1>2 DEF Gated, Open, Ahead, OnceEach
  <1>6. QED
    BY <1>3, <1>4, <1>5 DEF Replayed

LEMMA RunCodeStepReplayed ==
  ASSUME Replayed, G!RunCodeStep PROVE Replayed'
  <1> DEFINE c1 == <<0, 1>>
  <1>1. /\ place = "code" /\ place' \in {"model", "closed"} /\ quiet' = FALSE
        /\ called' = [called EXCEPT ![c1] = @ + 1]
        /\ ran' = [ran EXCEPT ![c1] = @ + 1] \/ ran' = ran
        /\ UNCHANGED <<grants, marks, state, msg, round, node, next, answers, saved, emitted, asked, said,
                       asUser, moved>>
    BY DEF G!RunCodeStep, G!Close, G!LogSomething, G!files, G!graph
  <1>2. TurnTypes /\ Ahead /\ Gated /\ Open /\ OnceEach
    BY DEF Replayed
  <1>3. round = 0 /\ called[c1] = 0 /\ ran[c1] = 0 /\ c1 \in TurnCalls /\ c1[1] = 0 /\ answers = <<>>
    BY <1>1, <1>2, CallSet DEF Ahead
  <1> HIDE DEF c1
  <1>4. /\ called' \in [TurnCalls -> Nat] /\ called'[c1] = 1 /\ \A c \in TurnCalls : c # c1 => called'[c] = called[c]
        /\ ran' \in [TurnCalls -> Nat] /\ ran'[c1] \in {0, 1} /\ \A c \in TurnCalls : c # c1 => ran'[c] = ran[c]
    <2>1. called \in [TurnCalls -> Nat] /\ ran \in [TurnCalls -> Nat]
      BY <1>2 DEF TurnTypes
    <2>2. called' = [called EXCEPT ![c1] = 1]
      BY <1>1, <1>3, <2>1
    <2>3. ran' = [ran EXCEPT ![c1] = 1] \/ ran' = ran
      BY <1>1, <1>3, <2>1
    <2>4. QED
      BY <1>3, <2>1, <2>2, <2>3
  <1>5. TurnTypes'
    BY <1>1, <1>2, <1>4 DEF TurnTypes
  <1>6. Ahead'
    <2>1. \A c \in TurnCalls : c[1] > round' => called'[c] = 0 /\ ran'[c] = 0 /\ said'[c] = "none"
      BY <1>1, <1>2, <1>3, <1>4 DEF Ahead
    <2>2. (\A c \in emitted' : called'[c] > 0) /\ (\A c \in asUser' : ran'[c] > 0)
      BY <1>1, <1>2, <1>3, <1>4 DEF Ahead, TurnTypes
    <2>3. QED
      BY <1>1, <1>2, <1>3, <2>1, <2>2 DEF Ahead
  <1>7. Gated' /\ Open' /\ OnceEach'
    BY <1>1, <1>2, <1>4 DEF Gated, Open, OnceEach
  <1>8. QED
    BY <1>5, <1>6, <1>7 DEF Replayed

LEMMA CallModelReplayed ==
  ASSUME Replayed, G!CallModel PROVE Replayed'
  <1>1. /\ place = "model" /\ quiet' = FALSE
        /\ UNCHANGED <<grants, marks, state, answers, saved, emitted, asked, called, ran, said, asUser, moved>>
    BY DEF G!CallModel, G!LogSomething, G!files, G!history
  <1>2. TurnTypes /\ Ahead /\ Gated /\ Open /\ OnceEach
    BY DEF Replayed
  <1>3. CASE place' = "closed" /\ UNCHANGED <<msg, round, node, next>>
    BY <1>1, <1>2, <1>3 DEF Replayed, TurnTypes, Ahead, Gated, Open, OnceEach
  <1>4. CASE /\ round < MaxRounds /\ round' = round + 1 /\ (\E n \in 1..MaxCalls : msg' \in [1..n -> G!Offered])
             /\ place' = "gate" /\ next' = 1
             /\ node' = [granted |-> state.granted, marked |-> state.marked, met |-> 0, verdicts |-> <<>>]
    <2>1. msg' \in Seq(Tools) /\ Len(msg') >= 1 /\ Len(msg') <= MaxCalls
      <3>1. PICK n \in 1..MaxCalls : msg' \in [1..n -> G!Offered]
        BY <1>4
      <3>2. msg' \in [1..n -> Tools]
        BY <3>1 DEF G!Offered
      <3>3. n \in Nat /\ n >= 1 /\ n <= MaxCalls
        BY <3>1, CallSet
      <3>4. QED
        BY <3>2, <3>3
    <2>2. node' \in Nodes /\ round' \in 1..MaxRounds /\ round' \in Nat /\ round \in Nat
      <3>1. <<>> \in Seq([allows : BOOLEAN, by : {"policy", "user"}])
        OBVIOUS
      <3>2. state.granted \in SUBSET Tools /\ state.marked \in SUBSET Tools /\ round \in Nat
        BY <1>2 DEF TurnTypes
      <3>3. QED
        BY <1>4, <3>1, <3>2, CallSet DEF Nodes
    <2>3. TurnTypes'
      <3>1. place' = "gate" /\ next' \in Nat \ {0} /\ quiet' \in BOOLEAN
        <4>1. quiet' \in BOOLEAN
          BY <1>1
        <4>2. place' = "gate" /\ next' \in Nat \ {0}
          BY <1>4
        <4>3. QED
          BY <4>1, <4>2
      <3>2. QED
        BY <1>1, <1>2, <2>1, <2>2, <3>1 DEF TurnTypes
    <2>4. Ahead'
      <3>1. \A c \in TurnCalls : c[1] > round' => c[1] > round
        BY <1>4, <2>2, CallSet
      <3>2. QED
        BY <1>1, <1>2, <1>4, <2>1, <2>2, <3>1 DEF Ahead
    <2>5. \A i \in 1..MaxCalls : called'[CallNo(i)'] = 0 /\ ran'[CallNo(i)'] = 0
      <3> SUFFICES ASSUME NEW i \in 1..MaxCalls PROVE called'[CallNo(i)'] = 0 /\ ran'[CallNo(i)'] = 0
        OBVIOUS
      <3>1. round' \in 0..MaxRounds /\ round' > round
        BY <1>4, <2>2
      <3>2. <<round', i>> \in TurnCalls /\ <<round', i>>[1] = round'
        BY <3>1, CallSet
      <3>3. QED
        BY <1>1, <1>2, <3>1, <3>2 DEF Ahead, CallNo
    <2>6. Gated' /\ Open' /\ OnceEach'
      BY <1>1, <1>2, <1>4, <2>5 DEF Gated, Open, OnceEach
    <2>7. QED
      BY <2>3, <2>4, <2>6 DEF Replayed
  <1>5. QED
    BY <1>3, <1>4 DEF G!CallModel, G!Close

LEMMA AllGatedReplayed ==
  ASSUME Replayed, G!AllGated PROVE Replayed'
  <1>1. /\ place = "gate" /\ place' = "run" /\ next' = 1
        /\ UNCHANGED <<grants, marks, state, msg, round, node, answers, saved, emitted, asked, quiet, called,
                       ran, said, asUser, moved>>
    BY DEF G!AllGated, G!files, G!record, G!history
  <1>2. TurnTypes /\ Ahead /\ Gated /\ Open /\ OnceEach
    BY DEF Replayed
  <1>3. next' \in Nat \ {0}
    BY <1>1
  <1>4. TurnTypes'
    BY <1>1, <1>2, <1>3 DEF TurnTypes
  <1>5. Ahead'
    BY <1>1, <1>2 DEF Ahead
  <1>6. Gated' /\ Open' /\ OnceEach'
    BY <1>1, <1>2 DEF Gated, Open, OnceEach, CallNo
  <1>7. QED
    BY <1>4, <1>5, <1>6 DEF Replayed

LEMMA RunCallReplayed ==
  ASSUME Replayed, G!RunCall PROVE Replayed'
  <1>1. /\ place = "run" /\ next <= Len(msg) /\ next' = next + 1 /\ quiet' = FALSE
        /\ \/ /\ ran' = [ran EXCEPT ![CallNo(next)] = @ + 1]
              /\ asUser' \in {asUser, asUser \cup {CallNo(next)}}
           \/ ran' = ran /\ asUser' = asUser
        /\ emitted' = emitted \ {CallNo(next)}
        /\ UNCHANGED <<grants, marks, place, state, msg, round, node, answers, saved, asked, called, said, moved>>
    BY DEF G!RunCall, G!LogSomething, G!Call, G!Tool, G!files, CallNo
  <1>2. TurnTypes /\ Ahead /\ Gated /\ Open /\ OnceEach
    BY DEF Replayed
  <1>3. /\ next \in 1..MaxCalls /\ round \in 0..MaxRounds /\ round \in 1..MaxRounds /\ CallNo(next) \in TurnCalls
        /\ \A i \in 1..MaxCalls : CallNo(i) \in TurnCalls /\ CallNo(i)[1] = round /\ CallNo(i)[2] = i
    <2>1. next \in 1..Len(msg) /\ Len(msg) <= MaxCalls /\ Len(msg) \in Nat /\ round \in 1..MaxRounds
      BY <1>1, <1>2 DEF TurnTypes, Ahead
    <2>2. next \in 1..MaxCalls /\ round \in 0..MaxRounds
      BY <2>1, CallSet
    <2>3. QED
      BY <2>1, <2>2, OfRound
  <1>4. ran[CallNo(next)] = 0
    BY <1>1, <1>2, <1>3 DEF Gated
  <1>5. /\ ran' \in [TurnCalls -> Nat] /\ ran'[CallNo(next)] \in {0, 1} /\ asUser' \in SUBSET TurnCalls
        /\ \A c \in TurnCalls : c # CallNo(next) => ran'[c] = ran[c]
        /\ \A c \in asUser' : ran'[c] > 0
    <2>1. ran \in [TurnCalls -> Nat] /\ asUser \in SUBSET TurnCalls /\ \A c \in asUser : ran[c] > 0
      BY <1>2 DEF TurnTypes, Ahead
    <2>2. CASE ran' = [ran EXCEPT ![CallNo(next)] = @ + 1] /\ asUser' \in {asUser, asUser \cup {CallNo(next)}}
      <3>1. ran' = [ran EXCEPT ![CallNo(next)] = 1]
        BY <1>3, <1>4, <2>1, <2>2
      <3>2. /\ ran' \in [TurnCalls -> Nat] /\ ran'[CallNo(next)] = 1
            /\ \A c \in TurnCalls : c # CallNo(next) => ran'[c] = ran[c]
        BY <1>3, <2>1, <3>1
      <3>3. QED
        BY <1>3, <2>1, <2>2, <3>2
    <2>3. CASE ran' = ran /\ asUser' = asUser
      BY <1>3, <1>4, <2>1, <2>3
    <2>4. QED
      BY <1>1, <2>2, <2>3
  <1>6. TurnTypes'
    <2>1. next' \in Nat \ {0}
      BY <1>1, <1>2 DEF TurnTypes
    <2>2. quiet' \in BOOLEAN
      BY <1>1
    <2>3. emitted' \in SUBSET TurnCalls
      BY <1>1, <1>2 DEF TurnTypes
    <2>4. QED
      BY <1>1, <1>2, <1>5, <2>1, <2>2, <2>3 DEF TurnTypes
  <1>7. Ahead'
    <2>1. \A c \in TurnCalls : c[1] > round' => called'[c] = 0 /\ ran'[c] = 0 /\ said'[c] = "none"
      BY <1>1, <1>2, <1>3, <1>5 DEF Ahead
    <2>2. \A c \in emitted' : called'[c] > 0
      BY <1>1, <1>2 DEF Ahead
    <2>3. QED
      BY <1>1, <1>2, <1>5, <2>1, <2>2 DEF Ahead
  <1>8. Gated' /\ Open' /\ OnceEach'
    <2>1. \A i \in 1..MaxCalls : i >= next' => ran'[CallNo(i)'] = 0
      <3> SUFFICES ASSUME NEW i \in 1..MaxCalls, i >= next' PROVE ran'[CallNo(i)'] = 0
        OBVIOUS
      <3>1. i # next /\ i >= next /\ CallNo(i)' = CallNo(i)
        BY <1>1, <1>3, CallSet DEF CallNo
      <3>2. CallNo(i) # CallNo(next) /\ CallNo(i) \in TurnCalls
        BY <1>3, <3>1
      <3>3. QED
        BY <1>1, <1>2, <1>5, <3>1, <3>2 DEF Gated
    <2>2. QED
      BY <1>1, <1>2, <1>5, <2>1 DEF Gated, Open, OnceEach
  <1>9. QED
    BY <1>6, <1>7, <1>8 DEF Replayed

LEMMA AllRanReplayed ==
  ASSUME Replayed, G!AllRan PROVE Replayed'
  <1>1. /\ place = "run" /\ next > Len(msg) /\ place' = "model" /\ answers' = <<>>
        /\ state' = [granted |-> node.granted, marked |-> node.marked]
        /\ UNCHANGED <<grants, marks, msg, round, node, next, saved, emitted, asked, quiet, called, ran, said,
                       asUser, moved>>
    BY DEF G!AllRan, G!files, G!record, G!history
  <1>2. TurnTypes /\ Ahead /\ Gated /\ Open /\ OnceEach
    BY DEF Replayed
  <1>3. ~quiet
    <2>1. next > 1
      BY <1>1, <1>2 DEF Ahead, TurnTypes
    <2>2. QED
      BY <1>1, <1>2, <2>1 DEF Gated
  <1>4. TurnTypes'
    BY <1>1, <1>2 DEF TurnTypes, Nodes
  <1>5. Ahead'
    BY <1>1, <1>2, <1>3 DEF Ahead
  <1>6. Gated' /\ Open' /\ OnceEach'
    BY <1>1, <1>2, <1>3 DEF Gated, Open, OnceEach
  <1>7. QED
    BY <1>4, <1>5, <1>6 DEF Replayed

LEMMA RequestReplayed ==
  ASSUME Replayed, G!Request PROVE Replayed'
  <1>1. /\ place = "asking" /\ place' = "parked" /\ asked' = CallNo(next) /\ quiet' = TRUE
        /\ UNCHANGED <<grants, marks, state, msg, round, node, next, answers, saved, emitted, called, ran, said,
                       asUser, moved>>
    BY DEF G!Request, G!files, G!graph, G!history, G!Call, CallNo
  <1>2. TurnTypes /\ Ahead /\ Gated /\ Open /\ OnceEach
    BY DEF Replayed
  <1>3. asked'[1] = round /\ asked'[2] = next /\ next \in 1..Len(msg) /\ Len(msg) >= 1 /\ round \in 1..MaxRounds
    BY <1>1, <1>2 DEF CallNo, Ahead, TurnTypes
  <1>4. TurnTypes'
    BY <1>1, <1>2 DEF TurnTypes
  <1>5. Ahead'
    BY <1>1, <1>2 DEF Ahead
  <1>6. Gated' /\ OnceEach'
    BY <1>1, <1>2 DEF Gated, OnceEach, CallNo
  <1>7. Open'
    BY <1>1, <1>2, <1>3 DEF Open, Gated, CallNo
  <1>8. QED
    BY <1>4, <1>5, <1>6, <1>7 DEF Replayed

LEMMA RespondReplayed ==
  ASSUME Replayed, NEW d \in G!Decisions, G!Respond(d) PROVE Replayed'
  <1>1. /\ place = "parked" /\ quiet /\ place' = "answered" /\ said' = [said EXCEPT ![asked] = d]
        /\ UNCHANGED <<grants, marks, state, msg, round, node, next, answers, saved, emitted, asked, quiet, called,
                       ran, asUser, moved>>
    BY DEF G!Respond, G!Pending, G!files, G!graph, G!record
  <1>2. TurnTypes /\ Ahead /\ Gated /\ Open /\ OnceEach
    BY DEF Replayed
  <1>3. asked \in TurnCalls /\ asked[1] = round
    <2>1. asked[1] = round /\ asked = CallNo(asked[2]) /\ asked[2] \in 1..Len(msg) /\ round \in 1..MaxRounds
      BY <1>1, <1>2 DEF Open
    <2>2. asked[2] \in 1..MaxCalls /\ round \in 0..MaxRounds
      BY <1>2, <2>1, CallSet DEF TurnTypes
    <2>3. QED
      BY <2>1, <2>2, OfRound
  <1>4. /\ said' \in [TurnCalls -> G!Decisions \cup {"none"}] /\ said'[asked] = d
        /\ \A c \in TurnCalls : c # asked => said'[c] = said[c]
    BY <1>1, <1>2, <1>3 DEF TurnTypes
  <1>5. TurnTypes'
    BY <1>1, <1>2, <1>4 DEF TurnTypes
  <1>6. Ahead'
    <2>1. round \in Nat /\ \A c \in TurnCalls : c[1] > round => c # asked
      BY <1>2, <1>3, CallSet DEF TurnTypes
    <2>2. QED
      BY <1>1, <1>2, <1>4, <2>1 DEF Ahead
  <1>7. Gated' /\ Open' /\ OnceEach'
    BY <1>1, <1>2, <1>4 DEF Gated, Open, OnceEach, CallNo
  <1>8. QED
    BY <1>5, <1>6, <1>7 DEF Replayed

LEMMA ResumeDoes ==
  ASSUME G!Resume
  PROVE  /\ place = "answered" /\ place' = "gate" /\ loaded' = policy /\ moved' = (moved \/ loaded' # loaded)
         /\ emitted' = (IF emitted = {} THEN {c \in TurnCalls : called[c] > 0} ELSE emitted)
         /\ answers' = Append(saved.answers, said[asked]) /\ next' = 1
         /\ node' = [granted |-> state.granted, marked |-> state.marked, met |-> 0, verdicts |-> <<>>]
         /\ grants' \in {grants, grants \cup {msg[asked[2]]}} /\ marks' \in {marks, marks \cup {msg[asked[2]]}}
         /\ quiet' = FALSE \/ quiet' = quiet
         /\ edited => given' = given
         /\ UNCHANGED <<state, msg, round, saved, asked, called, ran, said, asUser, edited>>
  BY DEF G!Resume, G!Load, G!Restored, G!Grant, G!NoGrant, G!Mark, G!LogSomething, TurnCalls

LEMMA ResumeReplayed ==
  ASSUME Replayed, G!Resume PROVE Replayed'
  <1>1. /\ place = "answered" /\ place' = "gate" /\ moved' = (moved \/ loaded' # loaded)
        /\ emitted' = (IF emitted = {} THEN {c \in TurnCalls : called[c] > 0} ELSE emitted)
        /\ answers' = Append(saved.answers, said[asked]) /\ next' = 1
        /\ node' = [granted |-> state.granted, marked |-> state.marked, met |-> 0, verdicts |-> <<>>]
        /\ grants' \in {grants, grants \cup {msg[asked[2]]}} /\ marks' \in {marks, marks \cup {msg[asked[2]]}}
        /\ quiet' = FALSE \/ quiet' = quiet
        /\ UNCHANGED <<state, msg, round, saved, asked, called, ran, said, asUser>>
    BY ResumeDoes
  <1>2. TurnTypes /\ Ahead /\ Gated /\ Open /\ OnceEach
    BY DEF Replayed
  <1>3. quiet /\ said[asked] \in G!Decisions /\ asked[2] \in 1..Len(msg) /\ msg[asked[2]] \in Tools
    <2>1. quiet
      BY <1>1, <1>2 DEF Ahead
    <2>2. QED
      BY <1>1, <1>2, <2>1 DEF Open, TurnTypes
  <1>4. TurnTypes'
    <2>1. node' \in Nodes
      <3>1. <<>> \in Seq([allows : BOOLEAN, by : {"policy", "user"}])
        OBVIOUS
      <3>2. state.granted \in SUBSET Tools /\ state.marked \in SUBSET Tools
        BY <1>2 DEF TurnTypes
      <3>3. QED
        BY <1>1, <3>1, <3>2 DEF Nodes
    <2>2. answers' \in Seq(G!Decisions)
      BY <1>1, <1>2, <1>3 DEF TurnTypes, Checkpoints
    <2>3. moved' \in BOOLEAN
      BY <1>1
    <2>4. quiet' \in BOOLEAN
      BY <1>1, <1>2 DEF TurnTypes
    <2>5. next' \in Nat \ {0}
      BY <1>1
    <2>6. emitted' \in SUBSET TurnCalls /\ grants' \in SUBSET Tools /\ marks' \in SUBSET Tools
      BY <1>1, <1>2, <1>3 DEF TurnTypes
    <2>7. QED
      BY <1>1, <1>2, <2>1, <2>2, <2>3, <2>4, <2>5, <2>6 DEF TurnTypes
  <1>5. \A c \in emitted' : called'[c] > 0
    BY <1>1, <1>2 DEF Ahead
  <1>6. Ahead'
    BY <1>1, <1>2, <1>5 DEF Ahead
  <1>7. Gated'
    <2>1. \A i \in 1..MaxCalls : CallNo(i)' = CallNo(i) /\ CallNo(i) \in TurnCalls
      <3>1. round \in 0..MaxRounds
        BY <1>1, <1>2, CallSet DEF Ahead
      <3>2. QED
        BY <1>1, <3>1, OfRound DEF CallNo
    <2>2. \A i \in 1..MaxCalls : called'[CallNo(i)'] > 0 => CallNo(i)' \in emitted'
      BY <1>1, <1>2, <2>1 DEF Gated
    <2>3. \A i \in 1..MaxCalls : ran'[CallNo(i)'] = 0
      BY <1>1, <1>2, <2>1 DEF Gated
    <2>4. QED
      BY <1>1, <2>2, <2>3 DEF Gated
  <1>8. Open' /\ OnceEach'
    BY <1>1, <1>2, <1>3 DEF Open, OnceEach, CallNo
  <1>9. QED
    BY <1>4, <1>6, <1>7, <1>8 DEF Replayed

LEMMA EndsReplayed ==
  ASSUME Replayed, G!Ends PROVE Replayed'
  <1>1. /\ place' = "closed" /\ quiet' = FALSE
        /\ UNCHANGED <<grants, marks, state, msg, round, node, next, answers, saved, emitted, asked, called, ran,
                       said, asUser, moved>>
    BY DEF G!Ends, G!Close, G!LogSomething, G!files, G!graph, G!history
  <1>2. QED
    BY <1>1 DEF Replayed, TurnTypes, Ahead, Gated, Open, OnceEach

LEMMA RestartReplayed ==
  ASSUME Replayed, G!Restart PROVE Replayed'
  <1>1. /\ place \notin {"admitted", "closed"} /\ place' \in {"parked", "closed"} /\ (place' = "parked" => quiet)
        /\ emitted' = {} /\ next' = 1
        /\ node' = [granted |-> {}, marked |-> {}, met |-> 0, verdicts |-> <<>>]
        /\ UNCHANGED <<grants, marks, state, msg, round, answers, saved, asked, quiet, called, ran, said, asUser,
                       moved>>
    BY DEF G!Restart, G!Parked, G!Pending, G!NoNode, G!files, G!history
  <1>2. TurnTypes /\ Ahead /\ Gated /\ Open /\ OnceEach
    BY DEF Replayed
  <1>3. TurnTypes'
    <2>1. node' \in Nodes
      <3>1. <<>> \in Seq([allows : BOOLEAN, by : {"policy", "user"}])
        OBVIOUS
      <3>2. QED
        BY <1>1, <3>1 DEF Nodes
    <2>2. next' \in Nat \ {0}
      BY <1>1
    <2>3. QED
      BY <1>1, <1>2, <2>1, <2>2 DEF TurnTypes
  <1>4. Ahead'
    BY <1>1, <1>2 DEF Ahead, Open
  <1>5. Gated' /\ Open' /\ OnceEach'
    BY <1>1, <1>2 DEF Gated, Open, OnceEach, CallNo
  <1>6. QED
    BY <1>3, <1>4, <1>5 DEF Replayed

\* What changes elsewhere moves nothing of the turn.
LEMMA ElsewhereReplayed ==
  ASSUME Replayed, G!Elsewhere, grants' \in SUBSET Tools, marks' \in SUBSET Tools PROVE Replayed'
  <1>1. UNCHANGED <<place, state, msg, round, node, next, answers, saved, emitted, asked, quiet, called, ran, said,
                    asUser, moved>>
    BY DEF G!Elsewhere, G!graph, G!record
  <1>2. QED
    BY <1>1 DEF Replayed, TurnTypes, Ahead, Gated, Open, OnceEach, CallNo

LEMMA StartReplayed ==
  ASSUME G!Init PROVE Replayed
  <1>1. /\ place = "admitted" /\ state = [granted |-> {}, marked |-> {}] /\ msg = <<>> /\ round = 0
        /\ node = [granted |-> {}, marked |-> {}, met |-> 0, verdicts |-> <<>>] /\ next = 1 /\ answers = <<>>
        /\ saved = [waits |-> FALSE, answers |-> <<>>] /\ emitted = {} /\ quiet = FALSE
        /\ called = [c \in TurnCalls |-> 0] /\ ran = [c \in TurnCalls |-> 0]
        /\ said = [c \in TurnCalls |-> "none"] /\ asUser = {} /\ moved = FALSE
        /\ grants \in SUBSET {CodeStep} /\ marks = {}
    BY DEF G!Init, G!NoNode, TurnCalls
  <1>2. /\ <<>> \in Seq([allows : BOOLEAN, by : {"policy", "user"}]) /\ <<>> \in Seq(G!Decisions)
        /\ <<>> \in Seq(Tools) /\ Len(<<>>) = 0
    OBVIOUS
  <1>3. node \in Nodes
    BY <1>1, <1>2 DEF Nodes
  <1>4. saved \in Checkpoints
    BY <1>1, <1>2 DEF Checkpoints
  <1>5. /\ called \in [TurnCalls -> Nat] /\ ran \in [TurnCalls -> Nat]
        /\ said \in [TurnCalls -> G!Decisions \cup {"none"}]
        /\ \A c \in TurnCalls : called[c] = 0 /\ ran[c] = 0 /\ said[c] = "none"
    BY <1>1
  <1>6. quiet \in BOOLEAN /\ moved \in BOOLEAN
    BY <1>1
  <1>7. next \in Nat \ {0} /\ round \in Nat /\ Len(msg) <= MaxCalls /\ msg \in Seq(Tools)
    BY <1>1, <1>2, CallSet
  <1>8. TurnTypes
    BY <1>1, <1>2, <1>3, <1>4, <1>5, <1>6, <1>7, CallSet DEF TurnTypes
  <1>9. Ahead
    <2>1. <<0, 1>> \in TurnCalls
      BY CallSet
    <2>2. QED
      BY <1>1, <1>5, <2>1 DEF Ahead
  <1>10. Gated /\ Open /\ OnceEach
    BY <1>1, <1>5 DEF Gated, Open, OnceEach
  <1>11. QED
    BY <1>8, <1>9, <1>10 DEF Replayed

-----------------------------------------------------------------------------
(* A call runs on the answer to that call.                                 *)

\* What is asked about stands on the message, its answers and the policy of the graph's run.
LEMMA SameAsks ==
  ASSUME UNCHANGED <<loaded, state, msg, round, said>>
  PROVE  /\ OfCalls' = OfCalls /\ (Rightly' <=> Rightly)
         /\ \A i : /\ CallNo(i)' = CallNo(i) /\ (HasAnswer(i)' <=> HasAnswer(i)) /\ (Asks(i)' <=> Asks(i))
                   /\ GrantedAt(i)' = GrantedAt(i) /\ MarkedAt(i)' = MarkedAt(i)
  <1>1. \A i : /\ CallNo(i)' = CallNo(i) /\ (HasAnswer(i)' <=> HasAnswer(i))
               /\ GrantedAt(i)' = GrantedAt(i) /\ MarkedAt(i)' = MarkedAt(i)
    BY DEF CallNo, HasAnswer, GrantedAt, MarkedAt
  <1>2. \A i : Asks(i)' <=> Asks(i)
    BY <1>1 DEF Asks, G!Evaluate
  <1>3. OfCalls' = OfCalls
    BY <1>1 DEF OfCalls
  <1>4. QED
    BY <1>1, <1>2, <1>3 DEF Rightly

LEMMA FirstAt ==
  GrantedAt(1) = state.granted /\ MarkedAt(1) = state.marked
  BY DEF GrantedAt, MarkedAt

LEMMA NextAt ==
  ASSUME NEW n \in Nat \ {0}
  PROVE  /\ GrantedAt(n + 1) = GrantedAt(n) \cup (IF said[CallNo(n)] = "grant" THEN {msg[n]} ELSE {})
         /\ MarkedAt(n + 1) = MarkedAt(n) \cup (IF said[CallNo(n)] = "mark" THEN {msg[n]} ELSE {})
  <1>1. 1..((n + 1) - 1) = (1..(n - 1)) \cup {n}
    OBVIOUS
  <1>2. {k \in 1..((n + 1) - 1) : said[CallNo(k)] = "grant"} =
           {k \in 1..(n - 1) : said[CallNo(k)] = "grant"} \cup (IF said[CallNo(n)] = "grant" THEN {n} ELSE {})
    BY <1>1
  <1>3. {k \in 1..((n + 1) - 1) : said[CallNo(k)] = "mark"} =
           {k \in 1..(n - 1) : said[CallNo(k)] = "mark"} \cup (IF said[CallNo(n)] = "mark" THEN {n} ELSE {})
    BY <1>1
  <1>4. QED
    BY <1>2, <1>3 DEF GrantedAt, MarkedAt

\* A step that moves nothing of the graph and the log.
LEMMA StillMeeting ==
  ASSUME Meeting,
         UNCHANGED <<place, loaded, state, msg, round, node, next, answers, saved, emitted, asked, quiet, called, ran,
                     said, asUser>>
  PROVE  Meeting'
  <1>1. UNCHANGED <<place, loaded, state, msg, round, node, next, answers, saved, emitted, asked, quiet, called, ran,
                    said, asUser>>
    OBVIOUS
  <1>2. AtTheGate' <=> AtTheGate
    <2>1. \A e : Enumerates(e, answers, OfCalls)' <=> Enumerates(e, answers, OfCalls)
      BY <1>1, SameAsks DEF Enumerates
    <2>2. QED
      BY <1>1, <2>1, SameAsks DEF AtTheGate
  <1>3. Asking' <=> Asking
    BY <1>1, SameAsks DEF Asking, Enumerates
  <1>4. AtTheRun' <=> AtTheRun
    BY <1>1, SameAsks DEF AtTheRun
  <1>5. Waiting' <=> Waiting
    BY <1>1, SameAsks DEF Waiting, Enumerates
  <1>6. G!Own'
    BY <1>1 DEF Meeting, G!Own
  <1>7. QED
    BY <1>1, <1>2, <1>3, <1>4, <1>5, <1>6, SameAsks DEF Meeting

LEMMA ElsewhereMeeting ==
  ASSUME Meeting, G!Elsewhere PROVE Meeting'
  BY StillMeeting DEF G!Elsewhere, G!graph, G!record

LEMMA BeginMeeting ==
  ASSUME Replayed, Meeting, G!Begin PROVE Meeting'
  <1>1. place = "admitted" /\ place' = "code" /\ UNCHANGED <<quiet, ran, said, asUser>>
    BY DEF G!Begin, G!record, G!history
  <1>2. ~quiet /\ G!Own
    BY <1>1 DEF Replayed, Ahead, Meeting
  <1>3. QED
    BY <1>1, <1>2 DEF Meeting, G!Own

LEMMA RunCodeStepMeeting ==
  ASSUME Replayed, Meeting, G!RunCodeStep PROVE Meeting'
  <1> DEFINE c1 == <<0, 1>>
  <1>1. /\ place = "code" /\ place' \in {"model", "closed"} /\ quiet' = FALSE
        /\ ran' = [ran EXCEPT ![c1] = @ + 1] \/ ran' = ran
        /\ UNCHANGED <<said, asUser>>
    BY DEF G!RunCodeStep, G!Close, G!LogSomething
  <1>2. said[c1] = "none" /\ G!Own /\ ran \in [TurnCalls -> Nat]
    BY <1>1 DEF Replayed, Ahead, Meeting, TurnTypes
  <1> HIDE DEF c1
  <1>3. \A c \in TurnCalls : c # c1 => ran'[c] = ran[c]
    BY <1>1, <1>2
  <1>4. G!Own'
    BY <1>1, <1>2, <1>3 DEF G!Own, TurnCalls
  <1>5. QED
    BY <1>1, <1>4 DEF Meeting

LEMMA CallModelMeeting ==
  ASSUME Replayed, Replayed', Meeting, G!CallModel PROVE Meeting'
  <1>1. /\ place = "model" /\ quiet' = FALSE
        /\ UNCHANGED <<loaded, state, answers, called, ran, said, asUser>>
    BY DEF G!CallModel, G!LogSomething, G!history
  <1>2. TurnTypes /\ Ahead /\ G!Own /\ answers = <<>> /\ TurnTypes' /\ Ahead'
    BY <1>1 DEF Replayed, Ahead, Meeting
  <1>3. G!Own'
    BY <1>1, <1>2 DEF G!Own
  <1>4. CASE place' = "closed"
    BY <1>1, <1>3, <1>4 DEF Meeting
  <1>5. CASE /\ round' = round + 1 /\ place' = "gate" /\ next' = 1
             /\ node' = [granted |-> state.granted, marked |-> state.marked, met |-> 0, verdicts |-> <<>>]
    <2>1. \A i \in 1..Len(msg') : said'[CallNo(i)'] = "none" /\ called'[CallNo(i)'] = 0
      <3> SUFFICES ASSUME NEW i \in 1..Len(msg') PROVE said'[CallNo(i)'] = "none" /\ called'[CallNo(i)'] = 0
        OBVIOUS
      <3>1. i \in 1..MaxCalls /\ round' \in 0..MaxRounds /\ round' > round
        BY <1>2, <1>5, CallSet DEF TurnTypes, Ahead
      <3>2. <<round', i>> \in TurnCalls /\ <<round', i>>[1] = round'
        BY <3>1, CallSet
      <3>3. QED
        BY <1>1, <1>2, <3>1, <3>2 DEF Ahead, CallNo
    <2>2. OfCalls' = {} /\ \A i \in 1..Len(msg') : ~HasAnswer(i)'
      BY <2>1 DEF OfCalls, HasAnswer
    <2>3. Rightly'
      BY <2>2 DEF Rightly
    <2>4. AtTheGate'
      <3>1. GrantedAt(1)' = state'.granted /\ MarkedAt(1)' = state'.marked
        BY FirstAt DEF GrantedAt, MarkedAt
      <3>2. Enumerates(<<>>, <<>>, {})
        BY DEF Enumerates
      <3>3. Enumerates(<<>>, answers, OfCalls)'
        BY <1>1, <1>2, <2>2 DEF Enumerates
      <3>4. Len(answers') = 0 /\ Len(msg') \in Nat
        BY <1>1, <1>2 DEF TurnTypes
      <3>5. \E e : /\ Enumerates(e, answers, OfCalls)'
                   /\ \A k \in 1..Len(answers') : e[k] < next' <=> k <= node'.met
        BY <3>3, <3>4
      <3>6. QED
        BY <1>1, <1>5, <2>1, <3>1, <3>4, <3>5 DEF AtTheGate
    <2>5. QED
      BY <1>1, <1>3, <1>5, <2>3, <2>4 DEF Meeting
  <1>6. QED
    BY <1>4, <1>5 DEF G!CallModel, G!Close

LEMMA GateCallMeeting ==
  ASSUME Replayed, Meeting, G!GateCall PROVE Meeting'
  <1> DEFINE n == next
             action == G!Evaluate(msg[next], node.granted, node.marked)
             d == answers[node.met + 1]
             Passed(v) == /\ next' = next + 1 /\ UNCHANGED <<place, saved>>
                          /\ Len(node'.verdicts) = Len(node.verdicts) + 1
                          /\ \A i \in 1..Len(node.verdicts) : node'.verdicts[i] = node.verdicts[i]
                          /\ node'.verdicts[Len(node.verdicts) + 1] = v
  <1>1. /\ place = "gate" /\ next <= Len(msg)
        /\ \/ CallNo(next) \in emitted /\ UNCHANGED <<emitted, called, quiet>>
           \/ /\ CallNo(next) \notin emitted /\ emitted' = emitted \cup {CallNo(next)} /\ quiet' = FALSE
              /\ called' = [called EXCEPT ![CallNo(next)] = @ + 1]
        /\ UNCHANGED <<loaded, state, msg, round, answers, asked, ran, said, asUser, moved>>
    BY GateCallDoes
  <1>2. /\ TurnTypes /\ Ahead /\ G!Own /\ Rightly /\ AtTheGate /\ (quiet => Waiting)
        /\ node \in Nodes /\ next \in Nat \ {0} /\ answers \in Seq(G!Decisions) /\ Len(msg) \in Nat
        /\ next \in 1..Len(msg) /\ Len(answers) \in Nat /\ node.met \in Nat
    BY <1>1 DEF Replayed, Meeting, TurnTypes, AtTheGate, Nodes
  <1>3. G!Own'
    BY <1>1, <1>2 DEF G!Own
  <1>4. Rightly' /\ OfCalls' = OfCalls
    BY <1>1, <1>2, SameAsks
  <1>5. (action = "ask") <=> Asks(next)
    BY <1>2 DEF AtTheGate, Asks
  <1>6. \A i \in 1..Len(msg) : i # next => called'[CallNo(i)] = called[CallNo(i)]
    <2>1. \A i \in 1..Len(msg) : CallNo(i) \in TurnCalls /\ (i # next => CallNo(i) # CallNo(next))
      <3>1. round \in 0..MaxRounds /\ 1..Len(msg) \subseteq 1..MaxCalls
        BY <1>1, <1>2, CallSet DEF Ahead, TurnTypes
      <3>2. QED
        BY <1>2, <3>1, OfRound
    <2>2. called \in [TurnCalls -> Nat]
      BY <1>2 DEF TurnTypes
    <2>3. QED
      BY <1>1, <2>1, <2>2
  <1>7. PICK e : /\ Enumerates(e, answers, OfCalls)
                 /\ \A k \in 1..Len(answers) : e[k] < next <=> k <= node.met
    BY <1>2 DEF AtTheGate
  <1>8. /\ e \in [1..Len(answers) -> OfCalls] /\ \A k, m \in 1..Len(answers) : k < m => e[k] < e[m]
        /\ \A i \in OfCalls : i \in 1..Len(msg) /\ HasAnswer(i) /\ \E k \in 1..Len(answers) : e[k] = i
        /\ \A k \in 1..Len(answers) : answers[k] = said[CallNo(e[k])] /\ e[k] \in OfCalls /\ e[k] \in Nat
    BY <1>7 DEF Enumerates, OfCalls
  <1>9. Enumerates(e, answers, OfCalls)'
    BY <1>1, <1>4, <1>7, SameAsks DEF Enumerates
  <1>10. Waiting' \/ ~quiet'
    <2>1. CASE UNCHANGED <<called, quiet>> /\ quiet
      <3>1. PICK f : Enumerates(f, saved.answers, OfCalls \ {asked[2]})
        BY <1>2, <2>1 DEF Waiting
      <3>2. saved'.answers = saved.answers \/ place' = "asking"
        BY GateCallDoes
      <3>3. CASE saved'.answers = saved.answers
        <4>1. Enumerates(f, saved.answers, OfCalls \ {asked[2]})'
          BY <1>1, <1>4, <3>1, <3>3, SameAsks DEF Enumerates
        <4>2. \A i \in 1..Len(msg') : i > asked'[2] => called'[CallNo(i)'] = 0
          BY <1>1, <1>2, <2>1, SameAsks DEF Waiting
        <4>3. place' # "answered"
          BY <1>1, GateCallDoes
        <4>4. QED
          BY <1>1, <1>2, <1>4, <2>1, <4>1, <4>2, <4>3, SameAsks DEF Waiting
      <3>4. CASE place' = "asking"
        <4>1. OfCalls \ {asked[2]} \subseteq OfCalls /\ asked[2] \in OfCalls
          BY <1>1, <1>2, <2>1 DEF AtTheGate, OfCalls, Open, Replayed
        <4>2. ~(node.met < Len(answers))
          BY <1>1, <3>4, GateCallDoes
        <4>3. asked[2] < next
          BY <1>2, <1>7, <1>8, <4>1, <4>2
        <4>4. called[CallNo(next)] = 0
          BY <1>2, <2>1, <4>3 DEF Waiting
        <4>5. CallNo(next) \notin emitted
          BY <1>2, <4>4 DEF Ahead
        <4>6. QED
          BY <1>1, <4>5
      <3>5. QED
        BY <3>2, <3>3, <3>4
    <2>2. QED
      BY <1>1, <2>1
  <1>11. ASSUME NEW v, Passed(v),
                (v.by = "user") <=> HasAnswer(next),
                HasAnswer(next) => (v.allows <=> said[CallNo(next)] # "deny"),
                Asks(next) => HasAnswer(next),
                node'.granted = GrantedAt(next + 1), node'.marked = MarkedAt(next + 1),
                node'.met \in 0..Len(answers),
                \A k \in 1..Len(answers) : e[k] < next + 1 <=> k <= node'.met
         PROVE  AtTheGate'
    <2>1. Len(node.verdicts) = next - 1 /\ Len(node'.verdicts) = next /\ next' = next + 1 /\ node'.verdicts[next] = v
          /\ \A i \in 1..(next - 1) : node'.verdicts[i] = node.verdicts[i]
      BY <1>2, <1>11 DEF AtTheGate
    <2>2. \A i \in 1..(next' - 1) :
             /\ (node'.verdicts[i].by = "user") <=> HasAnswer(i)
             /\ HasAnswer(i) => (node'.verdicts[i].allows <=> said[CallNo(i)] # "deny")
             /\ Asks(i) => HasAnswer(i)
      <3> SUFFICES ASSUME NEW i \in 1..(next' - 1)
                   PROVE  /\ (node'.verdicts[i].by = "user") <=> HasAnswer(i)
                          /\ HasAnswer(i) => (node'.verdicts[i].allows <=> said[CallNo(i)] # "deny")
                          /\ Asks(i) => HasAnswer(i)
        OBVIOUS
      <3>1. i = next \/ i \in 1..(next - 1)
        BY <1>2, <2>1
      <3>2. CASE i = next
        BY <1>11, <2>1, <3>2
      <3>3. CASE i \in 1..(next - 1)
        BY <1>2, <2>1, <3>3 DEF AtTheGate
      <3>4. QED
        BY <3>1, <3>2, <3>3
    <2>3. \A i \in next'..Len(msg) : called'[CallNo(i)] > 0 => \E j \in OfCalls : i <= j
      <3> SUFFICES ASSUME NEW i \in next'..Len(msg), called'[CallNo(i)] > 0 PROVE \E j \in OfCalls : i <= j
        OBVIOUS
      <3>1. i \in 1..Len(msg) /\ i # next /\ i \in next..Len(msg)
        BY <1>2, <2>1
      <3>2. QED
        BY <1>2, <1>6, <3>1 DEF AtTheGate
    <2>4. next' <= Len(msg) + 1 /\ Len(node'.verdicts) = next' - 1
      BY <1>2, <2>1
    <2>5. quiet' => HasAnswer(asked[2])
      BY <1>1, <1>2 DEF AtTheGate
    <2>6. node'.granted = GrantedAt(next)' /\ node'.marked = MarkedAt(next)'
      BY <1>1, <1>11, <2>1, SameAsks
    <2>7. \A k \in 1..Len(answers') : e[k] < next' <=> k <= node'.met
      BY <1>1, <1>11, <2>1
    <2>8. QED
      BY <1>1, <1>4, <1>9, <1>11, <2>1, <2>2, <2>3, <2>4, <2>5, <2>6, <2>7, SameAsks DEF AtTheGate
  <1>12. CASE /\ action # "ask" /\ next' = next + 1 /\ UNCHANGED <<place, saved>>
              /\ node' = [node EXCEPT !.verdicts = Append(@, [allows |-> (action = "allow"), by |-> "policy"])]
    <2> DEFINE v == [allows |-> (action = "allow"), by |-> "policy"]
    <2>1. /\ node'.granted = node.granted /\ node'.marked = node.marked /\ node'.met = node.met
          /\ node'.verdicts = Append(node.verdicts, v)
      BY <1>2, <1>12 DEF Nodes
    <2>2. node.verdicts \in Seq([allows : BOOLEAN, by : {"policy", "user"}])
      BY <1>2 DEF Nodes
    <2>3. v.by = "policy"
      OBVIOUS
    <2> HIDE DEF v
    <2>4. Passed(v)
      BY <1>12, <2>1, <2>2, AppendProperties
    <2>5. ~Asks(next) /\ ~HasAnswer(next) /\ next \notin OfCalls
      BY <1>2, <1>5, <1>12 DEF Rightly, OfCalls
    <2>6. said[CallNo(next)] = "none"
      BY <2>5 DEF HasAnswer
    <2>7. node'.granted = GrantedAt(next + 1) /\ node'.marked = MarkedAt(next + 1)
      BY <1>2, <2>1, <2>6, NextAt DEF AtTheGate
    <2>8. \A k \in 1..Len(answers) : e[k] < next + 1 <=> k <= node'.met
      <3>1. \A k \in 1..Len(answers) : e[k] # next /\ e[k] \in Nat
        BY <1>8, <2>5
      <3>2. \A k \in 1..Len(answers) : e[k] < next + 1 <=> e[k] < next
        BY <1>2, <3>1
      <3>3. QED
        BY <1>7, <2>1, <3>2
    <2>9. node'.met \in 0..Len(answers)
      BY <1>2, <2>1 DEF AtTheGate
    <2>10. AtTheGate'
      <3> HIDE DEF Passed
      <3>1. QED
        BY <1>11, <2>3, <2>4, <2>5, <2>7, <2>8, <2>9
    <2>11. place' = "gate"
      BY <1>1, <1>12
    <2>12. QED
      BY <1>3, <1>4, <1>10, <2>10, <2>11 DEF Meeting
  <1>13. CASE /\ action = "ask" /\ node.met < Len(answers) /\ next' = next + 1 /\ UNCHANGED <<place, saved>>
              /\ node' = [granted |-> node.granted \cup (IF d = "grant" THEN {msg[next]} ELSE {}),
                          marked |-> node.marked \cup (IF d = "mark" THEN {msg[next]} ELSE {}),
                          met |-> node.met + 1,
                          verdicts |-> Append(node.verdicts, [allows |-> d # "deny", by |-> "user"])]
    <2> DEFINE v == [allows |-> d # "deny", by |-> "user"]
               m == node.met + 1
    <2>1. /\ node'.granted = node.granted \cup (IF d = "grant" THEN {msg[next]} ELSE {})
          /\ node'.marked = node.marked \cup (IF d = "mark" THEN {msg[next]} ELSE {})
          /\ node'.met = m /\ node'.verdicts = Append(node.verdicts, v)
      BY <1>13
    <2>2. node.verdicts \in Seq([allows : BOOLEAN, by : {"policy", "user"}])
      BY <1>2 DEF Nodes
    <2>3. v.by = "user" /\ (v.allows <=> d # "deny")
      OBVIOUS
    <2> HIDE DEF v
    <2>4. Passed(v)
      BY <1>13, <2>1, <2>2, AppendProperties
    <2>5. m \in 1..Len(answers) /\ m \in Nat /\ Asks(next)
      BY <1>2, <1>5, <1>13
    <2>6. e[m] = next
      <3>1. e[m] \in OfCalls /\ e[m] \in Nat /\ e[m] >= next
        BY <1>2, <1>7, <1>8, <2>5
      <3>2. ASSUME e[m] > next PROVE FALSE
        <4>1. HasAnswer(next)
          <5>1. next \in 1..(e[m] - 1)
            BY <1>2, <3>1, <3>2
          <5>2. QED
            BY <1>2, <2>5, <3>1, <5>1 DEF Rightly
        <4>2. next \in OfCalls
          BY <1>2, <4>1 DEF OfCalls
        <4>3. PICK k \in 1..Len(answers) : e[k] = next
          BY <1>8, <4>2
        <4>4. k > node.met
          BY <1>2, <1>7, <4>3
        <4>5. k # m
          BY <3>2, <4>3, <1>2
        <4>6. m < k
          BY <1>2, <4>4, <4>5
        <4>7. e[m] < e[k]
          BY <1>8, <2>5, <4>6
        <4>8. QED
          BY <1>2, <3>1, <3>2, <4>3, <4>7
      <3>3. QED
        BY <1>2, <3>1, <3>2
    <2>7. d = said[CallNo(next)] /\ HasAnswer(next)
      BY <1>8, <2>5, <2>6
    <2> HIDE DEF d
    <2>8. node'.granted = GrantedAt(next + 1) /\ node'.marked = MarkedAt(next + 1)
      BY <1>2, <2>1, <2>7, NextAt DEF AtTheGate
    <2>9. \A k \in 1..Len(answers) : e[k] < next + 1 <=> k <= node'.met
      <3> SUFFICES ASSUME NEW k \in 1..Len(answers) PROVE e[k] < next + 1 <=> k <= m
        BY <2>1
      <3> HIDE DEF m
      <3>1. k < m => e[k] < next
        BY <1>8, <2>5, <2>6
      <3>2. m < k => next < e[k]
        BY <1>8, <2>5, <2>6
      <3>3. e[k] \in Nat
        BY <1>8
      <3>4. QED
        BY <1>2, <2>5, <2>6, <3>1, <3>2, <3>3
    <2>10. node'.met \in 0..Len(answers)
      BY <2>1, <2>5
    <2>11. AtTheGate'
      <3> HIDE DEF Passed, m
      <3>1. QED
        BY <1>11, <2>3, <2>4, <2>5, <2>7, <2>8, <2>9, <2>10
    <2>12. place' = "gate"
      BY <1>1, <1>13
    <2>13. QED
      BY <1>3, <1>4, <1>10, <2>11, <2>12 DEF Meeting
  <1>14. CASE /\ action = "ask" /\ ~(node.met < Len(answers)) /\ place' = "asking"
              /\ saved' = [waits |-> TRUE, answers |-> answers] /\ UNCHANGED <<node, next>>
    <2>1. \A i \in OfCalls : i < next
      <3> SUFFICES ASSUME NEW i \in OfCalls PROVE i < next
        OBVIOUS
      <3>1. PICK k \in 1..Len(answers) : e[k] = i
        BY <1>8
      <3>2. k <= node.met
        BY <1>2, <1>14, <3>1
      <3>3. QED
        BY <1>7, <3>1, <3>2
    <2>2. Enumerates(e, saved.answers, OfCalls)'
      <3>1. saved'.answers = answers'
        BY <1>1, <1>14
      <3>2. QED
        BY <1>9, <3>1 DEF Enumerates
    <2>3. \A i \in 1..Len(msg) : i > next => called'[CallNo(i)] = 0
      <3> SUFFICES ASSUME NEW i \in 1..Len(msg), i > next PROVE called'[CallNo(i)] = 0
        OBVIOUS
      <3>1. i # next /\ i \in next..Len(msg) /\ called[CallNo(i)] \in Nat
        <4>1. round \in 0..MaxRounds /\ i \in 1..MaxCalls
          BY <1>1, <1>2, CallSet DEF Ahead, TurnTypes
        <4>2. QED
          BY <1>2, <4>1, OfRound DEF TurnTypes
      <3>2. ~(called[CallNo(i)] > 0)
        <4>1. SUFFICES ASSUME called[CallNo(i)] > 0 PROVE FALSE
          OBVIOUS
        <4>2. PICK j \in OfCalls : i <= j
          BY <1>2, <3>1, <4>1 DEF AtTheGate
        <4>3. j < next /\ j \in Nat
          BY <1>8, <2>1
        <4>4. QED
          BY <1>2, <4>2, <4>3
      <3>3. QED
        BY <1>6, <3>1, <3>2
    <2>4. ~quiet'
      <3>1. SUFFICES ASSUME quiet' PROVE FALSE
        OBVIOUS
      <3>2. quiet /\ CallNo(next) \in emitted
        BY <1>1, <3>1
      <3>3. HasAnswer(asked[2]) /\ asked[2] \in OfCalls
        BY <1>1, <1>2, <3>2 DEF AtTheGate, OfCalls, Open, Replayed
      <3>4. asked[2] < next
        BY <2>1, <3>3
      <3>5. called[CallNo(next)] = 0
        BY <1>2, <3>2, <3>4 DEF Waiting
      <3>6. QED
        BY <1>2, <3>2, <3>5 DEF Ahead
    <2>5. \A l \in 1..(next - 1) : Asks(l) => HasAnswer(l)
      BY <1>2 DEF AtTheGate
    <2>6. Asks(next)
      BY <1>5, <1>14
    <2>7. Asking'
      BY <1>1, <1>4, <1>14, <2>1, <2>2, <2>3, <2>4, <2>5, <2>6, SameAsks DEF Asking
    <2>8. QED
      BY <1>3, <1>4, <1>10, <1>14, <2>4, <2>7 DEF Meeting
  <1>15. QED
    BY <1>12, <1>13, <1>14, GateCallDoes

LEMMA AllGatedMeeting ==
  ASSUME Replayed, Meeting, G!AllGated PROVE Meeting'
  <1>1. /\ place = "gate" /\ next > Len(msg) /\ place' = "run"
        /\ UNCHANGED <<loaded, state, msg, round, node, answers, saved, asked, quiet, called, ran, said, asUser>>
    BY DEF G!AllGated, G!record, G!history
  <1>2. G!Own /\ Rightly /\ AtTheGate /\ (quiet => Waiting) /\ next \in Nat /\ Len(msg) \in Nat
    BY <1>1 DEF Replayed, Meeting, TurnTypes
  <1>3. next - 1 = Len(msg)
    BY <1>1, <1>2 DEF AtTheGate
  <1>4. AtTheRun'
    BY <1>1, <1>2, <1>3, SameAsks DEF AtTheGate, AtTheRun
  <1>5. quiet' => Waiting'
    BY <1>1, <1>2, SameAsks DEF Waiting, Enumerates
  <1>6. G!Own' /\ Rightly'
    BY <1>1, <1>2, SameAsks DEF G!Own
  <1>7. QED
    BY <1>1, <1>4, <1>5, <1>6 DEF Meeting

LEMMA RunCallMeeting ==
  ASSUME Replayed, Meeting, G!RunCall PROVE Meeting'
  <1> DEFINE v == node.verdicts[next]
  <1>1. /\ place = "run" /\ next <= Len(msg) /\ quiet' = FALSE
        /\ \/ /\ v.allows /\ ran' = [ran EXCEPT ![CallNo(next)] = @ + 1]
              /\ asUser' = IF v.by = "user" THEN asUser \cup {CallNo(next)} ELSE asUser
           \/ ran' = ran /\ asUser' = asUser
        /\ UNCHANGED <<loaded, place, state, msg, round, node, answers, saved, asked, called, said>>
    BY DEF G!RunCall, G!LogSomething, G!Call, G!Tool, CallNo
  <1>2. /\ TurnTypes /\ Ahead /\ G!Own /\ Rightly /\ AtTheRun
        /\ next \in 1..Len(msg) /\ ran \in [TurnCalls -> Nat] /\ said \in [TurnCalls -> G!Decisions \cup {"none"}]
    BY <1>1 DEF Replayed, Meeting, TurnTypes
  <1>3. CallNo(next) \in TurnCalls
    <2>1. round \in 0..MaxRounds /\ next \in 1..MaxCalls
      BY <1>1, <1>2, CallSet DEF Ahead, TurnTypes
    <2>2. QED
      BY <2>1, OfRound
  <1>4. /\ (v.by = "user") <=> HasAnswer(next)
        /\ HasAnswer(next) => (v.allows <=> said[CallNo(next)] # "deny")
    BY <1>2 DEF AtTheRun
  <1> HIDE DEF v
  <1>5. \A c \in TurnCalls : c # CallNo(next) => ran'[c] = ran[c]
    BY <1>1, <1>2
  <1>6. said[CallNo(next)] = "deny" => ran' = ran
    BY <1>1, <1>4 DEF HasAnswer
  <1>7. \A c \in asUser' : said'[c] \in {"approve", "grant", "mark"}
    <2>1. asUser' = asUser \/ (asUser' = asUser \cup {CallNo(next)} /\ v.by = "user" /\ v.allows)
      BY <1>1
    <2>2. v.by = "user" /\ v.allows => said[CallNo(next)] \in {"approve", "grant", "mark"}
      BY <1>2, <1>3, <1>4 DEF HasAnswer, G!Decisions
    <2>3. QED
      BY <1>1, <1>2, <2>1, <2>2 DEF G!Own
  <1>8. \A c \in TurnCalls : said'[c] = "deny" => ran'[c] = 0
    BY <1>1, <1>2, <1>5, <1>6 DEF G!Own, TurnCalls
  <1>9. G!Own'
    BY <1>7, <1>8 DEF G!Own, TurnCalls
  <1>10. Rightly' /\ AtTheRun'
    BY <1>1, <1>2, SameAsks DEF AtTheRun
  <1>11. QED
    BY <1>1, <1>9, <1>10 DEF Meeting

LEMMA AllRanMeeting ==
  ASSUME Replayed, Meeting, G!AllRan PROVE Meeting'
  <1>1. place = "run" /\ next > Len(msg) /\ place' = "model" /\ UNCHANGED <<quiet, ran, said, asUser>>
    BY DEF G!AllRan, G!record, G!history
  <1>2. ~quiet
    <2>1. next > 1
      BY <1>1 DEF Replayed, Ahead, TurnTypes
    <2>2. QED
      BY <1>1, <2>1 DEF Replayed, Gated
  <1>3. G!Own'
    BY <1>1 DEF Meeting, G!Own
  <1>4. QED
    BY <1>1, <1>2, <1>3 DEF Meeting

LEMMA RequestMeeting ==
  ASSUME Replayed, Meeting, G!Request PROVE Meeting'
  <1>1. /\ place = "asking" /\ place' = "parked" /\ asked' = CallNo(next)
        /\ UNCHANGED <<loaded, state, msg, round, node, next, answers, saved, called, ran, said, asUser>>
    BY DEF G!Request, G!graph, G!history, G!Call, CallNo
  <1>2. G!Own /\ Rightly /\ Asking /\ next \in Nat
    BY <1>1 DEF Replayed, Meeting, TurnTypes
  <1>3. asked'[2] = next /\ next \notin OfCalls /\ OfCalls \ {next} = OfCalls
    BY <1>1, <1>2 DEF CallNo, Asking
  <1>4. Waiting'
    <2>1. PICK e : Enumerates(e, saved.answers, OfCalls)
      BY <1>2 DEF Asking
    <2>2. Enumerates(e, saved.answers, OfCalls \ {asked[2]})'
      BY <1>1, <1>3, <2>1, SameAsks DEF Enumerates
    <2>3. \A i \in OfCalls : i <= next
      BY <1>2 DEF Asking, OfCalls
    <2>4. QED
      BY <1>1, <1>2, <1>3, <2>2, <2>3, SameAsks DEF Waiting, Asking
  <1>5. G!Own' /\ Rightly'
    BY <1>1, <1>2, SameAsks DEF G!Own
  <1>6. QED
    BY <1>1, <1>4, <1>5 DEF Meeting

LEMMA RespondMeeting ==
  ASSUME Replayed, Meeting, NEW d \in G!Decisions, G!Respond(d) PROVE Meeting'
  <1> DEFINE n == asked[2]
  <1>1. /\ place = "parked" /\ quiet /\ place' = "answered" /\ said' = [said EXCEPT ![asked] = d]
        /\ UNCHANGED <<loaded, state, msg, round, node, next, answers, saved, asked, quiet, called, ran, asUser>>
    BY DEF G!Respond, G!Pending, G!graph, G!record
  <1>2. /\ TurnTypes /\ G!Own /\ Rightly /\ Waiting /\ said \in [TurnCalls -> G!Decisions \cup {"none"}]
        /\ n \in 1..Len(msg) /\ asked = CallNo(n) /\ round \in 1..MaxRounds /\ ran[asked] = 0 /\ asked \in TurnCalls
        /\ \A i \in 1..Len(msg) : CallNo(i) \in TurnCalls /\ (i # n => CallNo(i) # asked)
    <2>1. /\ TurnTypes /\ G!Own /\ Rightly /\ Waiting /\ said \in [TurnCalls -> G!Decisions \cup {"none"}]
          /\ n \in 1..Len(msg) /\ asked = CallNo(n) /\ round \in 1..MaxRounds
      BY <1>1 DEF Replayed, Meeting, TurnTypes, Open
    <2>2. 1..Len(msg) \subseteq 1..MaxCalls /\ round \in 0..MaxRounds
      BY <2>1, CallSet DEF TurnTypes
    <2>3. ran[asked] = 0
      BY <1>1, <2>1, <2>2 DEF Replayed, Open
    <2>4. QED
      BY <2>1, <2>2, <2>3, OfRound
  <1>12. n' = n
    BY <1>1
  <1> HIDE DEF n
  <1>3. said'[asked] = d /\ \A c \in TurnCalls : c # asked => said'[c] = said[c]
    BY <1>1, <1>2
  <1>4. \A i : CallNo(i)' = CallNo(i)
    BY <1>1 DEF CallNo
  <1>5. \A i \in 1..Len(msg) : HasAnswer(i)' <=> (HasAnswer(i) \/ i = n)
    <2>1. d # "none"
      BY DEF G!Decisions
    <2>2. QED
      BY <1>2, <1>3, <1>4, <2>1 DEF HasAnswer
  <1>6. OfCalls' = OfCalls \cup {n} /\ \A i \in OfCalls : i <= n /\ i \in 1..Len(msg)
    BY <1>1, <1>2, <1>5 DEF OfCalls, Waiting, n
  <1>7. \A i \in 1..n : (Asks(i)' <=> Asks(i))
    <2> SUFFICES ASSUME NEW i \in 1..n PROVE Asks(i)' <=> Asks(i)
      OBVIOUS
    <2>1. \A k \in 1..(i - 1) : said'[CallNo(k)'] = said[CallNo(k)]
      <3> SUFFICES ASSUME NEW k \in 1..(i - 1) PROVE said'[CallNo(k)] = said[CallNo(k)]
        BY <1>4
      <3>1. k \in 1..Len(msg) /\ k # n
        BY <1>2
      <3>2. QED
        BY <1>2, <1>3, <3>1
    <2>2. GrantedAt(i)' = GrantedAt(i) /\ MarkedAt(i)' = MarkedAt(i)
      BY <1>1, <2>1 DEF GrantedAt, MarkedAt
    <2>3. QED
      BY <1>1, <2>2 DEF Asks, G!Evaluate
  <1>8. Rightly'
    <2> SUFFICES ASSUME NEW i \in OfCalls'
                 PROVE  Asks(i)' /\ \A l \in 1..(i - 1) : Asks(l)' => HasAnswer(l)'
      BY DEF Rightly
    <2>1. i \in 1..n /\ (i = n \/ i \in OfCalls)
      BY <1>2, <1>6
    <2>2. Asks(i)
      BY <1>2, <2>1 DEF Rightly, Waiting, n
    <2>3. \A l \in 1..(i - 1) : Asks(l) => HasAnswer(l)
      BY <1>2, <2>1 DEF Rightly, Waiting, n
    <2>4. \A l \in 1..(i - 1) : l \in 1..n /\ l \in 1..Len(msg)
      BY <1>2, <2>1
    <2>5. QED
      BY <1>5, <1>7, <2>1, <2>2, <2>3, <2>4
  <1>9. Waiting'
    <2>1. asked'[2] = n /\ place' = "answered"
      BY <1>1 DEF n
    <2>2. PICK e : Enumerates(e, saved.answers, OfCalls \ {n})
      BY <1>2 DEF Waiting, n
    <2>3. OfCalls' \ {n} = OfCalls \ {n}
      BY <1>6
    <2>4. \A k \in 1..Len(saved.answers) : said'[CallNo(e[k])'] = said[CallNo(e[k])]
      <3> SUFFICES ASSUME NEW k \in 1..Len(saved.answers) PROVE said'[CallNo(e[k])] = said[CallNo(e[k])]
        BY <1>4
      <3>1. e[k] \in OfCalls \ {n}
        BY <2>2 DEF Enumerates
      <3>2. QED
        BY <1>2, <1>3, <1>6, <3>1
    <2>5. Enumerates(e, saved.answers, OfCalls \ {asked[2]})'
      BY <1>1, <2>1, <2>2, <2>3, <2>4 DEF Enumerates
    <2>6. Asks(n)' /\ HasAnswer(n)' /\ \A i \in OfCalls' : i <= n
      <3>1. n \in 1..n /\ Asks(n)
        BY <1>2 DEF Waiting, n
      <3>2. QED
        <4>1. Asks(n)' /\ HasAnswer(n)'
          BY <1>2, <1>5, <1>7, <1>12, <3>1
        <4>2. \A i \in OfCalls' : i <= n
          BY <1>2, <1>6
        <4>3. QED
          BY <4>1, <4>2
    <2>7. \A l \in 1..(n - 1) : Asks(l)' => HasAnswer(l)'
      <3>1. \A l \in 1..(n - 1) : l \in 1..n /\ l \in 1..Len(msg) /\ (Asks(l) => HasAnswer(l))
        BY <1>2 DEF Waiting, n
      <3>2. QED
        BY <1>5, <1>7, <3>1
    <2>8. \A i \in 1..Len(msg') : i > n => called'[CallNo(i)'] = 0
      BY <1>1, <1>2, <1>4 DEF Waiting, n
    <2>9. QED
      BY <1>12, <2>1, <2>5, <2>6, <2>7, <2>8 DEF Waiting
  <1>10. G!Own'
    <2>1. asked \notin asUser
      BY <1>2 DEF Ahead, Replayed
    <2>2. \A c \in asUser' : said'[c] \in {"approve", "grant", "mark"}
      BY <1>1, <1>2, <1>3, <2>1 DEF G!Own, TurnTypes
    <2>3. \A c \in TurnCalls : said'[c] = "deny" => ran'[c] = 0
      BY <1>1, <1>2, <1>3 DEF G!Own, TurnCalls
    <2>4. QED
      BY <2>2, <2>3 DEF G!Own, TurnCalls
  <1>11. QED
    BY <1>1, <1>8, <1>9, <1>10 DEF Meeting

LEMMA ResumeMeeting ==
  ASSUME Replayed, Meeting, G!Resume, ~moved' PROVE Meeting'
  <1> DEFINE d == said[asked]
             q == saved.answers
  <1>1. /\ place = "answered" /\ place' = "gate" /\ loaded' = loaded
        /\ answers' = Append(q, d) /\ next' = 1
        /\ node' = [granted |-> state.granted, marked |-> state.marked, met |-> 0, verdicts |-> <<>>]
        /\ quiet' = FALSE \/ quiet' = quiet
        /\ UNCHANGED <<state, msg, round, saved, asked, called, ran, said, asUser>>
    BY ResumeDoes
  <1>2. quiet
    BY <1>1 DEF Replayed, Ahead
  <1>3. /\ TurnTypes /\ G!Own /\ Rightly /\ Waiting /\ Open /\ HasAnswer(asked[2])
        /\ q \in Seq(G!Decisions) /\ d \in G!Decisions /\ Len(q) \in Nat /\ Len(msg) \in Nat
        /\ asked[2] \in 1..Len(msg) /\ asked = CallNo(asked[2]) /\ asked[2] \in OfCalls
    <2>1. TurnTypes /\ G!Own /\ Rightly /\ Waiting /\ Open /\ HasAnswer(asked[2])
      BY <1>1, <1>2 DEF Replayed, Meeting, Waiting
    <2>2. q \in Seq(G!Decisions) /\ Len(q) \in Nat /\ Len(msg) \in Nat
      BY <2>1 DEF TurnTypes, Checkpoints
    <2>3. d \in G!Decisions /\ asked[2] \in 1..Len(msg) /\ asked = CallNo(asked[2])
      BY <1>1, <1>2, <2>1 DEF Open
    <2>4. asked[2] \in OfCalls
      BY <2>1, <2>3 DEF OfCalls
    <2>5. QED
      BY <2>1, <2>2, <2>3, <2>4
  <1>4. PICK f : Enumerates(f, saved.answers, OfCalls \ {asked[2]})
    BY <1>3 DEF Waiting
  <1> DEFINE e == [k \in 1..Len(q) + 1 |-> IF k = Len(q) + 1 THEN asked[2] ELSE f[k]]
  <1>5. /\ \A k \in 1..Len(q) : f[k] \in OfCalls /\ f[k] < asked[2] /\ f[k] \in Nat /\ q[k] = said[CallNo(f[k])]
        /\ \A k, m \in 1..Len(q) : k < m => f[k] < f[m]
        /\ \A i \in OfCalls : i # asked[2] => \E k \in 1..Len(q) : f[k] = i
    <2>1. \A i \in OfCalls : i # asked[2] => i < asked[2] /\ i \in Nat
      BY <1>3 DEF Waiting, OfCalls
    <2>2. QED
      BY <1>4, <2>1 DEF Enumerates
  <1>6. Len(answers') = Len(q) + 1 /\ answers'[Len(q) + 1] = d /\ \A k \in 1..Len(q) : answers'[k] = q[k]
    <2> HIDE DEF q, d
    <2>1. QED
      BY <1>1, <1>3, AppendProperties
  <1>7. Enumerates(e, answers, OfCalls)'
    <2> DEFINE z == Len(q) + 1
    <2>1. /\ \A k \in 1..Len(q) : e[k] = f[k] /\ k # z /\ k < z
          /\ e[z] = asked[2] /\ z \in 1..z /\ z \in Nat /\ \A k \in 1..z : k = z \/ k \in 1..Len(q)
      BY <1>3
    <2>2. e \in [1..z -> OfCalls]
      BY <1>3, <1>5
    <2>7. e' = e
      BY <1>1
    <2> HIDE DEF e
    <2>3. \A k, m \in 1..z : k < m => e[k] < e[m]
      <3> SUFFICES ASSUME NEW k \in 1..z, NEW m \in 1..z, k < m PROVE e[k] < e[m]
        OBVIOUS
      <3>1. k \in 1..Len(q)
        BY <1>3, <2>1
      <3>2. CASE m = z
        BY <1>5, <2>1, <3>1, <3>2
      <3>3. CASE m \in 1..Len(q)
        BY <1>5, <2>1, <3>1, <3>3
      <3>4. QED
        BY <2>1, <3>2, <3>3
    <2>4. \A i \in OfCalls : \E k \in 1..z : e[k] = i
      <3> SUFFICES ASSUME NEW i \in OfCalls PROVE \E k \in 1..z : e[k] = i
        OBVIOUS
      <3>1. CASE i = asked[2]
        BY <2>1, <3>1
      <3>2. CASE i # asked[2]
        <4>1. PICK k \in 1..Len(q) : f[k] = i
          BY <1>5, <3>2
        <4>2. k \in 1..z
          BY <1>3, <4>1
        <4>3. QED
          BY <2>1, <4>1, <4>2
      <3>3. QED
        BY <3>1, <3>2
    <2>5. \A k \in 1..z : answers'[k] = said[CallNo(e[k])]
      <3> SUFFICES ASSUME NEW k \in 1..z PROVE answers'[k] = said[CallNo(e[k])]
        OBVIOUS
      <3>1. CASE k = z
        BY <1>3, <1>6, <2>1, <3>1
      <3>2. CASE k \in 1..Len(q)
        BY <1>5, <1>6, <2>1, <3>2
      <3>3. QED
        BY <2>1, <3>1, <3>2
    <2>6. z = Len(answers') /\ UNCHANGED OfCalls /\ \A k \in 1..z : said'[CallNo(e[k])'] = said[CallNo(e[k])]
      <3>1. \A i : said'[CallNo(i)'] = said[CallNo(i)]
        BY <1>1 DEF CallNo
      <3>2. z = Len(answers') /\ OfCalls' = OfCalls
        BY <1>1, <1>6, SameAsks
      <3>3. QED
        BY <2>7, <3>1, <3>2
    <2> HIDE DEF z
    <2>8. QED
      BY <2>2, <2>3, <2>4, <2>5, <2>6, <2>7 DEF Enumerates
  <1>8. \A k \in 1..Len(answers') : e[k] < next' <=> k <= node'.met
    <2>1. \A k \in 1..Len(answers') : e[k] \in OfCalls
      BY <1>3, <1>5, <1>6
    <2> HIDE DEF e
    <2>2. \A k \in 1..Len(answers') : e[k] \in Nat /\ e[k] >= 1 /\ k >= 1
      BY <1>6, <2>1 DEF OfCalls
    <2>3. QED
      BY <1>1, <2>2
  <1>9. \A i \in 1..Len(msg) : called[CallNo(i)] > 0 => i <= asked[2]
    <2> SUFFICES ASSUME NEW i \in 1..Len(msg), i > asked[2] PROVE ~(called[CallNo(i)] > 0)
      BY <1>3
    <2>1. QED
      BY <1>3 DEF Waiting
  <1>10. AtTheGate'
    <2>1. GrantedAt(next)' = state.granted /\ MarkedAt(next)' = state.marked
      <3>1. next' = 1 /\ (GrantedAt(1))' = GrantedAt(1) /\ (MarkedAt(1))' = MarkedAt(1)
        BY <1>1, SameAsks
      <3>2. QED
        BY <3>1, FirstAt
    <2>2. \E x : /\ Enumerates(x, answers, OfCalls)'
                 /\ \A k \in 1..Len(answers') : x[k] < next' <=> k <= node'.met
      <3>1. e' = e
        BY <1>1
      <3> HIDE DEF e
      <3>2. QED
        BY <1>7, <1>8, <3>1
    <2>3. Len(node'.verdicts) = next' - 1 /\ node'.met \in 0..Len(answers') /\ next' <= Len(msg') + 1
      BY <1>1, <1>3, <1>6
    <2>4. \A i \in next'..Len(msg') : called'[CallNo(i)'] > 0 => \E j \in OfCalls' : i <= j
      <3>1. \A i \in 1..Len(msg) : called'[CallNo(i)'] > 0 => i <= asked[2]
        BY <1>1, <1>9, SameAsks
      <3>2. asked[2] \in OfCalls'
        BY <1>1, <1>3, SameAsks
      <3>3. QED
        BY <1>1, <3>1, <3>2
    <2>5. HasAnswer(asked[2])'
      BY <1>1, <1>3, SameAsks
    <2>6. \A i \in 1..(next' - 1) : FALSE
      BY <1>1
    <2>7. node'.granted = state.granted /\ node'.marked = state.marked
      BY <1>1
    <2>8. QED
      BY <2>1, <2>2, <2>3, <2>4, <2>5, <2>6, <2>7 DEF AtTheGate
  <1>11. Waiting'
    <2>1. Enumerates(f, saved.answers, OfCalls \ {asked[2]})'
      BY <1>1, <1>4, SameAsks DEF Enumerates
    <2>2. QED
      BY <1>1, <1>3, <2>1, SameAsks DEF Waiting
  <1>12. G!Own' /\ Rightly'
    BY <1>1, <1>3, SameAsks DEF G!Own
  <1>13. QED
    BY <1>1, <1>10, <1>11, <1>12 DEF Meeting

LEMMA EndsMeeting ==
  ASSUME Meeting, G!Ends PROVE Meeting'
  <1>1. place' = "closed" /\ UNCHANGED <<ran, said, asUser>>
    BY DEF G!Ends, G!Close, G!history
  <1>2. QED
    BY <1>1 DEF Meeting, G!Own

LEMMA RestartMeeting ==
  ASSUME Replayed, Meeting, G!Restart PROVE Meeting'
  <1>1. /\ place \notin {"admitted", "closed"} /\ place' \in {"parked", "closed"} /\ (place' = "parked" => quiet)
        /\ UNCHANGED <<loaded, state, msg, round, answers, saved, asked, quiet, called, ran, said, asUser>>
    BY DEF G!Restart, G!Parked, G!Pending, G!history
  <1>2. G!Own /\ G!Own'
    BY <1>1 DEF Meeting, G!Own
  <1>3. CASE place' = "parked"
    <2>1. Rightly /\ Waiting
      BY <1>1, <1>3 DEF Replayed, Ahead, Meeting
    <2>2. Waiting' /\ Rightly'
      BY <1>1, <1>3, <2>1, SameAsks DEF Waiting, Enumerates
    <2>3. QED
      BY <1>2, <1>3, <2>2 DEF Meeting
  <1>4. CASE place' = "closed"
    BY <1>2, <1>4 DEF Meeting
  <1>5. QED
    BY <1>1, <1>3, <1>4

LEMMA StartMeeting ==
  ASSUME G!Init PROVE Meeting /\ G!NoStaleGrant
  <1>1. /\ place = "admitted" /\ quiet = FALSE /\ edited = FALSE /\ asUser = {}
        /\ said = [c \in TurnCalls |-> "none"] /\ ran = [c \in TurnCalls |-> 0]
    BY DEF G!Init, TurnCalls
  <1>2. QED
    BY <1>1 DEF Meeting, G!Own, TurnCalls, G!NoStaleGrant

-----------------------------------------------------------------------------
(* The turn's steps, and the theorems.                                     *)

LEMMA NoStaleGrantKept ==
  ASSUME G!NoStaleGrant, G!Next PROVE G!NoStaleGrant'
  <1>1. CASE G!Begin \/ G!EditRoutine
    BY <1>1 DEF G!Begin, G!EditRoutine, G!NoStaleGrant
  <1>2. CASE G!Resume
    BY <1>2, ResumeDoes DEF G!NoStaleGrant
  <1>3. CASE \E t \in Tools : G!GrantOrRevoke(t)
    BY <1>3 DEF G!GrantOrRevoke, G!Elsewhere, G!NoStaleGrant
  <1>4. CASE G!ChangePolicy \/ \E t \in Authored : G!MarkOrUnmark(t)
    BY <1>4 DEF G!ChangePolicy, G!MarkOrUnmark, G!NoStaleGrant
  <1>5. CASE G!RunCodeStep \/ G!CallModel \/ G!GateCall
    BY <1>5, GateCallDoes DEF G!RunCodeStep, G!CallModel, G!history, G!NoStaleGrant
  <1>6. CASE G!AllGated \/ G!RunCall \/ G!AllRan
    BY <1>6 DEF G!AllGated, G!RunCall, G!AllRan, G!history, G!NoStaleGrant
  <1>7. CASE G!Request \/ (\E d \in G!Decisions : G!Respond(d)) \/ G!Ends \/ G!Restart
    BY <1>7 DEF G!Request, G!Respond, G!Ends, G!Restart, G!history, G!NoStaleGrant
  <1>8. QED
    BY <1>1, <1>2, <1>3, <1>4, <1>5, <1>6, <1>7 DEF G!Next

LEMMA FilesTyped ==
  ASSUME Replayed,
         \/ G!ChangePolicy \/ G!EditRoutine
         \/ \E t \in Tools : G!GrantOrRevoke(t)
         \/ \E t \in Authored : G!MarkOrUnmark(t)
  PROVE  G!Elsewhere /\ grants' \in SUBSET Tools /\ marks' \in SUBSET Tools
  <1>1. grants \in SUBSET Tools /\ marks \in SUBSET Tools /\ Authored \subseteq Tools
    BY CallSet DEF Replayed, TurnTypes
  <1>2. CASE G!ChangePolicy \/ G!EditRoutine
    BY <1>1, <1>2 DEF G!ChangePolicy, G!EditRoutine
  <1>3. CASE \E t \in Tools : G!GrantOrRevoke(t)
    BY <1>1, <1>3 DEF G!GrantOrRevoke
  <1>4. CASE \E t \in Authored : G!MarkOrUnmark(t)
    BY <1>1, <1>4 DEF G!MarkOrUnmark
  <1>5. QED
    BY <1>2, <1>3, <1>4

LEMMA TurnStepKeeps ==
  ASSUME TurnIInv, G!Next PROVE TurnIInv'
  <1>1. Replayed /\ (moved \/ Meeting) /\ G!NoStaleGrant /\ G!NoStaleGrant'
    BY NoStaleGrantKept DEF TurnIInv
  <1>2. Replayed'
    <2>1. CASE \/ G!ChangePolicy \/ G!EditRoutine
               \/ \E t \in Tools : G!GrantOrRevoke(t)
               \/ \E t \in Authored : G!MarkOrUnmark(t)
      BY <1>1, <2>1, FilesTyped, ElsewhereReplayed
    <2>2. QED
      BY <1>1, <2>1, BeginReplayed, RunCodeStepReplayed, CallModelReplayed, GateCallReplayed, AllGatedReplayed,
         RunCallReplayed, AllRanReplayed, RequestReplayed, RespondReplayed, ResumeReplayed, EndsReplayed,
         RestartReplayed DEF G!Next
  <1>3. moved' \/ (~moved /\ Meeting)
    <2>1. CASE moved
      <3>1. CASE \/ G!ChangePolicy \/ G!EditRoutine
                 \/ \E t \in Tools : G!GrantOrRevoke(t)
                 \/ \E t \in Authored : G!MarkOrUnmark(t)
        BY <1>1, <2>1, <3>1, FilesTyped DEF G!Elsewhere
      <3>2. CASE G!Resume
        BY <2>1, <3>2, ResumeDoes
      <3>3. CASE G!Begin \/ G!RunCodeStep \/ G!CallModel \/ G!GateCall \/ G!AllGated
        BY <2>1, <3>3, GateCallDoes DEF G!Begin, G!RunCodeStep, G!CallModel, G!AllGated, G!history
      <3>4. CASE G!RunCall \/ G!AllRan \/ G!Request \/ G!Ends \/ G!Restart \/ \E d \in G!Decisions : G!Respond(d)
        BY <2>1, <3>4 DEF G!RunCall, G!AllRan, G!Request, G!Ends, G!Restart, G!Respond, G!history
      <3>5. QED
        BY <3>1, <3>2, <3>3, <3>4 DEF G!Next
    <2>2. QED
      BY <1>1, <2>1
  <1>4. ASSUME ~moved', Meeting PROVE Meeting'
    <2>1. CASE \/ G!ChangePolicy \/ G!EditRoutine
               \/ \E t \in Tools : G!GrantOrRevoke(t)
               \/ \E t \in Authored : G!MarkOrUnmark(t)
      BY <1>1, <1>4, <2>1, FilesTyped, ElsewhereMeeting
    <2>2. QED
      BY <1>1, <1>2, <1>4, <2>1, BeginMeeting, RunCodeStepMeeting, CallModelMeeting, GateCallMeeting,
         AllGatedMeeting, RunCallMeeting, AllRanMeeting, RequestMeeting, RespondMeeting, ResumeMeeting,
         EndsMeeting, RestartMeeting DEF G!Next
  <1>5. QED
    BY <1>1, <1>2, <1>3, <1>4 DEF TurnIInv

LEMMA TurnAlways == WorkSpec => [](part = "turn" => TurnIInv)
  <1> DEFINE Inv == part = "turn" => TurnIInv
  <1>1. WorkInit => Inv
    BY StartReplayed, StartMeeting DEF WorkInit, TurnIInv
  <1>2. Inv /\ [WorkNext]_workVars => Inv'
    <2> SUFFICES ASSUME Inv, [WorkNext]_workVars, part' = "turn" PROVE TurnIInv'
      OBVIOUS
    <2>1. CASE TurnStep
      BY <2>1, TurnStepKeeps DEF TurnStep
    <2>2. CASE CallsStep \/ RunsStep \/ ValuesStep
      BY <2>2 DEF CallsStep, RunsStep, ValuesStep
    <2>3. CASE UNCHANGED workVars
      <3>1. UNCHANGED turnVars /\ TurnIInv
        BY <2>3 DEF workVars
      <3>3. Replayed'
        BY <3>1 DEF turnVars, TurnIInv, Replayed, TurnTypes, Ahead, Gated, Open, OnceEach, CallNo
      <3>4. (moved \/ Meeting)'
        <4>1. CASE moved
          BY <3>1, <4>1 DEF turnVars
        <4>2. CASE Meeting
          <5>1. UNCHANGED <<place, loaded, state, msg, round, node, next, answers, saved, emitted, asked, quiet,
                            called, ran, said, asUser>>
            BY <3>1 DEF turnVars
          <5>2. QED
            BY <4>2, <5>1, StillMeeting
        <4>3. QED
          BY <3>1, <4>1, <4>2 DEF TurnIInv
      <3>5. G!NoStaleGrant'
        BY <3>1 DEF turnVars, TurnIInv, G!NoStaleGrant
      <3>6. QED
        BY <3>3, <3>4, <3>5 DEF TurnIInv
    <2>4. QED
      BY <2>1, <2>2, <2>3 DEF WorkNext
  <1>3. QED
    BY <1>1, <1>2, PTL DEF WorkSpec

\* A call of a turn runs on the user's answer to that very call, and never after a denial, however
\* often the gate is replayed over asks, restarts and edits, as long as what decides stays.
THEOREM TurnsOwnAnswer == WorkSpec => []OwnAnswer
  <1>1. (part = "turn" => TurnIInv) => OwnAnswer
    BY DEF TurnIInv, Meeting, OwnAnswer, G!OwnAnswer
  <1>2. QED
    BY <1>1, TurnAlways, PTL

\* No call of a turn is logged or run twice.
THEOREM TurnsRanOnce == WorkSpec => []RanOnce
  <1>1. (part = "turn" => TurnIInv) => RanOnce
    BY DEF TurnIInv, Replayed, OnceEach, RanOnce, G!RanOnce, TurnCalls
  <1>2. QED
    BY <1>1, TurnAlways, PTL

\* No grant given from a turn outlives an edit of the routine it was given for.
THEOREM TurnsNoStaleGrant == WorkSpec => []NoStaleGrant
  <1>1. (part = "turn" => TurnIInv) => NoStaleGrant
    BY DEF TurnIInv, NoStaleGrant
  <1>2. QED
    BY <1>1, TurnAlways, PTL

-----------------------------------------------------------------------------
(* The runs of a factory, as FactoryRunsProofs proves them.                *)

RP == INSTANCE FactoryRunsProofs WITH
        LastStep <- LastOfRun, status <- runStatus, open <- runOpen, reported <- runReported,
        queue <- queues, later <- callsLater

\* What is assumed of the runs' constants is what FactoryRunsProofs assumes.
LEMMA RunsAssumed ==
  /\ \A f \in Factories : RP!Checked(f)
  /\ Home \in Instances /\ Caller \in Instances /\ LastOfRun \in Nat \ {0}
  /\ NoRun \notin Runs /\ NoWork \notin RP!Entries
  /\ {MaxUserMoves, MaxRestarts, MaxTorn, MaxLimited, MaxSignals, MaxRefused, MaxUnsent,
      MaxTroubles} \subseteq Nat
  BY RunsAssumption DEF R!Steps, RP!Steps, R!OrNone, RP!OrNone, R!Timers, RP!Timers, R!Calls, RP!Calls, R!StepsOf, RP!StepsOf,
                        R!Entries, RP!Entries, R!Factory, RP!Factory, R!Checked, RP!Checked

\* And so are the runs themselves, whose definitions are the same.
LEMMA SameInit == R!Init <=> RP!Init
  BY DEF R!Steps, RP!Steps, R!NoStep, RP!NoStep, R!Edges, RP!Edges, R!NotResuming, RP!NotResuming, R!Bounded,
         RP!Bounded, R!Init, RP!Init

LEMMA SameNext == R!Next <=> RP!Next
  BY DEF R!Steps, RP!Steps, R!NoStep, RP!NoStep, R!registry, RP!registry, R!timers, RP!timers, R!workers, RP!workers,
         R!Ends, RP!Ends, R!Stops, RP!Stops, R!Edges, RP!Edges, R!Waits, RP!Waits, R!StepEntry, RP!StepEntry, R!Call,
         RP!Call, R!Receiver, RP!Receiver, R!AtRest, RP!AtRest, R!Troubles, RP!Troubles, R!Can, RP!Can, R!Uses,
         RP!Uses, R!Results, RP!Results, R!Edge, RP!Edge, R!To, RP!To, R!Settled, RP!Settled, R!Counted, RP!Counted,
         R!Queued, RP!Queued, R!StopCall, RP!StopCall, R!Move, RP!Move, R!Settle, RP!Settle, R!Passes, RP!Passes, R!Estranged,
         RP!Estranged, R!Stray, RP!Stray, R!Disarm, RP!Disarm, R!Arm, RP!Arm, R!Accept, RP!Accept, R!Restart,
         RP!Restart, R!ByUser, RP!ByUser, R!AwaitsApproval, RP!AwaitsApproval, R!Retry, RP!Retry, R!SendBack,
         RP!SendBack, R!Approve, RP!Approve, R!Cancel, RP!Cancel, R!Place, RP!Place, R!Refuse, RP!Refuse, R!Parks,
         RP!Parks, R!Park, RP!Park, R!PassWait, RP!PassWait, R!Takes, RP!Takes, R!Offer, RP!Offer, R!TakeStep,
         RP!TakeStep, R!OfferAgain, RP!OfferAgain, R!AtStep, RP!AtStep, R!Done, RP!Done, R!Answer, RP!Answer,
         R!Limited, RP!Limited, R!Undelivered, RP!Undelivered, R!Stale, RP!Stale, R!TakeCall, RP!TakeCall, R!AtCall,
         RP!AtCall, R!CallMade, RP!CallMade, R!CallFailed, RP!CallFailed, R!CallAgain, RP!CallAgain, R!BySignal,
         RP!BySignal, R!SignalParked, RP!SignalParked, R!SignalWorking, RP!SignalWorking, R!SignalPassesBy,
         RP!SignalPassesBy, R!SignalCloses, RP!SignalCloses, R!Ended, RP!Ended, R!Expire, RP!Expire, R!StrayExpires,
         RP!StrayExpires, R!Owed, RP!Owed, R!Rank, RP!Rank, R!Before, RP!Before, R!RestartHub, RP!RestartHub,
         R!ResumeQueued, RP!ResumeQueued, R!Timed, RP!Timed, R!ResumeParked, RP!ResumeParked, R!ResumeOwed,
         RP!ResumeOwed, R!Disturbed, RP!Disturbed, R!LeftAlone, RP!LeftAlone, R!Next, RP!Next

LEMMA SameTypeOK == R!TypeOK <=> RP!TypeOK
  BY DEF R!Steps, RP!Steps, R!OrNone, RP!OrNone, R!Timers, RP!Timers, R!Calls, RP!Calls, R!StepsOf, RP!StepsOf,
         R!Entries, RP!Entries, R!Ends, RP!Ends, R!Unfinished, RP!Unfinished, R!Edges, RP!Edges, R!Bounded,
         RP!Bounded, R!TypeOK, RP!TypeOK

LEMMA SameOneDriver == R!OneDriver <=> RP!OneDriver
  BY DEF R!Steps, RP!Steps, R!StepsOf, RP!StepsOf, R!Waits, RP!Waits, R!StepEntry, RP!StepEntry, R!Timed, RP!Timed,
         R!Slots, RP!Slots, R!Held, RP!Held, R!Unheld, RP!Unheld, R!HeldAt, RP!HeldAt, R!Nowhere, RP!Nowhere, R!Once,
         RP!Once, R!Driven, RP!Driven, R!Undriven, RP!Undriven, R!OneDriver, RP!OneDriver

LEMMA SameCallsOwed == R!CallsOwed <=> RP!CallsOwed
  BY DEF R!Call, RP!Call, R!Slots, RP!Slots, R!Held, RP!Held, R!Unheld, RP!Unheld, R!HeldAt, RP!HeldAt, R!Nowhere,
         RP!Nowhere, R!Once, RP!Once, R!Pending, RP!Pending, R!Dismissed, RP!Dismissed, R!CallsOwed, RP!CallsOwed

LEMMA SameFinishedStay == R!FinishedStay <=> RP!FinishedStay
  BY DEF R!Ends, RP!Ends, R!FinishedStay, RP!FinishedStay

\* The variables of the runs are all of them.
LEMMA SameVars == UNCHANGED runsVars => UNCHANGED RP!vars
  BY DEF runsVars, RP!vars, RP!registry, RP!timers, RP!workers

LEMMA OtherSteps ==
  ASSUME [WorkNext]_workVars, ~RunsStep PROVE UNCHANGED RP!vars /\ part' = part
  <1>1. UNCHANGED runsVars /\ part' = part
    BY DEF WorkNext, CallsStep, ValuesStep, TurnStep, workVars
  <1>2. QED
    BY <1>1, SameVars

LEMMA RunsAlways == WorkSpec => [](part = "runs" => RP!IInv)
  <1> DEFINE Inv == part = "runs" => RP!IInv
  <1>1. WorkInit => Inv
    <2> SUFFICES ASSUME WorkInit, part = "runs" PROVE RP!IInv
      OBVIOUS
    <2>1. RP!Init
      BY SameInit DEF WorkInit
    <2>2. QED
      BY <2>1, RunsAssumed, RP!InitKeeps
  <1>2. Inv /\ [WorkNext]_workVars => Inv'
    <2> SUFFICES ASSUME Inv, [WorkNext]_workVars, part' = "runs" PROVE RP!IInv'
      OBVIOUS
    <2>1. part = "runs" /\ (RP!Next \/ UNCHANGED RP!vars)
      BY OtherSteps, SameNext DEF RunsStep
    <2>2. QED
      BY <2>1, RunsAssumed, RP!NextKeeps
  <1>3. QED
    BY <1>1, <1>2, PTL DEF WorkSpec

\* A queued or running run is in exactly one place that will run its step, the one it is at, no
\* other run is in any, a run parked at a timed wait or until its plan window resets has its timer,
\* and every call a stop owes is about to be made exactly once, over restarts, torn moves, timers
\* that were never stopped and calls that fail.
THEOREM RunsDriven == WorkSpec => []RunDriver
  <1>1. (part = "runs" => RP!IInv) => RunDriver
    BY RunsAssumed, RP!IInvImplies, SameTypeOK, SameOneDriver, SameCallsOwed DEF RunDriver
  <1>2. QED
    BY <1>1, RunsAlways, PTL

\* A run that is done or cancelled stays so, whatever timer, answer, signal or call of it is left.
THEOREM FinishedRunsStay == WorkSpec => FinishedIsFinal
  <1>1. (part = "runs" => RP!IInv) /\ [WorkNext]_workVars => [part = "runs" => R!FinishedStay]_runsVars
    <2> SUFFICES ASSUME part = "runs", RP!IInv, [WorkNext]_workVars PROVE R!FinishedStay
      OBVIOUS
    <2>1. RP!Next \/ UNCHANGED RP!vars
      BY OtherSteps, SameNext DEF RunsStep
    <2>2. QED
      BY <2>1, RunsAssumed, RP!FinishedStays, SameFinishedStay
  <1>2. QED
    BY <1>1, RunsAlways, PTL DEF WorkSpec, FinishedIsFinal

-----------------------------------------------------------------------------
(* Induction, by the least number that is not as it should be.             *)

\* A set of numbers has a least one.
LEMMA LeastOf ==
  ASSUME NEW T, T \subseteq Nat, T # {}
  PROVE  \E x \in T : \A y \in T : x <= y
  <1> DEFINE Less == {ss \in Nat \X Nat : ss[1] < ss[2]}
  <1>1. IsWellFoundedOn(Less, Nat)
    BY NatLessThanWellFounded DEF OpToRel
  <1> HIDE DEF Less
  <1>2. \E x \in T : \A y \in T : ~ (<<y, x>> \in Less)
    BY <1>1, WFMin
  <1>3. \A x, y \in Nat : ~ (<<y, x>> \in Less) => x <= y
    BY DEF Less
  <1>4. QED
    BY <1>2, <1>3

\* What is true of 0, and of n + 1 where it is of n, is true of every number; of sets, since a lemma
\* takes no operator.
LEMMA ByLeast ==
  ASSUME NEW S, S \subseteq Nat, 0 \in S, \A n \in Nat : n \in S => n + 1 \in S
  PROVE  S = Nat
  <1> SUFFICES ASSUME Nat \ S # {} PROVE FALSE
    OBVIOUS
  <1>1. PICK n \in Nat \ S : \A m \in Nat \ S : n <= m
    BY LeastOf
  <1>2. n # 0 /\ n - 1 \in Nat /\ n - 1 \in S
    BY <1>1
  <1>3. QED
    BY <1>1, <1>2

\* A bounded set of numbers has a greatest one.
LEMMA GreatestOf ==
  ASSUME NEW k \in Nat, NEW T, T \subseteq 1 .. k, T # {}
  PROVE  \E x \in T : \A y \in T : y <= x
  <1> DEFINE U == {m \in Nat : \E x \in T : m = k - x}
  <1>1. U # {}
    <2>1. PICK x : x \in T
      OBVIOUS
    <2>2. k - x \in Nat
      BY <2>1
    <2>3. QED
      BY <2>1, <2>2
  <1>2. PICK m \in U : \A y \in U : m <= y
    BY <1>1, LeastOf
  <1>3. PICK x \in T : m = k - x
    BY <1>2
  <1>4. ASSUME NEW y \in T PROVE y <= x
    <2>1. x \in 1 .. k /\ y \in 1 .. k
      OBVIOUS
    <2>2. k - y \in U
      BY <2>1
    <2>3. k - x <= k - y
      BY <1>2, <1>3, <2>2
    <2> HIDE DEF U
    <2>4. QED
      BY <2>1, <2>3
  <1>5. QED
    BY <1>4

-----------------------------------------------------------------------------
(* What the run holds after each of its attempts.                          *)

\* g is _results' loop over the first k of the attempts q.
FoldsTo(q, g, k) ==
    g = [i \in 0 .. k |-> IF i = 0 THEN V!NothingHeld ELSE V!Taken(g[i - 1], q[i])]

\* The loop comes to something, whatever the attempts are.
LEMMA FoldExists == ASSUME NEW q PROVE \A k \in Nat : \E g : FoldsTo(q, g, k)
  <1> DEFINE S == {k \in Nat : \E g : FoldsTo(q, g, k)}
  <1>1. 0 \in S
    <2>1. FoldsTo(q, [i \in 0 .. 0 |-> V!NothingHeld], 0)
      BY DEF FoldsTo
    <2>2. QED
      BY <2>1
  <1>2. ASSUME NEW k \in Nat, k \in S PROVE k + 1 \in S
    <2>1. PICK g : FoldsTo(q, g, k)
      BY <1>2
    <2> DEFINE h == [i \in 0 .. k + 1 |-> IF i = k + 1 THEN V!Taken(g[k], q[k + 1]) ELSE g[i]]
    <2>2. FoldsTo(q, h, k + 1)
      BY <2>1 DEF FoldsTo
    <2>3. QED
      BY <2>2
  <1> HIDE DEF S
  <1>3. S = Nat
    <2>1. S \subseteq Nat
      BY DEF S
    <2>2. QED
      BY <1>1, <1>2, <2>1, ByLeast
  <1>4. QED
    BY <1>3 DEF S

\* HeldAfter is what its recursion says.
LEMMA HeldIs ==
  ASSUME Len(attempts) \in Nat
  PROVE  /\ V!HeldAfter[0] = V!NothingHeld
         /\ \A i \in 1 .. Len(attempts) : V!HeldAfter[i] = V!Taken(V!HeldAfter[i - 1], attempts[i])
  <1>1. FoldsTo(attempts, V!HeldAfter, Len(attempts))
    BY FoldExists DEF FoldsTo, V!HeldAfter
  <1>2. QED
    BY <1>1 DEF FoldsTo

\* The i-th attempt, and what it recorded.
StepAt(i) == attempts[i].step
RecordsAt(n, i) == V!Records(attempts[i]) /\ n \in DOMAIN attempts[i].values
\* r is the latest of the first i attempts that recorded n.
RecordOf(n, r, i) == r \in 1 .. i /\ RecordsAt(n, r) /\ \A j \in r + 1 .. i : ~RecordsAt(n, j)
\* Where the values that attempt r recorded stand once the next one starts: an attempt further back
\* takes them over.
LevelOf(r) == IF StepAt(r + 1) < StepAt(r) THEN StepAt(r + 1) ELSE StepAt(r)
\* Nothing of the attempts after r, up to i, started at or before where its values stand.
Outlives(r, i) ==
    /\ StepAt(r + 1) # StepAt(r)
    /\ \A j \in r + 2 .. i : \/ StepAt(j) = StepAt(j - 1) /\ ~V!Records(attempts[j - 1])
                             \/ LevelOf(r) < StepAt(j)
\* Of value n, last recorded by r: whether it is held after i attempts, and as what.
HeldAs(n, r, i) ==
    /\ n \in DOMAIN V!HeldAfter[i].values <=> (r = i \/ Outlives(r, i))
    /\ n \in DOMAIN V!HeldAfter[i].values =>
          V!HeldAfter[i].values[n] = [at |-> IF r = i THEN StepAt(r) ELSE LevelOf(r), value |-> attempts[r].values[n]]
\* What is held after i attempts: the latest records that nothing dropped.
RightAfter(i) ==
    /\ \A n \in DOMAIN V!HeldAfter[i].values : \E r : RecordOf(n, r, i)
    /\ \A n, r : RecordOf(n, r, i) => HeldAs(n, r, i)

\* What the induction needs of the attempts.
StepsKnown ==
    /\ Len(attempts) \in Nat /\ DOMAIN attempts = 1 .. Len(attempts)
    /\ \A i \in 1 .. Len(attempts) : attempts[i].step \in Nat \ {0}

\* What is left of it for a step that starts next.
LeftFor(r, i, s) ==
    IF r = i THEN s # StepAt(r)
    ELSE Outlives(r, i) /\ ((s = StepAt(i) /\ ~V!Records(attempts[i])) \/ LevelOf(r) < s)
LevelFor(r, i, s) ==
    IF r = i THEN (IF s < StepAt(r) THEN s ELSE StepAt(r)) ELSE LevelOf(r)

\* What the loop carries from the latest attempt: its values, or that it is being tried again.
LEMMA LastHeld ==
  ASSUME StepsKnown, NEW i \in 0 .. Len(attempts)
  PROVE  /\ i > 0 /\ V!Records(attempts[i]) =>
                V!HeldAfter[i].last = [at |-> StepAt(i), values |-> attempts[i].values] /\ V!HeldAfter[i].retrying = 0
         /\ ~(i > 0 /\ V!Records(attempts[i])) =>
                V!HeldAfter[i].last = [at |-> 0, values |-> V!NoValues]
         /\ i > 0 /\ ~V!Records(attempts[i]) => V!HeldAfter[i].retrying = StepAt(i)
         /\ i = 0 => V!HeldAfter[i].retrying = 0
  <1>1. CASE i = 0
    BY <1>1, HeldIs DEF StepsKnown, V!NothingHeld
  <1>2. CASE i > 0
    <2>1. V!HeldAfter[i] = V!Taken(V!HeldAfter[i - 1], attempts[i])
      BY <1>2, HeldIs DEF StepsKnown
    <2>2. QED
      BY <1>2, <2>1 DEF V!Taken, StepAt
  <1>3. QED
    BY <1>1, <1>2

\* What a step that starts after i attempts finds, by the latest records.
LEMMA StartHeld ==
  ASSUME StepsKnown, NEW i \in 0 .. Len(attempts), RightAfter(i), NEW s \in Nat \ {0}
  PROVE  LET v == V!StartAt(V!HeldAfter[i], s)
         IN  /\ \A n \in DOMAIN v : \E r : RecordOf(n, r, i)
             /\ \A n, r : RecordOf(n, r, i) =>
                   /\ n \in DOMAIN v <=> LeftFor(r, i, s)
                   /\ n \in DOMAIN v => v[n] = [at |-> LevelFor(r, i, s), value |-> attempts[r].values[n]]
  <1> DEFINE carried == V!HeldAfter[i]
             kept == {n \in DOMAIN carried.values : carried.values[n].at < s}
             over == IF carried.last.at > s THEN carried.last.values ELSE V!NoValues
             v == V!StartAt(carried, s)
  <1>1. v = IF s = carried.retrying THEN carried.values
            ELSE [n \in kept \union DOMAIN over |->
                     IF n \in DOMAIN over THEN [at |-> s, value |-> over[n]] ELSE carried.values[n]]
    BY DEF V!StartAt
  <1>2. CASE i > 0 /\ V!Records(attempts[i])
    <2>1. /\ carried.last = [at |-> StepAt(i), values |-> attempts[i].values] /\ carried.retrying = 0
          /\ StepAt(i) \in Nat \ {0}
      BY <1>2, LastHeld DEF StepsKnown, StepAt
    <2>2. over = IF StepAt(i) > s THEN attempts[i].values ELSE V!NoValues
      BY <2>1
    <2>3. v = [n \in kept \union DOMAIN over |->
                     IF n \in DOMAIN over THEN [at |-> s, value |-> over[n]] ELSE carried.values[n]]
      BY <1>1, <2>1
    <2>4. \A n \in DOMAIN attempts[i].values : RecordOf(n, i, i)
      BY <1>2 DEF RecordOf, RecordsAt
    <2>5. DOMAIN V!NoValues = {}
      BY DEF V!NoValues
    <2> HIDE DEF over, v, kept
    <2>6. \A n \in DOMAIN v : \E r : RecordOf(n, r, i)
      BY <2>2, <2>3, <2>4, <2>5 DEF RightAfter, kept
    <2>7. ASSUME NEW n, NEW r, RecordOf(n, r, i)
          PROVE  /\ n \in DOMAIN v <=> LeftFor(r, i, s)
                 /\ n \in DOMAIN v => v[n] = [at |-> LevelFor(r, i, s), value |-> attempts[r].values[n]]
      <3>1. /\ n \in DOMAIN carried.values <=> (r = i \/ Outlives(r, i))
            /\ n \in DOMAIN carried.values =>
                  carried.values[n] = [at |-> IF r = i THEN StepAt(r) ELSE LevelOf(r), value |-> attempts[r].values[n]]
        BY <2>7 DEF RightAfter, HeldAs
      <3>2. r \in 1 .. i /\ StepAt(r) \in Nat
        BY <2>7 DEF RecordOf, StepsKnown, StepAt
      <3>3. CASE r = i
        <4>1. n \in DOMAIN attempts[i].values
          BY <2>7, <3>3 DEF RecordOf, RecordsAt
        <4>2. n \in kept <=> StepAt(i) < s
          BY <3>1, <3>3 DEF kept
        <4>3. n \in DOMAIN over <=> StepAt(i) > s
          BY <2>2, <2>5, <4>1
        <4>4. n \in DOMAIN v <=> StepAt(i) # s
          BY <2>1, <2>3, <4>2, <4>3
        <4>5. CASE StepAt(i) > s
          BY <2>1, <2>2, <2>3, <3>3, <4>1, <4>3, <4>4, <4>5 DEF LeftFor, LevelFor
        <4>6. CASE ~(StepAt(i) > s)
          BY <2>1, <2>3, <3>1, <3>3, <4>2, <4>3, <4>4, <4>6 DEF LeftFor, LevelFor
        <4>7. QED
          BY <4>5, <4>6
      <3>4. CASE r # i
        <4>1. n \notin DOMAIN attempts[i].values
          BY <1>2, <2>7, <3>4 DEF RecordOf, RecordsAt
        <4>2. n \notin DOMAIN over
          BY <2>2, <2>5, <4>1
        <4>3. n \in kept <=> Outlives(r, i) /\ LevelOf(r) < s
          BY <3>1, <3>4 DEF kept
        <4>4. n \in DOMAIN v <=> Outlives(r, i) /\ LevelOf(r) < s
          BY <2>3, <4>2, <4>3
        <4>5. n \in DOMAIN v => v[n] = carried.values[n]
          BY <2>3, <4>2
        <4>6. QED
          BY <1>2, <3>1, <3>4, <4>4, <4>5 DEF LeftFor, LevelFor
      <3>5. QED
        BY <3>3, <3>4
    <2>8. QED
      BY <2>6, <2>7 DEF v
  <1>3. CASE ~(i > 0 /\ V!Records(attempts[i]))
    <2>1. /\ carried.last = [at |-> 0, values |-> V!NoValues]
          /\ (i > 0 => carried.retrying = StepAt(i))
          /\ (i = 0 => carried.retrying = 0)
      BY <1>3, LastHeld
    <2>2. over = V!NoValues /\ DOMAIN V!NoValues = {}
      BY <2>1 DEF V!NoValues
    <2>3. v = IF s = carried.retrying THEN carried.values ELSE [n \in kept |-> carried.values[n]]
      BY <1>1, <2>2
    <2> HIDE DEF over, v, kept
    <2>4. \A n \in DOMAIN v : n \in DOMAIN carried.values /\ v[n] = carried.values[n]
      BY <2>3 DEF kept
    <2>5. \A n \in DOMAIN v : \E r : RecordOf(n, r, i)
      BY <2>4 DEF RightAfter
    <2>6. ASSUME NEW n, NEW r, RecordOf(n, r, i)
          PROVE  /\ n \in DOMAIN v <=> LeftFor(r, i, s)
                 /\ n \in DOMAIN v => v[n] = [at |-> LevelFor(r, i, s), value |-> attempts[r].values[n]]
      <3>1. /\ n \in DOMAIN carried.values <=> (r = i \/ Outlives(r, i))
            /\ n \in DOMAIN carried.values =>
                  carried.values[n] = [at |-> IF r = i THEN StepAt(r) ELSE LevelOf(r), value |-> attempts[r].values[n]]
        BY <2>6 DEF RightAfter, HeldAs
      <3>2. r \in 1 .. i /\ r # i /\ i > 0
        BY <1>3, <2>6 DEF RecordOf, RecordsAt
      <3>3. n \in kept <=> Outlives(r, i) /\ LevelOf(r) < s
        BY <3>1, <3>2 DEF kept
      <3>4. n \in DOMAIN v <=> Outlives(r, i) /\ (s = StepAt(i) \/ LevelOf(r) < s)
        BY <2>1, <2>3, <3>1, <3>2, <3>3
      <3>5. QED
        BY <1>3, <2>4, <3>1, <3>2, <3>4 DEF LeftFor, LevelFor
    <2>7. QED
      BY <2>5, <2>6 DEF v
  <1>4. QED
    BY <1>2, <1>3

\* For the step of the next attempt, what is left is what outlives that attempt.
LEMMA LeftIs ==
  ASSUME StepsKnown, NEW i \in Nat, i + 1 <= Len(attempts), NEW r \in 1 .. i
  PROVE  /\ LeftFor(r, i, StepAt(i + 1)) <=> Outlives(r, i + 1)
         /\ LevelFor(r, i, StepAt(i + 1)) = LevelOf(r)
  <1>1. \A j \in 1 .. i + 1 : StepAt(j) \in Nat
    BY DEF StepsKnown, StepAt
  <1>2. CASE r = i
    BY <1>1, <1>2 DEF LeftFor, LevelFor, Outlives, LevelOf
  <1>3. CASE r # i
    <2> DEFINE Stays(j) == \/ StepAt(j) = StepAt(j - 1) /\ ~V!Records(attempts[j - 1])
                           \/ LevelOf(r) < StepAt(j)
    <2>1. Outlives(r, i) <=> StepAt(r + 1) # StepAt(r) /\ \A j \in r + 2 .. i : Stays(j)
      BY DEF Outlives
    <2>2. Outlives(r, i + 1) <=> StepAt(r + 1) # StepAt(r) /\ \A j \in r + 2 .. i + 1 : Stays(j)
      BY DEF Outlives
    <2>3. Stays(i + 1) <=> ((StepAt(i + 1) = StepAt(i) /\ ~V!Records(attempts[i])) \/ LevelOf(r) < StepAt(i + 1))
      OBVIOUS
    <2> HIDE DEF Stays
    <2>4. (\A j \in r + 2 .. i + 1 : Stays(j)) <=> (\A j \in r + 2 .. i : Stays(j)) /\ Stays(i + 1)
      BY <1>3
    <2>5. QED
      BY <1>3, <2>1, <2>2, <2>3, <2>4 DEF LeftFor, LevelFor
  <1>4. QED
    BY <1>2, <1>3

\* One more turn of the loop.
LEMMA RightNext ==
  ASSUME StepsKnown, NEW i \in Nat, i + 1 <= Len(attempts), RightAfter(i) PROVE RightAfter(i + 1)
  <1> DEFINE started == V!StartAt(V!HeldAfter[i], StepAt(i + 1))
             values == V!HeldAfter[i + 1].values
             new == attempts[i + 1].values
  <1>1. V!HeldAfter[i + 1] = V!Taken(V!HeldAfter[i], attempts[i + 1])
    BY HeldIs DEF StepsKnown
  <1>2. /\ \A n \in DOMAIN started : \E r : RecordOf(n, r, i)
        /\ \A n, r : RecordOf(n, r, i) =>
              /\ n \in DOMAIN started <=> Outlives(r, i + 1)
              /\ n \in DOMAIN started => started[n] = [at |-> LevelOf(r), value |-> attempts[r].values[n]]
    <2>1. StepAt(i + 1) \in Nat \ {0} /\ i \in 0 .. Len(attempts)
      BY DEF StepsKnown, StepAt
    <2>2. /\ \A n \in DOMAIN started : \E r : RecordOf(n, r, i)
          /\ \A n, r : RecordOf(n, r, i) =>
                /\ n \in DOMAIN started <=> LeftFor(r, i, StepAt(i + 1))
                /\ n \in DOMAIN started =>
                      started[n] = [at |-> LevelFor(r, i, StepAt(i + 1)), value |-> attempts[r].values[n]]
      BY <2>1, StartHeld
    <2>3. \A n, r : RecordOf(n, r, i) => r \in 1 .. i
      BY DEF RecordOf
    <2> HIDE DEF started
    <2>4. QED
      BY <2>2, <2>3, LeftIs
  <1>3. \A n, r : r # i + 1 /\ ~RecordsAt(n, i + 1) => (RecordOf(n, r, i + 1) <=> RecordOf(n, r, i))
    BY DEF RecordOf
  <1>4. \A n, r : RecordsAt(n, i + 1) => (RecordOf(n, r, i + 1) <=> r = i + 1)
    BY DEF RecordOf
  <1>5. \A n : RecordsAt(n, i + 1) <=> V!Records(attempts[i + 1]) /\ n \in DOMAIN new
    BY DEF RecordsAt
  <1>6. \A n, r : RecordOf(n, r, i + 1) /\ ~RecordsAt(n, i + 1) => r # i + 1
    BY DEF RecordOf
  <1>7. CASE V!Records(attempts[i + 1])
    <2>1. values = [n \in DOMAIN new \union DOMAIN started |->
                       IF n \in DOMAIN new THEN [at |-> StepAt(i + 1), value |-> new[n]] ELSE started[n]]
      BY <1>1, <1>7 DEF V!Taken, V!Over, StepAt
    <2> HIDE DEF values, started, new
    <2>2. \A n \in DOMAIN values : \E r : RecordOf(n, r, i + 1)
      <3> SUFFICES ASSUME NEW n \in DOMAIN values PROVE \E r : RecordOf(n, r, i + 1)
        OBVIOUS
      <3>1. CASE n \in DOMAIN new
        BY <1>4, <1>5, <1>7, <3>1
      <3>2. CASE n \notin DOMAIN new
        <4>1. PICK r : RecordOf(n, r, i)
          BY <1>2, <2>1, <3>2
        <4>2. r # i + 1
          BY <4>1 DEF RecordOf
        <4>3. QED
          BY <1>3, <1>5, <3>2, <4>1, <4>2
      <3>3. QED
        BY <3>1, <3>2
    <2>3. ASSUME NEW n, NEW r, RecordOf(n, r, i + 1)
          PROVE  /\ n \in DOMAIN values <=> (r = i + 1 \/ Outlives(r, i + 1))
                 /\ n \in DOMAIN values =>
                       values[n] = [at |-> IF r = i + 1 THEN StepAt(r) ELSE LevelOf(r), value |-> attempts[r].values[n]]
      <3>1. CASE n \in DOMAIN new
        <4>1. r = i + 1 /\ new = attempts[r].values
          BY <1>4, <1>5, <1>7, <2>3, <3>1 DEF new
        <4>2. QED
          BY <2>1, <3>1, <4>1
      <3>2. CASE n \notin DOMAIN new
        <4>1. RecordOf(n, r, i) /\ r # i + 1
          BY <1>3, <1>5, <1>6, <2>3, <3>2
        <4>2. QED
          BY <1>2, <2>1, <3>2, <4>1
      <3>3. QED
        BY <3>1, <3>2
    <2>4. QED
      BY <2>2, <2>3 DEF RightAfter, HeldAs, values
  <1>8. CASE ~V!Records(attempts[i + 1])
    <2>1. values = started
      BY <1>1, <1>8 DEF V!Taken, StepAt
    <2> HIDE DEF values, started, new
    <2>2. \A n, r : RecordOf(n, r, i + 1) => RecordOf(n, r, i) /\ r # i + 1
      BY <1>3, <1>5, <1>6, <1>8
    <2>3. \A n, r : RecordOf(n, r, i) => RecordOf(n, r, i + 1)
      <3> SUFFICES ASSUME NEW n, NEW r, RecordOf(n, r, i) PROVE RecordOf(n, r, i + 1)
        OBVIOUS
      <3>1. r # i + 1
        BY DEF RecordOf
      <3>2. QED
        BY <1>3, <1>5, <1>8, <3>1
    <2>4. QED
      BY <1>2, <2>1, <2>2, <2>3 DEF RightAfter, HeldAs, values
  <1>9. QED
    BY <1>7, <1>8

\* The loop holds the latest records that nothing dropped, after every attempt.
LEMMA AllRight == ASSUME StepsKnown PROVE \A i \in 0 .. Len(attempts) : RightAfter(i)
  <1> DEFINE S == {i \in Nat : i <= Len(attempts) => RightAfter(i)}
  <1>1. 0 \in S
    <2>1. DOMAIN V!HeldAfter[0].values = {}
      BY HeldIs DEF StepsKnown, V!NothingHeld
    <2>2. \A n, r : ~RecordOf(n, r, 0)
      BY DEF RecordOf
    <2>3. QED
      BY <2>1, <2>2 DEF RightAfter
  <1>2. ASSUME NEW i \in Nat, i \in S PROVE i + 1 \in S
    BY <1>2, RightNext DEF StepsKnown
  <1> HIDE DEF S
  <1>3. S = Nat
    <2>1. S \subseteq Nat
      BY DEF S
    <2>2. QED
      BY <1>1, <1>2, <2>1, ByLeast
  <1>4. \A i \in 0 .. Len(attempts) : i \in S /\ i <= Len(attempts)
    BY <1>3 DEF StepsKnown
  <1>5. QED
    BY <1>4 DEF S

-----------------------------------------------------------------------------
(* What a step that starts now is handed.                                  *)

\* LatestRecord is the latest attempt that recorded n.
LEMMA LatestIs ==
  ASSUME StepsKnown, NEW n
  PROVE  /\ V!LatestRecord(n) # 0 => RecordOf(n, V!LatestRecord(n), Len(attempts))
         /\ \A r : RecordOf(n, r, Len(attempts)) => V!LatestRecord(n) = r
  <1> DEFINE records == {i \in DOMAIN attempts : RecordsAt(n, i)}
             newest == V!LatestRecord(n)
  <1>1. newest = IF records = {} THEN 0 ELSE CHOOSE i \in records : \A j \in records : j <= i
    BY DEF V!LatestRecord, RecordsAt
  <1>2. records \subseteq 1 .. Len(attempts) /\ Len(attempts) \in Nat
    BY DEF StepsKnown
  <1>3. \A i : i \in records <=> i \in 1 .. Len(attempts) /\ RecordsAt(n, i)
    BY DEF StepsKnown
  <1> HIDE DEF records, newest
  <1>4. records # {} => newest \in records /\ \A j \in records : j <= newest
    <2>1. ASSUME records # {} PROVE \E i \in records : \A j \in records : j <= i
      BY <1>2, <2>1, GreatestOf
    <2>2. QED
      BY <1>1, <2>1
  <1>5. newest # 0 => RecordOf(n, newest, Len(attempts))
    <2> SUFFICES ASSUME newest # 0 PROVE RecordOf(n, newest, Len(attempts))
      OBVIOUS
    <2>1. newest \in records /\ \A j \in records : j <= newest
      BY <1>1, <1>4
    <2>2. \A j \in newest + 1 .. Len(attempts) : ~RecordsAt(n, j)
      <3> SUFFICES ASSUME NEW j \in newest + 1 .. Len(attempts), RecordsAt(n, j) PROVE FALSE
        OBVIOUS
      <3>1. newest \in 1 .. Len(attempts)
        BY <1>2, <2>1
      <3>2. j \in records
        BY <1>2, <1>3, <3>1
      <3>3. QED
        BY <1>2, <2>1, <3>1, <3>2
    <2>3. QED
      BY <1>3, <2>1, <2>2 DEF RecordOf
  <1>6. ASSUME NEW r, RecordOf(n, r, Len(attempts)) PROVE newest = r
    <2>1. r \in records
      BY <1>3, <1>6 DEF RecordOf
    <2>2. newest \in records /\ r <= newest
      BY <1>4, <2>1
    <2>3. newest \in 1 .. Len(attempts) /\ RecordsAt(n, newest) /\ r \in 1 .. Len(attempts)
      BY <1>3, <2>1, <2>2
    <2>4. ~(r < newest)
      BY <1>2, <1>6, <2>3 DEF RecordOf
    <2>5. QED
      BY <1>2, <2>2, <2>3, <2>4
  <1>7. QED
    BY <1>5, <1>6 DEF newest

\* What survives, as the property states it, is what is left, as the loop keeps it.
LEMMA Surviving ==
  ASSUME StepsKnown, NEW r \in 1 .. Len(attempts), NEW s \in Nat \ {0}
  PROVE  V!Survives(r, s) <=> LeftFor(r, Len(attempts), s)
  <1> DEFINE count == Len(attempts)
             spot == [j \in 1 .. count + 1 |-> IF j > count THEN s ELSE attempts[j].step]
             low == IF spot[r + 1] < spot[r] THEN spot[r + 1] ELSE spot[r]
             Stays(j) == (spot[j] = spot[j - 1] /\ ~V!Records(attempts[j - 1])) \/ low < spot[j]
  <1>1. count \in Nat /\ r \in 1 .. count
    BY DEF StepsKnown
  <1>2. V!Survives(r, s) <=> spot[r + 1] # spot[r] /\ \A j \in r + 2 .. count + 1 : Stays(j)
    BY DEF V!Survives
  <1>3. spot[count + 1] = s /\ \A j \in 1 .. count : spot[j] = StepAt(j)
    BY <1>1 DEF StepAt
  <1> HIDE DEF count, spot
  <1>4. CASE r = count
    <2>1. \A j \in r + 2 .. count + 1 : FALSE
      BY <1>1, <1>4
    <2>2. QED
      BY <1>1, <1>2, <1>3, <1>4, <2>1 DEF LeftFor, count
  <1>5. CASE r # count
    <2>1. spot[r + 1] = StepAt(r + 1) /\ spot[r] = StepAt(r) /\ low = LevelOf(r)
      BY <1>1, <1>3, <1>5 DEF LevelOf
    <2>2. Stays(count + 1) <=> ((s = StepAt(count) /\ ~V!Records(attempts[count])) \/ LevelOf(r) < s)
      BY <1>1, <1>3, <2>1
    <2> DEFINE Kept(j) == \/ StepAt(j) = StepAt(j - 1) /\ ~V!Records(attempts[j - 1])
                          \/ LevelOf(r) < StepAt(j)
    <2>3. \A j \in r + 2 .. count : Stays(j) <=> Kept(j)
      <3> SUFFICES ASSUME NEW j \in r + 2 .. count PROVE Stays(j) <=> Kept(j)
        OBVIOUS
      <3>1. j \in 1 .. count /\ j - 1 \in 1 .. count
        BY <1>1
      <3>2. QED
        BY <1>3, <2>1, <3>1
    <2>4. Outlives(r, count) <=> StepAt(r + 1) # StepAt(r) /\ \A j \in r + 2 .. count : Kept(j)
      BY DEF Outlives
    <2> HIDE DEF Stays, Kept, low
    <2>5. (\A j \in r + 2 .. count + 1 : Stays(j)) <=> (\A j \in r + 2 .. count : Stays(j)) /\ Stays(count + 1)
      BY <1>1, <1>5
    <2>6. V!Survives(r, s) <=> Outlives(r, count) /\ Stays(count + 1)
      BY <1>2, <2>1, <2>3, <2>4, <2>5
    <2>7. QED
      BY <1>5, <2>2, <2>6 DEF LeftFor, count
  <1>6. QED
    BY <1>4, <1>5

\* What a step that starts now is handed: the latest records that survive.
LEMMA HandedThisPass ==
  ASSUME StepsKnown, NEW s \in Nat \ {0}
  PROVE  LET kept == {n \in UNION {DOMAIN attempts[i].values : i \in DOMAIN attempts} :
                        V!LatestRecord(n) # 0 /\ V!Survives(V!LatestRecord(n), s)}
         IN V!ResultsFor(s) = [n \in kept |-> attempts[V!LatestRecord(n)].values[n]]
  <1> DEFINE names == UNION {DOMAIN attempts[i].values : i \in DOMAIN attempts}
             kept == {n \in names : V!LatestRecord(n) # 0 /\ V!Survives(V!LatestRecord(n), s)}
             left == V!StartAt(V!HeldAfter[Len(attempts)], s)
  <1>1. /\ \A n \in DOMAIN left : \E r : RecordOf(n, r, Len(attempts))
        /\ \A n, r : RecordOf(n, r, Len(attempts)) =>
              /\ n \in DOMAIN left <=> LeftFor(r, Len(attempts), s)
              /\ n \in DOMAIN left => left[n] = [at |-> LevelFor(r, Len(attempts), s), value |-> attempts[r].values[n]]
    <2>1. Len(attempts) \in 0 .. Len(attempts)
      BY DEF StepsKnown
    <2>2. RightAfter(Len(attempts))
      BY <2>1, AllRight
    <2>3. QED
      BY <2>1, <2>2, StartHeld
  <1>2. V!ResultsFor(s) = [n \in DOMAIN left |-> left[n].value]
    BY DEF V!ResultsFor, V!Fold
  <1>3. \A n, r : RecordOf(n, r, Len(attempts)) => r \in 1 .. Len(attempts) /\ n \in names
    BY DEF RecordOf, RecordsAt, StepsKnown
  <1>4. \A n, r : RecordOf(n, r, Len(attempts)) => V!LatestRecord(n) = r /\ r # 0
    BY <1>3, LatestIs
  <1>5. \A n : V!LatestRecord(n) # 0 => RecordOf(n, V!LatestRecord(n), Len(attempts))
    BY LatestIs
  <1> HIDE DEF left, names
  <1>6. kept = DOMAIN left
    <2>1. ASSUME NEW n \in kept PROVE n \in DOMAIN left
      BY <1>1, <1>3, <1>5, <2>1, Surviving
    <2>2. ASSUME NEW n \in DOMAIN left PROVE n \in kept
      <3>1. PICK r : RecordOf(n, r, Len(attempts))
        BY <1>1, <2>2
      <3>2. V!LatestRecord(n) = r /\ r # 0 /\ r \in 1 .. Len(attempts) /\ n \in names
        BY <1>3, <1>4, <3>1
      <3>3. LeftFor(r, Len(attempts), s)
        BY <1>1, <2>2, <3>1
      <3>4. V!Survives(r, s)
        BY <3>2, <3>3, Surviving
      <3>5. QED
        BY <3>2, <3>4
    <2>3. QED
      BY <2>1, <2>2
  <1>7. \A n \in DOMAIN left : left[n].value = attempts[V!LatestRecord(n)].values[n]
    <2> SUFFICES ASSUME NEW n \in DOMAIN left PROVE left[n].value = attempts[V!LatestRecord(n)].values[n]
      OBVIOUS
    <2>1. PICK r : RecordOf(n, r, Len(attempts))
      BY <1>1
    <2>2. V!LatestRecord(n) = r
      BY <1>4, <2>1
    <2>3. left[n] = [at |-> LevelFor(r, Len(attempts), s), value |-> attempts[r].values[n]]
      BY <1>1, <2>1
    <2>4. QED
      BY <2>2, <2>3
  <1>8. QED
    BY <1>2, <1>6, <1>7 DEF names

-----------------------------------------------------------------------------
(* The values a run is in.                                                 *)

\* The attempts a run of this line can have.
ValueNames == {V!FAILURE} \union UNION {V!Step(i).results : i \in 1 .. V!Last}
Recordings == UNION {[N -> V!StepValues] : N \in SUBSET ValueNames}
OutcomeNames == {V!None} \union UNION {DOMAIN V!Step(i).outcomes : i \in 1 .. V!Last}
TriedAttempts == [step : 1 .. V!Last, ending : V!StepEnding, outcome : OutcomeNames, values : Recordings,
          session : BOOLEAN, from : Nat]

\* Where a run can be: one attempt is open while it runs, of the step it is at, and none else.
RunTypes ==
    /\ runLine \in LineFactories /\ V!Passes(runLine)
    /\ runState \in V!Statuses /\ runAt \in 0 .. V!Last /\ (runState # "done" => runAt # 0)
    /\ attempts \in Seq(TriedAttempts) /\ after \in 0 .. Len(attempts)
    /\ \A i \in 1 .. Len(attempts) :
        /\ attempts[i].from \in 0 .. i - 1
        /\ attempts[i].ending = "open" <=> i = Len(attempts) /\ runState = "running"
    /\ runState = "running" => Len(attempts) # 0 /\ attempts[Len(attempts)].step = runAt

\* What the factory's file and its check say of its steps.
LEMMA LineIs ==
  ASSUME RunTypes
  PROVE  /\ V!Last \in Nat \ {0} /\ DOMAIN V!Steps = 1 .. V!Last
         /\ \A i \in 1 .. V!Last :
                /\ V!None \notin DOMAIN V!Step(i).outcomes
                /\ \A goes \in V!SendBacks(V!Step(i)) :
                      goes.step \in 1 .. i - 1 /\ goes.max \in Nat \ {0}
                /\ V!Step(i).resume \in Nat
                /\ V!Step(i).resume # 0 =>
                      /\ V!Step(i).resume \in 1 .. i - 1
                      /\ V!Step(V!Step(i).resume).client = V!Step(i).client
                      /\ V!Step(V!Step(i).resume).instance = V!Step(i).instance
  <1>1. V!Declared(runLine) /\ V!BackIsEarlier(runLine) /\ V!ResumesOwn(runLine)
    BY LinesAssumption DEF RunTypes, V!Passes
  <1>2. V!Last \in Nat \ {0} /\ DOMAIN V!Steps = 1 .. V!Last
    BY <1>1 DEF V!Declared, V!Last, V!Steps
  <1> SUFFICES ASSUME NEW i \in 1 .. V!Last
               PROVE  /\ V!None \notin DOMAIN V!Step(i).outcomes
                      /\ \A goes \in V!SendBacks(V!Step(i)) :
                            goes.step \in 1 .. i - 1 /\ goes.max \in Nat \ {0}
                      /\ V!Step(i).resume \in Nat
                      /\ V!Step(i).resume # 0 =>
                            /\ V!Step(i).resume \in 1 .. i - 1
                            /\ V!Step(V!Step(i).resume).client = V!Step(i).client
                            /\ V!Step(V!Step(i).resume).instance = V!Step(i).instance
    BY <1>2
  <1>3. i \in DOMAIN runLine.steps
    BY <1>2 DEF V!Steps
  <1>4. V!Step(i).resume \in Nat /\ V!None \notin DOMAIN V!Step(i).outcomes
    BY <1>1, <1>3 DEF V!Declared, V!Step, V!Steps
  <1>5. \A goes \in V!SendBacks(V!Step(i)) : goes.step \in 1 .. i - 1 /\ goes.max \in Nat \ {0}
    BY <1>1, <1>3 DEF V!Declared, V!BackIsEarlier, V!Step, V!Steps
  <1>6. V!Step(i).resume # 0 =>
            /\ V!Step(i).resume < i
            /\ V!Step(V!Step(i).resume).client = V!Step(i).client
            /\ V!Step(V!Step(i).resume).instance = V!Step(i).instance
    BY <1>1, <1>3 DEF V!ResumesOwn, V!Step, V!Steps
  <1>7. QED
    BY <1>4, <1>5, <1>6

\* The induction's premises hold of every run.
LEMMA StepsAreKnown == RunTypes => StepsKnown
  <1> SUFFICES ASSUME RunTypes PROVE StepsKnown
    OBVIOUS
  <1>1. attempts \in Seq(TriedAttempts)
    BY DEF RunTypes
  <1>2. \A i \in 1 .. Len(attempts) : attempts[i] \in TriedAttempts
    BY <1>1
  <1>3. V!Last \in Nat
    BY LineIs
  <1>4. \A i \in 1 .. Len(attempts) : attempts[i].step \in 1 .. V!Last
    BY <1>2 DEF TriedAttempts
  <1>5. QED
    BY <1>1, <1>3, <1>4 DEF StepsKnown

\* RunValues counts as FiniteSets does.
LEMMA CardinalitySame == ASSUME NEW X PROVE V!Cardinality(X) = Cardinality(X)
  BY DEF V!Cardinality, Cardinality

\* How often work was sent back is a number.
LEMMA SentTimes ==
  ASSUME RunTypes, NEW s, NEW to
  PROVE  V!SentBackTimes(s, to) \in Nat
  <1>1. IsFiniteSet(1 .. Len(attempts))
    BY StepsAreKnown, FS_Interval DEF StepsKnown
  <1>2. {i \in V!Counted : attempts[i].step = s /\ V!SentBack(attempts[i]) = to} \subseteq 1 .. Len(attempts)
    BY StepsAreKnown DEF StepsKnown, V!Counted
  <1>3. QED
    BY <1>1, <1>2, FS_Subset, FS_CardinalityType, CardinalitySame DEF V!SentBackTimes

\* What a step hands back.
LEMMA ResultIs ==
  ASSUME NEW s \in 1 .. V!Last, NEW result \in V!StepResults(s)
  PROVE  /\ result.ending \in {"clean", "failed", "timed-out", "needs-human"}
         /\ result.outcome \in DOMAIN V!Step(s).outcomes \union {V!None}
         /\ result.values \in Recordings
  <1> DEFINE noted == {V!NoValues} \union UNION {[V!Step(s).results -> {v}] : v \in V!StepValues}
             unread == IF V!Step(s).failed.to = "back" THEN noted ELSE {V!NoValues}
  <1>1. noted \subseteq Recordings
    <2>1. V!NoValues \in [{} -> V!StepValues]
      BY DEF V!NoValues
    <2>2. V!NoValues \in Recordings
      BY <2>1 DEF Recordings
    <2>3. ASSUME NEW v \in V!StepValues PROVE [V!Step(s).results -> {v}] \subseteq Recordings
      <3>1. V!Step(s).results \in SUBSET ValueNames
        BY DEF ValueNames
      <3>2. [V!Step(s).results -> {v}] \subseteq [V!Step(s).results -> V!StepValues]
        OBVIOUS
      <3>3. QED
        BY <3>1, <3>2 DEF Recordings
    <2>4. QED
      BY <2>2, <2>3
  <1>2. unread \subseteq Recordings /\ V!NoValues \in Recordings
    BY <1>1
  <1>3. result \in [ending : {"clean"}, outcome : DOMAIN V!Step(s).outcomes \union {V!None}, values : noted]
                   \union [ending : {"failed"}, outcome : {V!None}, values : unread]
                   \union [ending : {"timed-out", "needs-human"}, outcome : {V!None}, values : {V!NoValues}]
    BY DEF V!StepResults
  <1> HIDE DEF noted, unread
  <1>4. QED
    BY <1>1, <1>2, <1>3

\* What becomes of an attempt of step s that ends, and where it sends the run.
Settles(s, result, to) ==
    /\ to.result \in TriedAttempts /\ to.result.step = s /\ to.result.from = result.from
    /\ to.result.ending # "open"
    /\ to.status \in {"queued", "needs-human", "cancelled", "done"}
    /\ to.at \in 0 .. V!Last /\ (to.status # "done" => to.at # 0)
    /\ V!SentBack(to.result) # 0 =>
          \E goes \in V!SendBacks(V!Step(s)) :
              /\ goes.step = V!SentBack(to.result)
              /\ to.status = "queued" \/ to.status = "needs-human"
              /\ to.status = "queued" => V!SentBackTimes(s, goes.step) < goes.max
    /\ to.status = "done" => to.result.ending = "clean" /\ V!DoneHeld(to.result)

\* A result that failed goes back, is tried again or stops.
LEMMA SettlesFailed ==
  ASSUME RunTypes, NEW s \in 1 .. V!Last, NEW result \in TriedAttempts, result.step = s,
         result.ending \in {"failed", "timed-out", "needs-human"}
  PROVE  Settles(s, result, V!SettledFailed(s, result)) /\ V!SettledFailed(s, result).status # "done"
  <1> DEFINE extra == [n \in {V!FAILURE} |-> "yes"]
             both == V!Over(extra, result.values)
             failure == [result EXCEPT !.values = both]
             to == V!SettledFailed(s, result)
  <1>1. failure \in TriedAttempts /\ failure.step = s /\ failure.from = result.from /\ failure.ending = result.ending
    <2>1. both \in Recordings
      <3>1. PICK N \in SUBSET ValueNames : result.values \in [N -> V!StepValues]
        BY DEF TriedAttempts, Recordings
      <3>2. N \union {V!FAILURE} \in SUBSET ValueNames
        BY DEF ValueNames
      <3>3. both \in [N \union {V!FAILURE} -> V!StepValues]
        BY <3>1 DEF V!Over, V!StepValues
      <3>4. QED
        BY <3>2, <3>3 DEF Recordings
    <2> HIDE DEF both
    <2>2. QED
      BY <2>1 DEF TriedAttempts
  <1>2. ASSUME NEW x \in TriedAttempts, x.step = s, x.ending = result.ending
        PROVE  V!SentBack(x) = IF result.ending = "failed" /\ V!Step(s).failed.to = "back"
                             THEN V!Step(s).failed.step ELSE 0
    BY <1>2 DEF V!SentBack, V!FailedTo
  <1> HIDE DEF failure
  <1>3. to = IF result.ending = "failed" /\ V!Step(s).failed.to = "back"
             THEN IF V!SentBackTimes(s, V!Step(s).failed.step) >= V!Step(s).failed.max
                  THEN V!Moved(failure, "needs-human", s)
                  ELSE V!Moved(failure, "queued", V!Step(s).failed.step)
             ELSE IF result.ending \in {"timed-out", "needs-human"} \/ V!Failures(s) >= V!RetriesOf(V!Step(s))
                  THEN V!Moved(result, "needs-human", s)
                  ELSE V!Moved(result, "queued", s)
    BY DEF V!SettledFailed, failure
  <1> HIDE DEF to
  <1>4. s \in 1 .. V!Last /\ V!Last \in Nat
    BY LineIs
  <1>5. CASE result.ending = "failed" /\ V!Step(s).failed.to = "back"
    <2>1. V!Step(s).failed \in V!SendBacks(V!Step(s))
      BY <1>5 DEF V!SendBacks
    <2>2. V!Step(s).failed.step \in 1 .. s - 1 /\ V!Step(s).failed.max \in Nat
      BY <2>1, LineIs
    <2>3. V!SentBackTimes(s, V!Step(s).failed.step) \in Nat
      BY SentTimes
    <2>4. V!SentBack(failure) = V!Step(s).failed.step
      BY <1>1, <1>2, <1>5
    <2>5. to.result = failure
      BY <1>3, <1>5 DEF V!Moved
    <2>6. \/ to.status = "needs-human" /\ to.at = s
          \/ /\ to.status = "queued" /\ to.at = V!Step(s).failed.step
             /\ V!SentBackTimes(s, V!Step(s).failed.step) < V!Step(s).failed.max
      BY <1>3, <1>5, <2>2, <2>3 DEF V!Moved
    <2>7. to.at \in 0 .. V!Last /\ to.at # 0 /\ to.status \in {"queued", "needs-human"}
      BY <1>4, <2>2, <2>6
    <2>8. \E goes \in V!SendBacks(V!Step(s)) :
              /\ goes.step = V!SentBack(to.result)
              /\ to.status = "queued" \/ to.status = "needs-human"
              /\ to.status = "queued" => V!SentBackTimes(s, goes.step) < goes.max
      BY <2>1, <2>4, <2>5, <2>6
    <2>9. QED
      BY <1>1, <1>5, <2>5, <2>7, <2>8 DEF Settles, to
  <1>6. CASE ~(result.ending = "failed" /\ V!Step(s).failed.to = "back")
    <2>1. to.result = result /\ to.at = s /\ to.status \in {"queued", "needs-human"}
      BY <1>3, <1>6 DEF V!Moved
    <2>2. V!SentBack(result) = 0
      BY <1>2, <1>6
    <2>3. QED
      BY <1>4, <2>1, <2>2 DEF Settles, to
  <1>7. QED
    BY <1>5, <1>6

\* A clean result goes on, goes back, stops or ends the run; without what done_requires names, it
\* failed.
LEMMA SettlesClean ==
  ASSUME RunTypes, NEW s \in 1 .. V!Last, NEW result \in TriedAttempts, result.step = s,
         result.ending = "clean", result.outcome \in DOMAIN V!Step(s).outcomes \union {V!None}
  PROVE  Settles(s, result, V!SettledClean(s, result))
  <1> DEFINE goes == IF result.outcome = V!None THEN [to |-> "next", step |-> 0, max |-> 0]
                     ELSE V!Step(s).outcomes[result.outcome]
             to == V!SettledClean(s, result)
  <1>1. to = CASE goes.to = "stop" -> V!Moved(result, "cancelled", s)
               [] goes.to = "back" ->
                      IF V!SentBackTimes(s, goes.step) >= goes.max
                      THEN V!Moved(result, "needs-human", s) ELSE V!Moved(result, "queued", goes.step)
               [] goes.to = "next" /\ s < V!Last -> V!Moved(result, "queued", s + 1)
               [] OTHER -> IF V!DoneHeld(result) THEN V!Moved(result, "done", 0)
                           ELSE V!SettledFailed(s, V!Failed(result))
    BY DEF V!SettledClean
  <1>2. V!SentBack(result) = IF goes.to = "back" THEN goes.step ELSE 0
    <2>1. V!None \notin DOMAIN V!Step(s).outcomes
      BY LineIs
    <2>2. CASE result.outcome = V!None
      BY <2>1, <2>2 DEF V!SentBack, V!FailedTo
    <2>3. CASE result.outcome # V!None
      BY <2>3 DEF V!SentBack, V!FailedTo
    <2>4. QED
      BY <2>2, <2>3
  <1>3. goes.to = "back" => goes \in V!SendBacks(V!Step(s))
    BY DEF V!SendBacks
  <1>4. s \in 1 .. V!Last /\ V!Last \in Nat
    BY LineIs
  <1> HIDE DEF goes, to
  <1>5. CASE goes.to = "back"
    <2>1. goes \in V!SendBacks(V!Step(s)) /\ goes.step \in 1 .. s - 1 /\ goes.max \in Nat
      BY <1>3, <1>5, LineIs
    <2>2. V!SentBackTimes(s, goes.step) \in Nat
      BY SentTimes
    <2>3. to = IF V!SentBackTimes(s, goes.step) >= goes.max
               THEN V!Moved(result, "needs-human", s) ELSE V!Moved(result, "queued", goes.step)
      BY <1>1, <1>5
    <2>4. /\ to.result = result
          /\ \/ to.status = "needs-human" /\ to.at = s
             \/ to.status = "queued" /\ to.at = goes.step /\ V!SentBackTimes(s, goes.step) < goes.max
      BY <2>1, <2>2, <2>3 DEF V!Moved
    <2>5. to.at \in 0 .. V!Last /\ to.at # 0 /\ to.status \in {"queued", "needs-human"}
      BY <1>4, <2>1, <2>4
    <2>6. QED
      BY <1>2, <1>5, <2>1, <2>4, <2>5 DEF Settles, to
  <1>6. CASE goes.to # "back" /\ to.result = result /\ to.at \in 1 .. V!Last /\ to.status \in {"queued", "cancelled"}
    BY <1>2, <1>4, <1>6 DEF Settles, to
  <1>7. CASE goes.to # "back" /\ to = V!Moved(result, "done", 0) /\ V!DoneHeld(result)
    BY <1>2, <1>4, <1>7 DEF Settles, V!Moved, to
  <1>8. CASE to = V!SettledFailed(s, V!Failed(result))
    <2>1. /\ V!Failed(result) \in TriedAttempts /\ V!Failed(result).step = s
          /\ V!Failed(result).ending = "failed" /\ V!Failed(result).from = result.from
      BY DEF V!Failed, TriedAttempts, V!StepEnding
    <2>2. Settles(s, V!Failed(result), to)
      BY <1>8, <2>1, SettlesFailed
    <2>3. QED
      BY <2>1, <2>2 DEF Settles, to
  <1>9. QED
    BY <1>1, <1>4, <1>5, <1>6, <1>7, <1>8 DEF V!Moved

\* Whatever a step hands back settles.
LEMMA SettlesResult ==
  ASSUME RunTypes, NEW s \in 1 .. V!Last, NEW result \in TriedAttempts, result.step = s,
         result.ending \in {"clean", "failed", "timed-out", "needs-human"}
  PROVE  Settles(s, result, V!Settled(s, result))
  <1>1. CASE /\ result.ending = "clean" /\ V!TypesHold(V!Step(s), result.values)
             /\ result.outcome \in DOMAIN V!Step(s).outcomes \union {V!None}
    BY <1>1, SettlesClean DEF V!Settled
  <1>2. CASE result.ending = "clean" /\ V!Settled(s, result) = V!SettledFailed(s, V!Failed(result))
    <2>1. /\ V!Failed(result) \in TriedAttempts /\ V!Failed(result).step = s
          /\ V!Failed(result).ending = "failed" /\ V!Failed(result).from = result.from
      BY DEF V!Failed, TriedAttempts, V!StepEnding
    <2>2. Settles(s, V!Failed(result), V!Settled(s, result))
      BY <1>2, <2>1, SettlesFailed
    <2>3. QED
      BY <2>1, <2>2 DEF Settles
  <1>3. CASE result.ending # "clean"
    BY <1>3, SettlesFailed DEF V!Settled
  <1>4. QED
    BY <1>1, <1>2, <1>3 DEF V!Settled

\* A step that is charged with a lack is a step.
LEMMA RefusalIs ==
  ASSUME RunTypes, runState = "queued", NEW s \in V!Refusals(runAt)
  PROVE  s \in 1 .. V!Last
  <1>1. runAt \in 1 .. V!Last /\ V!Last \in Nat
    BY LineIs DEF RunTypes
  <1>2. ASSUME NEW n PROVE V!Producer(runAt, n) \in 1 .. V!Last
    <2> DEFINE declaring == {i \in 1 .. runAt - 1 : n \in V!Step(i).results}
    <2>1. V!Producer(runAt, n) = IF declaring = {} THEN runAt ELSE CHOOSE i \in declaring : \A j \in declaring : j <= i
      BY DEF V!Producer
    <2>2. declaring # {} => \E i \in declaring : \A j \in declaring : j <= i
      <3>1. declaring \subseteq 1 .. V!Last
        BY <1>1
      <3> HIDE DEF declaring
      <3>2. QED
        BY <1>1, <3>1, GreatestOf
    <2>3. QED
      BY <1>1, <2>1, <2>2
  <1>3. V!Step(runAt).resume # 0 => V!Step(runAt).resume \in 1 .. V!Last
    BY <1>1, LineIs
  <1>4. QED
    BY <1>2, <1>3 DEF V!Refusals

\* A fresh attempt is one.
LEMMA AttemptStarts == ASSUME NEW s \in 1 .. V!Last PROVE V!Attempt(s) \in TriedAttempts
  <1>1. V!NoValues \in Recordings
    <2>1. V!NoValues \in [{} -> V!StepValues]
      BY DEF V!NoValues
    <2>2. QED
      BY <2>1 DEF Recordings
  <1>2. QED
    BY <1>1 DEF V!Attempt, TriedAttempts, V!StepEnding, OutcomeNames

\* The session to resume is one that was recorded by a step that shares it, or none.
LEMMA SessionIs ==
  ASSUME RunTypes, NEW s
  PROVE  /\ V!SessionOf(s) \in 0 .. Len(attempts)
         /\ V!SessionOf(s) # 0 => attempts[V!SessionOf(s)].session /\ V!SharesSession(s, attempts[V!SessionOf(s)].step)
  <1> DEFINE sessions == {i \in DOMAIN attempts : attempts[i].session /\ V!SharesSession(s, attempts[i].step)}
  <1>1. V!SessionOf(s) = IF sessions = {} THEN 0 ELSE CHOOSE i \in sessions : \A j \in sessions : j <= i
    BY DEF V!SessionOf
  <1>2. sessions \subseteq 1 .. Len(attempts) /\ Len(attempts) \in Nat
    BY StepsAreKnown DEF StepsKnown
  <1>3. sessions # {} => \E i \in sessions : \A j \in sessions : j <= i
    <2> HIDE DEF sessions
    <2>1. QED
      BY <1>2, GreatestOf
  <1>4. V!SessionOf(s) # 0 => V!SessionOf(s) \in sessions
    <2> HIDE DEF sessions
    <2>1. QED
      BY <1>1, <1>3
  <1>5. QED
    BY <1>2, <1>4

-----------------------------------------------------------------------------
(* No step leaves them.                                                    *)

\* The line is what it was.
LEMMA LineStays ==
  ASSUME runLine' = runLine
  PROVE  TriedAttempts' = TriedAttempts /\ V!Last' = V!Last /\ V!Steps' = V!Steps
  BY DEF TriedAttempts, OutcomeNames, Recordings, ValueNames, V!Last, V!Steps, V!Step

\* A run starts at its first step with no attempt.
LEMMA RunTypesStart == V!Init => RunTypes
  <1> SUFFICES ASSUME V!Init PROVE RunTypes
    OBVIOUS
  <1>1. runLine \in LineFactories /\ V!Passes(runLine) /\ V!Last \in Nat \ {0}
    BY LinesAssumption DEF V!Init, V!Declared, V!Last, V!Steps
  <1>2. attempts \in Seq(TriedAttempts) /\ Len(attempts) = 0
    BY DEF V!Init
  <1>3. QED
    BY <1>1, <1>2 DEF V!Init, RunTypes, V!Statuses

\* An attempt is added, or the last one ends.
AddsAttempt(x) == attempts' = Append(attempts, x)
EndsAttempt(x) == attempts' = [attempts EXCEPT ![Len(attempts)] = x]

\* The attempts, with one more.
LEMMA AddsIs ==
  ASSUME RunTypes, NEW x \in TriedAttempts, AddsAttempt(x)
  PROVE  /\ attempts' \in Seq(TriedAttempts) /\ Len(attempts') = Len(attempts) + 1 /\ Len(attempts) \in Nat
         /\ \A i \in 1 .. Len(attempts) : attempts'[i] = attempts[i]
         /\ attempts'[Len(attempts) + 1] = x
  BY DEF RunTypes, AddsAttempt

\* The attempts, with the last one over.
LEMMA EndsIs ==
  ASSUME RunTypes, NEW x \in TriedAttempts, EndsAttempt(x), Len(attempts) # 0
  PROVE  /\ attempts' \in Seq(TriedAttempts) /\ Len(attempts') = Len(attempts) /\ Len(attempts) \in Nat \ {0}
         /\ \A i \in 1 .. Len(attempts) - 1 : attempts'[i] = attempts[i]
         /\ attempts'[Len(attempts)] = x
  BY DEF RunTypes, EndsAttempt

\* How each step changes the attempts: Refuse, Begin, Settle and Limit.
Refuses(s, to) ==
    /\ runState = "queued" /\ s \in 1 .. V!Last
    /\ to.result.from = 0 /\ Settles(s, to.result, to) /\ AddsAttempt(to.result)
    /\ runState' = to.status /\ runAt' = to.at /\ to.status # "done"
Begins(x) ==
    /\ runState = "queued" /\ x \in TriedAttempts /\ x.step = runAt /\ x.ending = "open"
    /\ x.from = (IF V!Step(runAt).resume = 0 THEN 0 ELSE V!SessionOf(V!Step(runAt).resume))
    /\ AddsAttempt(x) /\ runState' = "running" /\ runAt' = runAt
SettlesLast(to) ==
    /\ runState = "running" /\ Settles(runAt, attempts[Len(attempts)], to) /\ EndsAttempt(to.result)
    /\ runState' = to.status /\ runAt' = to.at
LimitsLast(x) ==
    /\ runState = "running" /\ x \in TriedAttempts /\ x.step = runAt /\ x.from = attempts[Len(attempts)].from
    /\ x.ending = "limited" /\ EndsAttempt(x) /\ runState' = "parked" /\ runAt' = runAt
RestsOrRestarts ==
    /\ attempts' = attempts /\ runAt' \in 1 .. runAt
    /\ \/ V!Wake /\ runAt' = runAt
       \/ runState = "needs-human" /\ runState' = "queued" /\ after' = Len(attempts)

\* Each step of a run is one of these.
LEMMA RunSteps ==
  ASSUME RunTypes, V!Next
  PROVE  /\ runLine' = runLine /\ workItem' = workItem
         /\ \/ \E s, to : Refuses(s, to) /\ after' = after
            \/ \E x : Begins(x) /\ after' = after
            \/ \E to : SettlesLast(to) /\ after' = after
            \/ \E x : LimitsLast(x) /\ after' = after
            \/ RestsOrRestarts /\ (after' = after \/ after' = Len(attempts))
  <1>1. V!Last \in Nat /\ runAt \in 0 .. V!Last /\ Len(attempts) \in Nat
    BY LineIs, StepsAreKnown DEF RunTypes, StepsKnown
  <1>2. runLine' = runLine /\ workItem' = workItem
    <2>1. CASE V!Refuse
      BY <2>1 DEF V!Refuse
    <2>2. CASE V!Begin
      BY <2>2 DEF V!Begin
    <2>3. CASE V!Settle
      BY <2>3 DEF V!Settle
    <2>4. CASE V!Limit \/ V!Wake \/ V!Restart
      BY <2>4 DEF V!Limit, V!Wake, V!Restart
    <2>5. QED
      BY <2>1, <2>2, <2>3, <2>4 DEF V!Next
  <1>3. ASSUME V!Refuse PROVE \E s, to : Refuses(s, to) /\ after' = after
    <2>1. PICK s \in V!Refusals(runAt) :
             /\ attempts' = Append(attempts, V!SettledFailed(s, [V!Attempt(s) EXCEPT !.ending = "failed"]).result)
             /\ runState' = V!SettledFailed(s, [V!Attempt(s) EXCEPT !.ending = "failed"]).status
             /\ runAt' = V!SettledFailed(s, [V!Attempt(s) EXCEPT !.ending = "failed"]).at
      BY <1>3 DEF V!Refuse
    <2> DEFINE start == [V!Attempt(s) EXCEPT !.ending = "failed"]
               to == V!SettledFailed(s, start)
    <2>2. runState = "queued" /\ after' = after
      BY <1>3 DEF V!Refuse
    <2>3. s \in 1 .. V!Last
      BY <2>1, <2>2, RefusalIs
    <2>4. start \in TriedAttempts /\ start.step = s /\ start.ending = "failed" /\ start.from = 0
      BY <2>3, AttemptStarts DEF TriedAttempts, V!StepEnding, V!Attempt
    <2> HIDE DEF start
    <2>5. Settles(s, start, to) /\ to.status # "done"
      BY <2>3, <2>4, SettlesFailed
    <2>6. attempts' = Append(attempts, to.result) /\ runState' = to.status /\ runAt' = to.at
      BY <2>1 DEF start
    <2> HIDE DEF to
    <2>7. Settles(s, to.result, to) /\ to.result.from = 0
      BY <2>4, <2>5 DEF Settles
    <2>8. Refuses(s, to)
      BY <2>2, <2>3, <2>5, <2>6, <2>7 DEF Refuses, AddsAttempt
    <2>9. QED
      BY <2>2, <2>8
  <1>4. ASSUME V!Begin PROVE \E x : Begins(x) /\ after' = after
    <2> DEFINE from == IF V!Step(runAt).resume = 0 THEN 0 ELSE V!SessionOf(V!Step(runAt).resume)
               x == [V!Attempt(runAt) EXCEPT !.from = from]
    <2>1. runState = "queued" /\ runAt \in 1 .. V!Last
      BY <1>1, <1>4 DEF V!Begin, RunTypes
    <2>2. from \in Nat
      BY <1>1, SessionIs
    <2> HIDE DEF from
    <2>3. x \in TriedAttempts /\ x.step = runAt /\ x.ending = "open" /\ x.from = from
      BY <2>1, <2>2, AttemptStarts DEF TriedAttempts, V!Attempt
    <2>4. AddsAttempt(x) /\ runState' = "running" /\ runAt' = runAt /\ after' = after
      BY <1>4 DEF V!Begin, AddsAttempt, from
    <2>5. Begins(x)
      BY <2>1, <2>3, <2>4 DEF Begins, from
    <2>6. QED
      BY <2>4, <2>5
  <1>5. ASSUME V!Settle PROVE \E to : SettlesLast(to) /\ after' = after
    <2> DEFINE last == attempts[Len(attempts)]
    <2>1. PICK r \in V!StepResults(runAt), z \in {FALSE, V!Step(runAt).client # V!None} :
             LET to == V!Settled(runAt, V!Ended(attempts[Len(attempts)], r, z))
             IN /\ attempts' = [attempts EXCEPT ![Len(attempts)] = to.result]
                /\ runState' = to.status /\ runAt' = to.at
      BY <1>5 DEF V!Settle
    <2>2. runState = "running" /\ after' = after
      BY <1>5 DEF V!Settle
    <2>3. runAt \in 1 .. V!Last /\ last \in TriedAttempts /\ last.step = runAt
      BY <1>1, <2>2 DEF RunTypes
    <2>4. /\ r.ending \in {"clean", "failed", "timed-out", "needs-human"}
          /\ r.outcome \in OutcomeNames /\ r.values \in Recordings
      BY <2>3, ResultIs DEF OutcomeNames
    <2> DEFINE finished == V!Ended(last, r, z)
               to == V!Settled(runAt, finished)
    <2>5. /\ finished \in TriedAttempts /\ finished.step = runAt /\ finished.ending = r.ending
          /\ finished.from = last.from
      BY <2>3, <2>4 DEF TriedAttempts, V!StepEnding, V!Ended
    <2> HIDE DEF finished
    <2>6. Settles(runAt, finished, to)
      BY <2>3, <2>4, <2>5, SettlesResult
    <2>7. attempts' = [attempts EXCEPT ![Len(attempts)] = to.result] /\ runState' = to.status /\ runAt' = to.at
      BY <2>1 DEF finished
    <2> HIDE DEF to
    <2>8. Settles(runAt, last, to)
      BY <2>5, <2>6 DEF Settles
    <2>9. SettlesLast(to)
      BY <2>2, <2>7, <2>8 DEF SettlesLast, EndsAttempt
    <2>10. QED
      BY <2>2, <2>9
  <1>6. ASSUME V!Limit PROVE \E x : LimitsLast(x) /\ after' = after
    <2> DEFINE last == attempts[Len(attempts)]
               x == [last EXCEPT !.ending = "limited"]
    <2>1. runState = "running" /\ runState' = "parked" /\ runAt' = runAt /\ after' = after
      BY <1>6 DEF V!Limit
    <2>2. last \in TriedAttempts /\ last.step = runAt
      BY <1>1, <2>1 DEF RunTypes
    <2>3. x \in TriedAttempts /\ x.step = runAt /\ x.ending = "limited" /\ x.from = last.from
      BY <2>2 DEF TriedAttempts, V!StepEnding
    <2>4. EndsAttempt(x)
      BY <1>6 DEF V!Limit, EndsAttempt
    <2>5. LimitsLast(x)
      BY <2>1, <2>3, <2>4 DEF LimitsLast
    <2>6. QED
      BY <2>1, <2>5
  <1>7. ASSUME V!Wake PROVE RestsOrRestarts /\ after' = after
    <2>1. runAt \in 1 .. runAt
      BY <1>1, <1>7 DEF V!Wake, RunTypes
    <2>2. QED
      BY <1>7, <2>1 DEF RestsOrRestarts, V!Wake
  <1>8. ASSUME V!Restart PROVE RestsOrRestarts /\ after' = Len(attempts)
    BY <1>8 DEF RestsOrRestarts, V!Restart
  <1>9. QED
    BY <1>2, <1>3, <1>4, <1>5, <1>6, <1>7, <1>8 DEF V!Next

\* Every step keeps a run where it can be.
LEMMA RunTypesStay == RunTypes /\ V!Next => RunTypes'
  <1> SUFFICES ASSUME RunTypes, V!Next PROVE RunTypes'
    OBVIOUS
  <1>1. /\ runLine' = runLine
        /\ \/ \E s, to : Refuses(s, to) /\ after' = after
           \/ \E x : Begins(x) /\ after' = after
           \/ \E to : SettlesLast(to) /\ after' = after
           \/ \E x : LimitsLast(x) /\ after' = after
           \/ RestsOrRestarts /\ (after' = after \/ after' = Len(attempts))
    BY RunSteps
  <1>2. TriedAttempts' = TriedAttempts /\ V!Last' = V!Last /\ V!Passes(runLine)' /\ runLine' \in LineFactories
    <2>1. V!Passes(runLine)' <=> V!Passes(runLine)
      BY <1>1
    <2>2. QED
      BY <1>1, <2>1, LineStays DEF RunTypes
  <1>3. /\ V!Last \in Nat /\ runAt \in 0 .. V!Last /\ attempts \in Seq(TriedAttempts) /\ Len(attempts) \in Nat
        /\ after \in 0 .. Len(attempts) /\ runState \in V!Statuses /\ (runState # "done" => runAt # 0)
    BY LineIs, StepsAreKnown DEF RunTypes, StepsKnown
  <1>4. \A i \in 1 .. Len(attempts) :
            /\ attempts[i].from \in 0 .. i - 1
            /\ attempts[i].ending = "open" <=> i = Len(attempts) /\ runState = "running"
    BY DEF RunTypes
  <1>5. runState = "running" => Len(attempts) # 0 /\ attempts[Len(attempts)].step = runAt
    BY DEF RunTypes
  <1> DEFINE Whole ==
                /\ runState' \in V!Statuses /\ runAt' \in 0 .. V!Last /\ (runState' # "done" => runAt' # 0)
                /\ attempts' \in Seq(TriedAttempts) /\ after' \in 0 .. Len(attempts')
                /\ \A i \in 1 .. Len(attempts') :
                    /\ attempts'[i].from \in 0 .. i - 1
                    /\ attempts'[i].ending = "open" <=> i = Len(attempts') /\ runState' = "running"
                /\ runState' = "running" => Len(attempts') # 0 /\ attempts'[Len(attempts')].step = runAt'
  <1>6. ASSUME NEW s, NEW to, Refuses(s, to), after' = after PROVE Whole
    <2> DEFINE x == to.result
    <2>1. x \in TriedAttempts /\ x.from = 0 /\ x.ending # "open" /\ AddsAttempt(x) /\ runState = "queued"
      BY <1>6 DEF Refuses, Settles
    <2>2. /\ runState' \in {"queued", "needs-human", "cancelled", "done"}
          /\ runAt' \in 0 .. V!Last /\ (runState' # "done" => runAt' # 0)
      BY <1>6 DEF Refuses, Settles
    <2> HIDE DEF x
    <2>3. /\ attempts' \in Seq(TriedAttempts) /\ Len(attempts') = Len(attempts) + 1
          /\ \A i \in 1 .. Len(attempts) : attempts'[i] = attempts[i]
          /\ attempts'[Len(attempts) + 1] = x
      BY <2>1, AddsIs
    <2>4. after' \in 0 .. Len(attempts')
      BY <1>3, <1>6, <2>3
    <2>5. \A i \in 1 .. Len(attempts') :
             /\ attempts'[i].from \in 0 .. i - 1
             /\ attempts'[i].ending = "open" <=> i = Len(attempts') /\ runState' = "running"
      <3> SUFFICES ASSUME NEW i \in 1 .. Len(attempts')
                   PROVE  /\ attempts'[i].from \in 0 .. i - 1
                          /\ attempts'[i].ending = "open" <=> i = Len(attempts') /\ runState' = "running"
        OBVIOUS
      <3>1. CASE i \in 1 .. Len(attempts)
        BY <1>3, <1>4, <2>1, <2>2, <2>3, <3>1
      <3>2. CASE i = Len(attempts) + 1
        BY <1>3, <2>1, <2>2, <2>3, <3>2
      <3>3. QED
        BY <1>3, <2>3, <3>1, <3>2
    <2>6. QED
      BY <2>2, <2>3, <2>4, <2>5 DEF V!Statuses
  <1>7. ASSUME NEW x, Begins(x), after' = after PROVE Whole
    <2>1. /\ x \in TriedAttempts /\ x.step = runAt /\ x.ending = "open" /\ AddsAttempt(x) /\ runState = "queued"
          /\ runState' = "running" /\ runAt' = runAt
      BY <1>7 DEF Begins
    <2>2. x.from \in 0 .. Len(attempts)
      BY <1>3, <1>7, SessionIs DEF Begins
    <2>3. /\ attempts' \in Seq(TriedAttempts) /\ Len(attempts') = Len(attempts) + 1
          /\ \A i \in 1 .. Len(attempts) : attempts'[i] = attempts[i]
          /\ attempts'[Len(attempts) + 1] = x
      BY <2>1, AddsIs
    <2>4. after' \in 0 .. Len(attempts')
      BY <1>3, <1>7, <2>3
    <2>5. \A i \in 1 .. Len(attempts') :
             /\ attempts'[i].from \in 0 .. i - 1
             /\ attempts'[i].ending = "open" <=> i = Len(attempts') /\ runState' = "running"
      <3> SUFFICES ASSUME NEW i \in 1 .. Len(attempts')
                   PROVE  /\ attempts'[i].from \in 0 .. i - 1
                          /\ attempts'[i].ending = "open" <=> i = Len(attempts') /\ runState' = "running"
        OBVIOUS
      <3>1. CASE i \in 1 .. Len(attempts)
        BY <1>3, <1>4, <2>1, <2>2, <2>3, <3>1
      <3>2. CASE i = Len(attempts) + 1
        BY <1>3, <2>1, <2>2, <2>3, <3>2
      <3>3. QED
        BY <1>3, <2>3, <3>1, <3>2
    <2>6. QED
      BY <1>3, <1>7, <2>1, <2>3, <2>4, <2>5 DEF V!Statuses
  <1>8. ASSUME NEW x \in TriedAttempts, EndsAttempt(x), runState = "running",
               x.from = attempts[Len(attempts)].from, x.ending # "open",
               runState' \in V!Statuses \ {"running"}, runAt' \in 0 .. V!Last,
               runState' # "done" => runAt' # 0, after' = after
        PROVE  Whole
    <2>1. /\ attempts' \in Seq(TriedAttempts) /\ Len(attempts') = Len(attempts)
          /\ \A i \in 1 .. Len(attempts) - 1 : attempts'[i] = attempts[i]
          /\ attempts'[Len(attempts)] = x
      BY <1>5, <1>8, EndsIs
    <2>2. after' \in 0 .. Len(attempts')
      BY <1>3, <1>8, <2>1
    <2>3. \A i \in 1 .. Len(attempts') :
             /\ attempts'[i].from \in 0 .. i - 1
             /\ attempts'[i].ending = "open" <=> i = Len(attempts') /\ runState' = "running"
      <3> SUFFICES ASSUME NEW i \in 1 .. Len(attempts')
                   PROVE  /\ attempts'[i].from \in 0 .. i - 1
                          /\ attempts'[i].ending = "open" <=> i = Len(attempts') /\ runState' = "running"
        OBVIOUS
      <3>1. CASE i \in 1 .. Len(attempts) - 1
        BY <1>3, <1>4, <1>8, <2>1, <3>1
      <3>2. CASE i = Len(attempts)
        BY <1>3, <1>4, <1>5, <1>8, <2>1, <3>2
      <3>3. QED
        BY <1>3, <2>1, <3>1, <3>2
    <2>4. QED
      BY <1>8, <2>1, <2>2, <2>3
  <1>9. ASSUME NEW to, SettlesLast(to), after' = after PROVE Whole
    BY <1>8, <1>9 DEF SettlesLast, Settles, V!Statuses
  <1>10. ASSUME NEW x, LimitsLast(x), after' = after PROVE Whole
    <2>1. runAt # 0
      BY <1>3, <1>10 DEF LimitsLast
    <2>2. QED
      BY <1>3, <1>8, <1>10, <2>1 DEF LimitsLast, V!Statuses
  <1>11. ASSUME RestsOrRestarts, after' = after \/ after' = Len(attempts) PROVE Whole
    <2>1. attempts' = attempts /\ runAt' \in 0 .. V!Last /\ runAt' # 0 /\ runState' = "queued" /\ runState # "running"
      BY <1>3, <1>11 DEF RestsOrRestarts, V!Wake
    <2>2. after' \in 0 .. Len(attempts')
      BY <1>3, <1>11, <2>1
    <2>3. QED
      BY <1>3, <1>4, <2>1, <2>2 DEF V!Statuses
  <1> HIDE DEF Whole
  <1>12. Whole
    BY <1>1, <1>6, <1>7, <1>9, <1>10, <1>11
  <1>13. QED
    BY <1>2, <1>12 DEF RunTypes, Whole

-----------------------------------------------------------------------------
(* A session is only resumed by the client and in the instance it is of.   *)

\* Steps of one client in one instance.
AlikeSteps(s, t) == V!Step(s).client = V!Step(t).client /\ V!Step(s).instance = V!Step(t).instance

\* g finds where each step's chain of resumes starts; for the first k steps, FirstUpTo.
FirstsTo(g) == g = [i \in DOMAIN V!Steps |-> IF V!Step(i).resume = 0 THEN i ELSE g[V!Step(i).resume]]
FirstUpTo(g, k) == g = [i \in 1 .. k |-> IF V!Step(i).resume = 0 THEN i ELSE g[V!Step(i).resume]]

\* A step only resumes an earlier one, so every chain of resumes has a start.
LEMMA FirstsExist == ASSUME RunTypes PROVE \E g : FirstsTo(g)
  <1>1. /\ V!Last \in Nat /\ DOMAIN V!Steps = 1 .. V!Last
        /\ \A i \in 1 .. V!Last : V!Step(i).resume # 0 => V!Step(i).resume \in 1 .. i - 1
    BY LineIs
  <1> DEFINE S == {k \in Nat : k <= V!Last => \E g : FirstUpTo(g, k)}
  <1>2. 0 \in S
    <2>1. FirstUpTo([i \in 1 .. 0 |-> 0], 0)
      BY DEF FirstUpTo
    <2>2. QED
      BY <2>1
  <1>3. ASSUME NEW k \in Nat, k \in S PROVE k + 1 \in S
    <2> SUFFICES ASSUME k + 1 <= V!Last PROVE \E g : FirstUpTo(g, k + 1)
      OBVIOUS
    <2>1. PICK g : FirstUpTo(g, k)
      BY <1>1, <1>3
    <2> DEFINE new == IF V!Step(k + 1).resume = 0 THEN k + 1 ELSE g[V!Step(k + 1).resume]
               h == [i \in 1 .. k + 1 |-> IF i = k + 1 THEN new ELSE g[i]]
    <2>2. \A i \in 1 .. k + 1 : V!Step(i).resume # 0 =>
                V!Step(i).resume \in 1 .. k /\ h[V!Step(i).resume] = g[V!Step(i).resume]
      BY <1>1
    <2>3. \A i \in 1 .. k : g[i] = IF V!Step(i).resume = 0 THEN i ELSE g[V!Step(i).resume]
      BY <2>1 DEF FirstUpTo
    <2>4. \A i \in 1 .. k + 1 : h[i] = IF V!Step(i).resume = 0 THEN i ELSE h[V!Step(i).resume]
      BY <2>2, <2>3
    <2>5. h = [i \in 1 .. k + 1 |-> h[i]]
      OBVIOUS
    <2> HIDE DEF h
    <2>6. h = [i \in 1 .. k + 1 |-> IF V!Step(i).resume = 0 THEN i ELSE h[V!Step(i).resume]]
      BY <2>4, <2>5
    <2>7. QED
      BY <2>6 DEF FirstUpTo
  <1> HIDE DEF S
  <1>4. S = Nat
    <2>1. S \subseteq Nat
      BY DEF S
    <2>2. QED
      BY <1>2, <1>3, <2>1, ByLeast
  <1>5. PICK g : FirstUpTo(g, V!Last)
    BY <1>1, <1>4 DEF S
  <1>6. QED
    BY <1>1, <1>5 DEF FirstsTo, FirstUpTo

\* FirstOf is what its recursion says.
LEMMA FirstIs ==
  ASSUME RunTypes, NEW i \in 1 .. V!Last
  PROVE  V!FirstOf[i] = IF V!Step(i).resume = 0 THEN i ELSE V!FirstOf[V!Step(i).resume]
  <1>1. FirstsTo(V!FirstOf)
    BY FirstsExist DEF FirstsTo, V!FirstOf
  <1>2. i \in DOMAIN V!Steps
    BY LineIs
  <1>3. QED
    BY <1>1, <1>2 DEF FirstsTo

\* The step a chain of resumes starts at is of the same client and instance as its end: the first
\* step that is not would resume one that is.
LEMMA FirstAlike == ASSUME RunTypes PROVE \A i \in 1 .. V!Last : AlikeSteps(V!FirstOf[i], i)
  <1> DEFINE T == {i \in 1 .. V!Last : ~AlikeSteps(V!FirstOf[i], i)}
  <1> SUFFICES ASSUME T # {} PROVE FALSE
    OBVIOUS
  <1>1. V!Last \in Nat
    BY LineIs
  <1>2. T \subseteq Nat
    BY <1>1
  <1> HIDE DEF T
  <1>3. PICK i \in T : \A j \in T : i <= j
    BY <1>2, LeastOf
  <1>4. i \in 1 .. V!Last /\ ~AlikeSteps(V!FirstOf[i], i)
    BY <1>3 DEF T
  <1>5. V!FirstOf[i] = IF V!Step(i).resume = 0 THEN i ELSE V!FirstOf[V!Step(i).resume]
    BY <1>4, FirstIs
  <1>6. V!Step(i).resume # 0
    BY <1>4, <1>5 DEF AlikeSteps
  <1> DEFINE r == V!Step(i).resume
  <1>7. r \in 1 .. i - 1 /\ AlikeSteps(r, i)
    BY <1>4, <1>6, LineIs DEF AlikeSteps
  <1> HIDE DEF r
  <1>8. r \in 1 .. V!Last /\ r \notin T
    BY <1>1, <1>3, <1>4, <1>7
  <1>9. AlikeSteps(V!FirstOf[r], r)
    BY <1>8 DEF T
  <1>10. V!FirstOf[i] = V!FirstOf[r]
    BY <1>5, <1>6 DEF r
  <1>11. QED
    BY <1>4, <1>7, <1>9, <1>10 DEF AlikeSteps

\* So are the steps that share a session.
LEMMA SharedAlike ==
  ASSUME RunTypes, NEW s \in 1 .. V!Last, NEW t \in 1 .. V!Last, V!SharesSession(s, t) PROVE AlikeSteps(s, t)
  BY FirstAlike DEF V!SharesSession, AlikeSteps

\* And the step whose session is resumed.
LEMMA ResumedAlike ==
  ASSUME RunTypes, NEW s \in 1 .. V!Last, V!Step(s).resume # 0, V!SessionOf(V!Step(s).resume) # 0
  PROVE  AlikeSteps(s, attempts[V!SessionOf(V!Step(s).resume)].step)
  <1> DEFINE r == V!Step(s).resume
             i == V!SessionOf(r)
  <1>1. r \in 1 .. V!Last /\ AlikeSteps(s, r)
    BY LineIs DEF AlikeSteps
  <1>2. i \in 0 .. Len(attempts) /\ V!SharesSession(r, attempts[i].step)
    BY SessionIs
  <1>3. attempts[i].step \in 1 .. V!Last
    <2>1. i \in 1 .. Len(attempts) /\ attempts \in Seq(TriedAttempts)
      BY <1>2, StepsAreKnown DEF RunTypes, StepsKnown
    <2> HIDE DEF i
    <2>2. attempts[i] \in TriedAttempts
      BY <2>1
    <2>3. QED
      BY <2>2 DEF TriedAttempts
  <1> HIDE DEF r, i
  <1>4. AlikeSteps(r, attempts[i].step)
    BY <1>1, <1>2, <1>3, SharedAlike
  <1>5. AlikeSteps(s, attempts[i].step)
    BY <1>1, <1>4 DEF AlikeSteps
  <1>6. QED
    BY <1>5 DEF r, i

\* A session is resumed at Begin only, and no step changes what an attempt resumed.
LEMMA OwnSessionStays == RunTypes /\ V!OwnSession /\ V!Next => V!OwnSession'
  <1> SUFFICES ASSUME RunTypes, V!OwnSession, V!Next PROVE V!OwnSession'
    OBVIOUS
  <1>1. /\ runLine' = runLine
        /\ \/ \E s, to : Refuses(s, to)
           \/ \E x : Begins(x)
           \/ \E to : SettlesLast(to)
           \/ \E x : LimitsLast(x)
           \/ RestsOrRestarts
    BY RunSteps
  <1>2. /\ attempts \in Seq(TriedAttempts) /\ Len(attempts) \in Nat /\ DOMAIN attempts = 1 .. Len(attempts)
        /\ V!Last \in Nat /\ runAt \in 0 .. V!Last /\ (runState # "done" => runAt # 0)
    BY LineIs, StepsAreKnown DEF RunTypes, StepsKnown
  <1>3. \A i \in 1 .. Len(attempts) : attempts[i].from \in 0 .. i - 1
    BY DEF RunTypes
  <1> DEFINE Same(i) == attempts'[i].from = attempts[i].from /\ attempts'[i].step = attempts[i].step
             Own(i) == attempts'[i].from # 0 => AlikeSteps(attempts'[i].step, attempts'[attempts'[i].from].step)
  <1>4. \A i \in 1 .. Len(attempts) :
            attempts[i].from # 0 => AlikeSteps(attempts[i].step, attempts[attempts[i].from].step)
    BY <1>2 DEF V!OwnSession, AlikeSteps
  <1>5. ASSUME \A i \in 1 .. Len(attempts) : Same(i)
        PROVE  \A i \in 1 .. Len(attempts) : Own(i)
    <2> SUFFICES ASSUME NEW i \in 1 .. Len(attempts), attempts'[i].from # 0
                 PROVE  AlikeSteps(attempts'[i].step, attempts'[attempts'[i].from].step)
      OBVIOUS
    <2>1. attempts'[i].from = attempts[i].from /\ attempts[i].from \in 1 .. Len(attempts)
      BY <1>2, <1>3, <1>5
    <2>2. attempts'[attempts'[i].from].step = attempts[attempts[i].from].step
      BY <1>5, <2>1
    <2>3. attempts'[i].step = attempts[i].step
      BY <1>5
    <2>4. QED
      BY <1>4, <2>1, <2>2, <2>3
  <1>6. ASSUME attempts' \in Seq(TriedAttempts), \A i \in 1 .. Len(attempts') : Own(i) PROVE V!OwnSession'
    <2>1. DOMAIN attempts' = 1 .. Len(attempts')
      BY <1>6
    <2>2. QED
      BY <1>1, <1>6, <2>1 DEF V!OwnSession, AlikeSteps, V!Step, V!Steps
  <1> HIDE DEF Own
  <1>7. ASSUME NEW x \in TriedAttempts, AddsAttempt(x), x.from \in 0 .. Len(attempts),
               x.from # 0 => AlikeSteps(x.step, attempts[x.from].step)
        PROVE  V!OwnSession'
    <2>1. /\ attempts' \in Seq(TriedAttempts) /\ Len(attempts') = Len(attempts) + 1
          /\ \A i \in 1 .. Len(attempts) : attempts'[i] = attempts[i]
          /\ attempts'[Len(attempts) + 1] = x
      BY <1>7, AddsIs
    <2>2. \A i \in 1 .. Len(attempts) : Own(i)
      BY <1>5, <2>1
    <2>3. Own(Len(attempts) + 1)
      BY <1>2, <1>7, <2>1 DEF Own
    <2>4. \A i \in 1 .. Len(attempts') : Own(i)
      BY <1>2, <2>1, <2>2, <2>3
    <2>5. QED
      BY <1>6, <2>1, <2>4
  <1>8. ASSUME NEW x \in TriedAttempts, EndsAttempt(x), Len(attempts) # 0,
               x.from = attempts[Len(attempts)].from, x.step = attempts[Len(attempts)].step
        PROVE  V!OwnSession'
    <2>1. /\ attempts' \in Seq(TriedAttempts) /\ Len(attempts') = Len(attempts)
          /\ \A i \in 1 .. Len(attempts) - 1 : attempts'[i] = attempts[i]
          /\ attempts'[Len(attempts)] = x
      BY <1>8, EndsIs
    <2>2. \A i \in 1 .. Len(attempts) : Same(i)
      BY <1>2, <1>8, <2>1
    <2>3. QED
      BY <1>5, <1>6, <2>1, <2>2
  <1>9. runState = "running" => Len(attempts) # 0 /\ attempts[Len(attempts)].step = runAt
    BY DEF RunTypes
  <1>10. ASSUME NEW s, NEW to, Refuses(s, to) PROVE V!OwnSession'
    BY <1>2, <1>7, <1>10 DEF Refuses, Settles
  <1>11. ASSUME NEW x, Begins(x) PROVE V!OwnSession'
    <2>1. x \in TriedAttempts /\ AddsAttempt(x) /\ x.step = runAt /\ runAt \in 1 .. V!Last
      BY <1>2, <1>11 DEF Begins
    <2>2. x.from = IF V!Step(runAt).resume = 0 THEN 0 ELSE V!SessionOf(V!Step(runAt).resume)
      BY <1>11 DEF Begins
    <2>3. x.from \in 0 .. Len(attempts)
      BY <1>2, <2>2, SessionIs
    <2>4. x.from # 0 => AlikeSteps(runAt, attempts[x.from].step)
      BY <2>1, <2>2, ResumedAlike
    <2>5. QED
      BY <1>7, <2>1, <2>3, <2>4
  <1>12. ASSUME NEW to, SettlesLast(to) PROVE V!OwnSession'
    BY <1>8, <1>9, <1>12 DEF SettlesLast, Settles
  <1>13. ASSUME NEW x, LimitsLast(x) PROVE V!OwnSession'
    BY <1>8, <1>9, <1>13 DEF LimitsLast
  <1>14. ASSUME RestsOrRestarts PROVE V!OwnSession'
    <2>1. attempts' = attempts
      BY <1>14 DEF RestsOrRestarts
    <2>2. QED
      BY <1>1, <2>1 DEF V!OwnSession, V!Step, V!Steps
  <1>15. QED
    BY <1>1, <1>10, <1>11, <1>12, <1>13, <1>14

-----------------------------------------------------------------------------
(* No edge is taken more often than its max between two moves of the user. *)

\* Of the step's edges to where the run is sent, one's max is kept, and by the attempt that stops.
WithinEach ==
    \A s \in 1 .. V!Last : \A goes \in V!SendBacks(V!Step(s)) :
        \E most \in V!SendBacks(V!Step(s)) :
            /\ most.step = goes.step
            /\ V!SentBackTimes(s, goes.step) <= IF runState = "needs-human" THEN most.max + 1 ELSE most.max

\* The property, from the stronger bound: past its max is only the attempt that stopped there.
LEMMA WithinImplies == RunTypes /\ WithinEach => V!WithinMax
  <1> SUFFICES ASSUME RunTypes, WithinEach PROVE V!WithinMax
    OBVIOUS
  <1>1. DOMAIN V!Steps = 1 .. V!Last
    BY LineIs
  <1> SUFFICES ASSUME NEW s \in 1 .. V!Last, NEW goes \in V!SendBacks(V!Step(s))
               PROVE  \E most \in V!SendBacks(V!Step(s)) :
                          most.step = goes.step /\ V!SentBackTimes(s, goes.step) <= most.max + 1
    BY <1>1 DEF V!WithinMax
  <1>2. PICK most \in V!SendBacks(V!Step(s)) :
            /\ most.step = goes.step
            /\ V!SentBackTimes(s, goes.step) <= IF runState = "needs-human" THEN most.max + 1 ELSE most.max
    BY DEF WithinEach
  <1>3. most.max \in Nat
    BY LineIs
  <1>4. V!SentBackTimes(s, goes.step) \in Nat
    BY SentTimes
  <1>5. QED
    BY <1>2, <1>3, <1>4

\* No work has been sent back yet.
LEMMA WithinStart == V!Init => WithinEach
  <1> SUFFICES ASSUME V!Init PROVE WithinEach
    OBVIOUS
  <1>1. RunTypes
    BY RunTypesStart
  <1>2. \A s, to : V!SentBackTimes(s, to) = 0
    <2> SUFFICES ASSUME NEW s, NEW to PROVE V!SentBackTimes(s, to) = 0
      OBVIOUS
    <2>1. {i \in V!Counted : attempts[i].step = s /\ V!SentBack(attempts[i]) = to} = {}
      BY DEF V!Init, V!Counted
    <2>2. QED
      BY <2>1, FS_EmptySet, CardinalitySame DEF V!SentBackTimes
  <1>3. runState # "needs-human"
    BY DEF V!Init
  <1>4. \A s \in 1 .. V!Last : \A goes \in V!SendBacks(V!Step(s)) : goes.max \in Nat
    BY <1>1, LineIs
  <1>5. QED
    BY <1>2, <1>3, <1>4 DEF WithinEach

\* One element more is at most one more.
LEMMA OneMore ==
  ASSUME NEW S, IsFiniteSet(S), NEW T, NEW k
  PROVE  /\ T = S => Cardinality(T) = Cardinality(S)
         /\ T \subseteq S \union {k} => Cardinality(T) <= Cardinality(S) + 1
  <1>1. IsFiniteSet(S \union {k}) /\ Cardinality(S \union {k}) <= Cardinality(S) + 1 /\ Cardinality(S) \in Nat
    BY FS_AddElement, FS_CardinalityType
  <1>2. T \subseteq S \union {k} => Cardinality(T) <= Cardinality(S \union {k}) /\ Cardinality(T) \in Nat
    BY <1>1, FS_Subset, FS_CardinalityType
  <1>3. Cardinality(S \union {k}) \in Nat
    BY <1>1, FS_CardinalityType
  <1>4. QED
    BY <1>1, <1>2, <1>3

\* When attempt k is the only one a step adds or changes, and it was not counted as a send-back
\* before, what the step has sent back is what it had, and once more if k sends there.
LEMMA CountIs ==
  ASSUME RunTypes, runLine' = runLine, after' = after, NEW k \in Nat, NEW s, NEW to, to # 0,
         DOMAIN attempts' \ {k} = DOMAIN attempts \ {k},
         \A i \in DOMAIN attempts \ {k} : attempts'[i] = attempts[i],
         k \in DOMAIN attempts => V!SentBack(attempts[k]) = 0
  PROVE  /\ k \in DOMAIN attempts' /\ attempts'[k].step = s /\ V!SentBack(attempts'[k]) = to =>
                V!SentBackTimes(s, to)' <= V!SentBackTimes(s, to) + 1
         /\ ~(k \in DOMAIN attempts' /\ attempts'[k].step = s /\ V!SentBack(attempts'[k]) = to) =>
                V!SentBackTimes(s, to)' = V!SentBackTimes(s, to)
  <1> DEFINE now == {i \in V!Counted : attempts[i].step = s /\ V!SentBack(attempts[i]) = to}
             then == {i \in DOMAIN attempts' : i > after /\ attempts'[i].step = s /\ V!SentBack(attempts'[i]) = to}
  <1>1. ASSUME NEW CONSTANT x PROVE V!SentBack(x)' = V!SentBack(x)
    BY DEF V!SentBack, V!FailedTo, V!Step, V!Steps
  <1>2. V!SentBackTimes(s, to)' = Cardinality(then)
    <2>1. V!SentBackTimes(s, to)' =
            Cardinality({i \in V!Counted' : attempts'[i].step = s /\ V!SentBack(attempts[i])' = to})
      BY CardinalitySame DEF V!SentBackTimes
    <2>2. {i \in V!Counted' : attempts'[i].step = s /\ V!SentBack(attempts[i])' = to} = then
      BY DEF V!Counted, V!SentBack, V!FailedTo, V!Step, V!Steps
    <2>3. QED
      BY <2>1, <2>2
  <1>3. V!SentBackTimes(s, to) = Cardinality(now)
    BY CardinalitySame DEF V!SentBackTimes
  <1>4. IsFiniteSet(now)
    <2>1. now \subseteq 1 .. Len(attempts) /\ Len(attempts) \in Nat
      BY StepsAreKnown DEF StepsKnown, V!Counted
    <2>2. IsFiniteSet(1 .. Len(attempts))
      BY <2>1, FS_Interval
    <2> HIDE DEF now
    <2>3. QED
      BY <2>1, <2>2, FS_Subset
  <1>5. \A i : i # k => (i \in then <=> i \in now)
    BY DEF V!Counted
  <1>6. k \notin now
    BY DEF V!Counted
  <1>7. k \in then => k \in DOMAIN attempts' /\ attempts'[k].step = s /\ V!SentBack(attempts'[k]) = to
    OBVIOUS
  <1> HIDE DEF now, then
  <1>8. then \subseteq now \union {k}
    BY <1>5
  <1>9. k \notin then => then = now
    BY <1>5, <1>6
  <1>10. Cardinality(then) <= Cardinality(now) + 1
    BY <1>4, <1>8, OneMore
  <1>11. QED
    BY <1>2, <1>3, <1>7, <1>9, <1>10

\* Work is sent back only below the max, and the user's move counts afresh.
LEMMA WithinStays == RunTypes /\ WithinEach /\ V!Next => WithinEach'
  <1> SUFFICES ASSUME RunTypes, WithinEach, V!Next PROVE WithinEach'
    OBVIOUS
  <1>1. /\ runLine' = runLine
        /\ \/ \E s, to : Refuses(s, to) /\ after' = after
           \/ \E x : Begins(x) /\ after' = after
           \/ \E to : SettlesLast(to) /\ after' = after
           \/ \E x : LimitsLast(x) /\ after' = after
           \/ RestsOrRestarts /\ (after' = after \/ after' = Len(attempts))
    BY RunSteps
  <1>2. /\ Len(attempts) \in Nat /\ DOMAIN attempts = 1 .. Len(attempts)
        /\ attempts \in Seq(TriedAttempts) /\ V!Last \in Nat
        /\ \A i \in 1 .. Len(attempts) : attempts[i] \in TriedAttempts
    BY StepsAreKnown, LineIs DEF StepsKnown, RunTypes
  <1>3. runState = "running" =>
            Len(attempts) # 0 /\ attempts[Len(attempts)].step = runAt /\ V!SentBack(attempts[Len(attempts)]) = 0
    BY <1>2 DEF RunTypes, V!SentBack, V!FailedTo
  <1>4. ASSUME NEW s \in 1 .. V!Last
        PROVE  /\ \A goes \in V!SendBacks(V!Step(s)) : goes.step \in Nat \ {0} /\ goes.max \in Nat \ {0}
               /\ \A to : V!SentBackTimes(s, to) \in Nat
    BY LineIs, SentTimes
  <1>5. ASSUME \A s \in 1 .. V!Last : \A goes \in V!SendBacks(V!Step(s)) : \E most \in V!SendBacks(V!Step(s)) :
                    /\ most.step = goes.step
                    /\ V!SentBackTimes(s, goes.step)' <= IF runState' = "needs-human" THEN most.max + 1 ELSE most.max
        PROVE  WithinEach'
    <2>1. \A s \in 1 .. V!Last : \A goes \in V!SendBacks(V!Step(s)) : TRUE
      OBVIOUS
    <2>2. V!Last' = V!Last /\ \A s : V!Step(s)' = V!Step(s) /\ V!SendBacks(V!Step(s))' = V!SendBacks(V!Step(s))
      BY <1>1 DEF V!Step, V!Steps, V!Last, V!SendBacks
    <2>3. QED
      BY <1>1, <1>5, <2>2 DEF WithinEach
  \* Attempt k of step z is added or ends, from a state that is not needs-human.
  <1>6. ASSUME NEW k \in Nat, NEW z, NEW x, after' = after, runState # "needs-human",
               DOMAIN attempts' \ {k} = DOMAIN attempts \ {k}, k \in DOMAIN attempts',
               \A i \in DOMAIN attempts \ {k} : attempts'[i] = attempts[i],
               k \in DOMAIN attempts => V!SentBack(attempts[k]) = 0,
               attempts'[k] = x, x.step = z,
               V!SentBack(x) # 0 =>
                  \E goes \in V!SendBacks(V!Step(z)) :
                      /\ goes.step = V!SentBack(x)
                      /\ runState' = "queued" \/ runState' = "needs-human"
                      /\ runState' = "queued" => V!SentBackTimes(z, goes.step) < goes.max
        PROVE  WithinEach'
    <2> SUFFICES ASSUME NEW s \in 1 .. V!Last, NEW goes \in V!SendBacks(V!Step(s))
                 PROVE  \E most \in V!SendBacks(V!Step(s)) :
                    /\ most.step = goes.step
                    /\ V!SentBackTimes(s, goes.step)' <= IF runState' = "needs-human" THEN most.max + 1 ELSE most.max
      BY <1>5
    <2>1. PICK most \in V!SendBacks(V!Step(s)) :
              most.step = goes.step /\ V!SentBackTimes(s, goes.step) <= most.max
      BY <1>6 DEF WithinEach
    <2>2. /\ goes.step # 0 /\ \A g \in V!SendBacks(V!Step(s)) : g.max \in Nat
          /\ V!SentBackTimes(s, goes.step) \in Nat
      BY <1>4
    <2>3. /\ z = s /\ V!SentBack(x) = goes.step =>
                V!SentBackTimes(s, goes.step)' <= V!SentBackTimes(s, goes.step) + 1
          /\ ~(z = s /\ V!SentBack(x) = goes.step) => V!SentBackTimes(s, goes.step)' = V!SentBackTimes(s, goes.step)
      BY <1>1, <1>6, <2>2, CountIs
    <2>4. V!SentBackTimes(s, goes.step)' \in Nat
      <3>1. RunTypes'
        BY RunTypesStay
      <3>2. V!SentBackTimes(s, goes.step)' =
              Cardinality({i \in V!Counted' : attempts'[i].step = s /\ V!SentBack(attempts[i])' = goes.step})
        BY CardinalitySame DEF V!SentBackTimes
      <3>3. V!Counted' \subseteq 1 .. Len(attempts') /\ Len(attempts') \in Nat
        BY <3>1 DEF RunTypes, V!Counted
      <3>4. IsFiniteSet(1 .. Len(attempts'))
        BY <3>3, FS_Interval
      <3>5. IsFiniteSet({i \in V!Counted' : attempts'[i].step = s /\ V!SentBack(attempts[i])' = goes.step})
        BY <3>3, <3>4, FS_Subset
      <3>6. QED
        BY <3>2, <3>5, FS_CardinalityType
    <2>5. CASE ~(z = s /\ V!SentBack(x) = goes.step)
      BY <2>1, <2>2, <2>3, <2>5
    <2>6. CASE z = s /\ V!SentBack(x) = goes.step /\ runState' = "needs-human"
      BY <2>1, <2>2, <2>3, <2>4, <2>6
    <2>7. CASE z = s /\ V!SentBack(x) = goes.step /\ runState' # "needs-human"
      <3>1. PICK g \in V!SendBacks(V!Step(s)) : g.step = goes.step /\ V!SentBackTimes(s, goes.step) < g.max
        BY <1>6, <2>2, <2>7
      <3>2. V!SentBackTimes(s, goes.step)' <= g.max
        BY <2>2, <2>3, <2>4, <2>7, <3>1
      <3>3. QED
        BY <2>7, <3>1, <3>2
    <2>8. QED
      BY <2>5, <2>6, <2>7
  <1>7. ASSUME NEW x \in TriedAttempts, AddsAttempt(x)
        PROVE  /\ DOMAIN attempts' \ {Len(attempts) + 1} = DOMAIN attempts \ {Len(attempts) + 1}
               /\ Len(attempts) + 1 \in DOMAIN attempts' /\ Len(attempts) + 1 \notin DOMAIN attempts
               /\ \A i \in DOMAIN attempts \ {Len(attempts) + 1} : attempts'[i] = attempts[i]
               /\ attempts'[Len(attempts) + 1] = x
    BY <1>2, <1>7 DEF AddsAttempt
  <1>8. ASSUME NEW x \in TriedAttempts, EndsAttempt(x), Len(attempts) # 0
        PROVE  /\ DOMAIN attempts' \ {Len(attempts)} = DOMAIN attempts \ {Len(attempts)}
               /\ Len(attempts) \in DOMAIN attempts'
               /\ \A i \in DOMAIN attempts \ {Len(attempts)} : attempts'[i] = attempts[i]
               /\ attempts'[Len(attempts)] = x
    BY <1>2, <1>8 DEF EndsAttempt
  <1>9. ASSUME NEW s, NEW to, Refuses(s, to), after' = after PROVE WithinEach'
    <2> DEFINE x == to.result
    <2>1. x \in TriedAttempts /\ AddsAttempt(x) /\ x.step = s /\ runState # "needs-human"
      BY <1>9 DEF Refuses, Settles
    <2>2. V!SentBack(x) # 0 =>
                  \E goes \in V!SendBacks(V!Step(s)) :
                      /\ goes.step = V!SentBack(x)
                      /\ runState' = "queued" \/ runState' = "needs-human"
                      /\ runState' = "queued" => V!SentBackTimes(s, goes.step) < goes.max
      BY <1>9 DEF Refuses, Settles
    <2> HIDE DEF x
    <2>3. QED
      BY <1>2, <1>6, <1>7, <1>9, <2>1, <2>2
  <1>10. ASSUME NEW x, Begins(x), after' = after PROVE WithinEach'
    <2>1. x \in TriedAttempts /\ AddsAttempt(x) /\ runState # "needs-human" /\ V!SentBack(x) = 0
      BY <1>10 DEF Begins, V!SentBack, V!FailedTo
    <2>2. QED
      BY <1>2, <1>6, <1>7, <1>10, <2>1
  <1>11. ASSUME NEW to, SettlesLast(to), after' = after PROVE WithinEach'
    <2> DEFINE x == to.result
    <2>1. x \in TriedAttempts /\ EndsAttempt(x) /\ x.step = runAt /\ runState = "running"
      BY <1>11 DEF SettlesLast, Settles
    <2>2. V!SentBack(x) # 0 =>
                  \E goes \in V!SendBacks(V!Step(runAt)) :
                      /\ goes.step = V!SentBack(x)
                      /\ runState' = "queued" \/ runState' = "needs-human"
                      /\ runState' = "queued" => V!SentBackTimes(runAt, goes.step) < goes.max
      BY <1>11 DEF SettlesLast, Settles
    <2> HIDE DEF x
    <2>3. QED
      BY <1>2, <1>3, <1>6, <1>8, <1>11, <2>1, <2>2
  <1>12. ASSUME NEW x, LimitsLast(x), after' = after PROVE WithinEach'
    <2>1. x \in TriedAttempts /\ EndsAttempt(x) /\ runState = "running" /\ V!SentBack(x) = 0
      BY <1>12 DEF LimitsLast, V!SentBack, V!FailedTo
    <2>2. QED
      BY <1>2, <1>3, <1>6, <1>8, <1>12, <2>1
  <1>13. ASSUME RestsOrRestarts, after' = after, runState # "needs-human" PROVE WithinEach'
    <2>1. attempts' = attempts /\ runState' # "needs-human"
      BY <1>13 DEF RestsOrRestarts, V!Wake
    <2>2. \A s, to : V!SentBackTimes(s, to)' = V!SentBackTimes(s, to)
      BY <1>1, <1>13, <2>1 DEF V!SentBackTimes, V!Counted, V!SentBack, V!FailedTo, V!Step, V!Steps
    <2>3. QED
      BY <1>5, <1>13, <2>1, <2>2 DEF WithinEach
  <1>14. ASSUME RestsOrRestarts, after' = Len(attempts) PROVE WithinEach'
    <2>1. attempts' = attempts /\ runState' # "needs-human"
      BY <1>14 DEF RestsOrRestarts, V!Wake
    <2>2. \A s, to : V!SentBackTimes(s, to)' = 0
      <3> SUFFICES ASSUME NEW s, NEW to PROVE V!SentBackTimes(s, to)' = 0
        OBVIOUS
      <3>1. V!Counted' = {}
        BY <1>2, <1>14, <2>1 DEF V!Counted
      <3>2. QED
        BY <3>1, FS_EmptySet, CardinalitySame DEF V!SentBackTimes
    <2>3. QED
      BY <1>4, <1>5, <2>1, <2>2
  <1>15. ASSUME RestsOrRestarts, runState = "needs-human" PROVE after' = Len(attempts)
    BY <1>15 DEF RestsOrRestarts, V!Wake
  <1>16. QED
    BY <1>1, <1>9, <1>10, <1>11, <1>12, <1>13, <1>14, <1>15

-----------------------------------------------------------------------------
(* What a run that is done holds.                                          *)

\* HeldIs, of the next state.
LEMMA HeldNext ==
  ASSUME runLine' = runLine, Len(attempts') \in Nat
  PROVE  /\ V!HeldAfter'[0] = V!NothingHeld
         /\ \A i \in 1 .. Len(attempts') : V!HeldAfter'[i] = V!Taken(V!HeldAfter'[i - 1], attempts'[i])
  <1> DEFINE Now(g) == g = [i \in 0 .. Len(attempts) |->
                              IF i = 0 THEN V!NothingHeld ELSE V!Taken(g[i - 1], attempts[i])]
  <1>1. ASSUME NEW CONSTANT g PROVE Now(g)' <=> FoldsTo(attempts', g, Len(attempts'))
    BY DEF FoldsTo, V!Taken, V!Records, V!FailedTo, V!Step, V!Steps, V!NothingHeld
  <1>2. \E g : Now(g)'
    BY <1>1, FoldExists
  <1>3. Now(V!HeldAfter)'
    BY <1>2 DEF V!HeldAfter
  <1>4. FoldsTo(attempts', V!HeldAfter', Len(attempts'))
    BY <1>1, <1>3
  <1>5. QED
    BY <1>4 DEF FoldsTo

\* What is held after attempts that do not change does not change.
LEMMA HeldBefore ==
  ASSUME runLine' = runLine, Len(attempts') \in Nat, Len(attempts) \in Nat,
         NEW k \in Nat, k <= Len(attempts), k <= Len(attempts'),
         \A i \in 1 .. k : attempts'[i] = attempts[i]
  PROVE  V!HeldAfter'[k] = V!HeldAfter[k]
  <1> DEFINE S == {i \in Nat : i <= k => V!HeldAfter'[i] = V!HeldAfter[i]}
  <1>1. 0 \in S
    BY HeldIs, HeldNext
  <1>2. ASSUME NEW i \in Nat, i \in S PROVE i + 1 \in S
    <2> SUFFICES ASSUME i + 1 <= k PROVE V!HeldAfter'[i + 1] = V!HeldAfter[i + 1]
      OBVIOUS
    <2>1. V!HeldAfter'[i] = V!HeldAfter[i] /\ attempts'[i + 1] = attempts[i + 1]
      BY <1>2
    <2>2. V!HeldAfter[i + 1] = V!Taken(V!HeldAfter[i], attempts[i + 1])
      BY HeldIs
    <2>3. V!HeldAfter'[i + 1] = V!Taken(V!HeldAfter'[i], attempts'[i + 1])
      BY HeldNext
    <2>4. QED
      BY <2>1, <2>2, <2>3
  <1> HIDE DEF S
  <1>3. S = Nat
    <2>1. S \subseteq Nat
      BY DEF S
    <2>2. QED
      BY <1>1, <1>2, <2>1, ByLeast
  <1>4. QED
    BY <1>3 DEF S

\* The last attempt, open until now, ends clean: the run holds what it recorded and what it held.
LEMMA HeldMore ==
  ASSUME RunTypes, runLine' = runLine, workItem' = workItem, runState = "running",
         NEW r \in TriedAttempts, r.ending = "clean", r.step = runAt, EndsAttempt(r)
  PROVE  V!HeldNow' = V!Over(r.values, V!HeldNow)
  <1> DEFINE n == Len(attempts)
             going == attempts[n]
             started == V!StartAt(V!HeldAfter[n - 1], runAt)
             noted == [m \in DOMAIN r.values |-> [at |-> runAt, value |-> r.values[m]]]
             carried == [m \in DOMAIN started |-> started[m].value]
  <1>1. n \in Nat \ {0} /\ going.step = runAt /\ going.ending = "open"
    BY StepsAreKnown DEF RunTypes, StepsKnown
  <1>2. Len(attempts') = n /\ attempts'[n] = r /\ \A i \in 1 .. n - 1 : attempts'[i] = attempts[i]
    BY <1>1, EndsIs
  <1>3. V!HeldAfter[n] = V!Taken(V!HeldAfter[n - 1], going)
    BY <1>1, HeldIs
  <1>4. V!HeldAfter'[n] = V!Taken(V!HeldAfter'[n - 1], r)
    BY <1>1, <1>2, HeldNext
  <1>5. V!HeldAfter'[n - 1] = V!HeldAfter[n - 1]
    BY <1>1, <1>2, HeldBefore
  <1> HIDE DEF started
  <1>6. V!HeldAfter[n].values = started
    BY <1>1, <1>3 DEF V!Taken, V!Records, V!FailedTo, started
  <1>7. V!HeldAfter'[n].values = V!Over(noted, started)
    BY <1>4, <1>5 DEF V!Taken, V!Records, started
  <1>8. V!HeldNow = V!Over(carried, workItem)
    BY <1>6 DEF V!HeldNow, V!ResultsNow, V!Fold
  <1>9. V!ResultsNow' = [m \in DOMAIN V!Over(noted, started) |-> V!Over(noted, started)[m].value]
    <2>1. V!ResultsNow' = [m \in DOMAIN (V!HeldAfter'[n].values) |-> V!HeldAfter'[n].values[m].value]
      BY <1>2 DEF V!ResultsNow, V!Fold
    <2>2. QED
      BY <1>7, <2>1
  <1>10. V!ResultsNow' = V!Over(r.values, carried)
    BY <1>9 DEF V!Over
  <1>11. V!HeldNow' = V!Over(V!ResultsNow', workItem)
    BY DEF V!HeldNow, V!Over
  <1> HIDE DEF carried
  <1>12. V!HeldNow' = V!Over(V!Over(r.values, carried), workItem)
    BY <1>10, <1>11
  <1>13. QED
    BY <1>8, <1>12 DEF V!Over

\* A run becomes done only by a result that holds what done_requires names, and nothing follows.
LEMMA DoneHoldsStays == RunTypes /\ V!DoneHolds /\ V!Next => V!DoneHolds'
  <1> SUFFICES ASSUME RunTypes, V!DoneHolds, V!Next, runState' = "done"
               PROVE  \A n \in runLine'.doneRequires : ~V!Lacks(V!HeldNow', n)
    BY DEF V!DoneHolds, V!Lacks
  <1>1. /\ runLine' = runLine /\ workItem' = workItem
        /\ \/ \E s, to : Refuses(s, to)
           \/ \E x : Begins(x)
           \/ \E to : SettlesLast(to)
           \/ \E x : LimitsLast(x)
           \/ RestsOrRestarts
    BY RunSteps
  <1>2. PICK to : SettlesLast(to)
    BY <1>1 DEF Refuses, Begins, LimitsLast, RestsOrRestarts, V!Wake
  <1> DEFINE r == to.result
  <1>3. /\ r \in TriedAttempts /\ r.ending = "clean" /\ r.step = runAt /\ EndsAttempt(r) /\ runState = "running"
        /\ V!DoneHeld(r)
    BY <1>2 DEF SettlesLast, Settles
  <1> HIDE DEF r
  <1>4. V!HeldNow' = V!Over(r.values, V!HeldNow)
    BY <1>1, <1>3, HeldMore
  <1>5. QED
    BY <1>1, <1>3, <1>4 DEF V!DoneHeld

-----------------------------------------------------------------------------

\* The inductive invariant.  ResultsOfThisPass is no part of it: it follows from the attempts alone.
ValuesIInv == RunTypes /\ V!DoneHolds /\ V!OwnSession /\ WithinEach

\* It holds at the start,
LEMMA ValuesStart == V!Init => ValuesIInv
  <1> SUFFICES ASSUME V!Init PROVE ValuesIInv
    OBVIOUS
  <1>1. V!DoneHolds /\ V!OwnSession
    BY DEF V!Init, V!DoneHolds, V!OwnSession
  <1>2. QED
    BY <1>1, RunTypesStart, WithinStart DEF ValuesIInv

\* every step keeps it,
LEMMA ValuesStay == ValuesIInv /\ V!Next => ValuesIInv'
  BY RunTypesStay, DoneHoldsStays, OwnSessionStays, WithinStays DEF ValuesIInv

\* and it implies the property.
LEMMA ValuesImply == ValuesIInv => V!RunValuesInv
  <1> SUFFICES ASSUME ValuesIInv PROVE V!RunValuesInv
    OBVIOUS
  <1>1. RunTypes /\ StepsKnown /\ V!DoneHolds /\ V!OwnSession /\ V!WithinMax
    BY StepsAreKnown, WithinImplies DEF ValuesIInv
  <1>2. V!Last \in Nat /\ DOMAIN V!Steps = 1 .. V!Last /\ attempts \in Seq(TriedAttempts)
    BY <1>1, LineIs DEF RunTypes
  <1>3. V!TypeOK
    <2>1. \A i \in DOMAIN attempts : attempts[i] \in TriedAttempts /\ i \in 1 .. Len(attempts)
      BY <1>2
    <2>2. \A i \in DOMAIN attempts : attempts[i].step \in 1 .. V!Last /\ attempts[i].ending \in V!StepEnding
      BY <2>1 DEF TriedAttempts
    <2>3. QED
      BY <1>1, <2>1, <2>2 DEF V!TypeOK, RunTypes
  <1>4. V!ResultsOfThisPass
    <2>1. \A s \in DOMAIN V!Steps : s \in Nat \ {0}
      BY <1>2
    <2>2. QED
      BY <1>1, <2>1, HandedThisPass DEF V!ResultsOfThisPass
  <1>5. QED
    BY <1>1, <1>3, <1>4 DEF V!RunValuesInv

\* The steps of the other parts keep it.
LEMMA ValuesRest ==
  ASSUME ValuesIInv, UNCHANGED valuesVars PROVE ValuesIInv'
  <1>1. /\ runLine' = runLine /\ workItem' = workItem /\ attempts' = attempts /\ runState' = runState
        /\ runAt' = runAt /\ after' = after
    BY DEF valuesVars
  <1>2. RunTypes /\ Len(attempts) \in Nat
    BY StepsAreKnown DEF ValuesIInv, StepsKnown
  <1>3. RunTypes'
    <2>1. V!Passes(runLine)' <=> V!Passes(runLine)
      BY <1>1
    <2>2. TriedAttempts' = TriedAttempts /\ V!Last' = V!Last
      BY <1>1, LineStays
    <2>3. QED
      BY <1>1, <1>2, <2>1, <2>2 DEF RunTypes
  <1>4. V!DoneHolds'
    <2>1. V!HeldAfter'[Len(attempts)] = V!HeldAfter[Len(attempts)]
      BY <1>1, <1>2, HeldBefore
    <2>2. V!ResultsNow' = V!ResultsNow
      BY <1>1, <2>1 DEF V!ResultsNow, V!Fold
    <2>3. V!HeldNow' = V!HeldNow
      BY <1>1, <2>2 DEF V!HeldNow, V!Over
    <2>4. QED
      BY <1>1, <2>3 DEF ValuesIInv, V!DoneHolds, V!Lacks
  <1>5. V!OwnSession'
    BY <1>1 DEF ValuesIInv, V!OwnSession, V!Step, V!Steps
  <1>6. WithinEach'
    <2>1. \A s, to : V!SentBackTimes(s, to)' = V!SentBackTimes(s, to)
      BY <1>1 DEF V!SentBackTimes, V!Counted, V!SentBack, V!FailedTo, V!Step, V!Steps
    <2>2. V!Last' = V!Last /\ \A s : V!Step(s)' = V!Step(s) /\ V!SendBacks(V!Step(s))' = V!SendBacks(V!Step(s))
      BY <1>1 DEF V!Step, V!Steps, V!Last, V!SendBacks
    <2>3. QED
      BY <1>1, <2>1, <2>2 DEF ValuesIInv, WithinEach
  <1>7. QED
    BY <1>3, <1>4, <1>5, <1>6 DEF ValuesIInv

\* It always holds of a behaviour that is RunValues'.
LEMMA ValuesAlways == WorkSpec => [](part = "values" => ValuesIInv)
  <1> DEFINE Inv == part = "values" => ValuesIInv
  <1>1. WorkInit => Inv
    BY ValuesStart DEF WorkInit
  <1>2. Inv /\ [WorkNext]_workVars => Inv'
    <2> SUFFICES ASSUME Inv, [WorkNext]_workVars, part' = "values" PROVE ValuesIInv'
      OBVIOUS
    <2>1. CASE ValuesStep
      BY <2>1, ValuesStay DEF ValuesStep
    <2>2. CASE ~ValuesStep
      <3>1. UNCHANGED valuesVars /\ part' = part
        BY <2>2 DEF WorkNext, CallsStep, RunsStep, TurnStep, workVars
      <3>2. QED
        BY <3>1, ValuesRest
    <2>3. QED
      BY <2>1, <2>2
  <1>3. QED
    BY <1>1, <1>2, PTL DEF WorkSpec

\* For every factory the check passes, and over every line of retries, send-backs, refusals, limits
\* and restarts by the user: a step that starts now is handed exactly the latest records that
\* survive the passes before it; a run that is done holds what done_requires names; a client step
\* resumes only a session of its own client and instance; and no edge back is taken more often than
\* its max between two moves of the user.
THEOREM RunValuesHold == WorkSpec => []RunValuesInv
  <1>1. (part = "values" => ValuesIInv) => RunValuesInv
    BY ValuesImply DEF RunValuesInv
  <1>2. QED
    BY <1>1, ValuesAlways, PTL

=============================================================================
