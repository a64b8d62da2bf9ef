-------------------------- MODULE SchedulerProofs ---------------------------
(***************************************************************************)
(* Proofs about Scheduler: no delivery is fired twice or without its body, *)
(* no notification is made twice or said to be accepted that the hub does  *)
(* not have, and the failure policy turns a routine off only for failures  *)
(* since it was turned on again.                                           *)
(*                                                                         *)
(* The inductive invariant has a part for each thing the scheduler keeps:  *)
(* its routines' failures (Policy), what is ready (Queue), the deliveries  *)
(* (Arrived), the notifications (Noticed) and the turn (Held).  Only the   *)
(* steps that touch a part are in its proof by name.                       *)
(***************************************************************************)
EXTENDS Scheduler, FiniteSetTheorems, SequenceTheorems, TLAPS

-----------------------------------------------------------------------------
(* The failure policy.                                                     *)

\* A routine's streak s, whether it is on, whether the policy turned it off, and the n failures
\* its user saw: the policy's notice is there only for one that is off, and one that it may yet
\* turn off has no more failures than its user saw.
FreshRoutine(s, on, byPolicy, n) ==
    /\ byPolicy => ~on /\ s.off
    /\ \A i \in DOMAIN s.failed : s.failed[i] <= s.count
    /\ ~byPolicy /\ ~s.off => s.count <= n \/ n >= DISABLE_AFTER

Policy ==
    /\ streak \in [Routines -> Streaks] /\ enabled \in [Routines -> BOOLEAN]
    /\ turnedOff \in [Routines -> BOOLEAN] /\ seen \in [Routines -> Nat]
    /\ \A r \in Routines : FreshRoutine(streak[r], enabled[r], turnedOff[r], seen[r])

LEMMA CleanIs == Clean \in Streaks /\ Clean.count = 0 /\ ~Clean.off /\ Clean.failed = <<>> /\ DOMAIN Clean.failed = {}
  BY DEF Clean, Streaks

\* A reset changes only a routine that is on, and leaves nothing of a streak the policy ended.
LEMMA ResetIs ==
  ASSUME Policy, NEW r \in Routines
  PROVE  /\ After(r) \in Streaks /\ (enabled[r] => ~After(r).off)
         /\ FreshRoutine(After(r), enabled[r], turnedOff[r], seen[r])
  <1>1. seen[r] \in Nat /\ streak[r] \in Streaks /\ FreshRoutine(streak[r], enabled[r], turnedOff[r], seen[r])
    BY DEF Policy
  <1>2. CASE enabled[r] /\ streak[r].off
    <2>1. After(r) = Clean
      BY <1>2 DEF After, Reset
    <2>2. FreshRoutine(Clean, enabled[r], turnedOff[r], seen[r])
      BY <1>1, <1>2, CleanIs DEF FreshRoutine
    <2>3. QED
      BY <2>1, <2>2, CleanIs
  <1>3. CASE ~(enabled[r] /\ streak[r].off)
    <2>1. After(r) = streak[r]
      BY <1>3 DEF After, Reset
    <2>2. QED
      BY <1>1, <1>3, <2>1
  <1>4. QED
    BY <1>2, <1>3

\* What the policy handles of a routine, after the resets of a pass: it turns off only one whose
\* user saw its limit of failures.
LEMMA AfterIs ==
  ASSUME Policy, NEW r \in Routines
  PROVE  /\ After(r) \in Streaks /\ FreshRoutine(After(r), enabled[r], turnedOff[r], seen[r])
         /\ Handled(After(r), enabled[r]) \in Streaks
         /\ FreshRoutine(Handled(After(r), enabled[r]), enabled[r] /\ r \notin TurnsOff, turnedOff[r] \/ r \in TurnsOff, seen[r])
         /\ r \in TurnsOff => enabled[r] /\ ~turnedOff[r] /\ ~After(r).off /\ seen[r] >= DISABLE_AFTER
  <1> DEFINE s == After(r)
             t == Handled(s, enabled[r])
  <1>1. seen[r] \in Nat /\ s \in Streaks /\ (enabled[r] => ~s.off) /\ FreshRoutine(s, enabled[r], turnedOff[r], seen[r])
    BY ResetIs DEF Policy
  <1>2. r \in TurnsOff <=> enabled[r] /\ \E i \in DOMAIN s.failed : s.failed[i] >= DISABLE_AFTER
    BY DEF TurnsOff, Disables, Range
  <1>3. t = [s EXCEPT !.off = s.off \/ r \in TurnsOff, !.failed = <<>>]
    BY DEF Handled, TurnsOff
  <1> HIDE DEF s
  <1>4. s.count \in Nat /\ s.off \in BOOLEAN /\ s.failed \in Seq(Nat)
    BY <1>1 DEF Streaks
  <1>5. t.count = s.count /\ (t.off <=> s.off \/ r \in TurnsOff) /\ t.failed = <<>> /\ DOMAIN t.failed = {} /\ t \in Streaks
    <2> DEFINE e == s.off \/ r \in TurnsOff
    <2>1. t = [s EXCEPT !.off = e, !.failed = <<>>]
      BY <1>3
    <2>2. e \in BOOLEAN /\ <<>> \in Seq(Nat)
      BY <1>4
    <2> HIDE DEF e, t
    <2>3. t.count = s.count /\ t.off = e /\ t.failed = <<>> /\ t \in Streaks
      BY <1>1, <2>1, <2>2 DEF Streaks
    <2>4. (t.off <=> e) /\ DOMAIN t.failed = {}
      BY <2>2, <2>3
    <2>5. QED
      BY <2>3, <2>4 DEF e
  <1> HIDE DEF t
  <1>6. r \in TurnsOff => enabled[r] /\ ~turnedOff[r] /\ ~s.off /\ seen[r] >= DISABLE_AFTER
    <2> SUFFICES ASSUME r \in TurnsOff PROVE enabled[r] /\ ~turnedOff[r] /\ ~s.off /\ seen[r] >= DISABLE_AFTER
      OBVIOUS
    <2>1. PICK i \in DOMAIN s.failed : s.failed[i] >= DISABLE_AFTER
      BY <1>2
    <2>2. s.failed[i] \in Nat
      BY <1>4
    <2>3. QED
      BY <1>1, <1>2, <1>4, <2>1, <2>2, Limit DEF FreshRoutine
  <1>7. FreshRoutine(t, enabled[r] /\ r \notin TurnsOff, turnedOff[r] \/ r \in TurnsOff, seen[r])
    BY <1>1, <1>5, <1>6 DEF FreshRoutine
  <1>8. QED
    BY <1>1, <1>5, <1>6, <1>7 DEF s, t

LEMMA ResetKeepsPolicy ==
  ASSUME Policy, NEW rs, ResetFailures(rs), UNCHANGED <<enabled, turnedOff, seen>>
  PROVE  Policy'
  <1>1. streak' = [r \in Routines |-> IF r \in rs THEN After(r) ELSE streak[r]]
    BY DEF ResetFailures, After
  <1>2. ASSUME NEW r \in Routines
        PROVE  streak'[r] \in Streaks /\ FreshRoutine(streak'[r], enabled'[r], turnedOff'[r], seen'[r])
    <2>1. /\ streak[r] \in Streaks /\ FreshRoutine(streak[r], enabled[r], turnedOff[r], seen[r])
          /\ After(r) \in Streaks /\ FreshRoutine(After(r), enabled[r], turnedOff[r], seen[r])
      BY AfterIs DEF Policy
    <2>2. QED
      BY <1>1, <2>1
  <1>3. streak' \in [Routines -> Streaks]
    BY <1>1, <1>2
  <1>4. QED
    BY <1>2, <1>3 DEF Policy

LEMMA TurnOffKeepsPolicy ==
  ASSUME Policy, TurnOff(TurnsOff), streak' = [r \in Routines |-> Handled(After(r), enabled[r])]
  PROVE  Policy'
  <1>1. /\ enabled' = [r \in Routines |-> enabled[r] /\ r \notin TurnsOff]
        /\ turnedOff' = [r \in Routines |-> turnedOff[r] \/ r \in TurnsOff] /\ seen' = seen
    BY DEF TurnOff
  <1>2. \A r \in Routines : streak'[r] \in Streaks /\ FreshRoutine(streak'[r], enabled'[r], turnedOff'[r], seen'[r])
    BY <1>1, AfterIs
  <1>3. streak' \in [Routines -> Streaks] /\ enabled' \in [Routines -> BOOLEAN] /\ turnedOff' \in [Routines -> BOOLEAN]
        /\ seen' \in [Routines -> Nat]
    BY <1>1, AfterIs DEF Policy
  <1>4. QED
    BY <1>2, <1>3 DEF Policy

PolicyVars == <<streak, enabled, turnedOff, seen>>

LEMMA PolicyStep ==
  ASSUME Policy, [Next]_vars
  PROVE  Policy' /\ \A r \in Routines : ~turnedOff[r] /\ turnedOff'[r] => seen[r] >= DISABLE_AFTER
  <1>1. CASE UNCHANGED PolicyVars
    BY <1>1 DEF PolicyVars, Policy, FreshRoutine
  <1>2. ASSUME NEW rs, ResetFailures(rs), UNCHANGED <<enabled, turnedOff, seen>>
        PROVE  Policy' /\ turnedOff' = turnedOff
    BY <1>2, ResetKeepsPolicy
  <1>3. ASSUME TurnOff(TurnsOff), streak' = [r \in Routines |-> Handled(After(r), enabled[r])]
        PROVE  Policy' /\ \A r \in Routines : ~turnedOff[r] /\ turnedOff'[r] => seen[r] >= DISABLE_AFTER
    BY <1>3, TurnOffKeepsPolicy, AfterIs DEF TurnOff
  <1>4. ASSUME NEW r \in Routines, Completes(r) PROVE Policy' /\ \A q \in Routines : turnedOff'[q] => turnedOff[q]
    <2>1. CASE UNCHANGED <<streak, turnedOff, seen>>
      BY <1>1, <1>4, <2>1 DEF Completes, TurnOver, PolicyVars
    <2>2. CASE /\ streak' = [streak EXCEPT ![r] = Clean] /\ seen' = [seen EXCEPT ![r] = 0]
               /\ turnedOff' = [turnedOff EXCEPT ![r] = FALSE]
      <3>1. enabled' = enabled
        BY <1>4 DEF Completes, TurnOver
      <3>2. FreshRoutine(Clean, enabled[r], FALSE, 0)
        BY CleanIs DEF FreshRoutine
      <3>3. ASSUME NEW q \in Routines
            PROVE  streak'[q] \in Streaks /\ FreshRoutine(streak'[q], enabled'[q], turnedOff'[q], seen'[q])
        BY <2>2, <3>1, <3>2, <3>3, CleanIs DEF Policy
      <3>4. /\ streak' \in [Routines -> Streaks] /\ enabled' \in [Routines -> BOOLEAN]
            /\ turnedOff' \in [Routines -> BOOLEAN] /\ seen' \in [Routines -> Nat]
        BY <2>2, <3>1, CleanIs DEF Policy
      <3>5. QED
        BY <2>2, <3>3, <3>4 DEF Policy
    <2>3. QED
      BY <1>4, <2>1, <2>2 DEF Completes
  <1>5. ASSUME NEW r \in Routines, Fails(r) PROVE Policy' /\ turnedOff' = turnedOff
    <2>1. /\ streak' = [streak EXCEPT ![r] = Counted(@)] /\ UNCHANGED <<enabled, turnedOff>>
          /\ seen' = [seen EXCEPT ![r] = IF @ < DISABLE_AFTER THEN @ + 1 ELSE @]
      BY <1>5 DEF Fails, TurnOver
    <2> DEFINE s == streak[r]
               t == Counted(s)
    <2>2. s \in Streaks /\ seen[r] \in Nat /\ FreshRoutine(s, enabled[r], turnedOff[r], seen[r])
      BY DEF Policy
    <2>3. s.count \in Nat /\ s.failed \in Seq(Nat)
      BY <2>2 DEF Streaks
    <2>4. Append(s.failed, s.count + 1) \in Seq(Nat)
      BY <2>3
    <2>5. t.count = s.count + 1 /\ t.off = s.off /\ t.failed = Append(s.failed, s.count + 1) /\ t \in Streaks
      <3> DEFINE n == s.count + 1
                 f == Append(s.failed, n)
      <3>1. t = [s EXCEPT !.count = n, !.failed = f]
        BY DEF Counted
      <3>2. n \in Nat /\ f \in Seq(Nat)
        BY <2>3, <2>4
      <3> HIDE DEF n, f
      <3>3. t.count = n /\ t.off = s.off /\ t.failed = f /\ t \in Streaks
        BY <2>2, <3>1, <3>2 DEF Streaks
      <3>4. QED
        BY <3>3 DEF n, f
    <2>6. \A i \in DOMAIN t.failed : (i \in DOMAIN s.failed /\ t.failed[i] = s.failed[i]) \/ t.failed[i] = s.count + 1
      BY <2>3, <2>5
    <2> HIDE DEF t
    <2>7. \A i \in DOMAIN t.failed : t.failed[i] <= t.count
      <3>1. \A i \in DOMAIN s.failed : s.failed[i] \in Nat /\ s.failed[i] <= s.count
        BY <2>2, <2>3 DEF FreshRoutine
      <3>2. QED
        BY <2>3, <2>5, <2>6, <3>1
    <2>8. seen'[r] \in Nat /\ FreshRoutine(t, enabled[r], turnedOff[r], seen'[r])
      BY <2>1, <2>2, <2>3, <2>5, <2>7, Limit DEF FreshRoutine, Policy
    <2>9. streak'[r] = t /\ \A q \in Routines : q # r => streak'[q] = streak[q] /\ seen'[q] = seen[q]
      BY <2>1 DEF Policy, t
    <2>10. streak' \in [Routines -> Streaks] /\ seen' \in [Routines -> Nat]
      BY <2>1, <2>5, <2>8 DEF Policy, t
    <2>11. QED
      BY <2>1, <2>8, <2>9, <2>10 DEF Policy
  <1>6. ASSUME NEW r \in Routines, Edit(r) PROVE Policy' /\ \A q \in Routines : turnedOff'[q] => turnedOff[q]
    <2>1. /\ enabled' = [enabled EXCEPT ![r] = ~@] /\ turnedOff' = [turnedOff EXCEPT ![r] = FALSE]
          /\ seen' = [seen EXCEPT ![r] = IF turnedOff[r] THEN 0 ELSE @] /\ streak' = streak
      BY <1>6 DEF Edit, log
    <2>2. FreshRoutine(streak[r], enabled'[r], turnedOff'[r], seen'[r])
      BY <2>1 DEF Policy, FreshRoutine
    <2>3. /\ enabled' \in [Routines -> BOOLEAN] /\ turnedOff' \in [Routines -> BOOLEAN] /\ seen' \in [Routines -> Nat]
      BY <2>1 DEF Policy
    <2>4. \A q \in Routines : q # r => enabled'[q] = enabled[q] /\ turnedOff'[q] = turnedOff[q] /\ seen'[q] = seen[q]
      BY <2>1 DEF Policy
    <2>5. QED
      BY <2>1, <2>2, <2>3, <2>4 DEF Policy
  <1>7. CASE RestartAtPolicy
    <2>0. PICK r \in TurnsOff : \E done \in SUBSET (Routines \ {r}), i \in DOMAIN After(r).failed : HandledUpTo(r, i, done)
      BY <1>7 DEF RestartAtPolicy
    <2>1. PICK done \in SUBSET (Routines \ {r}), i \in DOMAIN After(r).failed : HandledUpTo(r, i, done)
      BY <2>0
    <2>2. /\ seen' = seen /\ r \in Routines /\ r \notin done
          /\ streak' = [q \in Routines |->
                IF q \in done THEN Handled(After(q), enabled[q])
                ELSE IF q = r THEN [After(r) EXCEPT !.failed = SubSeq(@, i, Len(@))]
                ELSE After(q)]
          /\ enabled' = [q \in Routines |-> enabled[q] /\ q \notin {r} \cup (done \cap TurnsOff)]
          /\ turnedOff' = [q \in Routines |-> turnedOff[q] \/ q \in done \cap TurnsOff]
      BY <2>1 DEF HandledUpTo, TurnsOff
    <2> DEFINE s == After(r)
               t == [s EXCEPT !.failed = SubSeq(@, i, Len(@))]
    <2>3. /\ s \in Streaks /\ ~turnedOff[r] /\ seen[r] \in Nat
          /\ FreshRoutine(s, enabled[r], turnedOff[r], seen[r])
      BY <2>1, <2>2, AfterIs DEF Policy
    <2>4. s.count \in Nat /\ s.failed \in Seq(Nat) /\ DOMAIN s.failed = 1..Len(s.failed) /\ Len(s.failed) \in Nat
      BY <2>3 DEF Streaks
    <2>5. /\ SubSeq(s.failed, i, Len(s.failed)) \in Seq(Nat)
          /\ \A k \in DOMAIN SubSeq(s.failed, i, Len(s.failed)) :
                \E l \in DOMAIN s.failed : SubSeq(s.failed, i, Len(s.failed))[k] = s.failed[l]
      <3>1. i \in 1..Len(s.failed)
        BY <2>1, <2>4
      <3> HIDE DEF s
      <3>2. /\ Len(SubSeq(s.failed, i, Len(s.failed))) = Len(s.failed) - i + 1
            /\ SubSeq(s.failed, i, Len(s.failed)) \in Seq(Nat)
            /\ \A k \in 1..(Len(s.failed) - i + 1) : SubSeq(s.failed, i, Len(s.failed))[k] = s.failed[i + k - 1]
        <4> DEFINE f == s.failed
                   n == Len(f)
        <4>1. i \in Int /\ n \in Int /\ i <= n /\ \A l \in i..n : f[l] \in Nat
          BY <2>4, <3>1
        <4> HIDE DEF f, n
        <4>2. /\ SubSeq(f, i, n) \in Seq(Nat) /\ Len(SubSeq(f, i, n)) = n - i + 1
              /\ \A k \in 1..(n - i + 1) : SubSeq(f, i, n)[k] = f[i + k - 1]
          BY <4>1, SubSeqProperties
        <4>3. QED
          BY <4>2 DEF f, n
      <3>3. \A k \in 1..(Len(s.failed) - i + 1) : i + k - 1 \in 1..Len(s.failed)
        BY <2>4, <3>1
      <3>4. DOMAIN SubSeq(s.failed, i, Len(s.failed)) = 1..(Len(s.failed) - i + 1)
        BY <2>4, <3>1, <3>2
      <3>5. QED
        BY <2>4, <3>2, <3>3, <3>4
    <2> HIDE DEF s
    <2>6. t.count = s.count /\ t.off = s.off /\ t.failed = SubSeq(s.failed, i, Len(s.failed)) /\ t \in Streaks
      BY <2>3, <2>5 DEF Streaks
    <2> HIDE DEF t
    <2>7. FreshRoutine(t, FALSE, FALSE, seen[r])
      BY <2>3, <2>5, <2>6 DEF FreshRoutine
    <2>8. ASSUME NEW q \in Routines
          PROVE  streak'[q] \in Streaks /\ FreshRoutine(streak'[q], enabled'[q], turnedOff'[q], seen'[q])
      <3>1. CASE q \in done
        BY <2>2, <3>1, AfterIs
      <3>2. CASE q = r
        <4>1. streak'[r] = t /\ enabled'[r] = FALSE /\ turnedOff'[r] = FALSE
          BY <2>2, <2>3 DEF s, t, Policy
        <4>2. QED
          BY <2>2, <2>6, <2>7, <3>2, <4>1
      <3>3. CASE q \notin done /\ q # r
        <4>1. streak'[q] = After(q) /\ enabled'[q] = enabled[q] /\ turnedOff'[q] = turnedOff[q]
          BY <2>2, <3>3 DEF Policy
        <4>2. QED
          BY <2>2, <4>1, AfterIs
      <3>4. QED
        BY <3>1, <3>2, <3>3
    <2>9. /\ streak' \in [Routines -> Streaks] /\ enabled' \in [Routines -> BOOLEAN]
          /\ turnedOff' \in [Routines -> BOOLEAN] /\ seen' \in [Routines -> Nat]
      BY <2>2, <2>8 DEF Policy
    <2>10. \A q \in Routines : ~turnedOff[q] /\ turnedOff'[q] => seen[q] >= DISABLE_AFTER
      BY <2>2, AfterIs DEF Policy
    <2>11. QED
      BY <2>8, <2>9, <2>10 DEF Policy
  <1>8. ASSUME NEW d \in Deliveries, Receive(d) PROVE Policy' /\ turnedOff' = turnedOff
    BY <1>2, <1>8 DEF Receive
  <1>9. ASSUME NEW r \in Routines, RunNow(r) PROVE Policy' /\ turnedOff' = turnedOff
    BY <1>2, <1>9 DEF RunNow
  <1>10. CASE List
    BY <1>2, <1>10 DEF List
  <1>11. CASE Begin \/ AfterTurn
    BY <1>3, <1>11 DEF Begin, AfterTurn, HandleFailures
  <1>12. CASE RestartAtNotice
    BY <1>3, <1>12 DEF RestartAtNotice
  <1>13. CASE UNCHANGED vars
    BY <1>1, <1>13 DEF vars, log, PolicyVars
  <1>14. CASE Choose \/ OverBudget \/ NothingToStart \/ Rest \/ Started \/ StartFails \/ TurnNotifies
              \/ Restart \/ RestartAtStart
    BY <1>1, <1>14 DEF Choose, OverBudget, NothingToStart, Rest, Started, StartFails, TurnNotifies, Restart,
                       RestartAtStart, log, PolicyVars
  <1>15. ASSUME NEW r \in Routines, Due(r) \/ Interrupted(r) \/ Parks(r) \/ Resumes(r) PROVE UNCHANGED PolicyVars
    BY <1>15 DEF Due, Interrupted, Parks, Resumes, TurnOver, log, PolicyVars
  <1>16. ASSUME NEW by \in Callers, HubAnswers(by) \/ Unanswered(by) PROVE UNCHANGED PolicyVars
    BY <1>16 DEF HubAnswers, HubTakes, HubRefuses, Unanswered, CallOver, PolicyVars
  <1>17. QED
    BY <1>1, <1>4, <1>5, <1>6, <1>7, <1>8, <1>9, <1>10, <1>11, <1>12, <1>13, <1>14, <1>15, <1>16 DEF Next, Pass

-----------------------------------------------------------------------------
(* Sequences without repetition.                                           *)

LEMMA AppendIs ==
  ASSUME NEW S, NEW s \in Seq(S), NEW x \in S, IsInjective(s), x \notin Range(s)
  PROVE  Append(s, x) \in Seq(S) /\ IsInjective(Append(s, x)) /\ Range(Append(s, x)) = Range(s) \cup {x}
  <1> DEFINE q == Append(s, x)
  <1>1. /\ q \in Seq(S) /\ Len(s) \in Nat /\ DOMAIN s = 1..Len(s) /\ DOMAIN q = 1..(Len(s) + 1)
        /\ q[Len(s) + 1] = x /\ \A i \in 1..Len(s) : q[i] = s[i]
    OBVIOUS
  <1> HIDE DEF q
  <1>2. \A i \in DOMAIN q : (i \in DOMAIN s /\ q[i] = s[i]) \/ (i = Len(s) + 1 /\ q[i] = x)
    BY <1>1
  <1>3. DOMAIN s \subseteq DOMAIN q /\ Len(s) + 1 \in DOMAIN q /\ Len(s) + 1 \notin DOMAIN s
    BY <1>1
  <1>4. \A i \in DOMAIN s : s[i] # x
    BY DEF Range
  <1>5. IsInjective(q)
    BY <1>2, <1>4 DEF IsInjective
  <1>6. Range(q) = Range(s) \cup {x}
    BY <1>1, <1>2, <1>3 DEF Range
  <1>7. QED
    BY <1>1, <1>5, <1>6 DEF q

LEMMA JoinIs ==
  ASSUME NEW S, NEW s \in Seq(S), NEW t \in Seq(S), IsInjective(s), IsInjective(t), Range(s) \cap Range(t) = {}
  PROVE  s \o t \in Seq(S) /\ IsInjective(s \o t) /\ Range(s \o t) \subseteq Range(s) \cup Range(t)
  <1> DEFINE q == s \o t
  <1>1. /\ q \in Seq(S) /\ Len(s) \in Nat /\ Len(t) \in Nat /\ DOMAIN s = 1..Len(s) /\ DOMAIN t = 1..Len(t)
        /\ DOMAIN q = 1..(Len(s) + Len(t))
        /\ \A i \in 1..(Len(s) + Len(t)) : q[i] = IF i <= Len(s) THEN s[i] ELSE t[i - Len(s)]
    BY ConcatProperties
  <1> HIDE DEF q
  <1>2. \A i \in DOMAIN q : \/ i \in DOMAIN s /\ q[i] = s[i]
                            \/ i \notin DOMAIN s /\ i - Len(s) \in DOMAIN t /\ q[i] = t[i - Len(s)]
    BY <1>1
  <1>3. \A i \in DOMAIN s, j \in DOMAIN t : s[i] # t[j]
    BY DEF Range
  <1>4. \A i, j \in DOMAIN q : i - Len(s) = j - Len(s) => i = j
    BY <1>1
  <1>5. IsInjective(q)
    BY <1>2, <1>3, <1>4 DEF IsInjective
  <1>6. Range(q) \subseteq Range(s) \cup Range(t)
    BY <1>2 DEF Range
  <1>7. QED
    BY <1>1, <1>5, <1>6 DEF q

\* An order of finitely many things names each of them at most once.
LEMMA OrderIs ==
  ASSUME NEW xs, IsFiniteSet(xs), NEW order \in Orders(xs)
  PROVE  order \in Seq(xs) /\ IsInjective(order) /\ Range(order) \subseteq xs
  <1>1. order \in [1..Cardinality(xs) -> xs] /\ IsInjective(order)
    BY DEF Orders
  <1>2. Cardinality(xs) \in Nat
    BY FS_CardinalityType
  <1> DEFINE n == Cardinality(xs)
  <1>3. order \in Seq(xs)
    <2> HIDE DEF n
    <2>1. n \in Nat /\ order \in [1..n -> xs]
      BY <1>1, <1>2 DEF n
    <2>2. QED
      BY <2>1
  <1>4. Range(order) \subseteq xs
    BY <1>1 DEF Range
  <1>5. QED
    BY <1>1, <1>3, <1>4

-----------------------------------------------------------------------------
(* What is ready.                                                          *)

\* What waits is in line once, and a routine in line is not armed.
Queue ==
    /\ ready \in Seq(Waiting) /\ IsInjective(ready) /\ armed \in SUBSET Routines
    /\ Range(ready) \cap armed = {}

LEMMA KeptIs ==
  ASSUME Queue, NEW xs, NEW q \in Kept(xs)
  PROVE  q \in Seq(Waiting) /\ IsInjective(q) /\ Range(q) \subseteq Range(ready) \cap xs
  <1> DEFINE kept == {i \in DOMAIN ready : ready[i] \in xs}
  <1>1. PICK place \in Orders(kept) : q = [k \in DOMAIN place |-> ready[place[k]]]
    BY DEF Kept
  <1>2. IsFiniteSet(kept)
    <2>1. kept \in SUBSET (1..Len(ready)) /\ Len(ready) \in Nat
      BY DEF Queue
    <2>2. IsFiniteSet(1..Len(ready))
      BY <2>1, FS_Interval
    <2>3. QED
      BY <2>1, <2>2, FS_Subset
  <1>3. place \in Seq(kept) /\ IsInjective(place) /\ Range(place) \subseteq kept
    BY <1>2, OrderIs
  <1>4. \A k \in DOMAIN place : place[k] \in DOMAIN ready /\ ready[place[k]] \in xs /\ ready[place[k]] \in Waiting
    BY <1>3 DEF Range, Queue
  <1>5. DOMAIN place = 1..Len(place) /\ Len(place) \in Nat
    BY <1>3
  <1>6. q \in Seq(Waiting)
    BY <1>1, <1>4, <1>5
  <1>7. IsInjective(q)
    BY <1>1, <1>3, <1>4 DEF IsInjective, Queue
  <1>8. Range(q) \subseteq Range(ready) \cap xs
    BY <1>1, <1>4 DEF Range
  <1>9. QED
    BY <1>6, <1>7, <1>8

\* A start of the instance lines up the deliveries that still wait and the schedules it catches up.
LEMMA BootIs ==
  ASSUME Queue, NEW on, NEW xs \in SUBSET Deliveries, Boot(on, xs)
  PROVE  Queue' /\ Range(ready') \cap Deliveries \subseteq Range(ready) \cap xs
  <1>1. PICK missed \in SUBSET {r \in CatchUps : on[r]} :
           /\ armed' = {r \in Routines : on[r]} \ missed
           /\ \E pending \in Kept(xs), due \in Orders(missed) : ready' \in {due \o pending, pending \o due}
    BY DEF Boot
  <1>2. PICK pending \in Kept(xs), due \in Orders(missed) : ready' \in {due \o pending, pending \o due}
    BY <1>1
  <1>3. missed \in SUBSET Routines /\ IsFiniteSet(missed)
    <2>1. missed \in SUBSET Routines
      BY DEF CatchUps
    <2>2. QED
      BY <2>1, Named, FS_Subset
  <1>4. due \in Seq(missed) /\ IsInjective(due) /\ Range(due) \subseteq missed
    BY <1>3, OrderIs
  <1>5. due \in Seq(Waiting)
    <2>1. missed \subseteq Waiting
      BY <1>3 DEF Waiting
    <2>2. QED
      BY <1>4, <2>1
  <1>6. pending \in Seq(Waiting) /\ IsInjective(pending) /\ Range(pending) \subseteq Range(ready) \cap xs
    BY KeptIs
  <1>7. Range(due) \cap Range(pending) = {} /\ Range(pending) \cap Range(due) = {}
    BY <1>3, <1>4, <1>6, Apart
  <1>8. /\ ready' \in Seq(Waiting) /\ IsInjective(ready') /\ Range(ready') \subseteq missed \cup (Range(ready) \cap xs)
    <2>1. /\ due \o pending \in Seq(Waiting) /\ IsInjective(due \o pending)
          /\ Range(due \o pending) \subseteq Range(due) \cup Range(pending)
      BY <1>4, <1>5, <1>6, <1>7, JoinIs
    <2>2. /\ pending \o due \in Seq(Waiting) /\ IsInjective(pending \o due)
          /\ Range(pending \o due) \subseteq Range(pending) \cup Range(due)
      BY <1>4, <1>5, <1>6, <1>7, JoinIs
    <2>3. QED
      BY <1>2, <1>4, <1>6, <2>1, <2>2
  <1>9. armed' \in SUBSET Routines /\ armed' \cap missed = {} /\ armed' \cap xs = {}
    BY <1>1, Apart
  <1>10. Range(ready') \cap armed' = {}
    BY <1>8, <1>9
  <1>11. Range(ready') \cap Deliveries \subseteq Range(ready) \cap xs
    BY <1>3, <1>8, Apart
  <1>12. QED
    BY <1>8, <1>9, <1>10, <1>11 DEF Queue

-----------------------------------------------------------------------------
(* The turn, the deliveries and the notifications.                         *)

\* A turn is some routine's.
Held ==
    /\ turn \in [phase : {"none", "reserved", "running"}, who : Holders, delivery : Deliveries \cup {Nothing},
                 by : {"pass", "client"}]
    /\ turn.phase # "none" => turn.who \in Routines

\* A delivery in line, and one that a turn is about to be started for, has arrived and was never
\* started.
Arrived ==
    /\ arrivals \in [Deliveries -> {0, 1}] /\ starts \in [Deliveries -> {0, 1}] /\ bodies \in SUBSET Deliveries
    /\ \A d \in Deliveries :
          /\ starts[d] <= arrivals[d] /\ (d \notin bodies => starts[d] = arrivals[d])
          /\ d \in Range(ready) => arrivals[d] = 1 /\ starts[d] = 0
          /\ turn.phase = "reserved" /\ turn.delivery = d => arrivals[d] = 1 /\ starts[d] = 0

\* What is raised, accepted, refused and known by the hub.
Noticed ==
    /\ raised \in Nat /\ accepted \in SUBSET (1..raised) /\ refused \in SUBSET (1..raised)
    /\ todo \in SUBSET (1..raised) /\ telling \in 0..raised
    /\ hub \in Seq(1..raised) /\ IsInjective(hub) /\ accepted \subseteq Range(hub)

Others ==
    /\ parked \in SUBSET Routines /\ last \in [Routines -> {"never", "run", "parked", "interrupted"}]
    /\ pc \in {"waiting", "raising", "starting", "draining", "drained", "closing"} /\ used \in [Spent -> Nat]

IInv == Policy /\ Queue /\ Held /\ Arrived /\ Noticed /\ Others

LEMMA NoTurnIs ==
  /\ NoTurn \in [phase : {"none", "reserved", "running"}, who : Holders, delivery : Deliveries \cup {Nothing},
                 by : {"pass", "client"}]
  /\ NoTurn.phase = "none" /\ NoTurn.delivery = Nothing
  BY DEF NoTurn, Holders

\* Only what a step puts in line is new there.
LEMMA QueueStep ==
  ASSUME IInv, [Next]_vars
  PROVE  Queue' /\ \A d \in Deliveries : d \in Range(ready') => d \in Range(ready) \/ Receive(d)
  <1> USE DEF IInv
  <1>1. CASE UNCHANGED <<ready, armed>>
    BY <1>1 DEF Queue
  <1>2. ASSUME NEW xs, Keep(xs), armed' \in SUBSET Routines, armed' \cap Range(ready) \cap xs = {}
        PROVE  Queue' /\ Range(ready') \subseteq Range(ready)
    <2>1. ready' \in Kept(xs)
      BY <1>2 DEF Keep
    <2>2. ready' \in Seq(Waiting) /\ IsInjective(ready') /\ Range(ready') \subseteq Range(ready) \cap xs
      BY <2>1, KeptIs
    <2>3. QED
      BY <1>2, <2>2 DEF Queue
  <1>3. ASSUME NEW x \in Waiting, x \notin Range(ready), ready' = Append(ready, x),
               armed' \in SUBSET armed, x \notin armed'
        PROVE  Queue' /\ Range(ready') = Range(ready) \cup {x}
    <2>1. ready' \in Seq(Waiting) /\ IsInjective(ready') /\ Range(ready') = Range(ready) \cup {x}
      BY <1>3, AppendIs DEF Queue
    <2>2. QED
      BY <1>3, <2>1 DEF Queue
  <1>4. ASSUME NEW d \in Deliveries, Receive(d)
        PROVE  Queue' /\ Range(ready') = Range(ready) \cup {d}
    <2>1. d \notin Range(ready) /\ d \in Waiting /\ d \notin armed
      BY <1>4, Apart DEF Receive, Unseen, Arrived, Waiting, Queue
    <2>2. QED
      BY <1>3, <1>4, <2>1 DEF Receive, Queue
  <1>5. ASSUME NEW r \in Routines, Due(r)
        PROVE  Queue' /\ Range(ready') = Range(ready) \cup {r}
    <2>1. r \notin Range(ready) /\ r \in Waiting /\ armed' = armed \ {r} /\ ready' = Append(ready, r)
      BY <1>5 DEF Due, Waiting, Queue
    <2>2. QED
      BY <1>3, <2>1
  <1>6. ASSUME armed' = Arm, KeepReady PROVE Queue' /\ Range(ready') \subseteq Range(ready)
    BY <1>2, <1>6 DEF KeepReady, Arm, On
  <1>7. CASE OverBudget
    <2>1. PICK x \in Oldest : IF x \in Deliveries THEN armed' = Arm /\ KeepReady
                              ELSE armed' = Arm \cup {x} /\ Keep((Deliveries \cup On) \ {x})
      BY <1>7 DEF OverBudget
    <2>2. CASE x \in Deliveries
      BY <1>6, <2>1, <2>2
    <2>3. CASE x \notin Deliveries
      <3>1. x \in Range(ready) /\ Range(ready) \subseteq Waiting
        BY DEF Oldest, Range, Queue
      <3>2. x \in Routines
        BY <2>3, <3>1 DEF Waiting
      <3>3. armed' = Arm \cup {x} /\ Keep((Deliveries \cup On) \ {x})
        BY <2>1, <2>3
      <3>4. armed' \in SUBSET Routines /\ armed' \cap Range(ready) \cap ((Deliveries \cup On) \ {x}) = {}
        BY <3>2, <3>3 DEF Arm, On
      <3>5. QED
        BY <1>2, <3>3, <3>4
    <2>4. QED
      BY <2>2, <2>3
  <1>8. CASE Started
    <2>1. CASE turn.delivery # Nothing
      <3>1. Keep(Waiting \ {turn.delivery}) /\ armed' = armed
        BY <1>8, <2>1 DEF Started, Starts
      <3>2. armed' \in SUBSET Routines /\ armed' \cap Range(ready) \cap (Waiting \ {turn.delivery}) = {}
        BY <3>1 DEF Queue
      <3>3. QED
        BY <1>2, <3>1, <3>2
    <2>2. CASE turn.delivery = Nothing
      <3>1. Keep(Waiting \ {turn.who}) /\ armed' = armed \cup {turn.who}
        BY <1>8, <2>2 DEF Started, Starts, Rearmed
      <3>2. turn.who \in Routines
        BY <1>8 DEF Started, Held
      <3>3. armed' \in SUBSET Routines /\ armed' \cap Range(ready) \cap (Waiting \ {turn.who}) = {}
        BY <3>1, <3>2 DEF Queue
      <3>4. QED
        BY <1>2, <3>1, <3>3
    <2>3. QED
      BY <2>1, <2>2
  <1>9. ASSUME NEW on, NEW xs \in SUBSET Deliveries, Boot(on, xs)
        PROVE  Queue' /\ Range(ready') \cap Deliveries \subseteq Range(ready)
    BY <1>9, BootIs
  <1>10. CASE Restart \/ RestartAtStart \/ RestartAtNotice \/ RestartAtPolicy
    <2>1. Deliveries \in SUBSET Deliveries /\ Deliveries \ {turn.delivery} \in SUBSET Deliveries
      OBVIOUS
    <2>2. QED
      BY <1>9, <1>10, <2>1 DEF Restart, RestartAtStart, RestartAtNotice, RestartAtPolicy
  <1>11. CASE Choose \/ NothingToStart \/ List
    BY <1>6, <1>11 DEF Choose, NothingToStart, List
  <1>12. CASE UNCHANGED vars
    BY <1>1, <1>12 DEF vars
  <1>13. CASE Begin \/ AfterTurn \/ Rest \/ StartFails \/ TurnNotifies
    BY <1>1, <1>13 DEF Begin, AfterTurn, Rest, StartFails, TurnNotifies
  <1>14. ASSUME NEW r \in Routines, RunNow(r) \/ Edit(r) \/ Completes(r) \/ Fails(r) \/ Interrupted(r) \/ Parks(r) \/ Resumes(r)
         PROVE  UNCHANGED <<ready, armed>>
    BY <1>14 DEF RunNow, Edit, Completes, Fails, Interrupted, Parks, Resumes, TurnOver
  <1>15. ASSUME NEW by \in Callers, HubAnswers(by) \/ Unanswered(by) PROVE UNCHANGED <<ready, armed>>
    BY <1>15 DEF HubAnswers, HubTakes, HubRefuses, Unanswered, CallOver
  <1>16. \A r \in Routines : r \notin Deliveries
    BY Apart
  <1>17. QED
    BY <1>1, <1>4, <1>5, <1>7, <1>8, <1>10, <1>11, <1>12, <1>13, <1>14, <1>15, <1>16 DEF Next, Pass

LEMMA HeldStep ==
  ASSUME IInv, [Next]_vars
  PROVE  Held'
  <1> USE DEF IInv
  <1>1. CASE UNCHANGED turn
    BY <1>1 DEF Held
  <1>2. CASE turn' = NoTurn
    BY <1>2, NoTurnIs DEF Held
  <1>3. ASSUME NEW r \in Routines, NEW d \in Deliveries \cup {Nothing}, NEW by \in {"pass", "client"},
               NEW phase \in {"reserved", "running"},
               turn' = [phase |-> phase, who |-> r, delivery |-> d, by |-> by]
        PROVE  Held'
    BY <1>3 DEF Held, Holders
  <1>4. CASE Choose
    <2>1. PICK x \in Oldest : turn' = Reserved(Owner(x), IF x \in Deliveries THEN x ELSE Nothing, "pass")
      BY <1>4 DEF Choose
    <2>2. x \in Waiting
      BY DEF Oldest, Range, Queue
    <2>3. Owner(x) \in Routines
      BY <2>2, Named DEF Owner, Waiting
    <2>4. (IF x \in Deliveries THEN x ELSE Nothing) \in Deliveries \cup {Nothing}
      OBVIOUS
    <2>5. QED
      BY <1>3, <2>1, <2>3, <2>4 DEF Reserved
  <1>5. ASSUME NEW r \in Routines, RunNow(r) PROVE Held'
    BY <1>3, <1>5 DEF RunNow, Reserved
  <1>6. ASSUME NEW r \in Routines, Resumes(r) PROVE Held'
    <2>1. turn' = [phase |-> "running", who |-> r, delivery |-> Nothing, by |-> "client"]
      BY <1>6 DEF Resumes, Reserved
    <2>2. QED
      BY <1>3, <2>1
  <1>7. CASE Started
    <2>1. turn' = [turn EXCEPT !.phase = "running"] /\ turn.phase = "reserved"
      BY <1>7 DEF Started
    <2>2. QED
      BY <2>1 DEF Held
  <1>8. CASE UNCHANGED vars
    BY <1>1, <1>8 DEF vars
  <1>9. CASE Begin \/ OverBudget \/ NothingToStart \/ AfterTurn \/ Rest \/ TurnNotifies \/ List
    BY <1>1, <1>9 DEF Begin, OverBudget, NothingToStart, AfterTurn, Rest, TurnNotifies, List
  <1>10. CASE StartFails \/ Restart \/ RestartAtStart \/ RestartAtNotice \/ RestartAtPolicy
    BY <1>2, <1>10 DEF StartFails, Restart, RestartAtStart, RestartAtNotice, RestartAtPolicy, Forgotten
  <1>11. ASSUME NEW r \in Routines, Due(r) \/ Edit(r) PROVE Held'
    BY <1>1, <1>11 DEF Due, Edit
  <1>12. ASSUME NEW r \in Routines, Completes(r) \/ Fails(r) \/ Interrupted(r) \/ Parks(r) PROVE Held'
    BY <1>2, <1>12 DEF Completes, Fails, Interrupted, Parks, TurnOver
  <1>13. ASSUME NEW d \in Deliveries, Receive(d) PROVE Held'
    BY <1>1, <1>13 DEF Receive
  <1>14. ASSUME NEW by \in Callers, HubAnswers(by) \/ Unanswered(by) PROVE Held'
    BY <1>1, <1>14 DEF HubAnswers, HubTakes, HubRefuses, Unanswered, CallOver
  <1>15. QED
    BY <1>4, <1>5, <1>6, <1>7, <1>8, <1>9, <1>10, <1>11, <1>12, <1>13, <1>14 DEF Next, Pass

\* A delivery is started once, out of the line, and loses its body only then.
LEMMA ArrivedStep ==
  ASSUME IInv, [Next]_vars
  PROVE  Arrived'
  <1> USE DEF IInv
  <1>1. ASSUME UNCHANGED <<arrivals, starts, bodies>>,
               \A d \in Deliveries : d \in Range(ready') => d \in Range(ready),
               \/ turn' = turn
               \/ turn'.phase # "reserved"
               \/ turn'.delivery = Nothing
               \/ turn'.delivery \in Range(ready)
        PROVE  Arrived'
    BY <1>1, Apart DEF Arrived
  <1>2. ASSUME NEW d \in Deliveries, Receive(d) PROVE Arrived'
    <2>1. /\ arrivals[d] = 0 /\ arrivals' = [arrivals EXCEPT ![d] = @ + 1] /\ bodies' = bodies \cup {d}
          /\ UNCHANGED <<starts, turn>>
      BY <1>2 DEF Receive, Unseen
    <2>2. starts[d] = 0 /\ arrivals'[d] = 1 /\ arrivals' \in [Deliveries -> {0, 1}]
      BY <2>1 DEF Arrived
    <2>3. \A e \in Deliveries : e # d => arrivals'[e] = arrivals[e] /\ (e \in Range(ready') => e \in Range(ready))
      <3>1. \A e \in Deliveries : e # d => arrivals'[e] = arrivals[e]
        BY <2>1 DEF Arrived
      <3>2. Range(ready') = Range(ready) \cup {d}
        <4>1. d \notin Range(ready) /\ d \in Waiting /\ ready' = Append(ready, d)
          BY <1>2, <2>1 DEF Receive, Arrived, Waiting
        <4>2. QED
          BY <4>1, AppendIs DEF Queue
      <3>3. QED
        BY <3>1, <3>2
    <2>4. QED
      BY <2>1, <2>2, <2>3 DEF Arrived
  <1>3. CASE Started
    <2>1. turn.phase = "reserved" /\ turn' = [turn EXCEPT !.phase = "running"] /\ arrivals' = arrivals
      BY <1>3 DEF Started
    <2>2. turn'.phase = "running"
      BY <2>1 DEF Held
    <2>3. CASE turn.delivery = Nothing
      <3>1. UNCHANGED <<starts, bodies>>
        BY <1>3, <2>3 DEF Started
      <3>2. \A d \in Deliveries : d \in Range(ready') => d \in Range(ready)
        <4>1. ready' \in Kept(Waiting \ {turn.who})
          BY <1>3, <2>3 DEF Started, Starts, Keep
        <4>2. QED
          BY <4>1, KeptIs
      <3>3. QED
        BY <1>1, <2>1, <2>2, <3>1, <3>2
    <2>4. CASE turn.delivery # Nothing
      <3> DEFINE d == turn.delivery
      <3>1. d \in Deliveries /\ arrivals[d] = 1 /\ starts[d] = 0
        BY <2>1, <2>4 DEF Held, Arrived
      <3>2. starts' = [starts EXCEPT ![d] = @ + 1] /\ bodies' = bodies \ {d} /\ ready' \in Kept(Waiting \ {d})
        BY <1>3, <2>4 DEF Started, Starts, Keep
      <3> HIDE DEF d
      <3>3. Range(ready') \subseteq Range(ready) \ {d}
        BY <3>2, KeptIs
      <3>4. /\ starts' \in [Deliveries -> {0, 1}] /\ starts'[d] = 1
            /\ \A e \in Deliveries : e # d => starts'[e] = starts[e]
        BY <3>1, <3>2 DEF Arrived
      <3>5. QED
        BY <2>1, <2>2, <3>1, <3>2, <3>3, <3>4 DEF Arrived
    <2>5. QED
      BY <2>3, <2>4
  <1>4. CASE RestartAtStart
    <2> DEFINE d == turn.delivery
    <2>1. d \in Deliveries /\ arrivals[d] = 1 /\ starts[d] = 0
      BY <1>4 DEF RestartAtStart, Held, Arrived
    <2>2. /\ starts' = [starts EXCEPT ![d] = @ + 1] /\ UNCHANGED <<arrivals, bodies>>
          /\ turn' = NoTurn /\ Boot(enabled, Deliveries \ {d})
      BY <1>4 DEF RestartAtStart, Forgotten
    <2> HIDE DEF d
    <2>3. Range(ready') \cap Deliveries \subseteq Range(ready) \ {d}
      <3>1. Deliveries \ {d} \in SUBSET Deliveries
        OBVIOUS
      <3>2. QED
        BY <2>2, <3>1, BootIs
    <2>4. /\ starts' \in [Deliveries -> {0, 1}] /\ starts'[d] = 1
          /\ \A e \in Deliveries : e # d => starts'[e] = starts[e]
      BY <2>1, <2>2 DEF Arrived
    <2>5. QED
      BY <2>1, <2>2, <2>3, <2>4, NoTurnIs DEF Arrived
  <1>5. CASE ~(\E d \in Deliveries : Receive(d)) /\ ~Started /\ ~RestartAtStart
    <2>1. \A d \in Deliveries : d \in Range(ready') => d \in Range(ready)
      BY <1>5, QueueStep
    <2>2. CASE Choose
      <3>1. PICK x \in Oldest : turn' = Reserved(Owner(x), IF x \in Deliveries THEN x ELSE Nothing, "pass")
        BY <2>2 DEF Choose
      <3>2. turn'.delivery = IF x \in Deliveries THEN x ELSE Nothing
        BY <3>1 DEF Reserved
      <3>3. x \in Range(ready)
        BY DEF Oldest
      <3>4. UNCHANGED <<arrivals, starts, bodies>>
        BY <2>2 DEF Choose, log
      <3>5. QED
        BY <1>1, <2>1, <3>2, <3>3, <3>4
    <2>3. CASE UNCHANGED vars
      BY <1>1, <2>1, <2>3 DEF vars, log
    <2>4. CASE Begin \/ OverBudget \/ NothingToStart \/ AfterTurn \/ Rest
      BY <1>1, <2>1, <2>4 DEF Begin, OverBudget, NothingToStart, AfterTurn, Rest, log
    <2>5. CASE TurnNotifies \/ List
      BY <1>1, <2>1, <2>5 DEF TurnNotifies, List
    <2>6. CASE StartFails \/ Restart
      BY <1>1, <2>1, <2>6, NoTurnIs DEF StartFails, Restart, Forgotten, log
    <2>7. CASE RestartAtNotice \/ RestartAtPolicy
      BY <1>1, <2>1, <2>7, NoTurnIs DEF RestartAtNotice, RestartAtPolicy, Forgotten
    <2>8. ASSUME NEW r \in Routines, Due(r) \/ Edit(r) PROVE Arrived'
      BY <1>1, <2>1, <2>8 DEF Due, Edit, log
    <2>9. ASSUME NEW r \in Routines, RunNow(r) \/ Resumes(r) PROVE Arrived'
      <3>1. turn'.delivery = Nothing /\ UNCHANGED <<arrivals, starts, bodies>>
        BY <2>9 DEF RunNow, Resumes, Reserved
      <3>2. QED
        BY <1>1, <2>1, <3>1
    <2>10. ASSUME NEW r \in Routines, Completes(r) \/ Fails(r) \/ Interrupted(r) \/ Parks(r) PROVE Arrived'
      <3>1. turn' = NoTurn /\ UNCHANGED <<arrivals, starts, bodies>>
        BY <2>10 DEF Completes, Fails, Interrupted, Parks, TurnOver
      <3>2. QED
        BY <1>1, <2>1, <3>1, NoTurnIs
    <2>11. ASSUME NEW by \in Callers, HubAnswers(by) \/ Unanswered(by) PROVE Arrived'
      BY <1>1, <2>1, <2>11 DEF HubAnswers, HubTakes, HubRefuses, Unanswered, CallOver
    <2>12. QED
      BY <1>5, <2>2, <2>3, <2>4, <2>5, <2>6, <2>7, <2>8, <2>9, <2>10, <2>11 DEF Next, Pass
  <1>6. QED
    BY <1>2, <1>3, <1>4, <1>5

LEMMA NewNoticesIs ==
  /\ IsFiniteSet(NewNotices) /\ Cardinality(NewNotices) \in Nat /\ (NewNotices # {} => Cardinality(NewNotices) >= 1)
  /\ \A some \in SUBSET NewNotices : Cardinality(some) \in Nat
  <1>1. IsFiniteSet({"first", "disabled"})
    <2>1. IsFiniteSet({"first"})
      BY FS_Singleton
    <2>2. IsFiniteSet({"first"} \cup {"disabled"})
      BY <2>1, FS_AddElement
    <2>3. {"first", "disabled"} = {"first"} \cup {"disabled"}
      OBVIOUS
    <2>4. QED
      BY <2>2, <2>3
  <1>2. IsFiniteSet(Routines \X {"first", "disabled"})
    BY <1>1, Named, FS_Product
  <1>3. IsFiniteSet(NewNotices)
    <2>1. NewNotices \in SUBSET (Routines \X {"first", "disabled"})
      BY DEF NewNotices
    <2>2. QED
      BY <1>2, <2>1, FS_Subset
  <1>4. Cardinality(NewNotices) \in Nat
    BY <1>3, FS_CardinalityType
  <1>5. NewNotices # {} => Cardinality(NewNotices) # 0
    BY <1>3, FS_EmptySet
  <1>6. \A some \in SUBSET NewNotices : Cardinality(some) \in Nat
    BY <1>3, FS_Subset, FS_CardinalityType
  <1>7. QED
    BY <1>3, <1>4, <1>5, <1>6

LEMMA CallOverIs ==
  ASSUME Noticed, NEW by, NEW left \in SUBSET todo, CallOver(by, left)
  PROVE  raised' = raised /\ telling' \in 0..raised /\ todo' \in SUBSET (1..raised)
  <1>1. raised \in Nat /\ todo \in SUBSET (1..raised) /\ telling \in 0..raised /\ 0 \in 0..raised
    BY DEF Noticed
  <1>2. raised' = raised
    BY DEF CallOver
  <1>3. telling' = 0 \/ telling' = telling
    BY DEF CallOver
  <1>4. todo' = left \/ todo' = todo
    BY DEF CallOver
  <1>5. QED
    BY <1>1, <1>2, <1>3, <1>4

\* A note is made on the hub once, and accepted only when the hub has it.
LEMMA NoticedStep ==
  ASSUME IInv, [Next]_vars
  PROVE  Noticed'
  <1> USE DEF IInv
  <1>1. ASSUME raised' \in Nat, raised' >= raised, UNCHANGED <<accepted, refused, hub>>,
               todo' \in SUBSET (1..raised'), telling' \in 0..raised'
        PROVE  Noticed'
    <2>1. 1..raised \subseteq 1..raised'
      BY <1>1 DEF Noticed
    <2>2. hub \in Seq(1..raised')
      <3> DEFINE S == 1..raised
                 T == 1..raised'
      <3>1. hub \in Seq(S) /\ S \subseteq T
        BY <2>1 DEF Noticed
      <3> HIDE DEF S, T
      <3>2. Len(hub) \in Nat /\ hub \in [1..Len(hub) -> S]
        BY <3>1
      <3>3. hub \in [1..Len(hub) -> T]
        BY <3>1, <3>2
      <3>4. hub \in Seq(T)
        BY <3>2, <3>3
      <3>5. QED
        BY <3>4 DEF T
    <2>3. accepted \in SUBSET (1..raised') /\ refused \in SUBSET (1..raised')
      BY <2>1 DEF Noticed
    <2>4. QED
      BY <1>1, <2>2, <2>3 DEF Noticed
  <1>2. CASE UNCHANGED <<raised, accepted, refused, hub, todo, telling>>
    BY <1>2 DEF Noticed
  <1>3. ASSUME raised' = raised + Cardinality(NewNotices), todo' \in SUBSET (1..raised'), UNCHANGED <<accepted, refused, hub, telling>>
        PROVE  Noticed'
    <2>1. raised' \in Nat /\ raised' >= raised
      BY <1>3, NewNoticesIs DEF Noticed
    <2>2. telling' \in 0..raised'
      BY <1>3, <2>1 DEF Noticed
    <2>3. todo' \in SUBSET (1..raised')
      BY <1>3
    <2>4. QED
      BY <1>1, <1>3, <2>1, <2>2, <2>3
  <1>4. CASE TurnNotifies
    <2>1. raised' = raised + 1 /\ telling' = raised + 1 /\ UNCHANGED <<accepted, refused, hub, todo>>
      BY <1>4 DEF TurnNotifies, pass
    <2>2. raised' \in Nat /\ raised' >= raised /\ telling' \in 0..raised' /\ todo' \in SUBSET (1..raised')
      BY <2>1 DEF Noticed
    <2>3. QED
      BY <1>1, <2>1, <2>2
  <1>5. ASSUME NEW n \in 1..raised, Recorded(n)
        PROVE  hub' \in Seq(1..raised) /\ IsInjective(hub') /\ Range(hub') = Range(hub) \cup {n}
    <2>1. CASE n \in Range(hub)
      BY <1>5, <2>1 DEF Recorded, Known, Noticed
    <2>2. CASE n \notin Range(hub)
      <3>1. hub' = Append(hub, n)
        BY <1>5, <2>2 DEF Recorded, Known
      <3>2. QED
        BY <2>2, <3>1, AppendIs DEF Noticed
    <2>3. QED
      BY <2>1, <2>2
  <1>6. ASSUME NEW by \in Callers PROVE Note(by) \in SUBSET (1..raised)
    <2>1. {telling} \ {0} \subseteq 1..raised
      BY DEF Noticed
    <2>2. QED
      BY <2>1 DEF Note, Noticed
  <1>7. ASSUME NEW by \in Callers, HubAnswers(by) PROVE Noticed'
    <2>1. CASE HubTakes(by)
      <3>1. PICK n \in Note(by) : Recorded(n) /\ accepted' = accepted \cup {n} /\ CallOver(by, todo \ {n})
        BY <2>1 DEF HubTakes
      <3>2. n \in 1..raised
        BY <1>6
      <3>3. raised' = raised /\ telling' \in 0..raised /\ todo' \in SUBSET (1..raised)
        BY <3>1, CallOverIs
      <3>4. hub' \in Seq(1..raised) /\ IsInjective(hub') /\ Range(hub') = Range(hub) \cup {n}
        BY <1>5, <3>1, <3>2
      <3>5. refused' = refused
        BY <2>1 DEF HubTakes
      <3>6. QED
        BY <3>1, <3>2, <3>3, <3>4, <3>5 DEF Noticed
    <2>2. CASE HubRefuses(by)
      <3>1. PICK n \in Note(by) : refused' = refused \cup {n} /\ CallOver(by, todo \ {n})
        BY <2>2 DEF HubRefuses
      <3>2. n \in 1..raised /\ UNCHANGED <<accepted, hub>>
        BY <1>6, <2>2 DEF HubRefuses
      <3>3. raised' = raised /\ telling' \in 0..raised /\ todo' \in SUBSET (1..raised)
        BY <3>1, CallOverIs
      <3>4. QED
        BY <3>1, <3>2, <3>3 DEF Noticed
    <2>3. QED
      BY <1>7, <2>1, <2>2 DEF HubAnswers
  <1>8. ASSUME NEW by \in Callers, Unanswered(by) PROVE Noticed'
    <2>1. PICK n \in Note(by) : Recorded(n) \/ UNCHANGED hub
      BY <1>8 DEF Unanswered
    <2>2. CallOver(by, {}) /\ UNCHANGED <<accepted, refused>>
      BY <1>8 DEF Unanswered
    <2>3. raised' = raised /\ telling' \in 0..raised /\ todo' \in SUBSET (1..raised)
      BY <2>2, CallOverIs
    <2>4. hub' \in Seq(1..raised) /\ IsInjective(hub') /\ Range(hub) \subseteq Range(hub')
      BY <1>5, <1>6, <2>1 DEF Noticed
    <2>5. QED
      BY <2>2, <2>3, <2>4 DEF Noticed
  <1>9. ASSUME Forgotten, UNCHANGED <<accepted, refused, hub>>, raised' \in Nat, raised' >= raised PROVE Noticed'
    <2>1. todo' = {} /\ telling' = 0
      BY <1>9 DEF Forgotten
    <2>2. telling' \in 0..raised' /\ todo' \in SUBSET (1..raised')
      BY <1>9, <2>1
    <2>3. QED
      BY <1>1, <1>9, <2>2
  <1>10. raised \in Nat
    BY DEF Noticed
  <1>11. CASE Restart \/ RestartAtStart
    <2>1. Forgotten /\ UNCHANGED <<accepted, refused, hub, raised>>
      BY <1>11 DEF Restart, RestartAtStart, log
    <2>2. QED
      BY <1>9, <1>10, <2>1
  <1>12. CASE RestartAtNotice
    <2>1. NewNotices # {} /\ raised' = raised + Cardinality(NewNotices) - 1 /\ Forgotten /\ UNCHANGED <<accepted, refused, hub>>
      BY <1>12 DEF RestartAtNotice
    <2>2. raised' \in Nat /\ raised' >= raised
      BY <1>10, <2>1, NewNoticesIs
    <2>3. QED
      BY <1>9, <2>1, <2>2
  <1>13. CASE RestartAtPolicy
    <2>1. PICK r \in TurnsOff : \E done \in SUBSET (Routines \ {r}), i \in DOMAIN After(r).failed : HandledUpTo(r, i, done)
      BY <1>13 DEF RestartAtPolicy
    <2>2. PICK done \in SUBSET (Routines \ {r}), i \in DOMAIN After(r).failed : HandledUpTo(r, i, done)
      BY <2>1
    <2> DEFINE some == {n \in NewNotices : n[1] \in done \/ n = <<r, "first">>}
    <2>3. raised' = raised + Cardinality(some)
      BY <2>2 DEF HandledUpTo
    <2>4. some \in SUBSET NewNotices
      OBVIOUS
    <2> HIDE DEF some
    <2>5. raised' \in Nat /\ raised' >= raised
      BY <1>10, <2>3, <2>4, NewNoticesIs
    <2>6. Forgotten /\ UNCHANGED <<accepted, refused, hub>>
      BY <1>13 DEF RestartAtPolicy
    <2>7. QED
      BY <1>9, <2>5, <2>6
  <1>14. CASE Begin \/ AfterTurn
    BY <1>3, <1>14 DEF Begin, AfterTurn, HandleFailures
  <1>15. ASSUME NEW r \in Routines, Interrupted(r) PROVE Noticed'
    <2>1. telling' = 0 /\ UNCHANGED <<raised, accepted, refused, hub, todo>>
      BY <1>15 DEF Interrupted, TurnOver
    <2>2. telling' \in 0..raised'
      BY <1>10, <2>1
    <2>3. QED
      BY <2>1, <2>2 DEF Noticed
  <1>16. CASE Choose \/ OverBudget \/ NothingToStart \/ Rest
    BY <1>2, <1>16 DEF Choose, OverBudget, NothingToStart, Rest, log
  <1>17. CASE Started \/ StartFails
    BY <1>2, <1>17 DEF Started, StartFails, log
  <1>18. CASE List
    BY <1>2, <1>18 DEF List, pass
  <1>19. ASSUME NEW r \in Routines, Due(r) \/ RunNow(r) \/ Edit(r) \/ Completes(r) \/ Fails(r) \/ Parks(r) \/ Resumes(r)
         PROVE  UNCHANGED <<raised, accepted, refused, hub, todo, telling>>
    BY <1>19 DEF Due, RunNow, Edit, Completes, Fails, Parks, Resumes, TurnOver, log, pass
  <1>20. ASSUME NEW d \in Deliveries, Receive(d) PROVE Noticed'
    BY <1>2, <1>20 DEF Receive, pass
  <1>21. CASE UNCHANGED vars
    BY <1>2, <1>21 DEF vars, log, pass
  <1>22. QED
    BY <1>2, <1>4, <1>7, <1>8, <1>11, <1>12, <1>13, <1>14, <1>15, <1>16, <1>17, <1>18, <1>19, <1>20, <1>21 DEF Next, Pass

LEMMA OthersStep ==
  ASSUME IInv, [Next]_vars
  PROVE  Others'
  <1> USE DEF IInv
  <1>1. \A what \in Spent : Use(what) => used' \in [Spent -> Nat]
    BY DEF Use, Others
  <1>2. used' \in [Spent -> Nat]
    <2>1. CASE UNCHANGED used
      BY <2>1 DEF Others
    <2>2. CASE \E what \in Spent : Use(what)
      BY <1>1, <2>2
    <2>3. CASE Pass \/ Started \/ StartFails \/ TurnNotifies \/ List
      BY <2>1, <2>2, <2>3 DEF Pass, Begin, OverBudget, Choose, NothingToStart, AfterTurn, Rest, Started, StartFails,
                              TurnNotifies, List, Spent
    <2>4. CASE Restart \/ RestartAtStart \/ RestartAtNotice \/ RestartAtPolicy
      BY <2>2, <2>4 DEF Restart, RestartAtStart, RestartAtNotice, RestartAtPolicy, Forgotten, Spent
    <2>5. ASSUME NEW r \in Routines, Due(r) \/ RunNow(r) \/ Edit(r) PROVE used' \in [Spent -> Nat]
      BY <2>2, <2>5 DEF Due, RunNow, Edit, Spent
    <2>6. ASSUME NEW r \in Routines, Completes(r) \/ Fails(r) \/ Interrupted(r) \/ Parks(r) \/ Resumes(r)
          PROVE  used' \in [Spent -> Nat]
      BY <2>1, <2>6 DEF Completes, Fails, Interrupted, Parks, Resumes, TurnOver
    <2>7. ASSUME NEW by \in Callers, HubAnswers(by) \/ Unanswered(by) PROVE used' \in [Spent -> Nat]
      BY <2>1, <2>2, <2>7 DEF HubAnswers, HubTakes, HubRefuses, Unanswered, Spent
    <2>8. ASSUME NEW d \in Deliveries, Receive(d) PROVE used' \in [Spent -> Nat]
      BY <2>1, <2>8 DEF Receive
    <2>9. QED
      BY <2>1, <2>3, <2>4, <2>5, <2>6, <2>7, <2>8 DEF Next, vars
  <1>3. pc' \in {"waiting", "raising", "starting", "draining", "drained", "closing"}
    <2>1. CASE Pass \/ Started \/ StartFails \/ TurnNotifies \/ List
      BY <2>1 DEF Pass, Begin, OverBudget, Choose, NothingToStart, AfterTurn, Rest, Started, StartFails,
                  TurnNotifies, List, Others, pass
    <2>2. CASE Restart \/ RestartAtStart \/ RestartAtNotice \/ RestartAtPolicy
      BY <2>2 DEF Restart, RestartAtStart, RestartAtNotice, RestartAtPolicy, Forgotten
    <2>3. ASSUME NEW r \in Routines, Due(r) \/ RunNow(r) \/ Edit(r) \/ Completes(r) \/ Fails(r) \/ Interrupted(r)
                                     \/ Parks(r) \/ Resumes(r)
          PROVE  pc' \in {pc, "drained"}
      BY <2>3 DEF Due, RunNow, Edit, Completes, Fails, Interrupted, Parks, Resumes, TurnOver, pass
    <2>4. ASSUME NEW by \in Callers, HubAnswers(by) \/ Unanswered(by) PROVE pc' = pc
      BY <2>4 DEF HubAnswers, HubTakes, HubRefuses, Unanswered, CallOver
    <2>5. ASSUME NEW d \in Deliveries, Receive(d) PROVE pc' = pc
      BY <2>5 DEF Receive, pass
    <2>6. QED
      BY <2>1, <2>2, <2>3, <2>4, <2>5 DEF Next, vars, pass, Others
  <1>4. parked' \in SUBSET Routines /\ last' \in [Routines -> {"never", "run", "parked", "interrupted"}]
    <2>1. CASE UNCHANGED <<parked, last>>
      BY <2>1 DEF Others
    <2>2. CASE Pass \/ StartFails \/ TurnNotifies \/ List
      BY <2>1, <2>2 DEF Pass, Begin, OverBudget, Choose, NothingToStart, AfterTurn, Rest, StartFails, TurnNotifies, List, log
    <2>3. CASE Started \/ Restart \/ RestartAtStart \/ RestartAtNotice \/ RestartAtPolicy
      BY <2>3 DEF Started, Restart, RestartAtStart, RestartAtNotice, RestartAtPolicy, log, Others
    <2>4. ASSUME NEW r \in Routines, Interrupted(r) \/ Parks(r) \/ Resumes(r)
          PROVE  parked' \in SUBSET Routines /\ last' \in [Routines -> {"never", "run", "parked", "interrupted"}]
      BY <2>4 DEF Interrupted, Parks, Resumes, Others
    <2>5. ASSUME NEW r \in Routines, Due(r) \/ RunNow(r) \/ Edit(r) \/ Completes(r) \/ Fails(r)
          PROVE  UNCHANGED <<parked, last>>
      BY <2>5 DEF Due, RunNow, Edit, Completes, Fails, TurnOver, log
    <2>6. ASSUME NEW by \in Callers, HubAnswers(by) \/ Unanswered(by) PROVE UNCHANGED <<parked, last>>
      BY <2>6 DEF HubAnswers, HubTakes, HubRefuses, Unanswered, CallOver
    <2>7. ASSUME NEW d \in Deliveries, Receive(d) PROVE UNCHANGED <<parked, last>>
      BY <2>7 DEF Receive
    <2>8. QED
      BY <2>1, <2>2, <2>3, <2>4, <2>5, <2>6, <2>7 DEF Next, vars, log
  <1>5. QED
    BY <1>2, <1>3, <1>4 DEF Others

-----------------------------------------------------------------------------
(* The results.                                                            *)

LEMMA Starts0 == Init => IInv
  <1> SUFFICES ASSUME Init PROVE IInv
    OBVIOUS
  <1>1. Policy
    BY CleanIs DEF Init, Policy, FreshRoutine
  <1>2. Queue /\ Arrived
    <2>1. ready = <<>> /\ Range(ready) = {} /\ IsInjective(ready) /\ ready \in Seq(Waiting)
      BY DEF Init, Range, IsInjective
    <2>2. turn.phase = "none"
      BY NoTurnIs DEF Init
    <2>3. QED
      BY <2>1, <2>2 DEF Init, Queue, Arrived
  <1>3. Held
    BY NoTurnIs DEF Init, Held
  <1>4. Noticed
    <2>1. hub = <<>> /\ Range(hub) = {} /\ IsInjective(hub) /\ hub \in Seq(1..raised)
      BY DEF Init, Range, IsInjective
    <2>2. QED
      BY <2>1 DEF Init, Noticed
  <1>5. Others
    BY DEF Init, Others
  <1>6. QED
    BY <1>1, <1>2, <1>3, <1>4, <1>5 DEF IInv

LEMMA Keeps == IInv /\ [Next]_vars => IInv'
  <1> SUFFICES ASSUME IInv, [Next]_vars PROVE IInv'
    OBVIOUS
  <1>1. Policy'
    BY PolicyStep DEF IInv
  <1>2. Queue' /\ Held' /\ Arrived' /\ Noticed' /\ Others'
    BY QueueStep, HeldStep, ArrivedStep, NoticedStep, OthersStep
  <1>3. QED
    BY <1>1, <1>2 DEF IInv

LEMMA WellTyped == IInv => TypeOK
  <1> SUFFICES ASSUME IInv PROVE TypeOK
    OBVIOUS
  <1>1. /\ arrivals \in [Deliveries -> 0 .. 2] /\ starts \in [Deliveries -> 0 .. 2] /\ bodies \subseteq Deliveries
    BY DEF IInv, Arrived
  <1>2. /\ streak \in [Routines -> Streaks] /\ enabled \in [Routines -> BOOLEAN]
        /\ turnedOff \in [Routines -> BOOLEAN] /\ seen \in [Routines -> Nat]
    BY DEF IInv, Policy
  <1>3. QED
    BY <1>1, <1>2 DEF IInv, Held, Queue, Noticed, Others, TypeOK, answered

(* A delivery is one turn with its body, whatever its provider sends again and whatever restarts  *)
(* come between its arrival and its turn, for every set of routines and deliveries                *)
(* (core/scheduler.py: _receive, _start).                                                         *)
THEOREM DeliveredOnce == Spec => []DeliveriesKept
  <1>1. IInv => DeliveriesKept
    <2> SUFFICES ASSUME IInv PROVE FiredOnce /\ BodyWaits
      BY WellTyped DEF DeliveriesKept
    <2>1. \A d \in Deliveries : arrivals[d] <= 1 /\ starts[d] <= arrivals[d] /\ (d \in bodies \/ starts[d] = arrivals[d])
      BY DEF IInv, Arrived
    <2>2. QED
      BY <2>1 DEF FiredOnce, BodyWaits
  <1>2. QED
    BY Starts0, Keeps, <1>1, PTL DEF Spec

(* A notification is in the hub's outbox once, whoever raises it and whichever answers are lost,  *)
(* and the log says of none that the hub accepted it which the hub does not have                 *)
(* (plugins/notify.py: raise_recorded; hub/outbox.py: raise_notification).                       *)
THEOREM RaisedOnce == Spec => []NotifiedOnce
  <1>1. IInv => NotifiedOnce
    BY DEF IInv, Noticed, NotifiedOnce
  <1>2. QED
    BY Starts0, Keeps, <1>1, PTL DEF Spec

(* The policy turns a routine off only for as many failures in a row as it allows since its user  *)
(* turned it on again (docs/adr/0087; core/scheduler.py: _reset_failures, _handle_failures), for  *)
(* every number of routines, failures, edits and restarts.                                        *)
THEOREM StartsAfresh == Spec => FreshStart
  <1>1. IInv /\ [Next]_vars => [\A r \in Routines : ~turnedOff[r] /\ turnedOff'[r] => seen[r] >= DISABLE_AFTER]_vars
    BY PolicyStep DEF IInv
  <1>2. QED
    BY Starts0, Keeps, <1>1, PTL DEF Spec, FreshStart

=============================================================================
