-------------------------- MODULE EvaluationProofs --------------------------
(***************************************************************************)
(* Proofs about Evaluation for any tasks, turns, policies and bounds:      *)
(*   - a session that is refused stays refused while its turns are charged *)
(*     (RefusalsAreFinal);                                                 *)
(*   - the guard command predicts check_session_guard (GuardPredicts),     *)
(*     since the counters are the sums and maxima of the rows, of what the *)
(*     writer still has to commit and of what tasks still have to queue;   *)
(*   - the alarms and the final verdicts tell one story                    *)
(*     (AlarmsTellTheStory), since the reports that were broadcast or are  *)
(*     in a task's hands are one for each turn that showed a firm cause;   *)
(*   - a watch client and status stop together (StopsShared), since every  *)
(*     event of a committed turn is known to the client or still waits in  *)
(*     the task's outbox, and the coach events are those of the rows.      *)
(* And about Reports, for any readers, turns and bounds: no report is out  *)
(* of date (ReportsStayCurrent), its sections tell one story               *)
(* (EvidenceMatches, OneStory) and what is stored invents no trouble       *)
(* (HistoryIsTrue), since whatever a reader has read are the first of the  *)
(* snapshots (Sound) and whatever is stored is a report on recorded turns  *)
(* (TablesOK).                                                             *)
(***************************************************************************)
EXTENDS Evaluation, Reports, Induction, SequenceTheorems, TLAPS

Charged == [requests : Nat, priced : BOOLEAN, measures : [Rule -> Nat]]

(* What Count needs to know: the counters are counters, and a task whose   *)
(* session is upserted holds a turn.                                       *)
IInv ==
  /\ guard \in Charged
  /\ phase \in [Stream -> Phases]
  /\ turn \in [Stream -> TurnKind \cup {NoTurn}]
  /\ \A r \in Stream : phase[r] = "upserted" => turn[r] \in TurnKind

-----------------------------------------------------------------------------
(* The policy.                                                             *)

\* The rules that evidence e reaches under a policy.
Reached(policy, e) ==
  {i \in 1..8 : e.observed /\ Enforceable(e, RuleOrder[i])
     /\ Reaches(policy.block[RuleOrder[i]], e.measures[RuleOrder[i]])}

LEMMA RulesAreRules ==
  /\ \A i \in 1..8 : RuleOrder[i] \in Rule /\ RuleOrder[i] # "none"
  /\ \A i \in 1..8 : RuleOrder[i] = "cost" <=> i = 2
BY DEF Rule, RuleOrder

\* There is a block exactly if some rule is reached.
LEMMA BlockIff ==
  ASSUME NEW policy, NEW e
  PROVE  BlockOf(policy, e) # "none" <=> Reached(policy, e) # {}
<1> DEFINE reached == Reached(policy, e)
<1>1. reached \subseteq 1..8
  BY DEF Reached
<1>2. ASSUME reached # {} PROVE \E i \in reached : \A j \in reached : i <= j
  <2> HIDE DEF reached
  <2>1. \A j \in reached : j \in {1, 2, 3, 4, 5, 6, 7, 8}
    BY <1>1
  <2>2. CASE 1 \in reached
    BY <2>1, <2>2
  <2>3. CASE 1 \notin reached /\ 2 \in reached
    BY <2>1, <2>3
  <2>4. CASE {1, 2} \cap reached = {} /\ 3 \in reached
    BY <2>1, <2>4
  <2>5. CASE {1, 2, 3} \cap reached = {} /\ 4 \in reached
    BY <2>1, <2>5
  <2>6. CASE {1, 2, 3, 4} \cap reached = {} /\ 5 \in reached
    BY <2>1, <2>6
  <2>7. CASE {1, 2, 3, 4, 5} \cap reached = {} /\ 6 \in reached
    BY <2>1, <2>7
  <2>8. CASE {1, 2, 3, 4, 5, 6} \cap reached = {} /\ 7 \in reached
    BY <2>1, <2>8
  <2>9. CASE {1, 2, 3, 4, 5, 6, 7} \cap reached = {}
    BY <2>1, <2>9, <1>2
  <2> QED
    BY <2>2, <2>3, <2>4, <2>5, <2>6, <2>7, <2>8, <2>9
<1>3. BlockOf(policy, e) =
        IF reached = {} THEN "none"
        ELSE RuleOrder[CHOOSE i \in reached : \A j \in reached : i <= j]
  BY DEF BlockOf, Reached
<1>4. ASSUME reached # {} PROVE BlockOf(policy, e) # "none"
  <2>1. (CHOOSE i \in reached : \A j \in reached : i <= j) \in 1..8
    <3> HIDE DEF reached
    <3> QED BY <1>1, <1>2, <1>4
  <2> QED
    BY <2>1, <1>3, <1>4, RulesAreRules
<1> QED
  BY <1>3, <1>4

-----------------------------------------------------------------------------
(* The charge of a turn.                                                   *)

LEMMA AmountsAreNumbers ==
  ASSUME NEW t \in TurnType, NEW r \in Rule
  PROVE  Amount(t, r) \in Nat
<1>1. t.input + t.output \in Nat /\ t.cost \in Nat /\ t.fill \in Nat
      /\ t.anomalies \in Nat
  BY DEF TurnType
<1> QED
  BY <1>1 DEF Amount, Rule

\* Charging a turn lowers no measure, and restores no trust in prices.
LEMMA ChargeIsMonotone ==
  ASSUME NEW g \in Charged, NEW t \in TurnType
  PROVE  /\ Charge(g, t) \in Charged
         /\ Charge(g, t).requests > 0
         /\ Charge(g, t).priced => g.priced
         /\ \A r \in Rule : Charge(g, t).measures[r] >= g.measures[r]
<1>1. \A r \in Rule : Amount(t, r) \in Nat /\ g.measures[r] \in Nat
  BY AmountsAreNumbers DEF Charged
<1>2. g.requests \in Nat /\ g.priced \in BOOLEAN /\ t.priced \in BOOLEAN
  BY DEF Charged, TurnType
<1> DEFINE After(r) ==
      IF r \in Peaks THEN Larger(g.measures[r], Amount(t, r))
      ELSE IF r = "cost" /\ ~t.priced THEN g.measures[r]
      ELSE g.measures[r] + Amount(t, r)
<1>3. \A r \in Rule : After(r) \in Nat /\ After(r) >= g.measures[r]
  BY <1>1 DEF Larger
<1>4. /\ Charge(g, t).requests = g.requests + 1
      /\ Charge(g, t).priced = (g.priced /\ t.priced)
      /\ Charge(g, t).measures = [r \in Rule |-> After(r)]
      /\ Charge(g, t) = [requests |-> g.requests + 1, priced |-> g.priced /\ t.priced,
                         measures |-> [r \in Rule |-> After(r)]]
  BY DEF Charge
<1> HIDE DEF After
<1> QED
  BY <1>2, <1>3, <1>4 DEF Charged

-----------------------------------------------------------------------------
(* The tasks.                                                              *)

\* The counters are counters, and a task that counts holds a turn.
THEOREM CountersAreTyped == Spec => []IInv
<1>1. Init => IInv
  BY DEF Init, IInv, NoGuard, Charged, Phases
<1>2. IInv /\ [Next]_vars => IInv'
  <2> SUFFICES ASSUME IInv, [Next]_vars PROVE IInv'
    OBVIOUS
  <2> USE DEF IInv, Phases, Goto, tasks, ghosts, database, ending
  <2>1. ASSUME NEW r \in Stream, Admit(r) \/ Abandon(r) PROVE IInv'
    BY <2>1 DEF Admit, Abandon
  <2>2. ASSUME NEW r \in Stream, NEW t \in TurnKind, Upsert(r, t) PROVE IInv'
    BY <2>2 DEF Upsert
  <2>3. ASSUME NEW r \in Stream, Count(r) PROVE IInv'
    <3>1. Charge(guard, turn[r]) \in Charged
      BY <2>3, ChargeIsMonotone, TurnAssumption DEF Count
    <3> QED
      BY <2>3, <3>1 DEF Count
  <2>4. ASSUME NEW r \in Stream, Persist(r) \/ Remember(r) \/ Announce(r)
        PROVE  IInv'
    BY <2>4 DEF Persist, Remember, Announce
  <2>5. ASSUME NEW r \in Stream, Publish(r) PROVE IInv'
    BY <2>5 DEF Publish
  <2>6. CASE CommitTurn \/ CommitDiagnosis
    BY <2>6 DEF CommitTurn, CommitDiagnosis
  <2>7. CASE RemoveSession \/ TakeTurns \/ ReportEnd
    BY <2>7 DEF RemoveSession, TakeTurns, ReportEnd
  <2>8. CASE DropGuard
    BY <2>8 DEF DropGuard, NoGuard, Charged
  <2>9. CASE UNCHANGED vars
    BY <2>9 DEF vars
  <2> QED
    BY <2>1, <2>2, <2>3, <2>4, <2>5, <2>6, <2>7, <2>8, <2>9 DEF Next, Task
<1> QED
  BY <1>1, <1>2, PTL DEF Spec

\* Only a charged turn and the end of the session touch the counters.
LEMMA OnlyCountCharges ==
  ASSUME [Next]_vars, guard' # guard, monitor # "guard"
  PROVE  \E r \in Stream : Count(r)
<1> USE DEF tasks, ghosts, database, ending
<1>1. ASSUME NEW r \in Stream, Task(r) PROVE Count(r)
  BY <1>1 DEF Task, Admit, Abandon, Upsert, Persist, Remember, Announce, Publish
<1>2. ASSUME CommitTurn \/ CommitDiagnosis \/ RemoveSession \/ TakeTurns \/ ReportEnd
      PROVE FALSE
  BY <1>2 DEF CommitTurn, CommitDiagnosis, RemoveSession, TakeTurns, ReportEnd
<1>3. ~DropGuard
  BY DEF DropGuard
<1>4. CASE UNCHANGED vars
  BY <1>4 DEF vars
<1> QED
  BY <1>1, <1>2, <1>3, <1>4 DEF Next

LEMMA LimitsAreNumbers ==
  ASSUME NEW file \in PolicyFile
  PROVE  \A r \in Rule : Load(file).policy.block[r] \in Nat
BY PolicyAssumption DEF PolicyType, Load, LoadFromPath, LoadFromEnv, Understood, Limit,
                        Garbled, NoPolicy

\* Without its dollar budget a policy that limits anything is the same.
LEMMA LimitsButCost ==
  ASSUME NEW file \in PolicyFile, NEW q \in Rule, NEW r \in Rule,
         Load(file).policy.block[q] > 0,
         Load([file EXCEPT !.policy.block["cost"] = 0]).policy.block[r] > 0
  PROVE  /\ r # "cost"
         /\ Load([file EXCEPT !.policy.block["cost"] = 0]).policy.block[r]
              = Load(file).policy.block[r]
<1> DEFINE free == [file EXCEPT !.policy.block["cost"] = 0]
<1>1. /\ file \in PolicyType /\ free \in PolicyType
      /\ free.from = file.from /\ free.readable = file.readable
      /\ free.policy.warn = file.policy.warn
      /\ free.policy.block = [file.policy.block EXCEPT !["cost"] = 0]
  BY PolicyAssumption DEF PolicyType
<1>2. free.policy.block[r] = IF r = "cost" THEN 0 ELSE file.policy.block[r]
  BY <1>1 DEF PolicyType
<1> HIDE DEF free
<1>3. CASE file.from = "file"
  <2>1. Load(file).policy = file.policy
    BY <1>3 DEF Load, LoadFromPath, NoPolicy
  <2>2. Load(free).policy = free.policy
    BY <1>1, <1>3 DEF Load, LoadFromPath, NoPolicy, free
  <2> QED
    BY <1>2, <2>1, <2>2 DEF free
<1>4. CASE file.from # "file"
  <2>1. Load(file).policy.block[r] = Limit(file.policy.block[r])
    BY <1>4 DEF Load, LoadFromEnv
  <2>2. Load(free).policy.block[r] = Limit(free.policy.block[r])
    BY <1>1, <1>4 DEF Load, LoadFromEnv
  <2> QED
    BY <1>2, <2>1, <2>2 DEF Limit, free
<1> QED
  BY <1>3, <1>4

\* What the core decides is what the policy blocks.
LEMMA CoreBlockIff ==
  ASSUME NEW file, listed
  PROVE  CoreBlock(file) # "none" <=> Reached(Load(file).policy, CoreEvidence) # {}
<1>1. CoreBlock(file) = BlockOf(Load(file).policy, CoreEvidence)
  BY DEF CoreBlock, Evaluate, CoreEvidence
<1> QED
  BY <1>1, BlockIff

\* Evidence from the counters g.
EvidenceOf(g) ==
  [observed |-> g.requests > 0, priced |-> g.priced, cooldown |-> FALSE,
   measures |-> g.measures]

\* A rule that was reached is reached after a charge, unless it is the dollar
\* budget and the charge disarms it.
LEMMA ReachedStays ==
  ASSUME NEW g \in Charged, NEW t \in TurnType, NEW policy,
         \A r \in Rule : policy.block[r] \in Nat,
         NEW i \in Reached(policy, EvidenceOf(g)),
         RuleOrder[i] # "cost" \/ Charge(g, t).priced
  PROVE  i \in Reached(policy, EvidenceOf(Charge(g, t)))
<1> DEFINE h == Charge(g, t)
<1>1. h \in Charged /\ h.requests > 0 /\ \A r \in Rule : h.measures[r] >= g.measures[r]
  BY ChargeIsMonotone
<1> HIDE DEF h
<1>2. i \in 1..8 /\ RuleOrder[i] \in Rule
  BY RulesAreRules DEF Reached
<1>3. Reaches(policy.block[RuleOrder[i]], g.measures[RuleOrder[i]])
  BY DEF Reached, EvidenceOf
<1>4. g.measures[RuleOrder[i]] \in Nat /\ h.measures[RuleOrder[i]] \in Nat
  BY <1>1, <1>2 DEF Charged
<1>5. Reaches(policy.block[RuleOrder[i]], h.measures[RuleOrder[i]])
  BY <1>1, <1>2, <1>3, <1>4 DEF Reaches
<1>6. RuleOrder[i] # "cost" \/ h.priced
  BY DEF h
<1> QED
  BY <1>1, <1>2, <1>5, <1>6 DEF Reached, EvidenceOf, Enforceable, h

(* A refusal stands, whatever turns are charged after it: the counters of  *)
(* a session only grow, so only the loss of trust in its prices can disarm *)
(* a limit, and that only the dollar budget.                               *)
THEOREM RefusalsAreFinal == Spec => RefusalsStand
<1> DEFINE Stands ==
      guard' # guard /\ listed' /\ monitor # "guard" =>
        \A file \in PolicyFile :
          LET free == [file EXCEPT !.policy.block["cost"] = 0] IN
          /\ CoreBlock(file) # "none"
          /\ CoreBlock(free) # "none" \/ guard'.priced
          => CoreBlock(file)' # "none"
<1>1. IInv /\ [Next]_vars => [Stands]_guard
  <2> SUFFICES ASSUME IInv, [Next]_vars, guard' # guard, listed', monitor # "guard",
                      NEW file \in PolicyFile,
                      CoreBlock(file) # "none",
                      \/ CoreBlock([file EXCEPT !.policy.block["cost"] = 0]) # "none"
                      \/ guard'.priced
               PROVE  CoreBlock(file)' # "none"
    BY DEF Stands
  <2> DEFINE free == [file EXCEPT !.policy.block["cost"] = 0]
             policy == Load(file).policy
  <2>1. PICK r \in Stream : Count(r)
    BY OnlyCountCharges
  <2>2. /\ guard \in Charged /\ turn[r] \in TurnType
        /\ guard' = Charge(guard, turn[r]) /\ listed' = listed
    BY <2>1, TurnAssumption DEF Count, IInv
  <2>3. CoreEvidence = EvidenceOf(guard) /\ CoreEvidence' = EvidenceOf(guard')
    BY DEF CoreEvidence, EvidenceOf
  <2>4. \A q \in Rule : policy.block[q] \in Nat
    BY LimitsAreNumbers
  <2>5. \E i \in Reached(policy, EvidenceOf(guard)) :
          RuleOrder[i] # "cost" \/ guard'.priced
    <3>1. PICK i \in Reached(policy, EvidenceOf(guard)) : TRUE
      BY <2>2, <2>3, CoreBlockIff
    <3>2. CASE guard'.priced
      BY <3>1, <3>2
    <3>3. CASE CoreBlock(free) # "none"
      <4>1. PICK j \in Reached(Load(free).policy, EvidenceOf(guard)) : TRUE
        BY <2>2, <2>3, <3>3, CoreBlockIff
      <4>2. j \in 1..8 /\ RuleOrder[j] \in Rule
        BY <4>1, RulesAreRules DEF Reached
      <4>3. Load(free).policy.block[RuleOrder[j]] > 0
        BY <4>1 DEF Reached, Reaches
      <4>4. PICK k \in Reached(policy, EvidenceOf(guard)) : TRUE
        BY <2>2, <2>3, CoreBlockIff
      <4>5. policy.block[RuleOrder[k]] > 0 /\ RuleOrder[k] \in Rule
        BY <4>4, RulesAreRules DEF Reached, Reaches
      <4>6. RuleOrder[j] # "cost" /\ Load(free).policy.block[RuleOrder[j]]
                                       = policy.block[RuleOrder[j]]
        BY <4>2, <4>3, <4>5, LimitsButCost
      <4>7. j \in Reached(policy, EvidenceOf(guard))
        BY <4>1, <4>6 DEF Reached
      <4> QED
        BY <4>6, <4>7
    <3> QED
      BY <3>2, <3>3
  <2>6. PICK i \in Reached(policy, EvidenceOf(guard)) :
          RuleOrder[i] # "cost" \/ guard'.priced
    BY <2>5
  <2>7. i \in Reached(policy, EvidenceOf(guard'))
    BY <2>2, <2>4, <2>6, ReachedStays
  <2>8. CoreBlock(file)' = BlockOf(policy, EvidenceOf(guard'))
    BY <2>3 DEF CoreBlock, Evaluate, EvidenceOf
  <2> QED
    BY <2>7, <2>8, BlockIff
<1> QED
  BY <1>1, CountersAreTyped, PTL DEF Spec, RefusalsStand

-----------------------------------------------------------------------------
(* The first life of a session: until the monitor finds it idle.  What the *)
(* guard state counts is what the rows, the queue of the writer and the    *)
(* tasks between the two hold.                                             *)

Recorded == rows \o queue
Counting(x) == phase[x] = "counted"

SumOf(turns, r) == SumFunction([i \in DOMAIN turns |-> Amount(turns[i], r)])
Held(r) == SumFunction([x \in Stream |-> IF Counting(x) THEN Amount(turn[x], r) ELSE 0])

RowsOK ==
  /\ rows \in Seq(TurnKind) /\ queue \in Seq(TurnKind \cup {NoTurn})
  /\ removals \in Nat
  /\ \A x \in Stream : Counting(x) => turn[x] \in TurnKind
  /\ removals = 0 => monitor = "idle" /\ queue \in Seq(TurnKind)

SumsAgree ==
  \A r \in Rule \ Peaks :
    r # "cost" \/ guard.priced => guard.measures[r] = SumOf(Recorded, r) + Held(r)
PeaksAgree ==
  \A r \in Peaks :
    /\ \A i \in DOMAIN Recorded : Amount(Recorded[i], r) <= guard.measures[r]
    /\ \A x \in Stream : Counting(x) => Amount(turn[x], r) <= guard.measures[r]
    /\ \/ guard.measures[r] = 0
       \/ \E i \in DOMAIN Recorded : Amount(Recorded[i], r) = guard.measures[r]
       \/ \E x \in Stream : Counting(x) /\ Amount(turn[x], r) = guard.measures[r]
TrustAgrees ==
  guard.priced <=> /\ AllPriced(Recorded)
                   /\ \A x \in Stream : Counting(x) => turn[x].priced
SomeCounted ==
  guard.requests > 0 <=> Recorded # <<>> \/ \E x \in Stream : Counting(x)
ListedFirst ==
  guard.requests > 0 \/ (\E x \in Stream : phase[x] = "upserted") => listed

CountersAgree ==
  removals = 0 => SumsAgree /\ PeaksAgree /\ TrustAgrees /\ SomeCounted /\ ListedFirst

-----------------------------------------------------------------------------
LEMMA SumOfEmpty == \A r : SumOf(<<>>, r) = 0
<1> TAKE r
<1>1. PICK f : f = [i \in DOMAIN <<>> |-> Amount(<<>>[i], r)]
  OBVIOUS
<1>2. IsFiniteSet(DOMAIN f) /\ \A x \in DOMAIN f : f[x] = 0
  BY <1>1, FS_EmptySet
<1> QED BY <1>1, <1>2, SumOfZeros DEF SumOf

LEMMA TurnAmounts ==
  ASSUME NEW turns \in Seq(TurnKind), NEW r \in Rule
  PROVE  \A i \in DOMAIN turns : Amount(turns[i], r) \in Nat
BY AmountsAreNumbers, TurnAssumption

\* One more turn adds its amount.
LEMMA SumOfAppend ==
  ASSUME NEW turns \in Seq(TurnKind), NEW t \in TurnKind, NEW r \in Rule
  PROVE  /\ SumOf(turns, r) \in Nat
         /\ SumOf(Append(turns, t), r) = Amount(t, r) + SumOf(turns, r)
<1> DEFINE more == Append(turns, t)
           n == Len(turns)
<1>1. /\ more \in Seq(TurnKind) /\ n \in Nat
      /\ DOMAIN more = 1..(n + 1) /\ DOMAIN turns = 1..n
      /\ \A i \in 1..n : more[i] = turns[i]
      /\ more[n + 1] = t
  BY AppendProperties, LenProperties
<1> HIDE DEF more, n
<1>2. PICK f : f = [i \in DOMAIN more |-> Amount(more[i], r)]
  OBVIOUS
<1>3. PICK g : g = [i \in DOMAIN turns |-> Amount(turns[i], r)]
  OBVIOUS
<1>4. /\ DOMAIN f = 1..(n + 1) /\ DOMAIN g = DOMAIN f \ {n + 1} /\ n + 1 \in DOMAIN f
      /\ \A x \in DOMAIN g : g[x] = f[x]
      /\ f[n + 1] = Amount(t, r)
  BY <1>1, <1>2, <1>3
<1>5. IsFiniteSet(DOMAIN f)
  BY <1>1, <1>4, FS_Interval
<1>6. \A x \in DOMAIN f : f[x] \in Nat
  BY <1>1, <1>2, TurnAmounts
<1>7. SumFunction(g) \in Nat /\ SumFunction(f) = f[n + 1] + SumFunction(g)
  BY <1>4, <1>5, <1>6, SumWithout
<1> QED BY <1>2, <1>3, <1>4, <1>7 DEF SumOf, more

LEMMA RecordedFacts ==
  ASSUME NEW first, NEW second, NEW S, first \in Seq(S), second \in Seq(S)
  PROVE  /\ first \o second \in Seq(S)
         /\ second = <<>> => first \o second = first
         /\ first \o second = <<>> => first = <<>> /\ second = <<>>
         /\ \A t \in S : first \o Append(second, t) = Append(first \o second, t)
         /\ second # <<>> => Append(first, Head(second)) \o Tail(second) = first \o second
<1>1. first \o second \in Seq(S)
  BY ConcatProperties
<1>2. second = <<>> => first \o second = first
  BY ConcatEmptySeq
<1>3. first \o second = <<>> => first = <<>> /\ second = <<>>
  BY ConcatProperties, EmptySeq, LenProperties
<1>4. ASSUME NEW t \in S PROVE first \o Append(second, t) = Append(first \o second, t)
  OBVIOUS
<1>5. ASSUME second # <<>>
      PROVE  Append(first, Head(second)) \o Tail(second) = first \o second
  <2> DEFINE m == Len(first)
             n == Len(second)
             front == Append(first, Head(second))
             rest == Tail(second)
  <2>1. /\ Head(second) \in S /\ rest \in Seq(S) /\ Len(rest) = n - 1
        /\ \A i \in 1..Len(rest) : rest[i] = second[i + 1]
        /\ Head(second) = second[1] /\ n \in Nat /\ n # 0 /\ m \in Nat
    BY <1>5, HeadTailProperties, LenProperties, EmptySeq
  <2>2. /\ front \in Seq(S) /\ Len(front) = m + 1
        /\ \A i \in 1..m : front[i] = first[i]
        /\ front[m + 1] = second[1]
    BY <2>1, AppendProperties
  <2>3. /\ front \o rest \in Seq(S) /\ Len(front \o rest) = Len(front) + Len(rest)
        /\ \A i \in 1..(Len(front) + Len(rest)) :
             (front \o rest)[i] = IF i <= Len(front) THEN front[i] ELSE rest[i - Len(front)]
    BY <2>1, <2>2, ConcatProperties
  <2>4. /\ first \o second \in Seq(S) /\ Len(first \o second) = m + n
        /\ \A i \in 1..(m + n) :
             (first \o second)[i] = IF i <= m THEN first[i] ELSE second[i - m]
    BY ConcatProperties
  <2> HIDE DEF m, n, front, rest
  <2>5. Len(front \o rest) = Len(first \o second)
    BY <2>1, <2>2, <2>3, <2>4
  <2>6. ASSUME NEW i \in 1..(m + n) PROVE (front \o rest)[i] = (first \o second)[i]
    <3>1. CASE i <= m
      BY <2>1, <2>2, <2>3, <2>4, <3>1
    <3>2. CASE i = m + 1
      BY <2>1, <2>2, <2>3, <2>4, <3>2
    <3>3. CASE i > m + 1
      <4>1. i - (m + 1) \in 1..Len(rest) /\ (i - (m + 1)) + 1 = i - m
        BY <2>1, <3>3
      <4>2. (front \o rest)[i] = rest[i - (m + 1)]
        BY <2>1, <2>2, <2>3, <3>3
      <4>3. (first \o second)[i] = second[i - m]
        <5>1. ~(i <= m)
          BY <2>1, <3>3
        <5> QED BY <2>4, <5>1, Zenon
      <4> QED BY <2>1, <4>1, <4>2, <4>3
    <3>4. i <= m \/ i = m + 1 \/ i > m + 1
      BY <2>1
    <3> QED BY <3>1, <3>2, <3>3, <3>4
  <2>7. front \o rest = first \o second
    <3> DEFINE p == front \o rest
               q == first \o second
    <3>1. p \in Seq(S) /\ q \in Seq(S) /\ Len(p) = Len(q) /\ Len(q) = m + n
          /\ \A i \in 1..(m + n) : p[i] = q[i]
      BY <2>3, <2>4, <2>5, <2>6
    <3> HIDE DEF p, q
    <3>2. p = q
      BY <3>1, SeqEqual
    <3> QED BY <3>2 DEF p, q
  <2> QED BY <2>7 DEF front, rest
<1> QED BY <1>1, <1>2, <1>3, <1>4, <1>5

-----------------------------------------------------------------------------
(* The steps of the first life.                                            *)

LEMMA RowsInitially == Init => RowsOK /\ CountersAgree
<1> SUFFICES ASSUME Init PROVE RowsOK /\ CountersAgree
  OBVIOUS
<1>1. rows = <<>> /\ queue = <<>> /\ Recorded = <<>>
  BY DEF Init, Recorded
<1>2. \A x \in Stream : ~Counting(x) /\ phase[x] # "upserted"
  BY DEF Init, Counting
<1>3. /\ guard.requests = 0 /\ guard.priced
      /\ \A r \in Rule : guard.measures[r] = 0
  BY DEF Init, NoGuard
<1>4. \A r \in Rule : Held(r) = 0
  <2> TAKE r \in Rule
  <2>1. PICK f : f = [x \in Stream |-> IF Counting(x) THEN Amount(turn[x], r) ELSE 0]
    OBVIOUS
  <2>2. IsFiniteSet(DOMAIN f) /\ \A x \in DOMAIN f : f[x] = 0
    BY <1>2, <2>1, StreamAssumption
  <2> QED BY <2>1, <2>2, SumOfZeros DEF Held
<1>5. SumsAgree
  BY <1>1, <1>3, <1>4, SumOfEmpty DEF SumsAgree
<1>6. PeaksAgree
  BY <1>1, <1>2, <1>3 DEF PeaksAgree, Peaks, Rule, RuleOrder
<1>7. RowsOK
  BY <1>1, <1>2 DEF RowsOK, Init
<1> QED BY <1>1, <1>2, <1>3, <1>5, <1>6, <1>7
        DEF CountersAgree, TrustAgrees, AllPriced, SomeCounted, ListedFirst

\* Steps that neither charge nor record.
LEMMA CountersFrame ==
  ASSUME CountersAgree, removals' = removals, guard' = guard, Recorded' = Recorded,
         \A x \in Stream : /\ Counting(x)' <=> Counting(x)
                           /\ Counting(x) => turn'[x] = turn[x],
         removals = 0 => ListedFirst'
  PROVE  CountersAgree'
<1> SUFFICES ASSUME removals = 0 PROVE (SumsAgree /\ PeaksAgree /\ TrustAgrees /\ SomeCounted)'
  BY DEF CountersAgree
<1>1. SumsAgree /\ PeaksAgree /\ TrustAgrees /\ SomeCounted
  BY DEF CountersAgree
<1>2. ASSUME NEW r \in Rule PROVE Held(r)' = Held(r) /\ SumOf(Recorded, r)' = SumOf(Recorded, r)
  <2>1. \A x \in Stream :
          (IF Counting(x) THEN Amount(turn[x], r) ELSE 0)'
            = IF Counting(x) THEN Amount(turn[x], r) ELSE 0
    BY DEF Amount
  <2>2. [x \in Stream |-> IF Counting(x) THEN Amount(turn[x], r) ELSE 0]'
          = [x \in Stream |-> IF Counting(x) THEN Amount(turn[x], r) ELSE 0]
    BY <2>1
  <2>3. Held(r)' = Held(r)
    BY <2>2, Zenon DEF Held
  <2>4. SumOf(Recorded, r)' = SumOf(Recorded, r)
    BY DEF SumOf
  <2> QED BY <2>3, <2>4
<1>3. SumsAgree'
  BY <1>1, <1>2 DEF SumsAgree
<1>4. PeaksAgree'
  BY <1>1 DEF PeaksAgree, Amount
<1>5. TrustAgrees'
  BY <1>1 DEF TrustAgrees, AllPriced
<1>6. SomeCounted'
  BY <1>1 DEF SomeCounted
<1> QED BY <1>3, <1>4, <1>5, <1>6

\* One task begins or ceases to hold a turn that is charged but not recorded.
LEMMA HeldChanges ==
  ASSUME RowsOK, NEW r \in Stream, NEW t \in TurnKind, NEW q \in Rule,
         \A x \in Stream \ {r} : /\ Counting(x)' <=> Counting(x)
                                 /\ turn'[x] = turn[x],
         turn[r] = t, turn'[r] = t
  PROVE  /\ Held(q) \in Nat /\ Held(q)' \in Nat
         /\ ~Counting(r) /\ Counting(r)' => Held(q)' = Held(q) + Amount(t, q)
         /\ Counting(r) /\ ~Counting(r)' => Held(q) = Held(q)' + Amount(t, q)
<1>1. PICK f : f = [x \in Stream |-> IF Counting(x) THEN Amount(turn[x], q) ELSE 0]
  OBVIOUS
<1>2. PICK g : g = [x \in Stream |-> IF Counting(x) THEN Amount(turn[x], q) ELSE 0]'
  OBVIOUS
<1>3. Held(q) = SumFunction(f) /\ Held(q)' = SumFunction(g)
  BY <1>1, <1>2, Zenon DEF Held
<1>4. /\ DOMAIN f = Stream /\ DOMAIN g = Stream
      /\ \A x \in Stream \ {r} : f[x] = g[x]
      /\ f[r] = IF Counting(r) THEN Amount(t, q) ELSE 0
      /\ g[r] = IF Counting(r)' THEN Amount(t, q) ELSE 0
  BY <1>1, <1>2 DEF Amount
<1>5. Amount(t, q) \in Nat
  BY AmountsAreNumbers, TurnAssumption
<1>6. \A x \in Stream : f[x] \in Nat
  BY <1>1, AmountsAreNumbers, TurnAssumption DEF RowsOK
<1>7. \A x \in Stream : g[x] \in Nat
  BY <1>4, <1>5, <1>6
<1>8. /\ SumFunction(f) \in Nat /\ SumFunction(g) \in Nat
      /\ SumFunction(f) + g[r] = SumFunction(g) + f[r]
  BY <1>4, <1>6, <1>7, StreamAssumption, SumChanges
<1> QED BY <1>3, <1>4, <1>5, <1>8

LEMMA CountKeeps ==
  ASSUME IInv, RowsOK, CountersAgree, NEW r \in Stream, Count(r)
  PROVE  RowsOK' /\ CountersAgree'
<1> DEFINE t == turn[r]
<1>1. /\ phase[r] = "upserted" /\ guard' = Charge(guard, t) /\ t \in TurnKind
      /\ phase' = [phase EXCEPT ![r] = "counted"]
      /\ UNCHANGED <<rows, queue, turn, removals, monitor, listed>>
  BY DEF Count, Goto, IInv, database, ending, ghosts
<1>2. phase \in [Stream -> Phases]
  BY DEF IInv
<1>3. /\ \A x \in Stream \ {r} : Counting(x)' <=> Counting(x)
      /\ ~Counting(r) /\ Counting(r)'
      /\ \A x \in Stream : phase'[x] = "upserted" => phase[x] = "upserted"
  BY <1>1, <1>2 DEF Counting
<1>4. RowsOK'
  BY <1>1, <1>3 DEF RowsOK
<1>5. t \in TurnType /\ guard \in Charged
  BY <1>1, TurnAssumption DEF IInv
<1>6. /\ guard'.requests > 0
      /\ guard'.priced <=> guard.priced /\ t.priced
      /\ guard' \in Charged
      /\ \A q \in Rule : guard'.measures[q] =
           IF q \in Peaks THEN Larger(guard.measures[q], Amount(t, q))
           ELSE IF q = "cost" /\ ~t.priced THEN guard.measures[q]
           ELSE guard.measures[q] + Amount(t, q)
  <2>1. guard'.requests > 0 /\ guard' \in Charged
    BY <1>1, <1>5, ChargeIsMonotone
  <2> QED BY <1>1, <2>1 DEF Charge
<1>7. \A q \in Rule : Amount(t, q) \in Nat /\ guard.measures[q] \in Nat
  BY <1>5, AmountsAreNumbers DEF Charged
<1> SUFFICES ASSUME removals = 0
             PROVE  (SumsAgree /\ PeaksAgree /\ TrustAgrees /\ SomeCounted /\ ListedFirst)'
  BY <1>1, <1>4 DEF CountersAgree
<1>8. /\ SumsAgree /\ PeaksAgree /\ TrustAgrees /\ SomeCounted /\ ListedFirst
      /\ Recorded' = Recorded
      /\ Recorded \in Seq(TurnKind)
  BY <1>1, RecordedFacts DEF CountersAgree, Recorded, RowsOK
<1>9. ASSUME NEW q \in Rule PROVE Held(q) \in Nat /\ Held(q)' = Held(q) + Amount(t, q)
  BY <1>1, <1>3, HeldChanges
<1>10. SumsAgree'
  <2> SUFFICES ASSUME NEW q \in Rule \ Peaks, q # "cost" \/ guard'.priced
               PROVE  guard'.measures[q] = SumOf(Recorded, q)' + Held(q)'
    BY DEF SumsAgree
  <2>1. guard.measures[q] = SumOf(Recorded, q) + Held(q)
    BY <1>6, <1>8 DEF SumsAgree
  <2>2. guard'.measures[q] = guard.measures[q] + Amount(t, q)
    BY <1>6
  <2>3. SumOf(Recorded, q)' = SumOf(Recorded, q) /\ SumOf(Recorded, q) \in Nat
    BY <1>1, <1>8, SumOfAppend DEF SumOf
  <2> HIDE DEF t
  <2> QED BY <1>7, <1>9, <2>1, <2>2, <2>3
<1>11. PeaksAgree'
  <2> SUFFICES ASSUME NEW q \in Peaks
               PROVE  /\ \A i \in DOMAIN Recorded : Amount(Recorded[i], q) <= guard'.measures[q]
                      /\ \A x \in Stream : Counting(x)' => Amount(turn[x], q) <= guard'.measures[q]
                      /\ \/ guard'.measures[q] = 0
                         \/ \E i \in DOMAIN Recorded : Amount(Recorded[i], q) = guard'.measures[q]
                         \/ \E x \in Stream : Counting(x)' /\ Amount(turn[x], q) = guard'.measures[q]
    BY <1>1, <1>8 DEF PeaksAgree, Amount
  <2>1. q \in Rule
    BY DEF Peaks, Rule, RuleOrder
  <2>2. guard'.measures[q] = Larger(guard.measures[q], Amount(t, q))
    BY <1>6, <2>1
  <2>3. /\ \A i \in DOMAIN Recorded : Amount(Recorded[i], q) <= guard.measures[q]
        /\ \A x \in Stream : Counting(x) => Amount(turn[x], q) <= guard.measures[q]
        /\ \/ guard.measures[q] = 0
           \/ \E i \in DOMAIN Recorded : Amount(Recorded[i], q) = guard.measures[q]
           \/ \E x \in Stream : Counting(x) /\ Amount(turn[x], q) = guard.measures[q]
    BY <1>8 DEF PeaksAgree
  <2>4. /\ Amount(t, q) \in Nat /\ guard.measures[q] \in Nat
        /\ \A i \in DOMAIN Recorded : Amount(Recorded[i], q) \in Nat
        /\ \A x \in Stream : Counting(x) => Amount(turn[x], q) \in Nat
    BY <1>7, <1>8, <2>1, TurnAmounts, AmountsAreNumbers, TurnAssumption DEF RowsOK
  <2>5. \/ guard'.measures[q] = guard.measures[q] /\ Amount(t, q) <= guard.measures[q]
        \/ guard'.measures[q] = Amount(t, q) /\ guard.measures[q] <= Amount(t, q)
    BY <2>2, <2>4 DEF Larger
  <2> QED BY <1>3, <2>3, <2>4, <2>5
<1>12. TrustAgrees'
  BY <1>1, <1>3, <1>6, <1>8 DEF TrustAgrees, AllPriced
<1>13. SomeCounted' /\ ListedFirst'
  BY <1>1, <1>3, <1>6, <1>8 DEF SomeCounted, ListedFirst
<1> QED BY <1>10, <1>11, <1>12, <1>13

LEMMA PersistKeeps ==
  ASSUME IInv, RowsOK, CountersAgree, NEW r \in Stream, Persist(r)
  PROVE  RowsOK' /\ CountersAgree'
<1> DEFINE t == turn[r]
<1>1. /\ phase[r] = "counted" /\ queue' = Append(queue, t)
      /\ phase' = [phase EXCEPT ![r] = "queued"]
      /\ UNCHANGED <<rows, guard, turn, removals, monitor, listed>>
  BY DEF Persist, Goto, ending, ghosts
<1>2. phase \in [Stream -> Phases]
  BY DEF IInv
<1>3. /\ \A x \in Stream \ {r} : Counting(x)' <=> Counting(x)
      /\ Counting(r) /\ ~Counting(r)'
      /\ \A x \in Stream : phase'[x] = "upserted" => phase[x] = "upserted"
  BY <1>1, <1>2 DEF Counting
<1>4. t \in TurnKind
  BY <1>3 DEF RowsOK
<1>5. RowsOK'
  <2>1. queue' \in Seq(TurnKind \cup {NoTurn})
    BY <1>1, <1>4, AppendProperties DEF RowsOK
  <2>2. queue \in Seq(TurnKind) => queue' \in Seq(TurnKind)
    BY <1>1, <1>4, AppendProperties
  <2> QED BY <1>1, <1>3, <2>1, <2>2 DEF RowsOK
<1> SUFFICES ASSUME removals = 0
             PROVE  (SumsAgree /\ PeaksAgree /\ TrustAgrees /\ SomeCounted /\ ListedFirst)'
  BY <1>1, <1>5 DEF CountersAgree
<1>6. /\ SumsAgree /\ PeaksAgree /\ TrustAgrees /\ SomeCounted /\ ListedFirst
  BY DEF CountersAgree
<1>7. Recorded \in Seq(TurnKind) /\ Recorded' = Append(Recorded, t)
  BY <1>1, <1>4, RecordedFacts DEF Recorded, RowsOK
<1>8. ASSUME NEW q \in Rule
      PROVE  /\ Held(q)' \in Nat /\ Held(q) = Held(q)' + Amount(t, q) /\ Amount(t, q) \in Nat
             /\ SumOf(Recorded, q) \in Nat
             /\ SumOf(Recorded, q)' = Amount(t, q) + SumOf(Recorded, q)
  <2>1. Held(q)' \in Nat /\ Held(q) = Held(q)' + Amount(t, q)
    BY <1>1, <1>3, <1>4, HeldChanges
  <2>2. Amount(t, q) \in Nat
    BY <1>4, AmountsAreNumbers, TurnAssumption
  <2>3. /\ SumOf(Recorded, q) \in Nat
        /\ SumOf(Append(Recorded, t), q) = Amount(t, q) + SumOf(Recorded, q)
    BY <1>4, <1>7, SumOfAppend
  <2>4. SumOf(Recorded, q)' = SumOf(Append(Recorded, t), q)
    BY <1>7 DEF SumOf
  <2> QED BY <2>1, <2>2, <2>3, <2>4
<1>9. SumsAgree'
  <2> SUFFICES ASSUME NEW q \in Rule \ Peaks, q # "cost" \/ guard.priced
               PROVE  guard.measures[q] = SumOf(Recorded, q)' + Held(q)'
    BY <1>1 DEF SumsAgree
  <2>1. guard.measures[q] = SumOf(Recorded, q) + Held(q)
    BY <1>6 DEF SumsAgree
  <2> HIDE DEF t
  <2> QED BY <1>8, <2>1
<1>10. /\ DOMAIN Recorded' = DOMAIN Recorded \cup {Len(Recorded) + 1}
       /\ \A i \in DOMAIN Recorded : Recorded'[i] = Recorded[i]
       /\ Recorded'[Len(Recorded) + 1] = t /\ Recorded' # <<>>
  <2> DEFINE old == Recorded
             new == Append(old, t)
  <2>1. /\ new \in Seq(TurnKind) /\ new # <<>> /\ Len(new) = Len(old) + 1
        /\ \A i \in 1..Len(old) : new[i] = old[i]
        /\ new[Len(old) + 1] = t
    BY <1>4, <1>7, AppendProperties
  <2>2. DOMAIN old = 1..Len(old) /\ DOMAIN new = 1..Len(new) /\ Len(old) \in Nat
    BY <1>7, <2>1, LenProperties
  <2>3. Recorded' = new
    BY <1>7
  <2> HIDE DEF old, new
  <2> QED BY <2>1, <2>2, <2>3 DEF old
<1>11. PeaksAgree'
  <2> SUFFICES ASSUME NEW q \in Peaks
               PROVE  /\ \A i \in DOMAIN Recorded' : Amount(Recorded'[i], q) <= guard.measures[q]
                      /\ \A x \in Stream : Counting(x)' => Amount(turn[x], q) <= guard.measures[q]
                      /\ \/ guard.measures[q] = 0
                         \/ \E i \in DOMAIN Recorded' : Amount(Recorded'[i], q) = guard.measures[q]
                         \/ \E x \in Stream : Counting(x)' /\ Amount(turn[x], q) = guard.measures[q]
    BY <1>1 DEF PeaksAgree, Amount
  <2>1. /\ \A i \in DOMAIN Recorded : Amount(Recorded[i], q) <= guard.measures[q]
        /\ \A x \in Stream : Counting(x) => Amount(turn[x], q) <= guard.measures[q]
        /\ \/ guard.measures[q] = 0
           \/ \E i \in DOMAIN Recorded : Amount(Recorded[i], q) = guard.measures[q]
           \/ \E x \in Stream : Counting(x) /\ Amount(turn[x], q) = guard.measures[q]
    BY <1>6 DEF PeaksAgree
  <2>2. \A i \in DOMAIN Recorded' : Amount(Recorded'[i], q) <= guard.measures[q]
    BY <1>3, <1>10, <2>1
  <2>3. \A x \in Stream : Counting(x)' => Amount(turn[x], q) <= guard.measures[q]
    BY <1>3, <2>1
  <2>4. (\E i \in DOMAIN Recorded : Amount(Recorded[i], q) = guard.measures[q])
          => \E i \in DOMAIN Recorded' : Amount(Recorded'[i], q) = guard.measures[q]
    BY <1>10
  <2>5. ASSUME NEW x \in Stream, Counting(x), Amount(turn[x], q) = guard.measures[q]
        PROVE  \/ \E i \in DOMAIN Recorded' : Amount(Recorded'[i], q) = guard.measures[q]
               \/ \E y \in Stream : Counting(y)' /\ Amount(turn[y], q) = guard.measures[q]
    BY <1>3, <1>10, <2>5
  <2> QED BY <2>1, <2>2, <2>3, <2>4, <2>5
<1>12. TrustAgrees'
  <2>1. guard'.priced <=> AllPriced(Recorded) /\ \A x \in Stream : Counting(x) => turn[x].priced
    BY <1>1, <1>6 DEF TrustAgrees
  <2>2. AllPriced(Recorded)' <=> AllPriced(Recorded) /\ t.priced
    BY <1>10 DEF AllPriced
  <2>3. (\A x \in Stream : Counting(x) => turn[x].priced)
          <=> t.priced /\ \A x \in Stream : Counting(x)' => turn[x].priced
    BY <1>3
  <2> QED BY <1>1, <2>1, <2>2, <2>3 DEF TrustAgrees
<1>13. SomeCounted'
  BY <1>1, <1>3, <1>6, <1>10 DEF SomeCounted
<1>14. ListedFirst'
  BY <1>1, <1>3, <1>6 DEF ListedFirst
<1> QED BY <1>9, <1>11, <1>12, <1>13, <1>14

LEMMA OtherTasksKeep ==
  ASSUME IInv, RowsOK, CountersAgree, NEW r \in Stream,
         \/ Admit(r) \/ Abandon(r) \/ Remember(r) \/ Announce(r) \/ Publish(r)
         \/ \E t \in TurnKind : Upsert(r, t)
  PROVE  RowsOK' /\ CountersAgree'
<1> USE DEF Goto, tasks, ghosts, database, ending
<1>1. phase \in [Stream -> Phases] /\ turn \in [Stream -> TurnKind \cup {NoTurn}]
  BY DEF IInv
<1>2. UNCHANGED <<rows, queue, guard, removals, monitor>>
  BY DEF Admit, Abandon, Remember, Announce, Publish, Upsert
<1>3. \A x \in Stream : /\ Counting(x)' <=> Counting(x)
                        /\ Counting(x) => turn'[x] = turn[x]
  BY <1>1 DEF Admit, Abandon, Remember, Announce, Publish, Upsert, Counting
<1>4. RowsOK'
  BY <1>2, <1>3 DEF RowsOK
<1>5. Recorded' = Recorded
  BY <1>2 DEF Recorded
<1>6. ASSUME removals = 0 PROVE ListedFirst'
  <2>1. ListedFirst
    BY <1>6 DEF CountersAgree
  <2>2. CASE \E t \in TurnKind : Upsert(r, t)
    BY <2>2 DEF Upsert, ListedFirst
  <2>3. CASE Admit(r) \/ Abandon(r) \/ Remember(r) \/ Announce(r) \/ Publish(r)
    <3>1. \A x \in Stream : phase'[x] = "upserted" => phase[x] = "upserted"
      BY <1>1, <2>3 DEF Admit, Abandon, Remember, Announce, Publish
    <3>2. listed' = listed
      BY <2>3 DEF Admit, Abandon, Remember, Announce, Publish
    <3> QED BY <1>2, <2>1, <3>1, <3>2 DEF ListedFirst
  <2> QED BY <2>2, <2>3
<1> QED BY <1>2, <1>3, <1>4, <1>5, <1>6, CountersFrame

LEMMA WriterAndMonitorKeep ==
  ASSUME IInv, RowsOK, CountersAgree,
         \/ CommitTurn \/ CommitDiagnosis
         \/ RemoveSession \/ DropGuard \/ TakeTurns \/ ReportEnd \/ UNCHANGED vars
  PROVE  RowsOK' /\ CountersAgree'
<1> USE DEF tasks, ghosts, database, ending
<1>1. /\ rows \in Seq(TurnKind) /\ queue \in Seq(TurnKind \cup {NoTurn}) /\ removals \in Nat
      /\ removals = 0 => monitor = "idle" /\ queue \in Seq(TurnKind)
  BY DEF RowsOK
<1>2. UNCHANGED <<phase, turn>>
  BY DEF CommitTurn, CommitDiagnosis, RemoveSession, DropGuard, TakeTurns, ReportEnd, vars
<1>3. \A x \in Stream : Counting(x)' <=> Counting(x)
  BY <1>2 DEF Counting
<1>4. CASE CommitTurn
  <2> DEFINE t == Head(queue)
  <2>1. /\ queue # <<>> /\ t # NoTurn /\ queue' = Tail(queue) /\ rows' = Append(rows, t)
        /\ UNCHANGED <<guard, removals, monitor, listed>>
    BY <1>4 DEF CommitTurn
  <2>2. /\ t \in TurnKind /\ queue' \in Seq(TurnKind \cup {NoTurn})
        /\ queue \in Seq(TurnKind) => queue' \in Seq(TurnKind)
    BY <1>1, <2>1, HeadTailProperties
  <2>3. rows' \in Seq(TurnKind)
    BY <1>1, <2>1, <2>2, AppendProperties
  <2>4. RowsOK'
    BY <1>1, <1>2, <1>3, <2>1, <2>2, <2>3 DEF RowsOK
  <2>5. Recorded' = Recorded
    <3>1. rows \in Seq(TurnKind \cup {NoTurn})
      BY <1>1
    <3> DEFINE S == TurnKind \cup {NoTurn}
    <3>2. Append(rows, Head(queue)) \o Tail(queue) = rows \o queue
      <4>1. rows \in Seq(S) /\ queue \in Seq(S) /\ queue # <<>>
        BY <1>1, <2>1, <3>1
      <4> HIDE DEF S
      <4> QED BY ONLY <4>1, RecordedFacts
    <3> QED BY <2>1, <3>2 DEF Recorded
  <2>6. removals = 0 => ListedFirst'
    BY <1>2, <2>1 DEF CountersAgree, ListedFirst
  <2> HIDE DEF t
  <2> QED BY <1>2, <1>3, <2>1, <2>4, <2>5, <2>6, CountersFrame
<1>5. CASE CommitDiagnosis
  <2>1. /\ queue # <<>> /\ Head(queue) = NoTurn /\ queue' = Tail(queue)
        /\ UNCHANGED <<rows, removals, monitor>>
    BY <1>5 DEF CommitDiagnosis
  <2>2. removals # 0
    BY <1>1, <2>1, NoTurnAssumption
  <2>3. queue' \in Seq(TurnKind \cup {NoTurn})
    BY <1>1, <2>1, HeadTailProperties
  <2> QED BY <1>1, <1>2, <1>3, <2>1, <2>2, <2>3 DEF RowsOK, CountersAgree
<1>6. CASE RemoveSession
  <2>1. removals' = removals + 1 /\ UNCHANGED <<rows, queue>>
    BY <1>6 DEF RemoveSession
  <2> QED BY <1>1, <1>2, <1>3, <2>1 DEF RowsOK, CountersAgree
<1>7. CASE DropGuard \/ TakeTurns
  <2>1. monitor # "idle" /\ UNCHANGED <<rows, queue, removals>>
    BY <1>7 DEF DropGuard, TakeTurns
  <2> QED BY <1>1, <1>2, <1>3, <2>1 DEF RowsOK, CountersAgree
<1>8. CASE ReportEnd
  <2>1. monitor # "idle" /\ UNCHANGED <<rows, removals>> /\ queue' = Append(queue, NoTurn)
    BY <1>8 DEF ReportEnd
  <2>2. queue' \in Seq(TurnKind \cup {NoTurn})
    BY <1>1, <2>1, AppendProperties
  <2> QED BY <1>1, <1>2, <1>3, <2>1, <2>2 DEF RowsOK, CountersAgree
<1>9. CASE UNCHANGED vars
  <2>1. UNCHANGED <<rows, queue, guard, removals, monitor, listed>>
    BY <1>9 DEF vars
  <2>2. RowsOK' /\ Recorded' = Recorded
    BY <1>1, <1>2, <1>3, <2>1 DEF RowsOK, Recorded
  <2>3. removals = 0 => ListedFirst'
    BY <1>2, <2>1 DEF CountersAgree, ListedFirst
  <2> QED BY <1>2, <1>3, <2>1, <2>2, <2>3, CountersFrame
<1> QED BY <1>4, <1>5, <1>6, <1>7, <1>8, <1>9

LEMMA RowsStep ==
  ASSUME IInv, RowsOK, CountersAgree, [Next]_vars
  PROVE  RowsOK' /\ CountersAgree'
<1>1. ASSUME NEW r \in Stream, Task(r) PROVE RowsOK' /\ CountersAgree'
  BY <1>1, CountKeeps, PersistKeeps, OtherTasksKeep DEF Task
<1> QED BY <1>1, WriterAndMonitorKeep DEF Next

LEMMA RowsAndCounters == Spec => [](IInv /\ RowsOK /\ CountersAgree)
<1>1. IInv /\ RowsOK /\ CountersAgree /\ [Next]_vars => (RowsOK /\ CountersAgree)'
  BY RowsStep
<1> QED BY <1>1, RowsInitially, CountersAreTyped, PTL DEF Spec

-----------------------------------------------------------------------------
(* At rest.                                                                *)

LEMMA MaxIs ==
  ASSUME NEW S, IsFiniteSet(S), S \subseteq Int, NEW m \in S, \A x \in S : x <= m
  PROVE  Max(S) = m
<1>1. Max(S) \in S /\ \A y \in S : Max(S) >= y
  BY FiniteMax
<1>2. PICK n : n = Max(S)
  OBVIOUS
<1>3. n \in S /\ n >= m
  BY <1>1, <1>2
<1>4. n \in Int /\ m \in Int /\ n <= m
  BY <1>3
<1>5. n = m
  BY ONLY <1>3, <1>4
<1> QED BY <1>2, <1>5

\* The largest amount of a turn, 0 if there is none.
LEMMA PeakIs ==
  ASSUME NEW turns \in Seq(TurnKind), NEW r \in Rule, NEW m \in Nat,
         \A i \in DOMAIN turns : Amount(turns[i], r) <= m,
         m = 0 \/ \E i \in DOMAIN turns : Amount(turns[i], r) = m
  PROVE  Max({0} \cup {Amount(turns[i], r) : i \in DOMAIN turns}) = m
<1> DEFINE S == {0} \cup {Amount(turns[i], r) : i \in DOMAIN turns}
<1>1. IsFiniteSet(S)
  <2>1. PICK f : f = [i \in DOMAIN turns |-> Amount(turns[i], r)]
    OBVIOUS
  <2>2. IsFiniteSet(DOMAIN turns)
    BY LenProperties, FS_Interval
  <2> DEFINE D == DOMAIN turns
             T == {f[i] : i \in D}
  <2>3. f \in Surjection(D, T)
    BY <2>1 DEF Surjection
  <2>4. IsFiniteSet(T)
    <3> HIDE DEF T, D
    <3>1. IsFiniteSet(D)
      BY <2>2 DEF D
    <3> QED BY ONLY <2>3, <3>1, FS_Surjection
  <2>5. S = T \cup {0}
    BY <2>1
  <2> QED
    <3> HIDE DEF T, S
    <3> QED BY <2>4, <2>5, FS_AddElement
<1>2. S \subseteq Int /\ m \in S /\ \A x \in S : x <= m
  BY TurnAmounts
<1> HIDE DEF S
<1>3. Max(S) = m
  BY <1>1, <1>2, MaxIs
<1> QED BY <1>3 DEF S

LEMMA AtRestTheyAgree ==
  ASSUME IInv, RowsOK, CountersAgree, AtRest, removals = 0
  PROVE  /\ guard.requests > 0 <=> rows # <<>>
         /\ rows # <<>> => listed
         /\ guard.priced <=> AllPriced(rows)
         /\ \A r \in Rule \ Coarse : Total(rows, r) = guard.measures[r]
         /\ \A r \in Coarse :
              r # "cost" \/ guard.priced => Total(rows, r) = Rounded(guard.measures[r])
         /\ guard.measures["context"] = Max({0} \cup {rows[i].fill : i \in DOMAIN rows})
         /\ guard.measures \in [Rule -> Nat]
<1>1. /\ \A x \in Stream : ~Counting(x)
      /\ queue = <<>>
  BY DEF AtRest, Counting
<1>2. Recorded = rows /\ rows \in Seq(TurnKind)
  BY <1>1, ConcatEmptySeq DEF Recorded, RowsOK
<1>3. SumsAgree /\ PeaksAgree /\ TrustAgrees /\ SomeCounted /\ ListedFirst
  BY DEF CountersAgree
<1>4. guard.measures \in [Rule -> Nat]
  BY DEF IInv, Charged
<1>5. \A r \in Rule : Held(r) = 0
  <2> TAKE r \in Rule
  <2>1. PICK f : f = [x \in Stream |-> IF Counting(x) THEN Amount(turn[x], r) ELSE 0]
    OBVIOUS
  <2>2. IsFiniteSet(DOMAIN f) /\ \A x \in DOMAIN f : f[x] = 0
    BY <1>1, <2>1, StreamAssumption
  <2> QED BY <2>1, <2>2, SumOfZeros DEF Held
<1>6. ASSUME NEW r \in Rule \ Peaks, r # "cost" \/ guard.priced
      PROVE  Exact(rows, r) = guard.measures[r]
  <2>1. guard.measures[r] = SumOf(rows, r) + 0
    BY <1>2, <1>3, <1>5, <1>6 DEF SumsAgree
  <2>2. Exact(rows, r) = SumOf(rows, r)
    BY <1>6 DEF Exact, SumOf, Peaks
  <2>3. guard.measures[r] \in Nat /\ SumOf(rows, r) \in Nat
    <3>1. PICK t : t = SumOf(rows, r)
      OBVIOUS
    <3>2. SumOf(rows, r) \in Nat
      <4>1. PICK f : f = [i \in DOMAIN rows |-> Amount(rows[i], r)]
        OBVIOUS
      <4>2. IsFiniteSet(DOMAIN f) /\ \A i \in DOMAIN f : f[i] \in Nat
        BY <1>2, <1>6, <4>1, TurnAmounts, LenProperties, FS_Interval
      <4> QED BY <4>1, <4>2, SumIsNatural DEF SumOf, SumFunction
    <3> QED BY <1>4, <1>6, <3>2
  <2> QED BY <2>1, <2>2, <2>3
<1>7. ASSUME NEW r \in Peaks
      PROVE  Max({0} \cup {Amount(rows[i], r) : i \in DOMAIN rows}) = guard.measures[r]
  <2>1. r \in Rule
    BY DEF Peaks, Rule, RuleOrder
  <2>2. /\ guard.measures[r] \in Nat
        /\ \A i \in DOMAIN rows : Amount(rows[i], r) <= guard.measures[r]
        /\ guard.measures[r] = 0 \/ \E i \in DOMAIN rows : Amount(rows[i], r) = guard.measures[r]
    BY <1>1, <1>2, <1>3, <1>4, <2>1 DEF PeaksAgree
  <2> QED BY <1>2, <2>1, <2>2, PeakIs
<1>8. ASSUME NEW r \in Rule, r # "cost" \/ guard.priced
      PROVE  Exact(rows, r) = guard.measures[r]
  <2>1. CASE r \in Peaks
    BY <1>7, <2>1 DEF Exact
  <2> QED BY <1>6, <1>8, <2>1
<1>9. \A i \in DOMAIN rows : Amount(rows[i], "context") = rows[i].fill
  BY DEF Amount
<1>10. {Amount(rows[i], "context") : i \in DOMAIN rows} = {rows[i].fill : i \in DOMAIN rows}
  BY <1>9
<1>11. guard.measures["context"] = Max({0} \cup {rows[i].fill : i \in DOMAIN rows})
  BY <1>7, <1>10 DEF Peaks
<1>12. guard.requests > 0 <=> rows # <<>>
  BY <1>1, <1>2, <1>3 DEF SomeCounted
<1>13. guard.priced <=> AllPriced(rows)
  BY <1>1, <1>2, <1>3 DEF TrustAgrees
<1>14. rows # <<>> => listed
  BY <1>3, <1>12 DEF ListedFirst
<1>15. \A r \in Rule \ Coarse : Total(rows, r) = guard.measures[r]
  BY <1>8 DEF Total, Coarse
<1>16. \A r \in Coarse :
         r # "cost" \/ guard.priced => Total(rows, r) = Rounded(guard.measures[r])
  BY <1>8 DEF Total, Coarse, Rule, RuleOrder
<1> QED BY <1>4, <1>11, <1>12, <1>13, <1>14, <1>15, <1>16

-----------------------------------------------------------------------------
(* What is decided of it.                                                  *)

\* The block is the first rule that is reached.
LEMMA FirstReached ==
  ASSUME NEW policy, NEW e, Reached(policy, e) # {}
  PROVE  \E i \in Reached(policy, e) :
           /\ BlockOf(policy, e) = RuleOrder[i]
           /\ \A j \in Reached(policy, e) : i <= j
<1> DEFINE reached == Reached(policy, e)
<1>1. reached \subseteq Nat
  BY DEF Reached
<1>2. \E i \in reached : \A j \in reached : i <= j
  <2> HIDE DEF reached
  <2>1. reached # {}
    BY DEF reached
  <2> QED BY <1>1, <2>1, LeastNumber
<1>3. PICK i : i = CHOOSE k \in reached : \A j \in reached : k <= j
  OBVIOUS
<1>4. i \in reached /\ \A j \in reached : i <= j
  BY <1>2, <1>3
<1>5. BlockOf(policy, e) = RuleOrder[i]
  BY <1>3 DEF BlockOf, Reached
<1> QED BY <1>4, <1>5

\* The decision is the first condition of the ladder that holds.
LEMMA TheDecision ==
  ASSUME NEW f
  PROVE  \E i \in 1..21 :
           /\ Ladder(f)[i][1] /\ Decide(f) = Ladder(f)[i][2]
           /\ \A j \in 1..21 : Ladder(f)[j][1] => i <= j
<1> DEFINE ladder == Ladder(f)
           holds == {i \in DOMAIN ladder : ladder[i][1]}
<1>1. DOMAIN ladder = 1..21 /\ ladder[21][1]
  BY DEF Ladder
<1>2. Decide(f) = ladder[CHOOSE i \in holds : \A j \in holds : i <= j][2]
  BY DEF Decide
<1> HIDE DEF ladder
<1>3. holds \subseteq Nat /\ holds # {}
  BY <1>1
<1>4. \E i \in holds : \A j \in holds : i <= j
  <2> HIDE DEF holds
  <2> QED BY <1>3, LeastNumber
<1>5. PICK i : i = CHOOSE k \in holds : \A j \in holds : k <= j
  OBVIOUS
<1>6. i \in holds /\ \A j \in holds : i <= j
  BY <1>4, <1>5
<1> QED BY <1>1, <1>2, <1>5, <1>6 DEF ladder

\* The signals of a session only stop, or call for care, and not about money.
LEMMA SignalsAre ==
  ASSUME NEW events, NEW s \in Signals(events)
  PROVE  s.severity \in {"stop", "careful"} /\ s.name # "untrusted_pricing"
BY DEF Signals

LEMMA StrongestIs ==
  ASSUME NEW f, \A s \in f.signals : /\ s.severity \in {"stop", "careful"}
                                     /\ s.name # "untrusted_pricing"
  PROVE  Strongest(f) = IF \E s \in f.signals : s.severity = "stop" THEN "stop"
                        ELSE IF f.signals # {} THEN "careful" ELSE "none"
<1> DEFINE present == {i \in 1..5 : \E s \in f.signals :
                         s.severity = Severities[i] /\ Drives(s, f)}
<1>1. /\ Severities[1] = "blocked" /\ Severities[2] = "cooldown" /\ Severities[3] = "stop"
      /\ Severities[4] = "careful" /\ Severities[5] = "watching"
  BY DEF Severities
<1>2. \A s \in f.signals : Drives(s, f)
  BY DEF Drives
<1>3. Strongest(f) = IF present = {} THEN "none"
                     ELSE Severities[CHOOSE i \in present : \A j \in present : i <= j]
  BY DEF Strongest
<1>4. /\ present \subseteq {3, 4}
      /\ 3 \in present <=> \E s \in f.signals : s.severity = "stop"
      /\ 4 \in present <=> \E s \in f.signals : s.severity = "careful"
  <2>1. \A i \in 1..5 : i = 1 \/ i = 2 \/ i = 3 \/ i = 4 \/ i = 5
    OBVIOUS
  <2>2. \A i \in 1..5 : i \in present <=> \E s \in f.signals : s.severity = Severities[i]
    BY <1>2
  <2>3. present \subseteq 1..5
    OBVIOUS
  <2> HIDE DEF present
  <2>4. 1 \notin present /\ 2 \notin present /\ 5 \notin present
    BY <1>1, <2>2
  <2>5. present \subseteq {3, 4}
    BY <2>1, <2>3, <2>4
  <2> QED BY <1>1, <2>2, <2>5
<1> HIDE DEF present
<1>5. CASE 3 \in present
  <2>1. PICK c : c = CHOOSE i \in present : \A j \in present : i <= j
    OBVIOUS
  <2>2. \A j \in present : 3 <= j
    <3>1. \A j \in present : j = 3 \/ j = 4
      BY <1>4
    <3> QED BY ONLY <3>1
  <2>3. c \in present /\ \A j \in present : c <= j
    BY <1>5, <2>1, <2>2
  <2>4. c = 3
    BY <1>4, <1>5, <2>3
  <2> QED BY <1>1, <1>3, <1>4, <1>5, <2>1, <2>4
<1>6. CASE 3 \notin present /\ 4 \in present
  <2>1. PICK c : c = CHOOSE i \in present : \A j \in present : i <= j
    OBVIOUS
  <2>2. \A j \in present : 4 <= j
    <3>1. \A j \in present : j = 4
      BY <1>4, <1>6
    <3> QED BY ONLY <3>1
  <2>3. c \in present /\ \A j \in present : c <= j
    BY <1>6, <2>1, <2>2
  <2>4. c = 4
    BY <1>4, <1>6, <2>3
  <2> QED BY <1>1, <1>3, <1>4, <1>6, <2>1, <2>4
<1>7. CASE present = {}
  <2>1. f.signals = {}
    BY <1>4, <1>7
  <2> QED BY <1>3, <1>4, <1>7, <2>1
<1> QED BY <1>4, <1>5, <1>6, <1>7

\* The conditions of the ladder and what each returns.
LEMMA Rungs ==
  ASSUME NEW f
  PROVE  /\ Ladder(f)[1][1] <=> f.block
         /\ Ladder(f)[2][1] <=> f.cooldown
         /\ Ladder(f)[3][1] <=> f.unavailable
         /\ Ladder(f)[4][1] <=> f.issues # {}
         /\ Ladder(f)[5][1] <=> ~f.observed
         /\ Ladder(f)[6][1] <=> (f.turns = 0 /\ ~f.ended)
         /\ Ladder(f)[7][1] <=> Strongest(f) = "blocked"
         /\ Ladder(f)[8][1] <=> Strongest(f) = "cooldown"
         /\ Ladder(f)[9][1] <=> Strongest(f) = "stop"
         /\ Ladder(f)[10][1] <=> Strongest(f) = "careful"
         /\ Ladder(f)[11][1] <=> f.failed > 0
         /\ Ladder(f)[12][1] <=> f.incomplete > 0
         /\ Ladder(f)[13][1] <=> f.anomalies > 0
         /\ Ladder(f)[14][1] <=> f.fill >= StopContextPercent
         /\ Ladder(f)[15][1] <=> f.fill >= CarefulContextPercent
         /\ Ladder(f)[16][1] <=> f.mismatch
         /\ Ladder(f)[17][1] <=> f.unknown > 0
         /\ Ladder(f)[18][1] <=> f.ended
         /\ Ladder(f)[19][1] <=> Strongest(f) = "watching"
         /\ Ladder(f)[20][1] <=> f.estimate = "untrusted"
         /\ Ladder(f)[21][1]
<1>1. Ladder(f)[1][1] <=> f.block
  BY DEF Ladder
<1>2. Ladder(f)[2][1] <=> f.cooldown
  BY DEF Ladder
<1>3. Ladder(f)[3][1] <=> f.unavailable
  BY DEF Ladder
<1>4. Ladder(f)[4][1] <=> f.issues # {}
  BY DEF Ladder
<1>5. Ladder(f)[5][1] <=> ~f.observed
  BY DEF Ladder
<1>6. Ladder(f)[6][1] <=> (f.turns = 0 /\ ~f.ended)
  BY DEF Ladder
<1>7. Ladder(f)[7][1] <=> Strongest(f) = "blocked"
  BY DEF Ladder
<1>8. Ladder(f)[8][1] <=> Strongest(f) = "cooldown"
  BY DEF Ladder
<1>9. Ladder(f)[9][1] <=> Strongest(f) = "stop"
  BY DEF Ladder
<1>10. Ladder(f)[10][1] <=> Strongest(f) = "careful"
  BY DEF Ladder
<1>11. Ladder(f)[11][1] <=> f.failed > 0
  BY DEF Ladder
<1>12. Ladder(f)[12][1] <=> f.incomplete > 0
  BY DEF Ladder
<1>13. Ladder(f)[13][1] <=> f.anomalies > 0
  BY DEF Ladder
<1>14. Ladder(f)[14][1] <=> f.fill >= StopContextPercent
  BY DEF Ladder
<1>15. Ladder(f)[15][1] <=> f.fill >= CarefulContextPercent
  BY DEF Ladder
<1>16. Ladder(f)[16][1] <=> f.mismatch
  BY DEF Ladder
<1>17. Ladder(f)[17][1] <=> f.unknown > 0
  BY DEF Ladder
<1>18. Ladder(f)[18][1] <=> f.ended
  BY DEF Ladder
<1>19. Ladder(f)[19][1] <=> Strongest(f) = "watching"
  BY DEF Ladder
<1>20. Ladder(f)[20][1] <=> f.estimate = "untrusted"
  BY DEF Ladder
<1>21. Ladder(f)[21][1]
  BY DEF Ladder
<1> QED BY <1>1, <1>2, <1>3, <1>4, <1>5, <1>6, <1>7, <1>8, <1>9, <1>10, <1>11, <1>12,
           <1>13, <1>14, <1>15, <1>16, <1>17, <1>18, <1>19, <1>20, <1>21

LEMMA Returns ==
  ASSUME NEW f, NEW i \in 1..21
  PROVE  Ladder(f)[i][2] =
           CASE i \in {1, 7} -> "Blocked"
             [] i \in {2, 8} -> "Cooldown"
             [] i \in {9, 11, 12, 13, 14} -> "Stop"
             [] i \in {3, 5, 6, 19} -> "Watching"
             [] i \in {4, 10, 15, 16, 17, 20} -> "Careful"
             [] i \in {18} -> "Ended"
             [] OTHER -> "Healthy"
<1>1. i = 1 => Ladder(f)[i][2] = "Blocked"
  BY DEF Ladder
<1>2. i = 2 => Ladder(f)[i][2] = "Cooldown"
  BY DEF Ladder
<1>3. i = 3 => Ladder(f)[i][2] = "Watching"
  BY DEF Ladder
<1>4. i = 4 => Ladder(f)[i][2] = "Careful"
  BY DEF Ladder
<1>5. i = 5 => Ladder(f)[i][2] = "Watching"
  BY DEF Ladder
<1>6. i = 6 => Ladder(f)[i][2] = "Watching"
  BY DEF Ladder
<1>7. i = 7 => Ladder(f)[i][2] = "Blocked"
  BY DEF Ladder
<1>8. i = 8 => Ladder(f)[i][2] = "Cooldown"
  BY DEF Ladder
<1>9. i = 9 => Ladder(f)[i][2] = "Stop"
  BY DEF Ladder
<1>10. i = 10 => Ladder(f)[i][2] = "Careful"
  BY DEF Ladder
<1>11. i = 11 => Ladder(f)[i][2] = "Stop"
  BY DEF Ladder
<1>12. i = 12 => Ladder(f)[i][2] = "Stop"
  BY DEF Ladder
<1>13. i = 13 => Ladder(f)[i][2] = "Stop"
  BY DEF Ladder
<1>14. i = 14 => Ladder(f)[i][2] = "Stop"
  BY DEF Ladder
<1>15. i = 15 => Ladder(f)[i][2] = "Careful"
  BY DEF Ladder
<1>16. i = 16 => Ladder(f)[i][2] = "Careful"
  BY DEF Ladder
<1>17. i = 17 => Ladder(f)[i][2] = "Careful"
  BY DEF Ladder
<1>18. i = 18 => Ladder(f)[i][2] = "Ended"
  BY DEF Ladder
<1>19. i = 19 => Ladder(f)[i][2] = "Watching"
  BY DEF Ladder
<1>20. i = 20 => Ladder(f)[i][2] = "Careful"
  BY DEF Ladder
<1>21. i = 21 => Ladder(f)[i][2] = "Healthy"
  BY DEF Ladder
<1>22. i \in {1, 2, 3, 4, 5, 6, 7, 8, 9, 10, 11, 12, 13, 14, 15, 16, 17, 18, 19, 20, 21}
  OBVIOUS
<1> QED BY <1>1, <1>2, <1>3, <1>4, <1>5, <1>6, <1>7, <1>8, <1>9, <1>10, <1>11, <1>12,
           <1>13, <1>14, <1>15, <1>16, <1>17, <1>18, <1>19, <1>20, <1>21, <1>22

LEMMA WhenBlocked ==
  ASSUME NEW f, f.block \in BOOLEAN, Strongest(f) # "blocked"
  PROVE  Decide(f) = "Blocked" <=> f.block
<1>1. PICK i \in 1..21 :
        /\ Ladder(f)[i][1] /\ Decide(f) = Ladder(f)[i][2]
        /\ \A j \in 1..21 : Ladder(f)[j][1] => i <= j
  BY TheDecision
<1>2. CASE f.block
  <2>1. Ladder(f)[1][1] /\ Ladder(f)[1][2] = "Blocked"
    BY <1>2, Rungs, Returns
  <2>2. i <= 1
    BY <1>1, <1>2, <2>1
  <2>3. i = 1
    BY <2>2
  <2> QED BY <1>1, <1>2, <2>1, <2>3
<1>3. CASE ~f.block
  <2>1. i # 1 /\ i # 7
    <3>1. ~Ladder(f)[1][1] /\ ~Ladder(f)[7][1]
      BY <1>3, Rungs
    <3> QED BY <1>1, <3>1
  <2>2. Ladder(f)[i][2] # "Blocked"
    BY <2>1, Returns
  <2> QED BY <1>1, <1>3, <2>2
<1> QED BY <1>2, <1>3

-----------------------------------------------------------------------------
(* The guard command.                                                      *)

\* What the guard command says of the block is what its evidence reaches.
LEMMA GuardDecides ==
  ASSUME NEW file
  PROVE  Decide(GuardFacts(file)) = "Blocked"
           <=> BlockOf(Load(file).policy, RowsEvidence) # "none"
<1> DEFINE told == BlockOf(Load(file).policy, RowsEvidence)
           facts == GuardFacts(file)
<1>1. CASE rows = <<>>
  <2>1. told = "none"
    <3>1. Reached(Load(file).policy, RowsEvidence) = {}
      BY <1>1 DEF Reached, RowsEvidence
    <3> QED BY <3>1, BlockIff
  <2>2. facts = [NoFacts EXCEPT !.issues = Load(file).issues]
    BY <1>1 DEF GuardFacts
  <2>3. facts.block = FALSE /\ facts.signals = {}
    BY <2>2 DEF NoFacts
  <2> HIDE DEF facts, told
  <2>4. Strongest(facts) # "blocked" /\ facts.block \in BOOLEAN
    BY <2>3, StrongestIs
  <2>5. Decide(facts) = "Blocked" <=> facts.block
    BY ONLY <2>4, WhenBlocked
  <2> QED BY <2>1, <2>3, <2>5 DEF facts, told
<1>2. CASE rows # <<>>
  <2>1. facts = PolicyFacts(Load(file))
    BY <1>2 DEF GuardFacts
  <2>2. /\ facts.block = (Evaluate(Load(file).policy, RowsEvidence).block # "none")
        /\ facts.signals = Signals(Loaded(log))
    BY <2>1 DEF PolicyFacts, ReportFacts, NoFacts
  <2>3. Evaluate(Load(file).policy, RowsEvidence).block = told
    BY DEF Evaluate, RowsEvidence
  <2> HIDE DEF facts, told
  <2>4. Strongest(facts) # "blocked" /\ facts.block \in BOOLEAN
    BY <2>2, SignalsAre, StrongestIs
  <2>5. Decide(facts) = "Blocked" <=> facts.block
    BY ONLY <2>4, WhenBlocked
  <2> QED BY <2>2, <2>3, <2>5 DEF facts, told
<1> QED BY <1>1, <1>2

\* Two pieces of evidence that reach the same limits outside S block alike,
\* unless one of them blocks for a rule of S.
LEMMA SameBlock ==
  ASSUME NEW policy, NEW e, NEW d, NEW S, d.observed <=> e.observed, d.priced <=> e.priced,
         \A r \in Rule \ S : r # "cost" \/ e.priced =>
           (Reaches(policy.block[r], d.measures[r]) <=> Reaches(policy.block[r], e.measures[r]))
  PROVE  \/ BlockOf(policy, d) = BlockOf(policy, e)
         \/ BlockOf(policy, d) \in S \/ BlockOf(policy, e) \in S
<1> SUFFICES ASSUME BlockOf(policy, d) \notin S, BlockOf(policy, e) \notin S
             PROVE  BlockOf(policy, d) = BlockOf(policy, e)
  OBVIOUS
<1> DEFINE D == Reached(policy, d)
           E == Reached(policy, e)
<1>1. \A i \in 1..8 : RuleOrder[i] \in Rule
  BY RulesAreRules
<1>2. \A i \in 1..8 : RuleOrder[i] \notin S => (i \in D <=> i \in E)
  BY <1>1 DEF Reached, Enforceable
<1>3. D \subseteq 1..8 /\ E \subseteq 1..8
  BY DEF Reached
<1>4. ASSUME D # {}
      PROVE  \E i \in D : /\ BlockOf(policy, d) = RuleOrder[i] /\ i \in E
                          /\ \A j \in D : i <= j
  <2>1. PICK i \in D : /\ BlockOf(policy, d) = RuleOrder[i]
                       /\ \A j \in D : i <= j
    BY <1>4, FirstReached
  <2> HIDE DEF D, E
  <2> QED BY <1>2, <1>3, <2>1
<1>5. ASSUME E # {}
      PROVE  \E i \in E : /\ BlockOf(policy, e) = RuleOrder[i] /\ i \in D
                          /\ \A j \in E : i <= j
  <2>1. PICK i \in E : /\ BlockOf(policy, e) = RuleOrder[i]
                       /\ \A j \in E : i <= j
    BY <1>5, FirstReached
  <2> HIDE DEF D, E
  <2> QED BY <1>2, <1>3, <2>1
<1>6. CASE D = {} \/ E = {}
  <2>1. D = {} /\ E = {}
    <3> HIDE DEF D, E
    <3> QED BY <1>4, <1>5, <1>6
  <2>2. BlockOf(policy, d) = "none" /\ BlockOf(policy, e) = "none"
    BY <2>1, BlockIff
  <2> QED BY <2>2
<1>7. CASE D # {} /\ E # {}
  <2> HIDE DEF D, E
  <2>1. PICK i \in D : /\ BlockOf(policy, d) = RuleOrder[i] /\ i \in E
                       /\ \A j \in D : i <= j
    BY <1>4, <1>7
  <2>2. PICK j \in E : /\ BlockOf(policy, e) = RuleOrder[j] /\ j \in D
                       /\ \A k \in E : j <= k
    BY <1>5, <1>7
  <2>3. i \in Int /\ j \in Int /\ i <= j /\ j <= i
    BY <1>3, <2>1, <2>2
  <2>4. i = j
    BY ONLY <2>3
  <2> QED BY <2>1, <2>2, <2>4
<1> QED BY <1>6, <1>7

LEMMA RoundedIsNumber == \A n \in Nat : Rounded(n) \in Nat
BY DEF Rounded

LEMMA PredictedAtRest == IInv /\ RowsOK /\ CountersAgree => GuardCommandPredicts
<1> DEFINE Told(file) == Evaluate(Load(file).policy, RowsEvidence).block
           SteppedOver(limits) ==
             {r \in Coarse : (limits[r] <= guard.measures[r])
                              # (limits[r] <= Rounded(guard.measures[r]))}
           Predicted(file) ==
             /\ Decide(GuardFacts(file)) = "Blocked" <=> Told(file) # "none"
             /\ \/ Told(file) = CoreBlock(file)
                \/ \/ Told(file) \in SteppedOver(Load(file).policy.block)
                   \/ CoreBlock(file) \in SteppedOver(Load(file).policy.block)
<1>a. (AtRest /\ removals = 0 => \A file \in PolicyFile : Predicted(file))
        => GuardCommandPredicts
  BY Zenon DEF GuardCommandPredicts
<1> HIDE DEF Predicted
<1> SUFFICES ASSUME IInv, RowsOK, CountersAgree, AtRest, removals = 0,
                    NEW file \in PolicyFile
             PROVE  Predicted(file)
  BY <1>a
<1>b. PICK policy : policy = Load(file).policy
  OBVIOUS
<1>c. PICK told : told = Evaluate(policy, RowsEvidence).block
  OBVIOUS
<1>d. PICK over : over = SteppedOver(policy.block)
  OBVIOUS
<1> SUFFICES /\ Decide(GuardFacts(file)) = "Blocked" <=> told # "none"
             /\ told = CoreBlock(file) \/ told \in over \/ CoreBlock(file) \in over
  <2> HIDE DEF SteppedOver
  <2> QED BY <1>b, <1>c, <1>d DEF Predicted
<1>1. told = BlockOf(policy, RowsEvidence)
  BY <1>b, <1>c DEF Evaluate, RowsEvidence
<1>2. Decide(GuardFacts(file)) = "Blocked" <=> told # "none"
  BY <1>1, <1>b, GuardDecides
<1>3. /\ guard.requests > 0 <=> rows # <<>>
      /\ rows # <<>> => listed
      /\ guard.priced <=> AllPriced(rows)
      /\ \A r \in Rule \ Coarse : Total(rows, r) = guard.measures[r]
      /\ \A r \in Coarse :
           r # "cost" \/ guard.priced => Total(rows, r) = Rounded(guard.measures[r])
      /\ guard.measures \in [Rule -> Nat]
  BY AtRestTheyAgree
<1>4. PICK d, e : d = RowsEvidence /\ e = CoreEvidence
  OBVIOUS
<1>5. /\ d.observed <=> e.observed
      /\ d.priced <=> e.priced
  BY <1>3, <1>4 DEF RowsEvidence, CoreEvidence
<1>6. \A r \in Rule : /\ d.measures[r] = Total(rows, r)
                      /\ e.measures[r] = guard.measures[r]
  BY <1>4 DEF RowsEvidence, CoreEvidence
<1>7. e.priced <=> guard.priced
  BY <1>4 DEF CoreEvidence
<1>8. \A r \in Rule : policy.block[r] \in Nat
  BY <1>b, LimitsAreNumbers
<1>9. ASSUME NEW r \in Rule \ over, r # "cost" \/ e.priced
      PROVE  Reaches(policy.block[r], d.measures[r]) <=> Reaches(policy.block[r], e.measures[r])
  <2>1. guard.measures[r] \in Nat /\ Rounded(guard.measures[r]) \in Nat
    BY <1>3, RoundedIsNumber
  <2>2. CASE r \notin Coarse
    BY <1>3, <1>6, <2>2
  <2>3. CASE r \in Coarse
    <3>1. (policy.block[r] <= guard.measures[r])
            <=> (policy.block[r] <= Rounded(guard.measures[r]))
      BY <1>d, <1>9, <2>3
    <3>2. /\ d.measures[r] = Rounded(guard.measures[r])
          /\ e.measures[r] = guard.measures[r]
      BY <1>3, <1>6, <1>7, <1>9, <2>3
    <3>3. policy.block[r] \in Nat
      BY <1>8
    <3> HIDE DEF SteppedOver
    <3>4. PICK m, n, limit : /\ m = guard.measures[r] /\ n = Rounded(guard.measures[r])
                             /\ limit = policy.block[r]
      OBVIOUS
    <3>5. Reaches(limit, n) <=> Reaches(limit, m)
      BY <2>1, <3>1, <3>3, <3>4 DEF Reaches
    <3> QED BY <3>2, <3>4, <3>5
  <2> QED BY <2>2, <2>3
<1>10. \/ BlockOf(policy, d) = BlockOf(policy, e)
       \/ BlockOf(policy, d) \in over \/ BlockOf(policy, e) \in over
  BY <1>5, <1>9, SameBlock
<1>11. CASE listed
  <2>1. CoreBlock(file) = BlockOf(policy, e)
    BY <1>b, <1>4, <1>11 DEF CoreBlock, Evaluate, CoreEvidence
  <2> QED BY <1>1, <1>2, <1>4, <1>10, <2>1
<1>12. CASE ~listed
  <2>1. told = "none"
    <3>1. Reached(policy, RowsEvidence) = {}
      BY <1>3, <1>12 DEF Reached, RowsEvidence
    <3> QED BY <1>1, <3>1, BlockIff
  <2> QED BY <1>2, <1>12, <2>1 DEF CoreBlock
<1> QED BY <1>11, <1>12

\* The guard command predicts the core for any tasks, turns and policies: in
\* the first life of a session the counters that check_session_guard reads
\* are the sums and maxima of the rows that the report adds up, whatever the
\* order in which concurrent finalizations charged and recorded their turns,
\* so that the two can only differ at a limit which the report's rounding of
\* the dollars or of the context fill steps over.
THEOREM GuardPredicts == Spec => []GuardCommandPredicts
BY RowsAndCounters, PredictedAtRest, PTL

-----------------------------------------------------------------------------
(* Alarms: what was, or is about to be, broadcast on the turns of a life.  *)

CauseType ==
  [kind : FirmKinds \cup TurnHeuristics \cup {"low_cached_input_reuse"}, turn : Nat]
ReportType == [life : Nat, turn : Nat, causes : SUBSET CauseType]
AlarmType == [report : ReportType, final : BOOLEAN]

\* Reports(n) of the alarms a, and of the reports h that tasks in phases p hold.
Reported(a, h, p, n) ==
  {<<"sent", i>> : i \in {i \in DOMAIN a : ~a[i].final /\ a[i].report.life = n}}
  \cup {<<"held", r>> : r \in {r \in Stream : p[r] = "alarming" /\ h[r].life = n}}
ReportIn(a, h, x) == IF x[1] = "sent" THEN a[x[2]].report ELSE h[x[2]]
Told(a, h, p, n) == [x \in Reported(a, h, p, n) |-> ReportIn(a, h, x)]

\* The reports f tell the story of the turns.
Story(f, turns) ==
  LET firm == Firm(Causes(turns)) IN
  /\ \A c \in firm : \E x \in DOMAIN f : f[x].turn = c.turn
  /\ \A x \in DOMAIN f : Firm(f[x].causes) \subseteq firm
  /\ \A x \in DOMAIN f : \E c \in firm : c.turn = f[x].turn /\ c \in f[x].causes
  /\ \A x, y \in DOMAIN f : f[x].turn = f[y].turn => x = y

\* The verdict on life n is that of the reports f.
Verdicts(a, n) == {i \in DOMAIN a : a[i].final /\ a[i].report.life = n}
Follows(a, n, f) ==
  /\ Verdicts(a, n) = {} <=> DOMAIN f = {}
  /\ \A i \in Verdicts(a, n) :
       PublicDegradationTurn(a[i].report.causes) = Min({f[x].turn : x \in DOMAIN f})

AlarmTypes ==
  /\ memory \in Seq(TurnKind) /\ taken \in Seq(TurnKind) /\ life \in Nat
  /\ alarms \in Seq(AlarmType)
  /\ hand \in [Stream -> ReportType \cup {NoTurn}]
  /\ \A r \in Stream : phase[r] \in {"upserted", "counted", "queued"} => turn[r] \in TurnKind
  /\ \A r \in Stream : phase[r] = "alarming" => hand[r] \in ReportType

\* Nothing is said of a life before it begins, and no verdict before it ends.
NothingAhead ==
  /\ monitor = "report" => life > 0
  /\ \A r \in Stream : phase[r] = "alarming" => hand[r].life <= life
  /\ \A i \in DOMAIN alarms :
       /\ alarms[i].report.life <= life
       /\ alarms[i].final => /\ alarms[i].report.life < life
                             /\ monitor = "report" => alarms[i].report.life < life - 1

StoriesHold ==
  /\ Story(Told(alarms, hand, phase, life), memory)
  /\ monitor = "report" => Story(Told(alarms, hand, phase, life - 1), taken)

VerdictsHold ==
  \A n \in 0..(life - 1) : monitor # "report" \/ n # life - 1 =>
    Follows(alarms, n, Told(alarms, hand, phase, n))

AlarmsOK == AlarmTypes /\ NothingAhead /\ StoriesHold /\ VerdictsHold

-----------------------------------------------------------------------------
\* The causes that are not heuristics are those of the turns, one by one.
LEMMA FirmIs ==
  ASSUME NEW turns
  PROVE  Firm(Causes(turns)) = {c \in [kind : FirmKinds, turn : DOMAIN turns] :
                                  First(turns, c.turn, c.kind)}
<1>1. "low_cached_input_reuse" \notin FirmKinds
  BY DEF FirmKinds
<1> QED BY <1>1 DEF Firm, Causes, TurnCauses

LEMMA CausesAreTyped ==
  ASSUME NEW turns \in Seq(TurnKind)
  PROVE  Causes(turns) \subseteq CauseType
<1>1. DOMAIN turns \subseteq Nat
  OBVIOUS
<1>2. TurnCauses(turns) \subseteq CauseType
  BY <1>1 DEF TurnCauses, CauseType
<1>3. [kind |-> "low_cached_input_reuse", turn |-> 1] \in CauseType
  BY DEF CauseType
<1> QED BY <1>2, <1>3 DEF Causes

\* A new turn takes back no cause, and those it adds are its own.
LEMMA FirmOfAppend ==
  ASSUME NEW turns \in Seq(TurnKind), NEW t \in TurnKind
  PROVE  LET before == Firm(Causes(turns))
             after == Firm(Causes(Append(turns, t))) IN
         /\ before \subseteq after
         /\ \A c \in before : c.turn \in 1..Len(turns)
         /\ \A c \in after : c \in before \/ c.turn = Len(turns) + 1
<1> DEFINE before == Firm(Causes(turns))
           after == Firm(Causes(Append(turns, t)))
           more == Append(turns, t)
<1>1. /\ DOMAIN turns = 1..Len(turns) /\ DOMAIN more = 1..(Len(turns) + 1)
      /\ \A i \in 1..Len(turns) : more[i] = turns[i]
      /\ Len(turns) \in Nat
  OBVIOUS
<1> HIDE DEF more
<1>2. \A i \in 1..Len(turns) : \A kind \in FirmKinds :
        First(more, i, kind) <=> First(turns, i, kind)
  <2> TAKE i \in 1..Len(turns)
  <2> TAKE kind \in FirmKinds
  <2>1. more[i] = turns[i] /\ \A j \in 1..(i - 1) : more[j] = turns[j]
    BY <1>1
  <2> QED BY <2>1 DEF First
<1>3. before = {c \in [kind : FirmKinds, turn : 1..Len(turns)] : First(turns, c.turn, c.kind)}
  BY <1>1, FirmIs
<1>4. after = {c \in [kind : FirmKinds, turn : 1..(Len(turns) + 1)] :
                First(more, c.turn, c.kind)}
  BY <1>1, FirmIs DEF more
<1> HIDE DEF before, after
<1>5. \A i \in 1..(Len(turns) + 1) : i \in 1..Len(turns) \/ i = Len(turns) + 1
  BY <1>1
<1>6. \A i \in 1..Len(turns) : i \in 1..(Len(turns) + 1)
  BY <1>1
<1>7. ASSUME NEW c \in before PROVE c \in after /\ c.turn \in 1..Len(turns)
  <2>1. c \in [kind : FirmKinds, turn : 1..Len(turns)] /\ First(turns, c.turn, c.kind)
    BY <1>3
  <2>2. c.kind \in FirmKinds /\ c.turn \in 1..Len(turns)
    BY <2>1
  <2>3. c \in [kind : FirmKinds, turn : 1..(Len(turns) + 1)]
    BY <2>1, <1>6
  <2>4. First(more, c.turn, c.kind)
    BY <2>1, <2>2, <1>2
  <2> QED BY <2>2, <2>3, <2>4, <1>4
<1>8. ASSUME NEW c \in after, c.turn # Len(turns) + 1 PROVE c \in before
  <2>1. c \in [kind : FirmKinds, turn : 1..(Len(turns) + 1)] /\ First(more, c.turn, c.kind)
    BY <1>4
  <2>2. c.kind \in FirmKinds /\ c.turn \in 1..Len(turns)
    BY <2>1, <1>5, <1>8
  <2>3. c \in [kind : FirmKinds, turn : 1..Len(turns)]
    BY <2>1, <2>2
  <2>4. First(turns, c.turn, c.kind)
    BY <2>1, <2>2, <1>2
  <2> QED BY <2>3, <2>4, <1>3
<1> QED BY <1>7, <1>8 DEF before, after, more

LEMMA NothingShownYet == Firm(Causes(<<>>)) = {}
BY FirmIs

-----------------------------------------------------------------------------
(* Stories.                                                                *)

\* Reports under other names tell the same story.
LEMMA Renamed ==
  ASSUME NEW f, NEW g, NEW m,
         \A x \in DOMAIN f : m[x] \in DOMAIN g /\ g[m[x]] = f[x],
         \A y \in DOMAIN g : \E x \in DOMAIN f : m[x] = y
  PROVE  /\ \A turns : Story(f, turns) => Story(g, turns)
         /\ \A a, n : Follows(a, n, f) => Follows(a, n, g)
<1>1. ASSUME NEW turns, Story(f, turns) PROVE Story(g, turns)
  <2> DEFINE firm == Firm(Causes(turns))
  <2>0. /\ \A c \in firm : \E x \in DOMAIN f : f[x].turn = c.turn
        /\ \A x \in DOMAIN f : Firm(f[x].causes) \subseteq firm
        /\ \A x \in DOMAIN f : \E c \in firm : c.turn = f[x].turn /\ c \in f[x].causes
        /\ \A x, y \in DOMAIN f : f[x].turn = f[y].turn => x = y
    BY <1>1 DEF Story
  <2> HIDE DEF firm
  <2>1. \A c \in firm : \E y \in DOMAIN g : g[y].turn = c.turn
    BY <2>0
  <2>2. \A y \in DOMAIN g : Firm(g[y].causes) \subseteq firm
    BY <2>0
  <2>3. \A y \in DOMAIN g : \E c \in firm : c.turn = g[y].turn /\ c \in g[y].causes
    BY <2>0
  <2>4. \A y, z \in DOMAIN g : g[y].turn = g[z].turn => y = z
    BY <2>0
  <2> QED BY <2>1, <2>2, <2>3, <2>4 DEF Story, firm
<1>2. ASSUME NEW a, NEW n, Follows(a, n, f) PROVE Follows(a, n, g)
  <2>1. DOMAIN f = {} <=> DOMAIN g = {}
    OBVIOUS
  <2>2. {f[x].turn : x \in DOMAIN f} = {g[y].turn : y \in DOMAIN g}
    OBVIOUS
  <2> QED BY <1>2, <2>1, <2>2 DEF Follows
<1> QED BY <1>1, <1>2

LEMMA FirstStory == ASSUME NEW f, DOMAIN f = {} PROVE Story(f, <<>>)
BY NothingShownYet DEF Story

\* A turn that is no news.
LEMMA NoNews ==
  ASSUME NEW f, NEW turns \in Seq(TurnKind), NEW t \in TurnKind, Story(f, turns),
         ~\E c \in Firm(Causes(Append(turns, t))) : c.turn = Len(turns) + 1
  PROVE  Story(f, Append(turns, t))
<1>1. Firm(Causes(Append(turns, t))) = Firm(Causes(turns))
  BY FirmOfAppend
<1> QED BY <1>1 DEF Story

\* A turn that is news, and one more report, which says so.
LEMMA News ==
  ASSUME NEW f, NEW turns \in Seq(TurnKind), NEW t \in TurnKind, Story(f, turns),
         NEW g, NEW x, x \notin DOMAIN f, DOMAIN g = DOMAIN f \cup {x},
         \A y \in DOMAIN f : g[y] = f[y],
         g[x].turn = Len(turns) + 1, g[x].causes = Causes(Append(turns, t)),
         \E c \in Firm(Causes(Append(turns, t))) : c.turn = Len(turns) + 1
  PROVE  Story(g, Append(turns, t))
<1> DEFINE before == Firm(Causes(turns))
           after == Firm(Causes(Append(turns, t)))
           n == Len(turns) + 1
<1>1. /\ before \subseteq after
      /\ \A c \in before : c.turn \in 1..Len(turns)
      /\ \A c \in after : c \in before \/ c.turn = n
  BY FirmOfAppend
<1>2. \A i \in 1..Len(turns) : i # n
  OBVIOUS
<1>3. Firm(g[x].causes) = after /\ after \subseteq g[x].causes
  BY DEF Firm
<1>4. /\ \A c \in before : \E y \in DOMAIN f : f[y].turn = c.turn
      /\ \A y \in DOMAIN f : Firm(f[y].causes) \subseteq before
      /\ \A y \in DOMAIN f : \E c \in before : c.turn = f[y].turn /\ c \in f[y].causes
      /\ \A y, z \in DOMAIN f : f[y].turn = f[z].turn => y = z
  BY DEF Story
<1>5. g[x].turn = n /\ \E c \in after : c.turn = n
  OBVIOUS
<1> HIDE DEF before, after, n
<1>6. \A y \in DOMAIN f : f[y].turn # n
  BY <1>1, <1>2, <1>4
<1>7. \A c \in after : \E y \in DOMAIN g : g[y].turn = c.turn
  BY <1>1, <1>4, <1>5
<1>8. \A y \in DOMAIN g : Firm(g[y].causes) \subseteq after
  BY <1>1, <1>3, <1>4
<1>9. \A y \in DOMAIN g : \E c \in after : c.turn = g[y].turn /\ c \in g[y].causes
  BY <1>1, <1>3, <1>4, <1>5
<1>10. \A y, z \in DOMAIN g : g[y].turn = g[z].turn => y = z
  BY <1>4, <1>5, <1>6
<1> QED BY <1>7, <1>8, <1>9, <1>10 DEF Story, after

\* The verdict on the turns whose story was told.
LEMMA VerdictFollows ==
  ASSUME NEW f, NEW turns, Story(f, turns), NEW causes, causes = Causes(turns)
  PROVE  /\ Degraded(causes) <=> DOMAIN f # {}
         /\ Degraded(causes) =>
              PublicDegradationTurn(causes) = Min({f[x].turn : x \in DOMAIN f})
<1>1. Degraded(causes) <=> DOMAIN f # {}
  BY DEF Story, Degraded
<1>2. {c.turn : c \in Firm(causes)} = {f[x].turn : x \in DOMAIN f}
  BY DEF Story
<1> QED BY <1>1, <1>2 DEF PublicDegradationTurn

-----------------------------------------------------------------------------
(* What each step does to the reports.                                     *)

LEMMA NamesDiffer ==
  \A i, j : /\ <<"sent", i>> # <<"held", j>>
            /\ <<"sent", i>> = <<"sent", j>> => i = j
            /\ <<"held", i>> = <<"held", j>> => i = j
OBVIOUS

LEMMA ToldIs ==
  ASSUME NEW a, NEW h, NEW p, NEW n
  PROVE  LET f == Told(a, h, p, n) IN
         /\ DOMAIN f = Reported(a, h, p, n)
         /\ \A i : <<"sent", i>> \in DOMAIN f <=>
                    i \in DOMAIN a /\ ~a[i].final /\ a[i].report.life = n
         /\ \A r : <<"held", r>> \in DOMAIN f <=>
                    r \in Stream /\ p[r] = "alarming" /\ h[r].life = n
         /\ \A x \in DOMAIN f : (\E i : x = <<"sent", i>>) \/ (\E r : x = <<"held", r>>)
         /\ \A i : <<"sent", i>> \in DOMAIN f => f[<<"sent", i>>] = a[i].report
         /\ \A r : <<"held", r>> \in DOMAIN f => f[<<"held", r>>] = h[r]
<1> DEFINE f == Told(a, h, p, n)
<1>1. DOMAIN f = Reported(a, h, p, n)
  BY DEF Told
<1>2. \A x \in DOMAIN f : f[x] = ReportIn(a, h, x)
  BY DEF Told
<1>3. \A i : <<"sent", i>> \in Reported(a, h, p, n) <=>
            i \in DOMAIN a /\ ~a[i].final /\ a[i].report.life = n
  BY NamesDiffer DEF Reported
<1>4. \A r : <<"held", r>> \in Reported(a, h, p, n) <=>
            r \in Stream /\ p[r] = "alarming" /\ h[r].life = n
  BY NamesDiffer DEF Reported
<1>5. \A x \in Reported(a, h, p, n) :
        (\E i : x = <<"sent", i>>) \/ (\E r : x = <<"held", r>>)
  BY DEF Reported
<1>6. \A i : ReportIn(a, h, <<"sent", i>>) = a[i].report /\ ReportIn(a, h, <<"held", i>>) = h[i]
  BY DEF ReportIn
<1> HIDE DEF f
<1> QED BY <1>1, <1>2, <1>3, <1>4, <1>5, <1>6 DEF f

\* Reports are the same functions if they are the same reports.
LEMMA ToldTheSame ==
  ASSUME NEW a, NEW h, NEW p, NEW b, NEW k, NEW q, NEW n,
         \A i : /\ i \in DOMAIN a /\ ~a[i].final /\ a[i].report.life = n
                  <=> i \in DOMAIN b /\ ~b[i].final /\ b[i].report.life = n
                /\ i \in DOMAIN a /\ i \in DOMAIN b => a[i] = b[i],
         \A r \in Stream : /\ p[r] = "alarming" /\ h[r].life = n
                             <=> q[r] = "alarming" /\ k[r].life = n
                           /\ p[r] = "alarming" /\ h[r].life = n => h[r] = k[r]
  PROVE  Told(a, h, p, n) = Told(b, k, q, n)
<1>1. Reported(a, h, p, n) = Reported(b, k, q, n)
  <2>1. {i \in DOMAIN a : ~a[i].final /\ a[i].report.life = n}
          = {i \in DOMAIN b : ~b[i].final /\ b[i].report.life = n}
    OBVIOUS
  <2>2. {r \in Stream : p[r] = "alarming" /\ h[r].life = n}
          = {r \in Stream : q[r] = "alarming" /\ k[r].life = n}
    OBVIOUS
  <2> QED BY <2>1, <2>2 DEF Reported
<1>2. ASSUME NEW x \in Reported(a, h, p, n) PROVE ReportIn(a, h, x) = ReportIn(b, k, x)
  <2>1. CASE \E i \in DOMAIN a : x = <<"sent", i>> /\ ~a[i].final /\ a[i].report.life = n
    <3>1. PICK i \in DOMAIN a : x = <<"sent", i>> /\ ~a[i].final /\ a[i].report.life = n
      BY <2>1
    <3>2. a[i] = b[i]
      BY <3>1
    <3> QED BY <3>1, <3>2 DEF ReportIn
  <2>2. CASE \E r \in Stream : x = <<"held", r>> /\ p[r] = "alarming" /\ h[r].life = n
    <3>1. PICK r \in Stream : x = <<"held", r>> /\ p[r] = "alarming" /\ h[r].life = n
      BY <2>2
    <3>2. h[r] = k[r]
      BY <3>1
    <3> QED BY <3>1, <3>2 DEF ReportIn
  <2> QED BY <2>1, <2>2 DEF Reported
<1> QED BY <1>1, <1>2 DEF Told

\* Task r sends the report that it held.
Sends(a, h, p, r, b, k, q) ==
  /\ a \in Seq(AlarmType) /\ h \in [Stream -> ReportType \cup {NoTurn}]
  /\ p \in [Stream -> Phases] /\ r \in Stream
  /\ p[r] = "alarming" /\ h[r] \in ReportType
  /\ b = Append(a, [report |-> h[r], final |-> FALSE])
  /\ k = [h EXCEPT ![r] = NoTurn]
  /\ q = [p EXCEPT ![r] = "publishing"]

LEMMA SendingKeeps ==
  ASSUME NEW a, NEW h, NEW p, NEW r, NEW b, NEW k, NEW q,
         Sends(a, h, p, r, b, k, q)
  PROVE  LET new == Len(a) + 1 IN
         /\ \A i \in DOMAIN a : b[i] = a[i]
         /\ \A i : i \in DOMAIN b <=> i \in DOMAIN a \/ i = new
         /\ new \notin DOMAIN a /\ b[new].report = h[r] /\ ~b[new].final
         /\ \A m : Verdicts(b, m) = Verdicts(a, m)
<1>0. /\ a \in Seq(AlarmType) /\ h \in [Stream -> ReportType \cup {NoTurn}]
      /\ p \in [Stream -> Phases] /\ r \in Stream
      /\ p[r] = "alarming" /\ h[r] \in ReportType
      /\ b = Append(a, [report |-> h[r], final |-> FALSE])
      /\ k = [h EXCEPT ![r] = NoTurn]
      /\ q = [p EXCEPT ![r] = "publishing"]
  BY DEF Sends
<1>1. /\ DOMAIN a = 1..Len(a) /\ DOMAIN b = 1..(Len(a) + 1) /\ Len(a) \in Nat
      /\ \A i \in 1..Len(a) : b[i] = a[i]
      /\ b[Len(a) + 1] = [report |-> h[r], final |-> FALSE]
  BY <1>0
<1>2. \A i : i \in 1..(Len(a) + 1) <=> i \in 1..Len(a) \/ i = Len(a) + 1
  BY <1>1
<1>3. Len(a) + 1 \notin 1..Len(a)
  BY <1>1
<1>4. PICK new : new = Len(a) + 1
  OBVIOUS
<1>5. /\ \A i \in DOMAIN a : b[i] = a[i]
      /\ \A i : i \in DOMAIN b <=> i \in DOMAIN a \/ i = new
      /\ new \notin DOMAIN a /\ b[new].report = h[r] /\ ~b[new].final
  BY <1>1, <1>2, <1>3, <1>4
<1>6. \A m : Verdicts(b, m) = Verdicts(a, m)
  BY <1>5 DEF Verdicts
<1> QED BY <1>4, <1>5, <1>6

LEMMA SendingRenames ==
  ASSUME NEW a, NEW h, NEW p, NEW r, NEW b, NEW k, NEW q, NEW n,
         Sends(a, h, p, r, b, k, q)
  PROVE  /\ \A turns : Story(Told(a, h, p, n), turns) => Story(Told(b, k, q, n), turns)
         /\ \A c, m : Follows(c, m, Told(a, h, p, n)) => Follows(c, m, Told(b, k, q, n))
<1>0. /\ a \in Seq(AlarmType) /\ h \in [Stream -> ReportType \cup {NoTurn}]
      /\ p \in [Stream -> Phases] /\ r \in Stream
      /\ p[r] = "alarming" /\ h[r] \in ReportType
      /\ b = Append(a, [report |-> h[r], final |-> FALSE])
      /\ k = [h EXCEPT ![r] = NoTurn]
      /\ q = [p EXCEPT ![r] = "publishing"]
  BY DEF Sends
<1>4. PICK new : new = Len(a) + 1
  OBVIOUS
<1>5. /\ \A i \in DOMAIN a : b[i] = a[i]
      /\ \A i : i \in DOMAIN b <=> i \in DOMAIN a \/ i = new
      /\ new \notin DOMAIN a /\ b[new].report = h[r] /\ ~b[new].final
  BY <1>4, SendingKeeps
<1>6. \A x \in Stream : x # r => q[x] = p[x] /\ k[x] = h[x]
  BY <1>0
<1>7. q[r] # "alarming"
  BY <1>0
<1> DEFINE f == Told(a, h, p, n)
           g == Told(b, k, q, n)
           m == [x \in DOMAIN f |-> IF x = <<"held", r>> THEN <<"sent", new>> ELSE x]
<1>8. /\ \A i : <<"sent", i>> \in DOMAIN f <=>
                 i \in DOMAIN a /\ ~a[i].final /\ a[i].report.life = n
      /\ \A x : <<"held", x>> \in DOMAIN f <=>
                 x \in Stream /\ p[x] = "alarming" /\ h[x].life = n
      /\ \A x \in DOMAIN f : (\E i : x = <<"sent", i>>) \/ (\E y : x = <<"held", y>>)
      /\ \A i : <<"sent", i>> \in DOMAIN f => f[<<"sent", i>>] = a[i].report
      /\ \A x : <<"held", x>> \in DOMAIN f => f[<<"held", x>>] = h[x]
  BY ToldIs
<1>9. /\ \A i : <<"sent", i>> \in DOMAIN g <=>
                 i \in DOMAIN b /\ ~b[i].final /\ b[i].report.life = n
      /\ \A x : <<"held", x>> \in DOMAIN g <=>
                 x \in Stream /\ q[x] = "alarming" /\ k[x].life = n
      /\ \A x \in DOMAIN g : (\E i : x = <<"sent", i>>) \/ (\E y : x = <<"held", y>>)
      /\ \A i : <<"sent", i>> \in DOMAIN g => g[<<"sent", i>>] = b[i].report
      /\ \A x : <<"held", x>> \in DOMAIN g => g[<<"held", x>>] = k[x]
  BY ONLY ToldIs
<1> HIDE DEF f, g
<1>10. \A x \in DOMAIN f : m[x] = IF x = <<"held", r>> THEN <<"sent", new>> ELSE x
  OBVIOUS
<1> HIDE DEF m
<1>11. ASSUME NEW x \in DOMAIN f PROVE m[x] \in DOMAIN g /\ g[m[x]] = f[x]
  <2>1. CASE x = <<"held", r>>
    <3>1. m[x] = <<"sent", new>> /\ h[r].life = n /\ f[x] = h[r]
      BY <1>0, <1>8, <1>10, <2>1
    <3> QED BY <1>5, <1>9, <3>1
  <2>2. CASE x # <<"held", r>>
    <3>1. m[x] = x
      BY <1>10, <2>2
    <3>2. CASE \E i : x = <<"sent", i>>
      <4>1. PICK i : x = <<"sent", i>>
        BY <3>2
      <4> QED BY <1>5, <1>8, <1>9, <3>1, <4>1
    <3>3. CASE \E y : x = <<"held", y>>
      <4>1. PICK y : x = <<"held", y>>
        BY <3>3
      <4>2. y # r
        BY <2>2, <4>1
      <4> QED BY <1>6, <1>8, <1>9, <3>1, <4>1, <4>2
    <3> QED BY <1>8, <3>2, <3>3
  <2> QED BY <2>1, <2>2
<1>12. ASSUME NEW y \in DOMAIN g PROVE \E x \in DOMAIN f : m[x] = y
  <2>1. CASE y = <<"sent", new>>
    <3>1. h[r].life = n
      BY <1>5, <1>9, <2>1
    <3>2. <<"held", r>> \in DOMAIN f
      BY <1>0, <1>8, <3>1
    <3> QED BY <1>10, <2>1, <3>2
  <2>2. CASE y # <<"sent", new>> /\ \E i : y = <<"sent", i>>
    <3>1. PICK i : y = <<"sent", i>>
      BY <2>2
    <3>2. i \in DOMAIN a
      BY <1>5, <1>9, <2>2, <3>1
    <3>3. y \in DOMAIN f
      BY <1>5, <1>8, <1>9, <3>1, <3>2
    <3> QED BY <1>10, <3>1, <3>3, NamesDiffer
  <2>3. CASE \E x : y = <<"held", x>>
    <3>1. PICK x : y = <<"held", x>>
      BY <2>3
    <3>2. x \in Stream /\ x # r
      BY <1>7, <1>9, <3>1
    <3>3. y \in DOMAIN f
      BY <1>6, <1>8, <1>9, <3>1, <3>2
    <3>4. y # <<"held", r>>
      BY <3>1, <3>2, NamesDiffer
    <3> QED BY <1>10, <3>3, <3>4
  <2> QED BY <1>9, <2>1, <2>2, <2>3
<1>13. /\ \A turns : Story(f, turns) => Story(g, turns)
       /\ \A c, x : Follows(c, x, f) => Follows(c, x, g)
  BY <1>11, <1>12, Renamed
<1> QED BY <1>13 DEF f, g

-----------------------------------------------------------------------------
(* Steps.                                                                  *)

LEMMA AlarmsInitially == Init => AlarmsOK
<1> SUFFICES ASSUME Init PROVE AlarmsOK
  OBVIOUS
<1>1. AlarmTypes /\ NothingAhead
  BY DEF Init, AlarmTypes, NothingAhead
<1>2. \A n : DOMAIN Told(alarms, hand, phase, n) = {}
  <2>1. \A n : Reported(alarms, hand, phase, n) = {}
    BY DEF Init, Reported
  <2> QED BY <2>1, ToldIs
<1>3. StoriesHold
  BY <1>2, FirstStory DEF Init, StoriesHold
<1>4. VerdictsHold
  BY DEF Init, VerdictsHold
<1> QED BY <1>1, <1>3, <1>4 DEF AlarmsOK

\* A step that neither remembers, announces nor ends a life.
LEMMA AlarmsFrame ==
  ASSUME AlarmsOK, UNCHANGED <<alarms, hand, memory, taken, life>>,
         monitor' = "report" <=> monitor = "report",
         \A r \in Stream : phase'[r] = "alarming" <=> phase[r] = "alarming",
         \A r \in Stream : phase'[r] \in {"upserted", "counted", "queued"}
                            => turn'[r] \in TurnKind
  PROVE  AlarmsOK'
<1>1. \A n : Told(alarms, hand, phase', n) = Told(alarms, hand, phase, n)
  BY ToldTheSame
<1>2. AlarmTypes' /\ NothingAhead'
  BY DEF AlarmsOK, AlarmTypes, NothingAhead
<1>3. StoriesHold'
  BY <1>1 DEF AlarmsOK, StoriesHold
<1>4. VerdictsHold'
  BY <1>1 DEF AlarmsOK, VerdictsHold
<1> QED BY <1>2, <1>3, <1>4 DEF AlarmsOK

LEMMA AnnounceTells ==
  ASSUME IInv, AlarmsOK, NEW r \in Stream, Announce(r)
  PROVE  AlarmsOK'
<1>1. /\ alarms' = Append(alarms, [report |-> hand[r], final |-> FALSE])
      /\ hand' = [hand EXCEPT ![r] = NoTurn]
      /\ phase' = [phase EXCEPT ![r] = "publishing"]
      /\ phase[r] = "alarming"
      /\ UNCHANGED <<memory, taken, life, monitor, turn>>
  BY DEF Announce, Goto, ending, ghosts
<1>2. /\ alarms \in Seq(AlarmType) /\ hand \in [Stream -> ReportType \cup {NoTurn}]
      /\ hand[r] \in ReportType /\ phase \in [Stream -> Phases]
      /\ hand[r].life <= life
  BY <1>1 DEF AlarmsOK, AlarmTypes, NothingAhead, IInv
<1>3. ASSUME NEW n
      PROVE  /\ \A turns : Story(Told(alarms, hand, phase, n), turns)
                           => Story(Told(alarms', hand', phase', n), turns)
             /\ \A c, m : Follows(c, m, Told(alarms, hand, phase, n))
                          => Follows(c, m, Told(alarms', hand', phase', n))
             /\ \A m : Verdicts(alarms', m) = Verdicts(alarms, m)
             /\ \A i \in DOMAIN alarms : alarms'[i] = alarms[i]
  <2>1. PICK a, h, p : a = alarms /\ h = hand /\ p = phase
    OBVIOUS
  <2>2. PICK b, k, q : b = alarms' /\ k = hand' /\ q = phase'
    OBVIOUS
  <2>3. Sends(a, h, p, r, b, k, q)
    BY <1>1, <1>2, <2>1, <2>2 DEF Sends
  <2>4. \A turns : Story(Told(a, h, p, n), turns) => Story(Told(b, k, q, n), turns)
    BY <2>3, SendingRenames
  <2>5. \A c, m : Follows(c, m, Told(a, h, p, n)) => Follows(c, m, Told(b, k, q, n))
    BY <2>3, SendingRenames
  <2>6. \A m : Verdicts(b, m) = Verdicts(a, m)
    BY <2>3, SendingKeeps
  <2>7. \A i \in DOMAIN a : b[i] = a[i]
    BY <2>3, SendingKeeps
  <2> QED BY <2>1, <2>2, <2>4, <2>5, <2>6, <2>7
<1>4. AlarmTypes'
  <2>1. [report |-> hand[r], final |-> FALSE] \in AlarmType
    BY <1>2 DEF AlarmType
  <2>2. alarms' \in Seq(AlarmType)
    BY <1>1, <1>2, <2>1
  <2>3. hand' \in [Stream -> ReportType \cup {NoTurn}]
    BY <1>1, <1>2
  <2>4. \A x \in Stream : /\ phase'[x] = "alarming" => hand'[x] \in ReportType
                          /\ phase'[x] \in {"upserted", "counted", "queued"}
                               => turn'[x] \in TurnKind
    BY <1>1, <1>2 DEF AlarmsOK, AlarmTypes
  <2> QED BY <1>1, <2>2, <2>3, <2>4 DEF AlarmsOK, AlarmTypes
<1>5. NothingAhead'
  <2>1. \A x \in Stream : phase'[x] = "alarming" => hand'[x].life <= life
    BY <1>1, <1>2 DEF AlarmsOK, NothingAhead
  <2>2. \A i \in DOMAIN alarms' :
          \/ i \in DOMAIN alarms /\ alarms'[i] = alarms[i]
          \/ alarms'[i].report.life <= life /\ ~alarms'[i].final
    BY <1>1, <1>2
  <2> QED BY <1>1, <2>1, <2>2 DEF AlarmsOK, NothingAhead
<1>6. StoriesHold'
  BY <1>1, <1>3 DEF AlarmsOK, StoriesHold
<1>7. VerdictsHold'
  <2>1. \A m, f : Follows(alarms, m, f) => Follows(alarms', m, f)
    <3> TAKE m, f
    <3>1. Verdicts(alarms', m) = Verdicts(alarms, m)
      BY <1>3
    <3>2. \A i \in Verdicts(alarms, m) : alarms'[i] = alarms[i]
      BY <1>3 DEF Verdicts
    <3> QED BY <3>1, <3>2 DEF Follows
  <2> QED BY <1>1, <1>3, <2>1 DEF AlarmsOK, VerdictsHold
<1> QED BY <1>4, <1>5, <1>6, <1>7 DEF AlarmsOK

LEMMA RememberTells ==
  ASSUME IInv, AlarmsOK, NEW r \in Stream, Remember(r)
  PROVE  AlarmsOK'
<1> DEFINE more == Append(memory, turn[r])
           report == [life |-> life, turn |-> Len(more), causes |-> Causes(more)]
<1>1. /\ phase[r] = "queued" /\ memory' = more
      /\ UNCHANGED <<alarms, taken, life, monitor, turn>>
      /\ IF \E c \in Firm(Causes(more)) : c.turn = Len(more)
           THEN /\ phase' = [phase EXCEPT ![r] = "alarming"]
                /\ hand' = [hand EXCEPT ![r] = report]
           ELSE /\ phase' = [phase EXCEPT ![r] = "publishing"]
                /\ hand' = hand
  BY DEF Remember, Goto, ending, ghosts
<1>2. /\ memory \in Seq(TurnKind) /\ turn[r] \in TurnKind /\ life \in Nat
      /\ hand \in [Stream -> ReportType \cup {NoTurn}] /\ phase \in [Stream -> Phases]
  BY <1>1 DEF AlarmsOK, AlarmTypes, IInv
<1>3. /\ more \in Seq(TurnKind) /\ Len(more) = Len(memory) + 1 /\ Len(memory) \in Nat
  BY <1>2
<1>4. report \in ReportType
  <2>1. Causes(more) \subseteq CauseType
    BY <1>3, CausesAreTyped
  <2> HIDE DEF more
  <2> QED BY <1>2, <1>3, <2>1 DEF ReportType
<1>5. /\ report.life = life /\ report.turn = Len(memory) + 1 /\ report.causes = Causes(more)
  BY <1>3
<1> HIDE DEF more, report
<1>6. \A x \in Stream : x # r => hand'[x] = hand[x] /\ phase'[x] = phase[x]
  BY <1>1, <1>2
<1>7. /\ phase'[r] \in {"alarming", "publishing"}
      /\ phase'[r] = "alarming" => hand'[r] = report
  BY <1>1, <1>2
<1>8. AlarmTypes'
  <2>1. hand' \in [Stream -> ReportType \cup {NoTurn}]
    BY <1>1, <1>2, <1>4
  <2>2. \A x \in Stream : /\ phase'[x] = "alarming" => hand'[x] \in ReportType
                          /\ phase'[x] \in {"upserted", "counted", "queued"}
                               => turn'[x] \in TurnKind
    BY <1>1, <1>4, <1>6, <1>7 DEF AlarmsOK, AlarmTypes
  <2> QED BY <1>1, <1>3, <2>1, <2>2 DEF AlarmsOK, AlarmTypes
<1>9. NothingAhead'
  <2>1. \A x \in Stream : phase'[x] = "alarming" => hand'[x].life <= life
    BY <1>2, <1>5, <1>6, <1>7 DEF AlarmsOK, NothingAhead
  <2> QED BY <1>1, <2>1 DEF AlarmsOK, NothingAhead
\* The reports on the lives before are the same.
<1>10. ASSUME NEW n, n # life
       PROVE  Told(alarms, hand', phase', n) = Told(alarms, hand, phase, n)
  <2>1. \A x \in Stream : /\ phase[x] = "alarming" /\ hand[x].life = n
                             <=> phase'[x] = "alarming" /\ hand'[x].life = n
                          /\ phase[x] = "alarming" /\ hand[x].life = n => hand[x] = hand'[x]
    BY <1>1, <1>5, <1>6, <1>7, <1>10
  <2> QED BY <2>1, ToldTheSame
<1>11. Story(Told(alarms, hand', phase', life), more)
  <2>1. PICK f : f = Told(alarms, hand, phase, life)
    OBVIOUS
  <2>2. PICK g : g = Told(alarms, hand', phase', life)
    OBVIOUS
  <2>3. Story(f, memory)
    BY <2>1 DEF AlarmsOK, StoriesHold
  <2>4. CASE \E c \in Firm(Causes(more)) : c.turn = Len(more)
    <3>1. phase'[r] = "alarming" /\ hand'[r] = report
      BY <1>1, <1>2, <2>4
    <3>2. <<"held", r>> \notin DOMAIN f
      BY <1>1, <2>1, ToldIs
    <3>3. <<"held", r>> \in DOMAIN g /\ g[<<"held", r>>] = report
      BY <1>5, <2>2, <3>1, ToldIs
    <3>4. ASSUME NEW x \in DOMAIN f PROVE x \in DOMAIN g /\ g[x] = f[x]
      <4>1. CASE \E i : x = <<"sent", i>>
        BY <2>1, <2>2, <4>1, ToldIs
      <4>2. CASE \E y : x = <<"held", y>>
        <5>1. PICK y : x = <<"held", y>>
          BY <4>2
        <5>2. y \in Stream /\ phase[y] = "alarming" /\ hand[y].life = life /\ f[x] = hand[y]
          BY <2>1, <5>1, ToldIs
        <5>3. phase'[y] = "alarming" /\ hand'[y] = hand[y]
          BY <1>1, <1>6, <5>2
        <5> QED BY <2>2, <5>1, <5>2, <5>3, ToldIs
      <4> QED BY <2>1, <4>1, <4>2, ToldIs
    <3>5. ASSUME NEW x \in DOMAIN g, x # <<"held", r>> PROVE x \in DOMAIN f
      <4>1. CASE \E i : x = <<"sent", i>>
        BY <2>1, <2>2, <4>1, ToldIs
      <4>2. CASE \E y : x = <<"held", y>>
        <5>1. PICK y : x = <<"held", y>>
          BY <4>2
        <5>2. y \in Stream /\ phase'[y] = "alarming" /\ hand'[y].life = life /\ y # r
          BY <2>2, <3>5, <5>1, ToldIs
        <5>3. phase[y] = "alarming" /\ hand'[y] = hand[y]
          BY <1>6, <5>2
        <5> QED BY <2>1, <5>1, <5>2, <5>3, ToldIs
      <4> QED BY <2>2, <4>1, <4>2, ToldIs
    <3>6. DOMAIN g = DOMAIN f \cup {<<"held", r>>}
      BY <3>3, <3>4, <3>5
    <3>7. Story(g, Append(memory, turn[r]))
      <4>1. \E c \in Firm(Causes(Append(memory, turn[r]))) : c.turn = Len(memory) + 1
        BY <1>3, <2>4 DEF more
      <4>2. g[<<"held", r>>].turn = Len(memory) + 1
            /\ g[<<"held", r>>].causes = Causes(Append(memory, turn[r]))
        BY <1>5, <3>3 DEF more
      <4> QED BY <1>2, <2>3, <3>2, <3>4, <3>6, <4>1, <4>2, News
    <3> QED BY <2>2, <3>7 DEF more
  <2>5. CASE ~\E c \in Firm(Causes(more)) : c.turn = Len(more)
    <3>1. phase'[r] = "publishing" /\ hand' = hand
      BY <1>1, <1>2, <2>5
    <3>2. \A x \in Stream : phase[x] = "alarming" <=> phase'[x] = "alarming"
      BY <1>1, <1>6, <3>1
    <3>3. g = f
      BY <2>1, <2>2, <3>1, <3>2, ToldTheSame
    <3>4. ~\E c \in Firm(Causes(Append(memory, turn[r]))) : c.turn = Len(memory) + 1
      BY <1>3, <2>5 DEF more
    <3>5. Story(f, Append(memory, turn[r]))
      BY <1>2, <2>3, <3>4, NoNews
    <3> QED BY <2>2, <3>3, <3>5 DEF more
  <2> QED BY <2>4, <2>5
<1>12. StoriesHold'
  <2>1. monitor = "report" => life - 1 # life
    BY <1>2
  <2>2. monitor = "report" => Story(Told(alarms, hand', phase', life - 1), taken)
    BY <1>10, <2>1 DEF AlarmsOK, StoriesHold
  <2> QED BY <1>1, <1>11, <2>2 DEF StoriesHold
<1>13. VerdictsHold'
  <2>1. \A n \in 0..(life - 1) : n # life
    BY <1>2
  <2>2. \A n \in 0..(life - 1) : monitor # "report" \/ n # life - 1 =>
          Follows(alarms, n, Told(alarms, hand', phase', n))
    BY <1>10, <2>1 DEF AlarmsOK, VerdictsHold
  <2> QED BY <1>1, <2>2 DEF VerdictsHold
<1> QED BY <1>8, <1>9, <1>12, <1>13 DEF AlarmsOK

LEMMA LivesAreNumbers ==
  ASSUME AlarmsOK
  PROVE  /\ \A i \in DOMAIN alarms : alarms[i].report.life \in Nat
         /\ \A r \in Stream : phase[r] = "alarming" => hand[r].life \in Nat
<1>1. alarms \in Seq(AlarmType) /\ \A r \in Stream : phase[r] = "alarming" => hand[r] \in ReportType
  BY DEF AlarmsOK, AlarmTypes
<1>2. \A i \in DOMAIN alarms : alarms[i] \in AlarmType
  BY <1>1
<1>3. /\ \A x \in ReportType : x.life \in Nat
      /\ \A x \in AlarmType : x.report \in ReportType
  BY DEF AlarmType, ReportType
<1> QED BY <1>1, <1>2, <1>3

LEMMA TakeTurnsTells ==
  ASSUME IInv, AlarmsOK, TakeTurns
  PROVE  AlarmsOK'
<1>1. /\ monitor = "turns" /\ memory' = <<>> /\ taken' = memory
      /\ UNCHANGED <<alarms, hand, phase, turn>>
      /\ IF memory = <<>> THEN monitor' = "idle" /\ life' = life
                         ELSE monitor' = "report" /\ life' = life + 1
  BY DEF TakeTurns, tasks
<1>2. life \in Nat
  BY DEF AlarmsOK, AlarmTypes
<1>3. AlarmTypes'
  BY <1>1, <1>2 DEF AlarmsOK, AlarmTypes
<1>4. NothingAhead'
  <2>1. \A i \in DOMAIN alarms : alarms[i].report.life \in Nat
    BY LivesAreNumbers
  <2>2. \A r \in Stream : phase[r] = "alarming" => hand[r].life \in Nat
    BY LivesAreNumbers
  <2>3. life' >= life /\ (monitor' = "report" => life' - 1 = life /\ life' > 0)
    BY <1>1, <1>2
  <2>4. \A r \in Stream : phase[r] = "alarming" => hand[r].life <= life'
    BY <1>1, <1>2, <2>2, <2>3 DEF AlarmsOK, NothingAhead
  <2>5. \A i \in DOMAIN alarms :
          /\ alarms[i].report.life <= life'
          /\ alarms[i].final => /\ alarms[i].report.life < life'
                                /\ monitor' = "report" => alarms[i].report.life < life' - 1
    BY <1>1, <1>2, <2>1, <2>3 DEF AlarmsOK, NothingAhead
  <2> QED BY <1>1, <2>3, <2>4, <2>5 DEF NothingAhead
<1>5. CASE memory = <<>>
  <2>1. StoriesHold'
    BY <1>1, <1>5 DEF AlarmsOK, StoriesHold
  <2>2. VerdictsHold'
    BY <1>1, <1>5 DEF AlarmsOK, VerdictsHold
  <2> QED BY <1>3, <1>4, <2>1, <2>2 DEF AlarmsOK
<1>6. CASE memory # <<>>
  <2>0. life' = life + 1 /\ monitor' = "report" /\ life' - 1 = life
    BY <1>1, <1>2, <1>6
  <2>1. Reported(alarms, hand, phase, life + 1) = {}
    <3>1. \A i \in DOMAIN alarms : alarms[i].report.life # life + 1
      BY <1>2, LivesAreNumbers DEF AlarmsOK, NothingAhead
    <3>2. \A r \in Stream : phase[r] = "alarming" => hand[r].life # life + 1
      BY <1>2, LivesAreNumbers DEF AlarmsOK, NothingAhead
    <3> QED BY <3>1, <3>2 DEF Reported
  <2>2. Story(Told(alarms, hand, phase, life + 1), <<>>)
    BY <2>1, ToldIs, FirstStory
  <2>3. StoriesHold'
    BY <1>1, <2>0, <2>2 DEF AlarmsOK, StoriesHold
  <2>4. \A n \in 0..(life' - 1) : n # life' - 1 => n \in 0..(life - 1)
    BY <1>2, <2>0
  <2>5. VerdictsHold'
    BY <1>1, <2>0, <2>4 DEF AlarmsOK, VerdictsHold
  <2> QED BY <1>3, <1>4, <2>3, <2>5 DEF AlarmsOK
<1> QED BY <1>5, <1>6

LEMMA ReportEndTells ==
  ASSUME IInv, AlarmsOK, ReportEnd
  PROVE  AlarmsOK'
<1> DEFINE causes == Causes(taken)
           verdict == [final |-> TRUE, report |-> [life |-> life - 1, turn |-> Len(taken),
                                                   causes |-> causes]]
<1>1. /\ monitor = "report" /\ monitor' = "idle" /\ taken' = <<>>
      /\ alarms' = IF Degraded(causes) THEN Append(alarms, verdict) ELSE alarms
      /\ UNCHANGED <<memory, life, hand, phase, turn>>
  BY DEF ReportEnd, tasks, ghosts
<1>2. life \in Nat /\ life > 0 /\ alarms \in Seq(AlarmType) /\ taken \in Seq(TurnKind)
  BY <1>1 DEF AlarmsOK, AlarmTypes, NothingAhead
<1>3. verdict \in AlarmType
  <2>1. causes \subseteq CauseType /\ Len(taken) \in Nat /\ life - 1 \in Nat
    BY <1>2, CausesAreTyped
  <2> HIDE DEF causes
  <2> QED BY <2>1 DEF AlarmType, ReportType
<1>4. verdict.final /\ verdict.report.life = life - 1 /\ verdict.report.causes = causes
  OBVIOUS
<1> HIDE DEF verdict, causes
<1>5. PICK new : new = Len(alarms) + 1
  OBVIOUS
<1>6. /\ \A i \in DOMAIN alarms : i \in DOMAIN alarms' /\ alarms'[i] = alarms[i]
      /\ new \notin DOMAIN alarms
      /\ \A i \in DOMAIN alarms' :
           i \in DOMAIN alarms \/ (i = new /\ Degraded(causes) /\ alarms'[i] = verdict)
      /\ Degraded(causes) => new \in DOMAIN alarms'
  <2>1. CASE Degraded(causes)
    <3>1. alarms' = Append(alarms, verdict)
      BY <1>1, <2>1
    <3> HIDE DEF causes
    <3>2. /\ DOMAIN alarms = 1..Len(alarms) /\ DOMAIN alarms' = 1..(Len(alarms) + 1)
          /\ Len(alarms) \in Nat /\ alarms'[Len(alarms) + 1] = verdict
          /\ \A i \in 1..Len(alarms) : alarms'[i] = alarms[i]
      BY <1>2, <1>3, <3>1
    <3>3. /\ \A i : i \in 1..(Len(alarms) + 1) <=> i \in 1..Len(alarms) \/ i = Len(alarms) + 1
          /\ Len(alarms) + 1 \notin 1..Len(alarms)
      BY <3>2
    <3>4. \A i \in DOMAIN alarms : i \in DOMAIN alarms' /\ alarms'[i] = alarms[i]
      BY <3>2, <3>3
    <3>5. \A i \in DOMAIN alarms' : i \in DOMAIN alarms \/ (i = new /\ alarms'[i] = verdict)
      BY <1>5, <3>2, <3>3
    <3>6. new \notin DOMAIN alarms /\ new \in DOMAIN alarms'
      BY <1>5, <3>2, <3>3
    <3> QED BY ONLY <2>1, <3>4, <3>5, <3>6
  <2>2. CASE ~Degraded(causes)
    <3>1. DOMAIN alarms = 1..Len(alarms) /\ Len(alarms) \in Nat
      BY <1>2
    <3>2. Len(alarms) + 1 \notin 1..Len(alarms)
      BY <3>1
    <3>3. alarms' = alarms /\ new \notin DOMAIN alarms
      BY <1>1, <1>5, <2>2, <3>1, <3>2
    <3> QED BY ONLY <2>2, <3>3
  <2> QED BY <2>1, <2>2
<1>7. AlarmTypes'
  <2>1. alarms' \in Seq(AlarmType)
    BY <1>1, <1>2, <1>3
  <2> QED BY <1>1, <2>1 DEF AlarmsOK, AlarmTypes
<1>8. NothingAhead'
  <2>1. life - 1 <= life /\ life - 1 < life
    BY <1>2
  <2>2. \A i \in DOMAIN alarms' :
          /\ alarms'[i].report.life <= life
          /\ alarms'[i].final => alarms'[i].report.life < life
    BY <1>4, <1>6, <2>1 DEF AlarmsOK, NothingAhead
  <2> QED BY <1>1, <2>2 DEF AlarmsOK, NothingAhead
\* The verdict is none of the reports on the turns.
<1>9. \A n : Told(alarms', hand, phase, n) = Told(alarms, hand, phase, n)
  <2> TAKE n
  <2>1. \A i : /\ i \in DOMAIN alarms /\ ~alarms[i].final /\ alarms[i].report.life = n
                  <=> i \in DOMAIN alarms' /\ ~alarms'[i].final /\ alarms'[i].report.life = n
               /\ i \in DOMAIN alarms /\ i \in DOMAIN alarms' => alarms[i] = alarms'[i]
    BY <1>4, <1>6
  <2> QED BY <2>1, ToldTheSame
<1>10. StoriesHold'
  BY <1>1, <1>9 DEF AlarmsOK, StoriesHold
<1>11. VerdictsHold'
  <2>1. ASSUME NEW n \in 0..(life - 1), n # life - 1, NEW f, Follows(alarms, n, f)
        PROVE  Follows(alarms', n, f)
    <3>1. Verdicts(alarms', n) = Verdicts(alarms, n)
      BY <1>4, <1>6, <2>1 DEF Verdicts
    <3>2. \A i \in Verdicts(alarms, n) : alarms'[i] = alarms[i]
      BY <1>6 DEF Verdicts
    <3> QED BY <2>1, <3>1, <3>2 DEF Follows
  <2>2. PICK f : f = Told(alarms, hand, phase, life - 1)
    OBVIOUS
  <2>3. Follows(alarms', life - 1, f)
    <3>1. Story(f, taken)
      BY <1>1, <2>2 DEF AlarmsOK, StoriesHold
    <3>2. /\ Degraded(causes) <=> DOMAIN f # {}
          /\ Degraded(causes) =>
               PublicDegradationTurn(causes) = Min({f[x].turn : x \in DOMAIN f})
      BY <3>1, VerdictFollows DEF causes
    <3>3. \A i \in DOMAIN alarms : alarms[i].final => alarms[i].report.life # life - 1
      <4>1. \A i \in DOMAIN alarms : alarms[i].report.life \in Nat
        BY LivesAreNumbers
      <4> QED BY <1>1, <1>2, <4>1 DEF AlarmsOK, NothingAhead
    <3>4. \A i : i \in Verdicts(alarms', life - 1) <=> i = new /\ Degraded(causes)
      BY <1>4, <1>6, <3>3 DEF Verdicts
    <3>5. Degraded(causes) => alarms'[new].report.causes = causes
      BY <1>4, <1>6
    <3> QED BY <3>2, <3>4, <3>5 DEF Follows
  <2>4. \A n \in 0..(life - 1) : Follows(alarms', n, Told(alarms, hand, phase, n))
    <3> TAKE n \in 0..(life - 1)
    <3>1. CASE n = life - 1
      BY <2>2, <2>3, <3>1
    <3>2. CASE n # life - 1
      BY <2>1, <3>2 DEF AlarmsOK, VerdictsHold
    <3> QED BY <3>1, <3>2
  <2> QED BY <1>1, <1>9, <2>4 DEF VerdictsHold
<1> QED BY <1>7, <1>8, <1>10, <1>11 DEF AlarmsOK

LEMMA AlarmsAreAccounted == Spec => [](IInv /\ AlarmsOK)
<1>1. IInv /\ AlarmsOK /\ [Next]_vars => AlarmsOK'
  <2> SUFFICES ASSUME IInv, AlarmsOK, [Next]_vars PROVE AlarmsOK'
    OBVIOUS
  <2> USE DEF Goto, tasks, ghosts, database, ending
  <2>0. /\ phase \in [Stream -> Phases] /\ turn \in [Stream -> TurnKind \cup {NoTurn}]
        /\ \A r \in Stream : phase[r] \in {"upserted", "counted", "queued"}
                              => turn[r] \in TurnKind
    BY DEF IInv, AlarmsOK, AlarmTypes
  <2>1. ASSUME NEW r \in Stream, Admit(r) \/ Abandon(r) \/ Count(r) \/ Persist(r)
        PROVE  AlarmsOK'
    BY <2>0, <2>1, AlarmsFrame DEF Admit, Abandon, Count, Persist
  <2>2. ASSUME NEW r \in Stream, NEW t \in TurnKind, Upsert(r, t) PROVE AlarmsOK'
    BY <2>0, <2>2, AlarmsFrame DEF Upsert
  <2>3. ASSUME NEW r \in Stream, Publish(r) PROVE AlarmsOK'
    BY <2>0, <2>3, AlarmsFrame DEF Publish
  <2>4. ASSUME NEW r \in Stream, Remember(r) PROVE AlarmsOK'
    BY <2>4, RememberTells
  <2>5. ASSUME NEW r \in Stream, Announce(r) PROVE AlarmsOK'
    BY <2>5, AnnounceTells
  <2>6. CASE CommitTurn \/ CommitDiagnosis
    BY <2>0, <2>6, AlarmsFrame DEF CommitTurn, CommitDiagnosis
  <2>7. CASE RemoveSession \/ DropGuard
    BY <2>0, <2>7, AlarmsFrame DEF RemoveSession, DropGuard
  <2>8. CASE TakeTurns
    BY <2>8, TakeTurnsTells
  <2>9. CASE ReportEnd
    BY <2>9, ReportEndTells
  <2>10. CASE UNCHANGED vars
    BY <2>0, <2>10, AlarmsFrame DEF vars
  <2> QED
    BY <2>1, <2>2, <2>3, <2>4, <2>5, <2>6, <2>7, <2>8, <2>9, <2>10 DEF Next, Task
<1> QED BY <1>1, AlarmsInitially, CountersAreTyped, PTL DEF Spec

LEMMA TheStoryIsTold == AlarmsOK => VerdictsFollowAlarms
<1> SUFFICES ASSUME AlarmsOK PROVE VerdictsFollowAlarms
  OBVIOUS
<1>1. ASSUME NEW n
      PROVE  /\ DOMAIN Told(alarms, hand, phase, n) = Reports(n)
             /\ \A x \in Reports(n) : Told(alarms, hand, phase, n)[x] = ReportOf(x)
  BY DEF Told, Reported, Reports, ReportIn, ReportOf
<1>2. AlarmsMatchCauses
  <2> DEFINE firm == Firm(Causes(memory))
  <2>1. /\ \A c \in firm : \E x \in Reports(life) : ReportOf(x).turn = c.turn
        /\ \A x \in Reports(life) : Firm(ReportOf(x).causes) \subseteq firm
        /\ \A x \in Reports(life) :
             \E c \in firm : c.turn = ReportOf(x).turn /\ c \in ReportOf(x).causes
        /\ \A x, y \in Reports(life) : ReportOf(x).turn = ReportOf(y).turn => x = y
    BY <1>1 DEF AlarmsOK, StoriesHold, Story
  <2>2. ASSUME NEW c \in firm
        PROVE  Cardinality({x \in Reports(life) : ReportOf(x).turn = c.turn}) = 1
    <3>1. PICK x \in Reports(life) : ReportOf(x).turn = c.turn
      BY <2>1
    <3>2. {y \in Reports(life) : ReportOf(y).turn = c.turn} = {x}
      BY <2>1, <3>1
    <3> QED BY <3>2, FS_Singleton
  <2> QED BY <2>1, <2>2 DEF AlarmsMatchCauses
<1>3. FinalVerdictFollowsAlarms
  <2> SUFFICES ASSUME NEW n \in 0..(life - 1), monitor # "report" \/ n # life - 1
               PROVE  LET verdicts == {i \in DOMAIN alarms :
                                         alarms[i].final /\ alarms[i].report.life = n}
                          turns == {ReportOf(x).turn : x \in Reports(n)}
                      IN /\ verdicts = {} <=> turns = {}
                         /\ \A i \in verdicts :
                              PublicDegradationTurn(alarms[i].report.causes) = Min(turns)
    BY DEF FinalVerdictFollowsAlarms
  <2>1. PICK f : f = Told(alarms, hand, phase, n)
    OBVIOUS
  <2>2. Follows(alarms, n, f)
    BY <2>1 DEF AlarmsOK, VerdictsHold
  <2>3. {f[x].turn : x \in DOMAIN f} = {ReportOf(x).turn : x \in Reports(n)}
    BY <1>1, <2>1
  <2>4. DOMAIN f = {} <=> {ReportOf(x).turn : x \in Reports(n)} = {}
    BY <1>1, <2>1
  <2> QED BY <2>2, <2>3, <2>4 DEF Follows, Verdicts
<1> QED BY <1>2, <1>3 DEF VerdictsFollowAlarms

(* Each turn that is the first to show a cause that is no heuristic is     *)
(* announced once, by remember_codex_turn_and_emit_diagnosis, and the      *)
(* verdict of end_session agrees with those announcements, for any number  *)
(* of concurrent finalizations and lives.                                  *)
THEOREM AlarmsTellTheStory == Spec => []VerdictsFollowAlarms
BY AlarmsAreAccounted, TheStoryIsTold, PTL

-----------------------------------------------------------------------------
(* What a watch client hears of the turns of a first life.                 *)

Started == [type |-> "SessionStart"]
Fallback == [type |-> "ModelFallback"]
SummaryOf(t) == [type |-> "CodexTurnSummary", status |-> t.status]
ContextOf(t) == [type |-> "ContextStatus", fill |-> t.fill]
EventsOf(t) == {SummaryOf(t), ContextOf(t)} \cup (IF t.mismatch THEN {Fallback} ELSE {})
HeardType == {Started, Fallback} \cup [type : {"CodexTurnSummary"}, status : Statuses]
                                \cup [type : {"ContextStatus"}, fill : Nat]

WatchType ==
  [block : {FALSE}, cooldown : {FALSE}, unavailable : {FALSE}, observed : BOOLEAN,
   ended : {FALSE}, mismatch : BOOLEAN, issues : {{}}, signals : {{}}, turns : Nat,
   failed : Nat, incomplete : Nat, unknown : Nat, anomalies : {0}, fill : Nat,
   estimate : {"absent"}]

\* The facts w already say what the event e would add.
Knows(w, e) ==
  /\ e.type = "CodexTurnSummary" =>
       /\ w.observed /\ w.turns > 0
       /\ e.status = "failed" => w.failed > 0
       /\ e.status = "incomplete" => w.incomplete > 0
       /\ e.status = "unknown" => w.unknown > 0
  /\ e.type = "ContextStatus" => w.fill >= e.fill
  /\ e.type = "ModelFallback" => w.mismatch

\* The facts w are those of some of the turns.
Justified(w, turns) ==
  /\ w.failed > 0 => \E t \in turns : t.status = "failed"
  /\ w.incomplete > 0 => \E t \in turns : t.status = "incomplete"
  /\ w.unknown > 0 => \E t \in turns : t.status = "unknown"
  /\ w.fill > 0 => \E t \in turns : t.fill = w.fill
  /\ w.mismatch => \E t \in turns : t.mismatch

Past == Range(rows) \cup (Range(queue) \ {NoTurn})
Early == {"upserted", "counted"}
Late == {"queued", "alarming", "publishing"}
Waiting(e) == \E r \in Stream : phase[r] \in Late /\ e \in Range(outbox[r])

OutboxOK ==
  /\ outbox \in [Stream -> Seq(HeardType)]
  /\ \A r \in Stream :
    /\ phase[r] \in Early \cup Late =>
         /\ turn[r] \in TurnKind /\ outbox[r] # <<>>
         /\ Range(outbox[r]) \subseteq EventsOf(turn[r]) \cup {Started}
    /\ phase[r] \in Early \cup {"queued", "alarming"} =>
         EventsOf(turn[r]) \subseteq Range(outbox[r])
WatchOK ==
  removals = 0 =>
    /\ watch \in WatchType
    /\ Justified(watch, Past)
    /\ \A r \in Stream : phase[r] \in Late => turn[r] \in Past
    /\ \A t \in Past : \A e \in EventsOf(t) : Knows(watch, e) \/ Waiting(e)

\* The coach events are those of the rows.
CoachEventType ==
  [kind : Statuses \cup {"pressure", "tool", "pricing"}, fill : Nat]
Tells(events, turns) ==
  /\ events = {} <=> turns = {}
  /\ \A s \in Statuses : (\E e \in events : e.kind = s) <=> \E t \in turns : t.status = s
  /\ (\E e \in events : e.kind = "pressure") <=> \E t \in turns : t.fill >= 7000
  /\ (\E e \in events : e.kind = "pressure" /\ e.fill >= 8500)
       <=> \E t \in turns : t.fill >= 8500
LogOK ==
  /\ log \in Seq(CoachEventType)
  /\ Tells(Range(log), Range(rows))

-----------------------------------------------------------------------------
LEMMA RangeOfConcat ==
  ASSUME NEW S, NEW s \in Seq(S), NEW t \in Seq(S)
  PROVE  s \o t \in Seq(S) /\ Range(s \o t) = Range(s) \cup Range(t)
<1>1. /\ s \o t \in Seq(S) /\ Len(s \o t) = Len(s) + Len(t)
      /\ \A i \in 1..(Len(s) + Len(t)) :
           (s \o t)[i] = IF i <= Len(s) THEN s[i] ELSE t[i - Len(s)]
  BY ConcatProperties
<1>2. /\ DOMAIN s = 1..Len(s) /\ DOMAIN t = 1..Len(t) /\ DOMAIN (s \o t) = 1..Len(s \o t)
      /\ Len(s) \in Nat /\ Len(t) \in Nat
  BY <1>1, LenProperties
<1> DEFINE u == s \o t
           m == Len(s)
           n == Len(t)
<1>3. /\ \A i \in 1..m : i \in 1..(m + n) /\ i <= m
      /\ \A i \in 1..n : m + i \in 1..(m + n) /\ ~(m + i <= m) /\ (m + i) - m = i
      /\ \A i \in 1..(m + n) : i <= m => i \in 1..m
      /\ \A i \in 1..(m + n) : ~(i <= m) => i - m \in 1..n
  BY <1>2
<1>4. /\ DOMAIN s = 1..m /\ DOMAIN t = 1..n /\ DOMAIN u = 1..(m + n)
      /\ \A i \in 1..(m + n) : u[i] = IF i <= m THEN s[i] ELSE t[i - m]
  BY <1>1, <1>2
<1> HIDE DEF u, m, n
<1>5. Range(s) \subseteq Range(u)
  BY <1>3, <1>4 DEF Range
<1>6. Range(t) \subseteq Range(u)
  <2> SUFFICES ASSUME NEW i \in 1..n PROVE t[i] \in Range(u)
    BY <1>4 DEF Range
  <2>1. m + i \in DOMAIN u /\ u[m + i] = t[i]
    BY <1>3, <1>4
  <2> QED BY <2>1 DEF Range
<1>7. Range(u) \subseteq Range(s) \cup Range(t)
  BY <1>3, <1>4 DEF Range
<1> QED BY <1>1, <1>5, <1>6, <1>7 DEF u

LEMMA RangeOfAppend ==
  ASSUME NEW S, NEW s \in Seq(S), NEW x \in S
  PROVE  Append(s, x) \in Seq(S) /\ Range(Append(s, x)) = Range(s) \cup {x}
<1>1. /\ Append(s, x) \in Seq(S)
      /\ DOMAIN Append(s, x) = 1..(Len(s) + 1) /\ DOMAIN s = 1..Len(s) /\ Len(s) \in Nat
      /\ \A i \in 1..Len(s) : Append(s, x)[i] = s[i]
      /\ Append(s, x)[Len(s) + 1] = x
  OBVIOUS
<1>2. \A i : i \in 1..(Len(s) + 1) <=> i \in 1..Len(s) \/ i = Len(s) + 1
  BY <1>1
<1> QED BY <1>1, <1>2 DEF Range

LEMMA RangeOfTail ==
  ASSUME NEW S, NEW s \in Seq(S), s # <<>>
  PROVE  /\ Head(s) \in S /\ Tail(s) \in Seq(S)
         /\ Range(s) = {Head(s)} \cup Range(Tail(s))
         /\ Tail(s) = <<>> <=> Len(s) = 1
<1>1. /\ Head(s) \in S /\ Tail(s) \in Seq(S) /\ Len(Tail(s)) = Len(s) - 1
      /\ \A i \in 1..Len(Tail(s)) : Tail(s)[i] = s[i + 1]
      /\ Head(s) = s[1] /\ Len(s) \in Nat /\ Len(s) # 0
  BY HeadTailProperties, LenProperties, EmptySeq
<1>2. DOMAIN s = 1..Len(s) /\ DOMAIN Tail(s) = 1..(Len(s) - 1)
  BY <1>1, LenProperties
<1>3. Tail(s) = <<>> <=> Len(s) = 1
  <2>1. Tail(s) = <<>> <=> Len(Tail(s)) = 0
    BY <1>1, EmptySeq
  <2> QED BY <1>1, <2>1
<1> DEFINE n == Len(s)
           rest == Tail(s)
<1>4. /\ \A i \in 1..(n - 1) : i + 1 \in 1..n
      /\ 1 \in 1..n
      /\ \A i \in 1..n : i = 1 \/ (i - 1 \in 1..(n - 1) /\ (i - 1) + 1 = i)
  BY <1>1
<1>5. /\ DOMAIN s = 1..n /\ DOMAIN rest = 1..(n - 1) /\ Head(s) = s[1]
      /\ \A i \in 1..(n - 1) : rest[i] = s[i + 1]
  BY <1>1, <1>2
<1> HIDE DEF n, rest
<1>6. {Head(s)} \cup Range(rest) \subseteq Range(s)
  BY <1>4, <1>5 DEF Range
<1>7. Range(s) \subseteq {Head(s)} \cup Range(rest)
  <2> SUFFICES ASSUME NEW i \in 1..n PROVE s[i] \in {Head(s)} \cup Range(rest)
    BY <1>5 DEF Range
  <2>1. CASE i = 1
    BY <1>5, <2>1
  <2>2. CASE i # 1
    <3>1. i - 1 \in DOMAIN rest /\ rest[i - 1] = s[i]
      BY <1>4, <1>5, <2>2
    <3> QED BY <3>1 DEF Range
  <2> QED BY <2>1, <2>2
<1> QED BY <1>1, <1>3, <1>6, <1>7 DEF rest

LEMMA RangeOfShort == \A a, b : /\ Range(<<>>) = {}
                                /\ Range(<<a>>) = {a}
                                /\ Range(<<a, b>>) = {a, b}
<1> TAKE a, b
<1>1. DOMAIN <<>> = {} /\ DOMAIN <<a>> = {1} /\ DOMAIN <<a, b>> = {1, 2}
  OBVIOUS
<1>2. <<a>>[1] = a /\ <<a, b>>[1] = a /\ <<a, b>>[2] = b
  OBVIOUS
<1>3. Range(<<>>) = {}
  BY <1>1 DEF Range
<1>4. Range(<<a>>) = {a}
  BY <1>1, <1>2 DEF Range
<1>5. Range(<<a, b>>) = {a, b}
  BY <1>1, <1>2 DEF Range
<1> QED BY <1>3, <1>4, <1>5

LEMMA EmptyRange == ASSUME NEW S, NEW s \in Seq(S) PROVE Range(s) = {} <=> s = <<>>
<1>1. DOMAIN s = 1..Len(s) /\ Len(s) \in Nat /\ (Len(s) = 0 <=> s = <<>>)
  BY LenProperties, EmptySeq
<1>2. 1..Len(s) = {} <=> Len(s) = 0
  <2>1. Len(s) # 0 => 1 \in 1..Len(s)
    BY <1>1
  <2>2. Len(s) = 0 => 1..Len(s) = {}
    BY <1>1
  <2> QED BY <2>1, <2>2
<1> QED BY <1>1, <1>2 DEF Range

-----------------------------------------------------------------------------
(* The client.                                                             *)

LEMMA EventsAreHeard ==
  ASSUME NEW t \in TurnType, NEW new \in BOOLEAN
  PROVE  LET s == WatchEvents(t, new) IN
         /\ s \in Seq(HeardType) /\ s # <<>>
         /\ EventsOf(t) \subseteq Range(s)
         /\ Range(s) \subseteq EventsOf(t) \cup {Started}
<1>1. t.status \in Statuses /\ t.fill \in Nat /\ t.mismatch \in BOOLEAN
  BY DEF TurnType
<1>2. PICK a : a = IF new THEN <<Started>> ELSE <<>>
  OBVIOUS
<1>3. PICK b : b = IF t.mismatch THEN <<Fallback>> ELSE <<>>
  OBVIOUS
<1>4. PICK c : c = <<SummaryOf(t), ContextOf(t)>>
  OBVIOUS
<1>5. WatchEvents(t, new) = a \o b \o c
  BY <1>2, <1>3, <1>4 DEF WatchEvents, Started, Fallback, SummaryOf, ContextOf
<1>6. SummaryOf(t) \in HeardType /\ ContextOf(t) \in HeardType
      /\ Started \in HeardType /\ Fallback \in HeardType
  BY <1>1 DEF HeardType, SummaryOf, ContextOf
<1>7. a \in Seq(HeardType) /\ b \in Seq(HeardType) /\ c \in Seq(HeardType)
  BY <1>2, <1>3, <1>4, <1>6
<1>8. /\ Range(a) = IF new THEN {Started} ELSE {}
      /\ Range(b) = IF t.mismatch THEN {Fallback} ELSE {}
      /\ Range(c) = {SummaryOf(t), ContextOf(t)}
  BY <1>2, <1>3, <1>4, RangeOfShort
<1>9. a \o b \in Seq(HeardType) /\ Range(a \o b) = Range(a) \cup Range(b)
  BY <1>7, RangeOfConcat
<1>10. PICK d : d = a \o b
  OBVIOUS
<1>11. d \o c \in Seq(HeardType) /\ Range(d \o c) = Range(d) \cup Range(c)
  <2>1. d \in Seq(HeardType) /\ c \in Seq(HeardType)
    BY <1>7, <1>9, <1>10
  <2> QED BY ONLY <2>1, RangeOfConcat
<1>12. PICK s : s = d \o c
  OBVIOUS
<1>13. s \in Seq(HeardType) /\ Range(s) = (Range(a) \cup Range(b)) \cup {SummaryOf(t), ContextOf(t)}
  BY <1>8, <1>9, <1>10, <1>11, <1>12
<1>14. s # <<>>
  BY <1>13, EmptyRange
<1>15. EventsOf(t) \subseteq Range(s) /\ Range(s) \subseteq EventsOf(t) \cup {Started}
  BY <1>8, <1>13 DEF EventsOf
<1> QED BY <1>5, <1>10, <1>12, <1>13, <1>14, <1>15

LEMMA EventsAreTyped ==
  ASSUME NEW t \in TurnType
  PROVE  EventsOf(t) \cup {Started} \subseteq HeardType
<1>1. t.status \in Statuses /\ t.fill \in Nat
  BY DEF TurnType
<1> QED BY <1>1 DEF EventsOf, HeardType, SummaryOf, ContextOf

\* An event that is heard is known, and nothing known before is forgotten.
LEMMA Hearing ==
  ASSUME NEW w \in WatchType, NEW e \in HeardType
  PROVE  /\ Track(w, e) \in WatchType
         /\ Knows(Track(w, e), e)
         /\ \A d \in HeardType : Knows(w, d) => Knows(Track(w, e), d)
<1>1. CASE e = Started
  <2>1. Track(w, e) = [w EXCEPT !.observed = TRUE]
    BY <1>1 DEF Track, Started
  <2>2. Track(w, e) \in WatchType
    BY <2>1 DEF WatchType
  <2>3. /\ Track(w, e).observed /\ Track(w, e).turns = w.turns /\ Track(w, e).failed = w.failed
        /\ Track(w, e).incomplete = w.incomplete /\ Track(w, e).unknown = w.unknown
        /\ Track(w, e).fill = w.fill /\ Track(w, e).mismatch = w.mismatch
    BY <2>1 DEF WatchType
  <2>4. e.type = "SessionStart"
    BY <1>1 DEF Started
  <2> QED BY <2>2, <2>3, <2>4 DEF Knows
<1>2. CASE e = Fallback
  <2>1. Track(w, e) = [w EXCEPT !.mismatch = TRUE]
    BY <1>2 DEF Track, Fallback
  <2>2. Track(w, e) \in WatchType
    BY <2>1 DEF WatchType
  <2>3. /\ Track(w, e).observed = w.observed /\ Track(w, e).turns = w.turns
        /\ Track(w, e).failed = w.failed
        /\ Track(w, e).incomplete = w.incomplete /\ Track(w, e).unknown = w.unknown
        /\ Track(w, e).fill = w.fill /\ Track(w, e).mismatch
    BY <2>1 DEF WatchType
  <2>4. e.type = "ModelFallback"
    BY <1>2 DEF Fallback
  <2> QED BY <2>2, <2>3, <2>4 DEF Knows
<1>3. CASE e \in [type : {"CodexTurnSummary"}, status : Statuses]
  <2>1. e.type = "CodexTurnSummary" /\ e.status \in Statuses
    BY <1>3
  <2>2. /\ w.turns \in Nat /\ w.failed \in Nat /\ w.incomplete \in Nat /\ w.unknown \in Nat
    BY DEF WatchType
  <2>3. PICK f : f = w.failed + (IF e.status = "failed" THEN 1 ELSE 0)
    OBVIOUS
  <2>4. PICK i : i = w.incomplete + (IF e.status = "incomplete" THEN 1 ELSE 0)
    OBVIOUS
  <2>5. PICK u : u = w.unknown + (IF e.status = "unknown" THEN 1 ELSE 0)
    OBVIOUS
  <2>6. PICK n : n = w.turns + 1
    OBVIOUS
  <2>7. /\ f \in Nat /\ f >= w.failed /\ e.status = "failed" => f > 0
    BY <2>2, <2>3
  <2>8. /\ i \in Nat /\ i >= w.incomplete /\ e.status = "incomplete" => i > 0
    BY <2>2, <2>4
  <2>9. /\ u \in Nat /\ u >= w.unknown /\ e.status = "unknown" => u > 0
    BY <2>2, <2>5
  <2>10. n \in Nat /\ n > 0
    BY <2>2, <2>6
  <2>11. Track(w, e) = [w EXCEPT !.observed = TRUE, !.turns = n, !.failed = f,
                                 !.incomplete = i, !.unknown = u]
    BY <2>1, <2>3, <2>4, <2>5, <2>6 DEF Track
  <2>12. f \in Nat /\ i \in Nat /\ u \in Nat /\ n \in Nat /\ n > 0
         /\ f >= w.failed /\ i >= w.incomplete /\ u >= w.unknown
    BY <2>2, <2>3, <2>4, <2>5, <2>10
  <2>13. /\ e.status = "failed" => f > 0
         /\ e.status = "incomplete" => i > 0
         /\ e.status = "unknown" => u > 0
    BY <2>2, <2>3, <2>4, <2>5
  <2>14. Track(w, e) \in WatchType
    BY <2>11, <2>12 DEF WatchType
  <2>15. /\ Track(w, e).observed /\ Track(w, e).turns = n /\ Track(w, e).failed = f
         /\ Track(w, e).incomplete = i /\ Track(w, e).unknown = u
         /\ Track(w, e).fill = w.fill /\ Track(w, e).mismatch = w.mismatch
    BY <2>11 DEF WatchType
  <2>16. Knows(Track(w, e), e)
    BY <2>1, <2>12, <2>13, <2>15 DEF Knows
  <2>17. \A d \in HeardType : Knows(w, d) => Knows(Track(w, e), d)
    BY <2>2, <2>12, <2>15 DEF Knows
  <2> QED BY <2>14, <2>16, <2>17
<1>4. CASE e \in [type : {"ContextStatus"}, fill : Nat]
  <2>1. e.type = "ContextStatus" /\ e.fill \in Nat /\ w.fill \in Nat
    BY <1>4 DEF WatchType
  <2>2. PICK n : n = Larger(w.fill, e.fill)
    OBVIOUS
  <2>3. n \in Nat /\ n >= w.fill /\ n >= e.fill
    BY <2>1, <2>2 DEF Larger
  <2>4. Track(w, e) = [w EXCEPT !.fill = n]
    BY <2>1, <2>2 DEF Track
  <2>5. Track(w, e) \in WatchType
    BY <2>3, <2>4 DEF WatchType
  <2>6. /\ Track(w, e).observed = w.observed /\ Track(w, e).turns = w.turns
        /\ Track(w, e).failed = w.failed
        /\ Track(w, e).incomplete = w.incomplete /\ Track(w, e).unknown = w.unknown
        /\ Track(w, e).fill = n /\ Track(w, e).mismatch = w.mismatch
    BY <2>4 DEF WatchType
  <2>7. Knows(Track(w, e), e)
    BY <2>1, <2>3, <2>6 DEF Knows
  <2>8. ASSUME NEW d \in HeardType, Knows(w, d) PROVE Knows(Track(w, e), d)
    <3>1. d.type = "ContextStatus" => d.fill \in Nat
      BY DEF HeardType, Started, Fallback
    <3> QED BY <2>1, <2>3, <2>6, <2>8, <3>1 DEF Knows
  <2> QED BY <2>5, <2>7, <2>8
<1> QED BY <1>1, <1>2, <1>3, <1>4 DEF HeardType

\* What is heard of a turn is justified by it.
LEMMA HearingIsJustified ==
  ASSUME NEW w \in WatchType, NEW turns, Justified(w, turns),
         NEW t \in TurnType, t \in turns, NEW e \in EventsOf(t) \cup {Started}
  PROVE  Justified(Track(w, e), turns)
<1>1. CASE e = Started
  BY <1>1 DEF Track, Started, Justified, WatchType
<1>2. CASE e = Fallback /\ t.mismatch
  BY <1>2 DEF Track, Fallback, Justified, WatchType
<1>3. CASE e = SummaryOf(t)
  <2>1. e.type = "CodexTurnSummary" /\ e.status = t.status
    BY <1>3 DEF SummaryOf
  <2>2. PICK v : v = Track(w, e)
    OBVIOUS
  <2>3. /\ v.failed = w.failed + (IF e.status = "failed" THEN 1 ELSE 0)
        /\ v.incomplete = w.incomplete + (IF e.status = "incomplete" THEN 1 ELSE 0)
        /\ v.unknown = w.unknown + (IF e.status = "unknown" THEN 1 ELSE 0)
        /\ v.fill = w.fill /\ v.mismatch = w.mismatch
    BY <2>1, <2>2 DEF Track, WatchType
  <2>4. w.failed \in Nat /\ w.incomplete \in Nat /\ w.unknown \in Nat
    BY DEF WatchType
  <2>5. /\ v.failed > 0 => w.failed > 0 \/ t.status = "failed"
        /\ v.incomplete > 0 => w.incomplete > 0 \/ t.status = "incomplete"
        /\ v.unknown > 0 => w.unknown > 0 \/ t.status = "unknown"
    BY <2>1, <2>3, <2>4
  <2> QED BY <2>2, <2>3, <2>5 DEF Justified
<1>4. CASE e = ContextOf(t)
  <2>1. e.type = "ContextStatus" /\ e.fill = t.fill /\ t.fill \in Nat /\ w.fill \in Nat
    BY <1>4 DEF ContextOf, TurnType, WatchType
  <2>2. PICK v : v = Track(w, e)
    OBVIOUS
  <2>3. /\ v.fill = w.fill \/ v.fill = t.fill
        /\ v.failed = w.failed /\ v.incomplete = w.incomplete /\ v.unknown = w.unknown
        /\ v.mismatch = w.mismatch
    BY <2>1, <2>2 DEF Track, WatchType, Larger
  <2> QED BY <2>2, <2>3 DEF Justified
<1> QED BY <1>1, <1>2, <1>3, <1>4 DEF EventsOf

-----------------------------------------------------------------------------
(* The database.                                                           *)

LEMMA ToolsAreTools ==
  ASSUME NEW t \in TurnType
  PROVE  LET s == [i \in 1..t.tools |-> Event("tool", t)] IN
         s \in Seq(CoachEventType) /\ \A e \in Range(s) : e.kind = "tool"
<1>1. t.tools \in Nat /\ t.fill \in Nat
  BY DEF TurnType
<1>2. Event("tool", t) \in CoachEventType /\ Event("tool", t).kind = "tool"
  BY <1>1 DEF Event, CoachEventType
<1>3. PICK e : e = Event("tool", t)
  OBVIOUS
<1>4. PICK s : s = [i \in 1..t.tools |-> e]
  OBVIOUS
<1>5. s \in Seq(CoachEventType)
  BY <1>1, <1>2, <1>3, <1>4
<1>6. \A d \in Range(s) : d.kind = "tool"
  BY <1>2, <1>3, <1>4 DEF Range
<1> QED BY <1>3, <1>4, <1>5, <1>6

\* The coach events of a turn tell its status and the pressure.
LEMMA TurnTells ==
  ASSUME NEW t \in TurnType
  PROVE  CoachEvents(t) \in Seq(CoachEventType) /\ Tells(Range(CoachEvents(t)), {t})
<1>1. t.status \in Statuses /\ t.fill \in Nat /\ t.priced \in BOOLEAN
  BY DEF TurnType
<1>2. PICK a : a = Event(t.status, t)
  OBVIOUS
<1>3. PICK p : p = Event("pressure", t)
  OBVIOUS
<1>4. PICK q : q = Event("pricing", t)
  OBVIOUS
<1>5. /\ a \in CoachEventType /\ a.kind = t.status
      /\ p \in CoachEventType /\ p.kind = "pressure" /\ (p.fill >= 8500 <=> t.fill >= 8500)
      /\ q \in CoachEventType /\ q.kind = "pricing"
  <2>1. PICK n : n = IF t.fill > 10000 THEN 10000 ELSE t.fill
    OBVIOUS
  <2>2. n \in Nat /\ (n >= 8500 <=> t.fill >= 8500)
    BY <1>1, <2>1
  <2>3. \A k : Event(k, t) = [kind |-> k, fill |-> n]
    BY <2>1 DEF Event
  <2>4. \A k \in Statuses \cup {"pressure", "tool", "pricing"} :
          Event(k, t) \in CoachEventType /\ Event(k, t).kind = k /\ Event(k, t).fill = n
    BY <2>2, <2>3 DEF CoachEventType
  <2>5. a \in CoachEventType /\ a.kind = t.status
    BY <1>1, <1>2, <2>4
  <2>6. p \in CoachEventType /\ p.kind = "pressure" /\ p.fill = n
    BY <1>3, <2>4
  <2>7. q \in CoachEventType /\ q.kind = "pricing"
    BY <1>4, <2>4
  <2> QED BY <2>2, <2>5, <2>6, <2>7
<1>6a. PICK big : big = 1 <=> t.fill >= 7000
  <2>1. CASE t.fill >= 7000
    <3> WITNESS 1
    <3> QED BY <2>1
  <2>2. CASE ~(t.fill >= 7000)
    <3> WITNESS 0
    <3> QED BY <2>2
  <2> QED BY <2>1, <2>2
<1>6. PICK b : b = IF big = 1 THEN <<p>> ELSE <<>>
  OBVIOUS
<1>7. PICK c : c = [i \in 1..t.tools |-> Event("tool", t)]
  OBVIOUS
<1>8. PICK d : d = IF t.priced THEN <<>> ELSE <<q>>
  OBVIOUS
<1>9. CoachEvents(t) = <<a>> \o b \o c \o d
  <2>1. (IF t.fill >= 100 * 70 THEN <<Event("pressure", t)>> ELSE <<>>) = b
    <3>1. t.fill >= 100 * 70 <=> big = 1
      BY <1>1, <1>6a
    <3>2. CASE big = 1
      BY <1>3, <1>6, <3>1, <3>2
    <3>3. CASE big # 1
      BY <1>6, <3>1, <3>3
    <3> QED BY <3>2, <3>3
  <2> QED BY <1>2, <1>4, <1>7, <1>8, <2>1, Zenon DEF CoachEvents
<1>10. /\ <<a>> \in Seq(CoachEventType) /\ b \in Seq(CoachEventType)
       /\ c \in Seq(CoachEventType) /\ d \in Seq(CoachEventType)
  BY <1>5, <1>6, <1>7, <1>8, ToolsAreTools
<1>11. /\ Range(<<a>>) = {a}
       /\ Range(b) = IF big = 1 THEN {p} ELSE {}
       /\ Range(d) = IF t.priced THEN {} ELSE {q}
       /\ \A e \in Range(c) : e.kind = "tool"
  <2>1. Range(<<a>>) = {a}
    BY RangeOfShort
  <2>2. Range(b) = IF big = 1 THEN {p} ELSE {}
    BY <1>6, RangeOfShort
  <2>3. Range(d) = IF t.priced THEN {} ELSE {q}
    BY <1>8, RangeOfShort
  <2>4. \A e \in Range(c) : e.kind = "tool"
    BY <1>7, ToolsAreTools
  <2> QED BY <2>1, <2>2, <2>3, <2>4
<1>12. PICK u : u = <<a>> \o b
  OBVIOUS
<1>13. u \in Seq(CoachEventType) /\ Range(u) = {a} \cup Range(b)
  <2>1. PICK x : x = <<a>>
    OBVIOUS
  <2>2. x \in Seq(CoachEventType) /\ b \in Seq(CoachEventType) /\ u = x \o b
    BY <1>10, <1>12, <2>1
  <2>3. u \in Seq(CoachEventType) /\ Range(u) = Range(x) \cup Range(b)
    BY ONLY <2>2, RangeOfConcat
  <2> QED BY <1>11, <2>1, <2>3
<1>14. PICK v : v = u \o c
  OBVIOUS
<1>15. v \in Seq(CoachEventType) /\ Range(v) = Range(u) \cup Range(c)
  BY <1>10, <1>13, <1>14, RangeOfConcat
<1>16. PICK w : w = v \o d
  OBVIOUS
<1>17. w \in Seq(CoachEventType) /\ Range(w) = Range(v) \cup Range(d)
  BY <1>10, <1>15, <1>16, RangeOfConcat
<1>18. PICK events : events = Range(w)
  OBVIOUS
<1>19. /\ a \in events
       /\ t.fill >= 7000 => p \in events
       /\ \A e \in events : e = a \/ (e = p /\ t.fill >= 7000) \/ e = q \/ e.kind = "tool"
  BY <1>6a, <1>11, <1>13, <1>15, <1>17, <1>18
<1>20. t.status \notin {"pressure", "pricing", "tool"}
       /\ \A s \in Statuses : s \notin {"pressure", "pricing", "tool"}
  BY <1>1 DEF Statuses
<1>21. \A s \in Statuses : (\E e \in events : e.kind = s) <=> t.status = s
  BY <1>5, <1>19, <1>20
<1>22. (\E e \in events : e.kind = "pressure") <=> t.fill >= 7000
  BY <1>5, <1>19, <1>20
<1>23. (\E e \in events : e.kind = "pressure" /\ e.fill >= 8500) <=> t.fill >= 8500
  <2>1. t.fill >= 8500 => t.fill >= 7000
    BY <1>1
  <2>2. \A e \in events : e.kind = "pressure" => e = p
    BY <1>5, <1>19, <1>20
  <2> QED BY <1>5, <1>19, <2>1, <2>2
<1>24. Tells(events, {t})
  BY <1>19, <1>21, <1>22, <1>23 DEF Tells
<1> QED BY <1>9, <1>12, <1>14, <1>16, <1>17, <1>18, <1>24

LEMMA TellsTogether ==
  ASSUME NEW events, NEW turns, NEW d, NEW u, Tells(events, turns), Tells(d, u)
  PROVE  Tells(events \cup d, turns \cup u)
<1>1. events \cup d = {} <=> turns \cup u = {}
  BY DEF Tells
<1>2. \A s \in Statuses : (\E e \in events \cup d : e.kind = s)
                           <=> \E t \in turns \cup u : t.status = s
  BY DEF Tells
<1>3. (\E e \in events \cup d : e.kind = "pressure")
        <=> \E t \in turns \cup u : t.fill >= 7000
  BY DEF Tells
<1>4. (\E e \in events \cup d : e.kind = "pressure" /\ e.fill >= 8500)
        <=> \E t \in turns \cup u : t.fill >= 8500
  BY DEF Tells
<1> QED BY <1>1, <1>2, <1>3, <1>4 DEF Tells

\* The writer commits a turn with its events.
LEMMA CommitTells ==
  ASSUME RowsOK, LogOK, CommitTurn
  PROVE  LogOK'
<1>1. PICK t : t = Head(queue)
  OBVIOUS
<1>2. /\ queue # <<>> /\ t # NoTurn /\ rows' = Append(rows, t)
      /\ log' = log \o CoachEvents(t)
  BY <1>1 DEF CommitTurn
<1>3. rows \in Seq(TurnKind) /\ queue \in Seq(TurnKind \cup {NoTurn})
  BY DEF RowsOK
<1>4. t \in TurnKind /\ t \in TurnType
  BY <1>1, <1>2, <1>3, TurnAssumption
<1>5. CoachEvents(t) \in Seq(CoachEventType) /\ Tells(Range(CoachEvents(t)), {t})
  BY <1>4, TurnTells
<1>6. log \in Seq(CoachEventType) /\ Tells(Range(log), Range(rows))
  BY DEF LogOK
<1>7. log' \in Seq(CoachEventType) /\ Range(log') = Range(log) \cup Range(CoachEvents(t))
  <2>1. PICK s : s = CoachEvents(t)
    OBVIOUS
  <2> QED BY <1>2, <1>5, <1>6, <2>1, RangeOfConcat
<1>8. Range(rows') = Range(rows) \cup {t}
  BY <1>2, <1>3, <1>4, RangeOfAppend
<1>9. Tells(Range(log'), Range(rows'))
  BY <1>5, <1>6, <1>7, <1>8, TellsTogether
<1> QED BY <1>7, <1>9 DEF LogOK

-----------------------------------------------------------------------------
(* Steps.                                                                  *)

LEMMA WatchFrame ==
  ASSUME WatchOK, removals' = 0 => removals = 0, watch' = watch, Past' = Past,
         \A r \in Stream : phase'[r] \in Late <=> phase[r] \in Late,
         \A r \in Stream : phase[r] \in Late => turn'[r] = turn[r] /\ outbox'[r] = outbox[r]
  PROVE  WatchOK'
<1>1. \A e : Waiting(e) => Waiting(e)'
  BY DEF Waiting
<1> QED BY <1>1 DEF WatchOK

LEMMA PersistIsHeard ==
  ASSUME IInv, RowsOK, OutboxOK, WatchOK, NEW r \in Stream, Persist(r)
  PROVE  WatchOK'
<1>1. /\ phase[r] = "counted" /\ phase' = [phase EXCEPT ![r] = "queued"]
      /\ queue' = Append(queue, turn[r])
      /\ UNCHANGED <<rows, watch, turn, outbox, removals>>
  BY DEF Persist, Goto, ghosts
<1>2. /\ phase \in [Stream -> Phases] /\ turn[r] \in TurnKind /\ turn[r] # NoTurn
      /\ EventsOf(turn[r]) \subseteq Range(outbox[r])
  BY <1>1, NoTurnAssumption DEF IInv, OutboxOK, Early
<1>3. Past' = Past \cup {turn[r]}
  <2>1. Range(queue') = Range(queue) \cup {turn[r]}
    BY <1>1, <1>2, RangeOfAppend DEF RowsOK
  <2> QED BY <1>1, <1>2, <2>1 DEF Past
<1>4. \A x \in Stream : phase'[x] = IF x = r THEN "queued" ELSE phase[x]
  BY <1>1, <1>2
<1> SUFFICES ASSUME removals = 0 PROVE WatchOK'
  BY <1>1 DEF WatchOK
<1>5. /\ watch \in WatchType /\ Justified(watch, Past)
      /\ \A x \in Stream : phase[x] \in Late => turn[x] \in Past
      /\ \A t \in Past : \A e \in EventsOf(t) : Knows(watch, e) \/ Waiting(e)
  BY DEF WatchOK
<1>6. PICK past : past = Past'
  OBVIOUS
<1>7. Justified(watch, past)
  BY <1>3, <1>5, <1>6 DEF Justified
<1>8. \A x \in Stream : phase'[x] \in Late => turn[x] \in past
  BY <1>3, <1>4, <1>5, <1>6
<1>9. phase'[r] \in Late
  BY <1>4 DEF Late
<1>10. \A e : Waiting(e) => Waiting(e)'
  <2>1. phase[r] \notin Late
    BY <1>1 DEF Late
  <2> QED BY <1>1, <1>4, <2>1 DEF Waiting
<1>11. \A e \in EventsOf(turn[r]) : Waiting(e)'
  BY <1>1, <1>2, <1>9 DEF Waiting
<1>12. \A t \in past : \A e \in EventsOf(t) : Knows(watch, e) \/ Waiting(e)'
  BY <1>3, <1>5, <1>6, <1>10, <1>11
<1> QED BY <1>1, <1>5, <1>6, <1>7, <1>8, <1>12 DEF WatchOK

LEMMA PastIsTyped == RowsOK => Past \subseteq TurnType
<1> SUFFICES ASSUME RowsOK PROVE Past \subseteq TurnType
  OBVIOUS
<1>1. rows \in Seq(TurnKind) /\ queue \in Seq(TurnKind \cup {NoTurn})
  BY DEF RowsOK
<1>2. Range(rows) \subseteq TurnKind /\ Range(queue) \subseteq TurnKind \cup {NoTurn}
  BY <1>1 DEF Range
<1> QED BY <1>2, TurnAssumption DEF Past

LEMMA PublishIsHeard ==
  ASSUME IInv, RowsOK, OutboxOK, WatchOK, NEW r \in Stream, Publish(r)
  PROVE  WatchOK' /\ OutboxOK'
<1>1. PICK e : e = Head(outbox[r])
  OBVIOUS
<1>2. PICK rest : rest = Tail(outbox[r])
  OBVIOUS
<1>3. /\ phase[r] = "publishing" /\ watch' = Track(watch, e)
      /\ outbox' = [outbox EXCEPT ![r] = rest]
      /\ phase' = [phase EXCEPT ![r] = IF Len(outbox[r]) = 1 THEN "idle" ELSE "publishing"]
      /\ turn' = [turn EXCEPT ![r] = IF Len(outbox[r]) = 1 THEN NoTurn ELSE turn[r]]
      /\ UNCHANGED <<rows, queue, removals>>
  BY <1>1, <1>2 DEF Publish, Goto, ghosts, database
<1>4. /\ phase \in [Stream -> Phases] /\ turn \in [Stream -> TurnKind \cup {NoTurn}]
      /\ turn[r] \in TurnKind /\ turn[r] \in TurnType
      /\ outbox[r] # <<>> /\ outbox[r] \in Seq(HeardType)
      /\ Range(outbox[r]) \subseteq EventsOf(turn[r]) \cup {Started}
  BY <1>3, TurnAssumption DEF IInv, OutboxOK, Early, Late
<1>5. /\ e \in HeardType /\ rest \in Seq(HeardType)
      /\ Range(outbox[r]) = {e} \cup Range(rest)
      /\ rest = <<>> <=> Len(outbox[r]) = 1
  BY <1>1, <1>2, <1>4, RangeOfTail
<1>6. /\ \A x \in Stream : x # r => phase'[x] = phase[x] /\ turn'[x] = turn[x]
      /\ phase'[r] = IF rest = <<>> THEN "idle" ELSE "publishing"
      /\ rest # <<>> => turn'[r] = turn[r]
  BY <1>3, <1>4, <1>5
<1>7. /\ outbox' \in [Stream -> Seq(HeardType)]
      /\ \A x \in Stream : outbox'[x] = IF x = r THEN rest ELSE outbox[x]
  BY <1>3, <1>5 DEF OutboxOK
<1>8. OutboxOK'
  <2> SUFFICES ASSUME NEW x \in Stream
               PROVE  /\ phase'[x] \in Early \cup Late =>
                           /\ turn'[x] \in TurnKind /\ outbox'[x] # <<>>
                           /\ Range(outbox'[x]) \subseteq EventsOf(turn'[x]) \cup {Started}
                      /\ phase'[x] \in Early \cup {"queued", "alarming"} =>
                           EventsOf(turn'[x]) \subseteq Range(outbox'[x])
    BY <1>7 DEF OutboxOK
  <2>1. CASE x # r
    BY <1>6, <1>7, <2>1 DEF OutboxOK
  <2>2. CASE x = r
    <3>1. phase'[r] \in {"idle", "publishing"} /\ (phase'[r] = "publishing" => rest # <<>>)
      BY <1>6
    <3> QED BY <1>4, <1>5, <1>6, <1>7, <2>2, <3>1 DEF Early, Late
  <2> QED BY <2>1, <2>2
<1>9. Past' = Past
  BY <1>3 DEF Past
<1>10. WatchOK'
  <2> SUFFICES ASSUME removals = 0 PROVE WatchOK'
    BY <1>3 DEF WatchOK
  <2>1. /\ watch \in WatchType /\ Justified(watch, Past)
        /\ \A x \in Stream : phase[x] \in Late => turn[x] \in Past
        /\ \A t \in Past : \A d \in EventsOf(t) : Knows(watch, d) \/ Waiting(d)
    BY DEF WatchOK
  <2>2. turn[r] \in Past
    BY <1>3, <2>1 DEF Late
  <2>3. PICK w : w = Track(watch, e)
    OBVIOUS
  <2>4. /\ w \in WatchType /\ Knows(w, e)
        /\ \A d \in HeardType : Knows(watch, d) => Knows(w, d)
    BY <1>5, <2>1, <2>3, Hearing
  <2>5. Justified(w, Past)
    <3>1. e \in EventsOf(turn[r]) \cup {Started}
      BY <1>4, <1>5
    <3> QED BY <1>4, <2>1, <2>2, <2>3, <3>1, HearingIsJustified
  <2>6. \A x \in Stream : phase'[x] \in Late => turn'[x] \in Past
    <3>1. phase'[r] \in Late => rest # <<>>
      BY <1>6 DEF Late
    <3> QED BY <1>6, <2>1, <2>2, <3>1
  <2>7. \A d : Waiting(d) => d = e \/ Waiting(d)'
    <3> SUFFICES ASSUME NEW d, NEW x \in Stream, phase[x] \in Late, d \in Range(outbox[x]),
                        d # e
                 PROVE  Waiting(d)'
      BY DEF Waiting
    <3>1. CASE x # r
      BY <1>6, <1>7, <3>1 DEF Waiting
    <3>2. CASE x = r
      <4>1. d \in Range(rest)
        BY <1>5, <3>2
      <4>2. rest # <<>>
        BY <4>1, RangeOfShort
      <4>3. phase'[r] \in Late /\ d \in Range(outbox'[r])
        BY <1>6, <1>7, <4>1, <4>2 DEF Late
      <4> QED BY <4>3 DEF Waiting
    <3> QED BY <3>1, <3>2
  <2>8. ASSUME NEW t \in Past, NEW d \in EventsOf(t) PROVE Knows(w, d) \/ Waiting(d)'
    <3>1. CASE Waiting(d)
      BY <2>4, <2>7, <3>1
    <3>2. CASE Knows(watch, d)
      <4>1. d \in HeardType
        <5>1. t \in TurnType
          BY PastIsTyped
        <5> QED BY <5>1, EventsAreTyped
      <4> QED BY <2>4, <3>2, <4>1
    <3> QED BY <2>1, <3>1, <3>2
  <2> QED BY <1>3, <1>9, <2>3, <2>4, <2>5, <2>6, <2>8 DEF WatchOK
<1> QED BY <1>8, <1>10

LEMMA OutboxFrame ==
  ASSUME OutboxOK, outbox' = outbox, turn' = turn,
         \A r \in Stream : /\ phase'[r] \in Early \cup Late => phase[r] \in Early \cup Late
                           /\ phase'[r] \in Early \cup {"queued", "alarming"}
                                => phase[r] \in Early \cup {"queued", "alarming"}
  PROVE  OutboxOK'
BY DEF OutboxOK

LEMMA UpsertIsHeard ==
  ASSUME IInv, OutboxOK, WatchOK, NEW r \in Stream, NEW t \in TurnKind, Upsert(r, t)
  PROVE  WatchOK' /\ OutboxOK'
<1>1. PICK new \in BOOLEAN : new = ~listed
  OBVIOUS
<1>2. PICK s : s = WatchEvents(t, new)
  OBVIOUS
<1>3. /\ phase[r] = "streaming" /\ phase' = [phase EXCEPT ![r] = "upserted"]
      /\ turn' = [turn EXCEPT ![r] = t] /\ outbox' = [outbox EXCEPT ![r] = s]
      /\ UNCHANGED <<rows, queue, removals, watch>>
  BY <1>1, <1>2 DEF Upsert, Goto, ghosts, database
<1>4. /\ s \in Seq(HeardType) /\ s # <<>>
      /\ EventsOf(t) \subseteq Range(s) /\ Range(s) \subseteq EventsOf(t) \cup {Started}
  BY <1>2, TurnAssumption, EventsAreHeard
<1>5. /\ \A x \in Stream : x # r => phase'[x] = phase[x] /\ turn'[x] = turn[x]
                                     /\ outbox'[x] = outbox[x]
      /\ phase'[r] = "upserted" /\ turn'[r] = t /\ outbox'[r] = s
      /\ outbox' \in [Stream -> Seq(HeardType)]
  BY <1>3, <1>4 DEF IInv, OutboxOK
<1>6. OutboxOK'
  <2> SUFFICES ASSUME NEW x \in Stream
               PROVE  /\ phase'[x] \in Early \cup Late =>
                           /\ turn'[x] \in TurnKind /\ outbox'[x] # <<>>
                           /\ Range(outbox'[x]) \subseteq EventsOf(turn'[x]) \cup {Started}
                      /\ phase'[x] \in Early \cup {"queued", "alarming"} =>
                           EventsOf(turn'[x]) \subseteq Range(outbox'[x])
    BY <1>5 DEF OutboxOK
  <2>1. CASE x # r
    BY <1>5, <2>1 DEF OutboxOK
  <2>2. CASE x = r
    BY <1>4, <1>5, <2>2
  <2> QED BY <2>1, <2>2
<1>7. Past' = Past
  BY <1>3 DEF Past
<1>8. phase[r] \notin Late /\ phase'[r] \notin Late
  BY <1>3, <1>5 DEF Late
<1>9. WatchOK'
  BY <1>3, <1>5, <1>7, <1>8, WatchFrame
<1> QED BY <1>6, <1>9

\* The writer moves a turn from its queue to the rows.
LEMMA CommitKeepsPast == ASSUME RowsOK, CommitTurn PROVE Past' = Past
<1>1. PICK t : t = Head(queue)
  OBVIOUS
<1>2. /\ queue # <<>> /\ t # NoTurn /\ rows' = Append(rows, t) /\ queue' = Tail(queue)
  BY <1>1 DEF CommitTurn
<1>3. rows \in Seq(TurnKind) /\ queue \in Seq(TurnKind \cup {NoTurn})
  BY DEF RowsOK
<1>4. /\ t \in TurnKind /\ Range(queue) = {t} \cup Range(queue')
  BY <1>1, <1>2, <1>3, RangeOfTail
<1>5. Range(rows') = Range(rows) \cup {t}
  BY <1>2, <1>3, <1>4, RangeOfAppend
<1> QED BY <1>2, <1>4, <1>5 DEF Past

LEMMA HeardInitially == Init => OutboxOK /\ WatchOK /\ LogOK
<1> SUFFICES ASSUME Init PROVE OutboxOK /\ WatchOK /\ LogOK
  OBVIOUS
<1>1. OutboxOK
  BY DEF Init, OutboxOK, Early, Late
<1>2. Range(rows) = {} /\ Range(queue) = {} /\ Range(log) = {}
  BY RangeOfShort DEF Init
<1>3. Past = {}
  BY <1>2 DEF Past
<1>4. watch \in WatchType
  BY DEF Init, NoFacts, WatchType
<1>5. Justified(watch, {})
  BY DEF Init, NoFacts, Justified
<1>6. \A r \in Stream : phase[r] \notin Late
  BY DEF Init, Late
<1>7. WatchOK
  BY <1>3, <1>4, <1>5, <1>6 DEF WatchOK
<1>8. LogOK
  BY <1>2 DEF Init, LogOK, Tells
<1> QED BY <1>1, <1>7, <1>8

LEMMA HeardStep ==
  ASSUME IInv, RowsOK, OutboxOK, WatchOK, LogOK, [Next]_vars
  PROVE  OutboxOK' /\ WatchOK' /\ LogOK'
<1> USE DEF Goto, tasks, ghosts, database, ending
<1>0. /\ phase \in [Stream -> Phases]
      /\ removals \in Nat
      /\ removals = 0 => monitor = "idle" /\ queue \in Seq(TurnKind)
  BY DEF IInv, RowsOK
<1>1. ASSUME NEW r \in Stream,
             Admit(r) \/ Abandon(r) \/ Count(r) \/ Persist(r) \/ Remember(r) \/ Announce(r)
      PROVE  OutboxOK'
  <2>1. outbox' = outbox /\ turn' = turn
    BY <1>1 DEF Admit, Abandon, Count, Persist, Remember, Announce
  <2>2. \A x \in Stream : x # r => phase'[x] = phase[x]
    BY <1>0, <1>1 DEF Admit, Abandon, Count, Persist, Remember, Announce
  <2>3. \/ phase'[r] \in {"idle", "streaming"}
        \/ phase[r] \in Early \cup {"queued", "alarming"}
           /\ phase'[r] \in {"counted", "queued", "alarming", "publishing"}
    BY <1>0, <1>1 DEF Admit, Abandon, Count, Persist, Remember, Announce, Early
  <2> QED BY <2>1, <2>2, <2>3, OutboxFrame DEF Early, Late
<1>2. ASSUME NEW r \in Stream,
             Admit(r) \/ Abandon(r) \/ Count(r) \/ Remember(r) \/ Announce(r)
      PROVE  WatchOK'
  <2>1. UNCHANGED <<watch, removals, rows, queue, outbox, turn>>
    BY <1>2 DEF Admit, Abandon, Count, Remember, Announce
  <2>2. Past' = Past
    BY <2>1 DEF Past
  <2>3. \A x \in Stream : x # r => phase'[x] = phase[x]
    BY <1>0, <1>2 DEF Admit, Abandon, Count, Remember, Announce
  <2>4. phase'[r] \in Late <=> phase[r] \in Late
    BY <1>0, <1>2 DEF Admit, Abandon, Count, Remember, Announce, Late
  <2> QED BY <2>1, <2>2, <2>3, <2>4, WatchFrame
<1>3. ASSUME NEW r \in Stream, Task(r) PROVE log' = log /\ rows' = rows
  BY <1>3 DEF Task, Admit, Abandon, Upsert, Count, Persist, Remember, Announce, Publish
<1>4. log' = log /\ rows' = rows => LogOK'
  BY DEF LogOK
<1>5. ASSUME NEW r \in Stream, Task(r) PROVE OutboxOK' /\ WatchOK'
  BY <1>1, <1>2, <1>5, UpsertIsHeard, PersistIsHeard, PublishIsHeard DEF Task
<1>6. ASSUME UNCHANGED tasks PROVE OutboxOK'
  BY <1>6, OutboxFrame
<1>7. CASE CommitTurn
  <2>1. UNCHANGED <<tasks, watch, removals>>
    BY <1>7 DEF CommitTurn
  <2>2. WatchOK'
    BY <1>7, <2>1, CommitKeepsPast, WatchFrame
  <2> QED BY <1>6, <1>7, <2>1, <2>2, CommitTells
<1>8. CASE CommitDiagnosis
  <2>1. UNCHANGED <<tasks, removals, rows, log>> /\ queue # <<>> /\ Head(queue) = NoTurn
    BY <1>8 DEF CommitDiagnosis
  <2>2. removals # 0
    <3> SUFFICES ASSUME queue \in Seq(TurnKind) PROVE FALSE
      BY <1>0
    <3>1. Head(queue) \in TurnKind
      BY <2>1, RangeOfTail
    <3> QED BY <2>1, <3>1, NoTurnAssumption
  <2>3. WatchOK'
    BY <2>1, <2>2 DEF WatchOK
  <2> QED BY <1>4, <1>6, <2>1, <2>3
<1>9. CASE RemoveSession
  <2>1. UNCHANGED <<tasks, rows, log>> /\ removals' = removals + 1
    BY <1>9 DEF RemoveSession
  <2>2. removals' # 0
    BY <1>0, <2>1
  <2>3. WatchOK'
    BY <2>2 DEF WatchOK
  <2> QED BY <1>4, <1>6, <2>1, <2>3
<1>10. CASE DropGuard \/ TakeTurns \/ ReportEnd
  <2>1. UNCHANGED <<tasks, rows, log, removals>> /\ monitor # "idle"
    BY <1>10 DEF DropGuard, TakeTurns, ReportEnd
  <2>2. WatchOK'
    BY <1>0, <2>1 DEF WatchOK
  <2> QED BY <1>4, <1>6, <2>1, <2>2
<1>11. CASE UNCHANGED vars
  <2>1. UNCHANGED <<tasks, rows, log, removals, watch, queue>>
    BY <1>11 DEF vars
  <2>2. Past' = Past
    BY <2>1 DEF Past
  <2>3. WatchOK'
    BY <2>1, <2>2, WatchFrame
  <2> QED BY <1>4, <1>6, <2>1, <2>3
<1> QED BY <1>3, <1>4, <1>5, <1>7, <1>8, <1>9, <1>10, <1>11 DEF Next

LEMMA WatchAndLog == Spec => [](IInv /\ RowsOK /\ OutboxOK /\ WatchOK /\ LogOK)
<1>1. IInv /\ RowsOK /\ OutboxOK /\ WatchOK /\ LogOK /\ [Next]_vars
        => OutboxOK' /\ WatchOK' /\ LogOK'
  BY HeardStep
<1> QED BY <1>1, HeardInitially, RowsAndCounters, PTL DEF Spec

-----------------------------------------------------------------------------
(* What is decided of what was heard.                                      *)

Stops(f) == f.failed > 0 \/ f.incomplete > 0 \/ f.fill >= StopContextPercent
Cares(f) == f.fill >= CarefulContextPercent \/ f.mismatch \/ f.unknown > 0
Undisturbed(f) == ~f.block /\ ~f.cooldown /\ ~f.unavailable /\ f.issues = {}

Bad(turns) ==
  \E t \in turns : t.status = "failed" \/ t.status = "incomplete" \/ t.fill >= 8500
Poor(turns) == \E t \in turns : t.status = "unknown" \/ t.fill >= 7000
Fell(turns) == \E t \in turns : t.mismatch

LEMMA WhenUnheard ==
  ASSUME NEW f, Undisturbed(f), ~f.observed \/ (f.turns = 0 /\ ~f.ended)
  PROVE  Decide(f) = "Watching"
<1>1. PICK i \in 1..21 :
        /\ Ladder(f)[i][1] /\ Decide(f) = Ladder(f)[i][2]
        /\ \A j \in 1..21 : Ladder(f)[j][1] => i <= j
  BY TheDecision
<1>2. ~Ladder(f)[1][1] /\ ~Ladder(f)[2][1] /\ ~Ladder(f)[3][1] /\ ~Ladder(f)[4][1]
  BY Rungs DEF Undisturbed
<1>3. Ladder(f)[5][1] \/ Ladder(f)[6][1]
  BY Rungs
<1>4. i <= 6
  BY <1>1, <1>3
<1>5. i \notin {1, 2, 3, 4}
  BY <1>1, <1>2
<1>6. i = 5 \/ i = 6
  BY <1>4, <1>5
<1> QED BY <1>1, <1>6, Returns

LEMMA WhenStopped ==
  ASSUME NEW f, Undisturbed(f), f.observed, f.turns # 0 \/ f.ended, Strongest(f) = "stop"
  PROVE  Decide(f) = "Stop"
<1>1. PICK i \in 1..21 :
        /\ Ladder(f)[i][1] /\ Decide(f) = Ladder(f)[i][2]
        /\ \A j \in 1..21 : Ladder(f)[j][1] => i <= j
  BY TheDecision
<1>2. /\ ~Ladder(f)[1][1] /\ ~Ladder(f)[2][1] /\ ~Ladder(f)[3][1] /\ ~Ladder(f)[4][1]
      /\ ~Ladder(f)[5][1] /\ ~Ladder(f)[6][1] /\ ~Ladder(f)[7][1] /\ ~Ladder(f)[8][1]
  BY Rungs DEF Undisturbed
<1>3. Ladder(f)[9][1]
  BY Rungs
<1>4. i <= 9
  BY <1>1, <1>3
<1>5. i \notin {1, 2, 3, 4, 5, 6, 7, 8}
  BY <1>1, <1>2
<1>6. i = 9
  BY <1>4, <1>5
<1> QED BY <1>1, <1>6, Returns

LEMMA WhenHeard ==
  ASSUME NEW f, Undisturbed(f), f.observed, f.turns # 0 \/ f.ended,
         f.ended \/ f.estimate # "untrusted", ~(f.anomalies > 0),
         Strongest(f) \in {"stop", "careful", "none"}
  PROVE  /\ Decide(f) = "Stop" <=>
              Strongest(f) = "stop" \/ (Strongest(f) = "none" /\ Stops(f))
         /\ Decide(f) = "Careful" <=>
              Strongest(f) = "careful" \/ (Strongest(f) = "none" /\ ~Stops(f) /\ Cares(f))
<1>1. PICK i \in 1..21 :
        /\ Ladder(f)[i][1] /\ Decide(f) = Ladder(f)[i][2]
        /\ \A j \in 1..21 : Ladder(f)[j][1] => i <= j
  BY TheDecision
<1>2. /\ ~Ladder(f)[1][1] /\ ~Ladder(f)[2][1] /\ ~Ladder(f)[3][1] /\ ~Ladder(f)[4][1]
      /\ ~Ladder(f)[5][1] /\ ~Ladder(f)[6][1] /\ ~Ladder(f)[7][1] /\ ~Ladder(f)[8][1]
      /\ ~Ladder(f)[13][1] /\ ~Ladder(f)[19][1]
  BY Rungs DEF Undisturbed
<1>3. i \notin {1, 2, 3, 4, 5, 6, 7, 8, 13, 19}
  BY <1>1, <1>2
<1>4. CASE Strongest(f) = "stop"
  BY <1>4, WhenStopped
<1>5. CASE Strongest(f) = "careful"
  <2>1. ~Ladder(f)[9][1] /\ Ladder(f)[10][1]
    BY <1>5, Rungs
  <2>2. i <= 10 /\ i # 9
    BY <1>1, <2>1
  <2>3. i = 10
    BY <1>3, <2>2
  <2>4. Decide(f) = "Careful"
    BY <1>1, <2>3, Returns
  <2> QED BY <1>5, <2>4
<1>6. CASE Strongest(f) = "none"
  <2>1. ~Ladder(f)[9][1] /\ ~Ladder(f)[10][1]
    BY <1>6, Rungs
  <2>2. i \in {11, 12, 14, 15, 16, 17, 18, 20, 21}
    BY <1>1, <1>3, <2>1
  <2>3. CASE Stops(f)
    <3>1. Ladder(f)[11][1] \/ Ladder(f)[12][1] \/ Ladder(f)[14][1]
      BY <2>3, Rungs DEF Stops
    <3>2. i <= 14
      BY <1>1, <3>1
    <3>3. i \in {11, 12, 14}
      BY <2>2, <3>2
    <3>4. Decide(f) = "Stop"
      BY <1>1, <3>3, Returns
    <3> QED BY <1>6, <2>3, <3>4
  <2>4. CASE ~Stops(f)
    <3>1. ~Ladder(f)[11][1] /\ ~Ladder(f)[12][1] /\ ~Ladder(f)[14][1]
      BY <2>4, Rungs DEF Stops
    <3>2. i \in {15, 16, 17, 18, 20, 21}
      BY <1>1, <2>2, <3>1
    <3>3. CASE Cares(f)
      <4>1. Ladder(f)[15][1] \/ Ladder(f)[16][1] \/ Ladder(f)[17][1]
        BY <3>3, Rungs DEF Cares
      <4>2. i <= 17
        BY <1>1, <4>1
      <4>3. i \in {15, 16, 17}
        BY <3>2, <4>2
      <4>4. Decide(f) = "Careful"
        BY <1>1, <4>3, Returns
      <4> QED BY <1>6, <2>4, <3>3, <4>4
    <3>4. CASE ~Cares(f)
      <4>1. ~Ladder(f)[15][1] /\ ~Ladder(f)[16][1] /\ ~Ladder(f)[17][1]
        BY <3>4, Rungs DEF Cares
      <4>2. i \in {18, 20, 21}
        BY <1>1, <3>2, <4>1
      <4>3. i # 20
        <5>1. CASE f.ended
          <6>1. Ladder(f)[18][1]
            BY <5>1, Rungs
          <6>2. i <= 18
            BY <1>1, <6>1
          <6> QED BY <6>2
        <5>2. CASE f.estimate # "untrusted"
          <6>1. ~Ladder(f)[20][1]
            BY <5>2, Rungs
          <6> QED BY <1>1, <6>1
        <5> QED BY <5>1, <5>2
      <4>4. Decide(f) \in {"Ended", "Healthy"}
        BY <1>1, <4>2, <4>3, Returns
      <4> QED BY <1>6, <2>4, <3>4, <4>4
    <3> QED BY <3>3, <3>4
  <2> QED BY <2>3, <2>4
<1> QED BY <1>4, <1>5, <1>6

\* The kinds of event that a session has, and its signals.
LEMMA SignalsTell ==
  ASSUME NEW events \in Seq(CoachEventType), NEW turns, Tells(Range(events), turns)
  PROVE  /\ (\E s \in Signals(events) : s.severity = "stop") <=> Bad(turns)
         /\ Signals(events) # {} <=> Bad(turns) \/ Poor(turns)
<1> DEFINE pressure == {events[i].fill : i \in OfKind(events, {"pressure"})}
<1>1. ASSUME NEW k
      PROVE OfKind(events, {k}) # {} <=> \E e \in Range(events) : e.kind = k
  BY DEF OfKind, Range
<1>2. (\E f \in pressure : f >= 8500)
        <=> \E e \in Range(events) : e.kind = "pressure" /\ e.fill >= 8500
  BY DEF OfKind, Range
<1>3. pressure # {} <=> \E e \in Range(events) : e.kind = "pressure"
  BY DEF OfKind, Range
<1>4. "failed" \in Statuses /\ "incomplete" \in Statuses /\ "unknown" \in Statuses
  BY DEF Statuses
<1>5. /\ OfKind(events, {"failed"}) # {} <=> \E t \in turns : t.status = "failed"
      /\ OfKind(events, {"incomplete"}) # {} <=> \E t \in turns : t.status = "incomplete"
      /\ OfKind(events, {"unknown"}) # {} <=> \E t \in turns : t.status = "unknown"
  <2>1. \A s \in Statuses : (\E e \in Range(events) : e.kind = s)
                            <=> \E t \in turns : t.status = s
    BY DEF Tells
  <2>2. OfKind(events, {"failed"}) # {} <=> \E t \in turns : t.status = "failed"
    BY <1>1, <1>4, <2>1
  <2>3. OfKind(events, {"incomplete"}) # {} <=> \E t \in turns : t.status = "incomplete"
    BY <1>1, <1>4, <2>1
  <2>4. OfKind(events, {"unknown"}) # {} <=> \E t \in turns : t.status = "unknown"
    BY <1>1, <1>4, <2>1
  <2> QED BY <2>2, <2>3, <2>4
<1>6. /\ (\E f \in pressure : f >= 8500) <=> \E t \in turns : t.fill >= 8500
      /\ pressure # {} <=> \E t \in turns : t.fill >= 7000
  BY <1>2, <1>3 DEF Tells
<1> DEFINE A == OfKind(events, {"failed"}) # {}
           B == OfKind(events, {"incomplete"}) # {}
           C == OfKind(events, {"unknown"}) # {}
           D == \E f \in pressure : f >= 100 * 85
           E == pressure # {} /\ \A f \in pressure : f < 100 * 85
           When(condition, name, severity) ==
             IF condition THEN {[name |-> name, severity |-> severity]} ELSE {}
<1>7. Signals(events) =
        When(A, "failed_response", "stop") \cup When(B, "incomplete_response", "stop")
        \cup When(C, "unknown_response", "careful") \cup When(D, "high_context", "stop")
        \cup When(E, "high_context", "careful")
  BY DEF Signals
<1>8. pressure \subseteq Nat
  <2>1. \A i \in DOMAIN events : events[i] \in CoachEventType
    OBVIOUS
  <2>2. \A i \in DOMAIN events : events[i].fill \in Nat
    BY <2>1 DEF CoachEventType
  <2> QED BY <2>2 DEF OfKind
<1>9. D <=> \E t \in turns : t.fill >= 8500
  BY <1>6
<1>10. D \/ E <=> \E t \in turns : t.fill >= 7000
  <2>1. D \/ E <=> pressure # {}
    <3> HIDE DEF pressure
    <3> QED BY <1>8
  <2> QED BY <1>6, <2>1
<1> HIDE DEF A, B, C, D, E
<1>11. (\E s \in Signals(events) : s.severity = "stop") <=> A \/ B \/ D
  <2>1. A \/ B \/ D => \E s \in Signals(events) : s.severity = "stop"
    <3>1. CASE A
      <4>1. [name |-> "failed_response", severity |-> "stop"] \in Signals(events)
        BY <1>7, <3>1
      <4> QED BY <4>1
    <3>2. CASE B
      <4>1. [name |-> "incomplete_response", severity |-> "stop"] \in Signals(events)
        BY <1>7, <3>2
      <4> QED BY <4>1
    <3>3. CASE D
      <4>1. [name |-> "high_context", severity |-> "stop"] \in Signals(events)
        BY <1>7, <3>3
      <4> QED BY <4>1
    <3> QED BY <3>1, <3>2, <3>3
  <2>2. ASSUME ~A, ~B, ~D, NEW s \in Signals(events) PROVE s.severity # "stop"
    <3>1. s \in {[name |-> "unknown_response", severity |-> "careful"],
                 [name |-> "high_context", severity |-> "careful"]}
      BY <1>7, <2>2
    <3> QED BY <3>1
  <2> QED BY <2>1, <2>2
<1>12. Signals(events) # {} <=> A \/ B \/ C \/ D \/ E
  BY <1>7
<1>13. A \/ B \/ D <=> Bad(turns)
  BY <1>5, <1>9 DEF A, B, Bad
<1>14. A \/ B \/ C \/ D \/ E <=> Bad(turns) \/ Poor(turns)
  <2>1. C <=> \E t \in turns : t.status = "unknown"
    BY <1>5 DEF C
  <2>2. C \/ D \/ E <=> Poor(turns)
    BY <1>10, <2>1 DEF Poor
  <2>3. D => Bad(turns)
    BY <1>13
  <2> QED BY <1>13, <2>2, <2>3, Zenon
<1> QED BY <1>11, <1>12, <1>13, <1>14, Zenon

\* Without signals there is nothing that would stop the companion.
LEMMA WithoutSignals ==
  ASSUME NEW events \in Seq(CoachEventType), Signals(events) = {}
  PROVE  /\ OfKind(events, {"failed"}) = {} /\ OfKind(events, {"incomplete"}) = {}
         /\ OfKind(events, {"unknown"}) = {} /\ OfKind(events, {"pressure"}) = {}
<1>1. /\ OfKind(events, {"failed"}) = {} /\ OfKind(events, {"incomplete"}) = {}
      /\ OfKind(events, {"unknown"}) = {}
  BY DEF Signals
<1>2. OfKind(events, {"pressure"}) = {}
  <2> DEFINE pressure == {events[i].fill : i \in OfKind(events, {"pressure"})}
  <2>1. /\ ~\E f \in pressure : f >= 100 * 85
        /\ ~(pressure # {} /\ \A f \in pressure : f < 100 * 85)
    BY DEF Signals
  <2>2. pressure \subseteq Nat
    <3>1. \A i \in DOMAIN events : events[i] \in CoachEventType
      OBVIOUS
    <3>2. \A i \in DOMAIN events : events[i].fill \in Nat
      BY <3>1 DEF CoachEventType
    <3> QED BY <3>2 DEF OfKind
  <2>3. pressure = {}
    <3> HIDE DEF pressure
    <3> QED BY <2>1, <2>2
  <2> QED BY <2>3
<1> QED BY <1>1, <1>2

LEMMA LoadedIs ==
  ASSUME NEW events \in Seq(CoachEventType)
  PROVE  /\ Loaded(events) \in Seq(CoachEventType)
         /\ events = <<>> => Loaded(events) = <<>>
         /\ Len(events) <= EventLimit => Loaded(events) = events
<1>1. PICK n : n = IF Len(events) < EventLimit THEN Len(events) ELSE EventLimit
  OBVIOUS
<1>2. /\ n \in Nat /\ n <= Len(events) /\ Len(events) \in Nat
      /\ DOMAIN events = 1..Len(events)
  BY <1>1, EventLimitAssumption
<1>3. \A i \in 1..n : i \in 1..Len(events)
  BY <1>2
<1>4. Loaded(events) = [i \in 1..n |-> events[i]]
  <2>1. Loaded(events) = SubSeq(events, 1, n)
    BY <1>1 DEF Loaded
  <2>2. SubSeq(events, 1, n) = [i \in 1..n |-> events[i]]
    BY <1>2
  <2> QED BY <2>1, <2>2
<1>5. \A i \in 1..Len(events) : events[i] \in CoachEventType
  BY <1>2
<1>6. Loaded(events) \in Seq(CoachEventType) /\ Len(Loaded(events)) = n
  BY <1>2, <1>3, <1>4, <1>5
<1>7. events = <<>> => Loaded(events) = <<>>
  BY <1>2, <1>6, EmptySeq
<1>8. Len(events) <= EventLimit => Loaded(events) = events
  <2> SUFFICES ASSUME Len(events) <= EventLimit PROVE Loaded(events) = events
    OBVIOUS
  <2>0. PICK l : l = Len(events)
    OBVIOUS
  <2>01. l \in Nat /\ EventLimit \in Nat /\ l <= EventLimit
         /\ n = IF l < EventLimit THEN l ELSE EventLimit
    BY <1>1, <1>2, <2>0, EventLimitAssumption
  <2>1. n = Len(events)
    <3>1. n = l
      BY ONLY <2>01
    <3> QED BY <2>0, <3>1
  <2>2. PICK d : d = Loaded(events)
    OBVIOUS
  <2>3. d \in Seq(CoachEventType) /\ Len(d) = Len(events)
        /\ \A i \in 1..Len(events) : d[i] = events[i]
    BY <1>4, <1>6, <2>1, <2>2
  <2>4. d = events
    BY <2>3, SeqEqual
  <2> QED BY <2>2, <2>4
<1> QED BY <1>6, <1>7, <1>8

\* The companion stops for nothing that is not a signal, and status stops for
\* the same signals.
LEMMA CompanionStops ==
  ASSUME RowsOK, LogOK, Decide(CompanionFacts) = "Stop"
  PROVE  Decide(StatusFacts) = "Stop"
<1>1. PICK events : events = Loaded(log)
  OBVIOUS
<1>2. PICK c : c = CompanionFacts
  OBVIOUS
<1>3. log \in Seq(CoachEventType) /\ events \in Seq(CoachEventType)
  BY <1>1, LoadedIs DEF LogOK
<1>4. events # <<>>
  <2> SUFFICES ASSUME events = <<>> PROVE FALSE
    OBVIOUS
  <2>1. c = NoFacts
    BY <1>1, <1>2 DEF CompanionFacts
  <2>2. Undisturbed(c) /\ ~c.observed
    BY <2>1 DEF NoFacts, Undisturbed
  <2>3. Decide(c) = "Watching"
    BY <2>2, WhenUnheard
  <2> QED BY <1>2, <2>3
<1>5. rows # <<>>
  <2>1. log # <<>>
    BY <1>1, <1>3, <1>4, LoadedIs
  <2>2. Range(log) # {}
    BY <1>3, <2>1, EmptyRange
  <2>3. Range(rows) # {}
    BY <2>2 DEF LogOK, Tells
  <2> QED BY <2>3, RangeOfShort
<1>6. /\ Undisturbed(c) /\ c.observed /\ c.ended /\ c.anomalies = 0
      /\ c.signals = Signals(events)
      /\ c.failed = Cardinality(OfKind(events, {"failed"}))
      /\ c.incomplete = Cardinality(OfKind(events, {"incomplete"}))
      /\ c.fill = Max({0} \cup {events[i].fill : i \in OfKind(events, {"pressure"})})
  BY <1>1, <1>2, <1>4 DEF CompanionFacts, NoFacts, Undisturbed
<1>7. Strongest(c) = IF \E s \in c.signals : s.severity = "stop" THEN "stop"
                     ELSE IF c.signals # {} THEN "careful" ELSE "none"
  <2>1. \A s \in c.signals : /\ s.severity \in {"stop", "careful"}
                             /\ s.name # "untrusted_pricing"
    BY <1>6, SignalsAre
  <2> QED BY <2>1, StrongestIs
<1>8. Strongest(c) = "stop"
  <2> SUFFICES ASSUME Strongest(c) # "stop" PROVE FALSE
    OBVIOUS
  <2>1. Strongest(c) \in {"careful", "none"}
    BY <1>7
  <2>2. Strongest(c) = "none" /\ Stops(c)
    BY <1>2, <1>6, <2>1, WhenHeard
  <2>3. Signals(events) = {}
    BY <1>6, <1>7, <2>2
  <2>4. c.failed = 0 /\ c.incomplete = 0
    BY <1>3, <1>6, <2>3, WithoutSignals, FS_EmptySet
  <2>5. c.fill = 0
    <3>1. {0} \cup {events[i].fill : i \in OfKind(events, {"pressure"})} = {0}
      BY <1>3, <2>3, WithoutSignals
    <3>2. IsFiniteSet({0}) /\ {0} \subseteq Int /\ 0 \in {0} /\ \A x \in {0} : x <= 0
      BY FS_Singleton
    <3>3. Max({0}) = 0
      BY <3>2, MaxIs
    <3> QED BY <1>6, <3>1, <3>3
  <2> QED BY <2>2, <2>4, <2>5 DEF Stops, StopContextPercent
<1>9. PICK s : s = StatusFacts
  OBVIOUS
<1>10. Undisturbed(s) /\ s.observed /\ s.ended /\ s.signals = Signals(events)
  BY <1>1, <1>5, <1>9 DEF StatusFacts, ReportFacts, NoFacts, Undisturbed
<1>11. Strongest(s) = "stop"
  <2>1. \A x \in s.signals : /\ x.severity \in {"stop", "careful"}
                             /\ x.name # "untrusted_pricing"
    BY <1>10, SignalsAre
  <2>2. \E x \in s.signals : x.severity = "stop"
    BY <1>6, <1>7, <1>8, <1>10
  <2> QED BY <2>1, <2>2, StrongestIs
<1> QED BY <1>9, <1>10, <1>11, WhenStopped

LEMMA TurnsAreFinite == ASSUME NEW turns \in Seq(TurnKind) PROVE IsFiniteSet(DOMAIN turns)
  BY LenProperties, FS_Interval

LEMMA FillsAreFinite ==
  ASSUME NEW turns \in Seq(TurnKind)
  PROVE  IsFiniteSet({0} \cup {turns[i].fill : i \in DOMAIN turns})
<1> DEFINE D == DOMAIN turns
           T == {turns[i].fill : i \in D}
<1>1. PICK f : f = [i \in D |-> turns[i].fill]
  OBVIOUS
<1>2. IsFiniteSet(D)
  BY LenProperties, FS_Interval
<1>3. f \in Surjection(D, T)
  BY <1>1 DEF Surjection
<1> HIDE DEF D, T
<1>4. IsFiniteSet(T)
  BY ONLY <1>2, <1>3, FS_Surjection
<1>5. IsFiniteSet(T \cup {0})
  BY <1>4, FS_AddElement
<1>6. {0} \cup {turns[i].fill : i \in DOMAIN turns} = T \cup {0}
  BY DEF T, D
<1> QED BY <1>5, <1>6

\* What status makes of the rows.
LEMMA StatusOfRows ==
  ASSUME RowsOK, LogOK, Len(log) <= EventLimit, rows # <<>>,
         NEW s, s = [StatusFacts EXCEPT !.anomalies = 0,
                                        !.fill = Max({0} \cup {rows[i].fill : i \in DOMAIN rows})]
  PROVE  LET turns == Range(rows) IN
         /\ Decide(s) = "Stop" <=> Bad(turns)
         /\ Decide(s) = "Careful" <=> ~Bad(turns) /\ (Poor(turns) \/ Fell(turns))
<1> DEFINE turns == Range(rows)
           top == Max({0} \cup {rows[i].fill : i \in DOMAIN rows})
<1>1. rows \in Seq(TurnKind) /\ log \in Seq(CoachEventType) /\ Tells(Range(log), turns)
  BY DEF RowsOK, LogOK
<1>2. Loaded(log) = log
  BY <1>1, LoadedIs
<1>3. /\ Undisturbed(s) /\ s.observed /\ s.ended /\ s.anomalies = 0
      /\ s.signals = Signals(log) /\ s.fill = top
      /\ s.failed = Total(rows, "failed") /\ s.incomplete = Total(rows, "incomplete")
      /\ s.unknown = Total(rows, "unknown") /\ s.mismatch = (Total(rows, "mismatch") = 1)
  BY <1>2 DEF StatusFacts, ReportFacts, NoFacts, Undisturbed
<1>4. Strongest(s) = IF \E x \in s.signals : x.severity = "stop" THEN "stop"
                     ELSE IF s.signals # {} THEN "careful" ELSE "none"
  <2>1. \A x \in s.signals : /\ x.severity \in {"stop", "careful"}
                             /\ x.name # "untrusted_pricing"
    BY <1>3, SignalsAre
  <2> QED BY <2>1, StrongestIs
<1>5. /\ (\E x \in Signals(log) : x.severity = "stop") <=> Bad(turns)
      /\ Signals(log) # {} <=> Bad(turns) \/ Poor(turns)
  BY <1>1, SignalsTell
<1> HIDE DEF turns
<1>6. Strongest(s) = IF Bad(turns) THEN "stop" ELSE IF Poor(turns) THEN "careful" ELSE "none"
  BY <1>3, <1>4, <1>5
<1>7. /\ Decide(s) = "Stop" <=>
           Strongest(s) = "stop" \/ (Strongest(s) = "none" /\ Stops(s))
      /\ Decide(s) = "Careful" <=>
           Strongest(s) = "careful" \/ (Strongest(s) = "none" /\ ~Stops(s) /\ Cares(s))
  <2>1. Strongest(s) \in {"stop", "careful", "none"} /\ ~(s.anomalies > 0)
    BY <1>3, <1>6
  <2> QED BY <1>3, <2>1, WhenHeard
<1>8. ASSUME ~Bad(turns), ~Poor(turns) PROVE ~Stops(s) /\ (Cares(s) <=> Fell(turns))
  <2>0. \A i \in DOMAIN rows : rows[i] \in turns /\ rows[i] \in TurnType
    BY <1>1, TurnAssumption DEF turns, Range
  <2>1. \A i \in DOMAIN rows : /\ rows[i].status \notin {"failed", "incomplete", "unknown"}
                               /\ ~(rows[i].fill >= 7000)
    BY <1>8, <2>0 DEF Bad, Poor
  <2>2. ASSUME NEW r \in {"failed", "incomplete", "unknown"} PROVE Total(rows, r) = 0
    <3>1. \A i \in DOMAIN rows : Amount(rows[i], r) = 0
      BY <2>1, <2>2 DEF Amount
    <3>2. PICK f : f = [i \in DOMAIN rows |-> Amount(rows[i], r)]
      OBVIOUS
    <3>3. IsFiniteSet(DOMAIN f) /\ \A i \in DOMAIN f : f[i] = 0
      <4>1. DOMAIN f = DOMAIN rows /\ \A i \in DOMAIN rows : f[i] = 0
        BY <3>1, <3>2
      <4>2. DOMAIN rows = 1..Len(rows) /\ Len(rows) \in Nat
        BY <1>1, LenProperties
      <4>3. IsFiniteSet(DOMAIN rows)
        BY <1>1, TurnsAreFinite
      <4> QED BY <4>1, <4>3
    <3>4. SumFunction(f) = 0
      BY <3>3, SumOfZeros
    <3> QED BY <2>2, <3>2, <3>4 DEF Total, Exact, Coarse, Peaks
  <2>3. s.failed = 0 /\ s.incomplete = 0 /\ s.unknown = 0
    BY <1>3, <2>2
  <2>4. top \in Nat /\ ~(top >= 7000)
    <3> DEFINE S == {0} \cup {rows[i].fill : i \in DOMAIN rows}
    <3>1. IsFiniteSet(S) /\ S # {} /\ S \subseteq Nat
      <4>1. IsFiniteSet(S)
        BY <1>1, FillsAreFinite
      <4>2. S \subseteq Nat
        BY <2>0 DEF TurnType
      <4> QED BY <4>1, <4>2
    <3>2. \A x \in S : ~(x >= 7000)
      BY <2>1
    <3>3. top = Max(S)
      OBVIOUS
    <3> HIDE DEF S, top
    <3>4. Max(S) \in S
      BY <3>1, FiniteMax
    <3> QED BY <3>1, <3>2, <3>3, <3>4
  <2>5. ~Stops(s)
    BY <1>3, <2>3, <2>4 DEF Stops, StopContextPercent
  <2>6. s.mismatch <=> Fell(turns)
    <3>1. \A i \in DOMAIN rows : Amount(rows[i], "mismatch") = IF rows[i].mismatch THEN 1 ELSE 0
      BY DEF Amount
    <3>2. PICK m : m = IF Fell(turns) THEN 1 ELSE 0
      OBVIOUS
    <3>3. /\ m \in Nat /\ \A i \in DOMAIN rows : Amount(rows[i], "mismatch") <= m
          /\ m = 0 \/ \E i \in DOMAIN rows : Amount(rows[i], "mismatch") = m
      <4>1. \A i \in DOMAIN rows : rows[i].mismatch => Fell(turns)
        BY <2>0 DEF Fell
      <4>2. Fell(turns) => \E i \in DOMAIN rows : rows[i].mismatch
        BY DEF Fell, turns, Range
      <4> QED BY <3>1, <3>2, <4>1, <4>2
    <3>4. "mismatch" \in Rule
      BY DEF Rule, RuleOrder
    <3>5. Max({0} \cup {Amount(rows[i], "mismatch") : i \in DOMAIN rows}) = m
      BY <1>1, <3>3, <3>4, PeakIs
    <3>6. Total(rows, "mismatch") = m
      BY <3>5 DEF Total, Exact, Coarse, Peaks
    <3>7. s.mismatch <=> Total(rows, "mismatch") = 1
      BY <1>3
    <3>8. m = 1 <=> Fell(turns)
      BY <3>2
    <3> QED BY <3>6, <3>7, <3>8
  <2>7. Cares(s) <=> Fell(turns)
    BY <1>3, <2>3, <2>4, <2>6 DEF Cares, CarefulContextPercent
  <2> QED BY <2>5, <2>7
<1> QED BY <1>6, <1>7, <1>8 DEF turns

\* At rest a watch client has heard of every row, and of nothing else.
LEMMA WatchOfRows ==
  ASSUME RowsOK, OutboxOK, WatchOK, AtRest, removals = 0, rows # <<>>
  PROVE  LET turns == Range(rows) IN
         /\ Decide(watch) = "Stop" <=> Bad(turns)
         /\ Decide(watch) = "Careful" <=> ~Bad(turns) /\ (Poor(turns) \/ Fell(turns))
<1> DEFINE turns == Range(rows)
<1>1. rows \in Seq(TurnKind) /\ queue = <<>> /\ watch \in WatchType
  BY DEF RowsOK, WatchOK, AtRest
<1>2. Past = turns
  BY <1>1, RangeOfShort DEF Past
<1>3. Justified(watch, turns)
  BY <1>2 DEF WatchOK
<1>4. \A t \in turns : t \in TurnType /\ t.fill \in Nat
  BY <1>2, PastIsTyped DEF TurnType
<1>5. \A t \in turns : \A e \in EventsOf(t) : Knows(watch, e)
  <2>1. \A r \in Stream : phase[r] \notin Late
    BY DEF AtRest, Late
  <2> QED BY <1>2, <2>1 DEF WatchOK, Waiting
<1>6. turns # {}
  BY <1>1, EmptyRange
<1> HIDE DEF turns
<1>7. ASSUME NEW t \in turns
      PROVE  /\ watch.observed /\ watch.turns > 0 /\ watch.fill >= t.fill
             /\ t.status = "failed" => watch.failed > 0
             /\ t.status = "incomplete" => watch.incomplete > 0
             /\ t.status = "unknown" => watch.unknown > 0
             /\ t.mismatch => watch.mismatch
  <2>1. Knows(watch, SummaryOf(t)) /\ Knows(watch, ContextOf(t))
    BY <1>5 DEF EventsOf
  <2>2. t.mismatch => Knows(watch, Fallback)
    BY <1>5 DEF EventsOf
  <2>3. /\ SummaryOf(t).type = "CodexTurnSummary" /\ SummaryOf(t).status = t.status
        /\ ContextOf(t).type = "ContextStatus" /\ ContextOf(t).fill = t.fill
        /\ Fallback.type = "ModelFallback"
    BY DEF SummaryOf, ContextOf, Fallback
  <2> QED BY <2>1, <2>2, <2>3 DEF Knows
<1>8. /\ Undisturbed(watch) /\ watch.observed /\ watch.turns # 0
      /\ watch.estimate # "untrusted" /\ ~(watch.anomalies > 0) /\ watch.signals = {}
      /\ watch.failed \in Nat /\ watch.incomplete \in Nat /\ watch.unknown \in Nat
      /\ watch.fill \in Nat
  <2>1. watch.observed /\ watch.turns > 0
    BY <1>6, <1>7
  <2>2. /\ ~watch.block /\ ~watch.cooldown /\ ~watch.unavailable
        /\ watch.issues = {} /\ watch.signals = {}
    BY <1>1 DEF WatchType
  <2>3. /\ watch.estimate = "absent" /\ watch.anomalies = 0 /\ watch.failed \in Nat
        /\ watch.incomplete \in Nat /\ watch.unknown \in Nat /\ watch.fill \in Nat
        /\ watch.turns \in Nat
    BY <1>1 DEF WatchType
  <2>4. watch.turns # 0 /\ ~(watch.anomalies > 0) /\ watch.estimate # "untrusted"
    BY <2>1, <2>3
  <2> QED BY <2>1, <2>2, <2>3, <2>4 DEF Undisturbed
<1>9. Strongest(watch) = "none"
  BY <1>8, StrongestIs
<1>10. /\ Decide(watch) = "Stop" <=> Stops(watch)
       /\ Decide(watch) = "Careful" <=> ~Stops(watch) /\ Cares(watch)
  BY <1>8, <1>9, WhenHeard
<1>11. \A n \in Nat \ {0} : watch.fill >= n <=> \E t \in turns : t.fill >= n
  <2>1. watch.fill > 0 => \E t \in turns : t.fill = watch.fill
    BY <1>3 DEF Justified
  <2>2. \A t \in turns : watch.fill >= t.fill
    BY <1>7
  <2> QED BY <1>4, <1>8, <2>1, <2>2
<1>12. Stops(watch) <=> Bad(turns)
  <2>1. watch.fill >= 8500 <=> \E t \in turns : t.fill >= 8500
    BY <1>11
  <2>2. watch.failed > 0 <=> \E t \in turns : t.status = "failed"
    BY <1>3, <1>7 DEF Justified
  <2>3. watch.incomplete > 0 <=> \E t \in turns : t.status = "incomplete"
    BY <1>3, <1>7 DEF Justified
  <2> QED BY <2>1, <2>2, <2>3 DEF Stops, StopContextPercent, Bad
<1>13. Cares(watch) <=> Poor(turns) \/ Fell(turns)
  <2>1. watch.fill >= 7000 <=> \E t \in turns : t.fill >= 7000
    BY <1>11
  <2>2. watch.unknown > 0 <=> \E t \in turns : t.status = "unknown"
    BY <1>3, <1>7 DEF Justified
  <2>3. watch.mismatch <=> \E t \in turns : t.mismatch
    BY <1>3, <1>7 DEF Justified
  <2> QED BY <2>1, <2>2, <2>3 DEF Cares, CarefulContextPercent, Poor, Fell
<1> QED BY <1>10, <1>12, <1>13 DEF turns

\* A watch client and status agree on a session without turns as well.
LEMMA NothingToJudge ==
  ASSUME RowsOK, OutboxOK, WatchOK, AtRest, removals = 0, rows = <<>>,
         NEW n, NEW s, s = [StatusFacts EXCEPT !.anomalies = 0, !.fill = n]
  PROVE  Decide(watch) \notin {"Stop", "Careful"} /\ Decide(s) = "Watching"
<1>1. Undisturbed(s) /\ ~s.observed
  BY DEF StatusFacts, NoFacts, Undisturbed
<1>2. Decide(s) = "Watching"
  BY <1>1, WhenUnheard
<1>3. watch \in WatchType /\ Justified(watch, Past) /\ queue = <<>>
  BY DEF WatchOK, AtRest
<1>4. Past = {}
  BY <1>3, RangeOfShort DEF Past
<1>5. /\ ~(watch.failed > 0) /\ ~(watch.incomplete > 0) /\ ~(watch.unknown > 0)
      /\ ~(watch.fill > 0) /\ ~watch.mismatch
  BY <1>3, <1>4 DEF Justified
<1>6. /\ Undisturbed(watch) /\ ~watch.ended /\ watch.estimate # "untrusted"
      /\ ~(watch.anomalies > 0) /\ watch.signals = {} /\ watch.fill \in Nat
  <2>1. /\ ~watch.block /\ ~watch.cooldown /\ ~watch.unavailable /\ ~watch.ended
        /\ watch.issues = {} /\ watch.signals = {}
    BY <1>3 DEF WatchType
  <2>2. watch.estimate = "absent" /\ watch.anomalies = 0 /\ watch.fill \in Nat
    BY <1>3 DEF WatchType
  <2>3. ~(watch.anomalies > 0) /\ watch.estimate # "untrusted"
    BY <2>2
  <2> QED BY <2>1, <2>2, <2>3 DEF Undisturbed
<1>7. CASE ~watch.observed \/ watch.turns = 0
  <2>1. Decide(watch) = "Watching"
    BY <1>6, <1>7, WhenUnheard
  <2> QED BY <1>2, <2>1
<1>8. CASE watch.observed /\ watch.turns # 0
  <2>1. Strongest(watch) = "none"
    BY <1>6, StrongestIs
  <2>2. ~Stops(watch) /\ ~Cares(watch)
    BY <1>5, <1>6 DEF Stops, Cares, StopContextPercent, CarefulContextPercent
  <2>3. Decide(watch) # "Stop" /\ Decide(watch) # "Careful"
    BY <1>6, <1>8, <2>1, <2>2, WhenHeard
  <2> QED BY <1>2, <2>3
<1> QED BY <1>7, <1>8

LEMMA StoppedAlike ==
  RowsOK /\ OutboxOK /\ WatchOK /\ LogOK => StopsAreShared
<1> SUFFICES ASSUME RowsOK, OutboxOK, WatchOK, LogOK PROVE StopsAreShared
  OBVIOUS
<1> DEFINE exact == Max({0} \cup {rows[i].fill : i \in DOMAIN rows})
           status == Decide([StatusFacts EXCEPT !.anomalies = 0, !.fill = exact])
<1>1. ASSUME AtRest, removals = 0, Len(log) <= EventLimit
      PROVE  /\ Decide(watch) = "Stop" <=> status = "Stop"
             /\ Decide(watch) = "Careful" <=> status = "Careful"
  <2>1. PICK s : s = [StatusFacts EXCEPT !.anomalies = 0, !.fill = exact]
    OBVIOUS
  <2>2. status = Decide(s)
    BY <2>1
  <2> HIDE DEF status
  <2>3. CASE rows = <<>>
    <3>1. Decide(watch) \notin {"Stop", "Careful"} /\ Decide(s) = "Watching"
      BY <1>1, <2>1, <2>3, NothingToJudge
    <3> QED BY <2>2, <3>1
  <2>4. CASE rows # <<>>
    <3> DEFINE turns == Range(rows)
    <3>1. /\ Decide(s) = "Stop" <=> Bad(turns)
          /\ Decide(s) = "Careful" <=> ~Bad(turns) /\ (Poor(turns) \/ Fell(turns))
      BY <1>1, <2>1, <2>4, StatusOfRows
    <3>2. /\ Decide(watch) = "Stop" <=> Bad(turns)
          /\ Decide(watch) = "Careful" <=> ~Bad(turns) /\ (Poor(turns) \/ Fell(turns))
      BY <1>1, <2>4, WatchOfRows
    <3> HIDE DEF turns
    <3> QED BY <2>2, <3>1, <3>2
  <2> QED BY <2>3, <2>4
<1>2. Decide(CompanionFacts) = "Stop" => Decide(StatusFacts) = "Stop"
  BY CompanionStops
<1> HIDE DEF exact
<1>3. \/ ~(AtRest /\ removals = 0 /\ Len(log) <= EventLimit)
      \/ /\ Decide(watch) = "Stop" <=> status = "Stop"
         /\ Decide(watch) = "Careful" <=> status = "Careful"
  BY <1>1
<1> QED BY <1>2, <1>3, Zenon DEF StopsAreShared, exact

(* A watcher and the database come to the same judgement, with any turns,  *)
(* tasks and policies: at rest in the first life of a session, what the    *)
(* tracker of a watch client heard and what the rows and coach events show *)
(* lead to Stop together and to Careful together, and the companion never  *)
(* stops where status does not.                                            *)
THEOREM StopsShared == Spec => []StopsAreShared
<1>1. IInv /\ RowsOK /\ OutboxOK /\ WatchOK /\ LogOK => StopsAreShared
  BY StoppedAlike
<1> QED BY <1>1, WatchAndLog, PTL

-----------------------------------------------------------------------------
(* The reports on a session while it is recorded.                          *)

\* The first n turns.
Upto(turns, n) == [i \in 1..n |-> turns[i]]

Paths ==
  [none |-> {<<>>},
   postmortem |-> {<<"evidence", "analyze", "store", "coach">>,
                   <<"analyze", "store", "coach">>, <<"store", "coach">>, <<"coach">>, <<>>},
   diagnosis |-> {<<"analyze", "store">>, <<"store">>, <<>>},
   sessions |-> {<<"list", "analyze", "store">>, <<"analyze", "store">>, <<"store">>, <<>>}]
Beginnings == {<<"evidence", "analyze", "store", "coach">>,
               <<"list", "analyze", "store">>}
Middles == {<<"analyze", "store", "coach">>, <<"analyze", "store">>}
Ends == {<<"coach">>, <<>>}

Shaped(report) ==
  /\ DOMAIN report = {"at", "kind", "from", "turns", "whole", "fresh", "listed",
                      "diagnosis", "coach"}
  /\ report = [field \in DOMAIN report |-> report[field]]

(* What a reader has read so far of a session that has the snapshots s:    *)
(* its turns and, later, its diagnosis are of the first of them, and it    *)
(* does without only if there was none when the request came in.           *)
Sound(report, s) ==
  /\ Shaped(report)
  /\ report.kind \in DOMAIN Paths /\ report.at \in Paths[report.kind]
  /\ report.whole \in BOOLEAN /\ report.fresh \in BOOLEAN
  /\ report.from \in 0..Len(s)
  /\ report.kind # "postmortem" => report.turns = <<>>
  /\ report.at \in Beginnings \cup Middles => ~report.fresh
  /\ report.at \in {<<"store", "coach">>, <<"store">>} => report.fresh
  /\ report.kind = "postmortem" /\ report.at \notin Beginnings /\ report.whole =>
       \E n \in 1..Len(s) : report.turns = Upto(s, n)
  /\ report.fresh => \E m \in 1..Len(s) :
       /\ report.diagnosis = Report(Upto(s, m)) /\ report.from <= m
       /\ report.kind = "postmortem" /\ report.whole => Len(report.turns) <= m
  /\ ~report.fresh /\ report.at \in Ends /\ report.kind # "none" =>
       /\ report.from = 0
       /\ report.kind = "postmortem" =>
            ~report.whole /\ (DirectTurn(report.turns) # 0 => report.diagnosis.degraded)

(* What is stored is a report on turns that were recorded.                 *)
TablesOK ==
  /\ requests \in Seq(TurnKind) /\ snapshots \in Seq(TurnKind)
  /\ Range(snapshots) \subseteq Range(requests)
  /\ step = "snapshot" => requests # <<>>
  /\ oldest \in Nat \ {0}
  /\ stored # NoReport =>
       \E s \in Seq(TurnKind) : /\ s # <<>> /\ Range(s) \subseteq Range(requests)
                                /\ stored = Report(s)
ReadersOK ==
  /\ DOMAIN reading = Reader /\ reading = [r \in Reader |-> reading[r]]
  /\ \A r \in Reader : Sound(reading[r], snapshots)

-----------------------------------------------------------------------------
LEMMA UptoIs ==
  ASSUME NEW s \in Seq(TurnKind), NEW n \in 0..Len(s)
  PROVE  /\ Upto(s, n) \in Seq(TurnKind) /\ Len(Upto(s, n)) = n
         /\ DOMAIN Upto(s, n) = 1..n /\ \A i \in 1..n : Upto(s, n)[i] = s[i]
         /\ Range(Upto(s, n)) \subseteq Range(s)
         /\ SubSeq(s, 1, n) = Upto(s, n)
<1>1. /\ n \in Nat /\ Len(s) \in Nat /\ DOMAIN s = 1..Len(s)
      /\ \A i \in 1..n : i \in 1..Len(s) /\ s[i] \in TurnKind
  OBVIOUS
<1>2. PICK u : u = [i \in 1..n |-> s[i]]
  OBVIOUS
<1>3. u \in Seq(TurnKind) /\ Len(u) = n /\ DOMAIN u = 1..n /\ \A i \in 1..n : u[i] = s[i]
  BY <1>1, <1>2
<1>4. Range(u) \subseteq Range(s)
  BY <1>1, <1>3 DEF Range
<1>5. SubSeq(s, 1, n) = [i \in 1..n |-> s[i]]
  BY <1>1
<1> QED BY <1>2, <1>3, <1>4, <1>5 DEF Upto

LEMMA UptoAll == ASSUME NEW s \in Seq(TurnKind) PROVE Upto(s, Len(s)) = s
<1>1. PICK n : n = Len(s)
  OBVIOUS
<1>2. n \in 0..Len(s)
  BY <1>1
<1>3. PICK u : u = Upto(s, n)
  OBVIOUS
<1>4. u \in Seq(TurnKind) /\ Len(u) = Len(s) /\ \A i \in 1..Len(s) : u[i] = s[i]
  BY <1>1, <1>2, <1>3, UptoIs
<1>5. u = s
  BY <1>4, SeqEqual
<1> QED BY <1>1, <1>3, <1>5

LEMMA UptoStays ==
  ASSUME NEW s \in Seq(TurnKind), NEW t \in TurnKind, NEW n \in 0..Len(s)
  PROVE  Upto(Append(s, t), n) = Upto(s, n)
<1>1. \A i \in 1..n : Append(s, t)[i] = s[i]
  OBVIOUS
<1> QED BY <1>1 DEF Upto

\* What was read stays sound while turns are added.
LEMMA StaysSound ==
  ASSUME NEW s \in Seq(TurnKind), NEW t \in TurnKind, NEW report, Sound(report, s)
  PROVE  Sound(report, Append(s, t))
<1>1. PICK u : u = Append(s, t)
  OBVIOUS
<1>2. /\ Len(u) = Len(s) + 1 /\ Len(s) \in Nat
      /\ \A n \in 1..Len(s) : n \in 1..Len(u) /\ Upto(u, n) = Upto(s, n)
  BY <1>1, UptoStays
<1>3. \A n \in 0..Len(s) : n \in 0..Len(u)
  BY <1>2
<1> QED BY <1>1, <1>2, <1>3 DEF Sound

LEMMA OutcomeIs ==
  ASSUME NEW s \in Seq(TurnKind), s # <<>>
  PROVE  Report(s).outcome \in {"completed", "partially", "abandoned"}
<1>1. s[Len(s)] \in TurnKind
  BY EmptySeq
<1>2. s[Len(s)].status \in Statuses
  BY <1>1, TurnAssumption DEF TurnType
<1>3. Outcome(s) \in {"completed", "partially", "abandoned"}
  BY <1>2 DEF Outcome, Statuses
<1> QED BY <1>3 DEF Report

LEMMA FallbackTells ==
  ASSUME TablesOK, NEW turns
  PROVE  DirectTurn(turns) # 0 =>
           (IF stored = NoReport THEN FromStatuses(turns) ELSE Patched(stored, turns)).degraded
<1> SUFFICES ASSUME DirectTurn(turns) # 0
             PROVE (IF stored = NoReport THEN FromStatuses(turns)
                    ELSE Patched(stored, turns)).degraded
  OBVIOUS
<1>1. CASE stored = NoReport
  BY <1>1 DEF FromStatuses
<1>2. CASE stored # NoReport
  <2>1. PICK s : stored = Report(s)
    BY <1>2 DEF TablesOK
  <2>2. CASE stored.degraded
    BY <1>2, <2>2 DEF Patched
  <2>3. CASE ~stored.degraded
    <3>1. Patched(stored, turns).degraded = (DirectTurn(turns) # 0)
      BY <2>1, <2>3 DEF Patched, Report
    <3> QED BY <1>2, <3>1
  <2> QED BY <2>2, <2>3
<1> QED BY <1>1, <1>2

-----------------------------------------------------------------------------
LEMMA ReportsInitially == ReportsInit => TablesOK /\ ReadersOK
<1> SUFFICES ASSUME ReportsInit PROVE TablesOK /\ ReadersOK
  OBVIOUS
<1>1. TablesOK
  BY RangeOfShort DEF ReportsInit, TablesOK
<1>2. PICK report : report = Idle
  OBVIOUS
<1>3. /\ report.at = <<>> /\ report.kind = "none" /\ report.from = 0
      /\ report.whole = TRUE /\ report.fresh = FALSE /\ report.turns = <<>>
  BY <1>2 DEF Idle
<1>4. Shaped(report)
  BY <1>2 DEF Idle, Shaped
<1>5. report.kind \in DOMAIN Paths /\ report.at \in Paths[report.kind]
  BY <1>3 DEF Paths
<1>6. report.at \notin {<<"store", "coach">>, <<"store">>}
  BY <1>3
<1>7. 0 \in 0..Len(<<>>)
  OBVIOUS
<1>8. Sound(report, <<>>)
  BY <1>3, <1>4, <1>5, <1>6, <1>7 DEF Sound
<1>9. \A r \in Reader : Sound(reading[r], snapshots)
  BY <1>2, <1>8 DEF ReportsInit
<1> QED BY <1>1, <1>9 DEF ReadersOK, ReportsInit

LEMMA WritingKeeps ==
  ASSUME TablesOK, ReadersOK, Write
  PROVE  TablesOK' /\ ReadersOK'
<1> USE DEF tables, writer
<1>1. ASSUME NEW t \in TurnKind, CommitRequest(t) PROVE TablesOK' /\ ReadersOK'
  <2>1. requests' = Append(requests, t) /\ UNCHANGED <<snapshots, stored, oldest, reading>>
    BY <1>1 DEF CommitRequest
  <2>2. Append(requests, t) \in Seq(TurnKind)
        /\ Range(requests) \subseteq Range(Append(requests, t))
    BY RangeOfAppend DEF TablesOK
  <2>3. Append(requests, t) # <<>>
    BY DEF TablesOK
  <2>4. TablesOK'
    BY <2>1, <2>2, <2>3 DEF TablesOK
  <2> QED BY <2>1, <2>4 DEF ReadersOK
<1>2. ASSUME NEW lost \in BOOLEAN, CommitSnapshot(lost) PROVE TablesOK' /\ ReadersOK'
  <2>1. PICK t : t = requests[Len(requests)]
    OBVIOUS
  <2>2. /\ UNCHANGED <<requests, stored, oldest, reading>> /\ step' = "events"
        /\ step = "snapshot"
        /\ snapshots' = snapshots \/ snapshots' = Append(snapshots, t)
    BY <1>2, <2>1 DEF CommitSnapshot
  <2>3. t \in TurnKind /\ t \in Range(requests)
    <3>1. requests \in Seq(TurnKind) /\ requests # <<>>
      BY <2>2 DEF TablesOK
    <3>2. Len(requests) \in DOMAIN requests
      BY <3>1, EmptySeq
    <3> QED BY <2>1, <3>1, <3>2 DEF Range
  <2>4. CASE snapshots' = snapshots
    BY <2>2, <2>4 DEF TablesOK, ReadersOK
  <2>5. CASE snapshots' = Append(snapshots, t)
    <3>1. snapshots \in Seq(TurnKind) /\ Range(snapshots) \subseteq Range(requests)
      BY DEF TablesOK
    <3>2. Append(snapshots, t) \in Seq(TurnKind)
          /\ Range(Append(snapshots, t)) \subseteq Range(requests)
      BY <2>3, <3>1, RangeOfAppend
    <3>3. TablesOK'
      BY <2>2, <2>5, <3>2 DEF TablesOK
    <3>4. \A r \in Reader : Sound(reading[r], Append(snapshots, t))
      BY <2>3, <3>1, StaysSound DEF ReadersOK
    <3> QED BY <2>2, <2>5, <3>3, <3>4 DEF ReadersOK
  <2> QED BY <2>2, <2>4, <2>5
<1>3. ASSUME CommitEvent \/ CommitTotals PROVE TablesOK' /\ ReadersOK'
  <2>1. UNCHANGED <<requests, snapshots, stored, oldest, reading>>
        /\ (step' = step \/ step' = "idle")
    BY <1>3 DEF CommitEvent, CommitTotals
  <2> QED BY <2>1 DEF TablesOK, ReadersOK
<1>4. ASSUME NEW last \in oldest..Len(requests), CommitLife(last)
      PROVE  TablesOK' /\ ReadersOK'
  <2>1. /\ UNCHANGED <<requests, snapshots, step, reading>> /\ oldest' = last + 1
        /\ stored' = Report(SubSeq(requests, oldest, last))
    BY <1>4 DEF CommitLife
  <2>2. requests \in Seq(TurnKind) /\ oldest \in Nat /\ oldest >= 1
    BY DEF TablesOK
  <2>3. PICK s : s = SubSeq(requests, oldest, last)
    OBVIOUS
  <2>4. s \in Seq(TurnKind) /\ s # <<>> /\ Range(s) \subseteq Range(requests)
    <3>1. /\ last \in Nat /\ last <= Len(requests) /\ last >= oldest
          /\ DOMAIN requests = 1..Len(requests)
      BY <2>2
    <3>2. PICK n : n = last - oldest + 1
      OBVIOUS
    <3>3. n \in Nat /\ n # 0 /\ \A i \in 1..n : oldest + i - 1 \in DOMAIN requests
      BY <2>2, <3>1, <3>2
    <3>4. s = [i \in 1..n |-> requests[oldest + i - 1]]
      <4>1. PICK first : first = oldest
        OBVIOUS
      <4>2. s = [i \in 1..(last - first + 1) |-> requests[i + first - 1]]
        BY <2>2, <2>3, <3>1, <4>1
      <4>3. \A i \in 1..n : requests[i + first - 1] = requests[first + i - 1]
        BY <2>2, <4>1
      <4>4. s = [i \in 1..n |-> requests[i + first - 1]]
        BY <4>1, <4>2, <3>2
      <4>5. s = [i \in 1..n |-> requests[first + i - 1]]
        BY ONLY <4>3, <4>4
      <4> QED BY <4>1, <4>5
    <3>5. \A i \in 1..n : requests[oldest + i - 1] \in TurnKind
      <4>1. \A j \in DOMAIN requests : requests[j] \in TurnKind
        BY <2>2
      <4> QED BY ONLY <3>3, <4>1
    <3>6. s \in Seq(TurnKind) /\ DOMAIN s = 1..n /\ Len(s) = n
      BY <3>3, <3>4, <3>5
    <3>7. s # <<>>
      BY <3>3, <3>6
    <3>8. Range(s) \subseteq Range(requests)
      BY <3>3, <3>4, <3>6 DEF Range
    <3> QED BY <3>6, <3>7, <3>8
  <2>5. last + 1 \in Nat \ {0}
    BY <2>2
  <2>6. TablesOK'
    BY <2>1, <2>3, <2>4, <2>5 DEF TablesOK
  <2> QED BY <2>1, <2>6 DEF ReadersOK
<1> QED BY <1>1, <1>2, <1>3, <1>4 DEF Write

\* The shape of a report survives each of its steps.
LEMMA StillShaped ==
  ASSUME NEW report, Shaped(report), NEW a, NEW b, NEW c
  PROVE  /\ Shaped([report EXCEPT !.at = a])
         /\ Shaped([report EXCEPT !.at = a, !.diagnosis = b])
         /\ Shaped([report EXCEPT !.at = a, !.diagnosis = b, !.fresh = c])
         /\ Shaped([report EXCEPT !.at = a, !.listed = b])
         /\ Shaped([report EXCEPT !.at = a, !.turns = b, !.whole = c])
         /\ Shaped([report EXCEPT !.at = a, !.coach = b])
<1> QED BY DEF Shaped

\* A reader's step leaves the other readers alone.
LEMMA OthersStay ==
  ASSUME ReadersOK, NEW r \in Reader, NEW report, Put(r, report),
         Sound(report, snapshots), UNCHANGED snapshots
  PROVE  ReadersOK'
<1>1. PICK u : u = reading'
  OBVIOUS
<1>2. u = [reading EXCEPT ![r] = report]
  BY <1>1 DEF Put
<1>3. DOMAIN reading = Reader
  BY DEF ReadersOK
<1>4. DOMAIN u = Reader /\ u = [q \in Reader |-> u[q]]
  BY <1>2, <1>3
<1>5. \A q \in Reader : u[q] = IF q = r THEN report ELSE reading[q]
  BY <1>2, <1>3
<1>6. \A q \in Reader : Sound(u[q], snapshots)
  BY <1>5 DEF ReadersOK
<1> QED BY <1>1, <1>4, <1>6 DEF ReadersOK

LEMMA AskingKeeps ==
  ASSUME TablesOK, ReadersOK, NEW r \in Reader, NEW kind \in DOMAIN Queries, Ask(r, kind)
  PROVE  TablesOK' /\ ReadersOK'
<1>1. UNCHANGED <<requests, snapshots, stored, step, oldest>>
  BY DEF Ask, tables, writer
<1>2. PICK report : report = [Idle EXCEPT !.at = Queries[kind], !.kind = kind,
                                          !.from = Len(snapshots)]
  OBVIOUS
<1>3. Put(r, report)
  BY <1>2 DEF Ask
<1>4. /\ report.at = Queries[kind] /\ report.kind = kind /\ report.from = Len(snapshots)
      /\ report.whole = TRUE /\ report.fresh = FALSE /\ report.turns = <<>>
  BY <1>2 DEF Idle
<1>5. Shaped(report)
  BY <1>2 DEF Idle, Shaped
<1>6. kind \in {"postmortem", "diagnosis", "sessions"}
  BY DEF Queries
<1>7. kind \in DOMAIN Paths /\ Queries[kind] \in Paths[kind]
  BY <1>6 DEF Paths, Queries
<1>8. /\ Queries[kind] \notin {<<"store", "coach">>, <<"store">>}
      /\ Queries[kind] \notin Ends
      /\ kind = "postmortem" => Queries[kind] \in Beginnings
  BY <1>6 DEF Queries, Ends, Beginnings
<1>9. Len(snapshots) \in 0..Len(snapshots)
  BY DEF TablesOK
<1>10. Sound(report, snapshots)
  BY <1>4, <1>5, <1>7, <1>8, <1>9 DEF Sound
<1>11. ReadersOK'
  BY <1>1, <1>3, <1>10, OthersStay
<1> QED BY <1>1, <1>11 DEF TablesOK

LEMMA EvidenceKeeps ==
  ASSUME TablesOK, ReadersOK, NEW r \in Reader, ReadEvidence(r)
  PROVE  TablesOK' /\ ReadersOK'
<1>1. UNCHANGED <<requests, snapshots, stored, step, oldest>>
  BY DEF ReadEvidence, tables, writer
<1>2. PICK old : old = reading[r]
  OBVIOUS
<1>3. Sound(old, snapshots) /\ At(r, "evidence")
  BY <1>2 DEF ReadersOK, ReadEvidence
<1>4. old.kind = "postmortem" /\ old.at = <<"evidence", "analyze", "store", "coach">>
  BY <1>2, <1>3 DEF Sound, At, Done, Paths
<1>5. PICK bare : Put(r, [old EXCEPT !.at = <<"analyze", "store", "coach">>,
                                     !.turns = IF snapshots = <<>> THEN bare ELSE snapshots,
                                     !.whole = snapshots # <<>>])
  <2>1. Tail(old.at) = <<"analyze", "store", "coach">>
    BY <1>4
  <2> QED BY <1>2, <2>1 DEF ReadEvidence, Next1
<1>6. PICK turns : turns = IF snapshots = <<>> THEN bare ELSE snapshots
  OBVIOUS
<1>7. PICK whole \in BOOLEAN : whole <=> (snapshots # <<>>)
  OBVIOUS
<1>8. PICK report : report = [old EXCEPT !.at = <<"analyze", "store", "coach">>,
                                         !.turns = turns, !.whole = whole]
  OBVIOUS
<1>9. Put(r, report)
  <2>1. whole = (snapshots # <<>>)
    BY <1>7
  <2> QED BY <1>5, <1>6, <2>1, <1>8
<1>10. Shaped(report)
  BY <1>3, <1>8, StillShaped DEF Sound
<1>11. /\ report.at = <<"analyze", "store", "coach">> /\ report.kind = "postmortem"
       /\ report.from = old.from /\ report.fresh = old.fresh /\ report.turns = turns
       /\ report.whole = whole
  BY <1>3, <1>4, <1>8 DEF Sound, Shaped
<1>12. /\ report.at \in Middles /\ report.at \notin Ends /\ report.at \notin Beginnings
       /\ report.at \notin {<<"store", "coach">>, <<"store">>}
       /\ report.kind \in DOMAIN Paths /\ report.at \in Paths[report.kind]
  BY <1>11 DEF Middles, Ends, Beginnings, Paths
<1>13. ~old.fresh
  BY <1>3, <1>4 DEF Sound, Beginnings
<1>14. old.from \in 0..Len(snapshots) /\ old.fresh \in BOOLEAN
  BY <1>3 DEF Sound
<1>15. whole => \E n \in 1..Len(snapshots) : turns = Upto(snapshots, n)
  <2>1. SUFFICES ASSUME snapshots # <<>>
                 PROVE  \E n \in 1..Len(snapshots) : snapshots = Upto(snapshots, n)
    BY <1>6, <1>7
  <2>2. snapshots \in Seq(TurnKind)
    BY DEF TablesOK
  <2>3. Len(snapshots) \in 1..Len(snapshots)
    BY <2>1, <2>2, EmptySeq
  <2> QED BY <2>2, <2>3, UptoAll
<1>16. Sound(report, snapshots)
  BY <1>10, <1>11, <1>12, <1>13, <1>14, <1>15 DEF Sound
<1>17. ReadersOK'
  BY <1>1, <1>9, <1>16, OthersStay
<1> QED BY <1>1, <1>17 DEF TablesOK

\* What is left of a path after its next step.
LEMMA TailsOfPaths ==
  /\ Tail(<<"analyze", "store", "coach">>) = <<"store", "coach">>
  /\ Tail(<<"analyze", "store">>) = <<"store">>
  /\ Tail(<<"store", "coach">>) = <<"coach">> /\ Tail(<<"store">>) = <<>>
<1> QED OBVIOUS

\* Whatever is stored, the session list reads on.
LEMMA AlwaysRefreshed == TablesOK => NeedsRefresh(stored)
<1> SUFFICES ASSUME TablesOK, stored # NoReport
             PROVE  stored.outcome \in {"completed", "partially", "abandoned"}
  BY DEF NeedsRefresh
<1>1. PICK s \in Seq(TurnKind) : s # <<>> /\ stored = Report(s)
  BY DEF TablesOK
<1> QED BY <1>1, OutcomeIs

LEMMA ListKeeps ==
  ASSUME TablesOK, ReadersOK, NEW r \in Reader, ReadList(r)
  PROVE  TablesOK' /\ ReadersOK'
<1>1. UNCHANGED <<requests, snapshots, stored, step, oldest>>
  BY DEF ReadList, tables, writer
<1>2. PICK old : old = reading[r]
  OBVIOUS
<1>3. Sound(old, snapshots) /\ At(r, "list")
  BY <1>2 DEF ReadersOK, ReadList
<1>4. old.kind = "sessions" /\ old.at = <<"list", "analyze", "store">>
  BY <1>2, <1>3 DEF Sound, At, Done, Paths
<1>5. PICK report : report = [old EXCEPT !.at = <<"analyze", "store">>, !.listed = stored]
  OBVIOUS
<1>6. Put(r, report)
  <2>1. Tail(old.at) = <<"analyze", "store">>
    BY <1>4
  <2>2. NeedsRefresh(stored)
    BY AlwaysRefreshed
  <2> QED BY <1>2, <1>5, <2>1, <2>2 DEF ReadList, Next1
<1>7. Shaped(report)
  BY <1>3, <1>5, StillShaped DEF Sound
<1>8. /\ report.at = <<"analyze", "store">> /\ report.kind = "sessions"
      /\ report.from = old.from /\ report.fresh = old.fresh /\ report.whole = old.whole
      /\ report.turns = old.turns
  BY <1>3, <1>4, <1>5 DEF Sound, Shaped
<1>9. /\ report.at \notin Ends /\ report.at \notin {<<"store", "coach">>, <<"store">>}
      /\ report.kind \in DOMAIN Paths /\ report.at \in Paths[report.kind]
  BY <1>8 DEF Ends, Paths
<1>10. ~old.fresh
  BY <1>3, <1>4 DEF Sound, Beginnings
<1>11. /\ old.from \in 0..Len(snapshots) /\ old.fresh \in BOOLEAN /\ old.whole \in BOOLEAN
       /\ old.kind # "postmortem" => old.turns = <<>>
  BY <1>3 DEF Sound
<1>12. Sound(report, snapshots)
  <2>1. report.turns = <<>> /\ report.kind # "postmortem" /\ report.kind # "none"
    BY <1>4, <1>8, <1>11
  <2>2. ~report.fresh /\ report.fresh \in BOOLEAN /\ report.whole \in BOOLEAN
        /\ report.from \in 0..Len(snapshots)
    BY <1>8, <1>10, <1>11
  <2> QED BY <1>7, <1>9, <2>1, <2>2 DEF Sound
<1>13. ReadersOK'
  BY <1>1, <1>6, <1>12, OthersStay
<1> QED BY <1>1, <1>13 DEF TablesOK

LEMMA AnalyzeKeeps ==
  ASSUME TablesOK, ReadersOK, NEW r \in Reader, Analyze(r)
  PROVE  TablesOK' /\ ReadersOK'
<1>1. UNCHANGED <<requests, snapshots, stored, step, oldest>>
  BY DEF Analyze, tables, writer
<1>2. PICK old : old = reading[r]
  OBVIOUS
<1>3. Sound(old, snapshots) /\ At(r, "analyze")
  BY <1>2 DEF ReadersOK, Analyze
<1>4. \/ old.kind = "postmortem" /\ old.at = <<"analyze", "store", "coach">>
      \/ old.kind \in {"diagnosis", "sessions"} /\ old.at = <<"analyze", "store">>
  BY <1>2, <1>3 DEF Sound, At, Done, Paths
<1>5. /\ old.at \in Middles /\ old.at \notin Beginnings
      /\ old.kind \in DOMAIN Paths
  BY <1>4 DEF Middles, Beginnings, Paths
<1>6. /\ ~old.fresh /\ old.from \in 0..Len(snapshots) /\ old.whole \in BOOLEAN /\ Shaped(old)
      /\ old.kind # "postmortem" => old.turns = <<>>
  BY <1>3, <1>5 DEF Sound
<1>7. old.kind = "postmortem" /\ old.whole =>
        \E n \in 1..Len(snapshots) : old.turns = Upto(snapshots, n)
  BY <1>3, <1>5 DEF Sound
<1>8. snapshots \in Seq(TurnKind) /\ Len(snapshots) \in Nat
  BY DEF TablesOK
<1>9. CASE snapshots # <<>>
  <2>1. PICK d : d = Report(snapshots)
    OBVIOUS
  <2>2. PICK ahead : ahead = Tail(old.at)
    OBVIOUS
  <2>3. PICK report : report = [old EXCEPT !.at = ahead, !.diagnosis = d, !.fresh = TRUE]
    OBVIOUS
  <2>4. Put(r, report)
    <3>1. Put(r, [[old EXCEPT !.at = Tail(@)] EXCEPT !.diagnosis = Report(snapshots),
                                                     !.fresh = TRUE])
      BY <1>2, <1>9 DEF Analyze, Next1
    <3>2. [[old EXCEPT !.at = Tail(@)] EXCEPT !.diagnosis = d, !.fresh = TRUE] = report
      BY <2>2, <2>3, <1>6 DEF Shaped
    <3> QED BY <2>1, <3>1, <3>2
  <2>5. Shaped(report)
    BY <1>6, <2>3, StillShaped
  <2>6. /\ report.at = ahead /\ report.kind = old.kind /\ report.from = old.from
        /\ report.turns = old.turns /\ report.whole = old.whole /\ report.fresh = TRUE
        /\ report.diagnosis = d
    BY <1>6, <2>3 DEF Shaped
  <2>7. /\ ahead \in {<<"store", "coach">>, <<"store">>}
        /\ ahead \in Paths[old.kind] /\ ahead \notin Beginnings \cup Middles
    <3>1. \/ old.kind = "postmortem" /\ ahead = <<"store", "coach">>
          \/ old.kind \in {"diagnosis", "sessions"} /\ ahead = <<"store">>
      BY <1>4, <2>2, TailsOfPaths
    <3>2. ahead \notin Beginnings \cup Middles
      BY <3>1 DEF Beginnings, Middles
    <3> QED BY <3>1, <3>2 DEF Paths
  <2>8. Len(snapshots) \in 1..Len(snapshots)
    BY <1>8, <1>9, EmptySeq
  <2>9. d = Report(Upto(snapshots, Len(snapshots))) /\ old.from <= Len(snapshots)
    BY <1>6, <1>8, <2>1, UptoAll
  <2>10. old.kind = "postmortem" /\ old.whole => Len(old.turns) <= Len(snapshots)
    <3>1. SUFFICES ASSUME NEW n \in 1..Len(snapshots)
                   PROVE  Len(Upto(snapshots, n)) <= Len(snapshots)
      BY <1>7
    <3>2. n \in 0..Len(snapshots) /\ n <= Len(snapshots)
      BY <1>8
    <3>3. Len(Upto(snapshots, n)) = n
      BY <1>8, <3>2, UptoIs
    <3> QED BY <3>2, <3>3
  <2>11. Sound(report, snapshots)
    <3>1. \E m \in 1..Len(snapshots) :
            /\ d = Report(Upto(snapshots, m)) /\ old.from <= m
            /\ old.kind = "postmortem" /\ old.whole => Len(old.turns) <= m
      BY <2>8, <2>9, <2>10
    <3> QED BY <1>5, <1>6, <1>7, <2>5, <2>6, <2>7, <3>1 DEF Sound
  <2>12. ReadersOK'
    BY <1>1, <2>4, <2>11, OthersStay
  <2> QED BY <1>1, <2>12 DEF TablesOK
<1>10. CASE snapshots = <<>>
  <2>1. PICK d : d = IF old.kind = "sessions" THEN old.listed
                     ELSE IF old.kind = "diagnosis" THEN stored
                     ELSE IF stored = NoReport THEN FromStatuses(old.turns)
                     ELSE Patched(stored, old.turns)
    OBVIOUS
  <2>2. PICK ahead : ahead = Tail(Tail(old.at))
    OBVIOUS
  <2>3. PICK report : report = [old EXCEPT !.at = ahead, !.diagnosis = d]
    OBVIOUS
  <2>4. Put(r, report)
    <3>1. Put(r, [old EXCEPT !.at = Tail(Tail(@)), !.diagnosis = d])
      BY <1>2, <1>10, <2>1 DEF Analyze
    <3> QED BY <2>2, <2>3, <3>1
  <2>5. Shaped(report)
    BY <1>6, <2>3, StillShaped
  <2>6. /\ report.at = ahead /\ report.kind = old.kind /\ report.from = old.from
        /\ report.turns = old.turns /\ report.whole = old.whole /\ report.fresh = old.fresh
        /\ report.diagnosis = d
    BY <1>6, <2>3 DEF Shaped
  <2>7. /\ ahead \notin {<<"store", "coach">>, <<"store">>}
        /\ ahead \in Paths[old.kind] /\ ahead \notin Beginnings
    <3>1. \/ old.kind = "postmortem" /\ ahead = <<"coach">>
          \/ old.kind \in {"diagnosis", "sessions"} /\ ahead = <<>>
      BY <1>4, <2>2, TailsOfPaths
    <3>2. ahead \notin Beginnings
      BY <3>1 DEF Beginnings
    <3> QED BY <3>1, <3>2 DEF Paths
  <2>8. old.from = 0 /\ (old.kind = "postmortem" => ~old.whole)
    <3>1. Len(snapshots) = 0
      BY <1>10
    <3> QED BY <3>1, <1>6, <1>7
  <2>9. old.kind = "postmortem" => (DirectTurn(old.turns) # 0 => d.degraded)
    BY <2>1, FallbackTells
  <2>10. old.fresh \in BOOLEAN
    BY <1>3 DEF Sound
  <2>11. Sound(report, snapshots)
    BY <1>5, <1>6, <2>5, <2>6, <2>7, <2>8, <2>9, <2>10 DEF Sound
  <2>12. ReadersOK'
    BY <1>1, <2>4, <2>11, OthersStay
  <2> QED BY <1>1, <2>12 DEF TablesOK
<1> QED BY <1>9, <1>10

LEMMA StoreKeeps ==
  ASSUME TablesOK, ReadersOK, NEW r \in Reader, Store(r)
  PROVE  TablesOK' /\ ReadersOK'
<1>1. UNCHANGED <<requests, snapshots, step, oldest>> /\ stored' = reading[r].diagnosis
  BY DEF Store, writer
<1>2. PICK old : old = reading[r]
  OBVIOUS
<1>3. Sound(old, snapshots) /\ At(r, "store")
  BY <1>2 DEF ReadersOK, Store
<1>4. \/ old.kind = "postmortem" /\ old.at = <<"store", "coach">>
      \/ old.kind \in {"diagnosis", "sessions"} /\ old.at = <<"store">>
  BY <1>2, <1>3 DEF Sound, At, Done, Paths
<1>5. /\ old.fresh /\ old.from \in 0..Len(snapshots) /\ old.whole \in BOOLEAN
      /\ Shaped(old) /\ old.fresh \in BOOLEAN /\ old.kind \in DOMAIN Paths
      /\ old.kind # "postmortem" => old.turns = <<>>
  BY <1>3, <1>4 DEF Sound
<1>6. PICK m \in 1..Len(snapshots) :
        /\ old.diagnosis = Report(Upto(snapshots, m)) /\ old.from <= m
        /\ old.kind = "postmortem" /\ old.whole => Len(old.turns) <= m
  BY <1>3, <1>5 DEF Sound
<1>7. old.kind = "postmortem" /\ old.whole =>
        \E n \in 1..Len(snapshots) : old.turns = Upto(snapshots, n)
  BY <1>3, <1>4 DEF Sound, Beginnings
<1>8. PICK ahead : ahead = Tail(old.at)
  OBVIOUS
<1>9. PICK report : report = [old EXCEPT !.at = ahead]
  OBVIOUS
<1>10. Put(r, report)
  BY <1>2, <1>8, <1>9 DEF Store, Next1
<1>11. Shaped(report)
  BY <1>5, <1>9, StillShaped
<1>12. /\ report.at = ahead /\ report.kind = old.kind /\ report.from = old.from
       /\ report.turns = old.turns /\ report.whole = old.whole /\ report.fresh = old.fresh
       /\ report.diagnosis = old.diagnosis
  BY <1>5, <1>9 DEF Shaped
<1>13. ahead \in Paths[old.kind] /\ ahead \notin Beginnings \cup Middles
       /\ ahead \notin {<<"store", "coach">>, <<"store">>}
  <2>1. \/ old.kind = "postmortem" /\ ahead = <<"coach">>
        \/ old.kind \in {"diagnosis", "sessions"} /\ ahead = <<>>
    BY <1>4, <1>8, TailsOfPaths
  <2>2. ahead \notin Beginnings \cup Middles
    BY <2>1 DEF Beginnings, Middles
  <2> QED BY <2>1, <2>2 DEF Paths
<1>14. Sound(report, snapshots)
  BY <1>5, <1>6, <1>7, <1>11, <1>12, <1>13 DEF Sound
<1>15. ReadersOK'
  BY <1>1, <1>10, <1>14, OthersStay
<1>16. PICK s : s = Upto(snapshots, m)
  OBVIOUS
<1>17. snapshots \in Seq(TurnKind) /\ m \in 0..Len(snapshots) /\ m # 0
       /\ Range(snapshots) \subseteq Range(requests)
  BY DEF TablesOK
<1>18. s \in Seq(TurnKind) /\ Len(s) = m /\ Range(s) \subseteq Range(requests)
  BY <1>16, <1>17, UptoIs
<1>19. s # <<>> /\ stored' = Report(s)
  BY <1>1, <1>2, <1>6, <1>16, <1>17, <1>18, EmptySeq
<1>20. TablesOK'
  BY <1>1, <1>18, <1>19 DEF TablesOK
<1> QED BY <1>15, <1>20

LEMMA CoachKeeps ==
  ASSUME TablesOK, ReadersOK, NEW r \in Reader, ReadCoach(r)
  PROVE  TablesOK' /\ ReadersOK'
<1>1. UNCHANGED <<requests, snapshots, stored, step, oldest>>
  BY DEF ReadCoach, tables, writer
<1>2. PICK old : old = reading[r]
  OBVIOUS
<1>3. Sound(old, snapshots) /\ At(r, "coach")
  BY <1>2 DEF ReadersOK, ReadCoach
<1>4. old.kind = "postmortem" /\ old.at = <<"coach">>
  BY <1>2, <1>3 DEF Sound, At, Done, Paths
<1>5. PICK coach : Put(r, [[old EXCEPT !.at = Tail(@)] EXCEPT !.coach = coach])
  BY <1>2 DEF ReadCoach, Next1
<1>6. PICK report : report = [old EXCEPT !.at = <<>>, !.coach = coach]
  OBVIOUS
<1>7. Shaped(old)
  BY <1>3 DEF Sound
<1>8. Put(r, report)
  <2>1. Tail(old.at) = <<>>
    BY <1>4
  <2>2. [[old EXCEPT !.at = Tail(@)] EXCEPT !.coach = coach] = report
    BY <1>6, <1>7, <2>1 DEF Shaped
  <2> QED BY <1>5, <2>2
<1>9. Shaped(report)
  BY <1>6, <1>7, StillShaped
<1>10. /\ report.at = <<>> /\ report.kind = old.kind /\ report.from = old.from
       /\ report.turns = old.turns /\ report.whole = old.whole /\ report.fresh = old.fresh
       /\ report.diagnosis = old.diagnosis
  BY <1>6, <1>7 DEF Shaped
<1>11. /\ old.at \in Ends /\ old.at \notin Beginnings
       /\ <<>> \in Paths[old.kind] /\ <<>> \notin Beginnings \cup Middles
       /\ <<>> \notin {<<"store", "coach">>, <<"store">>}
  BY <1>4 DEF Paths, Beginnings, Middles, Ends
<1>12. Sound(report, snapshots)
  BY <1>3, <1>4, <1>9, <1>10, <1>11 DEF Sound
<1>13. ReadersOK'
  BY <1>1, <1>8, <1>12, OthersStay
<1> QED BY <1>1, <1>13 DEF TablesOK

LEMMA ReportsInvariant == ReportsSpec => [](TablesOK /\ ReadersOK)
<1>1. ReportsInit => TablesOK /\ ReadersOK
  BY ReportsInitially
<1>2. TablesOK /\ ReadersOK /\ [ReportsNext]_reportsVars => TablesOK' /\ ReadersOK'
  <2> SUFFICES ASSUME TablesOK, ReadersOK, [ReportsNext]_reportsVars
               PROVE  TablesOK' /\ ReadersOK'
    OBVIOUS
  <2>1. CASE Write
    BY <2>1, WritingKeeps
  <2>2. ASSUME NEW r \in Reader, Read(r) PROVE TablesOK' /\ ReadersOK'
    BY <2>2, AskingKeeps, EvidenceKeeps, ListKeeps, AnalyzeKeeps, StoreKeeps, CoachKeeps
       DEF Read
  <2>3. CASE UNCHANGED reportsVars
    BY <2>3 DEF reportsVars, tables, writer, TablesOK, ReadersOK
  <2> QED BY <2>1, <2>2, <2>3 DEF ReportsNext
<1> QED BY <1>1, <1>2, PTL DEF ReportsSpec

-----------------------------------------------------------------------------
(* No report is out of date when it is asked for, with any number of       *)
(* readers, turns, lost snapshots and ended lives (build_fresh_diagnosis_  *)
(* report, persist_session_diagnosis_report).                              *)
THEOREM ReportsStayCurrent == ReportsSpec => []ReportsAreCurrent
<1>1. TablesOK /\ ReadersOK => ReportsAreCurrent
  <2> SUFFICES ASSUME TablesOK, ReadersOK, NEW r \in Reader, Done(r),
                      reading[r].kind # "none", reading[r].from > 0
               PROVE  reading[r].diagnosis.total >= reading[r].from
    BY DEF ReportsAreCurrent
  <2>1. PICK old : old = reading[r]
    OBVIOUS
  <2>2. Sound(old, snapshots) /\ old.at = <<>> /\ old.kind # "none" /\ old.from > 0
    BY <2>1 DEF ReadersOK, Done
  <2>3. old.fresh
    BY <2>2 DEF Sound, Ends
  <2>4. PICK m \in 1..Len(snapshots) :
          old.diagnosis = Report(Upto(snapshots, m)) /\ old.from <= m
    BY <2>2, <2>3 DEF Sound
  <2>5. snapshots \in Seq(TurnKind) /\ m \in 0..Len(snapshots) /\ m \in Nat
        /\ old.from \in Nat
    BY <2>2 DEF TablesOK, Sound
  <2>6. Len(Upto(snapshots, m)) = m
    BY <2>5, UptoIs
  <2>7. old.diagnosis.total = m
    BY <2>4, <2>6 DEF Report
  <2> QED BY <2>1, <2>4, <2>5, <2>7
<1> QED BY <1>1, ReportsInvariant, PTL

-----------------------------------------------------------------------------
\* A turn shows a kind that degrades exactly if it has its flag.
LEMMA ShownIsFlagged ==
  ASSUME NEW t, NEW kind \in FirmKinds
  PROVE  Shows(t, kind) <=> kind \in Flags(t)
<1>1. CASE kind = "failed"
  BY <1>1 DEF Shows, Flags, FirmKinds
<1>2. CASE kind = "incomplete"
  BY <1>2 DEF Shows, Flags, FirmKinds
<1>3. CASE kind = "model_mismatch"
  BY <1>3 DEF Shows, Flags, FirmKinds
<1>4. CASE kind = "accounting_anomaly"
  BY <1>4 DEF Shows, Flags, FirmKinds
<1> QED BY <1>1, <1>2, <1>3, <1>4 DEF FirmKinds

(* The stored report calls a session degraded only for kinds of causes its *)
(* recorded turns show, whoever stored it and however stale it is          *)
(* (analyze_session, codex_envoy_public_degradation).                      *)
THEOREM HistoryIsTrue == ReportsSpec => []HistoryNeverInvents
<1>1. TablesOK => HistoryNeverInvents
  <2> SUFFICES ASSUME TablesOK, stored # NoReport
               PROVE  /\ stored.degraded <=> Firm(stored.causes) # {}
                      /\ \A c \in Firm(stored.causes) :
                           \E i \in DOMAIN requests : c.kind \in Flags(requests[i])
    BY DEF HistoryNeverInvents
  <2>1. PICK s \in Seq(TurnKind) : Range(s) \subseteq Range(requests) /\ stored = Report(s)
    BY DEF TablesOK
  <2>2. stored.causes = Causes(s)
    BY <2>1 DEF Report
  <2>3. stored.degraded <=> Firm(stored.causes) # {}
    BY <2>1 DEF Report, Degraded
  <2>4. ASSUME NEW c \in Firm(Causes(s))
        PROVE  \E i \in DOMAIN requests : c.kind \in Flags(requests[i])
    <3>1. c.kind \in FirmKinds /\ c.turn \in DOMAIN s /\ Shows(s[c.turn], c.kind)
      BY FirmIs DEF First
    <3>2. s[c.turn] \in Range(requests)
      BY <2>1, <3>1 DEF Range
    <3>3. PICK i \in DOMAIN requests : s[c.turn] = requests[i]
      BY <3>2 DEF Range
    <3> QED BY <3>1, <3>3, ShownIsFlagged
  <2> QED BY <2>2, <2>3, <2>4
<1> QED BY <1>1, ReportsInvariant, PTL

-----------------------------------------------------------------------------
(* The evidence against the causes.                                        *)

TokenFields == {"input", "cached", "output", "reasoning", "anomalies"}

LEMMA TallyIsNatural ==
  ASSUME NEW turns \in Seq(TurnKind), NEW field \in TokenFields
  PROVE  Tally(turns, field) \in Nat
<1>1. PICK f : f = [i \in DOMAIN turns |-> turns[i][field]]
  OBVIOUS
<1>2. \A i \in DOMAIN turns : turns[i] \in TurnType
  BY TurnAssumption
<1>3. \A t \in TurnType : t[field] \in Nat
  BY DEF TurnType, TokenFields
<1>4. DOMAIN f = DOMAIN turns /\ \A i \in DOMAIN f : f[i] \in Nat
  BY <1>1, <1>2, <1>3
<1>5. IsFiniteSet(DOMAIN f)
  BY <1>4, TurnsAreFinite
<1>6. SumFunction(f) \in Nat
  BY <1>4, <1>5, SumGrows
<1> QED BY <1>1, <1>6 DEF Tally

\* The evidence and the diagnosis read a turn alike.
LEMMA IndicatedIsShown ==
  ASSUME NEW t, NEW kind \in FirmKinds \cup TurnHeuristics
  PROVE  Indicates(t, kind) <=> Shows(t, kind)
<1>1. CASE kind = "failed"
  BY <1>1, Zenon DEF Shows, Indicates
<1>2. CASE kind = "incomplete"
  BY <1>2, Zenon DEF Shows, Indicates
<1>3. CASE kind = "model_mismatch"
  BY <1>3, Zenon DEF Shows, Indicates
<1>4. CASE kind = "accounting_anomaly"
  BY <1>4, Zenon DEF Shows, Indicates
<1>5. CASE kind = "high_context_fill"
  BY <1>5, Zenon DEF Shows, Indicates
<1>6. CASE kind = "high_reasoning_share"
  BY <1>6, Zenon DEF Shows, Indicates
<1> QED BY <1>1, <1>2, <1>3, <1>4, <1>5, <1>6 DEF FirmKinds, TurnHeuristics

\* What a turn shows has a cause, at that turn or before.
LEMMA ShownHasCause ==
  ASSUME NEW turns \in Seq(TurnKind), NEW i \in DOMAIN turns,
         NEW kind \in FirmKinds \cup TurnHeuristics, Shows(turns[i], kind)
  PROVE  \E c \in TurnCauses(turns) : c.kind = kind /\ c.turn <= i
<1> DEFINE T == {j \in DOMAIN turns : Shows(turns[j], kind)}
<1>1. DOMAIN turns = 1..Len(turns) /\ Len(turns) \in Nat
  BY LenProperties
<1>2. T \subseteq Nat /\ i \in T
  BY <1>1
<1>3. PICK j \in T : \A k \in T : j <= k
  <2> HIDE DEF T
  <2> QED BY <1>2, LeastNumber
<1>4. First(turns, j, kind)
  <2>1. \A k \in 1..(j - 1) : k \in DOMAIN turns /\ ~(j <= k)
    BY <1>1
  <2>2. \A k \in 1..(j - 1) : ~Shows(turns[k], kind)
    BY <2>1, <1>3
  <2> QED BY <2>2 DEF First
<1>5. PICK c : c = [kind |-> kind, turn |-> j]
  OBVIOUS
<1>6. /\ c.kind = kind /\ c.turn = j
      /\ c \in [kind : FirmKinds \cup TurnHeuristics, turn : DOMAIN turns]
  BY <1>5
<1>7. c \in TurnCauses(turns)
  BY <1>4, <1>6 DEF TurnCauses
<1>8. j <= i
  BY <1>2, <1>3
<1> QED BY <1>6, <1>7, <1>8

\* The causes that turns show are those of the set.
LEMMA JudgedCauses ==
  ASSUME NEW turns, NEW c
  PROVE  /\ c \in TurnCauses(turns) <=>
              c \in Causes(turns) /\ c.kind \in FirmKinds \cup TurnHeuristics
         /\ c \in Causes(turns) /\ c.kind \notin FirmKinds \cup TurnHeuristics =>
              LowReuse(turns) /\ c = [kind |-> "low_cached_input_reuse", turn |-> 1]
<1>1. "low_cached_input_reuse" \notin FirmKinds \cup TurnHeuristics
  BY DEF FirmKinds, TurnHeuristics
<1>2. c \in TurnCauses(turns) => c.kind \in FirmKinds \cup TurnHeuristics
  BY DEF TurnCauses
<1>3. c \in Causes(turns) <=>
        \/ c \in TurnCauses(turns)
        \/ LowReuse(turns) /\ c = [kind |-> "low_cached_input_reuse", turn |-> 1]
  BY DEF Causes
<1>4. c = [kind |-> "low_cached_input_reuse", turn |-> 1] => c.kind = "low_cached_input_reuse"
  OBVIOUS
<1> QED BY <1>1, <1>2, <1>3, <1>4

LEMMA JudgedRows ==
  ASSUME NEW turns, NEW row
  PROVE  /\ row \in Evidence(turns) /\ row.kind \in FirmKinds \cup TurnHeuristics =>
              row.turn \in DOMAIN turns /\ Shows(turns[row.turn], row.kind)
         /\ row \in [kind : FirmKinds \cup TurnHeuristics, turn : DOMAIN turns]
            /\ Shows(turns[row.turn], row.kind) => row \in Evidence(turns)
<1>1. "low_cached_input_reuse" \notin FirmKinds \cup TurnHeuristics
  BY DEF FirmKinds, TurnHeuristics
<1>2. ASSUME row \in Evidence(turns), row.kind \in FirmKinds \cup TurnHeuristics
      PROVE  row.turn \in DOMAIN turns /\ Shows(turns[row.turn], row.kind)
  <2>1. row # [kind |-> "low_cached_input_reuse", turn |-> 1]
    BY <1>1, <1>2
  <2>2. row \in [kind : EvidenceSignals, turn : DOMAIN turns]
        /\ Indicates(turns[row.turn], row.kind)
    BY <1>2, <2>1 DEF Evidence
  <2>3. row.turn \in DOMAIN turns
    BY <2>2
  <2> QED BY <1>2, <2>2, <2>3, IndicatedIsShown
<1>3. ASSUME row \in [kind : FirmKinds \cup TurnHeuristics, turn : DOMAIN turns],
             Shows(turns[row.turn], row.kind)
      PROVE  row \in Evidence(turns)
  <2>1. row.kind \in FirmKinds \cup TurnHeuristics
    BY <1>3
  <2>2. row \in [kind : EvidenceSignals, turn : DOMAIN turns]
    BY <1>3 DEF EvidenceSignals
  <2>3. Indicates(turns[row.turn], row.kind)
    BY <1>3, <2>1, IndicatedIsShown
  <2> QED BY <2>2, <2>3 DEF Evidence
<1> QED BY <1>2, <1>3

\* The two rules for the reuse of the cache differ at a tenth only.
LEMMA ReuseRules ==
  ASSUME NEW turns \in Seq(TurnKind)
  PROVE  /\ LowReuse(turns) => LowReuseRow(turns)
         /\ LowReuseRow(turns) /\ ~LowReuse(turns) =>
              10 * Impact(turns).cached = Impact(turns).input
<1>1. PICK input : input = Tally(turns, "input")
  OBVIOUS
<1>2. PICK cached : cached = Tally(turns, "cached")
  OBVIOUS
<1>3. input \in Nat /\ cached \in Nat
  BY <1>1, <1>2, TallyIsNatural DEF TokenFields
<1>4. LowReuse(turns) <=>
        Len(turns) >= ReuseTurns /\ input >= 1000 /\ 10 * cached < input
  BY <1>1, <1>2 DEF LowReuse
<1>5. LowReuseRow(turns) <=>
        Len(turns) >= ReuseTurns /\ input >= 1000 /\ 10 * cached <= input
  BY <1>1, <1>2 DEF LowReuseRow
<1>6. Impact(turns).cached = cached /\ Impact(turns).input = input
  BY <1>1, <1>2 DEF Impact
<1>7. 10 * cached < input \/ 10 * cached = input <=> 10 * cached <= input
  BY <1>3
<1> QED BY <1>4, <1>5, <1>6, <1>7

\* The evidence of the first n turns against the causes of the first m.
LEMMA EvidenceMeetsCauses ==
  ASSUME NEW s \in Seq(TurnKind), NEW n \in 1..Len(s), NEW m \in 1..Len(s), n <= m,
         NEW kinds, kinds = FirmKinds \cup TurnHeuristics
  PROVE  LET seen == Upto(s, n)
             turns == Upto(s, m) IN
         /\ \A row \in Evidence(seen) : row.kind \in kinds =>
              \E c \in Causes(turns) : c.kind = row.kind /\ c.turn <= row.turn
         /\ \A c \in Causes(turns) : c.kind \in kinds => c \in Evidence(seen) \/ c.turn > n
         /\ m = n => /\ \A c \in Causes(turns) : c.kind \notin kinds => c \in Evidence(seen)
                     /\ LowReuseRow(seen) /\ ~LowReuse(seen) =>
                          10 * Impact(seen).cached = Impact(seen).input
<1>1. PICK seen : seen = Upto(s, n)
  OBVIOUS
<1>2. PICK turns : turns = Upto(s, m)
  OBVIOUS
<1>3. n \in 0..Len(s) /\ m \in 0..Len(s) /\ n \in Nat /\ m \in Nat
  OBVIOUS
<1>4. /\ seen \in Seq(TurnKind) /\ DOMAIN seen = 1..n /\ \A i \in 1..n : seen[i] = s[i]
      /\ turns \in Seq(TurnKind) /\ DOMAIN turns = 1..m /\ \A i \in 1..m : turns[i] = s[i]
  BY <1>1, <1>2, <1>3, UptoIs
<1>5. \A i \in 1..n : i \in 1..m /\ turns[i] = seen[i]
  BY <1>3, <1>4
<1>6. ASSUME NEW row \in Evidence(seen), row.kind \in kinds
      PROVE  \E c \in Causes(turns) : c.kind = row.kind /\ c.turn <= row.turn
  <2>1. row.turn \in DOMAIN seen /\ Shows(seen[row.turn], row.kind)
    BY <1>6, JudgedRows
  <2>2. row.turn \in DOMAIN turns /\ Shows(turns[row.turn], row.kind)
    BY <2>1, <1>4, <1>5
  <2>3. PICK c \in TurnCauses(turns) : c.kind = row.kind /\ c.turn <= row.turn
    BY <2>2, <1>4, <1>6, ShownHasCause
  <2> QED BY <2>3, JudgedCauses
<1>7. ASSUME NEW c \in Causes(turns), c.kind \in kinds, ~(c.turn > n)
      PROVE  c \in Evidence(seen)
  <2>1. c \in TurnCauses(turns)
    BY <1>7, JudgedCauses
  <2>2. c \in [kind : kinds, turn : 1..m] /\ Shows(turns[c.turn], c.kind)
    BY <2>1, <1>4 DEF TurnCauses, First
  <2>3. c.turn \in 1..n
    BY <2>2, <1>7, <1>3
  <2>4. c \in [kind : kinds, turn : DOMAIN seen]
    BY <2>2, <2>3, <1>4
  <2>5. Shows(seen[c.turn], c.kind)
    BY <2>2, <2>3, <1>5
  <2> QED BY <2>4, <2>5, JudgedRows
<1>8. ASSUME m = n, NEW c \in Causes(turns), c.kind \notin kinds
      PROVE  c \in Evidence(seen)
  <2>1. LowReuse(seen) /\ c = [kind |-> "low_cached_input_reuse", turn |-> 1]
    BY <1>1, <1>2, <1>8, JudgedCauses
  <2>2. LowReuseRow(seen)
    BY <2>1, <1>4, ReuseRules
  <2> QED BY <2>1, <2>2 DEF Evidence
<1>9. LowReuseRow(seen) /\ ~LowReuse(seen) => 10 * Impact(seen).cached = Impact(seen).input
  BY <1>4, ReuseRules
<1> QED BY <1>1, <1>2, <1>6, <1>7, <1>8, <1>9

(* The evidence of a postmortem and its diagnosis are about the same       *)
(* session: every sign of trouble has its cause, and a cause without       *)
(* evidence is news of a turn recorded between the two reads               *)
(* (build_evidence, analyze_session).                                      *)
THEOREM EvidenceMatches == ReportsSpec => []EvidenceBacksCauses
<1>1. TablesOK /\ ReadersOK => EvidenceBacksCauses
  <2>1. SUFFICES ASSUME TablesOK, ReadersOK, NEW r \in Reader, Done(r),
                        reading[r].kind = "postmortem", reading[r].whole
        PROVE LET causes == reading[r].diagnosis.causes
                  seen == Len(reading[r].turns)
                  Judged(set) == {c \in set : c.kind \in FirmKinds \cup TurnHeuristics}
              IN /\ \A row \in Judged(Rows(r)) :
                      \E c \in causes : c.kind = row.kind /\ c.turn <= row.turn
                 /\ \A c \in Judged(causes) : c \in Rows(r) \/ c.turn > seen
                 /\ reading[r].diagnosis.total = seen =>
                      /\ causes \ Judged(causes) \subseteq Rows(r)
                      /\ LowReuseRow(reading[r].turns) /\ ~LowReuse(reading[r].turns) =>
                           10 * Impact(reading[r].turns).cached = Impact(reading[r].turns).input
    BY DEF EvidenceBacksCauses, Finished
  <2>2. PICK old : old = reading[r]
    OBVIOUS
  <2>3. PICK kinds : kinds = FirmKinds \cup TurnHeuristics
    OBVIOUS
  <2>4. Sound(old, snapshots) /\ old.at = <<>> /\ old.kind = "postmortem" /\ old.whole
    BY <2>1, <2>2 DEF ReadersOK, Done
  <2>5. old.fresh
    BY <2>4 DEF Sound, Ends
  <2>6. PICK m \in 1..Len(snapshots) :
          old.diagnosis = Report(Upto(snapshots, m)) /\ Len(old.turns) <= m
    BY <2>4, <2>5 DEF Sound
  <2>7. PICK n \in 1..Len(snapshots) : old.turns = Upto(snapshots, n)
    BY <2>4 DEF Sound, Beginnings
  <2>8. snapshots \in Seq(TurnKind) /\ n \in 0..Len(snapshots) /\ m \in 0..Len(snapshots)
    BY <2>1 DEF TablesOK
  <2>9. Len(old.turns) = n /\ Len(Upto(snapshots, m)) = m
    BY <2>7, <2>8, UptoIs
  <2>10. /\ old.diagnosis.causes = Causes(Upto(snapshots, m))
         /\ old.diagnosis.total = m
    BY <2>6, <2>9 DEF Report
  <2>11. n <= m
    BY <2>6, <2>9
  <2>12. PICK causes : causes = old.diagnosis.causes
    OBVIOUS
  <2>13. PICK shown : shown = Evidence(old.turns)
    OBVIOUS
  <2>14. /\ \A row \in shown : row.kind \in kinds =>
              \E c \in causes : c.kind = row.kind /\ c.turn <= row.turn
         /\ \A c \in causes : c.kind \in kinds => c \in shown \/ c.turn > n
         /\ m = n => /\ \A c \in causes : c.kind \notin kinds => c \in shown
                     /\ LowReuseRow(old.turns) /\ ~LowReuse(old.turns) =>
                          10 * Impact(old.turns).cached = Impact(old.turns).input
    <3>1. PICK seen : seen = Upto(snapshots, n)
      OBVIOUS
    <3>2. PICK turns : turns = Upto(snapshots, m)
      OBVIOUS
    <3>3. /\ \A row \in Evidence(seen) : row.kind \in kinds =>
               \E c \in Causes(turns) : c.kind = row.kind /\ c.turn <= row.turn
          /\ \A c \in Causes(turns) : c.kind \in kinds => c \in Evidence(seen) \/ c.turn > n
          /\ m = n => /\ \A c \in Causes(turns) : c.kind \notin kinds => c \in Evidence(seen)
                      /\ LowReuseRow(seen) /\ ~LowReuse(seen) =>
                           10 * Impact(seen).cached = Impact(seen).input
      BY <2>3, <2>8, <2>11, <3>1, <3>2, EvidenceMeetsCauses
    <3>4. old.turns = seen /\ causes = Causes(turns) /\ shown = Evidence(seen)
      BY <2>7, <2>10, <2>12, <2>13, <3>1, <3>2
    <3> QED BY ONLY <3>3, <3>4
  <2>15. Rows(r) = shown
    BY <2>2, <2>13 DEF Rows
  <2> QED BY <2>2, <2>3, <2>9, <2>10, <2>12, <2>14, <2>15
<1> QED BY <1>1, ReportsInvariant, PTL

-----------------------------------------------------------------------------
(* The degradation, as each section tells it.                              *)

LEMMA FoundIsOne ==
  ASSUME NEW kinds, kinds \subseteq FirmKinds \cup TurnHeuristics, kinds # {}
  PROVE  FirstFound(kinds) \in kinds
<1> DEFINE S == {i \in DOMAIN CauseOrder : CauseOrder[i] \in kinds}
<1>1. S \subseteq Nat
  BY DEF CauseOrder
<1>2. \A kind \in FirmKinds \cup TurnHeuristics : \E i \in DOMAIN CauseOrder : CauseOrder[i] = kind
  <2>1. DOMAIN CauseOrder = 1..6
    BY DEF CauseOrder
  <2>2. /\ CauseOrder[1] = "failed" /\ CauseOrder[2] = "incomplete"
        /\ CauseOrder[3] = "model_mismatch" /\ CauseOrder[4] = "high_context_fill"
        /\ CauseOrder[5] = "high_reasoning_share" /\ CauseOrder[6] = "accounting_anomaly"
    BY DEF CauseOrder
  <2> QED BY <2>1, <2>2 DEF FirmKinds, TurnHeuristics
<1>3. S # {}
  BY <1>2
<1>4. FirstFound(kinds) = CauseOrder[Min(S)]
  BY DEF FirstFound
<1> HIDE DEF S
<1>5. Min(S) \in S
  BY <1>1, <1>3, NaturalMin
<1> QED BY <1>4, <1>5 DEF S

\* The view flags the first turn that has a cause which degrades.
LEMMA ViewIs ==
  ASSUME NEW s \in Seq(TurnKind)
  PROVE  /\ DegradationView(s) = [degraded |-> Degraded(Causes(s)),
                                  turn |-> PublicDegradationTurn(Causes(s)),
                                  total |-> Len(s)]
         /\ Degraded(Causes(s)) <=> \E i \in DOMAIN s : Flags(s[i]) # {}
<1> DEFINE flagged == {i \in DOMAIN s : Flags(s[i]) # {}}
           T == {c.turn : c \in Firm(Causes(s))}
<1>1. flagged \subseteq Nat
  BY LenProperties
<1>2. ASSUME NEW i \in flagged PROVE \E x \in T : x <= i
  <2>1. PICK kind \in FirmKinds : kind \in Flags(s[i])
    BY DEF Flags
  <2>2. Shows(s[i], kind)
    BY <2>1, ShownIsFlagged
  <2>3. PICK c \in TurnCauses(s) : c.kind = kind /\ c.turn <= i
    BY <2>2, ShownHasCause
  <2>4. c \in Firm(Causes(s))
    BY <2>1, <2>3, JudgedCauses DEF Firm
  <2> QED BY <2>3, <2>4
<1>3. ASSUME NEW x \in T PROVE x \in flagged
  <2>1. PICK c \in Firm(Causes(s)) : x = c.turn
    OBVIOUS
  <2>2. c.kind \in FirmKinds /\ c.turn \in DOMAIN s /\ Shows(s[c.turn], c.kind)
    BY FirmIs DEF First
  <2>3. c.kind \in Flags(s[c.turn])
    BY <2>2, ShownIsFlagged
  <2> QED BY <2>1, <2>2, <2>3
<1>4. T = {} <=> Firm(Causes(s)) = {}
  OBVIOUS
<1>5. flagged = {} <=> ~\E i \in DOMAIN s : Flags(s[i]) # {}
  OBVIOUS
<1>6. DegradationView(s) = [degraded |-> flagged # {},
                            turn |-> IF flagged = {} THEN 0 ELSE Min(flagged),
                            total |-> Len(s)]
  BY DEF DegradationView
<1>7. PublicDegradationTurn(Causes(s)) = IF T = {} THEN 0 ELSE Min(T)
  BY <1>4 DEF PublicDegradationTurn, Degraded
<1> HIDE DEF flagged, T
<1>8. CASE T = {}
  <2>1. flagged = {}
    BY <1>2, <1>8
  <2>2. Degraded(Causes(s)) = FALSE
    BY <1>4, <1>8 DEF Degraded
  <2>3. DegradationView(s) = [degraded |-> FALSE, turn |-> 0, total |-> Len(s)]
    BY <1>6, <2>1
  <2> QED BY <1>5, <1>7, <1>8, <2>1, <2>2, <2>3
<1>9. CASE T # {}
  <2>1. flagged # {} /\ T \subseteq Nat
    BY <1>1, <1>3, <1>9
  <2>2. Degraded(Causes(s)) = TRUE
    BY <1>4, <1>9 DEF Degraded
  <2>3. PICK x : x = Min(T)
    OBVIOUS
  <2>4. PICK i : i = Min(flagged)
    OBVIOUS
  <2>5. x \in T /\ \A y \in T : x <= y
    BY <1>9, <2>1, <2>3, NaturalMin
  <2>6. i \in flagged /\ \A j \in flagged : i <= j
    BY <1>1, <2>1, <2>4, NaturalMin
  <2>7. PICK y \in T : y <= i
    BY <1>2, <2>6
  <2>8. x \in Nat /\ i \in Nat /\ y \in Nat /\ i <= x /\ x <= y
    BY <1>1, <1>3, <2>1, <2>5, <2>6
  <2>9. i = x
    BY <2>7, <2>8
  <2>10. DegradationView(s) = [degraded |-> TRUE, turn |-> x, total |-> Len(s)]
    BY <1>6, <2>1, <2>4, <2>9
  <2> QED BY <1>5, <1>7, <1>9, <2>1, <2>2, <2>3, <2>10
<1> QED BY <1>8, <1>9

\* The advice starts with something observed, if there is such a cause.
LEMMA AdviceStarts ==
  ASSUME NEW causes, Firm(causes) # {}
  PROVE  /\ Advice(causes) # <<>> /\ Advice(causes)[1] \in FirmKinds
         /\ \E c \in causes : c.kind = Advice(causes)[1]
<1> DEFINE present == {i \in DOMAIN Priority : \E c \in causes : c.kind = Priority[i]}
           Before(i) == Cardinality({j \in present : j < i})
           size == Cardinality(present)
           first == CHOOSE i \in present : Before(i) = 0
<1>1. /\ DOMAIN Priority = 1..7
      /\ Priority[1] = "failed" /\ Priority[2] = "incomplete"
      /\ Priority[3] = "model_mismatch" /\ Priority[4] = "accounting_anomaly"
  BY DEF Priority
<1>2. present \subseteq 1..7
  BY <1>1
<1>3. PICK k \in present : k <= 4
  <2>1. PICK c \in causes : c.kind \in FirmKinds
    BY DEF Firm
  <2>2. \E k \in 1..4 : Priority[k] = c.kind
    BY <1>1, <2>1 DEF FirmKinds
  <2> QED BY <1>1, <2>1, <2>2
<1>4. Advice(causes) = [n \in 1..Min({3, size}) |->
                          Priority[CHOOSE i \in present : Before(i) = n - 1]]
  BY DEF Advice
<1>5. \A i \in present : Priority[i] = Priority[i] /\ \E c \in causes : c.kind = Priority[i]
  OBVIOUS
<1> HIDE DEF present
<1>6. IsFiniteSet(present)
  <2>1. \A a, b \in Int : IsFiniteSet(a..b)
    BY FS_Interval
  <2>2. IsFiniteSet(1..7)
    <3>1. 1 \in Int /\ 7 \in Int
      OBVIOUS
    <3> QED BY ONLY <2>1, <3>1, Zenon
  <2> QED BY <1>2, <2>2, FS_Subset
<1>7. \A i \in present : IsFiniteSet({j \in present : j < i})
  BY <1>6, FS_Subset
<1>8. \A i \in present : Before(i) = 0 <=> {j \in present : j < i} = {}
  BY <1>7, FS_EmptySet
<1>9. \E i \in present : Before(i) = 0
  <2>1. present \subseteq Nat /\ present # {}
    BY <1>2, <1>3
  <2>2. PICK i \in present : \A j \in present : i <= j
    BY <2>1, LeastNumber
  <2>3. \A j \in present : ~(j < i)
    BY <2>1, <2>2
  <2>4. {j \in present : j < i} = {}
    BY <2>3
  <2> QED BY <1>8, <2>2, <2>4
<1>10. first \in present /\ Before(first) = 0
  BY <1>9
<1>11. first \in 1..4
  <2>1. ~(k < first)
    BY <1>3, <1>8, <1>10
  <2>2. first \in 1..7 /\ k \in 1..7
    BY <1>2, <1>3, <1>10
  <2> HIDE DEF first
  <2> QED BY <1>3, <2>1, <2>2
<1>12. size \in Nat /\ size # 0
  BY <1>3, <1>6, FS_CardinalityType, FS_EmptySet
<1> HIDE DEF size
<1>13. 1 \in 1..Min({3, size})
  <2>1. {3, size} \subseteq Nat
    BY <1>12
  <2>2. Min({3, size}) \in {3, size}
    BY <2>1, NaturalMin
  <2> QED BY <1>12, <2>2
<1>14. Advice(causes)[1] = Priority[first]
  <2>1. Advice(causes)[1] = Priority[CHOOSE i \in present : Before(i) = 1 - 1]
    BY <1>4, <1>13
  <2>2. 1 - 1 = 0
    OBVIOUS
  <2> QED BY <2>1, <2>2
<1>15. Advice(causes) # <<>>
  BY <1>4, <1>13
<1>16. Priority[first] \in FirmKinds
  <2> HIDE DEF first
  <2> QED BY <1>1, <1>11 DEF FirmKinds
<1> QED BY <1>5, <1>10, <1>14, <1>15, <1>16

\* The primary cause is shown by the turn that degrades the session.
LEMMA PrimaryIsShown ==
  ASSUME NEW s \in Seq(TurnKind), Degraded(Causes(s))
  PROVE  LET onset == PublicDegradationTurn(Causes(s)) IN
         onset \in DOMAIN s /\ PrimaryCause(Causes(s)) \in Flags(s[onset])
<1> DEFINE firm == Firm(Causes(s))
           T == {c.turn : c \in firm}
           first == {c \in firm : c.turn = Min(T)}
           kinds == {c.kind : c \in first}
<1>1. firm # {} /\ PublicDegradationTurn(Causes(s)) = Min(T)
  BY DEF Degraded, PublicDegradationTurn
<1>2. \A c \in firm : /\ c.kind \in FirmKinds /\ c.turn \in DOMAIN s
                      /\ Shows(s[c.turn], c.kind)
  BY FirmIs DEF First
<1>3. T \subseteq Nat
  <2>1. DOMAIN s \subseteq Nat
    BY LenProperties
  <2> QED BY <1>2, <2>1
<1>4. T # {}
  BY <1>1
<1>5. PrimaryCause(Causes(s)) = IF first = {} THEN "none" ELSE FirstFound(kinds)
  BY <1>1 DEF PrimaryCause, FirstFirm
<1>6. \A x \in T : \E c \in firm : c.turn = x
  OBVIOUS
<1>7. \A c \in first : c \in firm /\ c.turn = Min(T)
  OBVIOUS
<1>8. \A c \in firm : c.turn = Min(T) => c \in first
  OBVIOUS
<1>9. \A kind \in kinds : \E c \in first : c.kind = kind
  OBVIOUS
<1>10. first # {} => kinds # {}
  OBVIOUS
<1> HIDE DEF firm, T, first, kinds
<1>11. Min(T) \in T
  BY <1>3, <1>4, NaturalMin
<1>12. first # {}
  BY <1>6, <1>8, <1>11
<1>13. kinds \subseteq FirmKinds
  BY <1>2, <1>7, <1>9
<1>14. FirstFound(kinds) \in kinds
  BY <1>10, <1>12, <1>13, FoundIsOne
<1>15. PICK c \in first : c.kind = FirstFound(kinds)
  BY <1>9, <1>14
<1>16. c.turn = Min(T) /\ c.turn \in DOMAIN s /\ c.kind \in Flags(s[c.turn])
  BY <1>2, <1>7, <1>15, ShownIsFlagged
<1> QED BY <1>1, <1>5, <1>12, <1>15, <1>16

\* Without a cause that degrades, the primary cause is a heuristic or none.
LEMMA PrimaryIsSoft ==
  ASSUME NEW s \in Seq(TurnKind), ~Degraded(Causes(s))
  PROVE  PrimaryCause(Causes(s)) \notin FirmKinds
<1> DEFINE onTurns == {c \in Causes(s) : c.kind # "low_cached_input_reuse"}
           T == {c.turn : c \in onTurns}
           first == {c \in onTurns : c.turn = Min(T)}
           kinds == {c.kind : c \in first}
<1>1. Firm(Causes(s)) = {}
  BY DEF Degraded
<1>2. \A c \in Causes(s) : c.kind \notin FirmKinds
  BY <1>1 DEF Firm
<1>3. "low_cached_input_reuse" \notin FirmKinds /\ "none" \notin FirmKinds
  BY DEF FirmKinds
<1>4. PrimaryCause(Causes(s)) = IF onTurns # {} THEN FirstFound(kinds)
        ELSE IF Causes(s) # {} THEN "low_cached_input_reuse" ELSE "none"
  BY <1>1 DEF PrimaryCause
<1>5. \A c \in onTurns : /\ c.kind \in TurnHeuristics /\ c.turn \in DOMAIN s
                         /\ c.kind \notin FirmKinds
  <2> TAKE c \in onTurns
  <2>1. c \in Causes(s) /\ c.kind # "low_cached_input_reuse"
    OBVIOUS
  <2>2. c.kind \in FirmKinds \cup TurnHeuristics
    BY <2>1, JudgedCauses
  <2>3. c \in TurnCauses(s)
    BY <2>1, <2>2, JudgedCauses
  <2>4. c.turn \in DOMAIN s
    BY <2>3 DEF TurnCauses
  <2> QED BY <1>2, <2>1, <2>2, <2>4
<1>6. T \subseteq Nat
  <2>1. DOMAIN s \subseteq Nat
    BY LenProperties
  <2> QED BY <1>5, <2>1
<1>7. \A x \in T : \E c \in onTurns : c.turn = x
  OBVIOUS
<1>8. onTurns # {} => T # {}
  OBVIOUS
<1>9. \A c \in onTurns : c.turn = Min(T) => c.kind \in kinds
  OBVIOUS
<1>10. \A kind \in kinds : \E c \in onTurns : c.kind = kind
  OBVIOUS
<1> HIDE DEF onTurns, T, first, kinds
<1>11. ASSUME onTurns # {} PROVE FirstFound(kinds) \notin FirmKinds
  <2>1. Min(T) \in T
    BY <1>6, <1>8, <1>11, NaturalMin
  <2>2. kinds # {}
    BY <1>7, <1>9, <2>1
  <2>3. kinds \subseteq FirmKinds \cup TurnHeuristics
    BY <1>5, <1>10
  <2>4. FirstFound(kinds) \in kinds
    BY <2>2, <2>3, FoundIsOne
  <2> QED BY <1>5, <1>10, <2>4
<1> QED BY <1>3, <1>4, <1>11

-----------------------------------------------------------------------------
(* The end of the timeline.                                                *)

LEMMA TimelineEnds ==
  ASSUME NEW turns \in Seq(TurnKind), NEW degraded
  PROVE  Last(Timeline(turns, degraded)) =
           IF degraded THEN "session_degraded" ELSE "latest_observation"
<1> DEFINE Entry == {"session_start", "codex_turn", "tool_call_intent",
                     "session_degraded", "latest_observation"}
<1>1. PICK q : q = [i \in DOMAIN turns |->
                      <<"codex_turn">> \o [j \in 1..turns[i].tools |-> "tool_call_intent"]]
  OBVIOUS
<1>2. PICK end : end = IF degraded THEN "session_degraded" ELSE "latest_observation"
  OBVIOUS
<1>3. DOMAIN turns = 1..Len(turns) /\ Len(turns) \in Nat
  BY LenProperties
<1>4. ASSUME NEW i \in DOMAIN turns
      PROVE  <<"codex_turn">> \o [j \in 1..turns[i].tools |-> "tool_call_intent"] \in Seq(Entry)
  <2>1. turns[i].tools \in Nat
    BY TurnAssumption DEF TurnType
  <2>2. PICK n \in Nat : n = turns[i].tools
    BY <2>1
  <2>3. PICK calls : calls = [j \in 1..n |-> "tool_call_intent"]
    OBVIOUS
  <2>4. calls \in Seq(Entry)
    <3>1. \A j \in 1..n : "tool_call_intent" \in Entry
      OBVIOUS
    <3> HIDE DEF Entry
    <3> QED BY <2>3, <3>1
  <2>5. <<"codex_turn">> \in Seq(Entry)
    OBVIOUS
  <2> HIDE DEF Entry
  <2>6. <<"codex_turn">> \o calls \in Seq(Entry)
    BY <2>4, <2>5, ConcatProperties
  <2> QED BY <2>2, <2>3, <2>6
<1>5. <<"session_start">> \in Seq(Entry) /\ <<end>> \in Seq(Entry)
  <2>1. end \in Entry
    BY <1>2
  <2>2. "session_start" \in Entry
    OBVIOUS
  <2> HIDE DEF Entry
  <2> QED BY <2>1, <2>2
<1> HIDE DEF Entry
<1>6. q \in Seq(Seq(Entry))
  BY <1>1, <1>3, <1>4
<1>7. PICK flat \in Seq(Entry) : flat = FlattenSeq(q)
  BY <1>6, FlatIs
<1>8. PICK x \in Seq(Entry) : x = <<"session_start">> \o flat
  BY <1>5, ConcatProperties
<1>9. PICK line : line = x \o <<end>>
  OBVIOUS
<1>10. line = Timeline(turns, degraded)
  BY <1>1, <1>2, <1>7, <1>8, <1>9 DEF Timeline
<1>11. Len(line) = Len(x) + 1 /\ line[Len(x) + 1] = end
  <2>1. Len(<<end>>) = 1 /\ <<end>>[1] = end
    OBVIOUS
  <2>2. Len(line) = Len(x) + Len(<<end>>) /\ Len(x) \in Nat
    BY <1>5, <1>9, ConcatProperties, LenProperties
  <2>3. \A i \in 1..(Len(x) + Len(<<end>>)) :
          line[i] = IF i <= Len(x) THEN x[i] ELSE <<end>>[i - Len(x)]
    BY <1>5, <1>9, ConcatProperties
  <2>4. Len(x) + 1 \in 1..(Len(x) + Len(<<end>>)) /\ ~(Len(x) + 1 <= Len(x))
        /\ (Len(x) + 1) - Len(x) = 1
    BY <2>1, <2>2
  <2> QED BY <2>1, <2>2, <2>3, <2>4
<1>12. Last(line) = end
  BY <1>11 DEF Last
<1> QED BY <1>2, <1>10, <1>12

LEMMA AnomaliesAreShown ==
  ASSUME NEW turns \in Seq(TurnKind)
  PROVE  ReportSignals(turns).anomalies > 0 <=> \E i \in DOMAIN turns : turns[i].anomalies > 0
<1>1. PICK f : f = [i \in DOMAIN turns |-> turns[i].anomalies]
  OBVIOUS
<1>2. \A t \in TurnType : t.anomalies \in Nat
  BY DEF TurnType
<1>3. DOMAIN f = DOMAIN turns /\ \A i \in DOMAIN f : f[i] = turns[i].anomalies /\ f[i] \in Nat
  BY <1>1, <1>2, TurnAssumption
<1>4. IsFiniteSet(DOMAIN f)
  BY <1>3, TurnsAreFinite
<1>5. PICK sum : sum = SumFunction(f)
  OBVIOUS
<1>6. ReportSignals(turns).anomalies = sum
  BY <1>1, <1>5 DEF ReportSignals, Tally
<1>7. ASSUME NEW i \in DOMAIN turns, turns[i].anomalies > 0 PROVE sum > 0
  <2>1. i \in DOMAIN f /\ \A j \in DOMAIN f : f[j] \in Nat
    BY <1>3, <1>7
  <2>3. PICK h : h = [j \in DOMAIN f \ {i} |-> f[j]]
    OBVIOUS
  <2>4. DOMAIN h = DOMAIN f \ {i} /\ \A j \in DOMAIN h : h[j] = f[j]
    BY <2>3
  <2>5. /\ SumFunction(f) \in Nat /\ SumFunction(h) \in Nat
        /\ SumFunction(f) = f[i] + SumFunction(h)
    BY <1>4, <2>1, <2>4, SumWithout
  <2>6. f[i] \in Nat /\ f[i] > 0
    BY <1>3, <1>7
  <2> QED BY <1>5, <2>5, <2>6
<1>8. ASSUME \A i \in DOMAIN turns : ~(turns[i].anomalies > 0) PROVE ~(sum > 0)
  <2>1. \A i \in DOMAIN f : f[i] = 0
    BY <1>3, <1>8
  <2>2. sum = 0
    BY <1>4, <1>5, <2>1, SumOfZeros
  <2> QED BY <2>2
<1> QED BY <1>6, <1>7, <1>8

\* What the signals or the flight recorder show is what the flags show.
LEMMA ShownIs ==
  ASSUME NEW turns \in Seq(TurnKind)
  PROVE  LET flight == FlightRecorder(turns) IN
         \/ ReportSignals(turns).anomalies > 0
         \/ \E i \in DOMAIN flight : \/ flight[i].status \in {"failed", "incomplete"}
                                     \/ flight[i].mismatch
         <=> \E i \in DOMAIN turns : Flags(turns[i]) # {}
<1>1. PICK flight : flight = FlightRecorder(turns)
  OBVIOUS
<1>2. /\ DOMAIN flight = DOMAIN turns
      /\ \A i \in DOMAIN turns : /\ flight[i].status = turns[i].status
                                 /\ flight[i].mismatch = turns[i].mismatch
  BY <1>1 DEF FlightRecorder
<1>3. ASSUME NEW t
      PROVE  Flags(t) # {} <=> \/ t.status \in {"failed", "incomplete"} \/ t.mismatch
                               \/ t.anomalies > 0
  <2>1. t.status \in {"failed", "incomplete"} => t.status \in Flags(t)
    BY DEF Flags, FirmKinds
  <2>2. t.mismatch => "model_mismatch" \in Flags(t)
    BY DEF Flags, FirmKinds
  <2>3. t.anomalies > 0 => "accounting_anomaly" \in Flags(t)
    BY DEF Flags, FirmKinds
  <2>4. \A kind \in Flags(t) : \/ t.status \in {"failed", "incomplete"} \/ t.mismatch
                               \/ t.anomalies > 0
    BY DEF Flags, FirmKinds
  <2> QED BY <2>1, <2>2, <2>3, <2>4
<1>4. (\E i \in DOMAIN turns : Flags(turns[i]) # {}) <=>
        \/ \E i \in DOMAIN turns : turns[i].anomalies > 0
        \/ \E i \in DOMAIN turns : turns[i].status \in {"failed", "incomplete"} \/ turns[i].mismatch
  BY <1>3
<1>5. (\E i \in DOMAIN flight : flight[i].status \in {"failed", "incomplete"} \/ flight[i].mismatch)
        <=> \E i \in DOMAIN turns : turns[i].status \in {"failed", "incomplete"} \/ turns[i].mismatch
  BY <1>2
<1> QED BY <1>1, <1>4, <1>5, AnomaliesAreShown

LEMMA EndIsAsShown ==
  ASSUME NEW s \in Seq(TurnKind), NEW n \in 0..Len(s), NEW m \in 1..Len(s), n <= m
  PROVE  EndsAsShown(Upto(s, n), Report(Upto(s, m)))
<1>1. PICK seen : seen = Upto(s, n)
  OBVIOUS
<1>2. PICK turns : turns = Upto(s, m)
  OBVIOUS
<1>3. PICK d : d = Report(turns)
  OBVIOUS
<1>4. m \in 0..Len(s) /\ n \in Nat /\ m \in Nat
  OBVIOUS
<1>5. /\ seen \in Seq(TurnKind) /\ DOMAIN seen = 1..n /\ Len(seen) = n
      /\ turns \in Seq(TurnKind) /\ DOMAIN turns = 1..m /\ Len(turns) = m
      /\ \A i \in 1..n : seen[i] = s[i]
      /\ \A i \in 1..m : turns[i] = s[i]
  BY <1>1, <1>2, <1>4, UptoIs
<1>6. \A i \in 1..n : i \in 1..m /\ seen[i] = turns[i]
  BY <1>4, <1>5
<1>7. m = n => seen = turns
  BY <1>1, <1>2
<1>8. d.total = m /\ d.degraded = Degraded(Causes(turns))
  BY <1>3, <1>5 DEF Report
<1>9. d.degraded <=> \E i \in DOMAIN turns : Flags(turns[i]) # {}
  BY <1>5, <1>8, ViewIs
<1>10. (Last(Timeline(seen, d.degraded)) = "session_degraded") <=> d.degraded
  BY <1>5, TimelineEnds
<1>11. PICK flight : flight = FlightRecorder(seen)
  OBVIOUS
<1>12. (\/ ReportSignals(seen).anomalies > 0
        \/ \E i \in DOMAIN flight : \/ flight[i].status \in {"failed", "incomplete"}
                                    \/ flight[i].mismatch)
         <=> \E i \in DOMAIN seen : Flags(seen[i]) # {}
  BY <1>5, <1>11, ShownIs
<1>13. (\E i \in DOMAIN seen : Flags(seen[i]) # {}) => d.degraded
  BY <1>5, <1>6, <1>9
<1>14. d.degraded /\ d.total = Len(seen) => \E i \in DOMAIN seen : Flags(seen[i]) # {}
  BY <1>5, <1>7, <1>8, <1>9
<1>15. EndsAsShown(seen, d)
  BY <1>10, <1>11, <1>12, <1>13, <1>14 DEF EndsAsShown
<1> QED BY <1>1, <1>2, <1>3, <1>15

(* One story of the degradation, in every report on every recording: the   *)
(* degradation view names the turn of the diagnosis, the primary cause is  *)
(* shown by it, the first recommendation answers something observed, the   *)
(* timeline ends as the signals and the flight recorder say, and without   *)
(* snapshots a failure is still reported (load_degradation_view_from_db,   *)
(* primary_cause, build_recommendations, build_timeline,                   *)
(* load_diagnosis_snapshot).                                               *)
THEOREM OneStory == ReportsSpec => []DegradationHasOneStory
<1>1. TablesOK /\ ReadersOK => DegradationHasOneStory
  <2>1. SUFFICES ASSUME TablesOK, ReadersOK, NEW r \in Reader, Done(r)
        PROVE LET d == reading[r].diagnosis
                  primary == PrimaryCause(d.causes)
                  first == Recommendations(d, reading[r].turns)[1]
                  view == DegradationView(SubSeq(snapshots, 1, d.total))
              IN IF ~reading[r].fresh
                 THEN reading[r].kind = "postmortem" =>
                        (DirectTurn(reading[r].turns) # 0 => d.degraded)
                 ELSE /\ view = [degraded |-> d.degraded, turn |-> d.turn, total |-> d.total]
                      /\ d.degraded => /\ primary \in Flags(snapshots[d.turn])
                                       /\ first \in FirmKinds
                                       /\ \E c \in d.causes : c.kind = first
                      /\ ~d.degraded => primary \notin FirmKinds
                      /\ reading[r].whole => EndsAsShown(reading[r].turns, d)
    BY DEF DegradationHasOneStory
  <2>2. PICK old : old = reading[r]
    OBVIOUS
  <2>3. Sound(old, snapshots) /\ old.at = <<>>
    BY <2>1, <2>2 DEF ReadersOK, Done
  <2>4. CASE ~old.fresh
    <3>1. old.kind = "postmortem" => (DirectTurn(old.turns) # 0 => old.diagnosis.degraded)
      BY <2>3, <2>4 DEF Sound, Ends
    <3> QED BY <2>2, <2>4, <3>1
  <2>5. CASE old.fresh
    <3>1. PICK m \in 1..Len(snapshots) :
            /\ old.diagnosis = Report(Upto(snapshots, m))
            /\ old.kind = "postmortem" /\ old.whole => Len(old.turns) <= m
      BY <2>3, <2>5 DEF Sound
    <3>2. PICK d : d = old.diagnosis
      OBVIOUS
    <3>3. PICK turns : turns = Upto(snapshots, m)
      OBVIOUS
    <3>4. snapshots \in Seq(TurnKind) /\ m \in 0..Len(snapshots) /\ Len(snapshots) \in Nat
      BY <2>1 DEF TablesOK
    <3>5. /\ turns \in Seq(TurnKind) /\ Len(turns) = m /\ DOMAIN turns = 1..m
          /\ \A i \in 1..m : turns[i] = snapshots[i]
          /\ SubSeq(snapshots, 1, m) = turns
      BY <3>3, <3>4, UptoIs
    <3>6. PICK causes : causes = Causes(turns)
      OBVIOUS
    <3>7. /\ d.total = m /\ d.causes = causes /\ d.degraded = Degraded(causes)
          /\ d.turn = PublicDegradationTurn(causes)
          /\ d.advice = IF Degraded(causes) THEN Advice(causes) ELSE <<>>
      BY <3>1, <3>2, <3>3, <3>5, <3>6 DEF Report
    <3>8. DegradationView(SubSeq(snapshots, 1, d.total))
            = [degraded |-> d.degraded, turn |-> d.turn, total |-> d.total]
      BY <3>5, <3>6, <3>7, ViewIs
    <3>9. ASSUME d.degraded
          PROVE  /\ PrimaryCause(d.causes) \in Flags(snapshots[d.turn])
                 /\ Recommendations(d, old.turns)[1] \in FirmKinds
                 /\ \E c \in d.causes : c.kind = Recommendations(d, old.turns)[1]
      <4>1. Degraded(causes) /\ Firm(causes) # {}
        BY <3>7, <3>9 DEF Degraded
      <4>2. d.turn \in DOMAIN turns /\ PrimaryCause(d.causes) \in Flags(turns[d.turn])
        BY <3>5, <3>6, <3>7, <4>1, PrimaryIsShown
      <4>3. turns[d.turn] = snapshots[d.turn]
        BY <3>5, <4>2
      <4>4. /\ Advice(causes) # <<>> /\ Advice(causes)[1] \in FirmKinds
            /\ \E c \in causes : c.kind = Advice(causes)[1]
        BY <4>1, AdviceStarts
      <4>5. d.advice = Advice(causes)
        BY <3>7, <4>1
      <4>6. Recommendations(d, old.turns) = Advice(causes)
        BY <4>4, <4>5 DEF Recommendations
      <4> QED BY <3>7, <4>2, <4>3, <4>4, <4>6
    <3>10. ~d.degraded => PrimaryCause(d.causes) \notin FirmKinds
      BY <3>5, <3>6, <3>7, PrimaryIsSoft
    <3>11. ASSUME old.whole PROVE EndsAsShown(old.turns, d)
      <4>1. PICK n \in 0..Len(snapshots) : old.turns = Upto(snapshots, n) /\ n <= m
        <5>1. CASE old.kind = "postmortem"
          <6>1. PICK n \in 1..Len(snapshots) : old.turns = Upto(snapshots, n)
            BY <2>3, <3>11, <5>1 DEF Sound, Beginnings
          <6>2. n \in 0..Len(snapshots)
            BY <3>4
          <6>3. Len(old.turns) = n
            BY <3>4, <6>1, <6>2, UptoIs
          <6> QED BY <3>1, <3>11, <5>1, <6>1, <6>2, <6>3
        <5>2. CASE old.kind # "postmortem"
          <6>1. old.turns = <<>>
            BY <2>3, <5>2 DEF Sound
          <6>2. 0 \in 0..Len(snapshots) /\ 0 <= m
            BY <3>4
          <6>3. PICK none : none = Upto(snapshots, 0)
            OBVIOUS
          <6>4. none \in Seq(TurnKind) /\ Len(none) = 0
            BY <3>4, <6>2, <6>3, UptoIs
          <6>5. none = <<>>
            BY <6>4, EmptySeq
          <6> QED BY <6>1, <6>2, <6>3, <6>5
        <5> QED BY <5>1, <5>2
      <4>2. EndsAsShown(Upto(snapshots, n), Report(Upto(snapshots, m)))
        BY <3>4, <4>1, EndIsAsShown
      <4> QED BY <3>1, <3>2, <4>1, <4>2
    <3> QED BY <2>2, <2>5, <3>2, <3>8, <3>9, <3>10, <3>11
  <2> QED BY <2>4, <2>5
<1> QED BY <1>1, ReportsInvariant, PTL
=============================================================================
