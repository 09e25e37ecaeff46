----------------------- MODULE SessionLifecycleProofs -----------------------
(***************************************************************************)
(* Proofs about SessionLifecycle for any number of tasks and sessions, any *)
(* budget and any size of a turn.                                          *)
(***************************************************************************)
EXTENDS SessionLifecycle, FiniteSetTheorems, TLAPS

(* Every map, local and counter keeps its type; in particular the monitor  *)
(* never leaves a stale mark on a session that has no entry.               *)
THEOREM TypeCorrect == Spec => []TypeOK
<1>1. Init => TypeOK
  BY TurnsAssumption, CrashesAssumption DEF Init, TypeOK, Phases, MonitorPhases
<1>2. TypeOK /\ [Next]_vars => TypeOK'
  <2> SUFFICES ASSUME TypeOK, [Next]_vars PROVE TypeOK'
    OBVIOUS
  <2> USE DEF TypeOK, Phases, MonitorPhases, maps, tasks, monitorVars, events, ghosts,
              overall, Goto
  <2>1. ASSUME NEW r \in Stream, NEW s \in Session, RequestBody(r, s)
        PROVE  TypeOK'
    BY <2>1, TurnsAssumption DEF RequestBody
  <2>2. ASSUME NEW r \in Stream, Abandon(r) PROVE TypeOK'
    BY <2>2 DEF Abandon
  <2>3. ASSUME NEW r \in Stream, Upsert(r) PROVE TypeOK'
    BY <2>3 DEF Upsert
  <2>4. ASSUME NEW r \in Stream, UpsertInsert(r) PROVE TypeOK'
    BY <2>4 DEF UpsertInsert
  <2>5. ASSUME NEW r \in Stream, NEW tokens \in 0..MaxTokens, CountTurn(r, tokens)
        PROVE  TypeOK'
    BY <2>5, TokensAssumption DEF CountTurn
  <2>6. ASSUME NEW r \in Stream, PersistTurn(r) PROVE TypeOK'
    BY <2>6 DEF PersistTurn
  <2>7. ASSUME NEW r \in Stream, RememberTurn(r) PROVE TypeOK'
    BY <2>7 DEF RememberTurn
  <2>8. ASSUME NEW r \in Stream, NEW prompted \in BOOLEAN, PublishTurn(r, prompted)
        PROVE  TypeOK'
    BY <2>8 DEF PublishTurn
  <2>9. ASSUME NEW s \in Session, GrowStale(s) PROVE TypeOK'
    BY <2>9 DEF GrowStale
  <2>10. ASSUME NEW s \in Session, RemoveSession(s) PROVE TypeOK'
    BY <2>10 DEF RemoveSession
  <2>11. CASE Scan
    BY <2>11 DEF Scan
  <2>12. CASE ScanDone
    BY <2>12 DEF ScanDone
  <2>13. CASE DropGuardState
    BY <2>13 DEF DropGuardState
  <2>14. CASE TakeTurns
    BY <2>14 DEF TakeTurns
  <2>15. CASE ReportEnd
    BY <2>15 DEF ReportEnd
  <2>16. CASE Crash
    BY <2>16, CrashesAssumption DEF Crash
  <2>17. CASE UNCHANGED vars
    BY <2>17 DEF vars
  <2>18. QED
    BY <2>1, <2>2, <2>3, <2>4, <2>5, <2>6, <2>7, <2>8, <2>9, <2>10, <2>11,
       <2>12, <2>13, <2>14, <2>15, <2>16, <2>17 DEF Next, Task, Monitor
<1>3. QED
  BY <1>1, <1>2, PTL DEF Spec

-----------------------------------------------------------------------------
(* The bound on overspending.                                              *)

\* What a set of tasks may still charge.
Reserve(S) == Cardinality(S) * MaxTokens

(* A set of tasks reserves a natural number of tokens, at most one Round,  *)
(* that grows and shrinks with the set, by MaxTokens for each task.        *)
LEMMA ReserveFacts ==
  ASSUME NEW S \in SUBSET Stream
  PROVE  /\ Reserve(S) \in Nat
         /\ Reserve(S) <= Round
         /\ \A T \in SUBSET S : Reserve(T) <= Reserve(S)
         /\ \A r \in Stream \ S : Reserve(S \cup {r}) = Reserve(S) + MaxTokens
         /\ \A r \in S : Reserve(S \ {r}) = Reserve(S) - MaxTokens
<1>1. IsFiniteSet(S) /\ Cardinality(S) \in Nat
  BY StreamAssumption, FS_Subset, FS_CardinalityType
<1>2. Cardinality(S) <= Cardinality(Stream) /\ Cardinality(Stream) \in Nat
  BY StreamAssumption, FS_Subset, FS_CardinalityType
<1>3. \A m, n \in Nat : m <= n => m * MaxTokens <= n * MaxTokens
  BY TokensAssumption
<1>4. \A T \in SUBSET S : Cardinality(T) \in Nat /\ Cardinality(T) <= Cardinality(S)
  BY <1>1, FS_Subset, FS_CardinalityType
<1>5. \A r \in Stream \ S : Reserve(S \cup {r}) = Reserve(S) + MaxTokens
  <2> SUFFICES ASSUME NEW r \in Stream \ S
               PROVE  Reserve(S \cup {r}) = Reserve(S) + MaxTokens
    OBVIOUS
  <2>1. Cardinality(S \cup {r}) = Cardinality(S) + 1
    BY <1>1, FS_AddElement
  <2>2. QED
    BY <1>1, <2>1, TokensAssumption DEF Reserve
<1>6. \A r \in S : Reserve(S \ {r}) = Reserve(S) - MaxTokens
  <2> SUFFICES ASSUME NEW r \in S
               PROVE  Reserve(S \ {r}) = Reserve(S) - MaxTokens
    OBVIOUS
  <2>1. Cardinality(S \ {r}) = Cardinality(S) - 1
    BY <1>1, FS_RemoveElement
  <2>2. QED
    BY <1>1, <2>1, TokensAssumption DEF Reserve
<1>7. Reserve(S) \in Nat
  BY <1>1, TokensAssumption DEF Reserve
<1>8. Reserve(S) <= Round
  BY <1>1, <1>2, <1>3 DEF Reserve, Round
<1>9. \A T \in SUBSET S : Reserve(T) <= Reserve(S)
  BY <1>1, <1>3, <1>4 DEF Reserve
<1>10. QED
  BY <1>5, <1>6, <1>7, <1>8, <1>9

\* The monitor has removed the entry of s but not yet its guard state.
Window(s) == monitor = "guard" /\ ending = s

\* What s has spent, and what its requests in flight, or those of them that
\* will not look at SESSIONS again, may add.
Exposure(s) == spent[s] + Reserve(InFlight(s))
Overtaken(s) == spent[s] + Reserve(At(s, "upserted"))
Bound == AtLeast(Budget - 1, Round) + Round

\* A session that was never ended has been charged only by tasks that listed
\* it, so every request that could see a charge was checked against it.
NeverEnded(s) ==
  s \notin reopened =>
    /\ Exposure(s) <= Budget - 1 + Round
    /\ s \notin sessions => spent[s] = 0 /\ At(s, "upserted") = {}
    /\ ~Window(s)

\* One that was ended and is not listed can only be charged by the tasks the
\* monitor overtook; listing it adds at most a round of unchecked requests.
\* Until its guard state is dropped, the charges of its last life stay.
EndedBefore(s) ==
  s \in reopened =>
    /\ s \in sessions /\ ~Window(s) => Exposure(s) <= Bound
    /\ s \notin sessions /\ ~Window(s) => Overtaken(s) <= Round
    /\ s \in sessions /\ Window(s) => Exposure(s) <= Bound + Round
    /\ s \notin sessions /\ Window(s) => Overtaken(s) <= Bound

\* A charge leaves a guard state that the next check can read.
Charged(s) == spent[s] > 0 => requests[s] > 0

BudgetInv == \A s \in Session : NeverEnded(s) /\ EndedBefore(s) /\ Charged(s)

(* The arithmetic of the bounds, for one session at any moment.            *)
LEMMA ExposureFacts ==
  ASSUME TypeOK, NEW s \in Session
  PROVE  /\ Exposure(s) \in Int /\ Overtaken(s) \in Int
         /\ Round \in Nat /\ Bound \in Nat
         /\ Bound >= Budget - 1 + Round /\ Bound >= 2 * Round
         /\ Reserve(InFlight(s)) \in Nat /\ Reserve(InFlight(s)) <= Round
         /\ Reserve(At(s, "upserted")) \in Nat
         /\ Overtaken(s) <= Exposure(s)
<1>1. /\ InFlight(s) \in SUBSET Stream
      /\ At(s, "upserted") \in SUBSET InFlight(s)
      /\ At(s, "upserted") \in SUBSET Stream
  BY DEF InFlight, At
<1>2. /\ Reserve(InFlight(s)) \in Nat
      /\ Reserve(InFlight(s)) <= Round
      /\ Reserve(At(s, "upserted")) \in Nat
      /\ Reserve(At(s, "upserted")) <= Reserve(InFlight(s))
  BY <1>1, ReserveFacts
<1>3. Round \in Nat
  BY StreamAssumption, TokensAssumption, FS_CardinalityType DEF Round
<1>4. Bound \in Nat /\ Bound >= Budget - 1 + Round /\ Bound >= 2 * Round
  BY <1>3, BudgetAssumption DEF Bound, AtLeast
<1>5. QED
  BY <1>2, <1>3, <1>4, SMTT(30) DEF Exposure, Overtaken, TypeOK

\* A step that leaves everything the bound of s speaks of as it is.
Untouched(s) ==
  /\ spent'[s] = spent[s] /\ requests'[s] = requests[s]
  /\ (s \in sessions') = (s \in sessions)
  /\ (s \in reopened') = (s \in reopened)
  /\ InFlight(s)' = InFlight(s)
  /\ At(s, "upserted")' = At(s, "upserted")
  /\ Window(s)' = Window(s)

LEMMA UntouchedKeepsBudget ==
  ASSUME NEW s \in Session, NeverEnded(s), EndedBefore(s), Charged(s), Untouched(s)
  PROVE  NeverEnded(s)' /\ EndedBefore(s)' /\ Charged(s)'
BY DEF Untouched, NeverEnded, EndedBefore, Charged, Exposure, Overtaken, Bound,
       Reserve, Round, AtLeast

(* Steps of a task: a check against the budget, an upsert, a charge.       *)
LEMMA TaskKeepsBudget ==
  ASSUME TypeOK, TypeOK', BudgetInv, NEW s \in Session, NEW r \in Stream,
         \/ \E t \in Session : RequestBody(r, t)
         \/ Abandon(r)
         \/ Task(r)
  PROVE  NeverEnded(s)' /\ EndedBefore(s)' /\ Charged(s)'
<1> USE DEF TypeOK, maps, tasks, monitorVars, events, ghosts, overall, Goto
<1>0. NeverEnded(s) /\ EndedBefore(s) /\ Charged(s)
  BY DEF BudgetInv
<1>a. /\ Exposure(s) \in Int /\ Overtaken(s) \in Int
      /\ Round \in Nat /\ Bound \in Nat
      /\ Bound >= Budget - 1 + Round /\ Bound >= 2 * Round
      /\ Reserve(InFlight(s)) \in Nat /\ Reserve(InFlight(s)) <= Round
      /\ Reserve(At(s, "upserted")) \in Nat
      /\ Overtaken(s) <= Exposure(s)
  BY ExposureFacts
<1>b. /\ Exposure(s)' \in Int /\ Overtaken(s)' \in Int
      /\ Reserve(InFlight(s)') \in Nat /\ Reserve(InFlight(s)') <= Round
      /\ Reserve(At(s, "upserted")') \in Nat
  <2>1. InFlight(s)' \in SUBSET Stream /\ At(s, "upserted")' \in SUBSET Stream
    BY DEF InFlight, At
  <2>2. /\ Reserve(InFlight(s)') \in Nat /\ Reserve(InFlight(s)') <= Round
        /\ Reserve(At(s, "upserted")') \in Nat
    BY <2>1, ReserveFacts
  <2>3. QED
    BY <2>2 DEF Exposure, Overtaken, Reserve
<1>c. /\ Exposure(s)' = spent'[s] + Reserve(InFlight(s)')
      /\ Overtaken(s)' = spent'[s] + Reserve(At(s, "upserted")')
      /\ Bound' = Bound /\ Round' = Round
  BY DEF Exposure, Overtaken, Reserve, Bound, Round, AtLeast
<1>d. InFlight(s) \in SUBSET Stream /\ At(s, "upserted") \in SUBSET Stream
  BY DEF InFlight, At
<1>1. ASSUME NEW t \in Session, RequestBody(r, t)
      PROVE  NeverEnded(s)' /\ EndedBefore(s)' /\ Charged(s)'
  <2> USE <1>1 DEF RequestBody
  <2>1. /\ At(s, "upserted")' = At(s, "upserted")
        /\ Window(s)' = Window(s)
        /\ UNCHANGED <<sessions, spent, requests, reopened>>
    BY DEF At, Window
  <2>2. CASE InFlight(s)' = InFlight(s)
    BY <1>0, <2>1, <2>2, UntouchedKeepsBudget DEF Untouched
  <2>3. CASE InFlight(s)' # InFlight(s)
    <3>1. t = s /\ ~OverBudget(s) /\ r \notin InFlight(s)
          /\ InFlight(s)' = InFlight(s) \cup {r}
      BY <2>3 DEF InFlight
    <3>2. Reserve(InFlight(s)') = Reserve(InFlight(s)) + MaxTokens
      BY <3>1, <1>d, ReserveFacts
    <3>3. s \in sessions => spent[s] <= Budget - 1
      BY <3>1, <1>0, BudgetAssumption DEF OverBudget, Charged
    <3>4. /\ s \in sessions => Exposure(s)' <= Budget - 1 + Round
          /\ Exposure(s)' <= spent[s] + Round
          /\ Overtaken(s)' = Overtaken(s)
      <4>1. spent[s] \in Nat /\ spent'[s] = spent[s]
        BY <2>1
      <4>2. Overtaken(s)' = Overtaken(s)
        BY <2>1, <4>1, <1>c DEF Overtaken
      <4>3. Exposure(s)' <= spent[s] + Round
        BY <1>a, <1>b, <1>c, <4>1
      <4>4. s \in sessions => Exposure(s)' <= Budget - 1 + Round
        BY <1>a, <1>b, <3>3, <4>1, <4>3, BudgetAssumption
      <4>5. QED
        BY <4>2, <4>3, <4>4
    <3>5. NeverEnded(s)'
      BY <1>0, <1>a, <1>b, <1>c, <2>1, <3>4, BudgetAssumption DEF NeverEnded
    <3>6. EndedBefore(s)'
      BY <1>0, <1>a, <1>b, <1>c, <2>1, <3>4, BudgetAssumption DEF EndedBefore
    <3>7. QED
      BY <1>0, <2>1, <3>5, <3>6 DEF Charged
  <2>4. QED
    BY <2>2, <2>3
<1>2. ASSUME Abandon(r)
      PROVE  NeverEnded(s)' /\ EndedBefore(s)' /\ Charged(s)'
  <2> USE <1>2 DEF Abandon
  <2>1. /\ At(s, "upserted")' = At(s, "upserted")
        /\ InFlight(s)' \in SUBSET InFlight(s)
        /\ Window(s)' = Window(s)
        /\ UNCHANGED <<sessions, spent, requests, reopened>>
    BY DEF At, Window, InFlight
  <2>2. Exposure(s)' <= Exposure(s) /\ Overtaken(s)' = Overtaken(s)
    <3>1. Reserve(InFlight(s)') <= Reserve(InFlight(s))
      BY <2>1, <1>d, ReserveFacts
    <3>2. QED
      BY <1>a, <1>b, <1>c, <2>1, <3>1 DEF Exposure, Overtaken
  <2>3. QED
    BY <1>0, <1>a, <1>b, <1>c, <2>1, <2>2, BudgetAssumption
       DEF NeverEnded, EndedBefore, Charged
<1>3. ASSUME Upsert(r)
      PROVE  NeverEnded(s)' /\ EndedBefore(s)' /\ Charged(s)'
  <2> USE <1>3 DEF Upsert
  <2>1. /\ InFlight(s)' = InFlight(s)
        /\ Window(s)' = Window(s)
        /\ UNCHANGED <<sessions, spent, requests, reopened>>
    BY DEF Window, InFlight
  <2>2. s \notin sessions => At(s, "upserted")' = At(s, "upserted")
    BY DEF At
  <2>3. Exposure(s)' = Exposure(s)
        /\ (s \notin sessions => Overtaken(s)' = Overtaken(s))
    BY <2>1, <2>2, <1>c DEF Exposure, Overtaken
  <2>4. QED
    BY <1>0, <1>a, <1>c, <2>1, <2>2, <2>3 DEF NeverEnded, EndedBefore, Charged
<1>4. ASSUME UpsertInsert(r)
      PROVE  NeverEnded(s)' /\ EndedBefore(s)' /\ Charged(s)'
  <2> USE <1>4 DEF UpsertInsert
  <2>1. /\ InFlight(s)' = InFlight(s)
        /\ Window(s)' = Window(s)
        /\ UNCHANGED <<spent, requests, reopened>>
    BY DEF Window, InFlight
  <2>2. CASE session[r] # s
    <3>1. At(s, "upserted")' = At(s, "upserted")
          /\ (s \in sessions') = (s \in sessions)
      BY <2>2 DEF At
    <3>2. QED
      BY <1>0, <2>1, <3>1, UntouchedKeepsBudget DEF Untouched
  <2>3. CASE session[r] = s
    <3>1. s \in sessions' /\ Exposure(s)' = Exposure(s)
      BY <2>1, <2>3, <1>c DEF Exposure
    <3>2. Exposure(s) <= Overtaken(s) + Round
      BY <1>a DEF Exposure, Overtaken
    <3>3. EndedBefore(s)'
      BY <1>0, <1>a, <1>c, <2>1, <3>1, <3>2 DEF EndedBefore
    <3>4. QED
      BY <1>0, <1>a, <1>c, <2>1, <3>1, <3>3 DEF NeverEnded, Charged
  <2>4. QED
    BY <2>2, <2>3
<1>5. ASSUME NEW tokens \in 0..MaxTokens, CountTurn(r, tokens)
      PROVE  NeverEnded(s)' /\ EndedBefore(s)' /\ Charged(s)'
  <2> USE <1>5, TokensAssumption DEF CountTurn
  <2>1. Window(s)' = Window(s) /\ UNCHANGED <<sessions, reopened>>
    BY DEF Window
  <2>2. CASE session[r] # s
    <3>1. /\ At(s, "upserted")' = At(s, "upserted")
          /\ InFlight(s)' = InFlight(s)
          /\ spent'[s] = spent[s] /\ requests'[s] = requests[s]
      BY <2>2 DEF At, InFlight
    <3>2. QED
      BY <1>0, <2>1, <3>1, UntouchedKeepsBudget DEF Untouched
  <2>3. CASE session[r] = s
    <3>1. /\ r \in At(s, "upserted") /\ r \in InFlight(s)
          /\ At(s, "upserted")' = At(s, "upserted") \ {r}
          /\ InFlight(s)' = InFlight(s) \ {r}
      BY <2>3 DEF At, InFlight
    <3>2. spent'[s] = spent[s] + tokens /\ requests'[s] = requests[s] + 1
      BY <2>3
    <3>3. /\ Reserve(InFlight(s)') = Reserve(InFlight(s)) - MaxTokens
          /\ Reserve(At(s, "upserted")') = Reserve(At(s, "upserted")) - MaxTokens
      BY <3>1, <1>d, ReserveFacts
    <3>4. Exposure(s)' <= Exposure(s) /\ Overtaken(s)' <= Overtaken(s)
      BY <1>a, <1>b, <1>c, <3>2, <3>3 DEF Exposure, Overtaken
    <3>5. NeverEnded(s)'
      BY <1>0, <1>a, <1>b, <1>c, <2>1, <3>1, <3>4, BudgetAssumption DEF NeverEnded
    <3>6. EndedBefore(s)'
      BY <1>0, <1>a, <1>b, <1>c, <2>1, <3>4 DEF EndedBefore
    <3>7. QED
      BY <3>2, <3>5, <3>6 DEF Charged
  <2>4. QED
    BY <2>2, <2>3
<1>6. ASSUME \/ PersistTurn(r) \/ RememberTurn(r)
             \/ \E prompted \in BOOLEAN : PublishTurn(r, prompted)
      PROVE  NeverEnded(s)' /\ EndedBefore(s)' /\ Charged(s)'
  <2>1. Untouched(s)
    BY <1>6 DEF PersistTurn, RememberTurn, PublishTurn, Untouched, InFlight, At,
                Window
  <2>2. QED
    BY <1>0, <2>1, UntouchedKeepsBudget
<1>7. QED
  BY <1>1, <1>2, <1>3, <1>4, <1>5, <1>6 DEF Task

(* Steps of the monitor, and the passing of time: an entry goes, then the  *)
(* guard state goes.                                                       *)
LEMMA MonitorKeepsBudget ==
  ASSUME TypeOK, TypeOK', BudgetInv, NEW s \in Session,
         (\E t \in Session : GrowStale(t)) \/ Monitor
  PROVE  NeverEnded(s)' /\ EndedBefore(s)' /\ Charged(s)'
<1> USE DEF TypeOK, maps, tasks, monitorVars, events, ghosts, overall
<1>0. NeverEnded(s) /\ EndedBefore(s) /\ Charged(s)
  BY DEF BudgetInv
<1>a. /\ Exposure(s) \in Int /\ Overtaken(s) \in Int
      /\ Round \in Nat /\ Bound \in Nat
      /\ Bound >= Budget - 1 + Round /\ Bound >= 2 * Round
      /\ Reserve(InFlight(s)) \in Nat /\ Reserve(InFlight(s)) <= Round
      /\ Reserve(At(s, "upserted")) \in Nat
      /\ Overtaken(s) <= Exposure(s)
  BY ExposureFacts
<1>b. ASSUME UNCHANGED tasks
      PROVE  /\ InFlight(s)' = InFlight(s)
             /\ At(s, "upserted")' = At(s, "upserted")
             /\ Exposure(s)' = spent'[s] + Reserve(InFlight(s))
             /\ Overtaken(s)' = spent'[s] + Reserve(At(s, "upserted"))
             /\ Bound' = Bound /\ Round' = Round
  BY <1>b DEF InFlight, At, Exposure, Overtaken, Reserve, Bound, Round, AtLeast
<1>1. ASSUME NEW t \in Session, RemoveSession(t)
      PROVE  NeverEnded(s)' /\ EndedBefore(s)' /\ Charged(s)'
  <2> USE <1>1 DEF RemoveSession
  <2>1. UNCHANGED <<spent, requests, tasks>> /\ ~Window(s)
    BY DEF Window
  <2>2. CASE t = s /\ s \in sessions
    <3>1. s \in reopened' /\ s \notin sessions' /\ Window(s)'
      BY <2>2 DEF Window
    <3>2. Overtaken(s)' <= Bound
      <4>1. Overtaken(s)' = Overtaken(s)
        BY <1>b, <2>1 DEF Overtaken
      <4>2. Exposure(s) <= Bound
        BY <1>0, <1>a, <2>1, <2>2, BudgetAssumption DEF NeverEnded, EndedBefore
      <4>3. QED
        BY <1>a, <4>1, <4>2
    <3>3. QED
      BY <1>0, <1>b, <2>1, <3>1, <3>2 DEF NeverEnded, EndedBefore, Charged
  <2>3. CASE ~(t = s /\ s \in sessions)
    <3>1. Untouched(s)
      BY <1>b, <2>1, <2>3 DEF Untouched, Window
    <3>2. QED
      BY <1>0, <3>1, UntouchedKeepsBudget
  <2>4. QED
    BY <2>2, <2>3
<1>2. ASSUME DropGuardState
      PROVE  NeverEnded(s)' /\ EndedBefore(s)' /\ Charged(s)'
  <2> USE <1>2 DEF DropGuardState
  <2>1. UNCHANGED <<sessions, reopened, tasks>> /\ ~Window(s)'
    BY DEF Window
  <2>2. CASE ending # s
    <3>1. Untouched(s)
      BY <1>b, <2>1, <2>2 DEF Untouched, Window
    <3>2. QED
      BY <1>0, <3>1, UntouchedKeepsBudget
  <2>3. CASE ending = s
    <3>1. spent'[s] = 0 /\ s \in reopened
      BY <1>0, <2>3 DEF NeverEnded, Window
    <3>2. Exposure(s)' <= Round /\ Overtaken(s)' <= Round
      <4>1. At(s, "upserted") \in SUBSET Stream
        BY DEF At
      <4>2. Reserve(At(s, "upserted")) <= Round
        BY <4>1, ReserveFacts
      <4>3. QED
        BY <1>a, <1>b, <2>1, <3>1, <4>2
    <3>3. Round <= Bound /\ Exposure(s)' \in Int /\ Overtaken(s)' \in Int
      BY <1>a, <1>b, <2>1, <3>1
    <3>4. QED
      BY <1>a, <1>b, <2>1, <3>1, <3>2, <3>3 DEF NeverEnded, EndedBefore, Charged
  <2>4. QED
    BY <2>2, <2>3
<1>3. ASSUME \/ \E t \in Session : GrowStale(t)
             \/ Scan \/ ScanDone \/ TakeTurns \/ ReportEnd
      PROVE  NeverEnded(s)' /\ EndedBefore(s)' /\ Charged(s)'
  <2>1. Untouched(s)
    BY <1>3, <1>b DEF GrowStale, Scan, ScanDone, TakeTurns, ReportEnd, Untouched,
                      Window
  <2>2. QED
    BY <1>0, <2>1, UntouchedKeepsBudget
<1>4. QED
  BY <1>1, <1>2, <1>3 DEF Monitor

\* Nothing was spent yet in this life, and no task is about to.
Unspent(s) ==
  /\ sessions = {} /\ reopened = {} /\ spent[s] = 0 /\ monitor = "scan"
  /\ \A r \in Stream : phase[r] = "idle"

(* A life of the process begins within the bounds.                         *)
LEMMA UnspentIsInBounds ==
  ASSUME NEW s \in Session, Unspent(s)
  PROVE  NeverEnded(s) /\ EndedBefore(s) /\ Charged(s)
<1>1. InFlight(s) = {} /\ At(s, "upserted") = {} /\ {} \in SUBSET Stream
  BY DEF Unspent, InFlight, At
<1>2. Reserve({}) = 0 /\ Round \in Nat
  BY FS_EmptySet, FS_CardinalityType, StreamAssumption, TokensAssumption
     DEF Reserve, Round
<1>3. Exposure(s) = 0
  BY <1>1, <1>2 DEF Unspent, Exposure
<1>4. QED
  BY <1>1, <1>2, <1>3, BudgetAssumption
     DEF Unspent, NeverEnded, EndedBefore, Charged, Window

(* A crash begins such a life.                                             *)
LEMMA CrashSpendsNothing ==
  ASSUME NEW s \in Session, Crash
  PROVE  NeverEnded(s)' /\ EndedBefore(s)' /\ Charged(s)'
<1>1. Unspent(s)'
  BY DEF Crash, Unspent
<1>2. InFlight(s)' = {} /\ At(s, "upserted")' = {} /\ {} \in SUBSET Stream
  BY <1>1 DEF Unspent, InFlight, At
<1>3. Reserve({}) = 0 /\ Round \in Nat
  BY FS_EmptySet, FS_CardinalityType, StreamAssumption, TokensAssumption
     DEF Reserve, Round
<1>4. Exposure(s)' = 0
  BY <1>1, <1>2, <1>3 DEF Unspent, Exposure, Reserve
<1>5. QED
  BY <1>1, <1>2, <1>3, <1>4, BudgetAssumption
     DEF Unspent, NeverEnded, EndedBefore, Charged, Window, Round

\* The inductive invariant of the bound, as a step of its own.
BudgetStep == TypeOK /\ TypeOK' /\ BudgetInv /\ [Next]_vars => BudgetInv'

(* Every step of the system keeps the bounds of every session.             *)
LEMMA BudgetKeeps == BudgetStep
<1> SUFFICES ASSUME TypeOK, TypeOK', BudgetInv, [Next]_vars, NEW s \in Session
             PROVE  NeverEnded(s)' /\ EndedBefore(s)' /\ Charged(s)'
  BY DEF BudgetStep, BudgetInv
<1>1. CASE \E r \in Stream : \/ \E t \in Session : RequestBody(r, t)
                             \/ Abandon(r)
                             \/ Task(r)
  BY <1>1, TaskKeepsBudget
<1>2. CASE (\E t \in Session : GrowStale(t)) \/ Monitor
  BY <1>2, MonitorKeepsBudget
<1>3. CASE Crash
  BY <1>3, CrashSpendsNothing
<1>4. CASE UNCHANGED vars
  <2>1. Untouched(s)
    BY <1>4 DEF vars, maps, tasks, monitorVars, ghosts, Untouched, InFlight, At, Window
  <2>2. QED
    BY <2>1, UntouchedKeepsBudget DEF BudgetInv
<1>5. QED
  BY <1>1, <1>2, <1>3, <1>4 DEF Next

(* A session overspends its budget by at most what may be in flight at     *)
(* once, and by two more rounds once it has been ended and came back.      *)
THEOREM OvershootIsBounded == Spec => []BudgetOvershootBounded
<1>1. Init => BudgetInv
  <2> SUFFICES ASSUME Init, NEW s \in Session
               PROVE  NeverEnded(s) /\ EndedBefore(s) /\ Charged(s)
    BY DEF BudgetInv
  <2>1. Unspent(s)
    BY DEF Init, Unspent
  <2>2. QED
    BY <2>1, UnspentIsInBounds
<1>2. TypeOK /\ TypeOK' /\ BudgetInv /\ [Next]_vars => BudgetInv'
  BY BudgetKeeps DEF BudgetStep
<1>3. TypeOK /\ BudgetInv => BudgetOvershootBounded
  <2> SUFFICES ASSUME TypeOK, BudgetInv, NEW s \in Session
               PROVE  spent[s] <= IF s \in reopened
                                    THEN AtLeast(Budget - 1, Round) + 2 * Round
                                    ELSE Budget - 1 + Round
    BY DEF BudgetOvershootBounded
  <2>1. NeverEnded(s) /\ EndedBefore(s)
    BY DEF BudgetInv
  <2>2. /\ Round \in Nat /\ Bound \in Nat /\ Bound >= 2 * Round
        /\ spent[s] <= Overtaken(s) /\ spent[s] <= Exposure(s)
        /\ Overtaken(s) \in Int /\ Exposure(s) \in Int /\ spent[s] \in Nat
    BY ExposureFacts DEF Overtaken, Exposure, TypeOK
  <2>3. AtLeast(Budget - 1, Round) \in Nat
    BY <2>2, BudgetAssumption DEF AtLeast
  <2>4. s \in reopened => spent[s] <= Bound + Round
    BY <2>1, <2>2 DEF EndedBefore
  <2>5. s \notin reopened => spent[s] <= Budget - 1 + Round
    BY <2>1, <2>2, BudgetAssumption DEF NeverEnded
  <2>6. QED
    BY <2>2, <2>3, <2>4, <2>5 DEF Bound
<1>4. QED
  BY <1>1, <1>2, <1>3, TypeCorrect, PTL DEF Spec

-----------------------------------------------------------------------------
(* The bound over all lives of a session.                                  *)

\* What earlier guard states of s were charged, and what the restarts and
\* removals so far allow.
Past(s) == charged[s] - spent[s]
Lifetime == Budget - 1 + Round
Return == Bound + Round
Allowed(s) == (crashes + 1) * Lifetime + removals[s] * Return

\* A session that is not ended in this life has room for a Lifetime, one that
\* was ended for another Bound; until its guard state is dropped, for what that
\* may still be charged as well.
SpendingOf(s) ==
  /\ s \notin reopened => Past(s) + Lifetime <= Allowed(s)
  /\ s \in reopened => Past(s) + Bound <= Allowed(s)
  /\ Window(s) =>
       /\ Past(s) + Lifetime + Bound <= Allowed(s)
       /\ s \notin sessions => Past(s) + Overtaken(s) + Round + Bound <= Allowed(s)
       /\ s \in sessions => Past(s) + Exposure(s) + Bound <= Allowed(s)
SpendingInv == \A s \in Session : SpendingOf(s)

(* A restart allows one Lifetime more, a removal one Return.               *)
LEMMA AllowedFacts ==
  ASSUME TypeOK, TypeOK', NEW s \in Session
  PROVE  /\ Allowed(s) \in Nat /\ Lifetime \in Nat /\ Return \in Nat
         /\ Lifetime <= Bound /\ Lifetime <= Return /\ Bound <= Return
         /\ Lifetime' = Lifetime /\ Bound' = Bound /\ Return' = Return
         /\ crashes' = crashes /\ removals'[s] = removals[s] => Allowed(s)' = Allowed(s)
         /\ crashes' = crashes + 1 /\ removals'[s] = removals[s]
              => Allowed(s)' = Allowed(s) + Lifetime
         /\ crashes' = crashes /\ removals'[s] = removals[s] + 1
              => Allowed(s)' = Allowed(s) + Return
<1>1. Round \in Nat /\ Bound \in Nat /\ Bound >= Budget - 1 + Round
  BY ExposureFacts
<1>2. /\ Lifetime \in Nat /\ Return \in Nat
      /\ Lifetime <= Bound /\ Lifetime <= Return /\ Bound <= Return
  BY <1>1, BudgetAssumption DEF Lifetime, Return
<1>3. Lifetime' = Lifetime /\ Bound' = Bound /\ Return' = Return
  BY DEF Lifetime, Bound, Return, Round, AtLeast
<1>4. /\ crashes \in Nat /\ crashes' \in Nat
      /\ removals[s] \in Nat /\ removals'[s] \in Nat
  BY CrashesAssumption DEF TypeOK
<1>5. \A m, n \in Nat : m * n \in Nat /\ (m + 1) * n = m * n + n
  OBVIOUS
<1>6. (crashes + 1) * Lifetime \in Nat /\ removals[s] * Return \in Nat
  BY <1>2, <1>4, <1>5
<1>7. Allowed(s) \in Nat
  BY <1>6 DEF Allowed
<1>8. Allowed(s)' = (crashes' + 1) * Lifetime + removals'[s] * Return
  BY <1>3 DEF Allowed
<1>9. ASSUME crashes' = crashes + 1, removals'[s] = removals[s]
      PROVE  Allowed(s)' = Allowed(s) + Lifetime
  <2>1. (crashes' + 1) * Lifetime = (crashes + 1) * Lifetime + Lifetime
    BY <1>2, <1>4, <1>5, <1>9
  <2> QED BY <1>2, <1>6, <1>8, <1>9, <2>1 DEF Allowed
<1>10. ASSUME crashes' = crashes, removals'[s] = removals[s] + 1
       PROVE  Allowed(s)' = Allowed(s) + Return
  <2>1. removals'[s] * Return = removals[s] * Return + Return
    BY <1>2, <1>4, <1>5, <1>10
  <2> QED BY <1>2, <1>6, <1>8, <1>10, <2>1 DEF Allowed
<1> QED BY <1>2, <1>3, <1>7, <1>8, <1>9, <1>10 DEF Allowed

(* Only dropping the guard state, or losing it in a crash, turns what was  *)
(* spent into the past; a charge raises both.                              *)
LEMMA PastKeeps ==
  ASSUME TypeOK, TypeOK', NEW s \in Session, [Next]_vars, ~Crash,
         ~(DropGuardState /\ ending = s)
  PROVE  Past(s)' = Past(s) /\ Past(s) \in Int
<1> USE DEF TypeOK, maps, tasks, monitorVars, events, ghosts, overall, Goto
<1>1. ASSUME charged'[s] = charged[s], spent'[s] = spent[s]
      PROVE  Past(s)' = Past(s) /\ Past(s) \in Int
  BY <1>1 DEF Past
<1>2. ASSUME NEW r \in Stream, NEW tokens \in 0..MaxTokens, CountTurn(r, tokens)
      PROVE  Past(s)' = Past(s) /\ Past(s) \in Int
  <2>1. CASE session[r] = s
    <3>1. /\ charged'[s] = charged[s] + tokens /\ spent'[s] = spent[s] + tokens
          /\ charged[s] \in Nat /\ spent[s] \in Nat /\ tokens \in Nat
      BY <1>2, <2>1, TokensAssumption DEF CountTurn
    <3> QED BY <3>1 DEF Past
  <2>2. CASE session[r] # s
    BY <1>1, <1>2, <2>2 DEF CountTurn
  <2> QED BY <2>1, <2>2
<1>3. ASSUME NEW r \in Stream,
             \/ \E t \in Session : RequestBody(r, t)
             \/ Abandon(r) \/ Upsert(r) \/ UpsertInsert(r)
             \/ PersistTurn(r) \/ RememberTurn(r)
             \/ \E prompted \in BOOLEAN : PublishTurn(r, prompted)
      PROVE  Past(s)' = Past(s) /\ Past(s) \in Int
  BY <1>1, <1>3 DEF RequestBody, Abandon, Upsert, UpsertInsert, PersistTurn, RememberTurn,
                    PublishTurn
<1>4. CASE DropGuardState
  BY <1>1, <1>4 DEF DropGuardState
<1>5. ASSUME \/ \E t \in Session : GrowStale(t) \/ RemoveSession(t)
             \/ Scan \/ ScanDone \/ TakeTurns \/ ReportEnd \/ UNCHANGED vars
      PROVE  Past(s)' = Past(s) /\ Past(s) \in Int
  BY <1>1, <1>5 DEF GrowStale, RemoveSession, Scan, ScanDone, TakeTurns, ReportEnd, vars
<1>6. CASE \E r \in Stream : \/ \E t \in Session : RequestBody(r, t)
                             \/ Abandon(r)
                             \/ Task(r)
  BY <1>2, <1>3, <1>6 DEF Task
<1> QED BY <1>4, <1>5, <1>6 DEF Next, Monitor

(* What an allowance was made for is all that was charged.                 *)
LEMMA ChargedIsAllowed ==
  ASSUME TypeOK, TypeOK', NEW s \in Session, NeverEnded(s), EndedBefore(s), SpendingOf(s)
  PROVE  charged[s] <= Allowed(s)
<1>1. /\ Round \in Nat /\ Bound \in Nat /\ Round <= Bound
      /\ Exposure(s) \in Int /\ Overtaken(s) \in Int
      /\ spent[s] <= Exposure(s) /\ spent[s] <= Overtaken(s)
  <2>1. /\ Round \in Nat /\ Bound \in Nat /\ Bound >= Budget - 1 + Round
        /\ Exposure(s) \in Int /\ Overtaken(s) \in Int
        /\ Reserve(InFlight(s)) \in Nat /\ Reserve(At(s, "upserted")) \in Nat
    BY ExposureFacts
  <2>2. spent[s] \in Nat /\ Budget \in Nat \ {0}
    BY BudgetAssumption DEF TypeOK
  <2> QED BY <2>1, <2>2 DEF Exposure, Overtaken
<1>2. Allowed(s) \in Nat /\ Lifetime \in Nat
  BY AllowedFacts
<1>3. spent[s] \in Nat /\ charged[s] \in Nat
  BY DEF TypeOK
<1>4. CASE s \notin reopened
  <2>1. spent[s] <= Lifetime
    BY <1>1, <1>2, <1>3, <1>4 DEF NeverEnded, Lifetime
  <2> QED BY <1>2, <1>3, <1>4, <2>1 DEF SpendingOf, Past
<1>5. CASE s \in reopened /\ ~Window(s)
  <2>1. spent[s] <= Bound
    BY <1>1, <1>3, <1>5 DEF EndedBefore
  <2> QED BY <1>1, <1>2, <1>3, <1>5, <2>1 DEF SpendingOf, Past
<1>6. CASE Window(s)
  BY <1>1, <1>2, <1>3, <1>6 DEF SpendingOf, Past
<1> QED BY <1>4, <1>5, <1>6

(* While the guard state of a removed session waits to be dropped, tasks   *)
(* that find it listed again are checked against what it still says.       *)
LEMMA ExposureStep ==
  ASSUME TypeOK, TypeOK', BudgetInv, NEW s \in Session, NEW r \in Stream,
         \/ \E t \in Session : RequestBody(r, t)
         \/ Abandon(r)
         \/ Task(r)
  PROVE  /\ UNCHANGED <<monitorVars, reopened, overall>>
         /\ s \notin sessions' => s \notin sessions /\ Overtaken(s)' <= Overtaken(s)
         /\ s \in sessions' /\ s \notin sessions => Exposure(s)' <= Overtaken(s) + Round
         /\ s \in sessions' /\ s \in sessions =>
              Exposure(s)' <= Exposure(s) \/ Exposure(s)' <= Lifetime
<1> USE DEF TypeOK, maps, tasks, monitorVars, events, ghosts, overall, Goto
<1> DEFINE Goal == /\ UNCHANGED <<monitorVars, reopened, overall>>
                   /\ s \notin sessions' => s \notin sessions /\ Overtaken(s)' <= Overtaken(s)
                   /\ s \in sessions' /\ s \notin sessions =>
                        Exposure(s)' <= Overtaken(s) + Round
                   /\ s \in sessions' /\ s \in sessions =>
                        Exposure(s)' <= Exposure(s) \/ Exposure(s)' <= Lifetime
<1>a. /\ Exposure(s) \in Int /\ Overtaken(s) \in Int /\ Round \in Nat
      /\ Reserve(InFlight(s)) \in Nat /\ Reserve(InFlight(s)) <= Round
      /\ Reserve(At(s, "upserted")) \in Nat
  BY ExposureFacts
<1>b. /\ InFlight(s) \in SUBSET Stream /\ At(s, "upserted") \in SUBSET Stream
      /\ InFlight(s)' \in SUBSET Stream
  BY DEF InFlight, At
<1>c. /\ Exposure(s)' = spent'[s] + Reserve(InFlight(s)')
      /\ Overtaken(s)' = spent'[s] + Reserve(At(s, "upserted")')
      /\ Reserve(InFlight(s)') \in Nat /\ Reserve(InFlight(s)') <= Round
  BY <1>b, ReserveFacts DEF Exposure, Overtaken, Reserve
<1>d. spent[s] \in Nat /\ spent'[s] \in Nat
  OBVIOUS
<1>1. ASSUME NEW t \in Session, RequestBody(r, t)
      PROVE  Goal
  <2>1. /\ At(s, "upserted")' = At(s, "upserted")
        /\ UNCHANGED <<monitorVars, sessions, spent, reopened, overall>>
    BY <1>1 DEF RequestBody, At
  <2>2. Overtaken(s)' = Overtaken(s)
    BY <1>c, <2>1 DEF Overtaken
  <2>3. s \in sessions => Exposure(s)' <= Exposure(s) \/ Exposure(s)' <= Lifetime
    <3>1. CASE InFlight(s)' = InFlight(s)
      BY <1>a, <1>c, <2>1, <3>1 DEF Exposure
    <3>2. CASE InFlight(s)' # InFlight(s) /\ s \in sessions
      <4>1. t = s /\ ~OverBudget(s)
        BY <1>1, <3>2 DEF RequestBody, InFlight
      <4>2. spent[s] <= Budget - 1
        BY <3>2, <4>1, BudgetAssumption DEF OverBudget, BudgetInv, Charged
      <4> QED BY <1>a, <1>c, <1>d, <2>1, <4>2, BudgetAssumption DEF Lifetime
    <3> QED BY <3>1, <3>2
  <2> QED BY <1>a, <2>1, <2>2, <2>3
<1>2. ASSUME Abandon(r) PROVE Goal
  <2>1. /\ At(s, "upserted")' = At(s, "upserted") /\ InFlight(s)' \in SUBSET InFlight(s)
        /\ UNCHANGED <<monitorVars, sessions, spent, reopened, overall>>
    BY <1>2 DEF Abandon, At, InFlight
  <2>2. Reserve(InFlight(s)') <= Reserve(InFlight(s))
    BY <1>b, <2>1, ReserveFacts
  <2> QED BY <1>a, <1>c, <1>d, <2>1, <2>2 DEF Exposure, Overtaken
<1>3. ASSUME Upsert(r) PROVE Goal
  <2>1. /\ InFlight(s)' = InFlight(s)
        /\ s \notin sessions => At(s, "upserted")' = At(s, "upserted")
        /\ UNCHANGED <<monitorVars, sessions, spent, reopened, overall>>
    BY <1>3 DEF Upsert, InFlight, At
  <2> QED BY <1>a, <1>c, <1>d, <2>1 DEF Exposure, Overtaken
<1>4. ASSUME UpsertInsert(r) PROVE Goal
  <2>1. /\ InFlight(s)' = InFlight(s)
        /\ UNCHANGED <<monitorVars, spent, reopened, overall>>
        /\ s \in sessions => s \in sessions'
    BY <1>4 DEF UpsertInsert, InFlight
  <2>2. s \notin sessions' => At(s, "upserted")' = At(s, "upserted")
    BY <1>4 DEF UpsertInsert, At
  <2>3. Exposure(s)' = Exposure(s) /\ Exposure(s) <= Overtaken(s) + Round
    BY <1>a, <1>c, <1>d, <2>1 DEF Exposure, Overtaken
  <2>4. s \notin sessions' => Overtaken(s)' <= Overtaken(s)
    BY <1>a, <1>c, <1>d, <2>1, <2>2 DEF Overtaken
  <2> QED BY <1>a, <2>1, <2>3, <2>4
<1>5. ASSUME NEW tokens \in 0..MaxTokens, CountTurn(r, tokens) PROVE Goal
  <2>1. UNCHANGED <<monitorVars, sessions, reopened, overall>>
    BY <1>5 DEF CountTurn
  <2>2. CASE session[r] # s
    <3>1. /\ At(s, "upserted")' = At(s, "upserted") /\ InFlight(s)' = InFlight(s)
          /\ spent'[s] = spent[s]
      BY <1>5, <2>2 DEF CountTurn, At, InFlight
    <3> QED BY <1>a, <1>c, <1>d, <2>1, <3>1 DEF Exposure, Overtaken
  <2>3. CASE session[r] = s
    <3>1. /\ r \in At(s, "upserted") /\ r \in InFlight(s)
          /\ At(s, "upserted")' = At(s, "upserted") \ {r}
          /\ InFlight(s)' = InFlight(s) \ {r}
          /\ spent'[s] = spent[s] + tokens
      BY <1>5, <2>3 DEF CountTurn, At, InFlight
    <3>2. /\ Reserve(InFlight(s)') = Reserve(InFlight(s)) - MaxTokens
          /\ Reserve(At(s, "upserted")') = Reserve(At(s, "upserted")) - MaxTokens
      BY <1>b, <3>1, ReserveFacts
    <3>3. Exposure(s)' <= Exposure(s) /\ Overtaken(s)' <= Overtaken(s)
      BY <1>5, <1>a, <1>c, <1>d, <3>1, <3>2, TokensAssumption DEF Exposure, Overtaken
    <3> QED BY <2>1, <3>3
  <2> QED BY <2>2, <2>3
<1>6. ASSUME \/ PersistTurn(r) \/ RememberTurn(r)
             \/ \E prompted \in BOOLEAN : PublishTurn(r, prompted)
      PROVE  Goal
  <2>1. /\ At(s, "upserted")' = At(s, "upserted") /\ InFlight(s)' = InFlight(s)
        /\ UNCHANGED <<monitorVars, sessions, spent, reopened, overall>>
    BY <1>6 DEF PersistTurn, RememberTurn, PublishTurn, At, InFlight
  <2> QED BY <1>a, <1>c, <1>d, <2>1 DEF Exposure, Overtaken
<1> QED BY <1>1, <1>2, <1>3, <1>4, <1>5, <1>6 DEF Task

(* Every step keeps the allowance: a removal pays for the next guard state *)
(* when the present one still has to be dropped.                           *)
LEMMA SpendingKeeps ==
  ASSUME TypeOK, TypeOK', BudgetInv, SpendingInv, [Next]_vars, NEW s \in Session
  PROVE  SpendingOf(s)'
<1> USE DEF maps, tasks, monitorVars, events, ghosts, overall
<1>0. /\ NeverEnded(s) /\ EndedBefore(s) /\ SpendingOf(s) /\ charged[s] <= Allowed(s)
      /\ spent[s] \in Nat /\ charged[s] \in Nat
  BY ChargedIsAllowed DEF BudgetInv, SpendingInv, TypeOK
<1>a. /\ Exposure(s) \in Int /\ Overtaken(s) \in Int
      /\ Round \in Nat /\ Bound \in Nat
      /\ Reserve(InFlight(s)) \in Nat /\ Reserve(At(s, "upserted")) \in Nat
      /\ Overtaken(s) <= Exposure(s)
  BY ExposureFacts
<1>b. /\ Allowed(s) \in Nat /\ Lifetime \in Nat /\ Return \in Nat
      /\ Lifetime <= Bound /\ Lifetime <= Return /\ Bound <= Return
      /\ Return = Bound + Round /\ Lifetime = Budget - 1 + Round
      /\ Lifetime' = Lifetime /\ Bound' = Bound /\ Round' = Round
  BY AllowedFacts DEF Return, Lifetime, Round
<1>c. Past(s) \in Int
  BY <1>0 DEF Past
<1>1. CASE Crash
  <2>1. s \notin reopened' /\ ~Window(s)' /\ Past(s)' = charged[s]
    BY <1>0, <1>1 DEF Crash, Past, Window
  <2>2. Allowed(s)' = Allowed(s) + Lifetime
    BY <1>1, AllowedFacts DEF Crash
  <2> QED BY <1>0, <1>b, <2>1, <2>2 DEF SpendingOf
<1>2. CASE DropGuardState /\ ending = s
  <2>1. Window(s) /\ ~Window(s)' /\ s \in reopened /\ s \in reopened'
    BY <1>0, <1>2 DEF DropGuardState, Window, NeverEnded
  <2>2. Past(s)' = Past(s) + spent[s] /\ Allowed(s)' = Allowed(s)
    <3>1. spent'[s] = 0 /\ charged'[s] = charged[s]
      BY <1>2 DEF DropGuardState, TypeOK
    <3>2. Allowed(s)' = Allowed(s)
      BY <1>2, AllowedFacts DEF DropGuardState
    <3> QED BY <1>0, <3>1, <3>2 DEF Past
  <2>3. spent[s] <= Exposure(s) /\ spent[s] <= Overtaken(s)
    BY <1>0, <1>a DEF Exposure, Overtaken
  <2> QED BY <1>0, <1>a, <1>b, <1>c, <2>1, <2>2, <2>3 DEF SpendingOf
<1>3. CASE RemoveSession(s) /\ s \in sessions
  <2>1. /\ Past(s)' = Past(s) /\ Overtaken(s)' = Overtaken(s)
        /\ s \in reopened' /\ s \notin sessions' /\ ~Window(s)
    BY <1>3 DEF RemoveSession, Past, Overtaken, Reserve, At, Window
  <2>2. Allowed(s)' = Allowed(s) + Return
    <3>1. crashes' = crashes /\ removals'[s] = removals[s] + 1
      BY <1>3 DEF RemoveSession, TypeOK
    <3> QED BY <3>1, AllowedFacts
  <2>3. Overtaken(s) <= Bound /\ (s \notin reopened => Overtaken(s) <= Lifetime)
    BY <1>0, <1>3, <1>a, <1>b, <2>1 DEF NeverEnded, EndedBefore
  <2> QED BY <1>0, <1>a, <1>b, <1>c, <2>1, <2>2, <2>3 DEF SpendingOf
<1>4. ASSUME Past(s)' = Past(s), Allowed(s)' = Allowed(s), Window(s)' => Window(s),
             (s \in reopened') = (s \in reopened),
             Window(s) =>
               /\ s \notin sessions' => s \notin sessions /\ Overtaken(s)' <= Overtaken(s)
               /\ s \in sessions' /\ s \notin sessions =>
                    Exposure(s)' <= Overtaken(s) + Round
               /\ s \in sessions' /\ s \in sessions =>
                    Exposure(s)' <= Exposure(s) \/ Exposure(s)' <= Lifetime
      PROVE  SpendingOf(s)'
  <2>1. Exposure(s)' \in Int /\ Overtaken(s)' \in Int
    <3>1. InFlight(s)' \in SUBSET Stream /\ At(s, "upserted")' \in SUBSET Stream
      BY DEF InFlight, At
    <3>2. Reserve(InFlight(s)') \in Nat /\ Reserve(At(s, "upserted")') \in Nat
      BY <3>1, ReserveFacts
    <3>3. spent'[s] \in Nat
      BY DEF TypeOK
    <3> QED BY <3>2, <3>3 DEF Exposure, Overtaken, Reserve
  <2>2. CASE ~Window(s)'
    BY <1>0, <1>4, <1>b, <2>2 DEF SpendingOf
  <2>3. CASE Window(s)'
    <3>1. CASE s \notin sessions'
      BY <1>0, <1>4, <1>a, <1>b, <1>c, <2>1, <2>3, <3>1 DEF SpendingOf
    <3>2. CASE s \in sessions' /\ s \notin sessions
      BY <1>0, <1>4, <1>a, <1>b, <1>c, <2>1, <2>3, <3>2 DEF SpendingOf
    <3>3. CASE s \in sessions' /\ s \in sessions
      BY <1>0, <1>4, <1>a, <1>b, <1>c, <2>1, <2>3, <3>3 DEF SpendingOf
    <3> QED BY <3>1, <3>2, <3>3
  <2> QED BY <2>2, <2>3
<1>5. CASE \E r \in Stream : \/ \E t \in Session : RequestBody(r, t)
                             \/ Abandon(r)
                             \/ Task(r)
  <2>1. PICK r \in Stream : \/ \E t \in Session : RequestBody(r, t)
                            \/ Abandon(r)
                            \/ Task(r)
    BY <1>5
  <2>2. /\ UNCHANGED <<monitorVars, reopened, overall>>
        /\ s \notin sessions' => s \notin sessions /\ Overtaken(s)' <= Overtaken(s)
        /\ s \in sessions' /\ s \notin sessions => Exposure(s)' <= Overtaken(s) + Round
        /\ s \in sessions' /\ s \in sessions =>
             Exposure(s)' <= Exposure(s) \/ Exposure(s)' <= Lifetime
    BY <2>1, ExposureStep
  <2>3. ~Crash /\ ~DropGuardState
    BY <2>1, <2>2 DEF Crash, DropGuardState, TypeOK
  <2>4. Past(s)' = Past(s) /\ Allowed(s)' = Allowed(s)
    BY <2>2, <2>3, PastKeeps, AllowedFacts
  <2> QED BY <1>4, <2>2, <2>4 DEF Window
<1>6. CASE /\ (\E t \in Session : GrowStale(t)) \/ Monitor \/ UNCHANGED vars
           /\ ~(DropGuardState /\ ending = s) /\ ~(RemoveSession(s) /\ s \in sessions)
  <2>1. /\ UNCHANGED <<tasks, crashes, charged>> /\ removals'[s] = removals[s]
        /\ (s \in sessions') = (s \in sessions) /\ (s \in reopened') = (s \in reopened)
        /\ spent'[s] = spent[s] /\ (Window(s)' => Window(s))
    BY <1>6 DEF Monitor, GrowStale, Scan, RemoveSession, ScanDone, DropGuardState, TakeTurns,
                ReportEnd, vars, TypeOK, Window
  <2>2. Past(s)' = Past(s) /\ Allowed(s)' = Allowed(s)
    BY <2>1, AllowedFacts DEF Past
  <2>3. Overtaken(s)' = Overtaken(s) /\ Exposure(s)' = Exposure(s)
    BY <2>1 DEF Overtaken, Exposure, Reserve, InFlight, At
  <2> QED BY <1>4, <1>a, <2>1, <2>2, <2>3
<1> QED BY <1>1, <1>2, <1>3, <1>5, <1>6 DEF Next, Monitor

(* Over all its lives a session is charged a budget and a round for each   *)
(* life of the process, and a budget (or a round) and two rounds for each  *)
(* time the monitor ended it: nothing else hands out a fresh budget.       *)
THEOREM SpendingIsBounded == Spec => []SpendingBounded
<1>1. Init => BudgetInv /\ SpendingInv
  <2> SUFFICES ASSUME Init, NEW s \in Session
               PROVE  NeverEnded(s) /\ EndedBefore(s) /\ Charged(s) /\ SpendingOf(s)
    BY DEF BudgetInv, SpendingInv
  <2>1. Unspent(s)
    BY DEF Init, Unspent
  <2>2. Past(s) = 0 /\ ~Window(s) /\ s \notin reopened
    BY DEF Init, Past, Window
  <2>3. Round \in Nat
    BY StreamAssumption, TokensAssumption, FS_CardinalityType DEF Round
  <2>4. Lifetime \in Nat /\ Return \in Nat
    BY <2>3, BudgetAssumption DEF Lifetime, Return, Bound, AtLeast
  <2>5. Allowed(s) = Lifetime
    <3>1. crashes = 0 /\ removals[s] = 0
      BY DEF Init
    <3> QED BY <2>4, <3>1 DEF Allowed
  <2>6. SpendingOf(s)
    BY <2>2, <2>4, <2>5 DEF SpendingOf
  <2> QED BY <2>1, <2>6, UnspentIsInBounds
<1>2. TypeOK /\ TypeOK' /\ BudgetInv /\ SpendingInv /\ [Next]_vars
        => BudgetInv' /\ SpendingInv'
  BY BudgetKeeps, SpendingKeeps DEF BudgetStep, SpendingInv
<1>3. TypeOK /\ TypeOK' /\ BudgetInv /\ SpendingInv => SpendingBounded
  <2>1. Round \in Nat
    BY StreamAssumption, TokensAssumption, FS_CardinalityType DEF Round
  <2>2. /\ Lifetime = Budget - 1 + Round
        /\ Return = AtLeast(Budget - 1, Round) + 2 * Round
    BY <2>1, BudgetAssumption DEF Lifetime, Return, Bound, AtLeast
  <2> SUFFICES ASSUME TypeOK, TypeOK', BudgetInv, SpendingInv, NEW s \in Session
               PROVE  charged[s] <= Allowed(s)
    BY <2>2 DEF SpendingBounded, Allowed
  <2> QED BY ChargedIsAllowed DEF BudgetInv, SpendingInv
<1> QED BY <1>1, <1>2, <1>3, TypeCorrect, PTL DEF Spec

-----------------------------------------------------------------------------
(* The conservation of turns.                                              *)

LEMMA QueuedFacts ==
  ASSUME NEW s \in Session
  PROVE  /\ IsFiniteSet(At(s, "queued"))
         /\ Cardinality(At(s, "queued")) \in Nat
BY StreamAssumption, FS_Subset, FS_CardinalityType DEF At

\* The conservation law for one session, and a step that changes none of it.
Balanced(s) ==
  recorded[s] = diagnosed[s] + turns[s] + Cardinality(At(s, "queued")) + InHand(s)
Same(s) ==
  /\ At(s, "queued")' = At(s, "queued") /\ InHand(s)' = InHand(s)
  /\ recorded'[s] = recorded[s] /\ turns'[s] = turns[s]
  /\ diagnosed'[s] = diagnosed[s]

(* Every turn whose record was sent to the DB writer is diagnosed once, is *)
(* in the monitor's hands, in SESSION_TURNS, or about to be pushed there.  *)
THEOREM TurnsAreConserved == Spec => []TurnsConserved
<1>1. Init => TurnsConserved
  <2> SUFFICES ASSUME Init, NEW s \in Session
               PROVE  Balanced(s)
    BY DEF TurnsConserved, Balanced
  <2>1. At(s, "queued") = {}
    BY DEF Init, At
  <2>2. Cardinality(At(s, "queued")) = 0
    BY <2>1, FS_EmptySet
  <2>3. InHand(s) = 0 /\ recorded[s] = 0 /\ diagnosed[s] = 0 /\ turns[s] = 0
    BY DEF Init, InHand
  <2>4. QED
    BY <2>2, <2>3 DEF Balanced
<1>2. TypeOK /\ TurnsConserved /\ [Next]_vars => TurnsConserved'
  <2> SUFFICES ASSUME TypeOK, TurnsConserved, [Next]_vars, NEW s \in Session
               PROVE  Balanced(s)'
    BY DEF TurnsConserved, Balanced
  <2> USE DEF TypeOK, maps, tasks, monitorVars, events, ghosts, overall, Goto
  <2>0. Balanced(s)
    BY DEF TurnsConserved, Balanced
  <2>a. IsFiniteSet(At(s, "queued")) /\ Cardinality(At(s, "queued")) \in Nat
    BY QueuedFacts
  <2>1. ASSUME NEW r \in Stream, PersistTurn(r), session[r] = s
        PROVE  Balanced(s)'
    <3>1. At(s, "queued")' = At(s, "queued") \cup {r} /\ r \notin At(s, "queued")
      BY <2>1 DEF PersistTurn, At
    <3>2. Cardinality(At(s, "queued")') = Cardinality(At(s, "queued")) + 1
      BY <2>a, <3>1, FS_AddElement
    <3>3. InHand(s)' = InHand(s) /\ InHand(s) \in Nat
      BY <2>1 DEF PersistTurn, InHand
    <3>4. recorded'[s] = recorded[s] + 1 /\ UNCHANGED <<diagnosed, turns>>
      BY <2>1 DEF PersistTurn
    <3>5. QED
      BY <2>0, <2>a, <3>2, <3>3, <3>4 DEF Balanced
  <2>2. ASSUME NEW r \in Stream, RememberTurn(r), session[r] = s
        PROVE  Balanced(s)'
    <3>1. At(s, "queued")' = At(s, "queued") \ {r} /\ r \in At(s, "queued")
      BY <2>2 DEF RememberTurn, At
    <3>2. Cardinality(At(s, "queued")') = Cardinality(At(s, "queued")) - 1
      BY <2>a, <3>1, FS_RemoveElement
    <3>3. InHand(s)' = InHand(s) /\ InHand(s) \in Nat
      BY <2>2 DEF RememberTurn, InHand
    <3>4. turns'[s] = turns[s] + 1 /\ UNCHANGED <<diagnosed, recorded>>
      BY <2>2 DEF RememberTurn
    <3>5. QED
      BY <2>0, <2>a, <3>2, <3>3, <3>4 DEF Balanced
  <2>3. CASE TakeTurns
    <3>1. At(s, "queued")' = At(s, "queued") /\ UNCHANGED <<recorded, diagnosed>>
      BY <2>3 DEF TakeTurns, At
    <3>2. turns'[s] + InHand(s)' = turns[s] + InHand(s)
      BY <2>3 DEF TakeTurns, InHand
    <3>3. turns'[s] \in Nat /\ InHand(s)' \in Nat /\ InHand(s) \in Nat
      BY <2>3 DEF TakeTurns, InHand
    <3>4. /\ Cardinality(At(s, "queued")') = Cardinality(At(s, "queued"))
          /\ recorded'[s] = recorded[s] /\ diagnosed'[s] = diagnosed[s]
      BY <3>1
    <3>5. QED
      BY <2>0, <2>a, <3>2, <3>3, <3>4 DEF Balanced
  <2>4. CASE ReportEnd
    <3>1. At(s, "queued")' = At(s, "queued") /\ UNCHANGED <<recorded, turns>>
      BY <2>4 DEF ReportEnd, At
    <3>2. diagnosed'[s] + InHand(s)' = diagnosed[s] + InHand(s)
      BY <2>4 DEF ReportEnd, InHand
    <3>3. diagnosed'[s] \in Nat /\ InHand(s)' \in Nat /\ InHand(s) \in Nat
      BY <2>4 DEF ReportEnd, InHand
    <3>4. /\ Cardinality(At(s, "queued")') = Cardinality(At(s, "queued"))
          /\ recorded'[s] = recorded[s] /\ turns'[s] = turns[s]
      BY <3>1
    <3>5. QED
      BY <2>0, <2>a, <3>2, <3>3, <3>4 DEF Balanced
  <2>5. ASSUME Same(s) PROVE Balanced(s)'
    BY <2>0, <2>5 DEF Same, Balanced
  <2>6. ASSUME NEW r \in Stream,
               \/ \E t \in Session : RequestBody(r, t)
               \/ Abandon(r) \/ Upsert(r) \/ UpsertInsert(r)
               \/ \E prompted \in BOOLEAN : PublishTurn(r, prompted)
               \/ \E tokens \in 0..MaxTokens : CountTurn(r, tokens)
               \/ PersistTurn(r) /\ session[r] # s
               \/ RememberTurn(r) /\ session[r] # s
        PROVE  Same(s)
    BY <2>6 DEF RequestBody, Abandon, Upsert, UpsertInsert, PublishTurn, CountTurn,
                PersistTurn, RememberTurn, At, InHand, Same
  <2>7. ASSUME \/ \E t \in Session : GrowStale(t) \/ RemoveSession(t)
               \/ Scan \/ ScanDone \/ DropGuardState
        PROVE  Same(s)
    BY <2>7 DEF GrowStale, RemoveSession, Scan, ScanDone, DropGuardState, At, InHand,
                Same
  <2>8. ASSUME UNCHANGED vars
        PROVE  Same(s)
    BY <2>8 DEF vars, At, InHand, Same
  <2>9. CASE \E r \in Stream : \/ \E t \in Session : RequestBody(r, t)
                               \/ Abandon(r)
                               \/ Task(r)
    <3> PICK r \in Stream : \/ \E t \in Session : RequestBody(r, t)
                            \/ Abandon(r)
                            \/ Task(r)
      BY <2>9
    <3>1. CASE PersistTurn(r)
      BY <2>1, <2>5, <2>6, <3>1
    <3>2. CASE RememberTurn(r)
      BY <2>2, <2>5, <2>6, <3>2
    <3>3. QED
      BY <2>5, <2>6, <3>1, <3>2 DEF Task
  <2>10. CASE Crash
    <3>1. At(s, "queued")' = {} /\ InHand(s)' = 0
      BY <2>10 DEF Crash, At, InHand
    <3>2. recorded'[s] = 0 /\ diagnosed'[s] = 0 /\ turns'[s] = 0
      BY <2>10 DEF Crash
    <3>3. Cardinality(At(s, "queued")') = 0
      BY <3>1, FS_EmptySet
    <3>4. QED
      BY <3>1, <3>2, <3>3 DEF Balanced
  <2>11. QED
    BY <2>3, <2>4, <2>5, <2>7, <2>8, <2>9, <2>10 DEF Next, Monitor
<1>3. QED
  BY <1>1, <1>2, TypeCorrect, PTL DEF Spec

-----------------------------------------------------------------------------
(* The agreement of the maps and of the events.                            *)

\* The monitor has removed s and is not through with it.
Removing(s) == monitor \in {"guard", "turns", "report"} /\ ending = s
RemovingIsReopened == \A s \in Session : Removing(s) => s \in reopened

\* Tasks that inserted s and have not published its start.
Opening(s) ==
  {r \in Stream : /\ session[r] = s /\ fresh[r]
                  /\ phase[r] \in {"upserted", "counted", "queued", "remembered"}}

\* Ends of s that are still to come.
Coming(s) == (IF s \in sessions THEN 1 ELSE 0) + (IF Removing(s) THEN 1 ELSE 0)

\* Every end, past or to come, has an insertion of its own.
Opened(s) == ends[s] + Coming(s) <= starts[s] + silent[s] + Cardinality(Opening(s))
Matched(s) ==
  s \notin reopened =>
    requests[s] = turns[s] + Cardinality(At(s, "counted")) + Cardinality(At(s, "queued"))
AgreeInv ==
  RemovingIsReopened /\ \A s \in Session : Opened(s) /\ Matched(s)

(* The tasks of a session at one step are finitely many, and one task that *)
(* comes or goes makes one more or one less.                               *)
LEMMA TaskCount ==
  ASSUME NEW S \in SUBSET Stream
  PROVE  /\ Cardinality(S) \in Nat
         /\ \A r \in Stream \ S : Cardinality(S \cup {r}) = Cardinality(S) + 1
         /\ \A r \in S : Cardinality(S \ {r}) = Cardinality(S) - 1
BY StreamAssumption, FS_Subset, FS_CardinalityType, FS_AddElement, FS_RemoveElement

(* What the monitor removes it has put down as removed before. *)
LEMMA RemovingKeeps ==
  ASSUME TypeOK, RemovingIsReopened, [Next]_vars
  PROVE  RemovingIsReopened'
<1> USE DEF RemovingIsReopened, Removing, maps, tasks, monitorVars, events, ghosts, overall,
            Goto
<1>1. CASE \E r \in Stream : \/ \E t \in Session : RequestBody(r, t)
                             \/ Abandon(r)
                             \/ Task(r)
  <2>1. UNCHANGED <<monitor, ending, reopened>>
    BY <1>1 DEF RequestBody, Abandon, Task, Upsert, UpsertInsert, CountTurn, PersistTurn,
                RememberTurn, PublishTurn
  <2> QED BY <2>1
<1>2. CASE \E t \in Session : GrowStale(t) \/ RemoveSession(t)
  BY <1>2 DEF GrowStale, RemoveSession, TypeOK
<1>3. CASE Scan \/ ScanDone \/ DropGuardState \/ TakeTurns \/ ReportEnd
  BY <1>3 DEF Scan, ScanDone, DropGuardState, TakeTurns, ReportEnd
<1>4. CASE Crash \/ UNCHANGED vars
  BY <1>4 DEF Crash, vars
<1> QED BY <1>1, <1>2, <1>3, <1>4 DEF Next, Monitor

(* A start is published once for each insertion, unless it has no prompt,  *)
(* and an insertion allows one removal.                                    *)
LEMMA OpenedKeeps ==
  ASSUME TypeOK, TypeOK', NEW s \in Session, Opened(s), [Next]_vars
  PROVE  Opened(s)'
<1> USE DEF TypeOK, maps, tasks, monitorVars, events, ghosts, overall, Goto
<1>0. /\ Opening(s) \in SUBSET Stream /\ Opening(s)' \in SUBSET Stream
      /\ Cardinality(Opening(s)) \in Nat /\ Cardinality(Opening(s)') \in Nat
      /\ Coming(s) \in Nat /\ Coming(s)' \in Nat
  <2>1. Opening(s) \in SUBSET Stream /\ Opening(s)' \in SUBSET Stream
    BY DEF Opening
  <2> QED BY <2>1, TaskCount DEF Coming
<1>1. ASSUME Opening(s)' = Opening(s), ends'[s] + Coming(s)' <= ends[s] + Coming(s),
             starts'[s] = starts[s], silent'[s] = silent[s]
      PROVE  Opened(s)'
  BY <1>0, <1>1 DEF Opened
<1>2. ASSUME NEW r \in Stream, UpsertInsert(r), session[r] = s
      PROVE  Opened(s)'
  <2>1. Opening(s)' = Opening(s) \cup {r} /\ r \notin Opening(s)
    BY <1>2 DEF UpsertInsert, Opening
  <2>2. Cardinality(Opening(s)') = Cardinality(Opening(s)) + 1
    BY <1>0, <2>1, TaskCount
  <2>3. Coming(s)' <= Coming(s) + 1 /\ UNCHANGED <<starts, silent, ends>>
    BY <1>2 DEF UpsertInsert, Coming, Removing
  <2> QED BY <1>0, <2>2, <2>3 DEF Opened
<1>3. ASSUME NEW r \in Stream, NEW prompted \in BOOLEAN, PublishTurn(r, prompted),
             session[r] = s
      PROVE  Opened(s)'
  <2>1. UNCHANGED ends /\ Coming(s)' = Coming(s)
    BY <1>3 DEF PublishTurn, Coming, Removing
  <2>2. CASE fresh[r]
    <3>1. Opening(s)' = Opening(s) \ {r} /\ r \in Opening(s)
      BY <1>3, <2>2 DEF PublishTurn, Opening
    <3>2. Cardinality(Opening(s)') = Cardinality(Opening(s)) - 1
      BY <1>0, <3>1, TaskCount
    <3>3. /\ starts'[s] + silent'[s] = starts[s] + silent[s] + 1
          /\ starts'[s] \in Nat /\ silent'[s] \in Nat
      BY <1>3, <2>2 DEF PublishTurn
    <3> QED BY <1>0, <2>1, <3>2, <3>3 DEF Opened
  <2>3. CASE ~fresh[r]
    <3>1. Opening(s)' = Opening(s) /\ starts'[s] = starts[s] /\ silent'[s] = silent[s]
      BY <1>3, <2>3 DEF PublishTurn, Opening
    <3> QED BY <1>0, <1>1, <2>1, <3>1
  <2> QED BY <2>2, <2>3
<1>4. ASSUME NEW r \in Stream,
             \/ \E t \in Session : RequestBody(r, t)
             \/ Abandon(r) \/ Upsert(r) \/ PersistTurn(r) \/ RememberTurn(r)
             \/ \E tokens \in 0..MaxTokens : CountTurn(r, tokens)
             \/ UpsertInsert(r) /\ session[r] # s
             \/ \E prompted \in BOOLEAN : PublishTurn(r, prompted) /\ session[r] # s
      PROVE  Opened(s)'
  <2>1. Opening(s)' = Opening(s)
    BY <1>4 DEF RequestBody, Abandon, Upsert, UpsertInsert, CountTurn, PersistTurn,
                RememberTurn, PublishTurn, Opening
  <2>2. /\ ends' = ends /\ starts'[s] = starts[s] /\ silent'[s] = silent[s]
        /\ Coming(s)' = Coming(s)
    BY <1>4 DEF RequestBody, Abandon, Upsert, UpsertInsert, CountTurn, PersistTurn,
                RememberTurn, PublishTurn, Coming, Removing
  <2> QED BY <1>0, <1>1, <2>1, <2>2
<1>5. ASSUME \/ \E t \in Session : GrowStale(t) \/ RemoveSession(t)
             \/ Scan \/ ScanDone \/ DropGuardState \/ TakeTurns \/ ReportEnd
             \/ UNCHANGED vars
      PROVE  Opened(s)'
  <2>1. UNCHANGED <<starts, silent, tasks>>
    BY <1>5 DEF GrowStale, RemoveSession, Scan, ScanDone, DropGuardState, TakeTurns,
                ReportEnd, vars
  <2>2. Opening(s)' = Opening(s)
    BY <2>1 DEF Opening
  <2>3. ends'[s] + Coming(s)' <= ends[s] + Coming(s)
    BY <1>5 DEF GrowStale, RemoveSession, Scan, ScanDone, DropGuardState, TakeTurns,
                ReportEnd, vars, Coming, Removing
  <2> QED BY <1>0, <1>1, <2>1, <2>2, <2>3
<1>6. CASE \E r \in Stream : \/ \E t \in Session : RequestBody(r, t)
                             \/ Abandon(r)
                             \/ Task(r)
  BY <1>2, <1>3, <1>4, <1>6 DEF Task
<1>7. CASE Crash
  <2>1. Coming(s)' = 0 /\ ends'[s] = 0
    BY <1>7 DEF Crash, Coming, Removing
  <2> QED BY <1>0, <2>1 DEF Opened
<1> QED BY <1>5, <1>6, <1>7 DEF Next, Monitor

(* Between the additions to the guard state and the push a turn is counted *)
(* or queued; only a removal takes from either map.                        *)
LEMMA MatchedKeeps ==
  ASSUME TypeOK, RemovingIsReopened, NEW s \in Session, Matched(s), [Next]_vars
  PROVE  Matched(s)'
<1> USE DEF TypeOK, maps, tasks, monitorVars, events, ghosts, overall, Goto
<1> DEFINE C == At(s, "counted")
           Q == At(s, "queued")
<1>0. /\ C \in SUBSET Stream /\ Q \in SUBSET Stream
      /\ Cardinality(C) \in Nat /\ Cardinality(Q) \in Nat
  <2>1. C \in SUBSET Stream /\ Q \in SUBSET Stream
    BY DEF At
  <2> QED BY <2>1, TaskCount
<1>1. ASSUME C' = C, Q' = Q, requests'[s] = requests[s], turns'[s] = turns[s],
             s \in reopened => s \in reopened'
      PROVE  Matched(s)'
  BY <1>1 DEF Matched
<1>2. ASSUME NEW r \in Stream, NEW tokens \in 0..MaxTokens, CountTurn(r, tokens),
             session[r] = s
      PROVE  Matched(s)'
  <2>1. C' = C \cup {r} /\ r \notin C /\ Q' = Q
    BY <1>2 DEF CountTurn, At
  <2>2. Cardinality(C') = Cardinality(C) + 1
    BY <1>0, <2>1, TaskCount
  <2>3. requests'[s] = requests[s] + 1 /\ UNCHANGED <<turns, reopened>>
    BY <1>2 DEF CountTurn
  <2> QED BY <1>0, <2>1, <2>2, <2>3 DEF Matched
<1>3. ASSUME NEW r \in Stream, PersistTurn(r), session[r] = s
      PROVE  Matched(s)'
  <2>1. C' = C \ {r} /\ r \in C /\ Q' = Q \cup {r} /\ r \notin Q
    BY <1>3 DEF PersistTurn, At
  <2>2. Cardinality(C') = Cardinality(C) - 1 /\ Cardinality(Q') = Cardinality(Q) + 1
    BY <1>0, <2>1, TaskCount
  <2>3. UNCHANGED <<requests, turns, reopened>>
    BY <1>3 DEF PersistTurn
  <2> QED BY <1>0, <2>2, <2>3 DEF Matched
<1>4. ASSUME NEW r \in Stream, RememberTurn(r), session[r] = s
      PROVE  Matched(s)'
  <2>1. C' = C /\ Q' = Q \ {r} /\ r \in Q
    BY <1>4 DEF RememberTurn, At
  <2>2. Cardinality(Q') = Cardinality(Q) - 1
    BY <1>0, <2>1, TaskCount
  <2>3. turns'[s] = turns[s] + 1 /\ UNCHANGED <<requests, reopened>>
    BY <1>4 DEF RememberTurn
  <2> QED BY <1>0, <2>1, <2>2, <2>3 DEF Matched
<1>5. ASSUME NEW r \in Stream,
             \/ \E t \in Session : RequestBody(r, t)
             \/ Abandon(r) \/ Upsert(r) \/ UpsertInsert(r)
             \/ \E prompted \in BOOLEAN : PublishTurn(r, prompted)
             \/ \E tokens \in 0..MaxTokens : CountTurn(r, tokens) /\ session[r] # s
             \/ PersistTurn(r) /\ session[r] # s
             \/ RememberTurn(r) /\ session[r] # s
      PROVE  Matched(s)'
  <2>1. C' = C /\ Q' = Q
    BY <1>5 DEF RequestBody, Abandon, Upsert, UpsertInsert, CountTurn, PersistTurn,
                RememberTurn, PublishTurn, At
  <2>2. requests'[s] = requests[s] /\ turns'[s] = turns[s] /\ UNCHANGED reopened
    BY <1>5 DEF RequestBody, Abandon, Upsert, UpsertInsert, CountTurn, PersistTurn,
                RememberTurn, PublishTurn
  <2> QED BY <1>1, <2>1, <2>2
<1>6. CASE DropGuardState \/ TakeTurns
  <2>1. C' = C /\ Q' = Q /\ UNCHANGED reopened
    BY <1>6 DEF DropGuardState, TakeTurns, At
  <2>2. CASE s = ending
    BY <1>6, <2>1, <2>2
    DEF DropGuardState, TakeTurns, Matched, RemovingIsReopened, Removing
  <2>3. CASE s # ending
    BY <1>1, <1>6, <2>1, <2>3 DEF DropGuardState, TakeTurns
  <2> QED BY <2>2, <2>3
<1>7. ASSUME \/ \E t \in Session : GrowStale(t) \/ RemoveSession(t)
             \/ Scan \/ ScanDone \/ ReportEnd \/ UNCHANGED vars
      PROVE  Matched(s)'
  <2>1. C' = C /\ Q' = Q
    BY <1>7 DEF GrowStale, RemoveSession, Scan, ScanDone, ReportEnd, vars, At
  <2>2. UNCHANGED <<requests, turns>> /\ (s \in reopened => s \in reopened')
    BY <1>7 DEF GrowStale, RemoveSession, Scan, ScanDone, ReportEnd, vars
  <2> QED BY <1>1, <2>1, <2>2
<1>8. CASE \E r \in Stream : \/ \E t \in Session : RequestBody(r, t)
                             \/ Abandon(r)
                             \/ Task(r)
  BY <1>2, <1>3, <1>4, <1>5, <1>8 DEF Task
<1>9. CASE Crash
  <2>1. C' = {} /\ Q' = {} /\ requests'[s] = 0 /\ turns'[s] = 0
    BY <1>9 DEF Crash, At
  <2>2. Cardinality(C') = 0 /\ Cardinality(Q') = 0
    BY <2>1, FS_EmptySet
  <2> QED BY <2>1, <2>2 DEF Matched
<1> QED BY <1>6, <1>7, <1>8, <1>9 DEF Next, Monitor

(* Watchers never see more ends than starts that were or will be published *)
(* or had no prompt to be published with, although the entry may be        *)
(* inserted twice over and removed in between; and a session that never ended has the same turns in both maps.         *)
THEOREM MapsAgree == Spec => []SessionMapsAgree
<1>1. Init => AgreeInv
  <2> SUFFICES ASSUME Init PROVE AgreeInv
    OBVIOUS
  <2>1. ASSUME NEW s \in Session PROVE Opened(s) /\ Matched(s)
    <3>1. Opening(s) = {} /\ At(s, "counted") = {} /\ At(s, "queued") = {}
      BY DEF Init, Opening, At
    <3> QED BY <3>1, FS_EmptySet DEF Init, Opened, Matched, Coming, Removing
  <2> QED BY <2>1 DEF Init, AgreeInv, RemovingIsReopened, Removing
<1>2. TypeOK /\ TypeOK' /\ AgreeInv /\ [Next]_vars => AgreeInv'
  BY RemovingKeeps, OpenedKeeps, MatchedKeeps DEF AgreeInv
<1>3. TypeOK /\ AgreeInv => SessionMapsAgree
  <2> SUFFICES ASSUME TypeOK, AgreeInv, NEW s \in Session
               PROVE  /\ ends[s] <= starts[s] + silent[s] + Cardinality(Opening(s))
                      /\ Matched(s)
    BY DEF SessionMapsAgree, EndsHaveStarts, GuardMatchesTurns, Opening, Matched
  <2>1. Opening(s) \in SUBSET Stream
    BY DEF Opening
  <2>2. Cardinality(Opening(s)) \in Nat /\ Coming(s) \in Nat
    BY <2>1, TaskCount DEF Coming
  <2> QED BY <2>2 DEF AgreeInv, Opened, TypeOK
<1> QED BY <1>1, <1>2, <1>3, TypeCorrect, PTL DEF Spec
=============================================================================
