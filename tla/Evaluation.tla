----------------------------- MODULE Evaluation -----------------------------
(***************************************************************************)
(* What codex-blackbox makes of one session's turns, in all the places     *)
(* that judge them at different moments:                                   *)
(*                                                                         *)
(*   guard         SESSION_GUARD_STATES, charged when a turn is finalized  *)
(*   memory        SESSION_TURNS, diagnosed when a turn is remembered      *)
(*   rows, log     the turns and coach events the DB writer has committed, *)
(*                 read by status, by the guard command, by the companion  *)
(*   watch         the facts of the CLI's DecisionSessionTracker           *)
(*   alarms        the Diagnosis events that were broadcast                *)
(*                                                                         *)
(* A finalization is a sequence of steps, one per shared structure, so     *)
(* that tasks, the DB writer and the monitor interleave between them.      *)
(* Left to other modules: the two map calls of an insertion into SESSIONS  *)
(* (SessionLifecycle), a delivery that lags (EventBroadcaster: this watch  *)
(* client sees every event), faults and retention (Persistence), cooldown  *)
(* (CircuitBreaker).                                                       *)
(***************************************************************************)
EXTENDS GuardPolicy, Postmortem, WatchTracker

CONSTANTS
  Stream,       \* slots for concurrent ext_proc tasks
  NoTurn,       \* no turn
  PolicyFile,   \* what the policy file or the environment may hold when a
                \* request is checked
  MaxTurns,     \* bound: requests let through
  MaxRemovals   \* bound: times the session is found idle

PolicyType ==
  [from : {"file", "env"}, readable : BOOLEAN,
   policy : [block : [Rule -> Nat \cup {Garbled}], warn : [WarnRule -> Nat \cup {Garbled}]]]

ASSUME StreamAssumption == IsFiniteSet(Stream)
ASSUME NoTurnAssumption == NoTurn \notin TurnKind
ASSUME PolicyAssumption == PolicyFile \subseteq PolicyType
ASSUME BoundsAssumption == MaxTurns \in Nat /\ MaxRemovals \in Nat

VARIABLES
  listed,                   \* the session has a SESSIONS entry
  guard, memory,            \* its SESSION_GUARD_STATES and SESSION_TURNS
  queue, rows, log,         \* DB_TX, and what the writer has committed
  ready,                    \* POSTMORTEM_READY_SENT holds the session
  watch, alarms,            \* what a watch client knows; Diagnosis events
  phase, turn, hand, outbox,  \* per task: step, turn, report, events to send
  monitor, taken,           \* the inactivity monitor's step and turns
  begun, removals, life     \* ghosts: requests let through; removals by the
                            \* monitor; SESSION_TURNS taken so far

database == <<queue, rows, log, ready>>
tasks == <<phase, turn, hand, outbox>>
ending == <<monitor, taken>>
ghosts == <<begun, removals, life>>
vars == <<listed, guard, memory, database, watch, alarms, tasks, ending, ghosts>>

Phases == {"idle", "streaming", "upserted", "counted", "queued", "alarming",
           "publishing"}

NoGuard == [requests |-> 0, priced |-> TRUE, measures |-> [r \in Rule |-> 0]]

Init ==
  /\ listed = FALSE
  /\ guard = NoGuard /\ memory = <<>>
  /\ queue = <<>> /\ rows = <<>> /\ log = <<>> /\ ready = FALSE
  /\ watch = NoFacts /\ alarms = <<>>
  /\ phase = [r \in Stream |-> "idle"] /\ turn = [r \in Stream |-> NoTurn]
  /\ hand = [r \in Stream |-> NoTurn] /\ outbox = [r \in Stream |-> <<>>]
  /\ monitor = "idle" /\ taken = <<>>
  /\ begun = 0 /\ removals = 0 /\ life = 0

-----------------------------------------------------------------------------
(* What a turn counts for.                                                 *)

\* What turn t adds to the measure of rule r.
Amount(t, r) ==
  CASE r = "tokens" -> t.input + t.output
    [] r = "cost" -> t.cost
    [] r = "context" -> t.fill
    [] r = "anomalies" -> t.anomalies
    [] r = "mismatch" -> IF t.mismatch THEN 1 ELSE 0
    [] OTHER -> IF t.status = r THEN 1 ELSE 0

\* The context fill and the mismatch flag are maxima, the others sums.
Peaks == {"context", "mismatch"}
\* Mutation: the last turn decides whether the estimate is trusted.
ChargeLatest(g, t) ==
  [requests |-> g.requests + 1, priced |-> t.priced,
   measures |-> [r \in Rule |->
     IF r \in Peaks THEN Larger(g.measures[r], Amount(t, r))
     ELSE IF r = "cost" /\ ~t.priced THEN g.measures[r]
     ELSE g.measures[r] + Amount(t, r)]]

\* Mutation: the fill of the last turn replaces the maximum.
ChargeLastFill(g, t) ==
  [requests |-> g.requests + 1, priced |-> g.priced /\ t.priced,
   measures |-> [r \in Rule |->
     IF r \in Peaks THEN Amount(t, r)
     ELSE IF r = "cost" /\ ~t.priced THEN g.measures[r]
     ELSE g.measures[r] + Amount(t, r)]]

\* record_codex_runtime_counters; only a trusted cost is spent.
Charge(g, t) ==
  [requests |-> g.requests + 1, priced |-> g.priced /\ t.priced,
   measures |-> [r \in Rule |->
     IF r \in Peaks THEN Larger(g.measures[r], Amount(t, r))
     ELSE IF r = "cost" /\ ~t.priced THEN g.measures[r]
     ELSE g.measures[r] + Amount(t, r)]]

\* impact_totals, build_signals and compute_estimated_costs over the rows.
Exact(turns, r) ==
  LET Of(i) == Amount(turns[i], r) IN
  IF r \in Peaks THEN Max({0} \cup {Of(i) : i \in DOMAIN turns})
  ELSE SumFunction([i \in DOMAIN turns |-> Of(i)])

\* The report rounds the dollars and the fill.
Coarse == {"cost", "context"}
Total(turns, r) == IF r \in Coarse THEN Rounded(Exact(turns, r)) ELSE Exact(turns, r)
AllPriced(turns) == \A i \in DOMAIN turns : turns[i].priced

-----------------------------------------------------------------------------
(* The judgements.                                                         *)

CoreEvidence ==
  [observed |-> guard.requests > 0, priced |-> guard.priced, cooldown |-> FALSE,
   measures |-> guard.measures]

\* check_session_guard, with the policy file as it is at that moment.
CoreBlock(file) ==
  IF listed THEN Evaluate(Load(file).policy, CoreEvidence).block ELSE "none"

\* guard_report_to_evidence.
RowsEvidence ==
  [observed |-> rows # <<>>, priced |-> AllPriced(rows), cooldown |-> FALSE,
   measures |-> [r \in Rule |-> Total(rows, r)]]

\* status_report_to_facts.  Every recorded turn sets ended_at, so a session
\* with a report reads as ended.
ReportFacts ==
  [NoFacts EXCEPT !.observed = TRUE, !.ended = TRUE, !.turns = Len(rows),
     !.failed = Total(rows, "failed"),
     !.incomplete = Total(rows, "incomplete"),
     !.unknown = Total(rows, "unknown"),
     !.anomalies = Total(rows, "anomalies"),
     !.mismatch = Total(rows, "mismatch") = 1,
     !.fill = Total(rows, "context"),
     !.estimate = IF AllPriced(rows) THEN "trusted" ELSE "untrusted",
     !.signals = Signals(Loaded(log))]

\* fetch_status: without turns there is no report.
StatusFacts == IF rows = <<>> THEN NoFacts ELSE ReportFacts

\* guard_report_to_decision.
PolicyFacts(loaded) ==
  LET evaluation == Evaluate(loaded.policy, RowsEvidence)
  IN [ReportFacts EXCEPT !.block = evaluation.block # "none",
                         !.cooldown = evaluation.cooldown,
                         !.issues = evaluation.issues \cup loaded.issues]

\* fetch_guard: without a report, only the loading of the policy is told of.
GuardFacts(file) ==
  LET loaded == Load(file) IN
  IF rows = <<>> THEN [NoFacts EXCEPT !.issues = loaded.issues]
  ELSE PolicyFacts(loaded)

\* facts_from_state_and_signals, for the companion snapshot and the decision
\* inside a postmortem: no anomalies, no mismatch, and no trust in prices.
CompanionFacts ==
  LET events == Loaded(log)
      Number(kinds) == Cardinality(OfKind(events, kinds))
  IN IF events = <<>> THEN NoFacts
     ELSE [NoFacts EXCEPT !.observed = TRUE, !.ended = TRUE,
             !.turns = Number(Statuses), !.failed = Number({"failed"}),
             !.incomplete = Number({"incomplete"}),
             !.unknown = Number({"unknown"}),
             !.fill = Max({0} \cup {events[i].fill : i \in OfKind(events, {"pressure"})}),
             !.estimate = "untrusted", !.signals = Signals(events)]

-----------------------------------------------------------------------------
(* The watch client.                                                       *)

\* The watch events of a turn in the order they are broadcast; SessionStart
\* only for a session that was not listed.  ToolUse says nothing to the
\* tracker.
WatchEvents(t, newlyStarted) ==
  (IF newlyStarted THEN <<[type |-> "SessionStart"]>> ELSE <<>>)
  \o (IF t.mismatch THEN <<[type |-> "ModelFallback"]>> ELSE <<>>)
  \o <<[type |-> "CodexTurnSummary", status |-> t.status],
       [type |-> "ContextStatus", fill |-> t.fill]>>

-----------------------------------------------------------------------------
(* The ext_proc tasks.                                                     *)

Goto(r, p) == phase' = [phase EXCEPT ![r] = p]

\* RequestBody: some policy file lets the request through.  (A refused
\* request changes nothing.)
Admit(r) ==
  /\ phase[r] = "idle"
  /\ begun < MaxTurns
  /\ \E file \in PolicyFile : CoreBlock(file) = "none"
  /\ begun' = begun + 1
  /\ Goto(r, "streaming")
  /\ UNCHANGED <<listed, guard, memory, database, watch, alarms, turn, hand,
                 outbox, ending, removals, life>>

\* The response ends with nothing to finalize.
Abandon(r) ==
  /\ phase[r] = "streaming"
  /\ Goto(r, "idle")
  /\ UNCHANGED <<listed, guard, memory, database, watch, alarms, turn, hand,
                 outbox, ending, ghosts>>

\* The response turns out to be t: build_codex_finalization_outcome, then
\* upsert_codex_session.
Upsert(r, t) ==
  /\ phase[r] = "streaming"
  /\ Goto(r, "upserted")
  /\ turn' = [turn EXCEPT ![r] = t]
  /\ outbox' = [outbox EXCEPT ![r] = WatchEvents(t, ~listed)]
  /\ listed' = TRUE
  /\ UNCHANGED <<guard, memory, database, watch, alarms, hand, ending, ghosts>>

Count(r) ==
  /\ phase[r] = "upserted"
  /\ Goto(r, "counted")
  /\ guard' = Charge(guard, turn[r])
  /\ UNCHANGED <<listed, memory, database, watch, alarms, turn, hand, outbox,
                 ending, ghosts>>

\* persist_codex_finalization_outcome.
Persist(r) ==
  /\ phase[r] = "counted"
  /\ Goto(r, "queued")
  /\ queue' = Append(queue, turn[r])
  /\ UNCHANGED <<listed, guard, memory, rows, log, ready, watch, alarms, turn,
                 hand, outbox, ending, ghosts>>

\* Mutation: any non-heuristic cause is announced, new or not.
RememberAndRepeat(r) ==
  LET turns == Append(memory, turn[r])
      report == [life |-> life, turn |-> Len(turns), causes |-> Causes(turns)]
  IN
  /\ phase[r] = "queued"
  /\ memory' = turns
  /\ IF Firm(report.causes) # {}
       THEN Goto(r, "alarming") /\ hand' = [hand EXCEPT ![r] = report]
       ELSE Goto(r, "publishing") /\ UNCHANGED hand
  /\ UNCHANGED <<listed, guard, database, watch, alarms, turn, outbox, ending,
                 ghosts>>

\* remember_codex_turn_and_emit_diagnosis: push the turn and analyze the
\* session under the entry's lock; a non-heuristic cause that this turn is
\* the first to show is announced once the lock is released.
Remember(r) ==
  LET turns == Append(memory, turn[r])
      report == [life |-> life, turn |-> Len(turns), causes |-> Causes(turns)]
  IN
  /\ phase[r] = "queued"
  /\ memory' = turns
  /\ IF \E c \in Firm(report.causes) : c.turn = report.turn
       THEN Goto(r, "alarming") /\ hand' = [hand EXCEPT ![r] = report]
       ELSE Goto(r, "publishing") /\ UNCHANGED hand
  /\ UNCHANGED <<listed, guard, database, watch, alarms, turn, outbox, ending,
                 ghosts>>

Announce(r) ==
  /\ phase[r] = "alarming"
  /\ Goto(r, "publishing")
  /\ alarms' = Append(alarms, [report |-> hand[r], final |-> FALSE])
  /\ hand' = [hand EXCEPT ![r] = NoTurn]
  /\ UNCHANGED <<listed, guard, memory, database, watch, turn, outbox, ending,
                 ghosts>>

\* The next watch event of the turn.
Publish(r) ==
  LET done == Len(outbox[r]) = 1 IN
  /\ phase[r] = "publishing"
  /\ watch' = Track(watch, Head(outbox[r]))
  /\ outbox' = [outbox EXCEPT ![r] = Tail(@)]
  /\ Goto(r, IF done THEN "idle" ELSE "publishing")
  /\ turn' = [turn EXCEPT ![r] = IF done THEN NoTurn ELSE @]
  /\ UNCHANGED <<listed, guard, memory, database, alarms, hand, ending, ghosts>>

Task(r) ==
  \/ Admit(r) \/ Abandon(r)
  \/ \E t \in TurnKind : Upsert(r, t)
  \/ Count(r) \/ Persist(r) \/ Remember(r) \/ Announce(r) \/ Publish(r)

-----------------------------------------------------------------------------
(* The DB writer and the inactivity monitor.                               *)

\* RecordCodexTurn: the rows of the turn, its coach events, and ended_at.
CommitTurn ==
  /\ queue # <<>> /\ Head(queue) # NoTurn
  /\ queue' = Tail(queue)
  /\ rows' = Append(rows, Head(queue))
  /\ log' = log \o CoachEvents(Head(queue))
  /\ UNCHANGED <<listed, guard, memory, ready, watch, alarms, tasks, ending, ghosts>>

\* WriteDiagnosis (NoTurn in the queue): PostmortemReady, once per session,
\* if it has turns in the database.
CommitDiagnosis ==
  /\ queue # <<>> /\ Head(queue) = NoTurn
  /\ queue' = Tail(queue)
  /\ IF rows = <<>> \/ ready
       THEN UNCHANGED <<ready, watch>>
       ELSE /\ ready' = TRUE
            /\ watch' = Track(watch, [type |-> "PostmortemReady",
                                      turns |-> Len(rows)])
  /\ UNCHANGED <<listed, guard, memory, rows, log, alarms, tasks, ending, ghosts>>

\* The session was idle too long: SESSIONS.remove.
RemoveSession ==
  /\ monitor = "idle"
  /\ listed /\ removals < MaxRemovals
  /\ monitor' = "guard"
  /\ listed' = FALSE
  /\ removals' = removals + 1
  /\ UNCHANGED <<guard, memory, database, watch, alarms, tasks, taken, begun, life>>

\* end_session: SESSION_GUARD_STATES.remove.
DropGuard ==
  /\ monitor = "guard"
  /\ monitor' = "turns"
  /\ guard' = NoGuard
  /\ UNCHANGED <<listed, memory, database, watch, alarms, tasks, taken, ghosts>>

\* end_session: SESSION_TURNS.remove; without an entry there is nothing more.
TakeTurns ==
  /\ monitor = "turns"
  /\ monitor' = IF memory = <<>> THEN "idle" ELSE "report"
  /\ life' = IF memory = <<>> THEN life ELSE life + 1
  /\ taken' = memory
  /\ memory' = <<>>
  /\ UNCHANGED <<listed, guard, database, watch, alarms, tasks, begun, removals>>

\* end_session: SessionEnd, a Diagnosis if the session is degraded, and
\* WriteDiagnosis.
ReportEnd ==
  LET causes == Causes(taken) IN
  /\ monitor = "report"
  /\ monitor' = "idle"
  /\ watch' = Track(watch, [type |-> "SessionEnd", turns |-> Len(taken)])
  /\ alarms' = IF Degraded(causes)
                 THEN Append(alarms, [final |-> TRUE,
                        report |-> [life |-> life - 1, turn |-> Len(taken),
                                    causes |-> causes]])
                 ELSE alarms
  /\ queue' = Append(queue, NoTurn)
  /\ taken' = <<>>
  /\ UNCHANGED <<listed, guard, memory, rows, log, ready, tasks, ghosts>>

Next ==
  \/ \E r \in Stream : Task(r)
  \/ CommitTurn \/ CommitDiagnosis
  \/ RemoveSession \/ DropGuard \/ TakeTurns \/ ReportEnd

Spec == Init /\ [][Next]_vars

-----------------------------------------------------------------------------
\* Every finalization is through, the writer has caught up, nothing is ending.
AtRest ==
  /\ queue = <<>> /\ monitor = "idle"
  /\ \A r \in Stream : phase[r] \in {"idle", "streaming"}

(* The guard command predicts the core.  In the first life of a session,   *)
(* at rest, it says Blocked exactly if check_session_guard would refuse    *)
(* the next request, and names the same rule, under every policy file:     *)
(* counters charged turn by turn and totals recomputed from the rows come  *)
(* to the same, although one of them only ever sees trusted costs, and no  *)
(* issue or signal hides the block from the decision.  Only a limit that   *)
(* the report's rounding steps over, of the dollars or of the context fill, *)
(* comes between them: one of the two then names its rule, early or late.  *)
GuardCommandPredicts ==
  AtRest /\ removals = 0 => \A file \in PolicyFile :
    LET limits == Load(file).policy.block
        told == Evaluate(Load(file).policy, RowsEvidence).block
        steppedOver == {r \in Coarse : (limits[r] <= guard.measures[r])
                                        # (limits[r] <= Rounded(guard.measures[r]))}
    IN /\ Decide(GuardFacts(file)) = "Blocked" <=> told # "none"
       /\ \/ told = CoreBlock(file)
          \/ told \in steppedOver \/ CoreBlock(file) \in steppedOver

(* A refusal stands.  Whatever turns are still in flight, a session that   *)
(* is refused under a policy is refused under it after the next step, as   *)
(* long as the monitor does not end the session -- unless the dollar       *)
(* budget was the only reason, which a turn of unknown price disarms.      *)
RefusalsStand ==
  [][guard' # guard /\ listed' /\ monitor # "guard" =>
       \A file \in PolicyFile :
         LET free == [file EXCEPT !.policy.block["cost"] = 0] IN
         /\ CoreBlock(file) # "none"
         /\ CoreBlock(free) # "none" \/ guard'.priced
         => CoreBlock(file)' # "none"]_guard

\* Reports broadcast, or about to be, on the turns now in SESSION_TURNS.
Reports(causeLife) ==
  {<<"sent", i>> : i \in {i \in DOMAIN alarms :
                      ~alarms[i].final /\ alarms[i].report.life = causeLife}}
  \cup {<<"held", r>> : r \in {r \in Stream :
                      phase[r] = "alarming" /\ hand[r].life = causeLife}}
ReportOf(x) == IF x[1] = "sent" THEN alarms[x[2]].report ELSE hand[x[2]]

(* No alarm is missed and none is repeated: each non-heuristic cause of a  *)
(* session's turns is announced (or a task holds the report) once as the   *)
(* news of the turn that first showed it, and each announcement has such   *)
(* news, and still stands: nothing it said is taken back by later turns.   *)
AlarmsMatchCauses ==
  LET firm == Firm(Causes(memory)) IN
  /\ \A c \in firm :
       Cardinality({x \in Reports(life) : ReportOf(x).turn = c.turn}) = 1
  /\ \A x \in Reports(life) :
       /\ Firm(ReportOf(x).causes) \subseteq firm
       /\ \E c \in firm : c.turn = ReportOf(x).turn /\ c \in ReportOf(x).causes

(* The verdict at the end of a life agrees with what was announced in it:  *)
(* the final diagnosis is degraded exactly if an alarm was raised, and the *)
(* public degradation turn is the turn of the earliest alarm.              *)
FinalVerdictFollowsAlarms ==
  \A n \in 0..(life - 1) : monitor # "report" \/ n # life - 1 =>
    LET verdicts == {i \in DOMAIN alarms : alarms[i].final /\ alarms[i].report.life = n}
        turns == {ReportOf(x).turn : x \in Reports(n)}
    IN /\ verdicts = {} <=> turns = {}
       /\ \A i \in verdicts :
            PublicDegradationTurn(alarms[i].report.causes) = Min(turns)

(* The news of a session while it lives and the verdict when it ends tell  *)
(* one story.                                                              *)
VerdictsFollowAlarms == AlarmsMatchCauses /\ FinalVerdictFollowsAlarms

(* A watcher and the database come to the same judgement.  In the first    *)
(* life of a session, at rest, watch and status say Stop together and      *)
(* Careful together -- the accounting anomalies aside, which no watch      *)
(* event carries, and the rounding of the fill, which no report leaves     *)
(* out, and unless it has more coach events than are read.                 *)
(* The companion never stops where status does not.                        *)
StopsAreShared ==
  LET exact == Max({0} \cup {rows[i].fill : i \in DOMAIN rows})
      status == Decide([StatusFacts EXCEPT !.anomalies = 0, !.fill = exact])
  IN
  AtRest =>
    /\ removals = 0 /\ Len(log) <= EventLimit =>
         /\ Decide(watch) = "Stop" <=> status = "Stop"
         /\ Decide(watch) = "Careful" <=> status = "Careful"
    /\ Decide(CompanionFacts) = "Stop" => Decide(StatusFacts) = "Stop"

=============================================================================
