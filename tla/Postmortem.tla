----------------------------- MODULE Postmortem ------------------------------
(***************************************************************************)
(* What the postmortem, the degradation view and the session list say of   *)
(* recorded turns (postmortem.rs, main.rs), next to the diagnosis: each    *)
(* has its own copy of the rules.  Prompts, summaries, redaction, billing  *)
(* and wording are left out; a turn is the record of module Diagnosis, and *)
(* tools is the number of its tool calls.                                  *)
(***************************************************************************)
EXTENDS Diagnosis, Coach

CONSTANT TurnKind   \* the turns that responses can turn out to be

\* input + output is the total the code computes itself; a reported total
\* that differs is one of the anomalies.
TurnType ==
  [status : Statuses, input : Nat, cached : Nat, output : Nat, reasoning : Nat,
   cost : Nat, priced : BOOLEAN, fill : Nat, mismatch : BOOLEAN,
   anomalies : Nat, tools : Nat]

ASSUME TurnAssumption == TurnKind \subseteq TurnType

\* round_percent and round_cost: a percentage, in hundredths, is reported to a
\* tenth, and an amount, in tenths of a cent, to a cent; half up.
Rounded(n) == 10 * ((n + 5) \div 10)

-----------------------------------------------------------------------------
(* The sections of a postmortem.                                           *)

\* build_evidence, one turn.
Indicates(t, signal) ==
  CASE signal \in {"failed", "incomplete", "unknown"} -> t.status = signal
    [] signal = "model_mismatch" -> t.mismatch
    [] signal = "accounting_anomaly" -> t.anomalies > 0
    [] signal = "high_context_fill" -> t.fill >= HighFill
    [] signal = "high_reasoning_share" ->
         t.output > 0 /\ t.reasoning >= 64 /\ 2 * t.reasoning >= t.output
    [] signal = "tool_call_intent" -> t.tools > 0

\* Mutation: no rows for turns that only look bad.
FirmSignals == FirmKinds \cup {"unknown", "tool_call_intent"}

EvidenceSignals ==
  FirmKinds \cup TurnHeuristics \cup {"unknown", "tool_call_intent"}

\* build_evidence: here a reuse of exactly a tenth is low.
LowReuseRow(turns) ==
  /\ Len(turns) >= ReuseTurns /\ Tally(turns, "input") >= 1000
  /\ 10 * Tally(turns, "cached") <= Tally(turns, "input")
Evidence(turns) ==
  {row \in [kind : EvidenceSignals, turn : DOMAIN turns] :
     Indicates(turns[row.turn], row.kind)}
  \cup (IF LowReuseRow(turns)
          THEN {[kind |-> "low_cached_input_reuse", turn |-> 1]} ELSE {})

\* build_signals; its two heuristics know neither the minimum of turns nor
\* the minimum of reasoning tokens.
ReportSignals(turns) ==
  LET input == Tally(turns, "input") IN
  [statuses |-> [s \in Statuses |->
                   Cardinality({i \in DOMAIN turns : turns[i].status = s})],
   mismatches |-> {i \in DOMAIN turns : turns[i].mismatch},
   anomalies |-> Tally(turns, "anomalies"),
   fill |-> Rounded(Max({0} \cup {turns[i].fill : i \in DOMAIN turns})),
   lowReuse |-> input >= 1000 /\ 10 * Tally(turns, "cached") < input,
   reasoning |-> \E i \in DOMAIN turns :
                   turns[i].output > 0 /\ 2 * turns[i].reasoning >= turns[i].output]

\* impact_totals: reasoning is part of the output, cached of the input.
Impact(turns) ==
  [input |-> Tally(turns, "input"), cached |-> Tally(turns, "cached"),
   output |-> Tally(turns, "output"), reasoning |-> Tally(turns, "reasoning"),
   total |-> Tally(turns, "input") + Tally(turns, "output")]

\* build_flight_recorder.
FlightRecorder(turns) ==
  [i \in DOMAIN turns |->
     [status |-> turns[i].status, mismatch |-> turns[i].mismatch,
      total |-> turns[i].input + turns[i].output,
      fill |-> Rounded(turns[i].fill)]]

\* build_timeline: each turn and its tool calls, and how the session looks.
Timeline(turns, degraded) ==
  <<"session_start">>
  \o FlattenSeq([i \in DOMAIN turns |->
       <<"codex_turn">> \o [j \in 1..turns[i].tools |-> "tool_call_intent"]])
  \o <<IF degraded THEN "session_degraded" ELSE "latest_observation">>

-----------------------------------------------------------------------------
(* The diagnosis section.                                                  *)

\* The order in which causes of one turn are found.
CauseOrder == <<"failed", "incomplete", "model_mismatch", "high_context_fill",
                "high_reasoning_share", "accounting_anomaly">>

\* The first kind that was found.
FirstFound(kinds) == CauseOrder[Min({i \in DOMAIN CauseOrder : CauseOrder[i] \in kinds})]

\* Mutation: the most urgent firm cause, whichever turn showed it.
FirstFirmByKind(causes) ==
  IF Firm(causes) = {} THEN "none" ELSE Advice(Firm(causes))[1]

\* codex_envoy_primary_degrading_cause, primary_cause: the first cause found
\* that is not a heuristic.
FirstFirm(causes) ==
  LET first == {c \in Firm(causes) : c.turn = PublicDegradationTurn(causes)}
  IN IF first = {} THEN "none" ELSE FirstFound({c.kind : c \in first})

\* primary_cause falls back on the first heuristic; the reuse of the cache,
\* judged last, has no rank among the causes of a turn.
PrimaryCause(causes) ==
  LET onTurns == {c \in causes : c.kind # "low_cached_input_reuse"}
      turn == Min({c.turn : c \in onTurns})
  IN IF Firm(causes) # {} THEN FirstFirm(causes)
     ELSE IF onTurns # {} THEN FirstFound({c.kind : c \in {c \in onTurns : c.turn = turn}})
     ELSE IF causes # {} THEN "low_cached_input_reuse" ELSE "none"

\* direct_status_degradation: the first failed or incomplete turn; 0 if none.
DirectTurn(turns) ==
  LET bad == {i \in DOMAIN turns : turns[i].status \in {"failed", "incomplete"}}
  IN IF bad = {} THEN 0 ELSE Min(bad)

\* outcome_from_turns.
OutcomeOfLast(turns) ==
  LET last == turns[Len(turns)].status IN
  CASE last = "completed" -> "completed"
    [] last \in {"failed", "incomplete"} -> "partially"
    [] OTHER -> "unknown"

\* load_diagnosis_snapshot without a snapshot to analyze: the stored report,
\* degraded as the statuses say if it is not, or the statuses alone.
Patched(stored, turns) ==
  IF stored.degraded THEN stored
  ELSE [stored EXCEPT !.degraded = DirectTurn(turns) # 0, !.turn = DirectTurn(turns)]
FromStatuses(turns) ==
  [outcome |-> OutcomeOfLast(turns), total |-> Len(turns), causes |-> {},
   degraded |-> DirectTurn(turns) # 0, turn |-> DirectTurn(turns), advice |-> <<>>]

\* build_recommendations: the advice, or one line read off the turns.
Recommendations(diagnosis, turns) ==
  LET Ever(status) == \E i \in DOMAIN turns : turns[i].status = status IN
  IF diagnosis.advice # <<>> THEN diagnosis.advice
  ELSE <<CASE Ever("failed") -> "failed"
           [] Ever("incomplete") /\ ~Ever("failed") -> "incomplete"
           [] OTHER -> IF \E i \in DOMAIN turns : turns[i].mismatch
                         THEN "model_mismatch" ELSE "continue">>

-----------------------------------------------------------------------------
\* load_degradation_view_from_db: the flags of each turn, and the first turn
\* that has one.
Flags(t) ==
  {kind \in FirmKinds :
     \/ kind \in {"failed", "incomplete"} /\ t.status = kind
     \/ kind = "model_mismatch" /\ t.mismatch
     \/ kind = "accounting_anomaly" /\ t.anomalies > 0}
DegradationView(turns) ==
  LET flagged == {i \in DOMAIN turns : Flags(turns[i]) # {}} IN
  [degraded |-> flagged # {}, turn |-> IF flagged = {} THEN 0 ELSE Min(flagged),
   total |-> Len(turns)]
=============================================================================
