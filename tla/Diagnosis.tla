----------------------------- MODULE Diagnosis ------------------------------
(***************************************************************************)
(* The diagnosis of a session (diagnosis.rs): the causes analyze_session   *)
(* finds in its Codex turns, each with the turn that first shows it, and   *)
(* what is made public of them (main.rs).  Every turn is a Codex turn: the *)
(* branches for other providers, advice, costs and wording are left out.   *)
(*                                                                         *)
(*   turn  status; mismatch (another model answered); fill (hundredths of *)
(*         a percent); input, cached, output, reasoning (tokens);          *)
(*         anomalies                                                       *)
(***************************************************************************)
EXTENDS Integers, Sequences, FiniteSetsExt, Functions

CONSTANT ReuseTurns   \* turns before cache reuse is judged; 3 in the code
ASSUME ReuseTurnsAssumption == ReuseTurns \in Nat \ {0}

\* What is observed of a response, as opposed to heuristics about it.
FirmKinds == {"failed", "incomplete", "model_mismatch", "accounting_anomaly"}
HighFill == 100 * 80
TurnHeuristics == {"high_context_fill", "high_reasoning_share"}

Shows(t, kind) ==
  CASE kind = "failed" -> t.status = "failed"
    [] kind = "incomplete" -> t.status = "incomplete"
    [] kind = "model_mismatch" -> t.mismatch
    [] kind = "accounting_anomaly" -> t.anomalies > 0
    [] kind = "high_context_fill" -> t.fill >= HighFill
    [] kind = "high_reasoning_share" ->
         /\ t.output > 0 /\ t.reasoning >= 64
         /\ 2 * t.reasoning >= t.output

\* push_cause_once: turn i is the first to show it.
First(turns, i, kind) ==
  Shows(turns[i], kind) /\ \A j \in 1..(i - 1) : ~Shows(turns[j], kind)

TurnCauses(turns) ==
  {c \in [kind : FirmKinds \cup TurnHeuristics, turn : DOMAIN turns] :
     First(turns, c.turn, c.kind)}

\* A field of turns, summed up.
Tally(turns, field) ==
  SumFunction([i \in DOMAIN turns |-> turns[i][field]])

\* Less than a tenth of the input was cached, over ReuseTurns turns or more
\* and a thousand tokens; blamed on the first turn.
LowReuse(turns) ==
  /\ Len(turns) >= ReuseTurns /\ Tally(turns, "input") >= 1000
  /\ 10 * Tally(turns, "cached") < Tally(turns, "input")

\* codex_diagnostic_causes.
Causes(turns) ==
  TurnCauses(turns) \cup
  (IF LowReuse(turns) THEN {[kind |-> "low_cached_input_reuse", turn |-> 1]} ELSE {})

Firm(causes) == {c \in causes : c.kind \in FirmKinds}

\* analyze_session and codex_envoy_public_degradation: heuristic causes do
\* not degrade a session.
Degraded(causes) == Firm(causes) # {}

\* codex_envoy_public_degradation: only what degrades counts; 0 is none.
PublicDegradationTurn(causes) ==
  IF Degraded(causes) THEN Min({c.turn : c \in Firm(causes)}) ELSE 0

\* determine_outcome.
Outcome(turns) ==
  LET last == turns[Len(turns)].status
      everCompleted == \E i \in DOMAIN turns : turns[i].status = "completed"
  IN CASE last = "completed" -> "completed"
       [] last \in {"failed", "incomplete"} \/ everCompleted -> "partially"
       [] OTHER -> "abandoned"

\* The causes advice is given for, at most three, the most urgent first.
Priority == <<"failed", "incomplete", "model_mismatch", "accounting_anomaly",
              "high_context_fill", "high_reasoning_share",
              "low_cached_input_reuse">>
Advice(causes) ==
  LET present == {i \in DOMAIN Priority : \E c \in causes : c.kind = Priority[i]}
      Before(i) == Cardinality({j \in present : j < i})
  IN [n \in 1..Min({3, Cardinality(present)}) |->
        Priority[CHOOSE i \in present : Before(i) = n - 1]]

\* Mutation: the verdict of before the causes were filtered is kept.
ReportUnfiltered(turns) ==
  LET causes == Causes(turns) IN
  [outcome |-> Outcome(turns), total |-> Len(turns), causes |-> causes,
   degraded |-> causes # {}, turn |-> PublicDegradationTurn(causes),
   advice |-> Advice(causes)]

\* codex_envoy_diagnosis_report of analyze_session.
Report(turns) ==
  LET causes == Causes(turns) IN
  [outcome |-> Outcome(turns), total |-> Len(turns), causes |-> causes,
   degraded |-> Degraded(causes), turn |-> PublicDegradationTurn(causes),
   advice |-> IF Degraded(causes) THEN Advice(causes) ELSE <<>>]
=============================================================================
