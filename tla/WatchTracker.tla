---------------------------- MODULE WatchTracker ----------------------------
(***************************************************************************)
(* DecisionSessionTracker of the CLI: how the facts a watch client has of  *)
(* a session change with each event it hears.                              *)
(***************************************************************************)
EXTENDS Decision

Larger(a, b) == IF a >= b THEN a ELSE b

\* Mutation: an unknown status is counted as a failure.
TrackUnknownAsFailed(f, event) ==
  CASE event.type = "SessionStart" -> [f EXCEPT !.observed = TRUE]
    [] event.type = "ModelFallback" -> [f EXCEPT !.mismatch = TRUE]
    [] event.type = "CodexTurnSummary" ->
         [f EXCEPT !.observed = TRUE, !.turns = @ + 1,
            !.failed = @ + (IF event.status \in {"failed", "unknown"} THEN 1 ELSE 0),
            !.incomplete = @ + (IF event.status = "incomplete" THEN 1 ELSE 0)]
    [] event.type = "ContextStatus" -> [f EXCEPT !.fill = Larger(@, event.fill)]
    [] event.type \in {"SessionEnd", "PostmortemReady"} ->
         [f EXCEPT !.observed = TRUE, !.ended = TRUE, !.turns = event.turns]

\* DecisionSessionTracker::update.
Track(f, event) ==
  CASE event.type = "SessionStart" -> [f EXCEPT !.observed = TRUE]
    [] event.type = "ModelFallback" -> [f EXCEPT !.mismatch = TRUE]
    [] event.type = "CodexTurnSummary" ->
         [f EXCEPT !.observed = TRUE, !.turns = @ + 1,
            !.failed = @ + (IF event.status = "failed" THEN 1 ELSE 0),
            !.incomplete = @ + (IF event.status = "incomplete" THEN 1 ELSE 0),
            !.unknown = @ + (IF event.status = "unknown" THEN 1 ELSE 0)]
    [] event.type = "ContextStatus" -> [f EXCEPT !.fill = Larger(@, event.fill)]
    [] event.type \in {"SessionEnd", "PostmortemReady"} ->
         [f EXCEPT !.observed = event.type = "PostmortemReady" \/ event.turns > 0,
            !.ended = TRUE, !.turns = event.turns]
=============================================================================
