------------------------------- MODULE Coach --------------------------------
(***************************************************************************)
(* The coach's view of a session (coach.rs): the normalized events the DB  *)
(* writer derives from a recorded turn, the session state replayed from    *)
(* them, and the signals detected in it.  Hook and user-policy events are  *)
(* not modelled: nothing inserts them while the hook commands are off.     *)
(*                                                                         *)
(* A turn is a record; the fields used here are status, fill (hundredths   *)
(* of a percent), tools (number of tool calls) and priced (trusted for     *)
(* enforcement).                                                           *)
(***************************************************************************)
EXTENDS Integers, SequencesExt

CONSTANT EventLimit   \* the LIMIT of the query that loads a session's events
ASSUME EventLimitAssumption == EventLimit \in Nat \ {0}

\* The fill in the payload of an event is clamped to 100%.
Event(kind, t) == [kind |-> kind, fill |-> IF t.fill > 10000 THEN 10000 ELSE t.fill]
Statuses == {"completed", "failed", "incomplete", "unknown"}

\* record_proxy_coach_events: the status of the turn, context pressure from
\* 70% on, one event per tool call, and a pricing event (never with a dollar
\* budget configured) if the turn's price is not trusted.
CoachEvents(t) ==
  <<Event(t.status, t)>>
  \o (IF t.fill >= 100 * 70 THEN <<Event("pressure", t)>> ELSE <<>>)
  \o [i \in 1..t.tools |-> Event("tool", t)]
  \o (IF t.priced THEN <<>> ELSE <<Event("pricing", t)>>)

\* synthesize_coach_events_from_turns, for a session without stored events:
\* the statuses and the tool calls, but neither pressure nor pricing events.
Synthesized(turns) ==
  FlattenSeq([i \in DOMAIN turns |->
    <<Event(turns[i].status, turns[i])>>
    \o [j \in 1..turns[i].tools |-> Event("tool", turns[i])]])

\* load_persisted_coach_events: the oldest EventLimit events.
Loaded(log) == SubSeq(log, 1, IF Len(log) < EventLimit THEN Len(log) ELSE EventLimit)

OfKind(events, kinds) == {i \in DOMAIN events : events[i].kind \in kinds}

\* detect_signals on derive_session_state of the loaded events.  The highest
\* pressure decides between the two grades of high_context.
Signals(events) ==
  LET pressure == {events[i].fill : i \in OfKind(events, {"pressure"})}
      Seen(status) == OfKind(events, {status}) # {}
      When(condition, name, severity) ==
        IF condition THEN {[name |-> name, severity |-> severity]} ELSE {}
  IN When(Seen("failed"), "failed_response", "stop")
     \cup When(Seen("incomplete"), "incomplete_response", "stop")
     \cup When(Seen("unknown"), "unknown_response", "careful")
     \cup When(\E f \in pressure : f >= 100 * 85, "high_context", "stop")
     \cup When(pressure # {} /\ \A f \in pressure : f < 100 * 85, "high_context", "careful")
=============================================================================
