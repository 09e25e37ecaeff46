------------------------------ MODULE Reports --------------------------------
(***************************************************************************)
(* The reports on one session while it is being recorded: the DB writer    *)
(* commits a turn in several transactions, and the endpoints /postmortem,  *)
(* /diagnosis and /sessions read its tables in several queries, analyze    *)
(* them and store the diagnosis, each on a connection of its own.          *)
(*                                                                         *)
(*   requests   the turns that have a row in requests                      *)
(*   snapshots  those of them that have a row in turn_snapshots            *)
(*   coach_events  the coach events of the session                         *)
(*   ended      sessions.ended_at is set                                   *)
(*   stored     the row in session_diagnoses                               *)
(*                                                                         *)
(* Retention and crashes are in Persistence.  A life ends with a diagnosis *)
(* of the turns it remembered, in the order of their rows.                 *)
(***************************************************************************)
EXTENDS Postmortem

CONSTANTS
  Reader,      \* slots for concurrent report requests
  NoReport,    \* no row in session_diagnoses
  MaxRecorded,    \* bound: turns recorded
  MaxReads,    \* bound: reports asked for
  MaxLost,     \* bound: snapshots whose INSERT fails
  MaxLives     \* bound: lives that end

ASSUME ReportsAssumption ==
  MaxRecorded \in Nat /\ MaxReads \in Nat /\ MaxLost \in Nat /\ MaxLives \in Nat

VARIABLES
  requests, snapshots, coach_events, ended, stored,
  step, pending,   \* the writer: its step, the coach events left to insert
  oldest, lives,   \* first turn remembered by the current life; lives ended
  reading, reads   \* per reader: the report so far; ghost: reports asked for

tables == <<requests, snapshots, coach_events, ended, stored>>
writer == <<step, pending, oldest, lives>>
reportsVars == <<tables, writer, reading, reads>>

Idle == [at |-> <<>>, kind |-> "none", from |-> 0, turns |-> <<>>, whole |-> TRUE,
         fresh |-> FALSE, listed |-> NoReport, diagnosis |-> NoReport, coach |-> <<>>]

ReportsInit ==
  /\ requests = <<>> /\ snapshots = <<>> /\ coach_events = <<>> /\ ended = FALSE
  /\ stored = NoReport
  /\ step = "idle" /\ pending = <<>> /\ oldest = 1 /\ lives = 0
  /\ reading = [r \in Reader |-> Idle] /\ reads = 0

-----------------------------------------------------------------------------
(* The DB writer: RecordCodexTurn and WriteDiagnosis.                      *)

CommitRequest(t) ==
  /\ step = "idle" /\ Len(requests) < MaxRecorded
  /\ requests' = Append(requests, t)
  /\ step' = "snapshot"
  /\ UNCHANGED <<snapshots, coach_events, ended, stored, pending, oldest, lives,
                 reading, reads>>

\* The INSERT of the snapshot fails, which is ignored, or not.
CommitSnapshot(lost) ==
  LET t == requests[Len(requests)] IN
  /\ step = "snapshot"
  /\ lost => Len(requests) - Len(snapshots) <= MaxLost
  /\ snapshots' = IF lost THEN snapshots ELSE Append(snapshots, t)
  /\ step' = "events"
  /\ pending' = CoachEvents(t)
  /\ UNCHANGED <<requests, coach_events, ended, stored, oldest, lives, reading, reads>>

CommitEvent ==
  /\ step = "events" /\ pending # <<>>
  /\ coach_events' = Append(coach_events, Head(pending))
  /\ pending' = Tail(pending)
  /\ UNCHANGED <<requests, snapshots, ended, stored, step, oldest, lives, reading, reads>>

\* The totals of the session, and ended_at.
CommitTotals ==
  /\ step = "events" /\ pending = <<>>
  /\ ended' = TRUE
  /\ step' = "idle"
  /\ UNCHANGED <<requests, snapshots, coach_events, stored, pending, oldest, lives,
                 reading, reads>>

\* A life ends; its diagnosis is committed after its turns, and turns of the
\* next life may already be there.
CommitLife(last) ==
  /\ step = "idle" /\ lives < MaxLives
  /\ stored' = Report(SubSeq(requests, oldest, last))
  /\ oldest' = last + 1
  /\ lives' = lives + 1
  /\ UNCHANGED <<requests, snapshots, coach_events, ended, step, pending, reading,
                 reads>>

Write ==
  \/ \E t \in TurnKind : CommitRequest(t)
  \/ \E lost \in BOOLEAN : CommitSnapshot(lost)
  \/ CommitEvent \/ CommitTotals
  \/ \E last \in oldest..Len(requests) : CommitLife(last)

-----------------------------------------------------------------------------
(* The readers.  Each query is a step of its own.                          *)

\* build_postmortem_report, handle_diagnosis, handle_sessions.
Queries ==
  [postmortem |-> <<"evidence", "analyze", "store", "coach">>,
   diagnosis |-> <<"analyze", "store">>,
   sessions |-> <<"list", "analyze", "store">>]

Done(r) == reading[r].at = <<>>
At(r, query) == ~Done(r) /\ Head(reading[r].at) = query
Put(r, report) == reading' = [reading EXCEPT ![r] = report]
Next1(report) == [report EXCEPT !.at = Tail(@)]

\* Only a session with a row in requests or turn_snapshots is reported on.
Ask(r, kind) ==
  /\ Done(r) /\ reads < MaxReads
  /\ requests # <<>>
  /\ reads' = reads + 1
  /\ Put(r, [Idle EXCEPT !.at = Queries[kind], !.kind = kind,
                         !.from = Len(snapshots)])
  /\ UNCHANGED <<tables, writer>>

\* load_turn_evidence; a row in requests has no context fill.
ReadEvidence(r) ==
  LET bare == [i \in DOMAIN requests |-> [requests[i] EXCEPT !.fill = 0]] IN
  /\ At(r, "evidence")
  /\ Put(r, [Next1(reading[r]) EXCEPT
               !.turns = IF snapshots = <<>> THEN bare ELSE snapshots,
               !.whole = snapshots # <<>>])
  /\ UNCHANGED <<tables, writer, reads>>

\* Mutation: like the query of the repair pass, names of old reports only.
RefreshLegacy(listed) ==
  listed = NoReport \/ listed.outcome = "legacy"

\* handle_sessions: none is stored, or one of an outcome a fresh report has.
NeedsRefresh(listed) ==
  listed = NoReport \/ listed.outcome \in {"completed", "partially", "abandoned"}

\* load_recent_codex_session_rows: the stored report, and whether it will do.
ReadList(r) ==
  /\ At(r, "list")
  /\ Put(r, IF NeedsRefresh(stored) THEN [Next1(reading[r]) EXCEPT !.listed = stored]
            ELSE [reading[r] EXCEPT !.at = <<>>, !.diagnosis = stored])
  /\ UNCHANGED <<tables, writer, reads>>

\* build_fresh_diagnosis_report.  Without snapshots there is nothing to
\* analyze or to store: the stored report or the statuses have to do.
Analyze(r) ==
  LET report == reading[r]
      fallback == IF report.kind = "sessions" THEN report.listed
                  ELSE IF report.kind = "diagnosis" THEN stored
                  ELSE IF stored = NoReport THEN FromStatuses(report.turns)
                  ELSE Patched(stored, report.turns)
  IN /\ At(r, "analyze")
     /\ Put(r, IF snapshots # <<>>
                 THEN [Next1(report) EXCEPT !.diagnosis = Report(snapshots), !.fresh = TRUE]
                 ELSE [report EXCEPT !.at = Tail(Tail(@)), !.diagnosis = fallback])
     /\ UNCHANGED <<tables, writer, reads>>

\* persist_session_diagnosis_report: INSERT OR REPLACE.
Store(r) ==
  /\ At(r, "store")
  /\ stored' = reading[r].diagnosis
  /\ Put(r, Next1(reading[r]))
  /\ UNCHANGED <<requests, snapshots, coach_events, ended, writer, reads>>

\* build_coach_report: the stored events, or what the turns of the report
\* tell; an end is noted if ended_at is set.
ReadCoach(r) ==
  LET events == IF coach_events = <<>> THEN Synthesized(reading[r].turns)
                ELSE Loaded(coach_events) IN
  /\ At(r, "coach")
  /\ Put(r, [Next1(reading[r]) EXCEPT
               !.coach = events \o (IF ended THEN <<[kind |-> "stop", fill |-> 0]>>
                                             ELSE <<>>)])
  /\ UNCHANGED <<tables, writer, reads>>

Read(r) ==
  \/ \E kind \in DOMAIN Queries : Ask(r, kind)
  \/ ReadEvidence(r) \/ ReadList(r) \/ Analyze(r) \/ Store(r) \/ ReadCoach(r)

ReportsNext == Write \/ \E r \in Reader : Read(r)

ReportsSpec == ReportsInit /\ [][ReportsNext]_reportsVars

-----------------------------------------------------------------------------
Finished(kind) == {r \in Reader : Done(r) /\ reading[r].kind = kind}
Rows(r) == Evidence(reading[r].turns)

(* The evidence of a postmortem and its diagnosis are about the same       *)
(* session although they are read one after the other: every sign of       *)
(* trouble in the evidence has its cause, and a cause without evidence is  *)
(* news of a turn recorded in between.  Only the reuse of the cache may be *)
(* evidence without being a cause: at exactly a tenth, or no longer.       *)
EvidenceBacksCauses ==
  \A r \in Finished("postmortem") : reading[r].whole =>
    LET causes == reading[r].diagnosis.causes
        seen == Len(reading[r].turns)
        Judged(set) == {c \in set : c.kind \in FirmKinds \cup TurnHeuristics}
    IN /\ \A row \in Judged(Rows(r)) :
            \E c \in causes : c.kind = row.kind /\ c.turn <= row.turn
       /\ \A c \in Judged(causes) : c \in Rows(r) \/ c.turn > seen
       /\ reading[r].diagnosis.total = seen =>
            /\ causes \ Judged(causes) \subseteq Rows(r)
            /\ LowReuseRow(reading[r].turns) /\ ~LowReuse(reading[r].turns) =>
                 10 * Impact(reading[r].turns).cached = Impact(reading[r].turns).input

(* No report is out of date when it is asked for: whatever another reader  *)
(* or the end of a life stored meanwhile, a finished report covers every   *)
(* turn that had a snapshot when the request came in.                      *)
ReportsAreCurrent ==
  \A r \in Reader : Done(r) /\ reading[r].kind # "none" /\ reading[r].from > 0 =>
    reading[r].diagnosis.total >= reading[r].from

\* The end of the timeline against the signals and the flight recorder of the
\* same postmortem: a turn recorded in between may have degraded the session.
EndsAsShown(turns, d) ==
  LET flight == FlightRecorder(turns)
      shown == \/ ReportSignals(turns).anomalies > 0
               \/ \E i \in DOMAIN flight : \/ flight[i].status \in {"failed", "incomplete"}
                                          \/ flight[i].mismatch
      degraded == Last(Timeline(turns, d.degraded)) = "session_degraded"
  IN (shown => degraded) /\ (degraded /\ d.total = Len(turns) => shown)

(* One story of the degradation: the degradation view, which flags turns   *)
(* by itself, names the same first turn as the report on these turns; the  *)
(* primary cause is shown by that turn; the first thing recommended        *)
(* answers something observed, never a heuristic; the timeline ends as its *)
(* signals and its flight recorder say; and without snapshots a failure is *)
(* still reported, although no cause is.                                   *)
DegradationHasOneStory ==
  \A r \in Reader : Done(r) /\ reading[r].diagnosis # NoReport =>
    LET d == reading[r].diagnosis
        primary == PrimaryCause(d.causes)
        first == Recommendations(d, reading[r].turns)[1]
        view == DegradationView(SubSeq(snapshots, 1, d.total))
    IN IF ~reading[r].fresh
       THEN reading[r].kind = "postmortem" =>
              (DirectTurn(reading[r].turns) # 0 => d.degraded)
       ELSE /\ view = [degraded |-> d.degraded, turn |-> d.turn, total |-> d.total]
            /\ d.degraded => /\ primary \in Flags(snapshots[d.turn])
                             /\ first \in FirmKinds
                             /\ \E c \in d.causes : c.kind = first
            /\ ~d.degraded => primary \notin FirmKinds
            /\ reading[r].whole => EndsAsShown(reading[r].turns, d)

(* History never invents trouble: the stored report calls a session        *)
(* degraded only for kinds of causes that its recorded turns show, however *)
(* stale it is.                                                            *)
HistoryNeverInvents ==
  stored # NoReport =>
    /\ stored.degraded <=> Firm(stored.causes) # {}
    /\ \A c \in Firm(stored.causes) : \E i \in DOMAIN requests : c.kind \in Flags(requests[i])
=============================================================================
