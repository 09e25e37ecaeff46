---------------------------- MODULE Persistence ----------------------------
(***************************************************************************)
(* What codex-blackbox-core keeps in SQLite, and who writes it:            *)
(*                                                                         *)
(*   - ext_proc tasks queue a RecordCodexTurn command for each finalized   *)
(*     turn, then remember the turn in SESSION_TURNS (live);               *)
(*   - the inactivity monitor takes a session's turns out of that map and  *)
(*     queues a WriteRecall and a WriteDiagnosis (ender);                  *)
(*   - one writer thread executes the commands, a statement at a time and  *)
(*     each its own transaction (writer);                                  *)
(*   - a repair pass, with a connection of its own, runs every minute and  *)
(*     ahead of most GET handlers (repair);                                *)
(*   - GET /api/diagnosis recomputes and stores a diagnosis (review);      *)
(*   - the hourly retention pass deletes old snapshots.                    *)
(*                                                                         *)
(* A crash loses the memory and the queue and keeps the tables.  Tables    *)
(* hold turns: a request row is its turn, in rowid order, and a snapshot   *)
(* is the index of its request row with the turn_number (and, as a ghost,  *)
(* whether the SELECT of that number succeeded).  coach_events and         *)
(* billing_reconciliations are left out: nothing here reads them.          *)
(***************************************************************************)
EXTENDS Integers, Sequences, FiniteSets

CONSTANTS
  Session, Turn, Request,
  SessionOf,    \* the session of a turn
  RequestOf,    \* its request_id: x-request-id, or a clock reading without it
  Summarised,   \* turns with a response_summary that is not blank
  NoRecall, Blank,  \* no session_recall row, a row with a blank summary
  MaxFaults,    \* bound: crashes and failed statements
  Readers       \* bound: which of "repair" and "review" run

ASSUME TurnAssumption ==
  /\ IsFiniteSet(Turn)
  /\ SessionOf \in [Turn -> Session] /\ RequestOf \in [Turn -> Request]
ASSUME SummaryAssumption ==
  Summarised \in SUBSET Turn /\ NoRecall \notin Turn /\ Blank \notin Turn
                             /\ NoRecall # Blank
ASSUME FaultsAssumption == MaxFaults \in Nat

VARIABLES
  phase, live, announced,   \* tasks, SESSION_TURNS, POSTMORTEM_READY_SESSIONS
  ender, queue, writer,     \* end_session, the channel, the writer thread
  turn_number,              \* what its SELECT of it gave, until it is stored
  repair, review,           \* the repair pass, GET /api/diagnosis
  known, count, ended,      \* sessions: its keys, request_count, ended_at
  rows, snapshots,          \* requests and turn_snapshots
  diagnosis, recall,        \* session_diagnoses, session_recall
  aged,                     \* request rows 1..aged are over 30 days old
  ready,                    \* ghost: PostmortemReady events
  damaged,                  \* ghost: turns a fault kept from being recorded
  faults                    \* ghost: crashes and failed statements

tasks == <<phase, live, ender>>
tables == <<known, count, ended, rows, snapshots, diagnosis, recall>>
ledger == <<known, count, ended, rows, snapshots>>
readers == <<repair, review>>
ghosts == <<ready, damaged, faults>>
vars == <<tasks, announced, queue, writer, turn_number, readers, tables, aged, ghosts>>

Command == [op : {"turn", "recall", "diagnosis"},
            session : Session, turns : Seq(Turn)]
TurnCommand(t) == [op |-> "turn", session |-> SessionOf[t], turns |-> <<t>>]

Number == [number : Nat \ {0}, read : BOOLEAN]
NoNumber == [number |-> 1, read |-> FALSE]

TypeOK ==
  /\ phase \in [Turn -> {"open", "queued", "done"}]
  /\ live \in [Session -> Seq(Turn)] /\ announced \in SUBSET Session
  /\ ender \in [at : {"scan", "recall", "diagnosis"},
                session : Session, turns : Seq(Turn)]
  /\ queue \in Seq(Command)
  /\ writer \in {"recv", "request", "number", "snapshot", "totals", "announce", "dead"}
  /\ turn_number \in Number
  /\ repair \in [at : {"rest", "summaries", "summary", "candidates",
                       "diagnose", "lookup", "insert"},
                 todo : SUBSET Session, undiagnosed : SUBSET Session,
                 unrecalled : SUBSET Session, session : Session,
                 turns : SUBSET Turn, summary : Turn \cup {Blank}]
  /\ review \in [at : {"rest", "write"}, session : Session,
                 turns : SUBSET Turn]
  /\ known \in SUBSET Session /\ count \in [Session -> Nat]
  /\ ended \in [Session -> {"null", "recent", "idle"}]
  /\ rows \in Seq(Turn)
  /\ snapshots \in SUBSET [row : 1..Len(rows), number : Nat \ {0}, read : BOOLEAN]
  /\ diagnosis \in [Session -> SUBSET Turn]
  /\ recall \in [Session -> Turn \cup {NoRecall, Blank}]
  /\ aged \in 0..Len(rows)
  /\ ready \subseteq [session : Session, turns : SUBSET Turn,
                      life : SUBSET Turn]
  /\ damaged \in SUBSET Turn /\ faults \in 0..MaxFaults

Init ==
  /\ phase = [t \in Turn |-> "open"] /\ live = [s \in Session |-> <<>>]
  /\ announced = {} /\ queue = <<>> /\ writer = "recv"
  /\ turn_number = NoNumber
  /\ \E s \in Session :
       /\ ender = [at |-> "scan", session |-> s, turns |-> <<>>]
       /\ repair = [at |-> "rest", todo |-> {}, undiagnosed |-> {},
                    unrecalled |-> {}, session |-> s, turns |-> {},
                    summary |-> Blank]
       /\ review = [at |-> "rest", session |-> s, turns |-> {}]
  /\ known = {} /\ count = [s \in Session |-> 0]
  /\ ended = [s \in Session |-> "null"]
  /\ rows = <<>> /\ snapshots = {}
  /\ diagnosis = [s \in Session |-> {}]
  /\ recall = [s \in Session |-> NoRecall]
  /\ aged = 0 /\ ready = {} /\ damaged = {} /\ faults = 0

Elements(seq) == {seq[i] : i \in DOMAIN seq}

\* A statement or an operation that may fail does so at the cost of a fault.
Outcome(ok) == /\ ok \/ faults < MaxFaults
               /\ faults' = IF ok THEN faults ELSE faults + 1

\* DB_TX.send: without a receiver the command is dropped, with a warning.
Send(cmd) == queue' = IF writer = "dead" THEN queue ELSE Append(queue, cmd)

-----------------------------------------------------------------------------
(* Reads of the tables.                                                    *)

RowsOf(s) == {i \in DOMAIN rows : SessionOf[rows[i]] = s}
SnapshotsOf(s) == {x \in snapshots : SessionOf[rows[x.row]] = s}

\* load_turn_snapshots_from_db, as the turns it returns.
StoredTurns(s) == {rows[x.row] : x \in SnapshotsOf(s)}

\* Mutation: the newest turn repeats the highest number.
HighestNumber(s) ==
  IF SnapshotsOf(s) = {} THEN 1
  ELSE CHOOSE n \in {x.number : x \in SnapshotsOf(s)} :
         \A y \in SnapshotsOf(s) : y.number <= n

\* SELECT COALESCE(MAX(turn_number), 0) + 1.
NextNumber(s) ==
  IF SnapshotsOf(s) = {} THEN 1
  ELSE (CHOOSE x \in SnapshotsOf(s) :
          \A y \in SnapshotsOf(s) : y.number <= x.number).number + 1

\* ORDER BY turn_number; the index it reads has equal numbers in row order.
UpTo(x, y) == \/ x.number < y.number
              \/ x.number = y.number /\ x.row <= y.row

\* latest_response_summary_from_db: the turn whose summary it returns.
Latest(s) ==
  LET told == {x \in SnapshotsOf(s) : rows[x.row] \in Summarised} IN
  IF told = {} THEN Blank
  ELSE rows[(CHOOSE x \in told : \A y \in told : UpTo(y, x)).row]

\* last_session_response_summary of the turns of one life.
LastSummary(turns) ==
  LET told == {i \in DOMAIN turns : turns[i] \in Summarised} IN
  IF told = {} THEN Blank
  ELSE turns[CHOOSE i \in told : \A j \in told : j <= i]

\* postmortem_ready_totals_from_db: the turns it counts.
ReadyTurns(s) == IF SnapshotsOf(s) # {} THEN StoredTurns(s)
                 ELSE {rows[i] : i \in RowsOf(s)}

-----------------------------------------------------------------------------
(* apply_codex_finalization_outcome and end_session.                       *)

\* persist_codex_finalization_outcome.
Persist(t) ==
  /\ phase[t] = "open"
  /\ phase' = [phase EXCEPT ![t] = "queued"]
  /\ Send(TurnCommand(t))
  /\ damaged' = IF writer = "dead" THEN damaged \cup {t} ELSE damaged
  /\ UNCHANGED <<live, ender, announced, writer, turn_number, readers, tables, aged, ready,
                 faults>>

\* Mutation: the turn is remembered before it is queued.
RememberEarly(t) ==
  /\ phase[t] \in {"open", "queued"}
  /\ t \notin UNION {Elements(live[s]) : s \in Session}
  /\ phase' = [phase EXCEPT ![t] = IF @ = "open" THEN "open" ELSE "done"]
  /\ live' = [live EXCEPT ![SessionOf[t]] = Append(@, t)]
  /\ UNCHANGED <<ender, announced, queue, writer, turn_number, readers, tables, aged, ghosts>>

\* remember_codex_turn_and_emit_diagnosis.
Remember(t) ==
  /\ phase[t] = "queued"
  /\ phase' = [phase EXCEPT ![t] = "done"]
  /\ live' = [live EXCEPT ![SessionOf[t]] = Append(@, t)]
  /\ UNCHANGED <<ender, announced, queue, writer, turn_number, readers, tables, aged, ghosts>>

\* end_session removes the turns; SessionLifecycle says when it is called.
TakeTurns(s) ==
  /\ ender.at = "scan" /\ live[s] # <<>>
  /\ ender' = [at |-> "recall", session |-> s, turns |-> live[s]]
  /\ live' = [live EXCEPT ![s] = <<>>]
  /\ UNCHANGED <<phase, announced, queue, writer, turn_number, readers, tables, aged, ghosts>>

EndCommand(op) ==
  [op |-> op, session |-> ender.session, turns |-> ender.turns]

\* A life without a summary (and, here, without a prompt) has no recall.
SendRecall ==
  /\ ender.at = "recall"
  /\ ender' = [ender EXCEPT !.at = "diagnosis"]
  /\ IF LastSummary(ender.turns) = Blank THEN UNCHANGED queue
     ELSE Send(EndCommand("recall"))
  /\ UNCHANGED <<phase, live, announced, writer, turn_number, readers, tables, aged, ghosts>>

\* Mutation: the monitor writes the diagnosis itself.
SendDiagnosisDirectly ==
  /\ ender.at = "diagnosis"
  /\ ender' = [ender EXCEPT !.at = "scan", !.turns = <<>>]
  /\ diagnosis' = [diagnosis EXCEPT ![ender.session] = Elements(ender.turns)]
  /\ UNCHANGED <<phase, live, announced, queue, writer, turn_number, readers, ledger, recall,
                 aged, ghosts>>

SendDiagnosis ==
  /\ ender.at = "diagnosis"
  /\ ender' = [ender EXCEPT !.at = "scan", !.turns = <<>>]
  /\ Send(EndCommand("diagnosis"))
  /\ UNCHANGED <<phase, live, announced, writer, turn_number, readers, tables, aged, ghosts>>

-----------------------------------------------------------------------------
(* db_writer_loop.  The command stays at the head of the queue until its   *)
(* last statement.                                                         *)

Executing(op) == queue # <<>> /\ Head(queue).op = op
Target == Head(queue).session
Recorded == Head(queue).turns[1]

Goto(step) ==
  /\ writer' = step
  /\ queue' = IF step = "recv" THEN Tail(queue) ELSE queue

\* INSERT OR IGNORE INTO sessions.
InsertSession(ok) ==
  /\ writer = "recv" /\ Executing("turn")
  /\ Outcome(ok)
  /\ known' = IF ok THEN known \cup {Target} ELSE known
  /\ Goto("request")
  /\ UNCHANGED <<tasks, announced, turn_number, readers, count, ended, rows, snapshots,
                 diagnosis, recall, aged, ready, damaged>>

\* The request_id is the primary key.
Duplicate(t) == \E i \in DOMAIN rows : RequestOf[rows[i]] = RequestOf[t]

\* Mutation: a request that is not inserted is counted all the same.
InsertRequestUnchecked(ok) ==
  LET inserted == ok /\ Target \in known /\ ~ Duplicate(Recorded) IN
  /\ writer = "request"
  /\ Outcome(ok)
  /\ rows' = IF inserted THEN Append(rows, Recorded) ELSE rows
  /\ damaged' = IF inserted \/ Duplicate(Recorded) THEN damaged
                ELSE damaged \cup {Recorded}
  /\ Goto(IF inserted THEN "number" ELSE "totals")
  /\ UNCHANGED <<tasks, announced, turn_number, readers, known, count, ended,
                 snapshots, diagnosis, recall, aged, ready>>

\* INSERT OR IGNORE INTO requests: a duplicate inserts no row, and a failure
\* (of the foreign key too) counts as no row; either skips the rest.
InsertRequest(ok) ==
  LET inserted == ok /\ Target \in known /\ ~ Duplicate(Recorded) IN
  /\ writer = "request"
  /\ Outcome(ok)
  /\ rows' = IF inserted THEN Append(rows, Recorded) ELSE rows
  /\ damaged' = IF inserted \/ Duplicate(Recorded) THEN damaged
                ELSE damaged \cup {Recorded}
  /\ Goto(IF inserted THEN "number" ELSE "recv")
  /\ UNCHANGED <<tasks, announced, turn_number, readers, known, count, ended,
                 snapshots, diagnosis, recall, aged, ready>>

\* The turn number, which is 1 when its SELECT fails: nothing keeps it from
\* being there already.
ReadNumber(ok) ==
  /\ writer = "number"
  /\ Outcome(ok)
  /\ turn_number' = [number |-> IF ok THEN NextNumber(Target) ELSE 1, read |-> ok]
  /\ Goto("snapshot")
  /\ UNCHANGED <<tasks, announced, readers, tables, aged, ready, damaged>>

InsertSnapshot(ok) ==
  /\ writer = "snapshot"
  /\ Outcome(ok)
  /\ snapshots' = IF ok THEN snapshots \cup
                    {[row |-> Len(rows), number |-> turn_number.number,
                      read |-> turn_number.read]}
                  ELSE snapshots
  /\ damaged' = IF ok THEN damaged ELSE damaged \cup {Recorded}
  /\ turn_number' = NoNumber
  /\ Goto("totals")
  /\ UNCHANGED <<tasks, announced, readers, known, count, ended, rows,
                 diagnosis, recall, aged, ready>>

\* UPDATE sessions: the totals, request_count and ended_at.
UpdateTotals(ok) ==
  /\ writer = "totals"
  /\ Outcome(ok)
  /\ count' = IF ok THEN [count EXCEPT ![Target] = @ + 1] ELSE count
  /\ ended' = IF ok THEN [ended EXCEPT ![Target] = "recent"] ELSE ended
  /\ damaged' = IF ok THEN damaged ELSE damaged \cup {Recorded}
  /\ Goto("recv")
  /\ UNCHANGED <<tasks, announced, turn_number, readers, known, rows, snapshots,
                 diagnosis, recall, aged, ready>>

\* WriteRecall: INSERT OR IGNORE, the first recall of a session stays.
WriteRecall(ok) ==
  /\ writer = "recv" /\ Executing("recall")
  /\ Outcome(ok)
  /\ recall' = IF ok /\ Target \in known /\ recall[Target] = NoRecall
                 THEN [recall EXCEPT ![Target] = LastSummary(Head(queue).turns)]
                 ELSE recall
  /\ Goto("recv")
  /\ UNCHANGED <<tasks, announced, turn_number, readers, ledger, diagnosis, aged,
                 ready, damaged>>

\* WriteDiagnosis: INSERT OR REPLACE, the diagnosis of the last life stays.
WriteDiagnosis(ok) ==
  /\ writer = "recv" /\ Executing("diagnosis")
  /\ Outcome(ok)
  /\ diagnosis' = IF ok /\ Target \in known
       THEN [diagnosis EXCEPT ![Target] = Elements(Head(queue).turns)]
       ELSE diagnosis
  /\ Goto("announce")
  /\ UNCHANGED <<tasks, announced, turn_number, readers, ledger, recall, aged,
                 ready, damaged>>

\* maybe_broadcast_postmortem_ready: with evidence, once per run.
Announce ==
  /\ writer = "announce"
  /\ IF ReadyTurns(Target) = {} \/ Target \in announced
       THEN UNCHANGED <<announced, ready>>
       ELSE /\ announced' = announced \cup {Target}
            /\ ready' = ready \cup
                 {[session |-> Target, turns |-> ReadyTurns(Target),
                   life |-> Elements(Head(queue).turns)]}
  /\ Goto("recv")
  /\ UNCHANGED <<tasks, turn_number, readers, tables, aged, damaged, faults>>

-----------------------------------------------------------------------------
(* repair_persisted_session_artifacts.                                     *)

RepairUnchanged == UNCHANGED <<tasks, announced, queue, writer, turn_number, review, ledger,
                               aged, ready, damaged>>

\* The locals of a pass end with it.
AtRest(pass) == [pass EXCEPT !.at = "rest", !.todo = {}, !.undiagnosed = {},
                             !.unrecalled = {}, !.turns = {}, !.summary = Blank]

\* The recalls to compare, as repair_session_recall_codex_summaries loads them.
StartRepair ==
  /\ "repair" \in Readers /\ repair.at = "rest"
  /\ repair' = [repair EXCEPT !.at = "summaries",
                  !.todo = {s \in Session : /\ recall[s] # NoRecall
                                            /\ SnapshotsOf(s) # {}}]
  /\ RepairUnchanged /\ UNCHANGED <<diagnosis, recall, faults>>

LookUpSummary(s) ==
  /\ repair.at = "summaries" /\ s \in repair.todo
  /\ repair' = [repair EXCEPT !.at = "summary", !.session = s,
                  !.todo = @ \ {s}, !.summary = Latest(s)]
  /\ RepairUnchanged /\ UNCHANGED <<diagnosis, recall, faults>>

\* Mutation: a summary that is there is taken for the latest one.
UpdateBlankSummary(ok) ==
  LET s == repair.session IN
  /\ repair.at = "summary"
  /\ Outcome(ok)
  /\ repair' = [repair EXCEPT !.at = "summaries", !.todo = IF ok THEN @ ELSE {}]
  /\ recall' = IF ok /\ recall[s] = Blank
                 THEN [recall EXCEPT ![s] = repair.summary] ELSE recall
  /\ RepairUnchanged /\ UNCHANGED diagnosis

\* An error skips the other recalls, and the pass goes on.
UpdateSummary(ok) ==
  LET s == repair.session IN
  /\ repair.at = "summary"
  /\ Outcome(ok)
  /\ repair' = [repair EXCEPT !.at = "summaries", !.todo = IF ok THEN @ ELSE {}]
  /\ recall' = IF ok /\ recall[s] # NoRecall
                 THEN [recall EXCEPT ![s] = repair.summary] ELSE recall
  /\ RepairUnchanged /\ UNCHANGED diagnosis

\* Idle sessions with snapshots that lack a diagnosis, or a recall they have
\* a summary for.
Candidate(s) ==
  /\ ended[s] = "idle" /\ SnapshotsOf(s) # {}
  /\ \/ diagnosis[s] = {}
     \/ recall[s] = NoRecall /\ Latest(s) # Blank

FindCandidates ==
  LET found == {s \in Session : Candidate(s)} IN
  /\ repair.at = "summaries" /\ repair.todo = {}
  /\ repair' = [repair EXCEPT !.at = "candidates", !.todo = found,
                  !.summary = Blank,
                  !.undiagnosed = {s \in found : diagnosis[s] = {}},
                  !.unrecalled = {s \in found : recall[s] = NoRecall}]
  /\ RepairUnchanged /\ UNCHANGED <<diagnosis, recall, faults>>

\* The step that follows the diagnosis of session s.
AfterDiagnosis(s) == IF s \in repair.unrecalled THEN "lookup" ELSE "candidates"

\* A session whose snapshots are gone by now is skipped.
LoadTurns(s) ==
  /\ repair.at = "candidates" /\ s \in repair.todo
  /\ repair' = [repair EXCEPT
                  !.at = IF StoredTurns(s) = {} THEN "candidates"
                         ELSE IF s \in repair.undiagnosed THEN "diagnose"
                         ELSE AfterDiagnosis(s),
                  !.session = s, !.todo = @ \ {s}, !.turns = StoredTurns(s)]
  /\ RepairUnchanged /\ UNCHANGED <<diagnosis, recall, faults>>

\* persist_session_diagnosis_report, its error ignored.
RepairDiagnosis(ok) ==
  LET s == repair.session IN
  /\ repair.at = "diagnose"
  /\ Outcome(ok)
  /\ diagnosis' = IF ok THEN [diagnosis EXCEPT ![s] = repair.turns]
                  ELSE diagnosis
  /\ repair' = [repair EXCEPT !.at = AfterDiagnosis(s)]
  /\ RepairUnchanged /\ UNCHANGED recall

\* There is nothing to insert without a summary (and a prompt).
LookUpRecall ==
  LET s == repair.session IN
  /\ repair.at = "lookup"
  /\ repair' = [repair EXCEPT
                  !.at = IF Latest(s) = Blank THEN "candidates" ELSE "insert",
                  !.summary = Latest(s)]
  /\ RepairUnchanged /\ UNCHANGED <<diagnosis, recall, faults>>

\* INSERT OR IGNORE, its error ignored.
RepairRecall(ok) ==
  LET s == repair.session IN
  /\ repair.at = "insert"
  /\ Outcome(ok)
  /\ recall' = IF ok /\ recall[s] = NoRecall
                 THEN [recall EXCEPT ![s] = repair.summary] ELSE recall
  /\ repair' = [repair EXCEPT !.at = "candidates"]
  /\ RepairUnchanged /\ UNCHANGED diagnosis

FinishRepair ==
  /\ repair.at = "candidates" /\ repair.todo = {}
  /\ repair' = AtRest(repair)
  /\ RepairUnchanged /\ UNCHANGED <<diagnosis, recall, faults>>

-----------------------------------------------------------------------------
(* handle_diagnosis, retention, time and crashes.                          *)

\* build_fresh_diagnosis_report loads what is stored of the session ...
LoadReview(s) ==
  /\ "review" \in Readers /\ review.at = "rest" /\ SnapshotsOf(s) # {}
  /\ review' = [at |-> "write", session |-> s, turns |-> StoredTurns(s)]
  /\ UNCHANGED <<tasks, announced, queue, writer, turn_number, repair, tables, aged, ghosts>>

\* ... and replaces the diagnosis, whatever it is by then.
WriteReview(ok) ==
  /\ review.at = "write"
  /\ Outcome(ok)
  /\ diagnosis' = IF ok THEN [diagnosis EXCEPT ![review.session] = review.turns]
                  ELSE diagnosis
  /\ review' = [review EXCEPT !.at = "rest", !.turns = {}]
  /\ UNCHANGED <<tasks, announced, queue, writer, turn_number, repair, ledger, recall,
                 aged, ready, damaged>>

\* The session timeout passes since the last turn of session s.
Timeout(s) ==
  /\ ended[s] = "recent"
  /\ ended' = [ended EXCEPT ![s] = "idle"]
  /\ UNCHANGED <<tasks, announced, queue, writer, turn_number, readers, known, count, rows,
                 snapshots, diagnosis, recall, aged, ghosts>>

\* Nothing that takes seconds or minutes lasts for 30 days.
Quiet ==
  /\ \A t \in Turn : phase[t] # "queued"
  /\ \A s \in Session : live[s] = <<>> /\ ended[s] # "recent"
  /\ ender.at = "scan" /\ queue = <<>> /\ repair.at = "rest"
  /\ review.at = "rest"

\* Thirty days pass since the first n requests.
Age(n) ==
  /\ Quiet /\ aged < n
  /\ aged' = n
  /\ UNCHANGED <<tasks, announced, queue, writer, turn_number, readers, tables, ghosts>>

\* data_retention_cleanup, its first DELETE.
DeleteSnapshots ==
  /\ \E x \in snapshots : x.row <= aged
  /\ snapshots' = {x \in snapshots : x.row > aged}
  /\ UNCHANGED <<tasks, announced, queue, writer, turn_number, readers, known, count, ended,
                 rows, diagnosis, recall, aged, ghosts>>

\* The process dies and starts again; the writer thread may fail to open the
\* database then, and returns.
Crash ==
  /\ Outcome(FALSE)
  /\ damaged' = damaged \cup
       {t \in Turn : \E i \in DOMAIN queue : queue[i] = TurnCommand(t)}
  /\ phase' = [t \in Turn |-> IF phase[t] = "queued" THEN "done" ELSE phase[t]]
  /\ live' = [s \in Session |-> <<>>] /\ announced' = {} /\ queue' = <<>>
  /\ writer' \in {"recv", "dead"} /\ turn_number' = NoNumber
  /\ ender' = [ender EXCEPT !.at = "scan", !.turns = <<>>]
  /\ repair' = AtRest(repair)
  /\ review' = [review EXCEPT !.at = "rest", !.turns = {}]
  /\ UNCHANGED <<tables, aged, ready>>

-----------------------------------------------------------------------------
WriterStep(ok) ==
  \/ InsertSession(ok) \/ InsertRequest(ok) \/ ReadNumber(ok) \/ InsertSnapshot(ok)
  \/ UpdateTotals(ok) \/ WriteRecall(ok) \/ WriteDiagnosis(ok)

RepairStep(ok) ==
  \/ UpdateSummary(ok) \/ RepairDiagnosis(ok) \/ RepairRecall(ok)

RepairRead ==
  \/ StartRepair \/ FindCandidates \/ LookUpRecall \/ FinishRepair
  \/ \E s \in Session : LookUpSummary(s) \/ LoadTurns(s)

Next ==
  \/ \E t \in Turn : Persist(t) \/ Remember(t)
  \/ \E s \in Session : TakeTurns(s) \/ LoadReview(s) \/ Timeout(s)
  \/ SendRecall \/ SendDiagnosis
  \/ \E ok \in BOOLEAN : WriterStep(ok) \/ RepairStep(ok) \/ WriteReview(ok)
  \/ Announce \/ RepairRead
  \/ \E n \in 1..Len(rows) : Age(n)
  \/ DeleteSnapshots \/ Crash

Spec == Init /\ [][Next]_vars

\* The monitors are timer loops, the writer and the tasks run without waiting
\* for anyone, and sessions time out.  Turns, reviews, retention and faults
\* are not owed.
Fairness ==
  /\ WF_vars(\E ok \in BOOLEAN : WriterStep(ok) \/ Announce)
  /\ WF_vars(RepairRead \/ \E ok \in BOOLEAN : RepairStep(ok))
  /\ WF_vars(SendRecall \/ SendDiagnosis)
  /\ \A t \in Turn : WF_vars(Remember(t))
  /\ \A s \in Session : WF_vars(TakeTurns(s)) /\ WF_vars(Timeout(s))

FairSpec == Spec /\ Fairness

-----------------------------------------------------------------------------
\* The snapshots of a session are numbered in the order its requests were
\* recorded, whatever retention has deleted: the ORDER BY turn_number of every
\* reader is the order of the turns.  Only a snapshot whose number could not be
\* read comes first instead, and repeats the 1 of another; each such costs a
\* fault of its own, and the numbers after it are in order again.
SnapshotsInRecordOrder ==
  /\ \A x, y \in snapshots :
       SessionOf[rows[x.row]] = SessionOf[rows[y.row]] /\ x.row < y.row =>
         \/ x.number < y.number
         \/ ~ y.read /\ y.number = 1
  /\ Cardinality({x \in snapshots : ~x.read}) <= faults

\* The request rows of a session the writer is done with.
Written(s) ==
  {i \in RowsOf(s) : ~ (writer \in {"number", "snapshot", "totals"} /\ i = Len(rows))}

\* A request is counted in its session's totals once at most, and only a fault
\* keeps one from being counted or from having a snapshot: db_writer_loop
\* writes the three tables in separate transactions.
OnlyDamageIsMissing ==
  /\ \A s \in Session :
       /\ count[s] <= Cardinality(Written(s))
       /\ Cardinality({i \in Written(s) : rows[i] \notin damaged}) <= count[s]
  /\ \A i \in (aged + 1)..Len(rows) :
       \/ rows[i] \in damaged
       \/ writer \in {"number", "snapshot"} /\ i = Len(rows)
       \/ \E x \in snapshots : x.row = i

\* PostmortemReady comes after the turns of the life it is about: each of them
\* has a request row, under its id, and is in the announced totals if the row
\* is its own; unless a fault kept the turn from being recorded.
ReadyCoversLife ==
  \A e \in ready : \A t \in e.life \ damaged :
    /\ \E i \in DOMAIN rows : RequestOf[rows[i]] = RequestOf[t]
    /\ t \in Elements(rows) => t \in e.turns

\* A stored diagnosis is about turns on record, unless a fault damaged them or
\* their request_id was taken: end_session queues it behind its turns.
DiagnosesAreOnRecord ==
  \A s \in Session : \A t \in diagnosis[s] \ damaged :
    \E i \in DOMAIN rows : RequestOf[rows[i]] = RequestOf[t]

\* An idle session with snapshots has a diagnosis in the end, through
\* end_session or the repair pass, whatever was lost in crashes.
IdleSessionsAreReviewed ==
  \A s \in Session :
    (ended[s] = "idle" /\ SnapshotsOf(s) # {})
      ~> (diagnosis[s] # {} \/ SnapshotsOf(s) = {})

\* The recall of an idle session settles on its last stored summary, though
\* WriteRecall keeps the first one it was given.
RecallSettles ==
  \A s \in Session :
    <>[](\/ ended[s] # "idle" \/ SnapshotsOf(s) = {}
         \/ recall[s] = Latest(s)
         \/ recall[s] = NoRecall /\ Latest(s) = Blank)

\* Without faults, a session that has turns in memory and a request row is
\* announced for review in the end.
EndedSessionsAreAnnounced ==
  \A s \in Session :
    (live[s] # <<>> /\ RowsOf(s) # {}) ~> (s \in announced \/ faults > 0)

\* What is derived from the turns comes about in the end: diagnosis, recall and
\* announcement, through end_session or the repair pass.
SessionsSettle == IdleSessionsAreReviewed /\ RecallSettles /\ EndedSessionsAreAnnounced
=============================================================================
