------------------------------ MODULE Migration ------------------------------
(***************************************************************************)
(* How the database gets its current schema while the core starts: the DB  *)
(* writer thread initializes it before it serves its queue, and so does    *)
(* every reader (the historical metrics monitor, the reading endpoints) on *)
(* its own connection, at the same time.  Each statement is a transaction  *)
(* of its own; a statement that waits longer than the busy timeout, or has *)
(* no disk left, fails.                                                    *)
(*                                                                         *)
(* The columns and blocks of the initialization are constants.  Of a row   *)
(* in session_diagnoses only these matter:                                 *)
(*   report  the analysis its totals and outcome come from                 *)
(*   causes  the analysis its causes come from                             *)
(*   clean   the causes are only those of Codex                            *)
(***************************************************************************)
EXTENDS Integers, Sequences, FiniteSets

CONSTANTS
  Reader,      \* connections of the monitor and of the endpoints
  Writer,      \* the connection of the DB writer thread
  Session,
  Table,       \* tables of SCHEMA that an earlier version may have had
  Added,       \* columns of theirs, <<table, name>>, that it may lack
  Dropped,     \* columns it may have and the current schema has not
  Legacy,      \* tables it may have and the current schema has not
  Blocks,      \* what is looked up together and then altered one by one
  Upgraded,    \* databases an earlier version may have left: sets of columns
  MaxReports,  \* bound: sessions that end
  MaxFaults    \* bound: failed statements and crashes

ASSUME ConnAssumption == Writer \notin Reader
ASSUME ColumnsAssumption ==
  /\ Added \cap Dropped = {} /\ Added \cap Legacy = {} /\ Dropped \cap Legacy = {}
  /\ \A a \in Added : a[1] \in Table
ASSUME BlocksAssumption ==
  /\ Blocks \in Seq(SUBSET (Added \cup Dropped \cup Legacy))
  /\ UNION {Blocks[b] : b \in DOMAIN Blocks} = Added \cup Dropped \cup Legacy
ASSUME UpgradedAssumption == Upgraded \subseteq SUBSET (Added \cup Dropped \cup Legacy)
ASSUME BoundsAssumption == MaxReports \in Nat /\ MaxFaults \in Nat

Conn == Reader \cup {Writer}

VARIABLES
  tables, columns,  \* of the database
  windows,      \* every snapshot has a context window
  diagnoses,    \* rows of session_diagnoses, by session
  phase, block, \* per connection: where it is in the initialization
  pending,      \* columns it is about to alter, of the block it looked up
  copies,       \* causes it has read and is about to write back, by session
  queue,        \* WriteDiagnosis commands sent to the writer
  reports,      \* ghost: analyses so far
  raced,        \* ghost: connections whose pending column another one altered
  overlapped,   \* ghost: sessions diagnosed while a reader held a copy
  faults        \* ghost

database == <<tables, columns, windows, diagnoses>>
threads == <<phase, block, pending, copies>>
ghosts == <<reports, raced, overlapped, faults>>
migrationVars == <<database, threads, queue, ghosts>>

Present(c) == c \in columns
NoCopies == <<>>

\* A new volume, or what an earlier version left; its diagnoses may have causes
\* of other providers, and their degradation is recomputed either way.
MigrationInit ==
  /\ \/ tables = {} /\ columns = {} /\ windows = TRUE /\ diagnoses = <<>>
     \/ /\ tables = Table /\ columns \in Upgraded /\ windows = FALSE
        /\ diagnoses \in [Session -> [report : {0}, causes : {0}, clean : {FALSE}]]
  /\ phase = [c \in Conn |-> "off"] /\ block = [c \in Conn |-> 1]
  /\ pending = [c \in Conn |-> {}] /\ copies = [c \in Conn |-> NoCopies]
  /\ queue = <<>> /\ reports = 0 /\ raced = {} /\ overlapped = {} /\ faults = 0

Goto(c, p) == phase' = [phase EXCEPT ![c] = p]

-----------------------------------------------------------------------------
(* initialize_persistence_schema, on connection c.                         *)

\* A reader's connection; that of the writer thread is opened by StartCore.
OpenReader(c) ==
  /\ phase[c] = "off"
  /\ Goto(c, "schema")
  /\ block' = [block EXCEPT ![c] = 1]
  /\ raced' = raced \ {c}
  /\ UNCHANGED <<database, pending, copies, queue, reports, overlapped, faults>>

\* One CREATE TABLE IF NOT EXISTS of SCHEMA: a new table is a current one.
Create(c) ==
  /\ phase[c] = "schema"
  /\ \/ \E t \in Table \ tables :
          /\ tables' = tables \cup {t}
          /\ columns' = columns \cup {a \in Added : a[1] = t}
          /\ UNCHANGED phase
     \/ Table \subseteq tables /\ Goto(c, "look") /\ UNCHANGED <<tables, columns>>
  /\ UNCHANGED <<windows, diagnoses, block, pending, copies, queue, ghosts>>

\* Mutation: a block that was begun is taken to be complete.
MissingUnlessBegun(b) ==
  IF \E a \in Blocks[b] \cap Added : Present(a) THEN {} ELSE Blocks[b] \cap Added

\* Columns to add.
Missing(b) == {a \in Blocks[b] \cap Added : ~Present(a)}

\* Mutation: what is to be dropped is not looked up.
ObsoleteUnseen(b) == Blocks[b] \cap (Dropped \cup Legacy)

\* What to drop; DROP TABLE IF EXISTS needs no look.
Obsolete(b) == {a \in Blocks[b] : a \in Legacy \/ (a \in Dropped /\ Present(a))}

\* PRAGMA table_info of the next block.
Look(c) ==
  /\ phase[c] = "look"
  /\ IF block[c] <= Len(Blocks)
       THEN /\ pending' = [pending EXCEPT ![c] = Missing(block[c]) \cup Obsolete(block[c])]
            /\ Goto(c, "alter")
       ELSE Goto(c, "windows") /\ UNCHANGED pending
  /\ UNCHANGED <<database, block, copies, queue, ghosts>>

\* A statement fails: the writer thread returns, a reader reports the error.
Stop(c) ==
  /\ Goto(c, IF c = Writer THEN "dead" ELSE "off")
  /\ pending' = [pending EXCEPT ![c] = {}] /\ copies' = [copies EXCEPT ![c] = NoCopies]
  /\ queue' = IF c = Writer THEN <<>> ELSE queue
  /\ UNCHANGED <<database, block>>

\* ALTER TABLE ADD COLUMN fails on a column that is there, DROP COLUMN on one
\* that is not; DROP TABLE IF EXISTS never does.
Alter(c) ==
  /\ phase[c] = "alter"
  /\ \/ /\ pending[c] = {}
        /\ Goto(c, "look") /\ block' = [block EXCEPT ![c] = @ + 1]
        /\ UNCHANGED <<database, pending, copies, queue, ghosts>>
     \/ \E a \in pending[c] :
          IF (a \in Added /\ Present(a)) \/ (a \in Dropped /\ ~Present(a))
          THEN Stop(c) /\ UNCHANGED ghosts
          ELSE /\ columns' = IF a \in Added THEN columns \cup {a} ELSE columns \ {a}
               /\ pending' = [pending EXCEPT ![c] = @ \ {a}]
               /\ raced' = raced \cup {d \in Conn \ {c} : a \in pending[d]}
               /\ UNCHANGED <<tables, windows, diagnoses, phase, block, copies, queue,
                              reports, overlapped, faults>>

\* repair_turn_snapshot_context_windows.
FillWindows(c) ==
  /\ phase[c] = "windows"
  /\ windows' = TRUE
  /\ Goto(c, "causes")
  /\ UNCHANGED <<tables, columns, diagnoses, block, pending, copies, queue, ghosts>>

\* repair_session_diagnosis_degradation_turns, and the SELECT of
\* repair_session_diagnosis_envoy_causes.
ReadCauses(c) ==
  /\ phase[c] = "causes"
  /\ copies' = [copies EXCEPT ![c] = [s \in DOMAIN diagnoses |-> diagnoses[s].causes]]
  /\ Goto(c, "update")
  /\ UNCHANGED <<database, block, pending, queue, ghosts>>

\* filter_codex_envoy_diagnosis_payload: causes of Codex only.
Filtered(row, causes) == [row EXCEPT !.causes = causes, !.clean = TRUE]

\* One UPDATE: the causes that were read, filtered.
UpdateCauses(c) ==
  /\ phase[c] = "update"
  /\ \E s \in DOMAIN copies[c] :
       /\ diagnoses' = [diagnoses EXCEPT ![s] = Filtered(@, copies[c][s])]
       /\ copies' = [copies EXCEPT ![c] = [r \in DOMAIN @ \ {s} |-> @[r]]]
  /\ UNCHANGED <<tables, columns, windows, phase, block, pending, queue, ghosts>>

\* The writer seeds metric labels and serves; a reader goes on to its queries.
Finish(c) ==
  /\ phase[c] = "update" /\ DOMAIN copies[c] = {}
  /\ Goto(c, IF c = Writer THEN "serving" ELSE "off")
  /\ UNCHANGED <<database, block, pending, copies, queue, ghosts>>

FailStatement(c) ==
  /\ phase[c] \notin {"off", "serving", "dead"} /\ faults < MaxFaults
  /\ faults' = faults + 1
  /\ Stop(c)
  /\ UNCHANGED <<reports, raced, overlapped>>

Initialize(c) ==
  \/ Create(c) \/ Look(c) \/ Alter(c) \/ FillWindows(c) \/ ReadCauses(c)
  \/ UpdateCauses(c) \/ Finish(c) \/ FailStatement(c)

-----------------------------------------------------------------------------
\* A session ends: the command waits for the writer, or nobody takes it.
EndSession(s) ==
  /\ phase[Writer] # "off" /\ reports < MaxReports
  /\ reports' = reports + 1
  /\ queue' = IF phase[Writer] = "dead" THEN queue
              ELSE Append(queue, [session |-> s, report |-> reports + 1])
  /\ UNCHANGED <<database, threads, raced, overlapped, faults>>

\* INSERT OR REPLACE of a diagnosis that was filtered before it was sent.
WriteDiagnosis ==
  /\ phase[Writer] = "serving" /\ queue # <<>>
  /\ LET s == Head(queue).session
         n == Head(queue).report
         row == [report |-> n, causes |-> n, clean |-> TRUE]
     IN /\ diagnoses' = [r \in DOMAIN diagnoses \cup {s} |->
                           IF r = s THEN row ELSE diagnoses[r]]
        /\ overlapped' = IF \E c \in Reader : s \in DOMAIN copies[c]
                           THEN overlapped \cup {s} ELSE overlapped \ {s}
  /\ queue' = Tail(queue)
  /\ UNCHANGED <<tables, columns, windows, threads, reports, raced, faults>>

Forget ==
  /\ pending' = [c \in Conn |-> {}] /\ copies' = [c \in Conn |-> NoCopies]
  /\ queue' = <<>> /\ block' = [c \in Conn |-> 1] /\ raced' = {}
  /\ UNCHANGED <<database, reports, overlapped, faults>>

\* The process of the core ends, and its threads with it.
StopCore == phase' = [c \in Conn |-> "off"] /\ Forget

\* main: a new process, with the writer thread before anything else.
StartCore == phase' = [c \in Conn |-> IF c = Writer THEN "schema" ELSE "off"] /\ Forget

-----------------------------------------------------------------------------
Whole(a) == a \in Added <=> Present(a)

(* The writer serves the current schema, from whatever version, crash or   *)
(* failed statement the database was left by, and beside any readers: no   *)
(* column is missing or left over, and no diagnosis still has the causes   *)
(* of other providers.                                                     *)
ServingIsWhole ==
  phase[Writer] = "serving" =>
    /\ tables = Table /\ windows
    /\ \A a \in Added \cup Dropped \cup Legacy : Whole(a)
    /\ \A s \in DOMAIN diagnoses : diagnoses[s].clean

(* Only a reader that initializes beside it harms: the writer thread stops *)
(* over a column that another connection altered after it had looked, or   *)
(* over a fault, and never over what it finds; and causes of an old        *)
(* analysis in the row of a newer one were put back by a reader that had   *)
(* read them before the newer one was stored.                              *)
OnlyReadersDoHarm ==
  /\ phase[Writer] = "dead" => Writer \in raced \/ faults > 0
  /\ \A s \in DOMAIN diagnoses :
       diagnoses[s].causes # diagnoses[s].report => s \in overlapped
=============================================================================
