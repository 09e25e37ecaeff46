------------------------- MODULE PersistenceProofs -------------------------
(***************************************************************************)
(* Theorems about Persistence, for any sessions, turns, request ids and    *)
(* number of faults.                                                       *)
(*                                                                         *)
(* WriterInv is what the proofs rest on: what the writer holds between two *)
(* statements is the command at the head of the queue, and the row it has  *)
(* just inserted is the last one.  NumberInv bounds the turn numbers, so   *)
(* that the MAX a reader or the writer asks for exists, and HeldNumberInv  *)
(* says what the number the writer has read is worth.  The properties      *)
(* follow in the order they need each other: types, turn numbers, totals   *)
(* and snapshots, diagnoses, and last the PostmortemReady events.          *)
(***************************************************************************)
EXTENDS Persistence, SequenceTheorems, FiniteSetTheorems, WellFoundedInduction,
        TLAPS

QueueInv ==
  \A i \in DOMAIN queue : queue[i].op = "turn" =>
    \E t \in Turn : queue[i] = TurnCommand(t)

WriterInv ==
  /\ writer \in {"request", "number", "snapshot", "totals"} => Executing("turn")
  /\ writer = "announce" => Executing("diagnosis")
  /\ writer \in {"number", "snapshot", "totals"} =>
       rows # <<>> /\ rows[Len(rows)] = Recorded
  /\ writer \in {"number", "snapshot"} =>
       \A x \in snapshots : x.row # Len(rows)

\* The number the writer holds is that of a new turn, or the 1 of a failure.
HeldNumberInv ==
  writer = "snapshot" =>
    /\ turn_number.number <= Len(rows)
    /\ IF turn_number.read
         THEN \A x \in SnapshotsOf(Target) : x.number < turn_number.number
         ELSE turn_number.number = 1

NumberInv == \A x \in snapshots : x.number <= x.row

BaseInv == TypeOK /\ QueueInv /\ WriterInv /\ HeldNumberInv /\ NumberInv

-----------------------------------------------------------------------------
(* Types, part by part: a leaf that needs all of TypeOK is a slow one.     *)

\* TypeOK, a part for each group of variables that change together.
TasksOK ==
  /\ phase \in [Turn -> {"open", "queued", "done"}]
  /\ live \in [Session -> Seq(Turn)]
  /\ ender \in [at : {"scan", "recall", "diagnosis"},
                session : Session, turns : Seq(Turn)]
AnnouncedOK == announced \in SUBSET Session
QueueOK == queue \in Seq(Command)
WriterOK ==
  writer \in {"recv", "request", "number", "snapshot", "totals", "announce", "dead"}
TurnNumberOK == turn_number \in Number
Pass == [at : {"rest", "summaries", "summary", "candidates", "diagnose",
               "lookup", "insert"},
         todo : SUBSET Session, undiagnosed : SUBSET Session,
         unrecalled : SUBSET Session, session : Session,
         turns : SUBSET Turn, summary : Turn \cup {Blank}]
RepairOK == repair \in Pass
ReviewOK ==
  review \in [at : {"rest", "write"}, session : Session, turns : SUBSET Turn]
LedgerOK ==
  /\ known \in SUBSET Session /\ count \in [Session -> Nat]
  /\ ended \in [Session -> {"null", "recent", "idle"}]
  /\ rows \in Seq(Turn)
  /\ snapshots \in SUBSET [row : 1..Len(rows), number : Nat \ {0}, read : BOOLEAN]
  /\ aged \in 0..Len(rows)
ArtifactsOK ==
  /\ diagnosis \in [Session -> SUBSET Turn]
  /\ recall \in [Session -> Turn \cup {NoRecall, Blank}]
ReadyOK ==
  ready \subseteq [session : Session, turns : SUBSET Turn, life : SUBSET Turn]
DamagedOK == damaged \in SUBSET Turn
FaultsOK == faults \in 0..MaxFaults

\* They are TypeOK, before and after a step.
LEMMA TypeParts ==
  /\ TypeOK <=> /\ TasksOK /\ AnnouncedOK /\ QueueOK /\ WriterOK /\ RepairOK
                /\ ReviewOK /\ LedgerOK /\ ArtifactsOK /\ ReadyOK
                /\ DamagedOK /\ FaultsOK /\ TurnNumberOK
  /\ TypeOK' <=> /\ TasksOK' /\ AnnouncedOK' /\ QueueOK' /\ WriterOK'
                 /\ RepairOK' /\ ReviewOK' /\ LedgerOK' /\ ArtifactsOK'
                 /\ ReadyOK' /\ DamagedOK' /\ FaultsOK' /\ TurnNumberOK'
<1>1. TypeOK <=> /\ TasksOK /\ AnnouncedOK /\ QueueOK /\ WriterOK /\ RepairOK
                /\ ReviewOK /\ LedgerOK /\ ArtifactsOK /\ ReadyOK
                /\ DamagedOK /\ FaultsOK /\ TurnNumberOK
  BY Zenon DEF TypeOK, TasksOK, AnnouncedOK, QueueOK, WriterOK, Pass, RepairOK,
     ReviewOK, LedgerOK, ArtifactsOK, ReadyOK, DamagedOK, FaultsOK, TurnNumberOK
<1>2. TypeOK' <=> /\ TasksOK' /\ AnnouncedOK' /\ QueueOK' /\ WriterOK'
                 /\ RepairOK' /\ ReviewOK' /\ LedgerOK' /\ ArtifactsOK'
                 /\ ReadyOK' /\ DamagedOK' /\ FaultsOK' /\ TurnNumberOK'
  BY Zenon DEF TypeOK, TasksOK, AnnouncedOK, QueueOK, WriterOK, Pass, RepairOK,
     ReviewOK, LedgerOK, ArtifactsOK, ReadyOK, DamagedOK, FaultsOK, TurnNumberOK
<1>. QED
  BY <1>1, <1>2

\* A step that leaves each part alone, or leaves it well typed, keeps TypeOK.
LEMMA TypeFrame ==
  ASSUME TypeOK,
         UNCHANGED <<phase, live, ender>> \/ TasksOK',
         UNCHANGED announced \/ AnnouncedOK',
         UNCHANGED queue \/ QueueOK',
         UNCHANGED writer \/ WriterOK',
         UNCHANGED turn_number \/ TurnNumberOK',
         UNCHANGED repair \/ RepairOK',
         UNCHANGED review \/ ReviewOK',
         UNCHANGED <<known, count, ended, rows, snapshots, aged>> \/ LedgerOK',
         UNCHANGED <<diagnosis, recall>> \/ ArtifactsOK',
         UNCHANGED ready \/ ReadyOK',
         UNCHANGED damaged \/ DamagedOK',
         UNCHANGED faults \/ FaultsOK'
  PROVE  TypeOK'
<1>0. /\ TasksOK /\ AnnouncedOK /\ QueueOK /\ WriterOK /\ RepairOK /\ ReviewOK
      /\ LedgerOK /\ ArtifactsOK /\ ReadyOK /\ DamagedOK /\ FaultsOK /\ TurnNumberOK
  BY TypeParts
<1>1. TasksOK' BY <1>0 DEF TasksOK
<1>2. AnnouncedOK' BY <1>0 DEF AnnouncedOK
<1>3. QueueOK' BY <1>0 DEF QueueOK
<1>4. WriterOK' BY <1>0 DEF WriterOK
<1>5. RepairOK' BY <1>0 DEF RepairOK
<1>6. ReviewOK' BY <1>0 DEF ReviewOK
<1>7. LedgerOK' BY <1>0 DEF LedgerOK
<1>8. ArtifactsOK' BY <1>0 DEF ArtifactsOK
<1>9. ReadyOK' BY <1>0 DEF ReadyOK
<1>10. DamagedOK' BY <1>0 DEF DamagedOK
<1>11. FaultsOK' BY <1>0 DEF FaultsOK
<1>12. TurnNumberOK' BY <1>0 DEF TurnNumberOK
<1>. QED
  BY <1>1, <1>2, <1>3, <1>4, <1>5, <1>6, <1>7, <1>8, <1>9, <1>10, <1>11, <1>12, TypeParts

-----------------------------------------------------------------------------
(* The greatest number of a set.                                           *)

Below == OpToRel(<, Nat)

\* The order of the naturals as a relation is the one of arithmetic.
LEMMA BelowIsLess == \A x, y \in Nat : <<x, y>> \in Below <=> x < y
  BY Zenon DEF Below, OpToRel

\* There is no infinite descent in it.
LEMMA BelowIsWellFounded == IsWellFoundedOn(Below, Nat)
  BY Zenon, NatLessThanWellFounded DEF Below

\* A bounded set of naturals has a greatest element: the MAX of a query.
LEMMA MaxExists ==
  ASSUME NEW S \in SUBSET Nat, S # {}, NEW b \in Nat, \A n \in S : n <= b
  PROVE  \E m \in S : \A n \in S : n <= m
<1> DEFINE T == {b - n : n \in S}
<1>1. T \in SUBSET Nat
  OBVIOUS
<1>2. T # {}
  BY S # {}
<1>3. PICK x \in T : \A y \in T : ~ (<<y, x>> \in Below)
  <2>. HIDE DEF T
  <2>. QED BY <1>1, <1>2, BelowIsWellFounded, WFMin
<1>4. \A y \in T : ~ (y < x)
  BY <1>3, <1>1, BelowIsLess
<1>5. PICK m \in S : x = b - m
  BY <1>3
<1>6. ASSUME NEW n \in S PROVE n <= m
  <2>1. ~ (b - n < x)
    BY <1>4
  <2>. QED BY ONLY <2>1, <1>5, n \in S, m \in S, S \in SUBSET Nat, b \in Nat
<1>. QED
  BY <1>6

\* Any snapshots include one with the highest turn number.
LEMMA HighestSnapshot ==
  ASSUME TypeOK, NumberInv, NEW X \in SUBSET snapshots, X # {}
  PROVE  \E x \in X : \A y \in X : y.number <= x.number
<1> DEFINE S == {x.number : x \in X}
<1>1. S \in SUBSET Nat /\ Len(rows) \in Nat
  BY TypeParts DEF LedgerOK
<1>2. S # {}
  BY X # {}
<1>3. \A n \in S : n <= Len(rows)
  <2>1. \A x \in X : x.number \in Nat /\ x.row \in 1..Len(rows) /\ x.number <= x.row
    BY TypeParts DEF LedgerOK, NumberInv
  <2>. QED BY <2>1, <1>1
<1>4. PICK m \in S : \A n \in S : n <= m
  <2>. HIDE DEF S
  <2>. QED BY <1>1, <1>2, <1>3, MaxExists
<1>5. PICK x \in X : m = x.number
  BY <1>4
<1>. QED
  BY <1>4, <1>5

\* And one that is up to all of them in the order of the queries.
LEMMA LastSnapshot ==
  ASSUME TypeOK, NumberInv, NEW X \in SUBSET snapshots, X # {}
  PROVE  \E x \in X : \A y \in X : UpTo(y, x)
<1>0. /\ Len(rows) \in Nat
      /\ \A x \in X : x.number \in Nat /\ x.row \in 1..Len(rows)
  BY TypeParts DEF LedgerOK
<1>1. PICK h \in X : \A y \in X : y.number <= h.number
  BY HighestSnapshot
<1> DEFINE S == {x.row : x \in {y \in X : y.number = h.number}}
<1>2. S \in SUBSET Nat /\ S # {} /\ \A n \in S : n <= Len(rows)
  BY <1>0
<1>3. PICK m \in S : \A n \in S : n <= m
  <2>. HIDE DEF S
  <2>. QED BY <1>0, <1>2, MaxExists
<1>4. PICK x \in X : x.number = h.number /\ x.row = m
  BY <1>3
<1>5. ASSUME NEW y \in X PROVE UpTo(y, x)
  <2>1. y.number = h.number => y.row <= x.row
    BY <1>3, <1>4
  <2>. QED BY <1>0, <1>1, <1>4, <2>1 DEF UpTo
<1>. QED
  BY <1>5

\* COALESCE(MAX(turn_number), 0) + 1 is above every number of the session, and
\* no higher than its row when that is the last one.
LEMMA NextNumberAbove ==
  ASSUME TypeOK, NumberInv, NEW s \in Session
  PROVE  /\ NextNumber(s) \in Nat \ {0}
         /\ \A x \in SnapshotsOf(s) : x.number < NextNumber(s)
         /\ (rows # <<>> /\ \A x \in snapshots : x.row # Len(rows)) =>
              NextNumber(s) <= Len(rows)
<1>1. CASE SnapshotsOf(s) = {}
  <2>1. NextNumber(s) = 1
    BY <1>1 DEF NextNumber
  <2>2. rows # <<>> => Len(rows) >= 1
    BY EmptySeq DEF TypeOK
  <2>. QED BY <2>1, <2>2, <1>1
<1>2. CASE SnapshotsOf(s) # {}
  <2> DEFINE x == CHOOSE z \in SnapshotsOf(s) :
                    \A y \in SnapshotsOf(s) : y.number <= z.number
  <2>1. SnapshotsOf(s) \in SUBSET snapshots
    BY DEF SnapshotsOf
  <2>2. x \in SnapshotsOf(s) /\ \A y \in SnapshotsOf(s) : y.number <= x.number
    BY <1>2, <2>1, HighestSnapshot
  <2>3. NextNumber(s) = x.number + 1
    BY <1>2 DEF NextNumber
  <2>. HIDE DEF x
  <2>4. x.number \in Nat /\ x.row \in 1..Len(rows) /\ x.number <= x.row
    BY <2>1, <2>2 DEF TypeOK, NumberInv
  <2>5. \A y \in SnapshotsOf(s) : y.number \in Nat
    BY <2>1 DEF TypeOK
  <2>6. (\A y \in snapshots : y.row # Len(rows)) => x.row # Len(rows)
    BY <2>1, <2>2
  <2>7. Len(rows) \in Nat
    BY DEF TypeOK
  <2>. QED BY <2>2, <2>3, <2>4, <2>5, <2>6, <2>7
<1>. QED
  BY <1>1, <1>2

\* The latest summary of a session is one of its turns, or there is none.
LEMMA LatestIsATurn ==
  ASSUME TypeOK, NumberInv, NEW s \in Session
  PROVE  Latest(s) \in Turn \cup {Blank}
<1> DEFINE told == {x \in SnapshotsOf(s) : rows[x.row] \in Summarised}
           last == CHOOSE x \in told : \A y \in told : UpTo(y, x)
<1>1. CASE told = {}
  BY <1>1 DEF Latest
<1>2. CASE told # {}
  <2>1. told \in SUBSET snapshots
    BY DEF SnapshotsOf
  <2>2. last \in told
    <3>. HIDE DEF told
    <3>. QED BY <1>2, <2>1, LastSnapshot
  <2>3. rows[last.row] \in Turn
    BY <2>1, <2>2 DEF TypeOK
  <2>. QED BY <1>2, <2>3 DEF Latest
<1>. QED
  BY <1>1, <1>2

\* The summary end_session picks from a life is one of its turns, or none.
LEMMA LastSummaryIsATurn ==
  ASSUME NEW turns \in Seq(Turn)
  PROVE  LastSummary(turns) \in Turn \cup {Blank}
<1> DEFINE told == {i \in DOMAIN turns : turns[i] \in Summarised}
           last == CHOOSE i \in told : \A j \in told : j <= i
<1>1. CASE told = {}
  BY <1>1 DEF LastSummary
<1>2. CASE told # {}
  <2>1. told \in SUBSET Nat /\ Len(turns) \in Nat /\ \A i \in told : i <= Len(turns)
    BY LenProperties
  <2>2. last \in told
    <3>. HIDE DEF told
    <3>. QED BY <1>2, <2>1, MaxExists
  <2>3. turns[last] \in Turn
    BY <2>2, ElementOfSeq, LenProperties
  <2>. QED BY <1>2, <2>3 DEF LastSummary
<1>. QED
  BY <1>1, <1>2

-----------------------------------------------------------------------------
(* The queue, whose head the writer executes.                              *)

\* A command that is sent goes behind the one the writer executes.
LEMMA SendKeepsHead ==
  ASSUME TypeOK, QueueInv, NEW cmd \in Command,
         cmd.op = "turn" => \E t \in Turn : cmd = TurnCommand(t),
         Send(cmd)
  PROVE  /\ queue' \in Seq(Command) /\ QueueInv'
         /\ queue # <<>> => queue' # <<>> /\ Head(queue') = Head(queue)
<1>1. queue \in Seq(Command)
  BY DEF TypeOK
<1>2. CASE queue' = queue
  BY <1>1, <1>2 DEF QueueInv, TurnCommand
<1>3. CASE queue' = Append(queue, cmd)
  <2>1. /\ queue' \in Seq(Command) /\ Len(queue') = Len(queue) + 1
        /\ \A i \in 1..Len(queue) : queue'[i] = queue[i]
        /\ queue'[Len(queue) + 1] = cmd
    BY <1>1, <1>3, AppendProperties
  <2>2. QueueInv'
    BY <1>1, <2>1 DEF QueueInv, TurnCommand
  <2>3. ASSUME queue # <<>> PROVE queue' # <<>> /\ Head(queue') = Head(queue)
    BY <1>1, <2>1, <2>3, EmptySeq
  <2>. QED BY <2>1, <2>2, <2>3
<1>. QED
  BY <1>2, <1>3 DEF Send

\* The command at the head is what the writer's step says it is.
LEMMA HeadIsExecuted ==
  ASSUME TypeOK, QueueInv
  PROVE  /\ queue # <<>> => Head(queue) \in Command /\ Target \in Session
         /\ Executing("turn") => /\ Recorded \in Turn
                                 /\ Head(queue) = TurnCommand(Recorded)
                                 /\ Target = SessionOf[Recorded]
<1>1. queue \in Seq(Command)
  BY DEF TypeOK
<1>2. ASSUME queue # <<>>
      PROVE  1 \in DOMAIN queue /\ Head(queue) = queue[1] /\ Head(queue) \in Command
  BY <1>1, <1>2, EmptySeq
<1>3. ASSUME Executing("turn") PROVE \E t \in Turn : Head(queue) = TurnCommand(t)
  BY <1>2, <1>3 DEF Executing, QueueInv
<1>. QED
  BY <1>2, <1>3 DEF Target, Recorded, TurnCommand, Command, Executing

\* The writer keeps the command, or takes it off the queue.
LEMMA GotoMovesQueue ==
  ASSUME TypeOK, QueueInv, queue # <<>>, NEW step, Goto(step)
  PROVE  /\ queue' \in Seq(Command) /\ QueueInv' /\ writer' = step
         /\ step # "recv" => queue' = queue
<1>1. queue \in Seq(Command)
  BY DEF TypeOK
<1>2. CASE queue' = queue
  BY <1>1, <1>2 DEF Goto, QueueInv, TurnCommand
<1>3. CASE queue' = Tail(queue)
  <2>1. queue' \in Seq(Command) /\ \A i \in DOMAIN queue' :
          i + 1 \in DOMAIN queue /\ queue'[i] = queue[i + 1]
    BY <1>1, <1>3
  <2>. QED BY <2>1, <1>3 DEF Goto, QueueInv, TurnCommand
<1>. QED
  BY <1>2, <1>3 DEF Goto

\* What the other actors do leaves the writer's command and row alone.
LEMMA WriterFrame ==
  ASSUME BaseInv, TypeOK', QueueInv', UNCHANGED <<writer, turn_number, rows, snapshots>>,
         queue # <<>> => queue' # <<>> /\ Head(queue') = Head(queue)
  PROVE  BaseInv'
<1>1. NumberInv'
  BY DEF BaseInv, NumberInv
<1>2. \A op : Executing(op) => /\ Executing(op)' /\ Recorded' = Recorded
                               /\ Target' = Target
  BY DEF Executing, Recorded, Target
<1>3. WriterInv'
  BY <1>2 DEF BaseInv, WriterInv
<1>4. HeldNumberInv'
  BY <1>2 DEF BaseInv, WriterInv, HeldNumberInv, SnapshotsOf
<1>. QED
  BY <1>1, <1>3, <1>4 DEF BaseInv

\* Nor do they when they leave the queue alone.
LEMMA Frame ==
  ASSUME BaseInv, TypeOK', UNCHANGED <<queue, writer, turn_number, rows, snapshots>>
  PROVE  BaseInv'
<1>1. QueueInv'
  BY DEF BaseInv, QueueInv, TurnCommand
<1>. QED
  BY <1>1, WriterFrame

-----------------------------------------------------------------------------
(* Every step keeps BaseInv.                                               *)

\* The faults stay within their bound.
LEMMA OutcomeIsBounded ==
  ASSUME TypeOK, NEW ok, Outcome(ok)
  PROVE  faults' \in 0..MaxFaults
BY FaultsAssumption DEF TypeOK, Outcome

\* What the tasks and the monitor queue is a command.
LEMMA CommandsAreCommands ==
  ASSUME TypeOK
  PROVE  /\ \A t \in Turn : TurnCommand(t) \in Command
         /\ \A op \in {"recall", "diagnosis"} :
              EndCommand(op) \in Command /\ EndCommand(op).op # "turn"
<1>1. \A t \in Turn : <<t>> \in Seq(Turn) /\ SessionOf[t] \in Session
  BY TurnAssumption
<1>2. ender.session \in Session /\ ender.turns \in Seq(Turn)
  BY DEF TypeOK
<1>. QED
  BY <1>1, <1>2 DEF TurnCommand, EndCommand, Command

\* The tasks, the monitor and the retention pass.
LEMMA TasksKeepBase ==
  ASSUME BaseInv,
         \/ \E t \in Turn : Persist(t) \/ Remember(t)
         \/ \E s \in Session : TakeTurns(s) \/ Timeout(s)
         \/ SendRecall \/ SendDiagnosis
         \/ \E n \in 1..Len(rows) : Age(n)
  PROVE  BaseInv'
<1>. USE DEF BaseInv
<1>1. ASSUME NEW t \in Turn, Persist(t) PROVE BaseInv'
  <2>1. TurnCommand(t) \in Command /\ Send(TurnCommand(t))
    BY <1>1, CommandsAreCommands DEF Persist
  <2>2. /\ queue' \in Seq(Command) /\ QueueInv'
        /\ queue # <<>> => queue' # <<>> /\ Head(queue') = Head(queue)
    BY <2>1, SendKeepsHead
  <2>3. TasksOK' /\ DamagedOK'
    BY <1>1, TypeParts DEF TasksOK, DamagedOK, Persist
  <2>4. TypeOK'
    BY <1>1, <2>2, <2>3, TypeFrame DEF Persist, readers, tables, QueueOK
  <2>. QED BY <1>1, <2>2, <2>4, WriterFrame DEF Persist, tables
<1>2. ASSUME NEW t \in Turn, Remember(t) PROVE BaseInv'
  <2>1. live' \in [Session -> Seq(Turn)]
    <3>1. SessionOf[t] \in Session /\ live \in [Session -> Seq(Turn)]
      BY TurnAssumption DEF TypeOK
    <3>2. Append(live[SessionOf[t]], t) \in Seq(Turn)
      BY <3>1
    <3>. QED BY <1>2, <3>1, <3>2 DEF Remember
  <2>2. TasksOK'
    BY <1>2, <2>1, TypeParts DEF TasksOK, Remember
  <2>3. TypeOK'
    BY <1>2, <2>2, TypeFrame DEF Remember, readers, tables, ghosts
  <2>. QED BY <1>2, <2>3, Frame DEF Remember, tables
<1>3. ASSUME NEW s \in Session, TakeTurns(s) PROVE BaseInv'
  <2>1. TasksOK'
    BY <1>3, <<>> \in Seq(Turn), TypeParts DEF TasksOK, TakeTurns
  <2>2. TypeOK'
    BY <1>3, <2>1, TypeFrame DEF TakeTurns, readers, tables, ghosts
  <2>. QED BY <1>3, <2>2, Frame DEF TakeTurns, tables
<1>4. ASSUME NEW s \in Session, Timeout(s) PROVE BaseInv'
  <2>1. LedgerOK'
    BY <1>4, TypeParts DEF LedgerOK, Timeout
  <2>2. TypeOK'
    BY <1>4, <2>1, TypeFrame DEF Timeout, tasks, readers, ghosts
  <2>. QED BY <1>4, <2>2, Frame DEF Timeout
<1>5. CASE SendRecall
  <2>1. /\ queue' \in Seq(Command) /\ QueueInv'
        /\ queue # <<>> => queue' # <<>> /\ Head(queue') = Head(queue)
    <3>1. CASE UNCHANGED queue
      BY <3>1 DEF TypeOK, QueueInv, TurnCommand
    <3>2. CASE Send(EndCommand("recall"))
      BY <3>2, CommandsAreCommands, SendKeepsHead
    <3>. QED BY <1>5, <3>1, <3>2 DEF SendRecall
  <2>2. TasksOK'
    BY <1>5, TypeParts DEF TasksOK, SendRecall
  <2>3. TypeOK'
    BY <1>5, <2>1, <2>2, TypeFrame DEF SendRecall, readers, tables, ghosts, QueueOK
  <2>. QED BY <1>5, <2>1, <2>3, WriterFrame DEF SendRecall, tables
<1>6. CASE SendDiagnosis
  <2>1. /\ queue' \in Seq(Command) /\ QueueInv'
        /\ queue # <<>> => queue' # <<>> /\ Head(queue') = Head(queue)
    BY <1>6, CommandsAreCommands, SendKeepsHead DEF SendDiagnosis
  <2>2. TasksOK'
    BY <1>6, <<>> \in Seq(Turn), TypeParts DEF TasksOK, SendDiagnosis
  <2>3. TypeOK'
    BY <1>6, <2>1, <2>2, TypeFrame
    DEF SendDiagnosis, readers, tables, ghosts, QueueOK
  <2>. QED BY <1>6, <2>1, <2>3, WriterFrame DEF SendDiagnosis, tables
<1>7. ASSUME NEW n \in 1..Len(rows), Age(n) PROVE BaseInv'
  <2>1. LedgerOK'
    BY <1>7, TypeParts DEF LedgerOK, Age, tables
  <2>2. TypeOK'
    BY <1>7, <2>1, TypeFrame DEF Age, tasks, readers, tables, ghosts
  <2>. QED BY <1>7, <2>2, Frame DEF Age, tables
<1>. QED
  BY <1>1, <1>2, <1>3, <1>4, <1>5, <1>6, <1>7

\* The readers write only the diagnoses and the recalls.
LEMMA ReadersKeepBase ==
  ASSUME BaseInv,
         \/ \E s \in Session : LoadReview(s)
         \/ \E ok \in BOOLEAN : RepairStep(ok) \/ WriteReview(ok)
         \/ RepairRead
  PROVE  BaseInv'
<1>. USE DEF BaseInv
<1>0. \A s \in Session : StoredTurns(s) \in SUBSET Turn
  <2>1. /\ \A i \in 1..Len(rows) : rows[i] \in Turn
        /\ \A x \in snapshots : x.row \in 1..Len(rows)
    BY TypeParts DEF LedgerOK
  <2>. QED BY ONLY <2>1 DEF StoredTurns, SnapshotsOf
<1>1. ASSUME NEW s \in Session, LoadReview(s) PROVE BaseInv'
  <2>1. ReviewOK'
    BY <1>0, <1>1 DEF ReviewOK, LoadReview
  <2>2. TypeOK'
    BY <1>1, <2>1, TypeFrame DEF LoadReview, tasks, tables, ghosts
  <2>. QED BY <1>1, <2>2, Frame DEF LoadReview, tables
<1>2. ASSUME NEW ok \in BOOLEAN, WriteReview(ok) PROVE BaseInv'
  <2>1. diagnosis' \in [Session -> SUBSET Turn] /\ faults' \in 0..MaxFaults
    <3>1. diagnosis' = diagnosis \/
          diagnosis' = [diagnosis EXCEPT ![review.session] = review.turns]
      BY <1>2 DEF WriteReview
    <3>. QED BY <1>2, <3>1, OutcomeIsBounded DEF TypeOK, WriteReview
  <2>2. ReviewOK' /\ ArtifactsOK' /\ FaultsOK'
    BY <1>2, <2>1, TypeParts DEF ReviewOK, ArtifactsOK, FaultsOK, WriteReview
  <2>3. TypeOK'
    BY <1>2, <2>2, TypeFrame DEF WriteReview, tasks, ledger
  <2>. QED BY <1>2, <2>3, Frame DEF WriteReview, ledger
<1>3. ASSUME NEW ok \in BOOLEAN, RepairStep(ok) PROVE BaseInv'
  <2>1. RepairUnchanged
    BY <1>3 DEF RepairStep, UpdateSummary, RepairDiagnosis, RepairRecall
  <2>2. RepairOK'
    <3>1. repair \in Pass
      BY TypeParts DEF RepairOK
    <3>. QED BY <1>3, <3>1 DEF RepairOK, Pass, RepairStep, UpdateSummary,
                RepairDiagnosis, RepairRecall, AfterDiagnosis
  <2>3. /\ diagnosis' \in [Session -> SUBSET Turn]
        /\ recall' \in [Session -> Turn \cup {NoRecall, Blank}]
        /\ faults' \in 0..MaxFaults
    <3>. DEFINE updated == [recall EXCEPT ![repair.session] = repair.summary]
                replaced == [diagnosis EXCEPT ![repair.session] = repair.turns]
    <3>1. faults' \in 0..MaxFaults
      BY <1>3, OutcomeIsBounded
      DEF RepairStep, UpdateSummary, RepairDiagnosis, RepairRecall
    <3>2. /\ repair.session \in Session /\ repair.turns \in SUBSET Turn
          /\ repair.summary \in Turn \cup {Blank}
          /\ diagnosis \in [Session -> SUBSET Turn]
          /\ recall \in [Session -> Turn \cup {NoRecall, Blank}]
      BY DEF TypeOK
    <3>3. CASE UpdateSummary(ok) \/ RepairRecall(ok)
      <4>. (recall' = recall \/ recall' = updated) /\ UNCHANGED diagnosis
        BY <3>3 DEF UpdateSummary, RepairRecall
      <4>. QED BY <3>1, <3>2, <3>3
    <3>4. CASE RepairDiagnosis(ok)
      <4>. (diagnosis' = diagnosis \/ diagnosis' = replaced) /\ UNCHANGED recall
        BY <3>4 DEF RepairDiagnosis
      <4>. QED BY <3>1, <3>2, <3>4
    <3>. QED BY <1>3, <3>3, <3>4 DEF RepairStep
  <2>4. TypeOK'
    BY <2>1, <2>2, <2>3, TypeFrame
    DEF ArtifactsOK, FaultsOK, RepairUnchanged, tasks, ledger
  <2>. QED BY <2>1, <2>4, Frame DEF RepairUnchanged, ledger
<1>4. CASE RepairRead
  <2>1. RepairUnchanged /\ UNCHANGED <<diagnosis, recall, faults>>
    BY <1>4 DEF RepairRead, StartRepair, FindCandidates, LookUpRecall,
                FinishRepair, LookUpSummary, LoadTurns
  <2>2. \A s \in Session : Latest(s) \in Turn \cup {Blank}
    BY LatestIsATurn
  <2>3. repair' \in Pass
    <3>. USE DEF Pass
    <3>0. repair \in Pass
      BY DEF TypeOK
    <3>1. CASE StartRepair
      BY <3>0, <3>1 DEF StartRepair
    <3>2. CASE FindCandidates
      BY <3>0, <3>2 DEF FindCandidates
    <3>4. CASE LookUpRecall
      <4>1. Latest(repair.session) \in Turn \cup {Blank}
        BY <3>0, <2>2
      <4>. QED BY <3>0, <3>4, <4>1 DEF LookUpRecall
    <3>5. CASE FinishRepair
      BY <3>0, <3>5 DEF FinishRepair, AtRest
    <3>3. ASSUME NEW s \in Session, LookUpSummary(s) \/ LoadTurns(s)
          PROVE  repair' \in Pass
      <4>1. CASE LookUpSummary(s)
        BY <3>0, <4>1, <2>2 DEF LookUpSummary
      <4>2. CASE LoadTurns(s)
        <5>1. StoredTurns(s) \in SUBSET Turn
          BY <1>0
        <5>2. AfterDiagnosis(s) \in {"lookup", "candidates"}
          BY DEF AfterDiagnosis
        <5>. QED BY <3>0, <4>2, <5>1, <5>2 DEF LoadTurns
      <4>. QED BY <3>3, <4>1, <4>2
    <3>. QED BY <1>4, <3>1, <3>2, <3>3, <3>4, <3>5 DEF RepairRead
  <2>4. TypeOK'
    BY <2>1, <2>3, TypeFrame DEF RepairOK, RepairUnchanged, tasks, ledger
  <2>. QED BY <2>1, <2>4, Frame DEF RepairUnchanged, ledger
<1>. QED
  BY <1>1, <1>2, <1>3, <1>4

\* The statements of a RecordCodexTurn command.
LEMMA RecordingKeepsBase ==
  ASSUME BaseInv, NEW ok \in BOOLEAN,
         \/ InsertSession(ok) \/ InsertRequest(ok) \/ ReadNumber(ok)
         \/ InsertSnapshot(ok) \/ UpdateTotals(ok)
  PROVE  BaseInv'
<1>. USE DEF BaseInv
<1>1. /\ Executing("turn") /\ queue # <<>> /\ Outcome(ok)
      /\ Recorded \in Turn /\ Target \in Session
  <2>1. Executing("turn") /\ Outcome(ok)
    BY DEF InsertSession, InsertRequest, ReadNumber, InsertSnapshot, UpdateTotals,
           WriterInv
  <2>. QED BY <2>1, HeadIsExecuted DEF Executing
<1>2. faults' \in 0..MaxFaults
  BY <1>1, OutcomeIsBounded
<1>3. rows \in Seq(Turn) /\ Len(rows) \in Nat
  BY DEF TypeOK
<1>4. CASE InsertSession(ok)
  <2>1. Goto("request")
    BY <1>4 DEF InsertSession
  <2>2. queue' = queue /\ writer' = "request"
    BY <1>1, <2>1, GotoMovesQueue
  <2>3. TypeOK'
    <3>1. LedgerOK' /\ WriterOK'
      BY <1>1, <1>4, <2>2, TypeParts DEF LedgerOK, WriterOK, InsertSession
    <3>. QED BY <1>2, <1>4, <2>2, <3>1, TypeFrame
             DEF FaultsOK, InsertSession, tasks, readers
  <2>4. QueueInv'
    BY <2>2 DEF QueueInv, TurnCommand
  <2>5. WriterInv' /\ NumberInv' /\ HeldNumberInv'
    BY <1>1, <1>4, <2>2
    DEF InsertSession, WriterInv, NumberInv, HeldNumberInv, Executing
  <2>. QED BY <2>3, <2>4, <2>5
<1>5. CASE InsertRequest(ok)
  <2> DEFINE inserted == ok /\ Target \in known /\ ~ Duplicate(Recorded)
  <2>1. /\ queue' \in Seq(Command) /\ QueueInv'
        /\ inserted => writer' = "number" /\ queue' = queue
        /\ ~ inserted => writer' = "recv"
    <3>1. Goto(IF inserted THEN "number" ELSE "recv")
      BY <1>5 DEF InsertRequest
    <3>. QED BY <1>1, <3>1, GotoMovesQueue
  <2>2. /\ inserted => rows' = Append(rows, Recorded)
        /\ ~ inserted => rows' = rows
        /\ snapshots' = snapshots
        /\ damaged' = damaged \/ damaged' = damaged \cup {Recorded}
    BY <1>5 DEF InsertRequest
  <2>. HIDE DEF inserted
  <2>3. /\ rows' \in Seq(Turn) /\ Len(rows') \in Nat
        /\ \A i \in 1..Len(rows) : i \in 1..Len(rows') /\ rows'[i] = rows[i]
        /\ inserted => /\ Len(rows') = Len(rows) + 1
                       /\ rows'[Len(rows) + 1] = Recorded
    BY <1>1, <1>3, <2>2, AppendProperties
  <2>4. /\ snapshots' \in SUBSET [row : 1..Len(rows'), number : Nat \ {0}, read : BOOLEAN]
        /\ aged \in 0..Len(rows')
    BY <1>3, <2>2, <2>3, TypeParts DEF LedgerOK
  <2>5. TypeOK'
    <3>1. LedgerOK'
      BY <1>5, <2>3, <2>4, TypeParts DEF LedgerOK, InsertRequest
    <3>2. DamagedOK'
      BY <1>1, <2>2, TypeParts DEF DamagedOK
    <3>. QED BY <1>2, <1>5, <2>1, <3>1, <3>2, TypeFrame
             DEF FaultsOK, QueueOK, WriterOK, InsertRequest, tasks, readers
  <2>6. inserted => rows' # <<>> /\ \A x \in snapshots' : x.row # Len(rows')
    <3>1. \A x \in snapshots' : x.row \in 1..Len(rows)
      BY <2>2 DEF TypeOK
    <3>. QED BY <1>3, <2>3, <3>1, EmptySeq
  <2>7. WriterInv' /\ NumberInv' /\ HeldNumberInv'
    BY <1>1, <1>3, <2>1, <2>2, <2>3, <2>6
    DEF WriterInv, NumberInv, HeldNumberInv, Executing, Recorded
  <2>. QED BY <2>1, <2>5, <2>7
<1>8. CASE ReadNumber(ok)
  <2>1. Goto("snapshot")
    BY <1>8 DEF ReadNumber
  <2>2. queue' = queue /\ writer' = "snapshot" /\ UNCHANGED <<rows, snapshots>>
    BY <1>1, <1>8, <2>1, GotoMovesQueue DEF ReadNumber, tables
  <2>3. rows # <<>> /\ rows[Len(rows)] = Recorded /\ \A x \in snapshots : x.row # Len(rows)
    BY <1>8 DEF ReadNumber, WriterInv
  <2>4. /\ NextNumber(Target) \in Nat \ {0} /\ NextNumber(Target) <= Len(rows)
        /\ \A x \in SnapshotsOf(Target) : x.number < NextNumber(Target)
    BY <1>1, <2>3, NextNumberAbove
  <2>5. Len(rows) >= 1
    BY <1>3, <2>3, EmptySeq
  <2>6. turn_number' = [number |-> IF ok THEN NextNumber(Target) ELSE 1, read |-> ok]
    BY <1>8 DEF ReadNumber
  <2>7. /\ turn_number' \in Number /\ turn_number'.number <= Len(rows)
        /\ turn_number'.read => turn_number'.number = NextNumber(Target)
        /\ ~ turn_number'.read => turn_number'.number = 1
    BY <2>4, <2>5, <2>6 DEF Number
  <2>8. TypeOK'
    BY <1>2, <1>8, <2>2, <2>7, TypeFrame
    DEF FaultsOK, WriterOK, TurnNumberOK, ReadNumber, tasks, readers, tables
  <2>9. QueueInv' /\ WriterInv' /\ NumberInv'
    BY <1>1, <2>2, <2>3
    DEF QueueInv, TurnCommand, WriterInv, NumberInv, Executing, Recorded
  <2>10. Target' = Target /\ SnapshotsOf(Target)' = SnapshotsOf(Target)
    BY <2>2 DEF Target, SnapshotsOf
  <2>11. HeldNumberInv'
    BY <2>2, <2>4, <2>7, <2>10 DEF HeldNumberInv
  <2>. QED BY <2>8, <2>9, <2>11
<1>6. CASE InsertSnapshot(ok)
  <2>1. Goto("totals")
    BY <1>6 DEF InsertSnapshot
  <2>2. queue' = queue /\ writer' = "totals"
    BY <1>1, <2>1, GotoMovesQueue
  <2>3. rows # <<>> /\ rows[Len(rows)] = Recorded /\ \A x \in snapshots : x.row # Len(rows)
    BY <1>6 DEF InsertSnapshot, WriterInv
  <2>4. turn_number \in Number /\ turn_number.number <= Len(rows)
    BY <1>6 DEF InsertSnapshot, HeldNumberInv, TypeOK
  <2>5. Len(rows) \in 1..Len(rows)
    BY <1>3, <2>3, EmptySeq
  <2>6. \A x \in snapshots' :
          \/ x \in snapshots
          \/ x = [row |-> Len(rows), number |-> turn_number.number,
                  read |-> turn_number.read]
    BY <1>6 DEF InsertSnapshot
  <2>7. rows' = rows /\ damaged' \in SUBSET Turn
    BY <1>1, <1>6 DEF InsertSnapshot, TypeOK
  <2>8. /\ snapshots' \in SUBSET [row : 1..Len(rows'), number : Nat \ {0}, read : BOOLEAN]
        /\ NumberInv'
    BY <2>4, <2>5, <2>6, <2>7 DEF TypeOK, NumberInv, Number
  <2>9. TypeOK'
    <3>1. LedgerOK'
      BY <1>6, <2>7, <2>8, TypeParts DEF LedgerOK, InsertSnapshot
    <3>. QED BY <1>2, <1>6, <2>2, <2>7, <3>1, TypeFrame
             DEF DamagedOK, FaultsOK, WriterOK, TurnNumberOK, Number, NoNumber,
                 InsertSnapshot, tasks, readers
  <2>10. QueueInv'
    BY <2>2 DEF QueueInv, TurnCommand
  <2>11. WriterInv' /\ HeldNumberInv'
    BY <1>1, <2>2, <2>3, <2>7 DEF WriterInv, HeldNumberInv, Executing, Recorded
  <2>. QED BY <2>8, <2>9, <2>10, <2>11
<1>7. CASE UpdateTotals(ok)
  <2>1. Goto("recv")
    BY <1>7 DEF UpdateTotals
  <2>2. queue' \in Seq(Command) /\ QueueInv' /\ writer' = "recv"
    BY <1>1, <2>1, GotoMovesQueue
  <2>3. /\ count' \in [Session -> Nat]
        /\ ended' \in [Session -> {"null", "recent", "idle"}]
        /\ damaged' \in SUBSET Turn
    <3>1. LedgerOK /\ DamagedOK
      BY TypeParts
    <3>. QED BY <1>1, <1>7, <3>1 DEF UpdateTotals, LedgerOK, DamagedOK
  <2>4. TypeOK'
    <3>1. LedgerOK'
      BY <1>7, <2>3, TypeParts DEF LedgerOK, UpdateTotals
    <3>. QED BY <1>2, <1>7, <2>2, <2>3, <3>1, TypeFrame
             DEF DamagedOK, FaultsOK, QueueOK, WriterOK, UpdateTotals, tasks,
                 readers
  <2>5. WriterInv' /\ NumberInv' /\ HeldNumberInv'
    BY <1>7, <2>2 DEF UpdateTotals, WriterInv, NumberInv, HeldNumberInv
  <2>. QED BY <2>2, <2>4, <2>5
<1>. QED
  BY <1>4, <1>5, <1>6, <1>7, <1>8

\* What follows the turns of a life, and what takes rows or memory away.
LEMMA EndingKeepsBase ==
  ASSUME BaseInv,
         \/ \E ok \in BOOLEAN : WriteRecall(ok) \/ WriteDiagnosis(ok)
         \/ Announce \/ DeleteSnapshots \/ Crash
  PROVE  BaseInv'
<1>. USE DEF BaseInv
<1>0. ASSUME NEW op, Executing(op)
      PROVE  /\ queue # <<>> /\ Target \in Session
             /\ Head(queue).turns \in Seq(Turn)
             /\ Elements(Head(queue).turns) \in SUBSET Turn
  <2>1. queue # <<>> /\ Head(queue) \in Command /\ Target \in Session
    BY <1>0, HeadIsExecuted DEF Executing
  <2>. QED BY <2>1 DEF Command, Elements
<1>1. ASSUME NEW ok \in BOOLEAN, WriteRecall(ok) PROVE BaseInv'
  <2>1. Executing("recall") /\ Goto("recv") /\ Outcome(ok)
    BY <1>1 DEF WriteRecall
  <2>2. queue' \in Seq(Command) /\ QueueInv' /\ writer' = "recv"
    BY <1>0, <2>1, GotoMovesQueue
  <2>3. recall' \in [Session -> Turn \cup {NoRecall, Blank}]
    <3>1. LastSummary(Head(queue).turns) \in Turn \cup {Blank}
      BY <1>0, <2>1, LastSummaryIsATurn
    <3>2. \/ recall' = recall
          \/ recall' = [recall EXCEPT ![Target] = LastSummary(Head(queue).turns)]
      BY <1>1 DEF WriteRecall
    <3>. QED BY <1>0, <2>1, <3>1, <3>2 DEF TypeOK
  <2>4. TypeOK'
    <3>1. ArtifactsOK' /\ FaultsOK'
      BY <1>1, <2>1, <2>3, OutcomeIsBounded, TypeParts
      DEF ArtifactsOK, FaultsOK, WriteRecall
    <3>. QED BY <1>1, <2>2, <3>1, TypeFrame
             DEF QueueOK, WriterOK, WriteRecall, tasks, readers, ledger
  <2>5. WriterInv' /\ NumberInv' /\ HeldNumberInv'
    BY <1>1, <2>2 DEF WriteRecall, WriterInv, NumberInv, HeldNumberInv, ledger
  <2>. QED BY <2>2, <2>4, <2>5
<1>2. ASSUME NEW ok \in BOOLEAN, WriteDiagnosis(ok) PROVE BaseInv'
  <2>1. Executing("diagnosis") /\ Goto("announce") /\ Outcome(ok)
    BY <1>2 DEF WriteDiagnosis
  <2>2. queue' = queue /\ QueueInv' /\ writer' = "announce"
    BY <1>0, <2>1, GotoMovesQueue
  <2>3. diagnosis' \in [Session -> SUBSET Turn]
    <3>1. \/ diagnosis' = diagnosis
          \/ diagnosis' =
               [diagnosis EXCEPT ![Target] = Elements(Head(queue).turns)]
      BY <1>2 DEF WriteDiagnosis
    <3>. QED BY <1>0, <2>1, <3>1 DEF TypeOK
  <2>4. TypeOK'
    <3>1. ArtifactsOK' /\ FaultsOK'
      BY <1>2, <2>1, <2>3, OutcomeIsBounded, TypeParts
      DEF ArtifactsOK, FaultsOK, WriteDiagnosis
    <3>. QED BY <1>2, <2>2, <3>1, TypeFrame
             DEF WriterOK, WriteDiagnosis, tasks, readers, ledger
  <2>5. WriterInv' /\ NumberInv' /\ HeldNumberInv'
    BY <1>2, <2>1, <2>2
    DEF WriteDiagnosis, WriterInv, NumberInv, HeldNumberInv, Executing, ledger
  <2>. QED BY <2>2, <2>4, <2>5
<1>3. CASE Announce
  <2>1. Executing("diagnosis") /\ Goto("recv")
    BY <1>3 DEF Announce, WriterInv
  <2>2. queue' \in Seq(Command) /\ QueueInv' /\ writer' = "recv"
    BY <1>0, <2>1, GotoMovesQueue
  <2>3. ReadyTurns(Target) \in SUBSET Turn
    <3>1. /\ \A i \in 1..Len(rows) : rows[i] \in Turn
          /\ \A x \in snapshots : x.row \in 1..Len(rows)
          /\ DOMAIN rows = 1..Len(rows)
      BY TypeParts DEF LedgerOK
    <3>. QED BY ONLY <3>1 DEF ReadyTurns, StoredTurns, SnapshotsOf, RowsOf
  <2>4. /\ announced' \in SUBSET Session
        /\ ready' \subseteq [session : Session, turns : SUBSET Turn,
                             life : SUBSET Turn]
    <3>1. /\ announced \in SUBSET Session
          /\ ready \subseteq [session : Session, turns : SUBSET Turn,
                              life : SUBSET Turn]
      BY DEF TypeOK
    <3>2. Target \in Session /\ Elements(Head(queue).turns) \in SUBSET Turn
      BY <1>0, <2>1
    <3>. QED BY <1>3, <2>3, <3>1, <3>2 DEF Announce
  <2>5. TypeOK'
    BY <1>3, <2>2, <2>4, TypeFrame
    DEF AnnouncedOK, ReadyOK, QueueOK, WriterOK, Announce, tasks, readers, tables
  <2>6. WriterInv' /\ NumberInv' /\ HeldNumberInv'
    BY <1>3, <2>2 DEF Announce, WriterInv, NumberInv, HeldNumberInv, tables
  <2>. QED BY <2>2, <2>5, <2>6
<1>4. CASE DeleteSnapshots
  <2>1. /\ snapshots' \in SUBSET snapshots
        /\ UNCHANGED <<queue, writer, turn_number, rows>>
    BY <1>4 DEF DeleteSnapshots
  <2>2. TypeOK'
    <3>1. LedgerOK'
      BY <1>4, <2>1, TypeParts DEF LedgerOK, DeleteSnapshots
    <3>. QED BY <1>4, <3>1, TypeFrame DEF DeleteSnapshots, tasks, readers, ghosts
  <2>3. QueueInv' /\ NumberInv'
    BY <2>1 DEF QueueInv, NumberInv, TurnCommand
  <2>4. WriterInv' /\ HeldNumberInv'
    BY <2>1 DEF WriterInv, HeldNumberInv, Executing, Recorded, SnapshotsOf, Target
  <2>. QED BY <2>2, <2>3, <2>4
<1>5. CASE Crash
  <2>1. queue' = <<>> /\ writer' \in {"recv", "dead"} /\ UNCHANGED tables
    BY <1>5 DEF Crash
  <2>2. repair' \in Pass
    <3>1. repair \in Pass
      BY TypeParts DEF RepairOK
    <3>. QED BY <1>5, <3>1 DEF Crash, AtRest, Pass
  <2>3. /\ ender' \in [at : {"scan", "recall", "diagnosis"},
                       session : Session, turns : Seq(Turn)]
        /\ live' \in [Session -> Seq(Turn)] /\ queue' \in Seq(Command)
    BY <1>5, <<>> \in Seq(Turn), <<>> \in Seq(Command) DEF Crash, TypeOK
  <2>4. /\ phase' \in [Turn -> {"open", "queued", "done"}]
        /\ damaged' \in SUBSET Turn /\ announced' = {}
        /\ review' \in [at : {"rest", "write"}, session : Session,
                        turns : SUBSET Turn]
    BY <1>5 DEF Crash, TypeOK
  <2>5. TypeOK'
    <3>1. TasksOK' /\ AnnouncedOK' /\ ReviewOK' /\ DamagedOK'
      BY <2>3, <2>4 DEF TasksOK, AnnouncedOK, ReviewOK, DamagedOK
    <3>2. RepairOK' /\ QueueOK' /\ WriterOK' /\ FaultsOK'
      BY <1>5, <2>1, <2>2, <2>3, OutcomeIsBounded
      DEF RepairOK, QueueOK, WriterOK, FaultsOK, Crash
    <3>. QED BY <1>5, <2>1, <3>1, <3>2, TypeFrame
             DEF Crash, tables, TurnNumberOK, Number, NoNumber
  <2>6. QueueInv' /\ WriterInv' /\ NumberInv' /\ HeldNumberInv'
    BY <2>1 DEF QueueInv, WriterInv, NumberInv, HeldNumberInv, tables
  <2>. QED BY <2>5, <2>6
<1>. QED
  BY <1>1, <1>2, <1>3, <1>4, <1>5

\* Nothing has happened yet in the initial states.
LEMMA InitBase == Init => BaseInv
  BY <<>> \in Seq(Turn), <<>> \in Seq(Command), FaultsAssumption
  DEF Init, BaseInv, TypeOK, QueueInv, WriterInv, NumberInv, HeldNumberInv, Number,
      NoNumber

\* Every step keeps BaseInv.
LEMMA NextBase == BaseInv /\ [Next]_vars => BaseInv'
<1> SUFFICES ASSUME BaseInv, [Next]_vars PROVE BaseInv'
  OBVIOUS
<1>1. CASE UNCHANGED vars
  <2>1. TypeOK'
    BY <1>1, TypeFrame DEF vars, tasks, readers, tables, ghosts, BaseInv
  <2>. QED BY <1>1, <2>1, Frame DEF vars, tables
<1>2. CASE Next
  BY <1>2, TasksKeepBase, ReadersKeepBase, RecordingKeepsBase, EndingKeepsBase
  DEF Next, WriterStep
<1>. QED
  BY <1>1, <1>2

\* BaseInv is an invariant.
LEMMA BaseHolds == Spec => []BaseInv
  BY InitBase, NextBase, PTL DEF Spec

\* The state is well typed in every behaviour.
THEOREM TypeCorrect == Spec => []TypeOK
<1>1. BaseInv => TypeOK
  BY DEF BaseInv
<1>. QED
  BY <1>1, BaseHolds, PTL

-----------------------------------------------------------------------------
(* Turn numbers follow the order of the rows, but for those that could not *)
(* be read; and each of these costs a fault, also while the writer holds   *)
(* it.                                                                     *)

Ordered ==
  \A x, y \in snapshots :
    SessionOf[rows[x.row]] = SessionOf[rows[y.row]] /\ x.row < y.row =>
      \/ x.number < y.number
      \/ ~ y.read /\ y.number = 1

Unread == {x \in snapshots : ~ x.read}

UnreadInv ==
  /\ IsFiniteSet(snapshots)
  /\ Cardinality(Unread)
       + (IF writer = "snapshot" /\ ~ turn_number.read THEN 1 ELSE 0) <= faults

\* A step that adds no snapshot and rewrites no row keeps the order.
LEMMA OrderFrame ==
  ASSUME TypeOK, Ordered, snapshots' \in SUBSET snapshots,
         \A i \in 1..Len(rows) : rows'[i] = rows[i]
  PROVE  Ordered'
<1>1. \A x \in snapshots' : x \in snapshots /\ rows'[x.row] = rows[x.row]
  BY DEF TypeOK
<1>. QED
  BY <1>1 DEF Ordered

\* A new snapshot has the last row and, in its session, the highest number,
\* unless it could not be read.
LEMMA InsertSnapshotKeepsOrder ==
  ASSUME BaseInv, Ordered, NEW ok, InsertSnapshot(ok)
  PROVE  Ordered'
<1> DEFINE new == [row |-> Len(rows), number |-> turn_number.number,
                   read |-> turn_number.read]
<1>1. /\ Executing("turn") /\ rows[Len(rows)] = Recorded
      /\ \A x \in snapshots : x.row # Len(rows)
  BY DEF InsertSnapshot, BaseInv, WriterInv
<1>2. Target \in Session /\ Target = SessionOf[rows[Len(rows)]]
  BY <1>1, HeadIsExecuted DEF BaseInv, Executing
<1>3. /\ turn_number \in Number
      /\ IF turn_number.read
           THEN \A x \in SnapshotsOf(Target) : x.number < turn_number.number
           ELSE turn_number.number = 1
  BY DEF InsertSnapshot, BaseInv, HeldNumberInv, TypeOK
<1>4. \A x \in snapshots : x.row \in Nat /\ x.number \in Nat /\ x.row < Len(rows)
  BY <1>1 DEF BaseInv, TypeOK
<1>5. \A x \in snapshots :
        SessionOf[rows[x.row]] = SessionOf[rows[new.row]] =>
          x.number < new.number \/ (~ new.read /\ new.number = 1)
  BY <1>2, <1>3 DEF SnapshotsOf
<1>6. rows' = rows /\ snapshots' \in SUBSET (snapshots \cup {new})
  BY DEF InsertSnapshot
<1>7. new.row = Len(rows) /\ Len(rows) \in Nat
  BY DEF BaseInv, TypeOK
<1>8. ASSUME NEW x \in snapshots', NEW y \in snapshots',
             SessionOf[rows[x.row]] = SessionOf[rows[y.row]], x.row < y.row
      PROVE  x.number < y.number \/ (~ y.read /\ y.number = 1)
  <2>. HIDE DEF new
  <2>1. CASE x \in snapshots /\ y \in snapshots
    BY <1>8, <2>1 DEF Ordered
  <2>2. CASE x \in snapshots /\ y = new
    BY <1>5, <1>8, <2>2
  <2>3. CASE x = new /\ y \in snapshots
    BY <1>4, <1>7, <1>8, <2>3
  <2>4. CASE x = new /\ y = new
    BY <1>7, <1>8, <2>4
  <2>. QED BY <1>6, <2>1, <2>2, <2>3, <2>4
<1>. QED
  BY <1>6, <1>8 DEF Ordered

\* The steps that leave rows, snapshots and the number alone; faults add up.
LEMMA NumberSteps ==
  ASSUME BaseInv, [Next]_vars
  PROVE  \/ \E ok \in BOOLEAN : \/ InsertRequest(ok) \/ ReadNumber(ok)
                               \/ InsertSnapshot(ok)
         \/ DeleteSnapshots
         \/ /\ UNCHANGED <<rows, snapshots>> /\ faults' \in Nat /\ faults <= faults'
            /\ \/ UNCHANGED <<writer, turn_number>>
               \/ writer' # "snapshot"
<1>0. faults \in Nat /\ \A ok : Outcome(ok) => faults' \in Nat /\ faults <= faults'
  BY FaultsAssumption DEF BaseInv, TypeOK, Outcome
<1>1. CASE Crash
  BY <1>0, <1>1 DEF Crash, tables
<1>2. ASSUME NEW ok \in BOOLEAN,
             \/ InsertSession(ok) \/ UpdateTotals(ok)
             \/ WriteRecall(ok) \/ WriteDiagnosis(ok)
      PROVE  /\ UNCHANGED <<rows, snapshots>> /\ faults' \in Nat /\ faults <= faults'
             /\ writer' # "snapshot"
  BY <1>0, <1>2 DEF InsertSession, UpdateTotals, WriteRecall, WriteDiagnosis,
                    Goto, ledger
<1>3. ASSUME NEW ok \in BOOLEAN, RepairStep(ok) \/ WriteReview(ok)
      PROVE  /\ UNCHANGED <<rows, snapshots, writer, turn_number>>
             /\ faults' \in Nat /\ faults <= faults'
  BY <1>0, <1>3 DEF RepairStep, UpdateSummary, RepairDiagnosis, RepairRecall,
                    RepairUnchanged, WriteReview, ledger
<1>4. CASE Announce
  BY <1>0, <1>4 DEF Announce, Goto, tables
<1>5. CASE UNCHANGED <<rows, snapshots, writer, turn_number, faults>>
  BY <1>0, <1>5
<1>. QED
  BY <1>1, <1>2, <1>3, <1>4, <1>5
  DEF Next, vars, tables, ledger, ghosts, WriterStep, RepairRead, RepairUnchanged,
      Persist, Remember, TakeTurns, LoadReview, Timeout, SendRecall, SendDiagnosis,
      StartRepair, FindCandidates, LookUpRecall, FinishRepair, LookUpSummary,
      LoadTurns, Age

\* Every step either adds such a snapshot or adds none.
LEMMA NextKeepsOrder == BaseInv /\ Ordered /\ [Next]_vars => Ordered'
<1> SUFFICES ASSUME BaseInv, Ordered, [Next]_vars PROVE Ordered'
  OBVIOUS
<1>1. CASE \E ok \in BOOLEAN : InsertSnapshot(ok)
  BY <1>1, InsertSnapshotKeepsOrder
<1>2. CASE \E ok \in BOOLEAN : InsertRequest(ok)
  <2>1. snapshots' = snapshots /\ (rows' = rows \/ rows' = Append(rows, Recorded))
    BY <1>2 DEF InsertRequest
  <2>2. rows \in Seq(Turn) /\ Recorded \in Turn
    BY <1>2, HeadIsExecuted DEF BaseInv, TypeOK, WriterInv, InsertRequest
  <2>3. \A i \in 1..Len(rows) : rows'[i] = rows[i]
    BY <2>1, <2>2, AppendProperties
  <2>. QED BY <2>1, <2>3, OrderFrame DEF BaseInv
<1>3. CASE DeleteSnapshots
  BY <1>3, OrderFrame DEF DeleteSnapshots, BaseInv
<1>4. CASE UNCHANGED <<rows, snapshots>>
  BY <1>4, OrderFrame DEF BaseInv
<1>5. CASE \E ok \in BOOLEAN : ReadNumber(ok)
  BY <1>4, <1>5 DEF ReadNumber, tables
<1>. QED
  BY <1>1, <1>2, <1>3, <1>4, <1>5, NumberSteps

\* A number that could not be read has cost a fault when it is stored.
LEMMA NextKeepsUnread == BaseInv /\ UnreadInv /\ [Next]_vars => UnreadInv'
<1> SUFFICES ASSUME BaseInv, UnreadInv, [Next]_vars PROVE UnreadInv'
  OBVIOUS
<1>0. /\ IsFiniteSet(snapshots) /\ IsFiniteSet(Unread)
      /\ Cardinality(Unread) \in Nat /\ faults \in Nat
  <2>1. IsFiniteSet(snapshots) /\ Unread \in SUBSET snapshots
    BY DEF UnreadInv, Unread
  <2>2. IsFiniteSet(Unread)
    BY <2>1, FS_Subset
  <2>. QED BY <2>1, <2>2, FS_CardinalityType, FaultsAssumption DEF BaseInv, TypeOK
<1>1. ASSUME NEW ok \in BOOLEAN, InsertSnapshot(ok) PROVE UnreadInv'
  <2> DEFINE new == [row |-> Len(rows), number |-> turn_number.number,
                     read |-> turn_number.read]
  <2>1. /\ snapshots' \in {snapshots, snapshots \cup {new}}
        /\ writer = "snapshot" /\ writer' = "totals"
        /\ new.read = turn_number.read /\ Outcome(ok)
    BY <1>1 DEF InsertSnapshot, Goto
  <2>2. faults' \in Nat /\ faults <= faults'
    BY <1>0, <2>1 DEF Outcome
  <2>. HIDE DEF new
  <2>3. /\ IsFiniteSet(snapshots')
        /\ Unread' \in SUBSET (Unread \cup (IF turn_number.read THEN {} ELSE {new}))
    BY <1>0, <2>1, FS_AddElement DEF Unread
  <2>4. /\ IsFiniteSet(Unread \cup {new})
        /\ Cardinality(Unread \cup {new}) \in Nat
        /\ Cardinality(Unread \cup {new}) <= Cardinality(Unread) + 1
    <3>1. /\ IsFiniteSet(Unread \cup {new})
          /\ \/ Cardinality(Unread \cup {new}) = Cardinality(Unread)
             \/ Cardinality(Unread \cup {new}) = Cardinality(Unread) + 1
      BY ONLY <1>0, FS_AddElement, Zenon
    <3>2. Cardinality(Unread \cup {new}) \in Nat
      BY <3>1, FS_CardinalityType
    <3>. QED BY <1>0, <3>1, <3>2
  <2>5. CASE turn_number.read
    <3>1. Unread' \in SUBSET Unread
      BY <2>3, <2>5
    <3>2. Cardinality(Unread') <= Cardinality(Unread) /\ Cardinality(Unread') \in Nat
      BY <1>0, <3>1, FS_Subset, FS_CardinalityType
    <3>3. Cardinality(Unread) <= faults
      BY <2>5, <1>0 DEF UnreadInv
    <3>. QED BY <1>0, <2>1, <2>2, <2>3, <3>2, <3>3 DEF UnreadInv
  <2>6. CASE ~ turn_number.read
    <3>1. Unread' \in SUBSET (Unread \cup {new})
      BY <2>3, <2>6
    <3>2. Cardinality(Unread') <= Cardinality(Unread \cup {new})
          /\ Cardinality(Unread') \in Nat
      BY <2>4, <3>1, FS_Subset, FS_CardinalityType
    <3>3. Cardinality(Unread) + 1 <= faults
      BY <2>1, <2>6, <1>0 DEF UnreadInv
    <3>. QED BY <1>0, <2>1, <2>2, <2>3, <2>4, <3>2, <3>3 DEF UnreadInv
  <2>. QED BY <2>5, <2>6
<1>2. ASSUME NEW ok \in BOOLEAN, ReadNumber(ok) PROVE UnreadInv'
  <2>1. /\ UNCHANGED snapshots /\ writer = "number" /\ writer' = "snapshot"
        /\ turn_number'.read = ok /\ faults' = IF ok THEN faults ELSE faults + 1
    BY <1>2 DEF ReadNumber, Goto, Outcome, tables
  <2>2. Unread' = Unread /\ Cardinality(Unread) <= faults
    BY <1>0, <2>1 DEF Unread, UnreadInv
  <2>. QED BY <1>0, <2>1, <2>2 DEF UnreadInv
<1>3. ASSUME snapshots' \in SUBSET snapshots, faults' \in Nat, faults <= faults',
             UNCHANGED <<writer, turn_number>> \/ writer' # "snapshot"
      PROVE  UnreadInv'
  <2>1. Unread' \in SUBSET Unread
    BY <1>3 DEF Unread
  <2>2. /\ IsFiniteSet(snapshots') /\ Cardinality(Unread') <= Cardinality(Unread)
        /\ Cardinality(Unread') \in Nat
    BY <1>0, <1>3, <2>1, FS_Subset, FS_CardinalityType
  <2>. QED BY <1>0, <1>3, <2>2 DEF UnreadInv
<1>4. CASE DeleteSnapshots
  BY <1>0, <1>3, <1>4 DEF DeleteSnapshots, ghosts
<1>5. CASE \E ok \in BOOLEAN : InsertRequest(ok)
  <2>1. UNCHANGED snapshots /\ writer' # "snapshot" /\ \E ok \in BOOLEAN : Outcome(ok)
    BY <1>5 DEF InsertRequest, Goto
  <2>2. faults' \in Nat /\ faults <= faults'
    BY <1>0, <2>1 DEF Outcome
  <2>. QED BY <1>3, <2>1, <2>2
<1>. QED
  BY <1>1, <1>2, <1>3, <1>4, <1>5, NumberSteps

\* turn_number order is the order in which the writer recorded the turns of a
\* session, in every behaviour: retention, crashes and failed statements too.
\* The one thing that breaks it is a number that could not be read, which then
\* repeats or precedes another; there are never more of these than faults.
THEOREM TurnsAreNumberedInOrder == Spec => []SnapshotsInRecordOrder
<1>1. Init => Ordered /\ UnreadInv
  BY FS_EmptySet DEF Init, Ordered, UnreadInv, Unread
<1>2. BaseInv /\ Ordered /\ UnreadInv => SnapshotsInRecordOrder
  <2> SUFFICES ASSUME BaseInv, Ordered, UnreadInv PROVE SnapshotsInRecordOrder
    OBVIOUS
  <2>1. IsFiniteSet(Unread) /\ Cardinality(Unread) \in Nat /\ faults \in Nat
    <3>1. IsFiniteSet(Unread)
      BY FS_Subset DEF UnreadInv, Unread
    <3>. QED BY <3>1, FS_CardinalityType, FaultsAssumption DEF BaseInv, TypeOK
  <2>2. Cardinality(Unread) <= faults
    BY <2>1 DEF UnreadInv
  <2>. QED BY <2>2 DEF SnapshotsInRecordOrder, Ordered, Unread
<1>. QED
  BY <1>1, <1>2, NextKeepsOrder, NextKeepsUnread, BaseHolds, PTL DEF Spec

-----------------------------------------------------------------------------
(* Each request is counted once, and only faults keep one from being       *)
(* counted.  The row between two statements of the writer is not written   *)
(* yet; the step that ends its command, or a crash, completes it.          *)

Pending == writer \in {"number", "snapshot", "totals"}

\* The totals: the first part of OnlyDamageIsMissing.
Counted ==
  \A s \in Session :
    /\ count[s] <= Cardinality(Written(s))
    /\ Cardinality({i \in Written(s) : rows[i] \notin damaged}) <= count[s]

\* The snapshots: its second part.
Kept ==
  \A i \in (aged + 1)..Len(rows) :
    \/ rows[i] \in damaged
    \/ writer \in {"number", "snapshot"} /\ i = Len(rows)
    \/ \E x \in snapshots : x.row = i

\* The rows of a session are finitely many.
LEMMA RowsAreFinite ==
  ASSUME TypeOK, NEW s \in Session
  PROVE  /\ Written(s) \in SUBSET RowsOf(s) /\ RowsOf(s) \in SUBSET 1..Len(rows)
         /\ IsFiniteSet(Written(s)) /\ Cardinality(Written(s)) \in Nat
<1>1. Len(rows) \in Nat /\ DOMAIN rows = 1..Len(rows)
  BY DEF TypeOK
<1>2. IsFiniteSet(1..Len(rows))
  BY <1>1, FS_Interval
<1>3. Written(s) \in SUBSET RowsOf(s) /\ RowsOf(s) \in SUBSET 1..Len(rows)
  BY <1>1 DEF Written, RowsOf
<1>4. IsFiniteSet(Written(s))
  BY <1>2, <1>3, FS_Subset
<1>. QED
  BY <1>3, <1>4, FS_CardinalityType

\* A step that completes no row and counts none only damages turns.
LEMMA CountFrame ==
  ASSUME TypeOK, Counted, UNCHANGED count, damaged \subseteq damaged',
         \A s \in Session : Written(s)' = Written(s),
         \A i \in 1..Len(rows) : rows'[i] = rows[i]
  PROVE  Counted'
<1> SUFFICES ASSUME NEW s \in Session
             PROVE  /\ count[s] <= Cardinality(Written(s))
                    /\ Cardinality({i \in Written(s) : rows'[i] \notin damaged'})
                         <= count[s]
  BY DEF Counted
<1> DEFINE old == {i \in Written(s) : rows[i] \notin damaged}
           new == {i \in Written(s) : rows'[i] \notin damaged'}
<1>1. IsFiniteSet(Written(s)) /\ Written(s) \in SUBSET 1..Len(rows)
  BY RowsAreFinite
<1>2. IsFiniteSet(old) /\ new \subseteq old
  BY <1>1, FS_Subset
<1>3. Cardinality(new) <= Cardinality(old) /\ IsFiniteSet(new)
  BY <1>2, FS_Subset
<1>4. Cardinality(new) \in Nat /\ Cardinality(old) \in Nat /\ count[s] \in Nat
  BY <1>2, <1>3, FS_CardinalityType DEF TypeOK
<1>5. count[s] <= Cardinality(Written(s)) /\ Cardinality(old) <= count[s]
  BY DEF Counted
<1>. QED
  BY <1>3, <1>4, <1>5

\* A row that is completed is counted, or its turn is damaged.
LEMMA CompletionCounts ==
  ASSUME BaseInv, Counted, Pending, ~ Pending', UNCHANGED rows,
         damaged \subseteq damaged',
         \/ UNCHANGED count /\ Recorded \in damaged'
         \/ count' = [count EXCEPT ![Target] = @ + 1]
  PROVE  Counted'
<1> DEFINE n == Len(rows)
<1>1. /\ n \in DOMAIN rows /\ rows[n] = Recorded
      /\ Target \in Session /\ SessionOf[rows[n]] = Target
  <2>1. Executing("turn") /\ rows # <<>> /\ rows[n] = Recorded
    BY DEF BaseInv, WriterInv, Pending
  <2>2. n \in DOMAIN rows
    BY <2>1, EmptySeq DEF BaseInv, TypeOK
  <2>. QED BY <2>1, <2>2, HeadIsExecuted DEF BaseInv, Executing
<1>2. ASSUME NEW s \in Session
      PROVE  Written(s)' = IF s = Target THEN Written(s) \cup {n} ELSE Written(s)
  BY <1>1 DEF Written, RowsOf, Pending
<1>3. \A s \in Session : n \notin Written(s)
  BY DEF Written, Pending
<1> SUFFICES ASSUME NEW s \in Session
             PROVE  /\ count'[s] <= Cardinality(Written(s)')
                    /\ Cardinality({i \in Written(s)' : rows[i] \notin damaged'})
                         <= count'[s]
  BY DEF Counted
<1> DEFINE old == {i \in Written(s) : rows[i] \notin damaged}
           new == {i \in Written(s)' : rows[i] \notin damaged'}
<1>4. /\ IsFiniteSet(Written(s)) /\ IsFiniteSet(old)
      /\ n \notin Written(s) /\ n \notin old
  BY <1>3, RowsAreFinite, FS_Subset DEF BaseInv
<1>5. /\ Cardinality(old) \in Nat /\ Cardinality(Written(s)) \in Nat
      /\ IsFiniteSet(old \cup {n}) /\ Cardinality(old \cup {n}) = Cardinality(old) + 1
      /\ Cardinality(Written(s) \cup {n}) = Cardinality(Written(s)) + 1
  BY <1>4, FS_CardinalityType, FS_AddElement
<1>6. count[s] <= Cardinality(Written(s)) /\ Cardinality(old) <= count[s]
  BY DEF Counted
<1>7. count \in [Session -> Nat] /\ count[s] \in Nat
  BY DEF BaseInv, TypeOK
<1>8. CASE new \subseteq old /\ count'[s] = count[s]
  <2>1. Cardinality(new) <= Cardinality(old) /\ Cardinality(new) \in Nat
    BY <1>4, <1>8, FS_Subset, FS_CardinalityType
  <2>2. \/ Cardinality(Written(s)') = Cardinality(Written(s))
        \/ Cardinality(Written(s)') = Cardinality(Written(s)) + 1
    BY <1>2, <1>5
  <2>3. count'[s] <= Cardinality(Written(s)') /\ Cardinality(new) <= count'[s]
    <3>. HIDE DEF old, new
    <3>. QED BY <1>5, <1>6, <1>7, <1>8, <2>1, <2>2
  <2>. QED BY <2>3
<1>9. CASE s = Target /\ count'[s] = count[s] + 1
  <2>1. new \subseteq old \cup {n} /\ Written(s)' = Written(s) \cup {n}
    BY <1>2, <1>9
  <2>2. Cardinality(new) <= Cardinality(old \cup {n}) /\ Cardinality(new) \in Nat
    BY <1>5, <2>1, FS_Subset, FS_CardinalityType
  <2>. QED BY <1>5, <1>6, <1>7, <1>9, <2>1, <2>2
<1>10. \/ new \subseteq old /\ count'[s] = count[s]
       \/ s = Target /\ count'[s] = count[s] + 1
  BY <1>1, <1>2, <1>7
<1>. QED
  BY <1>8, <1>9, <1>10

\* A row that the writer inserts is not written yet.
LEMMA InsertRequestKeepsWritten ==
  ASSUME BaseInv, NEW ok, InsertRequest(ok)
  PROVE  /\ \A s \in Session : Written(s)' = Written(s)
         /\ \A i \in 1..Len(rows) : rows'[i] = rows[i]
         /\ damaged \subseteq damaged' /\ UNCHANGED count
<1>1. /\ rows \in Seq(Turn) /\ Recorded \in Turn /\ writer = "request"
      /\ queue # <<>>
  BY HeadIsExecuted DEF BaseInv, TypeOK, WriterInv, InsertRequest, Executing
<1>2. damaged \subseteq damaged' /\ UNCHANGED count
  BY DEF InsertRequest
<1>3. \/ rows' = rows /\ ~ Pending'
      \/ rows' = Append(rows, Recorded) /\ Pending'
  BY <1>1, GotoMovesQueue DEF InsertRequest, Goto, Pending
<1>4. CASE rows' = rows /\ ~ Pending'
  BY <1>1, <1>2, <1>4 DEF Written, RowsOf, Pending
<1>5. CASE rows' = Append(rows, Recorded) /\ Pending'
  <2>1. /\ Len(rows') = Len(rows) + 1 /\ Len(rows) \in Nat /\ rows' \in Seq(Turn)
        /\ \A i \in 1..Len(rows) : rows'[i] = rows[i]
    BY <1>1, <1>5, AppendProperties
  <2>2. ASSUME NEW s \in Session
        PROVE  Written(s)' = {i \in 1..Len(rows) : SessionOf[rows[i]] = s}
    <3>1. Written(s)' = {i \in 1..(Len(rows) + 1) :
                           SessionOf[rows'[i]] = s /\ i # Len(rows) + 1}
      BY <1>5, <2>1 DEF Written, RowsOf, Pending
    <3>. QED BY <2>1, <3>1
  <2>3. ASSUME NEW s \in Session
        PROVE  Written(s) = {i \in 1..Len(rows) : SessionOf[rows[i]] = s}
    BY <1>1 DEF Written, RowsOf
  <2>. QED BY <1>2, <2>1, <2>2, <2>3
<1>. QED
  BY <1>3, <1>4, <1>5

\* Whoever is not the writer, and what the writer does besides recording,
\* leaves alone what Counted and Kept are about.
Aside ==
  /\ UNCHANGED <<rows, count, snapshots>> /\ damaged \subseteq damaged'
  /\ \/ UNCHANGED writer
     \/ ~ Pending /\ ~ Pending'
  /\ \/ UNCHANGED aged
     \/ aged' > aged

LEMMA AsideSteps ==
  ASSUME BaseInv,
         \/ \E t \in Turn : Persist(t) \/ Remember(t)
         \/ \E s \in Session : TakeTurns(s) \/ LoadReview(s) \/ Timeout(s)
         \/ SendRecall \/ SendDiagnosis \/ Announce \/ RepairRead
         \/ \E ok \in BOOLEAN : \/ InsertSession(ok) \/ WriteRecall(ok)
                               \/ WriteDiagnosis(ok) \/ RepairStep(ok)
                               \/ WriteReview(ok)
         \/ \E n \in 1..Len(rows) : Age(n)
         \/ UNCHANGED vars
  PROVE  Aside
<1>1. CASE \/ Announce
           \/ \E ok \in BOOLEAN : InsertSession(ok) \/ WriteRecall(ok) \/ WriteDiagnosis(ok)
  <2>1. writer \in {"recv", "announce"} /\ writer' \in {"recv", "request", "announce"}
    BY <1>1 DEF Announce, InsertSession, WriteRecall, WriteDiagnosis, Goto
  <2>. QED BY <1>1, <2>1 DEF Aside, Announce, InsertSession, WriteRecall,
                            WriteDiagnosis, Pending, tables, ledger
<1>2. CASE \E n \in 1..Len(rows) : Age(n)
  BY <1>2 DEF Aside, Age, tables, ghosts, BaseInv, TypeOK
<1>3. CASE \/ \E t \in Turn : Persist(t) \/ Remember(t)
           \/ \E s \in Session : TakeTurns(s) \/ LoadReview(s) \/ Timeout(s)
           \/ SendRecall \/ SendDiagnosis \/ UNCHANGED vars
  BY <1>3 DEF Aside, Persist, Remember, TakeTurns, LoadReview, Timeout,
              SendRecall, SendDiagnosis, tables, ghosts, vars
<1>4. CASE \/ RepairRead
           \/ \E ok \in BOOLEAN : RepairStep(ok) \/ WriteReview(ok)
  BY <1>4 DEF Aside, RepairRead, RepairStep, RepairUnchanged, StartRepair,
              FindCandidates, LookUpRecall, FinishRepair, LookUpSummary, LoadTurns,
              UpdateSummary, RepairDiagnosis, RepairRecall, WriteReview, ledger
<1>. QED
  BY <1>1, <1>2, <1>3, <1>4

\* A crash damages the turn whose row it leaves between two statements.
LEMMA CrashDamagesPending ==
  ASSUME BaseInv, Crash
  PROVE  /\ UNCHANGED <<rows, count, snapshots, aged>> /\ ~ Pending'
         /\ damaged \subseteq damaged' /\ (Pending => Recorded \in damaged')
<1>1. /\ UNCHANGED <<rows, count, snapshots, aged>> /\ ~ Pending'
      /\ damaged' = damaged \cup
           {t \in Turn : \E i \in DOMAIN queue : queue[i] = TurnCommand(t)}
  BY DEF Crash, tables, Pending
<1>2. ASSUME Pending PROVE Recorded \in damaged'
  <2>1. Recorded \in Turn /\ Head(queue) = TurnCommand(Recorded) /\ queue # <<>>
    BY <1>2, HeadIsExecuted DEF BaseInv, WriterInv, Pending, Executing
  <2>2. 1 \in DOMAIN queue /\ queue[1] = Head(queue)
    BY <2>1, EmptySeq DEF BaseInv, TypeOK
  <2>. QED BY <1>1, <2>1, <2>2
<1>. QED
  BY <1>1, <1>2

\* The totals, step by step.
LEMMA NextKeepsCounted == BaseInv /\ Counted /\ [Next]_vars => Counted'
<1> SUFFICES ASSUME BaseInv, Counted, [Next]_vars PROVE Counted'
  OBVIOUS
<1>1. CASE Aside
  <2>1. \A s \in Session : Written(s)' = Written(s)
    BY <1>1 DEF Aside, Written, RowsOf, Pending
  <2>. QED BY <1>1, <2>1, CountFrame DEF Aside, BaseInv
<1>2. CASE DeleteSnapshots
  <2>1. \A s \in Session : Written(s)' = Written(s)
    BY <1>2 DEF DeleteSnapshots, Written, RowsOf
  <2>. QED BY <1>2, <2>1, CountFrame DEF DeleteSnapshots, ghosts, BaseInv
<1>3. ASSUME NEW ok \in BOOLEAN, InsertRequest(ok) PROVE Counted'
  BY <1>3, InsertRequestKeepsWritten, CountFrame DEF BaseInv
<1>4. ASSUME NEW ok \in BOOLEAN, ReadNumber(ok) \/ InsertSnapshot(ok) PROVE Counted'
  <2>1. /\ writer \in {"number", "snapshot"} /\ writer' \in {"snapshot", "totals"}
        /\ UNCHANGED <<rows, count>> /\ damaged \subseteq damaged'
    BY <1>4 DEF ReadNumber, InsertSnapshot, Goto, tables
  <2>2. \A s \in Session : Written(s)' = Written(s)
    BY <2>1 DEF Written, RowsOf
  <2>. QED BY <2>1, <2>2, CountFrame DEF BaseInv
<1>5. ASSUME NEW ok \in BOOLEAN, UpdateTotals(ok) PROVE Counted'
  <2>1. Pending /\ ~ Pending' /\ UNCHANGED rows /\ damaged \subseteq damaged'
    BY <1>5 DEF UpdateTotals, Goto, Pending
  <2>2. \/ UNCHANGED count /\ Recorded \in damaged'
        \/ count' = [count EXCEPT ![Target] = @ + 1]
    BY <1>5 DEF UpdateTotals
  <2>. QED BY <2>1, <2>2, CompletionCounts
<1>6. CASE Crash
  <2>1. CASE Pending
    BY <1>6, <2>1, CrashDamagesPending, CompletionCounts
  <2>2. CASE ~ Pending
    <3>1. \A s \in Session : Written(s)' = Written(s)
      BY <1>6, <2>2, CrashDamagesPending DEF Written, RowsOf, Pending
    <3>. QED BY <1>6, <3>1, CrashDamagesPending, CountFrame DEF BaseInv
  <2>. QED BY <2>1, <2>2
<1>. QED
  BY <1>1, <1>2, <1>3, <1>4, <1>5, <1>6, AsideSteps DEF Next, WriterStep

\* The snapshots, step by step.
LEMMA NextKeepsKept == BaseInv /\ Kept /\ [Next]_vars => Kept'
<1> SUFFICES ASSUME BaseInv, Kept, [Next]_vars PROVE Kept'
  OBVIOUS
<1>0. /\ rows \in Seq(Turn) /\ Len(rows) \in Nat /\ aged \in 0..Len(rows)
      /\ \A x \in snapshots : x.row \in 1..Len(rows)
  BY DEF BaseInv, TypeOK
<1>1. CASE Aside
  <2>1. UNCHANGED <<rows, snapshots>> /\ damaged \subseteq damaged'
    BY <1>1 DEF Aside
  <2>2. writer \in {"number", "snapshot"} => writer' = writer
    BY <1>1 DEF Aside, Pending
  <2>3. aged' \in 0..Len(rows)
    <3>1. BaseInv'
      BY NextBase
    <3>2. (aged \in 0..Len(rows))'
      BY <3>1 DEF BaseInv, TypeOK
    <3>. QED BY <2>1, <3>2
  <2>4. aged <= aged'
    BY <1>0, <1>1, <2>3 DEF Aside
  <2>5. (aged' + 1)..Len(rows) \subseteq (aged + 1)..Len(rows)
    BY <1>0, <2>3, <2>4
  <2>. QED BY <2>1, <2>2, <2>5 DEF Kept
<1>2. CASE DeleteSnapshots
  <2>1. /\ UNCHANGED <<rows, writer, damaged, aged>>
        /\ \A x \in snapshots : x.row > aged => x \in snapshots'
    BY <1>2 DEF DeleteSnapshots, ghosts
  <2>. QED BY <1>0, <2>1 DEF Kept
<1>3. ASSUME NEW ok \in BOOLEAN, InsertRequest(ok) PROVE Kept'
  <2>1. /\ UNCHANGED <<snapshots, aged>> /\ damaged \subseteq damaged'
        /\ writer = "request" /\ Executing("turn")
    BY <1>3 DEF InsertRequest, BaseInv, WriterInv
  <2>2. Recorded \in Turn
    BY <2>1, HeadIsExecuted DEF BaseInv
  <2>3. \/ rows' = rows
        \/ rows' = Append(rows, Recorded) /\ writer' = "number"
    BY <1>3 DEF InsertRequest, Goto
  <2>4. CASE rows' = rows
    BY <2>1, <2>4 DEF Kept
  <2>5. CASE rows' = Append(rows, Recorded) /\ writer' = "number"
    <3>1. /\ Len(rows') = Len(rows) + 1
          /\ \A i \in 1..Len(rows) : rows'[i] = rows[i]
      BY <1>0, <2>2, <2>5, AppendProperties
    <3>. QED BY <1>0, <2>1, <2>5, <3>1 DEF Kept
  <2>. QED BY <2>3, <2>4, <2>5
<1>4. ASSUME NEW ok \in BOOLEAN, InsertSnapshot(ok) PROVE Kept'
  <2> DEFINE new == [row |-> Len(rows), number |-> turn_number.number,
                     read |-> turn_number.read]
  <2>1. /\ UNCHANGED <<rows, aged>> /\ damaged \subseteq damaged'
        /\ snapshots \subseteq snapshots' /\ new.row = Len(rows)
        /\ Recorded \in damaged' \/ new \in snapshots'
    BY <1>4 DEF InsertSnapshot
  <2>2. rows[Len(rows)] = Recorded
    BY <1>4 DEF InsertSnapshot, BaseInv, WriterInv
  <2>. HIDE DEF new
  <2>. QED BY <2>1, <2>2 DEF Kept
<1>5. ASSUME NEW ok \in BOOLEAN, UpdateTotals(ok) PROVE Kept'
  BY <1>5 DEF UpdateTotals, Kept
<1>7. ASSUME NEW ok \in BOOLEAN, ReadNumber(ok) PROVE Kept'
  BY <1>7 DEF ReadNumber, Goto, Kept, tables
<1>6. CASE Crash
  <2>1. writer \in {"number", "snapshot"} => rows[Len(rows)] \in damaged'
    BY <1>6, CrashDamagesPending DEF BaseInv, WriterInv, Pending
  <2>. QED BY <1>6, <2>1, CrashDamagesPending DEF Kept
<1>. QED
  BY <1>1, <1>2, <1>3, <1>4, <1>5, <1>6, <1>7, AsideSteps DEF Next, WriterStep

\* The three tables of a turn agree but for the turns a fault damaged: no
\* request is counted twice, and none silently loses its snapshot.
THEOREM LedgerIsComplete == Spec => []OnlyDamageIsMissing
<1>1. OnlyDamageIsMissing <=> Counted /\ Kept
  BY DEF OnlyDamageIsMissing, Counted, Kept
<1>2. ASSUME Init PROVE Counted /\ Kept
  <2>1. \A s \in Session : Written(s) = {} /\ count[s] = 0
    BY <1>2 DEF Init, Written, RowsOf
  <2>2. Counted
    BY <2>1, FS_EmptySet DEF Counted
  <2>. QED BY <1>2, <2>2 DEF Init, Kept
<1>. QED
  BY <1>1, <1>2, NextKeepsCounted, NextKeepsKept, BaseHolds, PTL DEF Spec

-----------------------------------------------------------------------------
(* A diagnosis is written after the turns it is about.  A turn that has    *)
(* been sent is on record, or damaged, or still in the queue; and in the   *)
(* queue it is ahead of every diagnosis about it.                          *)

\* A turn that is damaged or has a request row under its id.
Safe(t) == \/ t \in damaged
           \/ \E i \in DOMAIN rows : RequestOf[rows[i]] = RequestOf[t]

Sent(t) == Safe(t) \/ \E i \in DOMAIN queue : queue[i] = TurnCommand(t)

\* Turns are sent before anybody holds them for a diagnosis.
HeldInv ==
  /\ \A t \in Turn : phase[t] # "open" => Sent(t)
  /\ \A s \in Session : \A t \in Elements(live[s]) : Sent(t)
  /\ \A t \in Elements(ender.turns) : Sent(t)

\* The queue keeps the turns of a diagnosis ahead of it.
AheadInv ==
  \A j \in DOMAIN queue : queue[j].op = "diagnosis" =>
    \A t \in Elements(queue[j].turns) :
      Safe(t) \/ \E i \in 1..(j - 1) : queue[i] = TurnCommand(t)

\* What the readers hold, and what is stored, is about safe turns.
ReportsInv ==
  /\ \A t \in repair.turns \cup review.turns : Safe(t)
  /\ \A s \in Session : \A t \in diagnosis[s] : Safe(t)

OriginInv == HeldInv /\ AheadInv /\ ReportsInv

\* A turn that is damaged stays so.
LEMMA DamageStays ==
  ASSUME BaseInv, [Next]_vars
  PROVE  damaged \subseteq damaged'
<1>1. CASE Aside
  BY <1>1 DEF Aside
<1>2. CASE Crash
  BY <1>2, CrashDamagesPending
<1>3. CASE DeleteSnapshots \/ \E ok \in BOOLEAN : \/ InsertRequest(ok)
                           \/ ReadNumber(ok) \/ InsertSnapshot(ok) \/ UpdateTotals(ok)
  BY <1>3 DEF DeleteSnapshots, InsertRequest, ReadNumber, InsertSnapshot,
              UpdateTotals, ghosts
<1>. QED BY <1>1, <1>2, <1>3, AsideSteps DEF Next, WriterStep

\* Rows and damage are for ever.
LEMMA SafeIsStable ==
  ASSUME BaseInv, [Next]_vars, NEW t, Safe(t)
  PROVE  Safe(t)'
<1>1. rows \in Seq(Turn) /\ rows' \in Seq(Turn)
  <2>1. BaseInv'
    BY NextBase
  <2>. QED BY <2>1 DEF BaseInv, TypeOK
<1>2. damaged \subseteq damaged'
  BY DamageStays
<1>3. \A i \in DOMAIN rows : i \in DOMAIN rows' /\ rows'[i] = rows[i]
  <2>1. CASE rows' = rows
    BY <2>1
  <2>2. ASSUME NEW ok, InsertRequest(ok), rows' # rows
        PROVE  \A i \in DOMAIN rows : i \in DOMAIN rows' /\ rows'[i] = rows[i]
    <3>1. rows' = Append(rows, Recorded) /\ Recorded \in Turn
      BY <2>2, HeadIsExecuted DEF InsertRequest, BaseInv, WriterInv
    <3>. QED BY <1>1, <3>1, AppendProperties
  <2>3. CASE Aside
    BY <2>3 DEF Aside
  <2>4. CASE Crash \/ DeleteSnapshots \/
             \E ok \in BOOLEAN : ReadNumber(ok) \/ InsertSnapshot(ok) \/ UpdateTotals(ok)
    BY <2>4 DEF Crash, DeleteSnapshots, ReadNumber, InsertSnapshot, UpdateTotals, tables
  <2>. QED BY <2>1, <2>2, <2>3, <2>4, AsideSteps DEF Next, WriterStep
<1>. QED
  BY <1>2, <1>3 DEF Safe

\* The writer takes a turn off the queue once it is safe.
Popped == /\ queue # <<>> /\ queue' = Tail(queue)
          /\ Executing("turn") => \A t \in {Recorded} : Safe(t)'

\* What the tasks and the monitor append.
Appended(cmd) ==
  /\ cmd \in Command /\ queue' = Append(queue, cmd)
  /\ cmd.op = "diagnosis" => cmd = EndCommand("diagnosis")
  /\ \A t \in Turn : cmd = TurnCommand(t) => phase'[t] # "open"

\* A crash empties it, at the cost of the turns in it.
Lost == /\ queue' = <<>>
        /\ \A t \in Turn :
             (\E i \in DOMAIN queue : queue[i] = TurnCommand(t)) => t \in damaged'

\* The ways the queue moves.
LEMMA QueueMoves ==
  ASSUME BaseInv, [Next]_vars
  PROVE  UNCHANGED queue \/ Popped \/ Lost \/ \E cmd \in Command : Appended(cmd)
<1>1. ASSUME NEW t \in Turn, Persist(t)
      PROVE  UNCHANGED queue \/ \E cmd \in Command : Appended(cmd)
  <2>1. TurnCommand(t) \in Command /\ TurnCommand(t).op = "turn"
    BY CommandsAreCommands DEF BaseInv, TurnCommand
  <2>2. \A u \in Turn : TurnCommand(t) = TurnCommand(u) => phase'[u] # "open"
    BY <1>1 DEF Persist, TurnCommand, BaseInv, TypeOK
  <2>. QED BY <1>1, <2>1, <2>2 DEF Persist, Send, Appended
<1>2. CASE SendRecall \/ SendDiagnosis
  <2>1. \A op \in {"recall", "diagnosis"} :
          EndCommand(op) \in Command /\ EndCommand(op).op = op
    BY CommandsAreCommands DEF BaseInv, EndCommand
  <2>2. \A op \in {"recall", "diagnosis"}, t \in Turn : EndCommand(op) # TurnCommand(t)
    BY <2>1 DEF TurnCommand
  <2>. QED BY <1>2, <2>1, <2>2 DEF SendRecall, SendDiagnosis, Send, Appended
<1>3. ASSUME NEW ok \in BOOLEAN,
             \/ InsertSession(ok) \/ ReadNumber(ok) \/ InsertSnapshot(ok)
             \/ WriteDiagnosis(ok)
      PROVE  UNCHANGED queue
  BY <1>3 DEF InsertSession, ReadNumber, InsertSnapshot, WriteDiagnosis, Goto
<1>4. ASSUME NEW ok \in BOOLEAN, InsertRequest(ok) PROVE UNCHANGED queue \/ Popped
  <2> DEFINE inserted == ok /\ Target \in known /\ ~ Duplicate(Recorded)
  <2>1. CASE inserted
    BY <1>4, <2>1 DEF InsertRequest, Goto
  <2>2. CASE ~ inserted
    <3>1. /\ Recorded \in damaged' \/ Duplicate(Recorded)
          /\ UNCHANGED rows /\ queue' = Tail(queue)
      BY <1>4, <2>2 DEF InsertRequest, Goto
    <3>2. ASSUME NEW t \in {Recorded} PROVE Safe(t)'
      BY <3>1 DEF Duplicate, Safe
    <3>3. queue # <<>>
      BY <1>4 DEF InsertRequest, BaseInv, WriterInv, Executing
    <3>. QED BY <3>1, <3>2, <3>3 DEF Popped
  <2>. QED BY <2>1, <2>2
<1>5. ASSUME NEW ok \in BOOLEAN, UpdateTotals(ok) PROVE Popped
  <2>1. /\ Executing("turn") /\ rows # <<>> /\ rows[Len(rows)] = Recorded
        /\ queue' = Tail(queue)
    BY <1>5 DEF UpdateTotals, Goto, BaseInv, WriterInv
  <2>2. Len(rows) \in DOMAIN rows
    BY <2>1, EmptySeq DEF BaseInv, TypeOK
  <2>3. ASSUME NEW t \in {Recorded} PROVE Safe(t)'
    BY <1>5, <2>1, <2>2 DEF Safe, UpdateTotals
  <2>. QED BY <2>1, <2>3 DEF Popped, Executing
<1>6. ASSUME NEW ok \in BOOLEAN, WriteRecall(ok) PROVE Popped
  BY <1>6 DEF WriteRecall, Goto, Popped, Executing
<1>7. CASE Announce
  BY <1>7 DEF Announce, Goto, Popped, Executing, BaseInv, WriterInv
<1>8. CASE Crash
  BY <1>8 DEF Crash, Lost
<1>9. CASE UNCHANGED queue
  BY <1>9
<1>. QED
  BY <1>1, <1>2, <1>3, <1>4, <1>5, <1>6, <1>7, <1>8, <1>9
  DEF Next, vars, WriterStep, RepairStep, RepairRead, RepairUnchanged, Remember,
      TakeTurns, LoadReview, Timeout, UpdateSummary, RepairDiagnosis, RepairRecall,
      WriteReview, StartRepair, FindCandidates, LookUpRecall, FinishRepair,
      LookUpSummary, LoadTurns, Age, DeleteSnapshots

\* A turn that was sent stays sent.
LEMMA SentIsStable ==
  ASSUME BaseInv, [Next]_vars, NEW t \in Turn, Sent(t)
  PROVE  Sent(t)'
<1>1. CASE Safe(t)
  BY <1>1, SafeIsStable DEF Sent
<1>2. ASSUME NEW i \in DOMAIN queue, queue[i] = TurnCommand(t) PROVE Sent(t)'
  <2>0. /\ queue \in Seq(Command) /\ i \in 1..Len(queue)
        /\ TurnCommand(t)' = TurnCommand(t)
    BY DEF BaseInv, TypeOK, TurnCommand
  <2>1. CASE UNCHANGED queue
    BY <1>2, <2>0, <2>1 DEF Sent
  <2>2. CASE Popped
    <3>1. CASE i = 1
      <4>1. Executing("turn") /\ t = Recorded
        BY <1>2, <2>0, <3>1 DEF TurnCommand, Executing, Recorded
      <4>2. Safe(t)'
        BY <2>2, <4>1 DEF Popped
      <4>. QED BY <4>2 DEF Sent
    <3>2. CASE i # 1
      <4>1. i - 1 \in DOMAIN queue' /\ queue'[i - 1] = queue[i]
        BY <2>0, <2>2, <3>2 DEF Popped
      <4>. QED BY <1>2, <2>0, <4>1 DEF Sent
    <3>. QED BY <3>1, <3>2
  <2>3. CASE Lost
    BY <1>2, <2>3 DEF Lost, Sent, Safe
  <2>4. ASSUME NEW cmd \in Command, Appended(cmd) PROVE Sent(t)'
    <3>1. i \in DOMAIN queue' /\ queue'[i] = queue[i]
      BY <2>0, <2>4, AppendProperties DEF Appended
    <3>. QED BY <1>2, <2>0, <3>1 DEF Sent
  <2>. QED BY <2>1, <2>2, <2>3, <2>4, QueueMoves
<1>. QED
  BY <1>1, <1>2 DEF Sent

\* A turn is remembered, and a life taken, only after it was sent.
LEMMA NextKeepsHeld == BaseInv /\ HeldInv /\ [Next]_vars => HeldInv'
<1> SUFFICES ASSUME BaseInv, HeldInv, [Next]_vars PROVE HeldInv'
  OBVIOUS
<1>0. \A t \in Turn : Sent(t) => Sent(t)'
  BY SentIsStable
<1>1. /\ \A s \in Session : live[s] \in Seq(Turn) /\ Elements(live[s]) \subseteq Turn
      /\ ender.turns \in Seq(Turn) /\ Elements(ender.turns) \subseteq Turn
      /\ \A t \in Turn : SessionOf[t] \in Session
  <2>1. TasksOK
    BY TypeParts DEF BaseInv
  <2>. QED BY <2>1, TurnAssumption DEF TasksOK, Elements
<1>2. ASSUME NEW t \in Turn, Persist(t) PROVE HeldInv'
  <2>1. Sent(t)'
    <3>1. CASE writer = "dead"
      BY <1>2, <3>1 DEF Persist, Sent, Safe
    <3>2. CASE writer # "dead"
      <4>1. queue' = Append(queue, TurnCommand(t)) /\ queue \in Seq(Command)
        BY <1>2, <3>2 DEF Persist, Send, BaseInv, TypeOK
      <4>2. /\ Len(queue) + 1 \in DOMAIN queue'
            /\ queue'[Len(queue) + 1] = TurnCommand(t)
        BY <4>1, AppendProperties, CommandsAreCommands DEF BaseInv
      <4>. QED BY <4>2 DEF Sent, TurnCommand
    <3>. QED BY <3>1, <3>2
  <2>2. /\ UNCHANGED <<live, ender>>
        /\ \A u \in Turn : phase'[u] # "open" => u = t \/ phase[u] # "open"
    BY <1>2 DEF Persist, BaseInv, TypeOK
  <2>. QED BY <1>0, <1>1, <2>1, <2>2 DEF HeldInv
<1>3. ASSUME NEW t \in Turn, Remember(t) PROVE HeldInv'
  <2>1. Sent(t) /\ UNCHANGED ender
    BY <1>3 DEF Remember, HeldInv
  <2>2. \A u \in Turn : phase'[u] # "open" => u = t \/ phase[u] # "open"
    BY <1>3 DEF Remember, BaseInv, TypeOK
  <2>3. ASSUME NEW s \in Session
        PROVE  Elements(live'[s]) \subseteq Elements(live[s]) \cup {t}
    <3>1. live'[s] = live[s] \/ live'[s] = Append(live[s], t)
      BY <1>3, <1>1 DEF Remember, BaseInv, TypeOK
    <3>2. ASSUME live'[s] = Append(live[s], t)
          PROVE  \A i \in DOMAIN live'[s] :
                   \/ live'[s][i] = t
                   \/ i \in DOMAIN live[s] /\ live'[s][i] = live[s][i]
      BY <1>1, <3>2, AppendProperties
    <3>. QED BY <3>1, <3>2 DEF Elements
  <2>. QED BY <1>0, <1>1, <2>1, <2>2, <2>3 DEF HeldInv
<1>4. ASSUME NEW s \in Session, TakeTurns(s) PROVE HeldInv'
  <2>1. UNCHANGED phase /\ ender'.turns = live[s]
    BY <1>4 DEF TakeTurns
  <2>2. \A r \in Session : Elements(live'[r]) \subseteq Elements(live[r])
    BY <1>4 DEF TakeTurns, Elements, BaseInv, TypeOK
  <2>. QED BY <1>0, <1>1, <2>1, <2>2 DEF HeldInv
<1>5. CASE SendRecall \/ SendDiagnosis
  <2>0. UNCHANGED <<phase, live>> /\ ender'.turns \in {ender.turns, <<>>}
    BY <1>5 DEF SendRecall, SendDiagnosis, BaseInv, TypeOK
  <2>1. Elements(ender'.turns) \subseteq Elements(ender.turns)
    BY <2>0 DEF Elements
  <2>. QED BY <1>0, <1>1, <2>0, <2>1 DEF HeldInv
<1>6. CASE Crash
  <2>1. /\ \A t \in Turn : phase'[t] # "open" => phase[t] # "open"
        /\ \A s \in Session : live'[s] = <<>>
        /\ ender'.turns = <<>>
    BY <1>6 DEF Crash, BaseInv, TypeOK
  <2>. QED BY <1>0, <2>1 DEF HeldInv, Elements
<1>7. CASE UNCHANGED tasks
  BY <1>0, <1>1, <1>7 DEF HeldInv, tasks
<1>. QED
  BY <1>2, <1>3, <1>4, <1>5, <1>6, <1>7
  DEF Next, vars, WriterStep, RepairStep, RepairRead, RepairUnchanged, LoadReview,
      Timeout, InsertSession, InsertRequest, ReadNumber, InsertSnapshot,
      UpdateTotals, WriteRecall, WriteDiagnosis, UpdateSummary, RepairDiagnosis, RepairRecall,
      WriteReview, Announce, StartRepair, FindCandidates, LookUpRecall,
      FinishRepair, LookUpSummary, LoadTurns, Age, DeleteSnapshots

\* The queue is first in, first out, and a diagnosis is queued for turns that
\* were sent.
LEMMA NextKeepsAhead == BaseInv /\ HeldInv /\ AheadInv /\ [Next]_vars => AheadInv'
<1> SUFFICES ASSUME BaseInv, HeldInv, AheadInv, [Next]_vars,
                    NEW j \in DOMAIN queue', queue'[j].op = "diagnosis",
                    NEW t \in Elements(queue'[j].turns)
             PROVE  \/ Safe(t)'
                    \/ \E i \in 1..(j - 1) : queue'[i] = TurnCommand(t)
  BY DEF AheadInv, TurnCommand
<1>0. queue \in Seq(Command) /\ (Safe(t) => Safe(t)')
  BY SafeIsStable DEF BaseInv, TypeOK
<1>1. CASE UNCHANGED queue
  BY <1>0, <1>1 DEF AheadInv
<1>2. CASE Popped
  <2>1. /\ j \in Nat /\ j >= 1 /\ j + 1 \in DOMAIN queue /\ queue'[j] = queue[j + 1]
        /\ \A i \in 1..(j - 1) : queue'[i] = queue[i + 1]
    BY <1>0, <1>2 DEF Popped
  <2>2. PICK k \in DOMAIN queue : k = j + 1 /\ queue'[j] = queue[k]
    BY <2>1
  <2>3. Safe(t) \/ \E i \in 1..(k - 1) : queue[i] = TurnCommand(t)
    BY <2>2 DEF AheadInv
  <2>4. ASSUME NEW i \in 1..j, queue[i] = TurnCommand(t)
        PROVE  \/ Safe(t)'
               \/ \E h \in 1..(j - 1) : queue'[h] = TurnCommand(t)
    <3>1. CASE i = 1
      <4>1. Executing("turn") /\ t = Recorded
        BY <1>0, <1>2, <2>4, <3>1 DEF Popped, TurnCommand, Executing, Recorded
      <4>. QED BY <1>2, <4>1 DEF Popped
    <3>2. CASE i # 1
      <4>1. i - 1 \in 1..(j - 1) /\ queue'[i - 1] = queue[i]
        BY <2>1, <3>2
      <4>. QED BY <2>4, <4>1
    <3>. QED BY <3>1, <3>2
  <2>5. k - 1 = j
    BY <2>1, <2>2
  <2>. QED BY <1>0, <2>3, <2>4, <2>5
<1>3. CASE Lost
  BY <1>3 DEF Lost
<1>4. ASSUME NEW cmd \in Command, Appended(cmd)
      PROVE  \/ Safe(t)'
             \/ \E i \in 1..(j - 1) : queue'[i] = TurnCommand(t)
  <2>1. /\ Len(queue) \in Nat /\ DOMAIN queue = 1..Len(queue)
        /\ DOMAIN queue' = 1..(Len(queue) + 1)
        /\ \A i \in 1..Len(queue) : queue'[i] = queue[i]
        /\ queue'[Len(queue) + 1] = cmd
    BY <1>0, <1>4, AppendProperties DEF Appended
  <2>2. CASE j \in DOMAIN queue
    <3>1. queue'[j] = queue[j] /\ \A i \in 1..(j - 1) : queue'[i] = queue[i]
      BY <2>1, <2>2
    <3>. QED BY <1>0, <2>2, <3>1 DEF AheadInv
  <2>3. CASE j = Len(queue) + 1
    <3>1. t \in Elements(ender.turns)
      BY <1>4, <2>1, <2>3 DEF Appended, EndCommand
    <3>2. Sent(t)
      BY <3>1 DEF HeldInv
    <3>. QED BY <1>0, <2>1, <2>3, <3>2 DEF Sent
  <2>. QED BY <2>1, <2>2, <2>3
<1>. QED
  BY <1>1, <1>2, <1>3, <1>4, QueueMoves

\* What is loaded from the tables is on record, and so is a diagnosis the
\* writer executes: nothing is ahead of it in the queue.
LEMMA SourcesAreSafe ==
  ASSUME BaseInv, AheadInv
  PROVE  /\ \A s \in Session : \A t \in StoredTurns(s) : Safe(t)
         /\ Executing("diagnosis") => \A t \in Elements(Head(queue).turns) : Safe(t)
<1>1. \A x \in snapshots : x.row \in DOMAIN rows
  BY DEF BaseInv, TypeOK
<1>2. \A s \in Session : \A t \in StoredTurns(s) : Safe(t)
  BY <1>1 DEF StoredTurns, SnapshotsOf, Safe
<1>3. ASSUME Executing("diagnosis")
      PROVE  \A t \in Elements(Head(queue).turns) : Safe(t)
  <2>1. 1 \in DOMAIN queue /\ Head(queue) = queue[1]
    BY <1>3, EmptySeq DEF Executing, BaseInv, TypeOK
  <2>2. PICK j \in DOMAIN queue : j = 1 /\ Head(queue) = queue[j]
    BY <2>1
  <2>3. 1..(j - 1) = {}
    BY <2>2
  <2>. QED BY <1>3, <2>2, <2>3 DEF AheadInv, Executing
<1>. QED
  BY <1>2, <1>3

\* The readers and the writer store diagnoses of safe turns.
LEMMA NextKeepsReports ==
  BaseInv /\ AheadInv /\ ReportsInv /\ [Next]_vars => ReportsInv'
<1> SUFFICES ASSUME BaseInv, AheadInv, ReportsInv, [Next]_vars PROVE ReportsInv'
  OBVIOUS
<1> DEFINE Safely(T) == \A t \in T : Safe(t)
<1>0. \A t : Safe(t) => Safe(t)'
  BY SafeIsStable
<1>1. /\ \A s \in Session : Safely(StoredTurns(s)) /\ Safely(diagnosis[s])
      /\ Executing("diagnosis") => Safely(Elements(Head(queue).turns))
      /\ Safely(repair.turns) /\ Safely(review.turns) /\ Safely({})
  BY SourcesAreSafe DEF ReportsInv
<1>2. /\ repair \in Pass /\ diagnosis \in [Session -> SUBSET Turn]
      /\ review \in [at : {"rest", "write"}, session : Session, turns : SUBSET Turn]
  BY DEF BaseInv, TypeOK, Pass
<1>. HIDE DEF Safely
<1>3. Safely(repair'.turns)
  <2>1. CASE RepairRead
    <3>1. ASSUME NEW s \in Session, LoadTurns(s) PROVE Safely(repair'.turns)
      <4>1. repair'.turns = StoredTurns(s)
        BY <1>2, <3>1 DEF LoadTurns, Pass
      <4>. QED BY <1>1, <4>1
    <3>2. ASSUME NEW s \in Session, LookUpSummary(s) PROVE Safely(repair'.turns)
      BY <1>1, <1>2, <3>2 DEF LookUpSummary, Pass
    <3>3. CASE StartRepair \/ FindCandidates
      BY <1>1, <1>2, <3>3 DEF StartRepair, FindCandidates, Pass
    <3>4. CASE LookUpRecall \/ FinishRepair
      BY <1>1, <1>2, <3>4 DEF LookUpRecall, FinishRepair, AtRest, Pass
    <3>. QED BY <2>1, <3>1, <3>2, <3>3, <3>4 DEF RepairRead
  <2>2. CASE Crash \/ \E ok \in BOOLEAN : RepairStep(ok)
    BY <1>1, <1>2, <2>2 DEF Pass, Crash, AtRest, RepairStep, UpdateSummary,
         RepairDiagnosis, RepairRecall
  <2>3. CASE UNCHANGED repair
    BY <1>1, <2>3
  <2>. QED BY <2>1, <2>2, <2>3
       DEF Next, vars, readers, WriterStep, Persist, Remember, TakeTurns, LoadReview,
           Timeout, SendRecall, SendDiagnosis, InsertSession, InsertRequest, ReadNumber,
           InsertSnapshot, UpdateTotals, WriteRecall, WriteDiagnosis, WriteReview,
           Announce, Age, DeleteSnapshots
<1>4. Safely(review'.turns)
  <2>1. ASSUME NEW s \in Session, LoadReview(s) PROVE Safely(review'.turns)
    BY <1>1, <2>1 DEF LoadReview
  <2>2. CASE Crash \/ \E ok \in BOOLEAN : WriteReview(ok)
    BY <1>1, <1>2, <2>2 DEF Crash, WriteReview
  <2>3. CASE UNCHANGED review
    BY <1>1, <2>3
  <2>. QED BY <2>1, <2>2, <2>3
       DEF Next, vars, readers, WriterStep, RepairStep, RepairRead, RepairUnchanged,
           Persist, Remember, TakeTurns, Timeout, SendRecall, SendDiagnosis,
           InsertSession, InsertRequest, ReadNumber, InsertSnapshot, UpdateTotals, WriteRecall,
           WriteDiagnosis, UpdateSummary, RepairDiagnosis, RepairRecall, StartRepair,
           FindCandidates, LookUpRecall, FinishRepair, LookUpSummary, LoadTurns,
           Announce, Age, DeleteSnapshots
<1>5. ASSUME NEW s \in Session PROVE Safely(diagnosis'[s])
  <2>1. ASSUME NEW ok \in BOOLEAN, WriteDiagnosis(ok) PROVE Safely(diagnosis'[s])
    BY <1>1, <1>2, <2>1 DEF WriteDiagnosis
  <2>2. ASSUME NEW ok \in BOOLEAN, WriteReview(ok) PROVE Safely(diagnosis'[s])
    BY <1>1, <1>2, <2>2 DEF WriteReview
  <2>3. ASSUME NEW ok \in BOOLEAN, RepairDiagnosis(ok) PROVE Safely(diagnosis'[s])
    BY <1>1, <1>2, <2>3 DEF RepairDiagnosis
  <2>4. CASE UNCHANGED diagnosis
    BY <1>1, <2>4
  <2>. QED BY <2>1, <2>2, <2>3, <2>4
       DEF Next, vars, tables, WriterStep, RepairStep, RepairRead, RepairUnchanged,
           Persist, Remember, TakeTurns, LoadReview, Timeout, SendRecall,
           SendDiagnosis, InsertSession, InsertRequest, ReadNumber, InsertSnapshot, UpdateTotals,
           WriteRecall, UpdateSummary, RepairRecall, StartRepair, FindCandidates,
           LookUpRecall, FinishRepair, LookUpSummary, LoadTurns, Announce, Age,
           DeleteSnapshots, Crash
<1>. QED
  BY <1>0, <1>3, <1>4, <1>5 DEF Safely, ReportsInv

\* No stored diagnosis is about a turn that has no request row, but for the
\* turns a fault damaged: a diagnosis never overtakes what it is about.
THEOREM DiagnosesFollowTurns == Spec => []DiagnosesAreOnRecord
<1>1. Init => OriginInv
  BY DEF Init, OriginInv, HeldInv, AheadInv, ReportsInv, Elements
<1>2. BaseInv /\ OriginInv /\ [Next]_vars => OriginInv'
  BY NextKeepsHeld, NextKeepsAhead, NextKeepsReports DEF OriginInv
<1>3. OriginInv => DiagnosesAreOnRecord
  BY DEF OriginInv, ReportsInv, Safe, DiagnosesAreOnRecord
<1>. QED
  BY <1>1, <1>2, <1>3, BaseHolds, PTL DEF Spec

-----------------------------------------------------------------------------
(* A PostmortemReady event counts the turns of the life it is about.  None *)
(* of their rows is old enough for retention while somebody holds the      *)
(* life, since nothing is held for thirty days; so their snapshots are     *)
(* there when the event is made, and a turn without a row by then has a    *)
(* request_id that was taken, and never gets one.                          *)

Fresh(t) == \A i \in DOMAIN rows : rows[i] = t => i > aged

\* The turns of one life: of session s, and none of them old.
Life(s, turns) ==
  \A t \in Elements(turns) : SessionOf[t] = s /\ Fresh(t)

\* Turns before they are remembered.
StartInv ==
  \A t \in Turn :
    /\ phase[t] = "open" =>
         /\ \A i \in DOMAIN rows : rows[i] # t
         /\ \A i \in DOMAIN queue : queue[i] # TurnCommand(t)
    /\ phase[t] = "queued" => Fresh(t)

\* Lives in memory, with the monitor, and in the queue.
LivesInv ==
  /\ \A s \in Session : Life(s, live[s])
  /\ Life(ender.session, ender.turns)
  /\ ender.at = "scan" => ender.turns = <<>>
  /\ \A j \in DOMAIN queue : queue[j].op = "diagnosis" =>
       Life(queue[j].session, queue[j].turns)

\* Rows are appended, by InsertRequest, and are as many as they are.
LEMMA RowsGrow ==
  ASSUME BaseInv, [Next]_vars, rows' # rows
  PROVE  /\ rows' = Append(rows, Recorded) /\ Recorded \in Turn /\ UNCHANGED aged
         /\ Executing("turn") /\ ~ Duplicate(Recorded)
         /\ Len(rows) \in Nat /\ DOMAIN rows = 1..Len(rows)
         /\ DOMAIN rows' = 1..(Len(rows) + 1) /\ rows'[Len(rows) + 1] = Recorded
         /\ \A i \in DOMAIN rows : rows'[i] = rows[i]
<1>1. PICK ok \in BOOLEAN : InsertRequest(ok)
  <2>1. ~ Aside
    BY DEF Aside
  <2>2. ~ (Crash \/ DeleteSnapshots \/
             \E ok \in BOOLEAN : ReadNumber(ok) \/ InsertSnapshot(ok) \/ UpdateTotals(ok))
    BY DEF Crash, DeleteSnapshots, ReadNumber, InsertSnapshot, UpdateTotals, tables
  <2>. QED BY <2>1, <2>2, AsideSteps DEF Next, WriterStep
<1>2. /\ rows' = Append(rows, Recorded) /\ ~ Duplicate(Recorded) /\ UNCHANGED aged
      /\ Executing("turn")
  BY <1>1 DEF InsertRequest, BaseInv, WriterInv
<1>3. Recorded \in Turn /\ rows \in Seq(Turn)
  BY <1>2, HeadIsExecuted DEF BaseInv, TypeOK
<1>4. /\ Len(rows) \in Nat /\ DOMAIN rows = 1..Len(rows)
      /\ DOMAIN rows' = 1..(Len(rows) + 1) /\ rows'[Len(rows) + 1] = Recorded
      /\ \A i \in DOMAIN rows : rows'[i] = rows[i]
  BY <1>2, <1>3, AppendProperties
<1>. QED
  BY <1>2, <1>3, <1>4

\* Only time makes a turn old.
LEMMA FreshIsStable ==
  ASSUME BaseInv, [Next]_vars, UNCHANGED aged, NEW t, Fresh(t)
  PROVE  Fresh(t)'
<1>1. CASE rows' = rows
  BY <1>1 DEF Fresh
<1>2. CASE rows' # rows
  <2>1. aged \in 0..Len(rows)
    BY DEF BaseInv, TypeOK
  <2>. QED BY <1>2, <2>1, RowsGrow DEF Fresh
<1>. QED
  BY <1>1, <1>2

\* And only when nobody holds one.
LEMMA AgedIsQuiet ==
  ASSUME BaseInv, [Next]_vars, aged' # aged
  PROVE  Quiet /\ UNCHANGED <<tasks, queue, rows>>
<1>1. CASE \E n \in 1..Len(rows) : Age(n)
  BY <1>1 DEF Age, tables
<1>. QED
  BY <1>1 DEF Next, vars, tables, ghosts, ledger, WriterStep, RepairStep, RepairRead,
      RepairUnchanged, Persist, Remember, TakeTurns, LoadReview, Timeout,
      SendRecall, SendDiagnosis, InsertSession, InsertRequest, ReadNumber, InsertSnapshot,
      UpdateTotals, WriteRecall, WriteDiagnosis, UpdateSummary, RepairDiagnosis,
      RepairRecall, WriteReview, Announce, StartRepair, FindCandidates,
      LookUpRecall, FinishRepair, LookUpSummary, LoadTurns, DeleteSnapshots, Crash

\* The commands that are in the queue after a step.
LEMMA QueueElements ==
  ASSUME BaseInv, [Next]_vars, NEW j \in DOMAIN queue'
  PROVE  \/ \E i \in DOMAIN queue : queue'[j] = queue[i]
         \/ \E cmd \in Command : Appended(cmd) /\ queue'[j] = cmd
<1>1. queue \in Seq(Command)
  BY DEF BaseInv, TypeOK
<1>2. CASE Popped
  <2>1. j + 1 \in DOMAIN queue /\ queue'[j] = queue[j + 1]
    BY <1>1, <1>2 DEF Popped
  <2>. QED BY <2>1
<1>3. ASSUME NEW cmd \in Command, Appended(cmd)
      PROVE  (\E i \in DOMAIN queue : queue'[j] = queue[i]) \/ queue'[j] = cmd
  BY <1>1, <1>3, AppendProperties DEF Appended
<1>4. CASE Lost
  BY <1>4 DEF Lost
<1>. QED
  BY <1>2, <1>3, <1>4, QueueMoves

\* Still a life after the step.
LifeNext(s, turns) ==
  \A t \in Elements(turns) : SessionOf[t] = s /\ Fresh(t)'

\* A life stays one, unless thirty days pass.
LEMMA LifeIsStable ==
  ASSUME BaseInv, [Next]_vars, UNCHANGED aged, NEW s, NEW turns, Life(s, turns)
  PROVE  LifeNext(s, turns)
  BY FreshIsStable DEF Life, LifeNext

\* Turns start unrecorded, and are remembered while they are fresh.
LEMMA NextKeepsStart == BaseInv /\ StartInv /\ [Next]_vars => StartInv'
<1> SUFFICES ASSUME BaseInv, StartInv, [Next]_vars, NEW t \in Turn
             PROVE  /\ phase'[t] = "open" =>
                         /\ \A i \in DOMAIN rows' : rows'[i] # t
                         /\ \A i \in DOMAIN queue' : queue'[i] # TurnCommand(t)
                    /\ phase'[t] = "queued" => Fresh(t)'
  BY DEF StartInv, TurnCommand
<1>1. /\ phase'[t] = "open" => phase[t] = "open"
      /\ phase'[t] = "queued" => phase[t] \in {"open", "queued"}
  <2>1. phase \in [Turn -> {"open", "queued", "done"}]
    BY DEF BaseInv, TypeOK
  <2>2. ASSUME NEW u \in Turn, Persist(u) \/ Remember(u)
        PROVE  /\ phase'[t] = "open" => phase[t] = "open"
               /\ phase'[t] = "queued" => phase[t] \in {"open", "queued"}
    BY <2>1, <2>2 DEF Persist, Remember
  <2>3. CASE Crash
    BY <2>1, <2>3 DEF Crash
  <2>4. CASE UNCHANGED phase
    BY <2>1, <2>4
  <2>. QED BY <2>2, <2>3, <2>4
    DEF Next, vars, tasks, WriterStep, RepairStep, RepairRead, RepairUnchanged,
        TakeTurns, LoadReview, Timeout, SendRecall, SendDiagnosis, InsertSession,
        InsertRequest, ReadNumber, InsertSnapshot, UpdateTotals, WriteRecall, WriteDiagnosis,
        UpdateSummary, RepairDiagnosis, RepairRecall, WriteReview, Announce,
        StartRepair, FindCandidates, LookUpRecall, FinishRepair, LookUpSummary,
        LoadTurns, Age, DeleteSnapshots
<1>2. ASSUME phase'[t] = "open"
      PROVE  /\ \A i \in DOMAIN rows' : rows'[i] # t
             /\ \A i \in DOMAIN queue' : queue'[i] # TurnCommand(t)
  <2>1. /\ \A i \in DOMAIN rows : rows[i] # t
        /\ \A i \in DOMAIN queue : queue[i] # TurnCommand(t)
    BY <1>1, <1>2 DEF StartInv
  <2>2. \A i \in DOMAIN queue' : queue'[i] # TurnCommand(t)
    BY <1>2, <2>1, QueueElements DEF Appended
  <2>3. Executing("turn") => Recorded # t
    <3>1. SUFFICES ASSUME Executing("turn"), Recorded = t PROVE FALSE
      OBVIOUS
    <3>2. Head(queue) = TurnCommand(t) /\ queue # <<>> /\ queue \in Seq(Command)
      BY <3>1, HeadIsExecuted, TypeParts DEF BaseInv, QueueOK, Executing
    <3>3. 1 \in DOMAIN queue /\ queue[1] = TurnCommand(t)
      BY ONLY <3>2, EmptySeq
    <3>. QED BY ONLY <2>1, <3>3
  <2>4. \A i \in DOMAIN rows' : rows'[i] # t
    <3>1. CASE rows' # rows
      BY <2>1, <2>3, <3>1, RowsGrow
    <3>. QED BY <2>1, <3>1
  <2>. QED BY <2>2, <2>4
<1>3. ASSUME phase'[t] = "queued" PROVE Fresh(t)'
  <2>1. Fresh(t)
    BY <1>1, <1>3 DEF StartInv, Fresh
  <2>2. CASE UNCHANGED aged
    BY <2>1, <2>2, FreshIsStable
  <2>3. CASE aged' # aged
    BY <1>1, <1>3, <2>3, AgedIsQuiet DEF Quiet, tasks, StartInv, Fresh
  <2>. QED BY <2>2, <2>3
<1>. QED
  BY <1>2, <1>3

\* Lives are made of fresh turns, and handed on whole.
LEMMA NextKeepsLives ==
  BaseInv /\ StartInv /\ LivesInv /\ [Next]_vars => LivesInv'
<1> SUFFICES ASSUME BaseInv, StartInv, LivesInv, [Next]_vars
             PROVE  /\ \A s \in Session : LifeNext(s, live'[s])
                    /\ LifeNext(ender'.session, ender'.turns)
                    /\ ender'.at = "scan" => ender'.turns = <<>>
                    /\ \A j \in DOMAIN queue' : queue'[j].op = "diagnosis" =>
                         LifeNext(queue'[j].session, queue'[j].turns)
  BY DEF LivesInv, Life, LifeNext, Elements
<1>0. /\ live \in [Session -> Seq(Turn)] /\ ender.turns \in Seq(Turn)
      /\ ender \in [at : {"scan", "recall", "diagnosis"},
                    session : Session, turns : Seq(Turn)]
  BY DEF BaseInv, TypeOK
<1>1. \A s : LifeNext(s, <<>>)
  BY DEF LifeNext, Elements
<1>2. CASE aged' # aged
  <2>1. Quiet /\ UNCHANGED <<tasks, queue>>
    BY <1>2, AgedIsQuiet
  <2>2. \A s \in Session : live'[s] = <<>>
    BY <2>1 DEF Quiet, tasks
  <2>3. ender'.turns = <<>> /\ queue' = <<>>
    BY <2>1 DEF Quiet, tasks, LivesInv
  <2>. QED BY <1>1, <2>2, <2>3
<1>3. CASE UNCHANGED aged
  <2>1. \A s, turns : Life(s, turns) => LifeNext(s, turns)
    BY <1>3, LifeIsStable
  <2>2. ASSUME NEW j \in DOMAIN queue', queue'[j].op = "diagnosis"
        PROVE  LifeNext(queue'[j].session, queue'[j].turns)
    <3>1. ASSUME NEW i \in DOMAIN queue, queue'[j] = queue[i]
          PROVE  Life(queue'[j].session, queue'[j].turns)
      BY <2>2, <3>1 DEF LivesInv
    <3>2. ASSUME NEW cmd \in Command, Appended(cmd), queue'[j] = cmd
          PROVE  Life(queue'[j].session, queue'[j].turns)
      BY <2>2, <3>2 DEF LivesInv, Appended, EndCommand
    <3>. QED BY <2>1, <3>1, <3>2, QueueElements
  <2>3. ASSUME NEW s \in Session PROVE LifeNext(s, live'[s])
    <3>1. ASSUME NEW t \in Turn, Remember(t) PROVE LifeNext(s, live'[s])
      <4>1. CASE s # SessionOf[t]
        BY <1>0, <2>1, <3>1, <4>1 DEF Remember, LivesInv
      <4>2. CASE s = SessionOf[t]
        <5>1. live'[s] = Append(live[s], t) /\ LifeNext(s, live[s]) /\ live[s] \in Seq(Turn)
          BY <1>0, <2>1, <3>1, <4>2 DEF Remember, LivesInv
        <5>2. Fresh(t)'
          BY <1>3, <3>1, FreshIsStable DEF Remember, StartInv
        <5>3. \A i \in DOMAIN live'[s] :
                \/ live'[s][i] = t
                \/ i \in DOMAIN live[s] /\ live'[s][i] = live[s][i]
          BY <5>1, AppendProperties
        <5>. QED BY <4>2, <5>1, <5>2, <5>3 DEF LifeNext, Elements
      <4>. QED BY <4>1, <4>2
    <3>2. CASE live'[s] = live[s] \/ live'[s] = <<>>
      BY <1>1, <2>1, <3>2 DEF LivesInv
    <3>3. ASSUME NEW r \in Session, TakeTurns(r)
          PROVE  live'[s] = live[s] \/ live'[s] = <<>>
      BY <1>0, <3>3 DEF TakeTurns
    <3>4. Crash => live'[s] = <<>>
      BY DEF Crash
    <3>. QED BY <3>1, <3>2, <3>3, <3>4
      DEF Next, vars, tasks, WriterStep, RepairStep, RepairRead, RepairUnchanged,
          Persist, LoadReview, Timeout, SendRecall, SendDiagnosis, InsertSession,
          InsertRequest, ReadNumber, InsertSnapshot, UpdateTotals, WriteRecall, WriteDiagnosis,
          UpdateSummary, RepairDiagnosis, RepairRecall, WriteReview, Announce,
          StartRepair, FindCandidates, LookUpRecall, FinishRepair, LookUpSummary,
          LoadTurns, Age, DeleteSnapshots
  <2>4. /\ LifeNext(ender'.session, ender'.turns)
        /\ ender'.at = "scan" => ender'.turns = <<>>
    <3>1. ASSUME NEW s \in Session, TakeTurns(s)
          PROVE  LifeNext(ender'.session, ender'.turns) /\ ender'.at # "scan"
      BY <2>1, <3>1 DEF TakeTurns, LivesInv
    <3>2. ASSUME SendRecall \/ SendDiagnosis \/ Crash
          PROVE  /\ ender'.session = ender.session
                 /\ \/ ender'.turns = ender.turns /\ ender'.at # "scan"
                    \/ ender'.turns = <<>>
      BY <1>0, <3>2 DEF SendRecall, SendDiagnosis, Crash
    <3>3. CASE SendRecall \/ SendDiagnosis \/ Crash
      BY <1>1, <2>1, <3>2, <3>3 DEF LivesInv
    <3>4. CASE UNCHANGED ender
      BY <2>1, <3>4 DEF LivesInv
    <3>. QED BY <3>1, <3>3, <3>4
      DEF Next, vars, tasks, WriterStep, RepairStep, RepairRead, RepairUnchanged,
          Persist, Remember, LoadReview, Timeout, InsertSession,
          InsertRequest, ReadNumber, InsertSnapshot, UpdateTotals, WriteRecall, WriteDiagnosis,
          UpdateSummary, RepairDiagnosis, RepairRecall, WriteReview, Announce,
          StartRepair, FindCandidates, LookUpRecall, FinishRepair, LookUpSummary,
          LoadTurns, Age, DeleteSnapshots
  <2>. QED BY <2>2, <2>3, <2>4
<1>. QED
  BY <1>2, <1>3

\* A new event has the snapshots of all its turns; an old one misses no row,
\* since a turn whose request_id is on record is never inserted.
LEMMA NextKeepsReady ==
  BaseInv /\ Kept /\ AheadInv /\ LivesInv /\ ReadyCoversLife /\ [Next]_vars
    => ReadyCoversLife'
<1> SUFFICES ASSUME BaseInv, Kept, AheadInv, LivesInv, ReadyCoversLife, [Next]_vars,
                    NEW e \in ready', NEW t \in e.life, t \notin damaged'
             PROVE  /\ \E i \in DOMAIN rows' : RequestOf[rows'[i]] = RequestOf[t]
                    /\ t \in Elements(rows') => t \in e.turns
  BY DEF ReadyCoversLife
<1>1. CASE e \in ready
  <2>1. t \notin damaged
    BY DamageStays
  <2>2. PICK i \in DOMAIN rows : RequestOf[rows[i]] = RequestOf[t]
    BY <1>1, <2>1 DEF ReadyCoversLife
  <2>3. t \in Elements(rows) => t \in e.turns
    BY <1>1, <2>1 DEF ReadyCoversLife
  <2>4. CASE rows' # rows
    <3>1. Recorded # t
      BY <2>2, <2>4, RowsGrow DEF Duplicate
    <3>2. t \in Elements(rows') => t \in Elements(rows)
      BY <2>4, <3>1, RowsGrow DEF Elements
    <3>3. i \in DOMAIN rows' /\ rows'[i] = rows[i]
      BY <2>4, RowsGrow
    <3>. QED BY <2>2, <2>3, <3>2, <3>3
  <2>. QED BY <2>2, <2>3, <2>4
<1>2. CASE e \notin ready
  <2>1. Announce
    BY <1>2 DEF Next, vars, ghosts, WriterStep, RepairStep, RepairRead,
         RepairUnchanged, Persist, Remember, TakeTurns, LoadReview, Timeout,
         SendRecall, SendDiagnosis, InsertSession, InsertRequest, ReadNumber, InsertSnapshot,
         UpdateTotals, WriteRecall, WriteDiagnosis, UpdateSummary, RepairDiagnosis,
         RepairRecall, WriteReview, StartRepair, FindCandidates, LookUpRecall,
         FinishRepair, LookUpSummary, LoadTurns, Age, DeleteSnapshots, Crash
  <2>2. /\ UNCHANGED <<rows, damaged>> /\ writer = "announce"
        /\ Executing("diagnosis")
        /\ e.life = Elements(Head(queue).turns) /\ e.turns = ReadyTurns(Target)
    BY <1>2, <2>1 DEF Announce, tables, BaseInv, WriterInv
  <2>3. 1 \in DOMAIN queue /\ Head(queue) = queue[1]
    BY <2>2, EmptySeq DEF Executing, BaseInv, TypeOK
  <2>4. SessionOf[t] = Target /\ Fresh(t)
    BY <2>2, <2>3 DEF LivesInv, Life, Executing, Target
  <2>5. Safe(t) /\ t \notin damaged
    BY <2>2, SourcesAreSafe
  <2>6. ASSUME NEW i \in DOMAIN rows, rows[i] = t PROVE t \in e.turns
    <3>1. i \in (aged + 1)..Len(rows)
      BY <2>4, <2>6 DEF Fresh, BaseInv, TypeOK
    <3>2. PICK x \in snapshots : x.row = i
      BY <2>2, <2>5, <2>6, <3>1 DEF Kept
    <3>3. x \in SnapshotsOf(Target) /\ t = rows[x.row]
      BY <2>4, <2>6, <3>2 DEF SnapshotsOf
    <3>. QED BY <2>2, <3>3 DEF ReadyTurns, StoredTurns
  <2>. QED BY <2>2, <2>5, <2>6 DEF Safe, Elements
<1>. QED
  BY <1>1, <1>2

\* Whoever follows a PostmortemReady event finds the whole life on record, and
\* in the totals of the event; a turn is missing only if a fault damaged it.
THEOREM EventsCoverTheirLife == Spec => []ReadyCoversLife
<1>1. ASSUME Init PROVE /\ Kept /\ HeldInv /\ AheadInv
                        /\ StartInv /\ LivesInv /\ ReadyCoversLife
  BY <1>1 DEF Init, Kept, HeldInv, AheadInv, StartInv, LivesInv, Life, Elements,
              ReadyCoversLife
<1>. QED
  BY <1>1, NextKeepsKept, NextKeepsHeld, NextKeepsAhead, NextKeepsStart,
     NextKeepsLives, NextKeepsReady, BaseHolds, PTL DEF Spec
=============================================================================
