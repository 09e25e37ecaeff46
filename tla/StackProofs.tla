----------------------------- MODULE StackProofs -----------------------------
(***************************************************************************)
(* Whatever version, crash or failed statement the database was left by,   *)
(* and however many readers initialize it at the same time, the writer     *)
(* thread serves the current schema, and only those readers can stop it or *)
(* put old causes back: ServingIsWhole and OnlyReadersDoHarm for every set *)
(* of columns, blocks, connections, sessions and processes.                *)
(*                                                                         *)
(* Both follow from one inductive invariant: what each connection has      *)
(* behind it (Staged), whom a change it did not look for may hit (Warned), *)
(* which rows it still has to filter (Listed), and whose causes are old    *)
(* (Attributed).                                                           *)
(***************************************************************************)
EXTENDS Stack, TLAPS

Column == Added \cup Dropped \cup Legacy
Row == [report : Nat, causes : Nat, clean : BOOLEAN]
Command == [session : Session, report : Nat]
Copies == UNION {[S -> Nat] : S \in SUBSET Session}
Phase == {"off", "schema", "look", "alter", "windows", "causes", "update",
          "serving", "dead"}

DatabaseOK ==
  /\ tables \subseteq Table /\ columns \subseteq Column /\ windows \in BOOLEAN
  /\ DOMAIN diagnoses \subseteq Session
  /\ diagnoses \in [DOMAIN diagnoses -> Row]
ThreadsOK ==
  /\ phase \in [Conn -> Phase] /\ block \in [Conn -> Nat \ {0}]
  /\ pending \in [Conn -> SUBSET Column] /\ copies \in [Conn -> Copies]
  /\ queue \in Seq(Command)
GhostsOK ==
  /\ reports \in Nat /\ raced \subseteq Conn /\ overlapped \subseteq Session
  /\ faults \in Nat /\ scope \in Scope

(* The state of the migration and of the ghosts has the types stated above. *)
MigrationTypeOK == DatabaseOK /\ ThreadsOK /\ GhostsOK

(* What the phase of a connection says of the database: the statements it  *)
(* has behind it still hold, since no statement undoes another.            *)
StagedAt(c) ==
  /\ phase[c] = "schema" => block[c] = 1
  /\ phase[c] \notin {"off", "schema", "dead"} => tables = Table
  /\ phase[c] \in {"look", "alter"} =>
       \A b \in DOMAIN Blocks : b < block[c] => \A a \in Blocks[b] : Whole(a)
  /\ phase[c] = "alter" =>
       /\ block[c] \in DOMAIN Blocks
       /\ \A a \in Blocks[block[c]] \ pending[c] : Whole(a)
  /\ phase[c] \in {"windows", "causes", "update", "serving"} =>
       \A a \in Column : Whole(a)
  /\ phase[c] \in {"causes", "update", "serving"} => windows

Staged == \A c \in Conn : StagedAt(c)

\* What a connection looked up it keeps for one phase only.
Held ==
  \A c \in Conn :
    /\ pending[c] # {} => phase[c] = "alter"
    /\ DOMAIN copies[c] # {} => phase[c] = "update"

(* A column that is about to be altered and needs it no more was altered by *)
(* another connection, and that is what the writer thread stops over.       *)
Warned ==
  /\ \A c \in Conn : \A a \in pending[c] : Whole(a) => a \in Legacy \/ c \in raced
  /\ phase[Writer] = "dead" => Writer \in raced \/ faults > 0

(* A row that still has the causes of other providers is one that every    *)
(* connection past its SELECT has still to write.                          *)
Listed ==
  \A c \in Conn, s \in DOMAIN diagnoses : ~diagnoses[s].clean =>
    phase[c] # "serving" /\ (phase[c] = "update" => s \in DOMAIN copies[c])

(* Causes of another analysis than the row's, stored or about to be, belong *)
(* to a session that was diagnosed while a reader held a copy.              *)
Attributed ==
  /\ \A s \in DOMAIN diagnoses :
       diagnoses[s].causes # diagnoses[s].report => s \in overlapped
  /\ \A c \in Conn : \A s \in DOMAIN copies[c] :
       /\ s \in DOMAIN diagnoses
       /\ copies[c][s] # diagnoses[s].report => s \in overlapped

IInv == MigrationTypeOK /\ Staged /\ Held /\ Warned /\ Listed /\ Attributed

-----------------------------------------------------------------------------
(* The blocks are numbered from 1 and make up the columns. *)
LEMMA BlocksCover ==
  /\ Len(Blocks) \in Nat /\ DOMAIN Blocks = 1..Len(Blocks)
  /\ \A b \in DOMAIN Blocks : Blocks[b] \subseteq Column
  /\ \A a \in Column : \E b \in DOMAIN Blocks : a \in Blocks[b]
BY BlocksAssumption DEF Column

(* No copies are a function without arguments. *)
LEMMA NoCopiesIsEmpty == NoCopies \in Copies /\ DOMAIN NoCopies = {}
<1>1. NoCopies \in [{} -> Nat] /\ DOMAIN NoCopies = {}
  BY DEF NoCopies
<1> QED BY <1>1 DEF Copies

(* A step that changes no variable of the migration keeps the invariant. *)
LEMMA Frame == IInv /\ UNCHANGED <<migrationVars, scope>> => IInv'
<1> SUFFICES ASSUME IInv, UNCHANGED <<migrationVars, scope>> PROVE IInv'
  OBVIOUS
<1> USE DEF migrationVars, database, threads, ghosts
<1>1. MigrationTypeOK'
  BY DEF IInv, MigrationTypeOK, DatabaseOK, ThreadsOK, GhostsOK
<1>2. Staged'
  BY DEF IInv, Staged, StagedAt, Whole, Present
<1>3. Held' /\ Warned'
  BY DEF IInv, Held, Warned, Whole, Present
<1>4. Listed' /\ Attributed'
  BY DEF IInv, Listed, Attributed
<1> QED BY <1>1, <1>2, <1>3, <1>4 DEF IInv

(* The first states satisfy it: nothing is running. *)
LEMMA Initially == Init => IInv
<1> SUFFICES ASSUME Init PROVE IInv
  OBVIOUS
<1> USE DEF Init, MigrationInit
<1>1. DatabaseOK /\ \A s \in DOMAIN diagnoses : diagnoses[s].causes = diagnoses[s].report
  <2>1. CASE tables = {} /\ columns = {} /\ windows = TRUE /\ diagnoses = <<>>
    BY <2>1 DEF DatabaseOK
  <2>2. CASE /\ tables = Table /\ columns \in Upgraded /\ windows = FALSE
             /\ diagnoses \in [Session -> [report : {0}, causes : {0}, clean : {FALSE}]]
    <3>0. ASSUME NEW r \in [report : {0}, causes : {0}, clean : {FALSE}]
          PROVE  r \in Row
      <4>1. r.report \in Nat /\ r.causes \in Nat
        OBVIOUS
      <4>2. r.clean \in {FALSE} /\ r = [report |-> r.report, causes |-> r.causes, clean |-> r.clean]
        OBVIOUS
      <4> QED BY <4>1, <4>2 DEF Row
    <3>1. DOMAIN diagnoses = Session /\ diagnoses \in [Session -> Row]
      BY <2>2, <3>0
    <3>2. \A s \in Session : diagnoses[s].causes = 0 /\ diagnoses[s].report = 0
      BY <2>2
    <3> QED BY <2>2, <3>1, <3>2, UpgradedAssumption DEF DatabaseOK, Column
  <2> QED BY <2>1, <2>2
<1>2. ThreadsOK /\ GhostsOK
  BY NoCopiesIsEmpty DEF ThreadsOK, GhostsOK, Phase
<1>3. Staged /\ Held /\ Warned
  BY NoCopiesIsEmpty DEF Staged, StagedAt, Held, Warned, Conn
<1>4. Listed /\ Attributed
  BY <1>1, NoCopiesIsEmpty DEF Listed, Attributed
<1> QED BY <1>1, <1>2, <1>3, <1>4 DEF IInv, MigrationTypeOK

-----------------------------------------------------------------------------
(* The steps of the initialization.                                        *)

(* A reader's connection has nothing behind it and nobody to be warned of. *)
LEMMA OpenReaderKeeps ==
  ASSUME IInv, NEW c \in Reader, OpenReader(c), UNCHANGED scope
  PROVE  IInv'
<1> USE DEF IInv, OpenReader, Goto, database
<1>0. c \in Conn /\ c # Writer
  BY ConnAssumption DEF Conn
<1>1. MigrationTypeOK'
  BY <1>0 DEF MigrationTypeOK, DatabaseOK, ThreadsOK, GhostsOK, Phase
<1>2. Staged'
  BY <1>0 DEF Staged, StagedAt, Whole, Present, MigrationTypeOK, ThreadsOK
<1>3. Held' /\ Warned'
  BY <1>0 DEF Held, Warned, Whole, Present, MigrationTypeOK, ThreadsOK
<1>4. Listed' /\ Attributed'
  BY <1>0 DEF Listed, Attributed, MigrationTypeOK, ThreadsOK
<1> QED BY <1>1, <1>2, <1>3, <1>4

(* A table that is created is a current one: no column is less whole than  *)
(* before, and none that another connection is about to alter is touched,  *)
(* for that connection had found every table.                              *)
LEMMA CreateKeeps ==
  ASSUME IInv, NEW c \in Conn, Create(c), UNCHANGED scope
  PROVE  IInv'
<1> USE DEF IInv
<1>1. CASE \E t \in Table \ tables :
             /\ tables' = tables \cup {t}
             /\ columns' = columns \cup {a \in Added : a[1] = t}
             /\ UNCHANGED phase
  <2>0. PICK t \in Table \ tables :
             /\ tables' = tables \cup {t}
             /\ columns' = columns \cup {a \in Added : a[1] = t}
             /\ UNCHANGED phase
    BY <1>1
  <2> USE <2>0 DEF Create, ghosts
  <2>1. \A d \in Conn : phase[d] \in {"off", "schema", "dead"} /\ pending[d] = {}
    BY DEF Staged, StagedAt, Held, MigrationTypeOK, ThreadsOK
  <2>2. MigrationTypeOK'
    BY DEF MigrationTypeOK, DatabaseOK, ThreadsOK, GhostsOK, Column
  <2>3. Staged' /\ Held' /\ Warned'
    BY <2>1 DEF Staged, StagedAt, Held, Warned
  <2>4. Listed' /\ Attributed'
    BY DEF Listed, Attributed
  <2> QED BY <2>2, <2>3, <2>4
<1>2. CASE Table \subseteq tables /\ Goto(c, "look") /\ UNCHANGED <<tables, columns>>
  <2> USE <1>2 DEF Create, ghosts, Goto
  <2>1. MigrationTypeOK'
    BY DEF MigrationTypeOK, DatabaseOK, ThreadsOK, GhostsOK, Phase
  <2>2. Staged'
    <3> SUFFICES ASSUME NEW d \in Conn PROVE StagedAt(d)'
      BY DEF Staged
    <3>1. tables = Table
      BY DEF MigrationTypeOK, DatabaseOK
    <3>2. CASE d = c
      <4>1. phase'[d] = "look" /\ block'[d] = 1
        BY <3>2 DEF Staged, StagedAt, MigrationTypeOK, ThreadsOK
      <4>2. \A b \in DOMAIN Blocks : ~(b < 1)
        BY BlocksCover
      <4> QED BY <3>1, <4>1, <4>2 DEF StagedAt
    <3>3. CASE d # c
      BY <3>1, <3>3 DEF Staged, StagedAt, Whole, Present, MigrationTypeOK, ThreadsOK
    <3> QED BY <3>2, <3>3
  <2>3. Held' /\ Warned'
    BY DEF Held, Warned, Whole, Present, MigrationTypeOK, ThreadsOK
  <2>4. Listed' /\ Attributed'
    BY DEF Listed, Attributed, MigrationTypeOK, ThreadsOK
  <2> QED BY <2>1, <2>2, <2>3, <2>4
<1> QED BY <1>1, <1>2 DEF Create

(* What is not pending after the look of a block is whole, and what is     *)
(* pending is not, but for a legacy table.                                 *)
LEMMA LookKeeps ==
  ASSUME IInv, NEW c \in Conn, Look(c), UNCHANGED scope
  PROVE  IInv'
<1> USE DEF IInv, Look, Goto, database, ghosts
<1>1. CASE /\ block[c] <= Len(Blocks)
           /\ pending' = [pending EXCEPT ![c] = Missing(block[c]) \cup Obsolete(block[c])]
           /\ Goto(c, "alter")
  <2> USE <1>1
  <2>1. block[c] \in DOMAIN Blocks /\ Blocks[block[c]] \subseteq Column
    BY BlocksCover DEF MigrationTypeOK, ThreadsOK
  <2>2. pending'[c] \subseteq Column /\ phase'[c] = "alter"
    BY <2>1 DEF Missing, Obsolete, MigrationTypeOK, ThreadsOK
  <2>3. \A a \in pending'[c] : Whole(a) => a \in Legacy
    BY ColumnsAssumption DEF Missing, Obsolete, Whole, MigrationTypeOK, ThreadsOK
  <2>4. \A a \in Blocks[block[c]] \ pending'[c] : Whole(a)
    BY <2>1, ColumnsAssumption
    DEF Missing, Obsolete, Whole, Column, MigrationTypeOK, ThreadsOK
  <2>5. MigrationTypeOK'
    BY <2>2 DEF MigrationTypeOK, DatabaseOK, ThreadsOK, GhostsOK, Phase
  <2>6. Staged'
    <3> SUFFICES ASSUME NEW d \in Conn PROVE StagedAt(d)'
      BY DEF Staged
    <3>1. CASE d = c
      BY <2>1, <2>2, <2>4, <3>1 DEF Staged, StagedAt, Whole, Present
    <3>2. CASE d # c
      BY <3>2 DEF Staged, StagedAt, Whole, Present, MigrationTypeOK, ThreadsOK
    <3> QED BY <3>1, <3>2
  <2>7. Held' /\ Warned'
    BY <2>2, <2>3 DEF Held, Warned, Whole, Present, MigrationTypeOK, ThreadsOK
  <2>8. Listed' /\ Attributed'
    BY DEF Listed, Attributed, MigrationTypeOK, ThreadsOK
  <2> QED BY <2>5, <2>6, <2>7, <2>8
<1>2. CASE ~(block[c] <= Len(Blocks)) /\ Goto(c, "windows") /\ UNCHANGED pending
  <2> USE <1>2
  <2>1. \A a \in Column : Whole(a)
    <3>1. \A b \in DOMAIN Blocks : b < block[c]
      BY BlocksCover DEF MigrationTypeOK, ThreadsOK
    <3> QED BY <3>1, BlocksCover DEF Staged, StagedAt
  <2>2. MigrationTypeOK'
    BY DEF MigrationTypeOK, DatabaseOK, ThreadsOK, GhostsOK, Phase
  <2>3. Staged'
    BY <2>1 DEF Staged, StagedAt, Whole, Present, MigrationTypeOK, ThreadsOK
  <2>4. Held' /\ Warned'
    BY DEF Held, Warned, Whole, Present, MigrationTypeOK, ThreadsOK
  <2>5. Listed' /\ Attributed'
    BY DEF Listed, Attributed, MigrationTypeOK, ThreadsOK
  <2> QED BY <2>2, <2>3, <2>4, <2>5
<1> QED BY <1>1, <1>2

(* A connection that stops has nothing behind it; the writer thread stops  *)
(* with a reason.                                                          *)
LEMMA StopKeeps ==
  ASSUME IInv, NEW c \in Conn, Stop(c), UNCHANGED <<scope, reports, raced, overlapped>>,
         faults' \in Nat, faults' >= faults,
         c = Writer => Writer \in raced \/ faults' > 0
  PROVE  IInv'
<1> USE DEF IInv, Stop, Goto, database
<1>0. phase'[c] \in {"off", "dead"} /\ pending'[c] = {} /\ copies'[c] = NoCopies
  BY DEF MigrationTypeOK, ThreadsOK
<1>1. MigrationTypeOK'
  BY NoCopiesIsEmpty DEF MigrationTypeOK, DatabaseOK, ThreadsOK, GhostsOK, Phase
<1>2. Staged'
  BY <1>0 DEF Staged, StagedAt, Whole, Present, MigrationTypeOK, ThreadsOK
<1>3. Held'
  BY <1>0, NoCopiesIsEmpty DEF Held, MigrationTypeOK, ThreadsOK
<1>4. Warned'
  BY <1>0 DEF Warned, Whole, Present, MigrationTypeOK, ThreadsOK, GhostsOK
<1>5. Listed' /\ Attributed'
  BY <1>0, NoCopiesIsEmpty DEF Listed, Attributed, MigrationTypeOK, ThreadsOK
<1> QED BY <1>1, <1>2, <1>3, <1>4, <1>5

(* An injected failure is its own reason. *)
LEMMA FailStatementKeeps ==
  ASSUME IInv, NEW c \in Conn, FailStatement(c), UNCHANGED scope
  PROVE  IInv'
<1>1. /\ faults' \in Nat /\ faults' >= faults /\ faults' > 0
      /\ Stop(c) /\ UNCHANGED <<reports, raced, overlapped>>
  BY DEF FailStatement, IInv, MigrationTypeOK, GhostsOK
<1> QED BY <1>1, StopKeeps

(* One altered column becomes whole, the others stay what they are, and    *)
(* whoever else was about to alter it is raced.                            *)
LEMMA AlterKeeps ==
  ASSUME IInv, NEW c \in Conn, Alter(c), UNCHANGED scope
  PROVE  IInv'
<1> USE DEF IInv
<1>0. phase[c] = "alter"
  BY DEF Alter
<1>1. CASE /\ pending[c] = {}
           /\ Goto(c, "look") /\ block' = [block EXCEPT ![c] = @ + 1]
           /\ UNCHANGED <<database, pending, copies, queue, ghosts>>
  <2> USE <1>0, <1>1 DEF Goto, database, ghosts
  <2>1. MigrationTypeOK'
    BY DEF MigrationTypeOK, DatabaseOK, ThreadsOK, GhostsOK, Phase
  <2>2. Staged'
    <3> SUFFICES ASSUME NEW d \in Conn PROVE StagedAt(d)'
      BY DEF Staged
    <3>1. CASE d = c
      <4>1. phase'[d] = "look" /\ block'[d] = block[c] + 1 /\ block[c] \in Nat
        BY <3>1 DEF MigrationTypeOK, ThreadsOK
      <4>2. \A b \in DOMAIN Blocks : b < block[c] + 1 => b < block[c] \/ b = block[c]
        BY <4>1, BlocksCover
      <4>3. \A b \in DOMAIN Blocks : b < block[c] + 1 => \A a \in Blocks[b] : Whole(a)
        BY <4>2 DEF Staged, StagedAt
      <4> QED BY <4>1, <4>3 DEF Staged, StagedAt, Whole, Present
    <3>2. CASE d # c
      BY <3>2 DEF Staged, StagedAt, Whole, Present, MigrationTypeOK, ThreadsOK
    <3> QED BY <3>1, <3>2
  <2>3. Held' /\ Warned'
    BY DEF Held, Warned, Whole, Present, MigrationTypeOK, ThreadsOK
  <2>4. Listed' /\ Attributed'
    BY DEF Listed, Attributed, MigrationTypeOK, ThreadsOK
  <2> QED BY <2>1, <2>2, <2>3, <2>4
<1>2. ASSUME NEW a \in pending[c],
             IF (a \in Added /\ Present(a)) \/ (a \in Dropped /\ ~Present(a))
             THEN Stop(c) /\ UNCHANGED ghosts
             ELSE /\ columns' = IF a \in Added THEN columns \cup {a} ELSE columns \ {a}
                  /\ pending' = [pending EXCEPT ![c] = @ \ {a}]
                  /\ raced' = raced \cup {d \in Conn \ {c} : a \in pending[d]}
                  /\ UNCHANGED <<tables, windows, diagnoses, phase, block, copies, queue,
                                 reports, overlapped, faults>>
      PROVE  IInv'
  <2>0. a \in Column
    BY DEF MigrationTypeOK, ThreadsOK
  <2>1. CASE (a \in Added /\ Present(a)) \/ (a \in Dropped /\ ~Present(a))
    <3>1. Stop(c) /\ UNCHANGED ghosts
      BY <1>2, <2>1
    <3>2. c \in raced
      BY <2>1, ColumnsAssumption DEF Warned, Whole
    <3>3. faults' \in Nat /\ faults' >= faults
      BY <3>1 DEF MigrationTypeOK, GhostsOK, ghosts
    <3> QED BY <3>1, <3>2, <3>3, StopKeeps DEF ghosts
  <2>2. CASE ~((a \in Added /\ Present(a)) \/ (a \in Dropped /\ ~Present(a)))
    <3> USE <1>0, <1>2, <2>0, <2>2
    <3>1. \A x \in Column : (Whole(x) => Whole(x)') /\ (x # a => (Whole(x) <=> Whole(x)'))
      BY ColumnsAssumption DEF Whole, Present, Column
    <3>2. Whole(a)'
      BY DEF Whole, Present
    <3>3. MigrationTypeOK'
      BY DEF MigrationTypeOK, DatabaseOK, ThreadsOK, GhostsOK, Column
    <3>4. Staged'
      <4> SUFFICES ASSUME NEW d \in Conn PROVE StagedAt(d)'
        BY DEF Staged
      <4>1. \A b \in DOMAIN Blocks : \A x \in Blocks[b] : Whole(x) => Whole(x)'
        BY <3>1, BlocksCover
      <4>2. phase'[d] = "alter" =>
              \A x \in Blocks[block[d]] \ pending'[d] : x \in pending[d] => x = a
        BY DEF MigrationTypeOK, ThreadsOK
      <4> QED BY <3>1, <3>2, <4>1, <4>2 DEF Staged, StagedAt
    <3>5. Held'
      BY DEF Held, MigrationTypeOK, ThreadsOK
    <3>6. Warned'
      <4>1. ASSUME NEW d \in Conn, NEW x \in pending'[d], Whole(x)'
            PROVE  x \in Legacy \/ d \in raced'
        <5>1. x \in pending[d] /\ x \in Column
          BY DEF MigrationTypeOK, ThreadsOK
        <5>2. CASE x = a
          <6>1. d # c
            BY <5>2 DEF MigrationTypeOK, ThreadsOK
          <6> QED BY <5>1, <5>2, <6>1
        <5>3. CASE x # a
          BY <3>1, <4>1, <5>1, <5>3 DEF Warned
        <5> QED BY <5>2, <5>3
      <4>2. phase'[Writer] = "dead" => Writer \in raced' \/ faults' > 0
        BY DEF Warned
      <4> QED BY <4>1, <4>2 DEF Warned
    <3>7. Listed' /\ Attributed'
      BY DEF Listed, Attributed
    <3> QED BY <3>3, <3>4, <3>5, <3>6, <3>7
  <2> QED BY <2>1, <2>2
<1> QED BY <1>1, <1>2 DEF Alter

(* Windows are filled, once every column is there. *)
LEMMA FillWindowsKeeps ==
  ASSUME IInv, NEW c \in Conn, FillWindows(c), UNCHANGED scope
  PROVE  IInv'
<1> USE DEF IInv, FillWindows, Goto, ghosts
<1>1. MigrationTypeOK'
  BY DEF MigrationTypeOK, DatabaseOK, ThreadsOK, GhostsOK, Phase
<1>2. Staged'
  BY DEF Staged, StagedAt, Whole, Present, MigrationTypeOK, ThreadsOK
<1>3. Held' /\ Warned'
  BY DEF Held, Warned, Whole, Present, MigrationTypeOK, ThreadsOK
<1>4. Listed' /\ Attributed'
  BY DEF Listed, Attributed, MigrationTypeOK, ThreadsOK
<1> QED BY <1>1, <1>2, <1>3, <1>4

(* The causes that are read are those of the rows: every row is listed. *)
LEMMA ReadCausesKeeps ==
  ASSUME IInv, NEW c \in Conn, ReadCauses(c), UNCHANGED scope
  PROVE  IInv'
<1> USE DEF IInv, ReadCauses, Goto, database, ghosts
<1>0. copies'[c] = [s \in DOMAIN diagnoses |-> diagnoses[s].causes]
  BY DEF MigrationTypeOK, ThreadsOK
<1>1. copies'[c] \in Copies
  <2>1. \A s \in DOMAIN diagnoses : diagnoses[s].causes \in Nat
    BY DEF MigrationTypeOK, DatabaseOK, Row
  <2>2. copies'[c] \in [DOMAIN diagnoses -> Nat]
    BY <1>0, <2>1
  <2> QED BY <2>2 DEF Copies, MigrationTypeOK, DatabaseOK
<1>2. MigrationTypeOK'
  BY <1>1 DEF MigrationTypeOK, DatabaseOK, ThreadsOK, GhostsOK, Phase
<1>3. Staged'
  BY DEF Staged, StagedAt, Whole, Present, MigrationTypeOK, ThreadsOK
<1>4. Held' /\ Warned'
  BY DEF Held, Warned, Whole, Present, MigrationTypeOK, ThreadsOK
<1>5. Listed'
  BY <1>0 DEF Listed, MigrationTypeOK, ThreadsOK
<1>6. Attributed'
  BY <1>0 DEF Attributed, MigrationTypeOK, ThreadsOK
<1> QED BY <1>2, <1>3, <1>4, <1>5, <1>6

(* One row is filtered, and is no more to be written by this connection.   *)
LEMMA UpdateCausesKeeps ==
  ASSUME IInv, NEW c \in Conn, UpdateCauses(c), UNCHANGED scope
  PROVE  IInv'
<1> USE DEF IInv, ghosts
<1>0. PICK s \in DOMAIN copies[c] :
        /\ diagnoses' = [diagnoses EXCEPT ![s] = Filtered(@, copies[c][s])]
        /\ copies' = [copies EXCEPT ![c] = [r \in DOMAIN @ \ {s} |-> @[r]]]
  BY DEF UpdateCauses
<1>1. /\ phase[c] = "update" /\ c \in Conn
      /\ UNCHANGED <<tables, columns, windows, phase, block, pending, queue, ghosts>>
  BY DEF UpdateCauses
<1> HIDE DEF ghosts
<1>2. s \in DOMAIN diagnoses /\ DOMAIN diagnoses' = DOMAIN diagnoses
  BY <1>0 DEF Attributed
<1>3. copies[c][s] \in Nat
  BY <1>0 DEF MigrationTypeOK, ThreadsOK, Copies
<1>4. /\ diagnoses[s] \in Row /\ diagnoses'[s] = Filtered(diagnoses[s], copies[c][s])
      /\ \A r \in DOMAIN diagnoses \ {s} : diagnoses'[r] = diagnoses[r]
  BY <1>0, <1>2 DEF MigrationTypeOK, DatabaseOK
<1>5. /\ diagnoses'[s] \in Row /\ diagnoses'[s].clean = TRUE
      /\ diagnoses'[s].report = diagnoses[s].report /\ diagnoses'[s].causes = copies[c][s]
  BY <1>3, <1>4 DEF Filtered, Row
<1>6. /\ DOMAIN copies'[c] = DOMAIN copies[c] \ {s}
      /\ \A r \in DOMAIN copies'[c] : copies'[c][r] = copies[c][r]
      /\ \A d \in Conn \ {c} : copies'[d] = copies[d]
  BY <1>0 DEF MigrationTypeOK, ThreadsOK
<1>7. copies'[c] \in Copies
  <2>1. PICK S \in SUBSET Session : copies[c] \in [S -> Nat]
    BY DEF MigrationTypeOK, ThreadsOK, Copies
  <2>2. copies'[c] \in [S \ {s} -> Nat]
    BY <1>0, <2>1 DEF MigrationTypeOK, ThreadsOK
  <2> QED BY <2>2 DEF Copies
<1>8. MigrationTypeOK'
  <2>1. DatabaseOK'
    <3>1. diagnoses' \in [DOMAIN diagnoses -> Row]
      BY <1>0, <1>4, <1>5 DEF MigrationTypeOK, DatabaseOK
    <3> QED BY <1>1, <1>2, <3>1 DEF MigrationTypeOK, DatabaseOK
  <2>2. ThreadsOK'
    BY <1>0, <1>1, <1>7 DEF MigrationTypeOK, ThreadsOK
  <2> QED BY <1>1, <2>1, <2>2 DEF MigrationTypeOK, GhostsOK, ghosts
<1>9. Staged' /\ Warned'
  BY <1>1 DEF Staged, StagedAt, Warned, Whole, Present, ghosts
<1>10. Held'
  BY <1>1, <1>6 DEF Held
<1>11. Listed'
  BY <1>1, <1>2, <1>4, <1>5, <1>6 DEF Listed
<1>12. Attributed'
  <2>1. copies[c][s] # diagnoses[s].report => s \in overlapped
    BY <1>0 DEF Attributed
  <2>2. \A r \in DOMAIN diagnoses' : diagnoses'[r].report = diagnoses[r].report
    BY <1>2, <1>4, <1>5
  <2>3. \A r \in DOMAIN diagnoses' :
          diagnoses'[r].causes # diagnoses'[r].report => r \in overlapped'
    BY <1>1, <1>2, <1>4, <1>5, <2>1 DEF Attributed, ghosts
  <2>4. \A d \in Conn : \A r \in DOMAIN copies'[d] :
          r \in DOMAIN copies[d] /\ copies'[d][r] = copies[d][r]
    BY <1>6
  <2> QED BY <1>1, <1>2, <2>2, <2>3, <2>4 DEF Attributed, ghosts
<1> QED BY <1>8, <1>9, <1>10, <1>11, <1>12

(* Nothing is left to write: every row is clean. *)
LEMMA FinishKeeps ==
  ASSUME IInv, NEW c \in Conn, Finish(c), UNCHANGED scope
  PROVE  IInv'
<1> USE DEF IInv, Finish, Goto, database, ghosts
<1>1. MigrationTypeOK'
  BY DEF MigrationTypeOK, DatabaseOK, ThreadsOK, GhostsOK, Phase
<1>2. Staged'
  BY DEF Staged, StagedAt, Whole, Present, MigrationTypeOK, ThreadsOK
<1>3. Held' /\ Warned'
  BY DEF Held, Warned, Whole, Present, MigrationTypeOK, ThreadsOK
<1>4. Listed' /\ Attributed'
  BY DEF Listed, Attributed, MigrationTypeOK, ThreadsOK
<1> QED BY <1>1, <1>2, <1>3, <1>4

(* Every step of the initialization keeps the invariant. *)
LEMMA InitializeKeeps ==
  ASSUME IInv, NEW c \in Conn, Initialize(c), UNCHANGED scope
  PROVE  IInv'
BY CreateKeeps, LookKeeps, AlterKeeps, FillWindowsKeeps, ReadCausesKeeps,
   UpdateCausesKeeps, FinishKeeps, FailStatementKeeps DEF Initialize

-----------------------------------------------------------------------------
(* The steps of the core around it.                                        *)

(* A command is queued. *)
LEMMA EndSessionKeeps ==
  ASSUME IInv, NEW s \in Session, EndSession(s), UNCHANGED scope
  PROVE  IInv'
<1> USE DEF IInv, EndSession, database, threads
<1>1. queue' \in Seq(Command)
  <2>1. [session |-> s, report |-> reports + 1] \in Command
    BY DEF Command, MigrationTypeOK, GhostsOK
  <2> QED BY <2>1 DEF MigrationTypeOK, ThreadsOK
<1>2. MigrationTypeOK'
  BY <1>1 DEF MigrationTypeOK, DatabaseOK, ThreadsOK, GhostsOK
<1>3. Staged' /\ Held' /\ Warned'
  BY DEF Staged, StagedAt, Held, Warned, Whole, Present
<1>4. Listed' /\ Attributed'
  BY DEF Listed, Attributed
<1> QED BY <1>2, <1>3, <1>4

(* The row is of one analysis and clean; a copy of the old causes that is  *)
(* still about to be written is a reader's, and puts the session down as   *)
(* overlapped: the writer, which is serving, holds none.                   *)
LEMMA WriteDiagnosisKeeps ==
  ASSUME IInv, WriteDiagnosis, UNCHANGED scope
  PROVE  IInv'
<1> USE DEF IInv
<1> DEFINE s == Head(queue).session
           n == Head(queue).report
           row == [report |-> n, causes |-> n, clean |-> TRUE]
<1>1. /\ phase[Writer] = "serving" /\ queue # <<>>
      /\ diagnoses' = [r \in DOMAIN diagnoses \cup {s} |-> IF r = s THEN row ELSE diagnoses[r]]
      /\ overlapped' = IF \E c \in Reader : s \in DOMAIN copies[c]
                         THEN overlapped \cup {s} ELSE overlapped \ {s}
      /\ queue' = Tail(queue)
      /\ UNCHANGED <<tables, columns, windows, phase, block, pending, copies, reports,
                     raced, faults>>
  BY DEF WriteDiagnosis, threads
<1>2. Head(queue) \in Command /\ Tail(queue) \in Seq(Command)
  BY <1>1 DEF MigrationTypeOK, ThreadsOK
<1>3. s \in Session /\ row \in Row /\ row.causes = row.report /\ row.clean = TRUE
  BY <1>2 DEF Command, Row
<1> HIDE DEF s, n, row
<1>4. /\ DOMAIN diagnoses' = DOMAIN diagnoses \cup {s} /\ diagnoses'[s] = row
      /\ \A r \in DOMAIN diagnoses : r # s => diagnoses'[r] = diagnoses[r]
  BY <1>1
<1>5. MigrationTypeOK'
  <2>1. diagnoses' \in [DOMAIN diagnoses' -> Row]
    BY <1>1, <1>3, <1>4 DEF MigrationTypeOK, DatabaseOK
  <2> QED BY <1>1, <1>2, <1>3, <1>4, <2>1
      DEF MigrationTypeOK, DatabaseOK, ThreadsOK, GhostsOK
<1>6. Staged' /\ Held' /\ Warned'
  BY <1>1 DEF Staged, StagedAt, Held, Warned, Whole, Present
<1>7. Listed'
  BY <1>1, <1>3, <1>4 DEF Listed
<1>8. Attributed'
  <2>1. \A r \in DOMAIN diagnoses' :
          diagnoses'[r].causes # diagnoses'[r].report => r \in overlapped'
    BY <1>1, <1>3, <1>4 DEF Attributed
  <2>2. ASSUME NEW c \in Conn, NEW r \in DOMAIN copies'[c]
        PROVE  /\ r \in DOMAIN diagnoses'
               /\ copies'[c][r] # diagnoses'[r].report => r \in overlapped'
    <3>1. r \in DOMAIN copies[c] /\ copies'[c] = copies[c] /\ r \in DOMAIN diagnoses
      BY <1>1 DEF Attributed
    <3>2. c \in Reader
      BY <1>1, <3>1 DEF Held, Conn
    <3>3. CASE r = s
      BY <1>1, <1>4, <3>1, <3>2, <3>3
    <3>4. CASE r # s
      BY <1>1, <1>4, <3>1, <3>4 DEF Attributed
    <3> QED BY <3>3, <3>4
  <2> QED BY <2>1, <2>2 DEF Attributed
<1> QED BY <1>5, <1>6, <1>7, <1>8

(* With the process every connection ends, and the writer begins anew. *)
LEMMA RestartKeeps ==
  ASSUME IInv, StopCore \/ StartCore, UNCHANGED scope
  PROVE  IInv'
<1> USE DEF IInv, Forget, database
<1>1. \A c \in Conn : /\ phase'[c] \in {"off", "schema"} /\ block'[c] = 1
                      /\ pending'[c] = {} /\ copies'[c] = NoCopies
  BY DEF StopCore, StartCore
<1>2. MigrationTypeOK'
  <2>1. phase' \in [Conn -> Phase] /\ queue' = <<>> /\ raced' = {}
    BY DEF StopCore, StartCore, Phase
  <2>2. block' \in [Conn -> Nat \ {0}] /\ pending' \in [Conn -> SUBSET Column]
    BY DEF StopCore, StartCore
  <2>3. copies' \in [Conn -> Copies]
    BY NoCopiesIsEmpty DEF StopCore, StartCore
  <2>4. UNCHANGED <<tables, columns, windows, diagnoses, reports, overlapped, faults, scope>>
    BY DEF StopCore, StartCore
  <2> QED BY <2>1, <2>2, <2>3, <2>4 DEF MigrationTypeOK, DatabaseOK, ThreadsOK, GhostsOK
<1>3. Staged' /\ Held' /\ Warned'
  BY <1>1, NoCopiesIsEmpty DEF Staged, StagedAt, Held, Warned, Conn
<1>4. Listed'
  BY <1>1 DEF Listed
<1>5. Attributed'
  BY <1>1, NoCopiesIsEmpty DEF StopCore, StartCore, Attributed
<1> QED BY <1>2, <1>3, <1>4, <1>5

-----------------------------------------------------------------------------
(* Docker and the processes of the command line reach the database only by *)
(* starting the core and stopping it.                                      *)
LEMMA ProcessKeeps ==
  ASSUME IInv, NEW c \in Cli, Process(c)
  PROVE  IInv'
<1>1. CASE ComposeCore(c)
  <2>1. UNCHANGED scope
    BY <1>1 DEF ComposeCore
  <2>2. StartCore \/ UNCHANGED migrationVars
    BY <1>1 DEF ComposeCore
  <2> QED BY <2>1, <2>2, RestartKeeps, Frame
<1>2. CASE ~ComposeCore(c)
  <2>1. UNCHANGED <<migrationVars, scope>>
    BY <1>2 DEF Process, Doctor, ResolveFile, ComposeEnvoy, StopEnvoy, StartEnvoy, containers
  <2> QED BY <2>1, Frame
<1> QED BY <1>1, <1>2

(* Every step keeps the invariant. *)
LEMMA NextKeeps == IInv /\ [Next]_vars => IInv'
<1> SUFFICES ASSUME IInv, [Next]_vars PROVE IInv'
  OBVIOUS
<1>1. CASE UNCHANGED vars
  BY <1>1, Frame DEF vars, stackVars, containers
<1>2. CASE \E c \in Cli : Process(c)
  BY <1>2, ProcessKeeps
<1>3. CASE Listen \/ EnvoyCrash \/ Edit
  BY <1>3, Frame DEF Listen, EnvoyCrash, Edit
<1>4. CASE CoreCrash
  BY <1>4, RestartKeeps DEF CoreCrash
<1>5. CASE Core
  <2>1. UNCHANGED scope /\ scope.readers \subseteq Reader /\ scope.sessions \subseteq Session
    BY <1>5, ScopeAssumption DEF Core, stackVars, containers, IInv, MigrationTypeOK, GhostsOK
  <2> QED BY <1>5, <2>1, InitializeKeeps, OpenReaderKeeps, EndSessionKeeps,
             WriteDiagnosisKeeps DEF Core
<1> QED BY <1>1, <1>2, <1>3, <1>4, <1>5 DEF Next

(* The invariant holds in every reachable state. *)
THEOREM Invariance == Spec => []IInv
BY Initially, NextKeeps, PTL DEF Spec

(* The types of the migration, in every reachable state. *)
THEOREM MigrationTypes == Spec => []MigrationTypeOK
<1>1. IInv => MigrationTypeOK
  BY DEF IInv
<1> QED BY <1>1, Invariance, PTL

(* The writer serves the current schema and diagnoses of Codex only, from  *)
(* whatever database and beside any readers: what has passed the phase     *)
(* "windows" has every column whole, and nothing was left to filter.       *)
THEOREM WriterServesWhole == Spec => []ServingIsWhole
<1>1. IInv => ServingIsWhole
  BY DEF IInv, Staged, StagedAt, Listed, ServingIsWhole, Column, Conn
<1> QED BY <1>1, Invariance, PTL

(* The writer thread stops over a fault or over a column a reader altered  *)
(* between its look and its statement, and old causes come back only from  *)
(* the copy of a reader.                                                   *)
THEOREM HarmIsByReaders == Spec => []OnlyReadersDoHarm
<1>1. IInv => OnlyReadersDoHarm
  BY DEF IInv, Warned, Attributed, OnlyReadersDoHarm
<1> QED BY <1>1, Invariance, PTL

-----------------------------------------------------------------------------
(* The processes of the command line and the containers.                   *)

Step == Starting \cup {"idle", "passed", "check", "health", "route", "up", "child",
                      "done", "failed"}
Reason == {Nobody, "doctor", "prerequisites", "ports", "compose", "health", "route"}

\* The serials only grow, and Envoy has not read a later one than there is.
SerialsOK ==
  /\ host \in Host /\ step \in [Cli -> Step] /\ why \in [Cli -> Reason]
  /\ own \in [Cli -> Nat] /\ loaded \in Nat /\ file.serial \in Nat
  /\ loaded <= file.serial /\ \A c \in Cli : own[c] <= file.serial

\* After its restart of Envoy a process has what it composed with loaded.
RestartedOK ==
  \A c \in Cli : step[c] \in {"health", "route", "up"} => loaded >= own[c]

\* What made a process fail is so.
ReasonsOK ==
  \A c \in Cli : /\ why[c] = "prerequisites" => ~Prerequisites
                 /\ why[c] = "ports" => ~Free(Port)

UpInv == SerialsOK /\ RestartedOK /\ ReasonsOK

(* Nothing is composed and nothing has failed at first. *)
LEMMA UpInitially == Init => UpInv
BY DEF Init, UpInv, SerialsOK, RestartedOK, ReasonsOK, Step, Reason, Starting, Nobody

(* A process keeps it: the file it composed with is not older than what    *)
(* Envoy read before, and it fails for a reason.                           *)
LEMMA ProcessKeepsUp ==
  ASSUME UpInv, NEW c \in Cli, Process(c)
  PROVE  UpInv'
<1> USE DEF UpInv, To, Fail, Step, Reason, Starting, Nobody
<1>1. CASE Doctor(c)
  BY <1>1 DEF Doctor, containers, SerialsOK, RestartedOK, ReasonsOK, Prerequisites,
              ComposeFound, Free
<1>2. CASE ResolveFile(c)
  <2>1. file'.serial \in Nat /\ file'.serial >= file.serial /\ own'[c] = file'.serial
    BY <1>2 DEF ResolveFile, Written, SerialsOK
  <2> QED BY <1>2, <2>1 DEF ResolveFile, SerialsOK, RestartedOK, ReasonsOK, Prerequisites,
                            ComposeFound, Free
<1>3. CASE ComposeCore(c) \/ StopEnvoy(c)
  BY <1>3 DEF ComposeCore, StopEnvoy, SerialsOK, RestartedOK, ReasonsOK, Prerequisites,
              ComposeFound, Free
<1>4. CASE ComposeEnvoy(c) \/ StartEnvoy(c)
  BY <1>4 DEF ComposeEnvoy, StartEnvoy, SerialsOK, RestartedOK, ReasonsOK, Prerequisites,
              ComposeFound, Free
<1>5. ASSUME Check(c) \/ Up(c) \/ CheckPrerequisites(c) \/ ComposeFails(c)
             \/ Wait(c) \/ ChildEnds(c),
             UNCHANGED <<migrationVars, containers, mode, edits, crashes>>
      PROVE  UpInv'
  <2> USE <1>5 DEF containers
  <2>1. UNCHANGED <<host, loaded, file, own>>
    BY DEF Check, Up, CheckPrerequisites, ComposeFails, Wait, ChildEnds, Launch
  <2>2. /\ step' \in [Cli -> Step] /\ \A d \in Cli \ {c} : step'[d] = step[d]
        /\ why' \in [Cli -> Reason] /\ \A d \in Cli \ {c} : why'[d] = why[d]
    BY DEF Check, Up, CheckPrerequisites, ComposeFails, Wait, ChildEnds, Launch, SerialsOK
  <2>3. step'[c] \in {"health", "route", "up"} => step[c] \in {"health", "route", "up"}
    BY DEF Check, Up, CheckPrerequisites, ComposeFails, Wait, ChildEnds, Launch, SerialsOK
  <2>4. why'[c] = why[c] \/ (why'[c] = "prerequisites" /\ ~Prerequisites)
        \/ (why'[c] = "ports" /\ ~Free(Port)) \/ why'[c] \in {"compose", "health", "route"}
    BY DEF Check, Up, CheckPrerequisites, ComposeFails, Wait, ChildEnds, Launch, SerialsOK
  <2>5. SerialsOK' /\ RestartedOK'
    BY <2>1, <2>2, <2>3 DEF SerialsOK, RestartedOK
  <2>6. (Prerequisites <=> Prerequisites') /\ (Free(Port) <=> Free(Port)')
    BY <2>1 DEF Prerequisites, ComposeFound, Free, Port
  <2>7. ReasonsOK'
    BY <2>2, <2>4, <2>6 DEF ReasonsOK
  <2> QED BY <2>5, <2>7
<1> QED BY <1>1, <1>2, <1>3, <1>4, <1>5 DEF Process

(* So do the containers and other writers of the file. *)
LEMMA NextKeepsUp == UpInv /\ [Next]_vars => UpInv'
<1> SUFFICES ASSUME UpInv, [Next]_vars PROVE UpInv'
  OBVIOUS
<1> USE DEF UpInv, SerialsOK, RestartedOK, ReasonsOK, Prerequisites, ComposeFound, Free
<1>1. CASE UNCHANGED vars
  BY <1>1 DEF vars, stackVars, containers, cli
<1>2. CASE \E c \in Cli : Process(c)
  BY <1>2, ProcessKeepsUp
<1>3. CASE Listen \/ EnvoyCrash \/ CoreCrash
  BY <1>3 DEF Listen, EnvoyCrash, CoreCrash, cli
<1>4. CASE Edit
  BY <1>4 DEF Edit, cli
<1>5. CASE Core
  BY <1>5 DEF Core, stackVars, containers, cli
<1> QED BY <1>1, <1>2, <1>3, <1>4, <1>5 DEF Next

(* What up and doctor say is so: a process is up only with its file, or a  *)
(* later one, in Envoy; and where doctor passes, no prerequisite is wanting *)
(* and the only port that can be taken is the one it does not try.         *)
THEOREM UpSaysWhatIs == Spec => []UpIsTrue
<1>1. UpInv => UpIsTrue
  <2> SUFFICES ASSUME UpInv, NEW c \in Cli
               PROVE  /\ step[c] = "up" => loaded >= own[c]
                      /\ why[c] \in {"prerequisites", "ports"} /\ DoctorPasses =>
                           host.busy = {"prometheus"}
    BY DEF UpIsTrue
  <2>1. step[c] = "up" => loaded >= own[c]
    BY DEF UpInv, RestartedOK
  <2>2. ASSUME why[c] \in {"prerequisites", "ports"}, DoctorPasses
        PROVE  host.busy = {"prometheus"}
    <3>1. ~Free(Port) /\ host.busy \subseteq Port
      BY <2>2, HostAssumption
      DEF UpInv, SerialsOK, ReasonsOK, DoctorPasses, Prerequisites, Port
    <3> QED BY <2>2, <3>1 DEF DoctorPasses, Free, Port
  <2> QED BY <2>1, <2>2
<1> QED BY <1>1, UpInitially, NextKeepsUp, PTL DEF Spec

-----------------------------------------------------------------------------
(* Who restarts Envoy under a child.                                       *)

CutTypeOK ==
  /\ step \in [Cli -> Step] /\ ahead \in [Cli -> SUBSET Cli]
  /\ cutter \in [Cli -> Cli \cup {Nobody}] /\ crashes \in Nat

Excused(d, c) ==
  mode[d] = "up" \/ d \in ahead[c] \/ crashes > 0 \/ d \in misled

\* Who cut a child off is excused.
CutsExcused ==
  \A c \in Cli : cutter[c] # Nobody =>
    step[c] \in {"child", "done"} /\ Excused(cutter[c], c)

\* A process that is past the core being healthy keeps it, if nothing dies.
CoreStays ==
  \A c \in Cli : step[c] \in {"check", "restart", "restarting", "health", "route", "child"} =>
    core = "up" \/ crashes > 0

\* While a child has not been cut off Envoy is there, and every process that
\* might restart it is excused: a run to which both answer does not start them.
ChildrenServed ==
  \A c \in Cli : step[c] = "child" /\ cutter[c] = Nobody =>
    /\ envoy = "up" \/ crashes > 0
    /\ \A d \in Cli : step[d] \in Starting => Excused(d, c)

CutInv == CutTypeOK /\ CutsExcused /\ CoreStays /\ ChildrenServed

(* There is no child at first. *)
LEMMA CutInitially == Init => CutInv
BY DEF Init, CutInv, CutTypeOK, CutsExcused, CoreStays, ChildrenServed, Step, Starting, Nobody

(* A process that becomes a child finds Envoy up and notes who is starting. *)
LEMMA LaunchKeepsCut ==
  ASSUME CutInv, NEW c \in Cli, Launch(c), UNCHANGED <<mode, core, envoy, crashes>>,
         step[c] \in {"check", "route"}, envoy = "up"
  PROVE  CutInv'
<1> USE DEF CutInv, Launch, To
<1>1. step'[c] = "child" /\ ahead'[c] = {d \in Cli \ {c} : step[d] \in Starting}
      /\ \A d \in Cli \ {c} : step'[d] = step[d] /\ ahead'[d] = ahead[d]
  BY DEF CutTypeOK
<1>2. CutTypeOK'
  BY DEF CutTypeOK, Step
<1>3. cutter'[c] = Nobody
  BY DEF CutsExcused
<1>4. CutsExcused' /\ CoreStays'
  BY <1>1, <1>3 DEF CutsExcused, CoreStays, Excused
<1>5. ChildrenServed'
  <2>1. ASSUME NEW d \in Cli, step'[d] \in Starting PROVE d # c /\ step[d] \in Starting
    BY <1>1, <2>1 DEF Starting
  <2> QED BY <1>1, <2>1 DEF ChildrenServed, Excused
<1> QED BY <1>2, <1>4, <1>5

(* A process that goes on without a child, Envoy or core: if it is one that *)
(* might restart Envoy now, it was before, or it is an up, or it found no   *)
(* core or no Envoy, or got no answer from them.                            *)
LEMMA WalkKeepsCut ==
  ASSUME CutInv, NEW c \in Cli, NEW s \in Step \ {"child", "restart", "restarting"}, To(c, s),
         UNCHANGED <<mode, ahead, cutter, core, envoy, crashes>>,
         misled \subseteq misled',
         step[c] = "child" => s = "done", step[c] # "done",
         s \in {"check", "health", "route"} => core = "up",
         s \in Starting /\ step[c] \notin Starting =>
           mode[c] = "up" \/ core # "up" \/ envoy # "up" \/ c \in misled'
  PROVE  CutInv'
<1> USE DEF CutInv, To
<1>1. step'[c] = s /\ \A d \in Cli \ {c} : step'[d] = step[d]
  BY DEF CutTypeOK
<1>2. CutTypeOK'
  BY DEF CutTypeOK
<1>3. CutsExcused'
  BY <1>1 DEF CutsExcused, Excused
<1>4. CoreStays'
  BY <1>1 DEF CoreStays
<1>5. ChildrenServed'
  <2> SUFFICES ASSUME NEW e \in Cli, step'[e] = "child", cutter'[e] = Nobody
               PROVE  /\ envoy' = "up" \/ crashes' > 0
                      /\ \A d \in Cli : step'[d] \in Starting => Excused(d, e)'
    BY DEF ChildrenServed
  <2>1. e # c /\ step[e] = "child" /\ cutter[e] = Nobody
    BY <1>1
  <2>2. (envoy = "up" /\ core = "up") \/ crashes > 0
    BY <2>1 DEF ChildrenServed, CoreStays
  <2> QED BY <1>1, <2>1, <2>2 DEF ChildrenServed, Excused
<1> QED BY <1>2, <1>3, <1>4, <1>5

(* A process keeps it. *)
LEMMA ProcessKeepsCut ==
  ASSUME CutInv, NEW c \in Cli, Process(c)
  PROVE  CutInv'
<1> USE DEF CutInv
<1>1. CASE Doctor(c)
  <2>1. PICK s \in {"passed", "failed"} : To(c, s)
    BY <1>1 DEF Doctor, Fail
  <2> QED BY <1>1, <2>1, WalkKeepsCut DEF Doctor, containers, Step, Starting
<1>2. CASE ResolveFile(c)
  <2>1. To(c, "compose") /\ step[c] = "file"
        /\ UNCHANGED <<mode, ahead, cutter, misled, core, envoy, crashes>>
    BY <1>2 DEF ResolveFile
  <2> QED BY <2>1, WalkKeepsCut DEF Step, Starting
<1>3. CASE ComposeCore(c)
  <2>1. /\ To(c, "healthy") /\ step[c] = "compose"
        /\ UNCHANGED <<mode, ahead, cutter, misled, envoy>>
        /\ \/ core = core' /\ crashes' = crashes
           \/ core = "down" /\ crashes' = crashes
           \/ crashes' = crashes + 1
    BY <1>3 DEF ComposeCore
  <2>2. CutTypeOK'
    BY <2>1 DEF CutTypeOK, To, Step, Starting
  <2>3. step'[c] = "healthy" /\ \A d \in Cli \ {c} : step'[d] = step[d]
    BY <2>1 DEF CutTypeOK, To
  <2>4. crashes' > 0 \/ (crashes' = 0 /\ crashes = 0)
    BY <2>1 DEF CutTypeOK
  <2>5. CutsExcused' /\ CoreStays'
    BY <2>1, <2>3, <2>4 DEF CutsExcused, CoreStays, Excused
  <2>6. ChildrenServed'
    BY <2>1, <2>3, <2>4 DEF ChildrenServed, Excused, Starting
  <2> QED BY <2>2, <2>5, <2>6
<1>4. CASE ComposeEnvoy(c) \/ StartEnvoy(c)
  <2>1. PICK s \in {"restart", "health"} :
          /\ To(c, s) /\ step[c] \in {"healthy", "restarting"} /\ envoy' = "up"
          /\ core = "up" \/ step[c] = "restarting"
          /\ UNCHANGED <<mode, ahead, cutter, misled, core, crashes>>
    BY <1>4 DEF ComposeEnvoy, StartEnvoy
  <2>2. CutTypeOK'
    BY <2>1 DEF CutTypeOK, To, Step, Starting
  <2>3. step'[c] = s /\ \A d \in Cli \ {c} : step'[d] = step[d]
    BY <2>1 DEF CutTypeOK, To
  <2>4. CutsExcused' /\ CoreStays'
    BY <2>1, <2>3 DEF CutsExcused, CoreStays, Excused
  <2>5. ChildrenServed'
    BY <2>1, <2>3 DEF ChildrenServed, Excused, Starting
  <2> QED BY <2>2, <2>4, <2>5
<1>5. CASE StopEnvoy(c)
  <2>1. /\ step[c] = "restart" /\ To(c, "restarting") /\ envoy' = "down"
        /\ cutter' = [d \in Cli |-> IF step[d] = "child" /\ cutter[d] = Nobody THEN c ELSE cutter[d]]
        /\ UNCHANGED <<mode, ahead, misled, core, crashes>>
    BY <1>5 DEF StopEnvoy
  <2>2. CutTypeOK'
    BY <2>1 DEF CutTypeOK, To, Step, Starting
  <2>3. step'[c] = "restarting" /\ \A d \in Cli \ {c} : step'[d] = step[d]
    BY <2>1 DEF CutTypeOK, To
  <2>4. CutsExcused'
    <3>1. ASSUME NEW d \in Cli, step[d] = "child", cutter[d] = Nobody
          PROVE  Excused(c, d)
      BY <2>1, <3>1 DEF ChildrenServed, Starting
    <3> QED BY <2>1, <2>3, <3>1 DEF CutsExcused, Excused
  <2>5. CoreStays'
    BY <2>1, <2>3 DEF CoreStays
  <2>6. \A d \in Cli : ~(step'[d] = "child" /\ cutter'[d] = Nobody)
    BY <2>1, <2>3, CliAssumption DEF Nobody
  <2> QED BY <2>2, <2>4, <2>5, <2>6 DEF ChildrenServed
<1>6. ASSUME Check(c) \/ Up(c) \/ CheckPrerequisites(c) \/ ComposeFails(c)
             \/ Wait(c) \/ ChildEnds(c),
             UNCHANGED <<migrationVars, containers, mode, edits, crashes>>
      PROVE  CutInv'
  <2> USE <1>6 DEF containers
  <2>1. CASE Launch(c) /\ step[c] \in {"check", "route"} /\ envoy = "up"
    BY <2>1, LaunchKeepsCut
  <2>2. CASE ~(Launch(c) /\ step[c] \in {"check", "route"} /\ envoy = "up")
    <3>1. CASE Check(c)
      <4>1. PICK s \in {"check", "prerequisites"} :
              /\ To(c, s) /\ UNCHANGED <<ahead, cutter>> /\ step[c] \in {"idle", "check"}
              /\ misled \subseteq misled'
              /\ s = "check" => core = "up"
              /\ s = "prerequisites" => core # "up" \/ envoy # "up" \/ c \in misled'
        BY <2>2, <3>1 DEF Check
      <4> QED BY <4>1, WalkKeepsCut DEF Step, Starting
    <3>2. CASE Up(c)
      BY <3>2, WalkKeepsCut DEF Up, Step, Starting
    <3>3. CASE CheckPrerequisites(c) \/ ComposeFails(c)
      <4>1. PICK s \in {"file", "failed"} :
              To(c, s) /\ UNCHANGED <<ahead, cutter, misled>> /\ step[c] \in Starting
        BY <3>3 DEF CheckPrerequisites, ComposeFails, Fail, Starting
      <4> QED BY <4>1, WalkKeepsCut DEF Step, Starting
    <3>4. CASE Wait(c)
      <4>1. PICK s \in {"route", "up", "failed"} :
              /\ To(c, s) /\ UNCHANGED <<ahead, cutter, misled>> /\ step[c] \in {"health", "route"}
              /\ s = "route" => core = "up"
        BY <2>2, <3>4 DEF Wait, Fail
      <4> QED BY <4>1, WalkKeepsCut DEF Step, Starting
    <3>5. CASE ChildEnds(c)
      BY <3>5, WalkKeepsCut DEF ChildEnds, Step, Starting
    <3> QED BY <1>6, <3>1, <3>2, <3>3, <3>4, <3>5
  <2> QED BY <2>1, <2>2
<1> QED BY <1>1, <1>2, <1>3, <1>4, <1>5, <1>6 DEF Process

(* A container that dies excuses everybody; the rest changes nothing here. *)
LEMMA NextKeepsCut == CutInv /\ [Next]_vars => CutInv'
<1> SUFFICES ASSUME CutInv, [Next]_vars PROVE CutInv'
  OBVIOUS
<1> USE DEF CutInv, CutTypeOK, CutsExcused, CoreStays, ChildrenServed, Excused
<1>1. CASE UNCHANGED vars
  BY <1>1 DEF vars, stackVars, containers, cli
<1>2. CASE \E c \in Cli : Process(c)
  BY <1>2, ProcessKeepsCut
<1>3. CASE Listen
  BY <1>3 DEF Listen, cli
<1>4. CASE CoreCrash \/ EnvoyCrash
  BY <1>4 DEF CoreCrash, EnvoyCrash, cli
<1>5. CASE Edit
  BY <1>5 DEF Edit, cli
<1>6. CASE Core
  BY <1>6 DEF Core, stackVars, containers, cli
<1> QED BY <1>1, <1>2, <1>3, <1>4, <1>5, <1>6 DEF Next

(* However many processes come and go, the first to restart Envoy under    *)
(* the child of a run is an up, a process that was already starting the    *)
(* stack when the child began, or one that found something dead or got no  *)
(* answer from something alive.                                            *)
THEOREM CutsAreExcused == Spec => []OnlyEarlierStartsCut
<1>1. CutInv => OnlyEarlierStartsCut
  BY DEF CutInv, CutsExcused, Excused, OnlyEarlierStartsCut
<1> QED BY <1>1, CutInitially, NextKeepsCut, PTL DEF Spec
=============================================================================
