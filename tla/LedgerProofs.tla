---------------------------- MODULE LedgerProofs -----------------------------
(***************************************************************************)
(* What a post of bills answers is what it did, for any sessions, batches  *)
(* and number of posts, whatever fails or hangs up between.  The inductive *)
(* invariant says which commands of a post are still in the queue (at most *)
(* one of a post that waits, none of one that was answered), and that a    *)
(* turn which came first is stored, or was refused by the table, first.    *)
(*                                                                         *)
(* What a report shows, for any prices, days and number of rows and bills: *)
(* its windows nest and the bills that were acknowledged are in it.  Here  *)
(* the invariant says how far the report has come, what each window was    *)
(* added up from, and that what it was added up from is still there.       *)
(***************************************************************************)
EXTENDS Ledger, Induction, SequenceTheorems, TLAPS

Status == {"missing", "sending", "waiting", "ok", "invalid", "unavailable",
           "unknown", "failed", "lost"}
Asked == [session : Session, at : Int \cup {None}, amount : Int, valid : BOOLEAN]
PostState == [batch : Batch, inserted : Nat, expected : BOOLEAN, at : Status]
TurnCommand == [kind : {"turn"}, session : Session, day : Nat, charge : Charge]
BillCommand == [kind : {"bill"}, post : Nat, session : Session, at : Int, amount : Int]
Command == TurnCommand \cup BillCommand

PostsOK ==
  /\ posts \in Seq(PostState) /\ landed \in Seq(Nat) /\ Len(landed) = Len(posts)
  /\ queue \in Seq(Command) /\ today \in Nat /\ half \in BOOLEAN

(* A post has had as many bills stored as it says, unless its client left. *)
CountsAgree ==
  \A p \in DOMAIN posts :
    /\ posts[p].at # "lost" => landed[p] = posts[p].inserted
    /\ posts[p].inserted <= Len(posts[p].batch)
    /\ posts[p].at \in {"sending", "waiting"} => posts[p].inserted < Len(posts[p].batch)
    /\ posts[p].at = "ok" => posts[p].inserted = Len(posts[p].batch)

\* There is a bill at this place of the queue; it is one a post waits for.
Queued(i) == queue[i].kind = "bill"
Awaited(i) == Queued(i) /\ posts[queue[i].post].at = "waiting"

(* The bills in the queue are those that posts wait for, one each.         *)
HasPost(i) ==
  /\ Queued(i) => /\ queue[i].post \in DOMAIN posts
                  /\ posts[queue[i].post].at \in {"waiting", "lost"}
  /\ Awaited(i) => queue[i].session = Record(queue[i].post).session
QueueAgrees ==
  /\ \A i \in DOMAIN queue : HasPost(i)
  /\ \A i, j \in DOMAIN queue :
       Awaited(i) /\ Awaited(j) /\ queue[i].post = queue[j].post => i = j

Settled(s) == s \in sessions \cup unstored

\* A turn that is ahead of place i is of the session of the bill there.
TurnAhead(i) ==
  Awaited(i) /\ posts[queue[i].post].expected =>
    \/ Settled(queue[i].session)
    \/ \E j \in DOMAIN queue : /\ j < i /\ queue[j].kind = "turn"
                               /\ queue[j].session = queue[i].session

\* Of the turn that is half stored the session is done.
HalfStored ==
  half => 1 \in DOMAIN queue /\ queue[1].kind = "turn" /\ Settled(queue[1].session)

(* A turn that was finalized before a bill was sent is ahead of it in the  *)
(* queue, or the row of its session is there or was refused.               *)
TurnsComeFirst ==
  /\ HalfStored
  /\ \A i \in DOMAIN queue : TurnAhead(i)
  /\ \A p \in DOMAIN posts :
       posts[p].at = "unknown" /\ posts[p].expected => Record(p).session \in unstored

IInv == PostsOK /\ CountsAgree /\ QueueAgrees /\ TurnsComeFirst

-----------------------------------------------------------------------------
(* There are no posts and no commands at first. *)
LEMMA Initially == Init => IInv
<1> SUFFICES ASSUME Init PROVE IInv
  OBVIOUS
<1>1. posts = <<>> /\ queue = <<>> /\ landed = <<>> /\ half = FALSE /\ today = 0
  BY DEF Init
<1>2. PostsOK
  <2>1. posts \in Seq(PostState) /\ landed \in Seq(Nat) /\ queue \in Seq(Command)
    BY <1>1
  <2>2. Len(landed) = Len(posts) /\ today \in Nat
    BY <1>1
  <2>3. half \in BOOLEAN
    BY <1>1, Zenon
  <2> QED BY <2>1, <2>2, <2>3 DEF PostsOK
<1>3. CountsAgree /\ QueueAgrees /\ TurnsComeFirst
  BY <1>1 DEF CountsAgree, QueueAgrees, TurnsComeFirst, HalfStored
<1> QED BY <1>2, <1>3 DEF IInv

(* A step that leaves posts, bills, queue and the sessions as they are.    *)
LEMMA Frame ==
  ASSUME IInv, UNCHANGED <<sessions, queue, half, posts, landed, unstored>>, today' \in Nat
  PROVE  IInv'
BY DEF IInv, PostsOK, CountsAgree, QueueAgrees, TurnsComeFirst, HasPost, Queued, Awaited, TurnAhead, HalfStored,
       Record, Settled

(* A new post has nothing in the queue. *)
LEMMA PostKeeps ==
  ASSUME IInv, NEW batch \in Batch, Post(batch)
  PROVE  IInv'
<1> USE DEF IInv, Post, tables
<1> DEFINE new == [batch |-> batch, inserted |-> 0, expected |-> FALSE,
                   at |-> IF batch = <<>> THEN "missing" ELSE "sending"]
<1>1. new \in PostState /\ posts' = Append(posts, new) /\ landed' = Append(landed, 0)
  BY DEF PostState, Status
<1>2. PostsOK'
  BY <1>1 DEF PostsOK
<1>3. /\ DOMAIN posts = 1..Len(posts) /\ DOMAIN posts' = 1..(Len(posts) + 1)
      /\ \A p \in DOMAIN posts : posts'[p] = posts[p] /\ landed'[p] = landed[p]
      /\ posts'[Len(posts) + 1] = new /\ landed'[Len(posts) + 1] = 0 /\ Len(posts) \in Nat
  BY <1>1 DEF PostsOK
<1>4. new.inserted = 0 /\ new.expected = FALSE /\ new.at \in {"missing", "sending"}
      /\ new.batch = batch /\ (new.at = "sending" => batch # <<>>)
  OBVIOUS
<1>5. batch # <<>> => 0 < Len(batch)
  BY BatchAssumption
<1>6. Len(batch) \in Nat
  BY BatchAssumption
<1> HIDE DEF new
<1>7. CountsAgree'
  <2> SUFFICES ASSUME NEW p \in DOMAIN posts'
               PROVE  /\ posts'[p].at # "lost" => landed'[p] = posts'[p].inserted
                      /\ posts'[p].inserted <= Len(posts'[p].batch)
                      /\ posts'[p].at \in {"sending", "waiting"} =>
                           posts'[p].inserted < Len(posts'[p].batch)
                      /\ posts'[p].at = "ok" => posts'[p].inserted = Len(posts'[p].batch)
    BY DEF CountsAgree
  <2>1. CASE p \in DOMAIN posts
    BY <1>3, <2>1 DEF CountsAgree
  <2>2. CASE p = Len(posts) + 1
    <3>1. posts'[p] = new /\ landed'[p] = 0
      BY <1>3, <2>2
    <3>2. new.inserted = 0 /\ 0 <= Len(new.batch)
      BY <1>4, <1>6
    <3>3. new.at = "missing" \/ (new.at = "sending" /\ 0 < Len(new.batch))
      BY <1>4, <1>5
    <3> QED BY <3>1, <3>2, <3>3
  <2>3. p \in DOMAIN posts \/ p = Len(posts) + 1
    BY <1>3
  <2> QED BY <2>1, <2>2, <2>3
<1>8. QueueAgrees'
  BY <1>3, <1>4 DEF QueueAgrees, HasPost, Queued, Awaited, Record
<1>9. TurnsComeFirst'
  BY <1>3, <1>4 DEF QueueAgrees, TurnsComeFirst, HasPost, TurnAhead, HalfStored, Queued, Awaited,
                                 Record, Settled
<1> QED BY <1>2, <1>7, <1>8, <1>9

(* The places of a queue, and of one with a command more or one less.      *)
LEMMA QueueFacts ==
  ASSUME PostsOK
  PROVE  /\ Len(queue) \in Nat /\ DOMAIN queue = 1..Len(queue)
         /\ \A i \in DOMAIN queue : queue[i] \in Command
         /\ DOMAIN posts = 1..Len(posts) /\ Len(posts) \in Nat
         /\ \A p \in DOMAIN posts : posts[p] \in PostState
BY DEF PostsOK

LEMMA AppendFacts ==
  ASSUME PostsOK, NEW x \in Command, queue' = Append(queue, x)
  PROVE  /\ queue' \in Seq(Command) /\ DOMAIN queue' = DOMAIN queue \cup {Len(queue) + 1}
         /\ queue'[Len(queue) + 1] = x /\ Len(queue) + 1 \notin DOMAIN queue
         /\ \A i \in DOMAIN queue : queue'[i] = queue[i] /\ i < Len(queue) + 1
BY DEF PostsOK

LEMMA TailFacts ==
  ASSUME PostsOK, queue # <<>>, queue' = Tail(queue)
  PROVE  /\ queue' \in Seq(Command) /\ 1 \in DOMAIN queue
         /\ \A i \in DOMAIN queue' : /\ i + 1 \in DOMAIN queue /\ queue'[i] = queue[i + 1]
                                     /\ i \in Nat \ {0}
         /\ \A j \in DOMAIN queue : j # 1 => j - 1 \in DOMAIN queue' /\ j \in Nat /\ j > 1
BY DEF PostsOK

(* The state of one post changes. *)
LEMMA PostFacts ==
  ASSUME PostsOK, NEW p \in DOMAIN posts, NEW q \in PostState,
         posts' = [posts EXCEPT ![p] = q]
  PROVE  /\ posts' \in Seq(PostState) /\ Len(posts') = Len(posts)
         /\ DOMAIN posts' = DOMAIN posts /\ posts'[p] = q
         /\ \A r \in DOMAIN posts : r # p => posts'[r] = posts[r]
<1>1. p \in 1..Len(posts) /\ posts \in Seq(PostState)
  BY DEF PostsOK
<1>2. posts' \in Seq(PostState) /\ Len(posts') = Len(posts)
  BY <1>1, ExceptSeq
<1> QED BY <1>1, <1>2

(* An answer without a bill, or a client that leaves: what was waited for  *)
(* is waited for no more.                                                  *)
LEMMA AnswerKeeps ==
  ASSUME IInv, NEW p \in DOMAIN posts, NEW a \in {"invalid", "unavailable", "lost"},
         posts[p].at \in {"sending", "waiting"}, posts[p].at = "waiting" => a = "lost",
         posts' = [posts EXCEPT ![p].at = a],
         UNCHANGED <<sessions, queue, half, today, landed, unstored>>
  PROVE  IInv'
<1> USE DEF IInv
<1> DEFINE q == [posts[p] EXCEPT !.at = a]
<1>1. posts[p] \in PostState /\ posts' = [posts EXCEPT ![p] = q]
  BY QueueFacts
<1>2. /\ q \in PostState /\ q.at = a /\ q.inserted = posts[p].inserted
      /\ q.batch = posts[p].batch /\ q.expected = posts[p].expected
  BY <1>1 DEF PostState, Status
<1> HIDE DEF q
<1>3. /\ posts' \in Seq(PostState) /\ Len(posts') = Len(posts) /\ posts'[p] = q
      /\ DOMAIN posts' = DOMAIN posts
      /\ \A r \in DOMAIN posts : r # p => posts'[r] = posts[r]
  BY <1>1, <1>2, PostFacts
<1>4. PostsOK'
  BY <1>3 DEF PostsOK
<1>5. CountsAgree'
  BY <1>2, <1>3 DEF CountsAgree
<1>6. QueueAgrees'
  BY <1>2, <1>3 DEF QueueAgrees, HasPost, Queued, Awaited, Record
<1>7. TurnsComeFirst'
  BY <1>2, <1>3 DEF QueueAgrees, TurnsComeFirst, HasPost, TurnAhead, HalfStored, Queued, Awaited,
                                 Record, Settled
<1> QED BY <1>4, <1>5, <1>6, <1>7

(* A bill is queued behind the turns that were there before it. *)
LEMMA SubmitKeeps ==
  ASSUME IInv, NEW p \in DOMAIN posts, Submit(p)
  PROVE  IInv'
<1> USE DEF IInv, tables, ghosts
<1> DEFINE record == Record(p)
           at == IF record.at = None THEN today ELSE record.at
           bill == [kind |-> "bill", post |-> p, session |-> record.session, at |-> at,
                    amount |-> record.amount]
           q == [posts[p] EXCEPT !.at = "waiting",
                   !.expected = record.session \in sessions \/ Coming(record.session)]
<1>1. posts[p].at = "sending" /\ UNCHANGED <<sessions, half, today, landed, unstored>>
  BY DEF Submit
<1>2. CASE \E a \in {"invalid", "unavailable"} :
             posts' = [posts EXCEPT ![p].at = a] /\ UNCHANGED queue
  BY <1>1, <1>2, AnswerKeeps
<1>3. CASE /\ queue' = Append(queue, bill)
           /\ posts' = [posts EXCEPT ![p].at = "waiting",
                ![p].expected = record.session \in sessions \/ Coming(record.session)]
  <2>1. posts[p] \in PostState /\ DOMAIN posts = 1..Len(posts) /\ Len(posts) \in Nat
    BY QueueFacts
  <2>2. record.session \in Session /\ record.at \in Int \cup {None} /\ record.amount \in Int
    <3>1. posts[p].batch \in Seq(Asked) /\ posts[p].inserted \in Nat
      BY <2>1, BatchAssumption DEF PostState, Asked
    <3>2. posts[p].inserted + 1 \in DOMAIN posts[p].batch
      BY <1>1, <3>1 DEF CountsAgree
    <3>3. record \in Asked
      BY <3>1, <3>2 DEF Record
    <3> QED BY <3>3 DEF Asked
  <2>3. at \in Int
    BY <2>2 DEF PostsOK
  <2>4. bill \in Command /\ bill.kind = "bill" /\ bill.post = p
        /\ bill.session = record.session
    BY <2>1, <2>2, <2>3 DEF Command, BillCommand
  <2>5. posts' = [posts EXCEPT ![p] = q]
    BY <1>3, <2>1 DEF PostState
  <2>6. /\ q \in PostState /\ q.at = "waiting" /\ q.inserted = posts[p].inserted
        /\ q.batch = posts[p].batch
        /\ q.expected => record.session \in sessions \/ Coming(record.session)
    <3>1. (record.session \in sessions \/ Coming(record.session)) \in BOOLEAN
      BY DEF Coming
    <3> QED BY <2>1, <3>1 DEF PostState, Status
  <2> HIDE DEF bill, q, at
  <2>0. PICK n \in Nat : n = Len(queue) + 1
    BY QueueFacts
  <2>7. /\ queue' \in Seq(Command) /\ DOMAIN queue' = DOMAIN queue \cup {n}
        /\ queue'[n] = bill /\ n \notin DOMAIN queue
        /\ \A i \in DOMAIN queue : queue'[i] = queue[i] /\ i < n
    BY <1>3, <2>0, <2>4, AppendFacts
  <2>8. /\ posts' \in Seq(PostState) /\ Len(posts') = Len(posts) /\ posts'[p] = q
        /\ DOMAIN posts' = DOMAIN posts
        /\ \A r \in DOMAIN posts : r # p => posts'[r] = posts[r]
    BY <2>5, <2>6, PostFacts
  <2>9. \A i \in DOMAIN queue : Queued(i) => queue[i].post # p
    BY <1>1 DEF QueueAgrees, HasPost
  <2>a. \A i \in DOMAIN queue : (Queued(i)' <=> Queued(i)) /\ (Awaited(i)' <=> Awaited(i))
    BY <2>7, <2>8, <2>9 DEF QueueAgrees, HasPost, Queued, Awaited
  <2>10. Record(p)' = record
    BY <2>6, <2>8 DEF Record
  <2> HIDE DEF record
  <2>11. PostsOK'
    BY <1>1, <2>7, <2>8 DEF PostsOK
  <2>12. CountsAgree'
    BY <1>1, <2>6, <2>8 DEF CountsAgree
  <2>b. Record(p)' = Record(p) /\ \A r \in DOMAIN posts : Record(r)' = Record(r)
    BY <2>6, <2>8 DEF Record
  <2>13. QueueAgrees'
    <3>1. ASSUME NEW i \in DOMAIN queue PROVE HasPost(i)'
      <4>1. HasPost(i)
        BY DEF QueueAgrees
      <4>2. CASE Queued(i)
        BY <2>7, <2>8, <2>9, <2>a, <2>b, <4>1, <4>2 DEF HasPost, Record
      <4>3. CASE ~Queued(i)
        BY <2>a, <4>3 DEF HasPost, Awaited
      <4> QED BY <4>2, <4>3
    <3>2. HasPost(n)'
      <4>1. queue'[n].post = p /\ queue'[n].session = record.session
        BY <2>4, <2>7
      <4>2. posts'[p].at = "waiting" /\ p \in DOMAIN posts'
        BY <2>6, <2>8
      <4>3. posts'[queue'[n].post].at = "waiting"
            /\ queue'[n].post \in DOMAIN posts'
        BY <4>1, <4>2
      <4>4. posts'[p].batch[posts'[p].inserted + 1] = record
        BY <2>10 DEF Record
      <4>5. queue'[n].session =
              posts'[queue'[n].post].batch[posts'[queue'[n].post].inserted + 1].session
        BY <4>1, <4>4
      <4> QED BY <4>3, <4>5 DEF HasPost, Record, Awaited, Queued
    <3>3. \A i, j \in DOMAIN queue' :
            Awaited(i)' /\ Awaited(j)' /\ queue'[i].post = queue'[j].post => i = j
      <4>1. \A i \in DOMAIN queue : Awaited(i)' => queue'[i].post # queue'[n].post
        BY <2>4, <2>7, <2>9, <2>a DEF Awaited
      <4>2. \A i, j \in DOMAIN queue :
              Awaited(i)' /\ Awaited(j)' /\ queue'[i].post = queue'[j].post => i = j
        BY <2>7, <2>a DEF QueueAgrees
      <4>3. \A i \in DOMAIN queue' : i \in DOMAIN queue \/ i = n
        BY <2>7
      <4> QED BY <4>1, <4>2, <4>3
    <3>4. \A i \in DOMAIN queue' : HasPost(i)'
      <4> SUFFICES ASSUME NEW i \in DOMAIN queue' PROVE HasPost(i)'
        OBVIOUS
      <4>1. i \in DOMAIN queue \/ i = n
        BY <2>7
      <4>2. CASE i \in DOMAIN queue
        BY <3>1, <4>2
      <4>3. CASE i = n
        BY <3>2, <4>3
      <4> QED BY <4>1, <4>2, <4>3
    <3> QED BY <3>3, <3>4 DEF QueueAgrees
  <2>14. TurnsComeFirst'
    <3>1. HalfStored'
      BY <1>1, <2>7 DEF TurnsComeFirst, HalfStored, Settled
    <3>2. ASSUME NEW i \in DOMAIN queue PROVE TurnAhead(i)'
      <4>1. CASE Awaited(i)
        <5>1. posts'[queue'[i].post] = posts[queue[i].post] /\ queue'[i] = queue[i]
          BY <2>7, <2>8, <2>9, <4>1 DEF QueueAgrees, HasPost, Awaited
        <5> QED BY <1>1, <2>7, <4>1, <5>1 DEF TurnsComeFirst, TurnAhead, Settled
      <4>2. CASE ~Awaited(i)
        BY <2>a, <4>2 DEF TurnAhead
      <4> QED BY <4>1, <4>2
    <3>3. TurnAhead(n)'
      <4>1. queue'[n].post = p /\ queue'[n].session = record.session
        BY <2>4, <2>7
      <4>2. posts'[p].expected => record.session \in sessions \/ Coming(record.session)
        <5>1. posts'[p].expected = q.expected
          BY <2>8
        <5> QED BY <2>6, <5>1, Zenon
      <4>3. record.session \in sessions => record.session \in sessions' \cup unstored'
        BY <1>1
      <4>4. Coming(record.session) =>
              \E j \in DOMAIN queue' : /\ j < n /\ queue'[j].kind = "turn"
                                     /\ queue'[j].session = record.session
        BY <2>7 DEF Coming
      <4>5. posts'[queue'[n].post].expected = posts'[p].expected
        BY <4>1
      <4>6. ASSUME posts'[queue'[n].post].expected
            PROVE  \/ queue'[n].session \in sessions' \cup unstored'
                   \/ \E j \in DOMAIN queue' :
                        /\ j < n /\ queue'[j].kind = "turn"
                        /\ queue'[j].session = queue'[n].session
        <5>1. posts'[p].expected
          BY <4>5, <4>6, Zenon
        <5>2. record.session \in sessions \/ Coming(record.session)
          BY <4>2, <5>1, Zenon
        <5> QED BY <4>1, <4>3, <4>4, <5>2
      <4> QED BY <4>6 DEF TurnAhead, Settled
    <3>4. \A r \in DOMAIN posts' :
            posts'[r].at = "unknown" /\ posts'[r].expected => Record(r)'.session \in unstored'
      BY <1>1, <2>6, <2>8, <2>b DEF TurnsComeFirst
    <3>5. \A i \in DOMAIN queue' : TurnAhead(i)'
      <4> SUFFICES ASSUME NEW i \in DOMAIN queue' PROVE TurnAhead(i)'
        OBVIOUS
      <4>1. i \in DOMAIN queue \/ i = n
        BY <2>7
      <4>2. CASE i \in DOMAIN queue
        BY <3>2, <4>2
      <4>3. CASE i = n
        BY <3>3, <4>3
      <4> QED BY <4>1, <4>2, <4>3
    <3> QED BY <3>1, <3>4, <3>5 DEF TurnsComeFirst
  <2> QED BY <2>11, <2>12, <2>13, <2>14
<1> QED BY <1>2, <1>3 DEF Submit

(* What is queued last does not disturb what is queued before it.          *)
LEMMA FinishTurnKeeps ==
  ASSUME IInv, NEW s \in Session, NEW charge \in Charge, FinishTurn(s, charge)
  PROVE  IInv'
<1> USE DEF IInv, tables, ghosts
<1> DEFINE turn == [kind |-> "turn", session |-> s, day |-> today, charge |-> charge]
<1>1. UNCHANGED <<sessions, half, today, posts, landed, unstored>>
  BY DEF FinishTurn
<1>2. CASE UNCHANGED queue
  BY <1>1, <1>2, Frame DEF PostsOK
<1>3. CASE queue' = Append(queue, turn)
  <2>1. turn \in Command /\ turn.kind = "turn"
    BY DEF PostsOK, Command, TurnCommand
  <2> HIDE DEF turn
  <2>2. PICK n \in Nat : n = Len(queue) + 1
    BY QueueFacts
  <2>3. /\ queue' \in Seq(Command) /\ DOMAIN queue' = DOMAIN queue \cup {n}
        /\ queue'[n] = turn /\ n \notin DOMAIN queue
        /\ \A i \in DOMAIN queue : queue'[i] = queue[i] /\ i < n
    BY <1>3, <2>1, <2>2, AppendFacts
  <2>4. PostsOK' /\ CountsAgree'
    BY <1>1, <2>3 DEF PostsOK, CountsAgree
  <2>5. ~Queued(n)' /\ ~Awaited(n)' /\ (\A i \in DOMAIN queue : Queued(i)' <=> Queued(i))
        /\ (\A i \in DOMAIN queue : Awaited(i)' <=> Awaited(i))
    BY <1>1, <2>1, <2>3 DEF Queued, Awaited
  <2>6. \A i \in DOMAIN queue : HasPost(i)' /\ TurnAhead(i)'
    BY <1>1, <2>3, <2>5
       DEF QueueAgrees, HasPost, Record, TurnsComeFirst, TurnAhead, Settled
  <2>7. HasPost(n)' /\ TurnAhead(n)'
    BY <2>5 DEF HasPost, TurnAhead
  <2>8. QueueAgrees'
    BY <2>3, <2>5, <2>6, <2>7 DEF QueueAgrees
  <2>9. HalfStored'
    BY <1>1, <2>3 DEF TurnsComeFirst, HalfStored, Settled
  <2>10. \A p \in DOMAIN posts' :
           posts'[p].at = "unknown" /\ posts'[p].expected => Record(p)'.session \in unstored'
    BY <1>1 DEF TurnsComeFirst, Record
  <2> QED BY <2>3, <2>4, <2>6, <2>7, <2>8, <2>9, <2>10 DEF TurnsComeFirst
<1> QED BY <1>2, <1>3 DEF FinishTurn

(* The row of a session is stored, or refused: what was settled stays so.  *)
LEMMA StoreSessionKeeps ==
  ASSUME IInv, StoreSession
  PROVE  IInv'
<1> USE DEF IInv
<1>1. /\ UNCHANGED <<queue, today, posts, landed>> /\ half' = TRUE
      /\ queue # <<>> /\ queue[1].kind = "turn"
      /\ sessions \cup unstored \cup {queue[1].session} = sessions' \cup unstored'
      /\ unstored \subseteq unstored'
  BY DEF StoreSession, Next1, MayFail
<1>2. 1 \in DOMAIN queue
  BY <1>1, QueueFacts
<1>3. PostsOK' /\ CountsAgree'
  BY <1>1 DEF PostsOK, CountsAgree
<1>4. QueueAgrees'
  BY <1>1 DEF QueueAgrees, HasPost, Queued, Awaited, Record
<1>5. HalfStored'
  BY <1>1, <1>2 DEF HalfStored, Settled
<1>6. \A i \in DOMAIN queue' : TurnAhead(i)'
  BY <1>1 DEF TurnsComeFirst, TurnAhead, Queued, Awaited, Settled
<1>7. \A p \in DOMAIN posts' :
        posts'[p].at = "unknown" /\ posts'[p].expected => Record(p)'.session \in unstored'
  BY <1>1 DEF TurnsComeFirst, Record
<1> QED BY <1>3, <1>4, <1>5, <1>6, <1>7 DEF TurnsComeFirst

(* The first command leaves the queue: a turn when its session is settled, *)
(* and no other bill in the queue is one of a post that changes.           *)
LEMMA PopKeeps ==
  ASSUME IInv, queue # <<>>, queue' = Tail(queue), half' = FALSE,
         UNCHANGED <<sessions, unstored>>, DOMAIN posts' = DOMAIN posts,
         queue[1].kind = "turn" => Settled(queue[1].session),
         \A i \in DOMAIN queue \ {1} :
           Queued(i) => posts'[queue[i].post] = posts[queue[i].post]
  PROVE  /\ QueueAgrees' /\ HalfStored' /\ queue' \in Seq(Command)
         /\ \A i \in DOMAIN queue' : TurnAhead(i)'
<1> USE DEF IInv
<1>1. /\ queue' \in Seq(Command) /\ 1 \in DOMAIN queue
      /\ \A i \in DOMAIN queue' : /\ i + 1 \in DOMAIN queue /\ queue'[i] = queue[i + 1]
                                  /\ i \in Nat \ {0}
      /\ \A j \in DOMAIN queue : j # 1 => j - 1 \in DOMAIN queue' /\ j \in Nat /\ j > 1
  BY TailFacts
<1>2. \A i \in DOMAIN queue' : i + 1 \in DOMAIN queue \ {1}
  BY <1>1
<1>3. \A i \in DOMAIN queue' :
        /\ Queued(i)' <=> Queued(i + 1)
        /\ Queued(i + 1) => posts'[queue'[i].post] = posts[queue[i + 1].post]
        /\ Awaited(i)' <=> Awaited(i + 1)
  BY <1>1, <1>2 DEF Queued, Awaited
<1>4. \A i \in DOMAIN queue' : HasPost(i)'
  <2> SUFFICES ASSUME NEW i \in DOMAIN queue' PROVE HasPost(i)'
    OBVIOUS
  <2>1. HasPost(i + 1) /\ queue'[i] = queue[i + 1]
    BY <1>1 DEF QueueAgrees
  <2>2. CASE Queued(i + 1)
    <3>1. posts'[queue'[i].post] = posts[queue[i + 1].post]
      BY <1>3, <2>2
    <3>2. (Awaited(i)' <=> Awaited(i + 1)) /\ queue'[i].post \in DOMAIN posts'
      BY <1>3, <2>1, <2>2 DEF HasPost
    <3> QED BY <2>1, <2>2, <3>1, <3>2 DEF HasPost, Record
  <2>3. CASE ~Queued(i + 1)
    BY <1>3, <2>3 DEF HasPost, Awaited
  <2> QED BY <2>2, <2>3
<1>5. \A i, j \in DOMAIN queue' :
        Awaited(i)' /\ Awaited(j)' /\ queue'[i].post = queue'[j].post => i = j
  <2> SUFFICES ASSUME NEW i \in DOMAIN queue', NEW j \in DOMAIN queue',
                      Awaited(i)', Awaited(j)', queue'[i].post = queue'[j].post
               PROVE  i = j
    OBVIOUS
  <2>1. Awaited(i + 1) /\ Awaited(j + 1) /\ queue[i + 1].post = queue[j + 1].post
    BY <1>1, <1>3
  <2>2. i + 1 = j + 1
    BY <1>1, <2>1 DEF QueueAgrees
  <2> QED BY <1>1, <2>2
<1>6. \A i \in DOMAIN queue' : TurnAhead(i)'
  <2> SUFFICES ASSUME NEW i \in DOMAIN queue', Awaited(i)',
                      posts'[queue'[i].post].expected
               PROVE  \/ queue'[i].session \in sessions' \cup unstored'
                      \/ \E j \in DOMAIN queue' : /\ j < i /\ queue'[j].kind = "turn"
                                                  /\ queue'[j].session = queue'[i].session
    BY DEF TurnAhead, Settled
  <2>1. Awaited(i + 1) /\ posts'[queue'[i].post] = posts[queue[i + 1].post]
    BY <1>3 DEF Awaited
  <2>2. posts[queue[i + 1].post].expected = posts'[queue'[i].post].expected
    BY <2>1
  <2>3. posts[queue[i + 1].post].expected
    BY <2>2, Zenon
  <2>4. \/ Settled(queue[i + 1].session)
        \/ \E j \in DOMAIN queue : /\ j < i + 1 /\ queue[j].kind = "turn"
                                   /\ queue[j].session = queue[i + 1].session
    BY <1>1, <2>1, <2>3 DEF TurnsComeFirst, TurnAhead
  <2>5. CASE Settled(queue[i + 1].session)
    BY <1>1, <2>5 DEF Settled
  <2>6. ASSUME NEW j \in DOMAIN queue, j < i + 1, queue[j].kind = "turn",
               queue[j].session = queue[i + 1].session
        PROVE  \/ queue'[i].session \in sessions' \cup unstored'
               \/ \E k \in DOMAIN queue' : /\ k < i /\ queue'[k].kind = "turn"
                                           /\ queue'[k].session = queue'[i].session
    <3>1. CASE j = 1
      BY <1>1, <2>6, <3>1 DEF Settled
    <3>2. CASE j # 1
      <4>1. j - 1 \in DOMAIN queue' /\ j \in Nat /\ i \in Nat
        BY <1>1, <3>2
      <4>2. queue'[j - 1] = queue[j] /\ j - 1 < i
        BY <1>1, <2>6, <4>1
      <4> QED BY <1>1, <2>6, <4>1, <4>2
    <3> QED BY <3>1, <3>2
  <2> QED BY <2>4, <2>5, <2>6
<1> QED BY <1>1, <1>4, <1>5, <1>6 DEF QueueAgrees, HalfStored

LEMMA StoreRequestKeeps ==
  ASSUME IInv, StoreRequest
  PROVE  IInv'
<1> USE DEF IInv, ghosts
<1>1. /\ UNCHANGED <<sessions, today, posts, landed, unstored>>
      /\ half /\ half' = FALSE /\ queue # <<>> /\ queue' = Tail(queue)
  BY DEF StoreRequest, Next1
<1>2. Settled(queue[1].session)
  BY <1>1 DEF TurnsComeFirst, HalfStored
<1>3. /\ QueueAgrees' /\ HalfStored' /\ queue' \in Seq(Command)
      /\ \A i \in DOMAIN queue' : TurnAhead(i)'
  BY <1>1, <1>2, PopKeeps
<1>4. PostsOK' /\ CountsAgree'
  BY <1>1, <1>3 DEF PostsOK, CountsAgree
<1>5. \A p \in DOMAIN posts' :
        posts'[p].at = "unknown" /\ posts'[p].expected => Record(p)'.session \in unstored'
  BY <1>1 DEF TurnsComeFirst, Record
<1> QED BY <1>3, <1>4, <1>5 DEF TurnsComeFirst

(* A bill is stored, or not, and the post that waits for it is told: its   *)
(* count follows the table.  A session without a row is one whose turn was *)
(* refused, if a turn came first, for no turn is ahead of the first place. *)
LEMMA StoreBillKeeps ==
  ASSUME IInv, StoreBill
  PROVE  IInv'
<1> USE DEF IInv
<1> DEFINE bill == queue[1]
<1>1. /\ queue # <<>> /\ bill.kind = "bill" /\ queue' = Tail(queue)
      /\ UNCHANGED <<sessions, half, today, unstored>>
  BY DEF StoreBill, Next1
<1>2. PICK result \in {"stored", "unknown", "failed"} :
        /\ Reply(bill, result)
        /\ result = "stored" => landed' = [landed EXCEPT ![bill.post] = @ + 1]
        /\ result # "stored" => landed' = landed
        /\ result = "unknown" => bill.session \notin sessions
  BY DEF StoreBill, Insert
<1>3. 1 \in DOMAIN queue /\ Queued(1)
  BY <1>1, QueueFacts DEF Queued
<1>4. HasPost(1)
  BY <1>3 DEF QueueAgrees
<1>5. PICK p \in DOMAIN posts : p = bill.post
  BY <1>3, <1>4 DEF HasPost
<1>6. ~half /\ half' = FALSE
  BY <1>1, <1>3 DEF TurnsComeFirst, HalfStored, PostsOK
<1>7. posts[p] \in PostState /\ landed[p] \in Nat /\ DOMAIN landed = DOMAIN posts
  BY DEF PostsOK
<1>8. /\ landed' \in Seq(Nat) /\ Len(landed') = Len(landed)
      /\ landed'[p] = IF result = "stored" THEN landed[p] + 1 ELSE landed[p]
      /\ \A r \in DOMAIN posts : r # p => landed'[r] = landed[r]
  <2>1. CASE result = "stored"
    <3>1. landed' = [landed EXCEPT ![p] = landed[p] + 1] /\ landed \in Seq(Nat)
      BY <1>2, <1>5, <2>1 DEF PostsOK
    <3>2. landed' \in Seq(Nat) /\ Len(landed') = Len(landed)
      BY <1>7, <3>1, ExceptSeq
    <3> QED BY <1>7, <2>1, <3>1, <3>2
  <2>2. CASE result # "stored"
    BY <1>2, <2>2 DEF PostsOK
  <2> QED BY <2>1, <2>2
<1>9. CASE posts[p].at # "waiting"
  <2>1. posts' = posts /\ posts[p].at = "lost"
    BY <1>2, <1>3, <1>4, <1>5, <1>9 DEF Reply, HasPost
  <2>2. /\ QueueAgrees' /\ HalfStored' /\ queue' \in Seq(Command)
        /\ \A i \in DOMAIN queue' : TurnAhead(i)'
    BY <1>1, <1>6, <2>1, PopKeeps
  <2>3. PostsOK'
    BY <1>1, <1>6, <1>8, <2>1, <2>2 DEF PostsOK
  <2>4. CountsAgree'
    BY <1>8, <2>1 DEF CountsAgree
  <2>5. TurnsComeFirst'
    BY <1>1, <2>1, <2>2 DEF TurnsComeFirst, Record
  <2> QED BY <2>2, <2>3, <2>4, <2>5
<1>10. CASE posts[p].at = "waiting"
  <2> DEFINE stored == result = "stored"
             last == posts[p].inserted + 1 = Len(posts[p].batch)
             q == [posts[p] EXCEPT
                     !.inserted = IF stored THEN posts[p].inserted + 1 ELSE posts[p].inserted,
                     !.at = IF ~stored THEN result ELSE IF last THEN "ok" ELSE "sending"]
  <2>1. posts' = [posts EXCEPT ![p] = q]
    BY <1>2, <1>5, <1>7, <1>10 DEF Reply, PostState
  <2>2. /\ q \in PostState /\ q.batch = posts[p].batch /\ q.expected = posts[p].expected
        /\ q.inserted = IF stored THEN posts[p].inserted + 1 ELSE posts[p].inserted
        /\ q.at = IF ~stored THEN result ELSE IF last THEN "ok" ELSE "sending"
    <3> DEFINE n == IF stored THEN posts[p].inserted + 1 ELSE posts[p].inserted
               a == IF ~stored THEN result ELSE IF last THEN "ok" ELSE "sending"
    <3>1. n \in Nat
      BY <1>7 DEF PostState
    <3>2. a \in Status
      BY DEF Status
    <3> HIDE DEF n, a
    <3>3. q = [posts[p] EXCEPT !.inserted = n, !.at = a]
      BY DEF n, a
    <3>4. /\ q \in PostState /\ q.batch = posts[p].batch /\ q.expected = posts[p].expected
          /\ q.inserted = n /\ q.at = a
      BY <1>7, <3>1, <3>2, <3>3 DEF PostState
    <3> QED BY <3>4 DEF n, a
  <2> HIDE DEF q
  <2>3. /\ posts' \in Seq(PostState) /\ Len(posts') = Len(posts) /\ posts'[p] = q
        /\ DOMAIN posts' = DOMAIN posts
        /\ \A r \in DOMAIN posts : r # p => posts'[r] = posts[r]
    BY <2>1, <2>2, PostFacts
  <2>4. Awaited(1) /\ bill.session = Record(p).session
    BY <1>3, <1>4, <1>5, <1>10 DEF HasPost, Awaited
  <2>5. \A i \in DOMAIN queue \ {1} : Queued(i) => queue[i].post # p
    BY <1>3, <1>5, <1>10, <2>4 DEF QueueAgrees, Awaited
  <2>6. \A i \in DOMAIN queue \ {1} :
          Queued(i) => posts'[queue[i].post] = posts[queue[i].post]
    BY <2>3, <2>5 DEF QueueAgrees, HasPost
  <2>7. /\ QueueAgrees' /\ HalfStored' /\ queue' \in Seq(Command)
        /\ \A i \in DOMAIN queue' : TurnAhead(i)'
    BY <1>1, <1>6, <2>3, <2>6, PopKeeps
  <2>8. PostsOK'
    BY <1>1, <1>6, <1>8, <2>3, <2>7 DEF PostsOK
  <2>9. CountsAgree'
    <3>1. /\ landed[p] = posts[p].inserted /\ posts[p].inserted < Len(posts[p].batch)
          /\ posts[p].inserted \in Nat /\ Len(posts[p].batch) \in Nat
      BY <1>7, <1>10, BatchAssumption DEF CountsAgree, PostState
    <3>2. /\ landed'[p] = q.inserted /\ q.inserted <= Len(q.batch)
          /\ q.at \in {"sending", "waiting"} => q.inserted < Len(q.batch)
          /\ q.at = "ok" => q.inserted = Len(q.batch)
      BY <1>8, <2>2, <3>1
    <3> QED BY <1>8, <2>3, <3>2 DEF CountsAgree
  <2>10. ASSUME NEW r \in DOMAIN posts', posts'[r].at = "unknown", posts'[r].expected
         PROVE  Record(r)'.session \in unstored'
    <3>1. CASE r # p
      <4>1. posts'[r] = posts[r]
        BY <2>3, <2>10, <3>1
      <4> QED BY <1>1, <2>3, <2>10, <4>1 DEF TurnsComeFirst, Record
    <3>2. CASE r = p
      <4>1. result = "unknown" /\ ~stored
        BY <2>2, <2>3, <2>10, <3>2
      <4>2. posts'[r].batch[posts'[r].inserted + 1] = Record(p)
        BY <2>2, <2>3, <3>2, <4>1 DEF Record
      <4>3. posts[queue[1].post].expected = posts'[r].expected
        BY <1>5, <2>2, <2>3, <3>2
      <4>4. posts[queue[1].post].expected
        BY <2>10, <4>3, Zenon
      <4>5. \A j \in DOMAIN queue : ~(j < 1)
        BY QueueFacts
      <4>6. Settled(bill.session)
        BY <1>3, <2>4, <4>4, <4>5 DEF TurnsComeFirst, TurnAhead
      <4>7. bill.session \in unstored'
        BY <1>1, <1>2, <4>1, <4>6 DEF Settled
      <4> QED BY <2>4, <4>2, <4>7 DEF Record
    <3> QED BY <3>1, <3>2
  <2> QED BY <2>7, <2>8, <2>9, <2>10 DEF TurnsComeFirst
<1> QED BY <1>9, <1>10

(* What is queued dies with the core, and whoever waits for it is gone.    *)
LEMMA CrashKeeps ==
  ASSUME IInv, Crash
  PROVE  IInv'
<1> USE DEF IInv, tables, ghosts
<1> DEFINE Cut(p) == IF posts[p].at \in {"sending", "waiting"}
                       THEN [posts[p] EXCEPT !.at = "lost"] ELSE posts[p]
<1>1. /\ queue' = <<>> /\ half' = FALSE /\ UNCHANGED <<sessions, today, landed, unstored>>
      /\ posts' = [p \in DOMAIN posts |-> Cut(p)]
  BY DEF Crash
<1>2. \A p \in DOMAIN posts :
        /\ Cut(p) \in PostState /\ Cut(p).batch = posts[p].batch
        /\ Cut(p).inserted = posts[p].inserted /\ Cut(p).expected = posts[p].expected
        /\ Cut(p).at = posts[p].at \/ Cut(p).at = "lost"
        /\ Cut(p).at \notin {"sending", "waiting"}
  BY QueueFacts DEF PostState, Status
<1> HIDE DEF Cut
<1>3. DOMAIN posts = 1..Len(posts) /\ Len(posts) \in Nat
  BY QueueFacts
<1>4. posts' \in Seq(PostState) /\ Len(posts') = Len(posts) /\ DOMAIN posts' = DOMAIN posts
      /\ \A p \in DOMAIN posts : posts'[p] = Cut(p)
  BY <1>1, <1>2, <1>3
<1>5. PostsOK'
  <2>1. queue' \in Seq(Command)
    BY <1>1
  <2>2. half' \in BOOLEAN
    BY <1>1, Zenon
  <2> QED BY <1>1, <1>4, <2>1, <2>2 DEF PostsOK
<1>6. CountsAgree'
  BY <1>1, <1>2, <1>4 DEF CountsAgree
<1>7. QueueAgrees'
  BY <1>1 DEF QueueAgrees
<1>8. TurnsComeFirst'
  <2>1. HalfStored' /\ \A i \in DOMAIN queue' : TurnAhead(i)'
    BY <1>1 DEF HalfStored
  <2>2. ASSUME NEW r \in DOMAIN posts', posts'[r].at = "unknown", posts'[r].expected
        PROVE  Record(r)'.session \in unstored'
    <3>1. posts[r].at = "unknown" /\ posts[r].expected = posts'[r].expected
          /\ posts'[r].batch[posts'[r].inserted + 1] = Record(r)
      BY <1>2, <1>4, <2>2 DEF Record
    <3>2. posts[r].expected
      BY <2>2, <3>1, Zenon
    <3> QED BY <1>1, <1>4, <2>2, <3>1, <3>2 DEF TurnsComeFirst, Record
  <2> QED BY <2>1, <2>2 DEF TurnsComeFirst
<1> QED BY <1>5, <1>6, <1>7, <1>8

-----------------------------------------------------------------------------
LEMMA NextKeeps ==
  ASSUME IInv, [Next]_vars
  PROVE  IInv'
<1> USE DEF tables, ghosts
<1>1. ASSUME NEW batch \in Batch, Post(batch) PROVE IInv'
  BY <1>1, PostKeeps
<1>2. ASSUME NEW p \in DOMAIN posts, Submit(p) PROVE IInv'
  BY <1>2, SubmitKeeps
<1>3. ASSUME NEW p \in DOMAIN posts, HangUp(p) PROVE IInv'
  <2>1. /\ posts[p].at \in {"sending", "waiting"} /\ posts' = [posts EXCEPT ![p].at = "lost"]
        /\ UNCHANGED <<sessions, queue, half, today, landed, unstored>>
    BY <1>3 DEF HangUp
  <2> QED BY <2>1, AnswerKeeps
<1>4. ASSUME NEW s \in Session, NEW charge \in Charge, FinishTurn(s, charge) PROVE IInv'
  BY <1>4, FinishTurnKeeps
<1>5. CASE StoreSession
  BY <1>5, StoreSessionKeeps
<1>6. CASE StoreRequest
  BY <1>6, StoreRequestKeeps
<1>7. CASE StoreBill
  BY <1>7, StoreBillKeeps
<1>8. ASSUME NEW kind \in DOMAIN Queries, Ask(kind) PROVE IInv'
  BY <1>8, Frame DEF Ask, IInv, PostsOK
<1>9. CASE ReadRows \/ ReadCosts \/ ReadBills \/ ReadCached
  BY <1>9, Frame DEF ReadRows, ReadCosts, ReadBills, ReadCached, Reads, IInv, PostsOK
<1>10. CASE Midnight
  <2>1. today' \in Nat /\ UNCHANGED <<sessions, queue, half, posts, landed, unstored>>
    BY <1>10 DEF Midnight, IInv, PostsOK
  <2> QED BY <2>1, Frame
<1>11. CASE Crash
  BY <1>11, CrashKeeps
<1>12. CASE UNCHANGED vars
  BY <1>12, Frame DEF vars, IInv, PostsOK
<1> QED
  BY <1>1, <1>2, <1>3, <1>4, <1>5, <1>6, <1>7, <1>8, <1>9, <1>10, <1>11, <1>12 DEF Next

(* The answers of the import endpoint, whatever it is sent, however often  *)
(* its clients hang up, the writer fails or the core dies, and whatever is *)
(* read meanwhile: the rows an answer counts are there, all of the batch   *)
(* if it is ok, and a session it calls unknown had no turn finalized       *)
(* before, or a turn whose row the table refused.                          *)
THEOREM ImportsAnswerTruly == Spec => []AnswersAreTrue
<1>1. Init => IInv
  BY Initially
<1>2. IInv /\ [Next]_vars => IInv'
  BY NextKeeps
<1>3. IInv => AnswersAreTrue
  <2> SUFFICES ASSUME IInv, NEW p \in DOMAIN posts,
                      posts[p].at \notin {"sending", "waiting", "lost"}
               PROVE  /\ landed[p] = posts[p].inserted
                      /\ posts[p].at = "ok" => posts[p].inserted = Len(posts[p].batch)
                      /\ posts[p].at = "unknown" /\ posts[p].expected =>
                           Record(p).session \in unstored
    BY DEF AnswersAreTrue
  <2> QED BY DEF IInv, CountsAgree, TurnsComeFirst
<1> QED BY <1>1, <1>2, <1>3, PTL DEF Spec

-----------------------------------------------------------------------------
(* The books: rows and bills are only added, and what was acknowledged is  *)
(* among the bills.                                                        *)

Row == [session : Session, day : Int, charge : Charge] \cup Range(OldRows)
Bill == [session : Session, at : Int, amount : Int]
Booked == {[session |-> bills[i].session, at |-> bills[i].at] : i \in DOMAIN bills}

BooksOK ==
  /\ requests \in Seq(Row) /\ bills \in Seq(Bill)
  /\ today \in 0..LastDay
  /\ acked \subseteq Booked

(* How far a report has come: its first k queries are answered.            *)
QueryPair ==
  {"rows", "costs", "bills", "cached"} \X {"today", "week", "month", "session"}
Steps == Queries[report.kind]
Answered(k) ==
  /\ report.todo \in Seq(QueryPair) /\ Len(report.todo) + k = Len(Steps)
  /\ \A i \in DOMAIN report.todo : report.todo[i] = Steps[k + i]

Filled(i) == Order[i] \in DOMAIN report.windows
Billed(window) == "bills" \in DOMAIN window

SummaryProgress(k) ==
  /\ DOMAIN report.windows \subseteq {Order[i] : i \in DOMAIN Order}
  /\ \A i \in DOMAIN Order : Filled(i) <=> 2 * i - 1 <= k
  /\ \A i \in DOMAIN Order : 2 * i <= k => Billed(report.windows[Order[i]])
SessionProgress(k) ==
  /\ DOMAIN report.windows = {"session"} /\ "ids" \in DOMAIN report.windows["session"]
  /\ 2 <= k => Billed(report.windows["session"])
Progress ==
  report.kind # "none" =>
    \E k \in Nat :
      /\ Answered(k)
      /\ report.kind = "summary" => SummaryProgress(k)
      /\ report.kind = "session" => SessionProgress(k)

(* What a window shows is what its rows, which are still there, add up to, *)
(* and bills that are still there.                                         *)
Counted(window) ==
  /\ {"since", "rows", "ids", "estimate", "input"} \subseteq DOMAIN window
  /\ window.since \in Int /\ window.rows \subseteq DOMAIN requests
  /\ \A i \in window.rows : requests[i].day >= window.since
  /\ window.ids \subseteq sessions \cap {requests[i].session : i \in window.rows}
  /\ window.estimate = Aggregate(window.rows)
  /\ window.input = CachedInput(window.rows)
BillsStand(window) ==
  Billed(window) =>
    /\ DOMAIN window.bills \subseteq window.ids
    /\ \A s \in DOMAIN window.bills :
         [session |-> s, at |-> window.bills[s].at] \in Booked
AcksStand(window) ==
  Billed(window) =>
    \A bill \in report.acked :
      bill.session \in window.ids =>
        bill.session \in DOMAIN window.bills /\ window.bills[bill.session].at >= bill.at

(* A later window of a summary shows all that an earlier one shows.        *)
Nests(short, long) ==
  short.since >= long.since =>
    /\ short.rows \subseteq long.rows /\ short.ids \subseteq long.ids
    /\ Billed(long) => \A s \in DOMAIN short.bills :
                         /\ s \in DOMAIN long.bills
                         /\ short.bills[s].at <= long.bills[s].at

Told(window) == Counted(window) /\ BillsStand(window)

ReportOK ==
  /\ report = [kind |-> report.kind, todo |-> report.todo,
               windows |-> report.windows, acked |-> report.acked]
  /\ report.kind \in {"none", "summary", "session"}
  /\ report.kind = "none" => report = NoReport
  /\ report.acked \subseteq acked
  /\ Progress
  /\ \A w \in DOMAIN report.windows : AcksStand(report.windows[w])
  /\ report.kind = "summary" =>
       /\ \A w \in DOMAIN report.windows : Told(report.windows[w])
       /\ \A i, j \in DOMAIN Order :
            i < j /\ Filled(j) => Nests(report.windows[Order[i]], report.windows[Order[j]])

-----------------------------------------------------------------------------
\* The queries of a report, one by one.
LEMMA SummarySteps ==
  /\ Queries["summary"] \in Seq(QueryPair) /\ Len(Queries["summary"]) = 6
  /\ DOMAIN Order = {1, 2, 3}
  /\ \A i \in DOMAIN Order :
       /\ Queries["summary"][2 * i - 1] = <<"rows", Order[i]>>
       /\ Queries["summary"][2 * i] = <<"bills", Order[i]>>
  /\ \A i, j \in DOMAIN Order : Order[i] = Order[j] => i = j
<1> DEFINE steps == <<<<"rows", "today">>, <<"bills", "today">>, <<"rows", "week">>,
                      <<"bills", "week">>, <<"rows", "month">>, <<"bills", "month">>>>
<1>1. Queries["summary"] = steps
  BY DEF Queries
<1>2. steps \in Seq(QueryPair) /\ Len(steps) = 6
  <2>1. /\ <<"rows", "today">> \in QueryPair /\ <<"bills", "today">> \in QueryPair
        /\ <<"rows", "week">> \in QueryPair /\ <<"bills", "week">> \in QueryPair
        /\ <<"rows", "month">> \in QueryPair /\ <<"bills", "month">> \in QueryPair
    BY DEF QueryPair
  <2>2. steps \in Seq(QueryPair) /\ Len(steps) = 6
    BY <2>1
  <2> QED BY <2>2
<1>3. /\ DOMAIN Order = {1, 2, 3}
      /\ Order[1] = "today" /\ Order[2] = "week" /\ Order[3] = "month"
  BY DEF Order
<1>4. /\ steps[2 * 1 - 1] = <<"rows", Order[1]>> /\ steps[2 * 1] = <<"bills", Order[1]>>
      /\ steps[2 * 2 - 1] = <<"rows", Order[2]>> /\ steps[2 * 2] = <<"bills", Order[2]>>
      /\ steps[2 * 3 - 1] = <<"rows", Order[3]>> /\ steps[2 * 3] = <<"bills", Order[3]>>
  BY <1>3
<1> HIDE DEF steps
<1>5. \A i \in DOMAIN Order :
       /\ steps[2 * i - 1] = <<"rows", Order[i]>>
       /\ steps[2 * i] = <<"bills", Order[i]>>
  BY <1>3, <1>4
<1>6. \A i, j \in DOMAIN Order : Order[i] = Order[j] => i = j
  BY <1>3
<1> QED BY <1>1, <1>2, <1>3, <1>5, <1>6

LEMMA SessionSteps ==
  /\ Queries["session"] \in Seq(QueryPair) /\ Len(Queries["session"]) = 3
  /\ Queries["session"][1] = <<"costs", "session">>
  /\ Queries["session"][2] = <<"bills", "session">>
  /\ Queries["session"][3] = <<"cached", "session">>
<1>1. Queries["session"] =
        <<<<"costs", "session">>, <<"bills", "session">>, <<"cached", "session">>>>
  BY DEF Queries
<1>2. /\ <<"costs", "session">> \in QueryPair /\ <<"bills", "session">> \in QueryPair
      /\ <<"cached", "session">> \in QueryPair
  BY DEF QueryPair
<1>3. Queries["session"] \in Seq(QueryPair)
  BY <1>1, <1>2
<1> QED BY <1>1, <1>3

\* The next query, and how far a report is once it is answered.
LEMMA Advance ==
  ASSUME NEW k \in Nat, Answered(k), Steps \in Seq(QueryPair)
  PROVE  /\ report.todo = <<>> <=> k = Len(Steps)
         /\ report.todo # <<>> =>
              /\ k + 1 \in 1..Len(Steps) /\ Query = Steps[k + 1]
              /\ Tail(report.todo) \in Seq(QueryPair)
              /\ Len(Tail(report.todo)) + (k + 1) = Len(Steps)
              /\ \A i \in DOMAIN Tail(report.todo) :
                   Tail(report.todo)[i] = Steps[(k + 1) + i]
<1> DEFINE todo == report.todo
<1>1. /\ todo \in Seq(QueryPair) /\ Len(todo) + k = Len(Steps)
      /\ \A i \in DOMAIN todo : todo[i] = Steps[k + i]
      /\ Len(todo) \in Nat /\ Len(Steps) \in Nat /\ DOMAIN todo = 1..Len(todo)
  BY LenProperties DEF Answered
<1>2. Query = Head(todo)
  BY DEF Query
<1> HIDE DEF todo
<1>3. todo = <<>> <=> k = Len(Steps)
  BY <1>1
<1>4. ASSUME todo # <<>>
      PROVE  /\ k + 1 \in 1..Len(Steps) /\ Query = Steps[k + 1]
             /\ Tail(todo) \in Seq(QueryPair)
             /\ Len(Tail(todo)) + (k + 1) = Len(Steps)
             /\ \A i \in DOMAIN Tail(todo) : Tail(todo)[i] = Steps[(k + 1) + i]
  <2>1. Len(todo) # 0 /\ 1 \in DOMAIN todo
    BY <1>1, <1>4
  <2>2. Head(todo) = todo[1]
    BY <1>1, <2>1
  <2>3. /\ Tail(todo) \in Seq(QueryPair) /\ Len(Tail(todo)) = Len(todo) - 1
        /\ \A i \in 1..Len(Tail(todo)) : Tail(todo)[i] = todo[i + 1]
        /\ DOMAIN Tail(todo) = 1..Len(Tail(todo))
    BY <1>1, <1>4, HeadTailProperties, LenProperties
  <2>4. ASSUME NEW i \in DOMAIN Tail(todo) PROVE Tail(todo)[i] = Steps[(k + 1) + i]
    <3>1. i + 1 \in DOMAIN todo /\ k + (i + 1) = (k + 1) + i /\ Tail(todo)[i] = todo[i + 1]
      BY <1>1, <2>3, <2>4
    <3> QED BY <1>1, <3>1
  <2> QED BY <1>1, <1>2, <2>1, <2>2, <2>3, <2>4
<1> QED BY <1>3, <1>4 DEF todo

-----------------------------------------------------------------------------
(* The tables only grow.                                                   *)

Grows ==
  /\ DOMAIN requests \subseteq DOMAIN requests'
  /\ \A i \in DOMAIN requests : requests'[i] = requests[i]
  /\ sessions \subseteq sessions' /\ Booked \subseteq Booked' /\ acked \subseteq acked'

LEMMA RowsAreNumbers ==
  ASSUME NEW row \in Row
  PROVE  /\ row.day \in Int /\ PriceOf(row.charge).cost \in Int
         /\ row.charge.input \in Int /\ row.charge.cached \in Int
<1>1. CASE row \in Range(OldRows)
  BY <1>1, RowsAssumption, ChargeAssumption DEF Range, PriceOf
<1>2. CASE row \notin Range(OldRows)
  <2>1. row.day \in Int /\ row.charge \in Charge
    BY <1>2 DEF Row
  <2> QED BY <2>1, ChargeAssumption DEF PriceOf
<1> QED BY <1>1, <1>2

LEMMA BooksInitially == Init => BooksOK
<1> SUFFICES ASSUME Init PROVE BooksOK
  OBVIOUS
<1>1. requests \in Seq(Row)
  <2>1. Range(OldRows) \subseteq Row
    BY DEF Row
  <2> QED BY <2>1, RowsAssumption DEF Init
<1> QED BY <1>1, DaysAssumption DEF Init, BooksOK

LEMMA NewRow ==
  ASSUME BooksOK, NEW row \in Row, requests' = Append(requests, row)
  PROVE  /\ requests' \in Seq(Row) /\ DOMAIN requests \subseteq DOMAIN requests'
         /\ \A i \in DOMAIN requests : requests'[i] = requests[i]
BY AppendProperties, LenProperties DEF BooksOK

LEMMA NewBill ==
  ASSUME BooksOK, NEW bill \in Bill, bills' = Append(bills, bill)
  PROVE  /\ bills' \in Seq(Bill) /\ Booked \subseteq Booked'
         /\ [session |-> bill.session, at |-> bill.at] \in Booked'
<1>1. /\ bills \in Seq(Bill) /\ Len(bills) \in Nat /\ DOMAIN bills = 1..Len(bills)
      /\ bills' \in Seq(Bill) /\ Len(bills') = Len(bills) + 1 /\ DOMAIN bills' = 1..Len(bills')
      /\ \A i \in 1..Len(bills) : bills'[i] = bills[i]
      /\ bills'[Len(bills) + 1] = bill
  BY AppendProperties, LenProperties DEF BooksOK
<1>2. \A i \in DOMAIN bills : i \in DOMAIN bills' /\ bills'[i] = bills[i]
  BY <1>1
<1>3. Len(bills) + 1 \in DOMAIN bills'
  BY <1>1
<1> QED BY <1>1, <1>2, <1>3 DEF Booked

LEMMA StepBooks == IInv /\ BooksOK /\ [Next]_vars => BooksOK' /\ Grows
<1> SUFFICES ASSUME IInv, BooksOK, [Next]_vars PROVE BooksOK' /\ Grows
  OBVIOUS
<1> USE DEF tables, ghosts
<1>1. ASSUME UNCHANGED <<requests, bills, acked, today>>, sessions \subseteq sessions'
      PROVE  BooksOK' /\ Grows
  BY <1>1 DEF BooksOK, Grows, Booked
<1>2. CASE StoreSession
  BY <1>1, <1>2 DEF StoreSession
<1>3. CASE StoreRequest
  <2> DEFINE row == [session |-> queue[1].session, day |-> queue[1].day,
                     charge |-> queue[1].charge]
  <2>1. row \in Row
    <3>1. queue[1] \in Command /\ queue[1].kind = "turn"
      BY <1>3 DEF StoreRequest, Next1, IInv, PostsOK
    <3> QED BY <3>1 DEF Command, TurnCommand, BillCommand, Row
  <2>2. UNCHANGED <<sessions, bills, acked, today>>
    BY <1>3 DEF StoreRequest
  <2>3. CASE requests' = Append(requests, row)
    <3> HIDE DEF row
    <3> QED BY <2>1, <2>2, <2>3, NewRow DEF BooksOK, Grows, Booked
  <2>4. CASE UNCHANGED requests
    BY <1>1, <2>2, <2>4
  <2> QED BY <1>3, <2>3, <2>4 DEF StoreRequest
<1>4. CASE StoreBill
  <2> DEFINE bill == queue[1]
             entry == [session |-> bill.session, at |-> bill.at, amount |-> bill.amount]
  <2>1. entry \in Bill
    <3>1. queue[1] \in Command /\ queue[1].kind = "bill"
      BY <1>4 DEF StoreBill, Next1, IInv, PostsOK
    <3> QED BY <3>1 DEF Command, TurnCommand, BillCommand, Bill
  <2>2. UNCHANGED <<sessions, requests, today>>
    BY <1>4 DEF StoreBill
  <2>3. CASE /\ bills' = Append(bills, entry)
             /\ acked' \in {acked, acked \cup {[session |-> bill.session, at |-> bill.at]}}
    <3>1. /\ bills' \in Seq(Bill) /\ Booked \subseteq Booked'
          /\ [session |-> entry.session, at |-> entry.at] \in Booked'
      <4> HIDE DEF entry
      <4> QED BY <2>1, <2>3, NewBill
    <3> QED BY <2>2, <2>3, <3>1 DEF BooksOK, Grows
  <2>4. CASE UNCHANGED <<bills, acked>>
    BY <1>1, <2>2, <2>4
  <2> QED BY <1>4, <2>3, <2>4 DEF StoreBill, Insert, Reply
<1>5. ASSUME UNCHANGED <<requests, bills, acked, sessions>>, today' \in 0..LastDay
      PROVE  BooksOK' /\ Grows
  BY <1>5 DEF BooksOK, Grows, Booked
<1>6. CASE Midnight
  BY <1>5, <1>6, DaysAssumption DEF Midnight, BooksOK
<1>7. CASE \/ \E batch \in Batch : Post(batch)
           \/ \E p \in DOMAIN posts : Submit(p) \/ HangUp(p)
           \/ \E s \in Session, charge \in Charge : FinishTurn(s, charge)
  BY <1>1, <1>7 DEF Post, Submit, HangUp, FinishTurn
<1>8. CASE \/ \E kind \in DOMAIN Queries : Ask(kind)
           \/ ReadRows \/ ReadCosts \/ ReadBills \/ ReadCached
           \/ Crash \/ UNCHANGED vars
  <2>1. UNCHANGED <<requests, bills, acked, today, sessions>>
    BY <1>8 DEF Ask, ReadRows, ReadCosts, ReadBills, ReadCached, Reads, Crash, vars
  <2> QED BY <1>1, <2>1
<1> QED BY <1>2, <1>3, <1>4, <1>6, <1>7, <1>8 DEF Next

-----------------------------------------------------------------------------
(* What a report shows stays true while the tables grow.                   *)

LEMMA TotalsStay ==
  ASSUME Grows, NEW rows, rows \subseteq DOMAIN requests
  PROVE  Aggregate(rows)' = Aggregate(rows) /\ CachedInput(rows)' = CachedInput(rows)
<1>1. \A i \in rows : requests'[i] = requests[i]
  BY DEF Grows
<1>2. {PriceOf(requests[i].charge).source : i \in rows}'
        = {PriceOf(requests[i].charge).source : i \in rows}
  BY <1>1
<1>3. [i \in rows |-> Positive(PriceOf(requests[i].charge).cost)]'
        = [i \in rows |-> Positive(PriceOf(requests[i].charge).cost)]
  BY <1>1
<1>4. (\A i \in rows : PriceOf(requests[i].charge).trusted)'
        <=> \A i \in rows : PriceOf(requests[i].charge).trusted
  BY <1>1
<1>5. Aggregate(rows)' = Aggregate(rows)
  BY <1>2, <1>3, <1>4, Zenon DEF Aggregate
<1>6. /\ [i \in rows |-> Positive(requests[i].charge.input)]'
           = [i \in rows |-> Positive(requests[i].charge.input)]
      /\ [i \in rows |-> Positive(requests[i].charge.cached)]'
           = [i \in rows |-> Positive(requests[i].charge.cached)]
  BY <1>1
<1>7. CachedInput(rows)' = CachedInput(rows)
  BY <1>6, Zenon DEF CachedInput
<1> QED BY <1>5, <1>7

LEMMA WindowStays ==
  ASSUME Grows, NEW window, Told(window)
  PROVE  Told(window)'
<1>1. Counted(window)'
  <2>1. window.rows \subseteq DOMAIN requests
    BY DEF Told, Counted
  <2>2. /\ Aggregate(window.rows)' = Aggregate(window.rows)
        /\ CachedInput(window.rows)' = CachedInput(window.rows)
    BY <2>1, TotalsStay
  <2>3. \A i \in window.rows : i \in DOMAIN requests' /\ requests'[i] = requests[i]
    BY <2>1 DEF Grows
  <2> QED BY <2>2, <2>3 DEF Told, Counted, Grows
<1>2. BillsStand(window)'
  BY DEF Told, BillsStand, Billed, Grows
<1> QED BY <1>1, <1>2 DEF Told

LEMMA ReportStays ==
  ASSUME ReportOK, Grows, report' = report
  PROVE  ReportOK'
<1>1. Progress'
  BY DEF ReportOK, Progress, Answered, SummaryProgress, SessionProgress, Steps, Filled, Billed
<1>2. \A w \in DOMAIN report'.windows : AcksStand(report.windows[w])'
  BY DEF ReportOK, AcksStand, Billed
<1>3. report'.acked \subseteq acked'
  BY DEF ReportOK, Grows
<1>4. ASSUME report'.kind = "summary"
      PROVE  /\ \A w \in DOMAIN report'.windows : Told(report.windows[w])'
             /\ \A i, j \in DOMAIN Order : i < j /\ Filled(j)'
                  => Nests(report.windows[Order[i]], report.windows[Order[j]])'
  <2>1. \A w \in DOMAIN report.windows : Told(report.windows[w])
    BY <1>4 DEF ReportOK
  <2>2. ASSUME NEW w \in DOMAIN report'.windows PROVE Told(report.windows[w])'
    BY <2>1, <2>2, WindowStays
  <2>3. \A i, j \in DOMAIN Order : i < j /\ Filled(j)'
          => Nests(report.windows[Order[i]], report.windows[Order[j]])'
    BY <1>4 DEF ReportOK, Filled, Nests, Billed
  <2> QED BY <2>2, <2>3
<1> QED BY <1>1, <1>2, <1>3, <1>4 DEF ReportOK

-----------------------------------------------------------------------------
(* A query is answered.                                                    *)

\* How far a report is that has queries left, and once the next is answered.
LEMMA Reading ==
  ASSUME ReportOK, NEW what, Reads(what), NEW window, Fill(window)
  PROVE  /\ report'.kind = report.kind /\ report'.acked = report.acked
         /\ report' = [kind |-> report'.kind, todo |-> report'.todo,
                       windows |-> report'.windows, acked |-> report'.acked]
         /\ report'.windows = With(report.windows, Query[2], window)
         /\ report.kind \in {"summary", "session"} /\ Query[1] = what
         /\ \E k \in Nat :
              /\ k + 1 \in 1..Len(Steps) /\ Query = Steps[k + 1] /\ Answered(k + 1)'
              /\ report.kind = "summary" => SummaryProgress(k)
              /\ report.kind = "session" => SessionProgress(k)
<1>1. /\ report'.kind = report.kind /\ report'.acked = report.acked
      /\ report'.todo = Tail(report.todo)
      /\ report'.windows = With(report.windows, Query[2], window)
      /\ report' = [kind |-> report'.kind, todo |-> report'.todo,
                    windows |-> report'.windows, acked |-> report'.acked]
  BY DEF Fill, ReportOK
<1>2. report.todo # <<>> /\ Query[1] = what
  BY DEF Reads
<1>3. report.kind \in {"summary", "session"}
  BY <1>2 DEF ReportOK, NoReport
<1>4. Progress
  BY DEF ReportOK
<1>5. PICK k \in Nat :
        /\ Answered(k)
        /\ report.kind = "summary" => SummaryProgress(k)
        /\ report.kind = "session" => SessionProgress(k)
  <2>1. report.kind # "none"
    BY <1>3
  <2> QED BY <1>4, <2>1 DEF Progress
<1>6. Steps \in Seq(QueryPair) /\ Steps' = Steps
  BY <1>1, <1>3, SummarySteps, SessionSteps DEF Steps
<1>7. Answered(k)
  BY <1>5
<1>8. /\ k + 1 \in 1..Len(Steps) /\ Query = Steps[k + 1]
      /\ Tail(report.todo) \in Seq(QueryPair)
      /\ Len(Tail(report.todo)) + (k + 1) = Len(Steps)
      /\ \A i \in DOMAIN Tail(report.todo) :
           Tail(report.todo)[i] = Steps[(k + 1) + i]
  BY <1>2, <1>6, <1>7, Advance
<1>9. Answered(k + 1)'
  <2> DEFINE rest == report'.todo
             steps == Steps
  <2>1. /\ rest \in Seq(QueryPair) /\ Len(rest) + (k + 1) = Len(steps)
        /\ \A i \in DOMAIN rest : rest[i] = steps[(k + 1) + i]
        /\ steps = Steps'
    BY <1>1, <1>6, <1>8
  <2> QED BY <2>1 DEF Answered
<1> QED BY <1>1, <1>2, <1>3, <1>5, <1>8, <1>9

\* The rows of a summary are read before its bills.
LEMMA SummaryStep ==
  ASSUME NEW k \in Nat, k + 1 \in 1..Len(Queries["summary"]),
         NEW query, query = Queries["summary"][k + 1]
  PROVE  \E i \in DOMAIN Order :
           \/ k + 1 = 2 * i - 1 /\ query[1] = "rows" /\ query[2] = Order[i]
           \/ k + 1 = 2 * i /\ query[1] = "bills" /\ query[2] = Order[i]
<1>1. \A n \in 1..6 : \E i \in {1, 2, 3} : n = 2 * i - 1 \/ n = 2 * i
  OBVIOUS
<1>2. PICK i \in DOMAIN Order : k + 1 = 2 * i - 1 \/ k + 1 = 2 * i
  BY <1>1, SummarySteps
<1>3. CASE k + 1 = 2 * i - 1
  <2>1. query = <<"rows", Order[i]>>
    BY <1>3, SummarySteps
  <2> QED BY <1>3, <2>1
<1>4. CASE k + 1 = 2 * i
  <2>1. query = <<"bills", Order[i]>>
    BY <1>4, SummarySteps
  <2> QED BY <1>4, <2>1
<1> QED BY <1>2, <1>3, <1>4

LEMMA SessionStep ==
  ASSUME NEW k \in Nat, k + 1 \in 1..Len(Queries["session"]),
         NEW query, query = Queries["session"][k + 1]
  PROVE  /\ query[2] = "session"
         /\ \/ k = 0 /\ query[1] = "costs"
            \/ k = 1 /\ query[1] = "bills"
            \/ k = 2 /\ query[1] = "cached"
<1>1. k = 0 \/ k = 1 \/ k = 2
  BY SessionSteps
<1>2. CASE k = 0
  <2>1. query = <<"costs", "session">>
    BY <1>2, SessionSteps
  <2> QED BY <1>2, <2>1
<1>3. CASE k = 1
  <2>1. query = <<"bills", "session">>
    BY <1>3, SessionSteps
  <2> QED BY <1>3, <2>1
<1>4. CASE k = 2
  <2>1. query = <<"cached", "session">>
    BY <1>4, SessionSteps
  <2> QED BY <1>4, <2>1
<1> QED BY <1>1, <1>2, <1>3, <1>4

\* A window of rows that is read now holds every row of an earlier one that
\* starts no sooner.
LEMMA NewWindow ==
  ASSUME BooksOK, Grows, UNCHANGED <<requests, sessions>>,
         NEW since \in Int, NEW rows, NEW new,
         rows = {i \in DOMAIN requests : requests[i].day >= since},
         new = [since |-> since, rows |-> rows,
                ids |-> {requests[i].session : i \in rows} \cap sessions,
                estimate |-> Aggregate(rows), input |-> CachedInput(rows)]
  PROVE  /\ Told(new)' /\ "bills" \notin DOMAIN new
         /\ \A short : Counted(short) => Nests(short, new)
<1>1. /\ new.since = since /\ new.rows = rows
      /\ new.ids = {requests[i].session : i \in rows} \cap sessions
      /\ new.estimate = Aggregate(rows) /\ new.input = CachedInput(rows)
      /\ DOMAIN new = {"since", "rows", "ids", "estimate", "input"}
  OBVIOUS
<1>2. rows \subseteq DOMAIN requests
  OBVIOUS
<1>3. Aggregate(rows)' = Aggregate(rows) /\ CachedInput(rows)' = CachedInput(rows)
  BY <1>2, TotalsStay
<1>4. Counted(new)'
  <2>1. new.since \in Int /\ new.rows \subseteq DOMAIN requests'
    BY <1>1, <1>2
  <2>2. \A i \in new.rows : requests'[i].day >= new.since
    BY <1>1
  <2>3. new.ids \subseteq sessions' \cap {requests'[i].session : i \in new.rows}
    BY <1>1
  <2> QED BY <1>1, <1>3, <2>1, <2>2, <2>3 DEF Counted
<1>5. Told(new)'
  BY <1>1, <1>4 DEF Told, BillsStand, Billed
<1>6. ASSUME NEW short, Counted(short) PROVE Nests(short, new)
  <2>1. SUFFICES ASSUME short.since >= since
                 PROVE  short.rows \subseteq rows /\ short.ids \subseteq new.ids
    BY <1>1 DEF Nests, Billed
  <2>2. \A x \in DOMAIN requests : requests[x].day \in Int
    <3>1. \A x \in DOMAIN requests : requests[x] \in Row
      BY DEF BooksOK
    <3> QED BY <3>1, RowsAreNumbers
  <2>3. short.rows \subseteq rows
    BY <1>6, <2>1, <2>2 DEF Counted
  <2>4. short.ids \subseteq sessions \cap {requests[i].session : i \in short.rows}
    BY <1>6 DEF Counted
  <2> QED BY <1>1, <2>3, <2>4
<1> QED BY <1>1, <1>5, <1>6

LEMMA RowsAnswered ==
  ASSUME ReportOK, Grows, NEW k \in Nat, NEW i \in DOMAIN Order, NEW new,
         report.kind = "summary", SummaryProgress(k), k + 1 = 2 * i - 1,
         report'.kind = report.kind, report'.acked = report.acked,
         report' = [kind |-> report'.kind, todo |-> report'.todo,
                    windows |-> report'.windows, acked |-> report'.acked],
         report'.windows = With(report.windows, Order[i], new),
         Answered(k + 1)', Told(new)', "bills" \notin DOMAIN new,
         \A short : Counted(short) => Nests(short, new)
  PROVE  ReportOK'
<1>1. i \in Nat /\ DOMAIN Order \subseteq Nat
  BY SummarySteps
<1>2. /\ DOMAIN report'.windows = DOMAIN report.windows \cup {Order[i]}
      /\ report'.windows[Order[i]] = new
      /\ \A w \in DOMAIN report.windows \ {Order[i]} :
           report'.windows[w] = report.windows[w]
  BY DEF With
<1>3. \A w \in DOMAIN report.windows : Told(report.windows[w])
  BY DEF ReportOK
<1>4. ASSUME NEW j \in DOMAIN Order
       PROVE  /\ Filled(j)' <=> Filled(j) \/ j = i
              /\ j # i /\ Filled(j) => report'.windows[Order[j]] = report.windows[Order[j]]
              /\ Filled(j) <=> 2 * j - 1 <= k
              /\ 2 * j <= k => Billed(report.windows[Order[j]])
  BY <1>2, SummarySteps DEF Filled, SummaryProgress
<1>5. SummaryProgress(k + 1)'
  <2>1. ASSUME NEW j \in DOMAIN Order PROVE Filled(j)' <=> 2 * j - 1 <= k + 1
    BY <1>1, <1>4
  <2>2. ASSUME NEW j \in DOMAIN Order, 2 * j <= k + 1
        PROVE  Billed(report.windows[Order[j]])'
    <3>1. j # i /\ 2 * j <= k /\ 2 * j - 1 <= k
      BY <1>1, <2>2
    <3> QED BY <1>4, <3>1 DEF Billed
  <2>3. DOMAIN report'.windows \subseteq {Order[j] : j \in DOMAIN Order}
    BY <1>2 DEF SummaryProgress
  <2> QED BY <2>1, <2>2, <2>3 DEF SummaryProgress
<1>6. ASSUME NEW a \in DOMAIN Order, NEW b \in DOMAIN Order, a < b, Filled(b)'
       PROVE  Nests(report.windows[Order[a]], report.windows[Order[b]])'
  <2>1. CASE b = i
    <3>1. a # i /\ Filled(a)
      BY <1>1, <1>4, <1>6, <2>1
    <3>2. Counted(report.windows[Order[a]])
      BY <1>3, <3>1 DEF Filled, Told
    <3>3. Nests(report.windows[Order[a]], new)
      BY <3>2
    <3>4. report'.windows[Order[a]] = report.windows[Order[a]] /\ report'.windows[Order[b]] = new
      BY <1>2, <1>4, <2>1, <3>1
    <3> QED BY <3>3, <3>4 DEF Nests, Billed
  <2>2. CASE b # i
    <3>1. Filled(b) /\ a # i /\ Filled(a)
      BY <1>1, <1>4, <1>6, <2>2
    <3>2. Nests(report.windows[Order[a]], report.windows[Order[b]])
      BY <1>6, <3>1 DEF ReportOK
    <3> QED BY <1>4, <2>2, <3>1, <3>2 DEF Nests, Billed
  <2> QED BY <2>1, <2>2
<1>7. ASSUME NEW w \in DOMAIN report'.windows
       PROVE  AcksStand(report.windows[w])' /\ Told(report.windows[w])'
  <2>1. CASE w = Order[i]
    BY <1>2, <2>1 DEF AcksStand, Billed
  <2>2. CASE w # Order[i]
    <3>1. w \in DOMAIN report.windows /\ report'.windows[w] = report.windows[w]
      BY <1>2, <1>7, <2>2
    <3>2. Told(report.windows[w])'
      BY <1>3, <3>1, WindowStays
    <3> QED BY <3>1, <3>2 DEF ReportOK, AcksStand, Billed
  <2> QED BY <2>1, <2>2
<1>8. Progress'
  BY <1>5 DEF Progress
<1>9. report'.acked \subseteq acked'
  BY DEF ReportOK, Grows
<1> QED BY <1>6, <1>7, <1>8, <1>9 DEF ReportOK, Filled

LEMMA ReadRowsKeeps ==
  ASSUME BooksOK, ReportOK, Grows, ReadRows
  PROVE  ReportOK'
<1>1. PICK since, rows, new :
        /\ since = Since(Query[2])
        /\ rows = {i \in DOMAIN requests : requests[i].day >= since}
        /\ new = [since |-> since, rows |-> rows,
                  ids |-> {requests[i].session : i \in rows} \cap sessions,
                  estimate |-> Aggregate(rows), input |-> CachedInput(rows)]
        /\ Reads("rows") /\ Fill(new) /\ UNCHANGED <<requests, sessions>>
  BY DEF ReadRows, Reads, tables
<1>2. /\ report'.kind = report.kind /\ report'.acked = report.acked
      /\ report' = [kind |-> report'.kind, todo |-> report'.todo,
                    windows |-> report'.windows, acked |-> report'.acked]
      /\ report'.windows = With(report.windows, Query[2], new)
      /\ report.kind \in {"summary", "session"} /\ Query[1] = "rows"
  BY <1>1, Reading
<1>3. PICK k \in Nat :
        /\ k + 1 \in 1..Len(Steps) /\ Query = Steps[k + 1] /\ Answered(k + 1)'
        /\ report.kind = "summary" => SummaryProgress(k)
        /\ report.kind = "session" => SessionProgress(k)
  BY <1>1, Reading
<1>4. report.kind = "summary" /\ SummaryProgress(k)
  <2>1. report.kind # "session"
    BY <1>2, <1>3, SessionStep DEF Steps
  <2> QED BY <1>2, <1>3, <2>1
<1>5. PICK i \in DOMAIN Order : k + 1 = 2 * i - 1 /\ Query[2] = Order[i]
  BY <1>2, <1>3, <1>4, SummaryStep DEF Steps
<1>6. since \in Int
  <2>1. today \in 0..LastDay /\ Query[2] \in {"today", "week", "month"}
    BY <1>5 DEF BooksOK, Order
  <2> QED BY <1>1, <2>1, DaysAssumption DEF Since
<1>7. /\ Told(new)' /\ "bills" \notin DOMAIN new
      /\ \A short : Counted(short) => Nests(short, new)
  BY <1>1, <1>6, NewWindow
<1>8. report'.windows = With(report.windows, Order[i], new)
  BY <1>2, <1>5
<1> QED BY <1>2, <1>3, <1>4, <1>5, <1>7, <1>8, RowsAnswered
-----------------------------------------------------------------------------
(* Bills.  ORDER BY imported_at DESC, id DESC has a first row: the last of *)
(* the rows with the greatest time.                                        *)

LEMMA BillTimes ==
  ASSUME BooksOK
  PROVE  /\ \A i \in DOMAIN bills : bills[i].at \in Int
         /\ \A bill \in Booked : bill.at \in Int
<1>1. \A i \in DOMAIN bills : bills[i] \in Bill
  BY DEF BooksOK
<1>2. \A i \in DOMAIN bills : bills[i].at \in Int
  BY <1>1 DEF Bill
<1> QED BY <1>2 DEF Booked

LEMMA TheLatestBill ==
  ASSUME BooksOK, NEW s, NEW some \in DOMAIN bills, bills[some].session = s
  PROVE  \E i \in DOMAIN bills :
           /\ LatestBill(s) = bills[i] /\ bills[i].session = s
           /\ \A j \in DOMAIN bills : bills[j].session = s => bills[i].at >= bills[j].at
<1> DEFINE of == {i \in DOMAIN bills : bills[i].session = s}
           Later(i, j) == \/ bills[i].at > bills[j].at
                          \/ bills[i].at = bills[j].at /\ i > j
           times == {bills[i].at : i \in of}
<1>1. of \subseteq 1..Len(bills) /\ Len(bills) \in Nat /\ some \in of
  BY LenProperties DEF BooksOK
<1>2. \A i \in of : bills[i].at \in Int
  BY BillTimes
<1>3. IsFiniteSet(of)
  BY <1>1, FS_Interval, FS_Subset
<1>4. PICK i \in of : \A j \in of \ {i} : Later(i, j)
  <2>1. IsFiniteSet(times) /\ times # {} /\ times \subseteq Int
    <3> DEFINE f == [i \in of |-> bills[i].at]
    <3>1. IsFiniteSet(times)
      <4>1. f \in Surjection(of, {f[i] : i \in of})
        BY DEF Surjection
      <4>2. IsFiniteSet({f[i] : i \in of})
        <5> HIDE DEF of, f
        <5> QED BY ONLY <1>3, <4>1, FS_Surjection
      <4> QED BY <4>2
    <3> QED BY <1>1, <1>2, <3>1
  <2>2. Max(times) \in times /\ \A t \in times : Max(times) >= t
    <3> HIDE DEF times
    <3> QED BY <2>1, FiniteMax
  <2> DEFINE last == {x \in of : bills[x].at = Max(times)}
  <2>3. IsFiniteSet(last) /\ last # {} /\ last \subseteq Int
    <3>1. IsFiniteSet(last)
      BY <1>3, FS_Subset
    <3>2. last # {}
      BY <2>2
    <3>3. of \subseteq Int
      BY <1>1
    <3> QED BY <3>1, <3>2, <3>3
  <2>4. Max(last) \in last /\ \A x \in last : Max(last) >= x
    <3> HIDE DEF last
    <3> QED BY <2>3, FiniteMax
  <2>5. PICK i : i = Max(last)
    OBVIOUS
  <2>6. /\ i \in of /\ bills[i].at = Max(times)
        /\ \A x \in of : bills[x].at = Max(times) => i >= x
    BY <2>4, <2>5
  <2>7. \A x \in of : Max(times) >= bills[x].at /\ bills[x].at \in Int /\ x \in Int
    BY <1>1, <1>2, <2>2
  <2>8. PICK top : top = Max(times)
    OBVIOUS
  <2> HIDE DEF of, times, last
  <2>9. \A j \in of \ {i} : Later(i, j)
    BY <2>6, <2>7, <2>8
  <2> QED BY <2>6, <2>9
<1>5. LatestBill(s) = bills[CHOOSE x \in of : \A j \in of \ {x} : Later(x, j)]
  BY DEF LatestBill
<1>6. PICK x : x = (CHOOSE z \in of : \A j \in of \ {z} : Later(z, j))
  OBVIOUS
<1>7. x \in of /\ \A j \in of \ {x} : Later(x, j)
  BY <1>4, <1>6
<1>8. \A j \in of : bills[x].at >= bills[j].at
  BY <1>2, <1>7
<1> QED BY <1>5, <1>6, <1>7, <1>8

\* What is read for some sessions: bills of theirs, and none that is older
\* than one in the table.
LEMMA BillsRead ==
  ASSUME BooksOK, NEW ids, NEW shown, shown = LatestBills(ids)
  PROVE  /\ DOMAIN shown \subseteq ids
         /\ \A s \in DOMAIN shown : [session |-> s, at |-> shown[s].at] \in Booked
         /\ \A bill \in Booked :
              bill.session \in ids =>
                bill.session \in DOMAIN shown /\ shown[bill.session].at >= bill.at
<1>1. /\ DOMAIN shown = {s \in ids : \E i \in DOMAIN bills : bills[i].session = s}
      /\ \A s \in DOMAIN shown : shown[s] = LatestBill(s)
  BY DEF LatestBills
<1>2. ASSUME NEW s \in DOMAIN shown
      PROVE  \E i \in DOMAIN bills :
               /\ shown[s] = bills[i] /\ bills[i].session = s
               /\ \A j \in DOMAIN bills : bills[j].session = s => bills[i].at >= bills[j].at
  BY <1>1, TheLatestBill
<1>3. \A s \in DOMAIN shown : [session |-> s, at |-> shown[s].at] \in Booked
  BY <1>2 DEF Booked
<1>4. ASSUME NEW bill \in Booked, bill.session \in ids
      PROVE  bill.session \in DOMAIN shown /\ shown[bill.session].at >= bill.at
  <2>1. PICK j \in DOMAIN bills :
          bill.session = bills[j].session /\ bill.at = bills[j].at
    BY DEF Booked
  <2>2. bill.session \in DOMAIN shown
    BY <1>1, <1>4, <2>1
  <2> QED BY <1>2, <2>1, <2>2
<1> QED BY <1>1, <1>3, <1>4

\* The bills of a window of a summary.
LEMMA SummaryBillsAnswered ==
  ASSUME BooksOK, ReportOK, Grows, NEW k \in Nat, NEW i \in DOMAIN Order, NEW shown,
         report.kind = "summary", SummaryProgress(k), k + 1 = 2 * i,
         report'.kind = report.kind, report'.acked = report.acked,
         report' = [kind |-> report'.kind, todo |-> report'.todo,
                    windows |-> report'.windows, acked |-> report'.acked],
         shown = LatestBills(report.windows[Order[i]].ids),
         report'.windows = With(report.windows, Order[i],
                                With(report.windows[Order[i]], "bills", shown)),
         Answered(k + 1)'
  PROVE  ReportOK'
<1>1. i \in Nat /\ DOMAIN Order \subseteq Nat
  BY SummarySteps
<1>2. PICK old, new : old = report.windows[Order[i]] /\ new = With(old, "bills", shown)
  OBVIOUS
<1>3. ASSUME NEW w \in DOMAIN report.windows PROVE Told(report.windows[w])
  BY <1>3 DEF ReportOK
<1>4. /\ DOMAIN report'.windows = DOMAIN report.windows \cup {Order[i]}
      /\ report'.windows[Order[i]] = new
      /\ \A w \in DOMAIN report.windows \ {Order[i]} :
           report'.windows[w] = report.windows[w]
  BY <1>2 DEF With
<1>5. ASSUME NEW j \in DOMAIN Order
      PROVE  /\ Filled(j)' <=> Filled(j)
             /\ j # i /\ Filled(j) => report'.windows[Order[j]] = report.windows[Order[j]]
             /\ Filled(j) <=> 2 * j - 1 <= k
             /\ 2 * j <= k => Billed(report.windows[Order[j]])
  <2>1. Filled(i)
    BY <1>1 DEF SummaryProgress
  <2>2. Filled(j) <=> 2 * j - 1 <= k
    BY DEF SummaryProgress
  <2>3. 2 * j <= k => Billed(report.windows[Order[j]])
    BY DEF SummaryProgress
  <2>4. j # i => Order[j] # Order[i]
    BY SummarySteps
  <2>5. Filled(j)' <=> Filled(j)
    BY <1>4, <2>1 DEF Filled
  <2>6. j # i /\ Filled(j) => report'.windows[Order[j]] = report.windows[Order[j]]
    BY <1>4, <2>4 DEF Filled
  <2> QED BY <2>2, <2>3, <2>5, <2>6
<1>6. Filled(i) /\ Told(old)
  BY <1>1, <1>2, <1>3, <1>5 DEF Filled
<1>7. /\ new.bills = shown /\ Billed(new) /\ DOMAIN old \subseteq DOMAIN new
      /\ new.since = old.since /\ new.rows = old.rows /\ new.ids = old.ids
      /\ new.estimate = old.estimate /\ new.input = old.input
  BY <1>2, <1>6 DEF With, Billed, Told, Counted
<1>8. /\ DOMAIN shown \subseteq old.ids
      /\ \A s \in DOMAIN shown : [session |-> s, at |-> shown[s].at] \in Booked
      /\ \A bill \in Booked :
           bill.session \in old.ids =>
             bill.session \in DOMAIN shown /\ shown[bill.session].at >= bill.at
  BY <1>2, BillsRead
<1>9. Told(new)'
  <2>1. Told(new)
    BY <1>6, <1>7, <1>8 DEF Told, Counted, BillsStand
  <2> QED BY <2>1, WindowStays
<1>10. AcksStand(new)'
  <2>1. report.acked \subseteq Booked
    BY DEF ReportOK, BooksOK
  <2> QED BY <1>7, <1>8, <2>1 DEF AcksStand
<1>11. SummaryProgress(k + 1)'
  <2>1. ASSUME NEW j \in DOMAIN Order PROVE Filled(j)' <=> 2 * j - 1 <= k + 1
    BY <1>1, <1>5
  <2>2. ASSUME NEW j \in DOMAIN Order, 2 * j <= k + 1
        PROVE  Billed(report.windows[Order[j]])'
    <3>1. CASE j = i
      BY <1>4, <1>7, <3>1 DEF Billed
    <3>2. CASE j # i
      <4>1. 2 * j <= k
        BY <1>1, <2>2, <3>2
      <4>2. Filled(j)
        BY <1>1, <1>5, <4>1
      <4> QED BY <1>5, <3>2, <4>1, <4>2 DEF Billed
    <3> QED BY <3>1, <3>2
  <2>3. DOMAIN report'.windows \subseteq {Order[j] : j \in DOMAIN Order}
    BY <1>4 DEF SummaryProgress
  <2> QED BY <2>1, <2>2, <2>3 DEF SummaryProgress
<1>12. ASSUME NEW a \in DOMAIN Order, NEW b \in DOMAIN Order, a < b, Filled(b)'
       PROVE  Nests(report.windows[Order[a]], report.windows[Order[b]])'
  <2> DEFINE short == report.windows[Order[a]]
             long == report.windows[Order[b]]
  <2>1. Filled(b) /\ Filled(a) /\ Nests(short, long) /\ b <= i /\ a # i
    <3>1. Filled(b) /\ Filled(a)
      BY <1>1, <1>5, <1>12
    <3>2. b <= i /\ a # i
      BY <1>1, <1>5, <1>12, <3>1
    <3>3. Nests(short, long)
      BY <1>12, <3>1 DEF ReportOK
    <3> QED BY <3>1, <3>2, <3>3
  <2>2. report'.windows[Order[a]] = short
    BY <1>5, <2>1
  <2>3. CASE b = i
    <3>1. report'.windows[Order[b]] = new /\ long = old
      BY <1>2, <1>4, <2>3
    <3>2. Billed(short)
      <4>1. 2 * a <= k
        BY <1>1, <1>12, <2>3
      <4> QED BY <1>5, <4>1
    <3>3. BillsStand(short)
      BY <1>3, <2>1 DEF Filled, Told
    <3>4. ASSUME short.since >= new.since
          PROVE  /\ short.rows \subseteq new.rows /\ short.ids \subseteq new.ids
                 /\ \A s \in DOMAIN short.bills :
                      s \in DOMAIN new.bills /\ short.bills[s].at <= new.bills[s].at
      <4>1. short.rows \subseteq new.rows /\ short.ids \subseteq new.ids
        BY <1>7, <2>1, <3>1, <3>4 DEF Nests
      <4>2. ASSUME NEW s \in DOMAIN short.bills
            PROVE  s \in DOMAIN new.bills /\ short.bills[s].at <= new.bills[s].at
        <5> DEFINE bill == [session |-> s, at |-> short.bills[s].at]
        <5>1. s \in short.ids /\ bill \in Booked
          BY <3>2, <3>3 DEF BillsStand
        <5>2. bill.session \in old.ids /\ bill.session = s /\ bill.at = short.bills[s].at
          BY <1>7, <4>1, <5>1
        <5>3. s \in DOMAIN shown /\ shown[s].at >= bill.at
          <6> HIDE DEF bill
          <6> QED BY <1>8, <5>1, <5>2
        <5>4. bill.at \in Int
          BY <5>1, BillTimes
        <5>5. shown[s].at \in Int
          <6>1. [session |-> s, at |-> shown[s].at] \in Booked
            BY <1>8, <5>3
          <6> QED BY <6>1, BillTimes
        <5> HIDE DEF bill
        <5> QED BY <1>7, <5>2, <5>3, <5>4, <5>5
      <4> QED BY <4>1, <4>2
    <3> HIDE DEF short, long
    <3> QED BY <2>2, <3>1, <3>4 DEF Nests
  <2>4. CASE b # i
    <3>1. report'.windows[Order[b]] = long
      BY <1>5, <2>1, <2>4
    <3> QED BY <2>1, <2>2, <3>1 DEF Nests, Billed
  <2> QED BY <2>3, <2>4
<1>13. ASSUME NEW w \in DOMAIN report'.windows
       PROVE  AcksStand(report.windows[w])' /\ Told(report.windows[w])'
  <2>1. CASE w = Order[i]
    BY <1>4, <1>9, <1>10, <2>1 DEF AcksStand, Told, Counted, BillsStand
  <2>2. CASE w # Order[i]
    <3>1. w \in DOMAIN report.windows /\ report'.windows[w] = report.windows[w]
      BY <1>4, <1>13, <2>2
    <3>2. Told(report.windows[w])'
      BY <1>3, <3>1, WindowStays
    <3> QED BY <3>1, <3>2 DEF ReportOK, AcksStand, Billed
  <2> QED BY <2>1, <2>2
<1>14. Progress'
  BY <1>11 DEF Progress
<1>15. report'.acked \subseteq acked'
  BY DEF ReportOK, Grows
<1> QED BY <1>12, <1>13, <1>14, <1>15 DEF ReportOK

\* A query of a report on one session.
LEMMA SessionAnswered ==
  ASSUME ReportOK, Grows, NEW k \in Nat, NEW new,
         report.kind = "session", SessionProgress(k),
         report'.kind = report.kind, report'.acked = report.acked,
         report' = [kind |-> report'.kind, todo |-> report'.todo,
                    windows |-> report'.windows, acked |-> report'.acked],
         report'.windows = With(report.windows, "session", new),
         Answered(k + 1)', "ids" \in DOMAIN new, 2 <= k + 1 => Billed(new), AcksStand(new)
  PROVE  ReportOK'
<1>1. DOMAIN report'.windows = {"session"} /\ report'.windows["session"] = new
  BY DEF With, SessionProgress
<1>2. SessionProgress(k + 1)'
  BY <1>1 DEF SessionProgress, Billed
<1>3. Progress'
  BY <1>2 DEF Progress
<1>4. \A w \in DOMAIN report'.windows : AcksStand(report.windows[w])'
  BY <1>1 DEF AcksStand, Billed
<1>5. report'.acked \subseteq acked'
  BY DEF ReportOK, Grows
<1> QED BY <1>3, <1>4, <1>5 DEF ReportOK

\* Prices and tokens of a session do not touch its bills.
LEMMA SessionFigureAnswered ==
  ASSUME ReportOK, Grows, NEW what \in {"costs", "cached"}, Reads(what),
         NEW key \in {"estimate", "input"}, NEW figure, NEW old, NEW new,
         old = report.windows["session"], new = With(old, key, figure), Fill(new)
  PROVE  ReportOK'
<1>1. /\ report'.kind = report.kind /\ report'.acked = report.acked
      /\ report' = [kind |-> report'.kind, todo |-> report'.todo,
                    windows |-> report'.windows, acked |-> report'.acked]
      /\ report'.windows = With(report.windows, Query[2], new)
      /\ report.kind \in {"summary", "session"} /\ Query[1] = what
  BY Reading
<1>2. PICK k \in Nat :
        /\ k + 1 \in 1..Len(Steps) /\ Query = Steps[k + 1] /\ Answered(k + 1)'
        /\ report.kind = "summary" => SummaryProgress(k)
        /\ report.kind = "session" => SessionProgress(k)
  BY Reading
<1>3. report.kind = "session"
  <2>1. report.kind # "summary"
    BY <1>1, <1>2, SummaryStep DEF Steps
  <2> QED BY <1>1, <2>1
<1>4. Query[2] = "session" /\ k \in {0, 2} /\ SessionProgress(k)
  BY <1>1, <1>2, <1>3, SessionStep DEF Steps
<1>5. /\ "ids" \in DOMAIN old /\ AcksStand(old)
      /\ 2 <= k => Billed(old)
  BY <1>4 DEF SessionProgress, ReportOK
<1>6. /\ new.ids = old.ids /\ "ids" \in DOMAIN new
      /\ Billed(new) <=> Billed(old)
      /\ Billed(old) => new.bills = old.bills
  BY <1>5 DEF With, Billed
<1>7. AcksStand(new) /\ (2 <= k + 1 => Billed(new))
  BY <1>4, <1>5, <1>6 DEF AcksStand
<1> QED BY <1>1, <1>2, <1>3, <1>4, <1>6, <1>7, SessionAnswered

LEMMA ReadCostsKeeps ==
  ASSUME ReportOK, Grows, ReadCosts
  PROVE  ReportOK'
<1>1. PICK old, figure, new :
        /\ old = report.windows["session"] /\ new = With(old, "estimate", figure)
        /\ Reads("costs") /\ Fill(new)
  BY DEF ReadCosts
<1> QED BY <1>1, SessionFigureAnswered

LEMMA ReadCachedKeeps ==
  ASSUME ReportOK, Grows, ReadCached
  PROVE  ReportOK'
<1>1. PICK old, figure, new :
        /\ old = report.windows["session"] /\ new = With(old, "input", figure)
        /\ Reads("cached") /\ Fill(new)
  BY DEF ReadCached
<1> QED BY <1>1, SessionFigureAnswered

LEMMA ReadBillsKeeps ==
  ASSUME BooksOK, ReportOK, Grows, ReadBills
  PROVE  ReportOK'
<1>1. PICK old, shown, new :
        /\ old = report.windows[Query[2]] /\ shown = LatestBills(old.ids)
        /\ new = With(old, "bills", shown) /\ Reads("bills") /\ Fill(new)
  BY DEF ReadBills
<1>2. /\ report'.kind = report.kind /\ report'.acked = report.acked
      /\ report' = [kind |-> report'.kind, todo |-> report'.todo,
                    windows |-> report'.windows, acked |-> report'.acked]
      /\ report'.windows = With(report.windows, Query[2], new)
      /\ report.kind \in {"summary", "session"} /\ Query[1] = "bills"
  BY <1>1, Reading
<1>3. PICK k \in Nat :
        /\ k + 1 \in 1..Len(Steps) /\ Query = Steps[k + 1] /\ Answered(k + 1)'
        /\ report.kind = "summary" => SummaryProgress(k)
        /\ report.kind = "session" => SessionProgress(k)
  BY <1>1, Reading
<1>4. CASE report.kind = "summary"
  <2>1. PICK i \in DOMAIN Order : k + 1 = 2 * i /\ Query[2] = Order[i]
    BY <1>2, <1>3, <1>4, SummaryStep DEF Steps
  <2>2. /\ shown = LatestBills(report.windows[Order[i]].ids)
        /\ report'.windows = With(report.windows, Order[i],
                                  With(report.windows[Order[i]], "bills", shown))
    BY <1>1, <1>2, <2>1
  <2>3. SummaryProgress(k) /\ Answered(k + 1)'
    BY <1>3, <1>4
  <2> QED BY <1>2, <1>4, <2>1, <2>2, <2>3, SummaryBillsAnswered
<1>5. CASE report.kind = "session"
  <2>1. Query[2] = "session" /\ k = 1 /\ SessionProgress(k) /\ Answered(k + 1)'
    BY <1>2, <1>3, <1>5, SessionStep DEF Steps
  <2>2. old = report.windows["session"] /\ "ids" \in DOMAIN old
    BY <1>1, <2>1 DEF SessionProgress
  <2>3. new.ids = old.ids /\ "ids" \in DOMAIN new /\ Billed(new) /\ new.bills = shown
    BY <1>1, <2>2 DEF With, Billed
  <2>4. AcksStand(new)
    <3>1. report.acked \subseteq Booked
      BY DEF ReportOK, BooksOK
    <3>2. \A bill \in Booked :
            bill.session \in old.ids =>
              bill.session \in DOMAIN shown /\ shown[bill.session].at >= bill.at
      BY <1>1, BillsRead
    <3> QED BY <2>3, <3>1, <3>2 DEF AcksStand
  <2> QED BY <1>2, <1>5, <2>1, <2>3, <2>4, SessionAnswered
<1> QED BY <1>2, <1>4, <1>5

-----------------------------------------------------------------------------
(* The other steps of a report.                                            *)

LEMMA NoReportIsFine ==
  ASSUME report' = NoReport PROVE ReportOK'
<1>1. /\ report'.kind = "none" /\ report'.windows = <<>> /\ report'.acked = {}
      /\ report' = [kind |-> report'.kind, todo |-> report'.todo,
                    windows |-> report'.windows, acked |-> report'.acked]
      /\ DOMAIN report'.windows = {}
  BY DEF NoReport
<1> QED BY <1>1 DEF ReportOK, Progress

LEMMA ReportInitially == Init => ReportOK
<1> SUFFICES ASSUME Init PROVE ReportOK
  OBVIOUS
<1>1. /\ report.kind = "none" /\ report.windows = <<>> /\ report.acked = {}
      /\ report = [kind |-> report.kind, todo |-> report.todo,
                    windows |-> report.windows, acked |-> report.acked]
      /\ DOMAIN report.windows = {} /\ report = NoReport
  BY DEF NoReport, Init
<1> QED BY <1>1 DEF ReportOK, Progress

LEMMA AskKeeps ==
  ASSUME NEW kind \in DOMAIN Queries, Ask(kind), Grows
  PROVE  ReportOK'
<1>1. kind \in {"summary", "session"}
  BY DEF Queries
<1>2. PICK ids :
        report' = [kind |-> kind, todo |-> Queries[kind], acked |-> acked,
                   windows |-> IF kind = "summary" THEN <<>>
                               ELSE [w \in {"session"} |-> [ids |-> ids]]]
  BY DEF Ask
<1>3. /\ report'.kind = kind /\ report'.todo = Queries[kind] /\ report'.acked = acked
      /\ report' = [kind |-> report'.kind, todo |-> report'.todo,
                    windows |-> report'.windows, acked |-> report'.acked]
      /\ report'.windows = IF kind = "summary" THEN <<>>
                           ELSE [w \in {"session"} |-> [ids |-> ids]]
  BY <1>2
<1>4. report'.acked \subseteq acked'
  BY <1>3 DEF Grows
<1>5. Answered(0)'
  <2>1. Queries[kind] \in Seq(QueryPair)
    BY <1>1, SummarySteps, SessionSteps
  <2> DEFINE todo == Queries[kind]
  <2>2. Len(todo) \in Nat
    BY <2>1
  <2>3. DOMAIN todo \subseteq Nat
    BY <2>1, LenProperties
  <2> HIDE DEF todo
  <2>4. todo \in Seq(QueryPair) /\ Len(todo) + 0 = Len(todo) /\ \A i \in DOMAIN todo : todo[0 + i] = todo[i]
    BY <2>1, <2>2, <2>3 DEF todo
  <2> QED BY <1>3, <2>4 DEF Answered, Steps, todo
<1>6. CASE kind = "summary"
  <2>1. DOMAIN report'.windows = {}
    BY <1>3, <1>6
  <2>2. SummaryProgress(0)'
    <3>1. \A i \in DOMAIN Order : ~(2 * i - 1 <= 0) /\ ~(2 * i <= 0)
      BY SummarySteps
    <3> QED BY <2>1, <3>1 DEF SummaryProgress, Filled
  <2>3. Progress'
    BY <1>3, <1>5, <1>6, <2>2 DEF Progress
  <2> QED BY <1>3, <1>4, <1>6, <2>1, <2>3 DEF ReportOK, Filled
<1>7. CASE kind = "session"
  <2>1. /\ DOMAIN report'.windows = {"session"} /\ "ids" \in DOMAIN report'.windows["session"]
        /\ ~Billed(report'.windows["session"])
    BY <1>3, <1>7 DEF Billed
  <2>2. SessionProgress(0)'
    BY <2>1 DEF SessionProgress
  <2>3. Progress'
    BY <1>3, <1>5, <1>7, <2>2 DEF Progress
  <2>4. \A w \in DOMAIN report'.windows : AcksStand(report.windows[w])'
    BY <2>1 DEF AcksStand, Billed
  <2> QED BY <1>3, <1>4, <1>7, <2>3, <2>4 DEF ReportOK
<1> QED BY <1>1, <1>6, <1>7

LEMMA StepReport ==
  ASSUME IInv, BooksOK, ReportOK, [Next]_vars
  PROVE  BooksOK' /\ ReportOK'
<1>1. BooksOK' /\ Grows
  BY StepBooks
<1>2. CASE ReadRows
  BY <1>1, <1>2, ReadRowsKeeps
<1>3. CASE ReadCosts
  BY <1>1, <1>3, ReadCostsKeeps
<1>4. CASE ReadBills
  BY <1>1, <1>4, ReadBillsKeeps
<1>5. CASE ReadCached
  BY <1>1, <1>5, ReadCachedKeeps
<1>6. CASE \E kind \in DOMAIN Queries : Ask(kind)
  BY <1>1, <1>6, AskKeeps
<1>7. CASE Crash
  <2>1. report' = report \/ report' = NoReport
    BY <1>7 DEF Crash
  <2> QED BY <1>1, <2>1, ReportStays, NoReportIsFine
<1>8. CASE \/ \E batch \in Batch : Post(batch)
           \/ \E p \in DOMAIN posts : Submit(p) \/ HangUp(p)
           \/ \E s \in Session, charge \in Charge : FinishTurn(s, charge)
           \/ StoreSession \/ StoreRequest \/ StoreBill \/ Midnight \/ UNCHANGED vars
  <2>1. report' = report
    BY <1>8 DEF Post, Submit, HangUp, FinishTurn, StoreSession, StoreRequest, StoreBill,
                Midnight, vars
  <2> QED BY <1>1, <2>1, ReportStays
<1> QED BY <1>1, <1>2, <1>3, <1>4, <1>5, <1>6, <1>7, <1>8 DEF Next

-----------------------------------------------------------------------------
(* What a report shows at its end.                                         *)

\* The bills that were acknowledged when it was asked for.
LEMMA AcknowledgedAtTheEnd == ReportOK => AcknowledgedBillsCount
<1> SUFFICES ASSUME ReportOK, report.todo = <<>>,
                    NEW bill \in report.acked, NEW w \in DOMAIN report.windows,
                    bill.session \in report.windows[w].ids
             PROVE  /\ bill.session \in DOMAIN report.windows[w].bills
                    /\ report.windows[w].bills[bill.session].at >= bill.at
  BY Zenon DEF AcknowledgedBillsCount
<1>1. report.kind \in {"summary", "session"}
  BY DEF ReportOK, NoReport
<1>2. Progress
  BY DEF ReportOK
<1>3. PICK k \in Nat :
        /\ Answered(k)
        /\ report.kind = "summary" => SummaryProgress(k)
        /\ report.kind = "session" => SessionProgress(k)
  <2>1. report.kind # "none"
    BY <1>1
  <2> QED BY <1>2, <2>1 DEF Progress
<1>4. k = Len(Steps)
  <2>1. Steps \in Seq(QueryPair)
    BY <1>1, SummarySteps, SessionSteps DEF Steps
  <2> QED BY <1>3, <2>1, Advance
<1>5. Billed(report.windows[w])
  <2>1. CASE report.kind = "summary"
    <3>1. k = 6
      BY <1>4, <2>1, SummarySteps DEF Steps
    <3>2. PICK i \in DOMAIN Order : w = Order[i]
      BY <1>3, <2>1 DEF SummaryProgress
    <3>3. 2 * i <= k
      BY <3>1, SummarySteps
    <3> QED BY <1>3, <2>1, <3>2, <3>3 DEF SummaryProgress
  <2>2. CASE report.kind = "session"
    <3>1. k = 3
      BY <1>4, <2>2, SessionSteps DEF Steps
    <3> QED BY <1>3, <2>2, <3>1 DEF SessionProgress
  <2> QED BY <1>1, <2>1, <2>2
<1>6. AcksStand(report.windows[w])
  BY DEF ReportOK
<1> QED BY <1>5, <1>6 DEF AcksStand

\* More rows cost no less, and are trusted only if all of them are.
LEMMA TotalsGrow ==
  ASSUME BooksOK, NEW few, NEW many, few \subseteq many, many \subseteq DOMAIN requests
  PROVE  /\ Cents(Aggregate(few).cost) <= Cents(Aggregate(many).cost)
         /\ CachedInput(few).input <= CachedInput(many).input
         /\ CachedInput(few).cached <= CachedInput(many).cached
         /\ few # {} /\ Aggregate(many).trusted => Aggregate(few).trusted
<1>1. IsFiniteSet(many)
  <2>1. many \subseteq 1..Len(requests) /\ Len(requests) \in Nat
    BY LenProperties DEF BooksOK
  <2> QED BY <2>1, FS_Interval, FS_Subset
<1>2. \A i \in many : /\ Positive(PriceOf(requests[i].charge).cost) \in Nat
                      /\ Positive(requests[i].charge.input) \in Nat
                      /\ Positive(requests[i].charge.cached) \in Nat
  <2>1. \A i \in many : requests[i] \in Row
    BY DEF BooksOK
  <2> QED BY <2>1, RowsAreNumbers DEF Positive
<1>3. ASSUME NEW f, NEW g, DOMAIN f = few, DOMAIN g = many,
             \A i \in many : g[i] \in Nat, \A i \in few : f[i] = g[i]
      PROVE  /\ SumFunction(f) \in Nat /\ SumFunction(g) \in Nat
             /\ SumFunction(f) <= SumFunction(g)
  BY <1>1, <1>3, SumGrows
<1>4. /\ Aggregate(few).cost \in Nat /\ Aggregate(many).cost \in Nat
      /\ Aggregate(few).cost <= Aggregate(many).cost
  <2> DEFINE f == [i \in few |-> Positive(PriceOf(requests[i].charge).cost)]
             g == [i \in many |-> Positive(PriceOf(requests[i].charge).cost)]
  <2>1. /\ DOMAIN f = few /\ DOMAIN g = many
        /\ \A i \in many : g[i] \in Nat
        /\ \A i \in few : f[i] = g[i]
    BY <1>2
  <2>2. Aggregate(few).cost = SumFunction(f) /\ Aggregate(many).cost = SumFunction(g)
    BY DEF Aggregate
  <2> HIDE DEF f, g
  <2> QED BY <1>3, <2>1, <2>2
<1>5. CachedInput(few).input <= CachedInput(many).input
  <2> DEFINE f == [i \in few |-> Positive(requests[i].charge.input)]
             g == [i \in many |-> Positive(requests[i].charge.input)]
  <2>1. /\ DOMAIN f = few /\ DOMAIN g = many
        /\ \A i \in many : g[i] \in Nat
        /\ \A i \in few : f[i] = g[i]
    BY <1>2
  <2>2. CachedInput(few).input = SumFunction(f) /\ CachedInput(many).input = SumFunction(g)
    BY DEF CachedInput
  <2> HIDE DEF f, g
  <2> QED BY <1>3, <2>1, <2>2
<1>6. CachedInput(few).cached <= CachedInput(many).cached
  <2> DEFINE f == [i \in few |-> Positive(requests[i].charge.cached)]
             g == [i \in many |-> Positive(requests[i].charge.cached)]
  <2>1. /\ DOMAIN f = few /\ DOMAIN g = many
        /\ \A i \in many : g[i] \in Nat
        /\ \A i \in few : f[i] = g[i]
    BY <1>2
  <2>2. CachedInput(few).cached = SumFunction(f) /\ CachedInput(many).cached = SumFunction(g)
    BY DEF CachedInput
  <2> HIDE DEF f, g
  <2> QED BY <1>3, <2>1, <2>2
<1>7. Cents(Aggregate(few).cost) <= Cents(Aggregate(many).cost)
  <2>1. \A m, n \in Nat : m <= n => (m + 5) \div 10 <= (n + 5) \div 10
    OBVIOUS
  <2> QED BY <1>4, <2>1 DEF Cents
<1>8. ASSUME few # {}, Aggregate(many).trusted PROVE Aggregate(few).trusted
  <2>1. many # {}
    BY <1>8
  <2>2. \A i \in many : PriceOf(requests[i].charge).trusted
    BY <1>8, <2>1 DEF Aggregate
  <2>3. \A i \in few : PriceOf(requests[i].charge).trusted
    BY <2>2
  <2> QED BY <1>8, <2>3 DEF Aggregate
<1> QED BY <1>4, <1>5, <1>6, <1>7, <1>8

LEMMA NestedAtTheEnd == BooksOK /\ ReportOK => WindowsAreNested
<1> SUFFICES ASSUME BooksOK, ReportOK, report.kind = "summary", report.todo = <<>>,
                    NEW i \in DOMAIN Order, NEW j \in DOMAIN Order, i < j,
                    NEW short, short = report.windows[Order[i]],
                    NEW long, long = report.windows[Order[j]],
                    short.since >= long.since
             PROVE  /\ short.rows \subseteq long.rows /\ short.ids \subseteq long.ids
                    /\ Cents(short.estimate.cost) <= Cents(long.estimate.cost)
                    /\ short.input.input <= long.input.input
                    /\ short.input.cached <= long.input.cached
                    /\ short.rows # {} /\ long.estimate.trusted => short.estimate.trusted
                    /\ \A s \in DOMAIN short.bills :
                         s \in DOMAIN long.bills /\ short.bills[s].at <= long.bills[s].at
  BY Zenon DEF WindowsAreNested
<1>1. PICK k \in Nat : Answered(k) /\ SummaryProgress(k)
  <2>1. Progress /\ report.kind # "none"
    BY DEF ReportOK
  <2> QED BY <2>1 DEF Progress
<1>2. k = 6
  <2>1. Steps \in Seq(QueryPair) /\ Len(Steps) = 6
    BY SummarySteps DEF Steps
  <2> QED BY <1>1, <2>1, Advance
<1>3. /\ Filled(i) /\ Filled(j) /\ Billed(long)
  BY <1>1, <1>2, SummarySteps DEF SummaryProgress
<1>4. Counted(short) /\ Counted(long) /\ Nests(short, long)
  BY <1>3 DEF ReportOK, Told, Filled
<1>5. short.rows \subseteq long.rows /\ long.rows \subseteq DOMAIN requests
  BY <1>4 DEF Nests, Counted
<1>6. /\ short.estimate = Aggregate(short.rows) /\ long.estimate = Aggregate(long.rows)
      /\ short.input = CachedInput(short.rows) /\ long.input = CachedInput(long.rows)
  BY <1>4 DEF Counted
<1>7. /\ Cents(short.estimate.cost) <= Cents(long.estimate.cost)
      /\ short.input.input <= long.input.input
      /\ short.input.cached <= long.input.cached
      /\ short.rows # {} /\ long.estimate.trusted => short.estimate.trusted
  BY <1>5, <1>6, TotalsGrow
<1> QED BY <1>3, <1>4, <1>7 DEF Nests

LEMMA BooksAndReports == Spec => [](BooksOK /\ ReportOK)
<1>1. Init => IInv /\ BooksOK /\ ReportOK
  BY Initially, BooksInitially, ReportInitially
<1>2. IInv /\ BooksOK /\ ReportOK /\ [Next]_vars => (IInv /\ BooksOK /\ ReportOK)'
  BY NextKeeps, StepReport
<1> QED BY <1>1, <1>2, PTL DEF Spec

\* Of two windows of a summary the one that starts later never shows more
\* and is not trusted less, whatever comes in, or what day begins, between
\* the queries of handle_summary: the tables only grow, and what a window
\* shows is what its rows still add up to.
THEOREM WindowsNest == Spec => []WindowsAreNested
BY BooksAndReports, NestedAtTheEnd, PTL

\* A bill that a client was told is stored is in every report that is asked
\* for from then on, or one of a later time, whatever fails or restarts.
THEOREM AcknowledgedBillsStay == Spec => []AcknowledgedBillsCount
BY BooksAndReports, AcknowledgedAtTheEnd, PTL
=============================================================================
