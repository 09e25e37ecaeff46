---------------------------- MODULE StreamProofs -----------------------------
(***************************************************************************)
(* The streams on both sides of the core.                                  *)
(*                                                                         *)
(* Where answers come in: a turn is what arrived, once, however the body   *)
(* was split, for any number of tasks, any requests, responses and limits. *)
(* The inductive invariant (StreamInv) says of every exchange that its     *)
(* summary is that of the lines taken out of the buffer so far, whatever   *)
(* the chunks were.                                                        *)
(*                                                                         *)
(* Where the feed goes out: what a run gate and a watch client make of it, *)
(* for any sessions, turns, faults and reconnections.  A turn is on its    *)
(* way to the database or in it, never both (WriterOK); it is published    *)
(* once (OnceOK); while it is on its way to the database it is in the      *)
(* history or about to be (MeetsOK), so that a client that finds neither   *)
(* finds its row; a live session has its turns under a start that is told  *)
(* or about to be, or that never will be, for want of a prompt (HeaderOK); *)
(* and what is published after a client subscribed is newer than all that  *)
(* was published before, unless it was overtaken (PanesOK).                *)
(***************************************************************************)
EXTENDS ExtProcStream, RunGate, Induction, SequenceTheorems

-----------------------------------------------------------------------------
(* The lines of a body, one after the other.                               *)

\* The equation of ProcessLines.
Folds(g, acc, body, from, to) ==
  g = [i \in (from - 1)..to |->
         IF i < from THEN acc ELSE ProcessEvent(g[i - 1], body[i])]

\* It has one solution, by induction on the number of lines.
LEMMA FoldExists ==
  ASSUME NEW acc, NEW body, NEW from \in Nat, NEW to \in Int, to >= from - 1
  PROVE  \E g : Folds(g, acc, body, from, to)
<1> DEFINE T == {n \in Nat : \E g : Folds(g, acc, body, from, from - 1 + n)}
<1>1. 0 \in T
  <2> DEFINE g == [i \in (from - 1)..(from - 1 + 0) |-> acc]
  <2>1. Folds(g, acc, body, from, from - 1 + 0)
    BY DEF Folds
  <2> HIDE DEF g
  <2> QED BY <2>1
<1>2. ASSUME NEW n \in T PROVE n + 1 \in T
  <2>1. PICK g : Folds(g, acc, body, from, from - 1 + n)
    OBVIOUS
  <2> DEFINE h == [i \in (from - 1)..(from - 1 + (n + 1)) |->
                     IF i < from THEN acc ELSE ProcessEvent(g[i - 1], body[i])]
  <2>2. \A i \in (from - 1)..(from - 1 + n) : h[i] = g[i]
    BY <2>1 DEF Folds
  <2>3. \A i \in (from - 1)..(from - 1 + (n + 1)) :
          ~(i < from) => i - 1 \in (from - 1)..(from - 1 + n)
    OBVIOUS
  <2>4. Folds(h, acc, body, from, from - 1 + (n + 1))
    <3>1. h = [i \in (from - 1)..(from - 1 + (n + 1)) |-> h[i]]
      OBVIOUS
    <3>2. \A i \in (from - 1)..(from - 1 + (n + 1)) :
            h[i] = IF i < from THEN acc ELSE ProcessEvent(h[i - 1], body[i])
      BY <2>2, <2>3
    <3> HIDE DEF h
    <3> QED BY <3>1, <3>2 DEF Folds
  <2> HIDE DEF h
  <2> QED BY <2>4
<1>3. T = Nat
  <2>1. T \subseteq Nat
    OBVIOUS
  <2> HIDE DEF T
  <2> QED BY <1>1, <1>2, <2>1, NumberInduction
<1>4. to - (from - 1) \in T /\ from - 1 + (to - (from - 1)) = to
  <2> HIDE DEF T
  <2> QED BY <1>3
<1> QED BY <1>4

LEMMA FoldIsUnique ==
  ASSUME NEW acc, NEW body, NEW from \in Nat,
         NEW m \in Int, NEW to \in Int, m <= to,
         NEW g, Folds(g, acc, body, from, to), NEW h, Folds(h, acc, body, from, m)
  PROVE  \A i \in (from - 1)..m : g[i] = h[i]
<1> DEFINE T == {n \in Nat : from - 1 + n <= m => g[from - 1 + n] = h[from - 1 + n]}
<1>1. 0 \in T
  BY DEF Folds
<1>2. ASSUME NEW n \in T PROVE n + 1 \in T
  <2>1. CASE from - 1 + (n + 1) <= m
    <3> DEFINE i == from - 1 + (n + 1)
    <3>1. i \in (from - 1)..m /\ i \in (from - 1)..to /\ ~(i < from)
          /\ i - 1 = from - 1 + n /\ from - 1 + n <= m
      BY <2>1
    <3>2. g[i] = ProcessEvent(g[i - 1], body[i])
      BY <3>1 DEF Folds
    <3>3. h[i] = ProcessEvent(h[i - 1], body[i])
      BY <3>1 DEF Folds
    <3>4. g[i - 1] = h[i - 1]
      BY <3>1
    <3> QED BY <3>2, <3>3, <3>4
  <2> QED BY <2>1
<1>3. T = Nat
  <2>1. T \subseteq Nat
    OBVIOUS
  <2> HIDE DEF T
  <2> QED BY <1>1, <1>2, <2>1, NumberInduction
<1>4. ASSUME NEW i \in (from - 1)..m PROVE g[i] = h[i]
  <2>1. i - (from - 1) \in T /\ from - 1 + (i - (from - 1)) = i
    <3> HIDE DEF T
    <3> QED BY <1>3
  <2> QED BY <2>1
<1> QED BY <1>4

\* ProcessLines by its last line.
LEMMA ProcessUnfolds ==
  ASSUME NEW acc, NEW body, NEW from \in Nat, NEW to \in Int, to >= from - 1
  PROVE  ProcessLines(acc, body, from, to) =
           IF to < from THEN acc
           ELSE ProcessEvent(ProcessLines(acc, body, from, to - 1), body[to])
<1> DEFINE Run(n) == CHOOSE g : Folds(g, acc, body, from, n)
<1>1. \A n : ProcessLines(acc, body, from, n) = Run(n)[n]
  BY DEF ProcessLines, Folds
<1>2. \A n \in Int : n >= from - 1 => Folds(Run(n), acc, body, from, n)
  BY FoldExists
<1> HIDE DEF Run
<1>3. Run(to)[to] = IF to < from THEN acc ELSE ProcessEvent(Run(to)[to - 1], body[to])
  BY <1>2 DEF Folds
<1>4. ASSUME ~(to < from) PROVE Run(to)[to - 1] = Run(to - 1)[to - 1]
  <2>1. /\ to - 1 \in Int /\ to - 1 <= to /\ to - 1 >= from - 1
        /\ to - 1 \in (from - 1)..(to - 1)
    BY <1>4
  <2>2. Folds(Run(to), acc, body, from, to) /\ Folds(Run(to - 1), acc, body, from, to - 1)
    BY <1>2, <2>1
  <2>3. \A m \in Int : m <= to => \A g, h :
          Folds(g, acc, body, from, to) /\ Folds(h, acc, body, from, m)
            => \A i \in (from - 1)..m : g[i] = h[i]
    BY FoldIsUnique
  <2>4. \A i \in (from - 1)..(to - 1) : Run(to)[i] = Run(to - 1)[i]
    <3> DEFINE g == Run(to)
               h == Run(to - 1)
               m == to - 1
    <3>1. m \in Int /\ m <= to
      BY <2>1
    <3>2. Folds(g, acc, body, from, to) /\ Folds(h, acc, body, from, m)
      BY <2>2
    <3> HIDE DEF g, h, m
    <3>3. \A i \in (from - 1)..m : g[i] = h[i]
      BY <2>3, <3>1, <3>2
    <3> QED BY <3>3 DEF g, h, m
  <2> QED BY <2>1, <2>4
<1> QED BY <1>1, <1>3, <1>4

LEMMA ProcessOneMore ==
  ASSUME NEW acc, NEW body, NEW n \in Nat
  PROVE  /\ ProcessLines(acc, body, 1, 0) = acc
         /\ ProcessLines(acc, body, 1, n + 1)
              = ProcessEvent(ProcessLines(acc, body, 1, n), body[n + 1])
<1>1. ProcessLines(acc, body, 1, 0) = acc
  <2>1. 1 \in Nat /\ 0 \in Int /\ 0 >= 1 - 1 /\ 0 < 1
    OBVIOUS
  <2> QED BY <2>1, ProcessUnfolds
<1> DEFINE k == n + 1
<1>2. k - 1 = n /\ ~(k < 1) /\ k >= 1 - 1 /\ k \in Int /\ 1 \in Nat
  OBVIOUS
<1> HIDE DEF k
<1>3. ProcessLines(acc, body, 1, k)
        = ProcessEvent(ProcessLines(acc, body, 1, k - 1), body[k])
  BY <1>2, ProcessUnfolds
<1> QED BY <1>1, <1>2, <1>3, Zenon DEF k

\* Lines may be processed in two portions.
LEMMA ProcessInPortions ==
  ASSUME NEW acc, NEW body, NEW mid \in Nat, NEW to \in Nat, mid <= to
  PROVE  ProcessLines(ProcessLines(acc, body, 1, mid), body, mid + 1, to)
           = ProcessLines(acc, body, 1, to)
<1> DEFINE first == ProcessLines(acc, body, 1, mid)
           T == {n \in Nat : ProcessLines(first, body, mid + 1, mid + n)
                               = ProcessLines(acc, body, 1, mid + n)}
<1>1. 0 \in T
  <2>1. ProcessLines(first, body, mid + 1, mid + 0) = first
    BY ProcessUnfolds
  <2> QED BY <2>1
<1>2. ASSUME NEW n \in T PROVE n + 1 \in T
  <2>1. ProcessLines(first, body, mid + 1, mid + (n + 1))
          = ProcessEvent(ProcessLines(first, body, mid + 1, mid + n), body[mid + (n + 1)])
    <3> DEFINE k == mid + (n + 1)
    <3>1. /\ k - 1 = mid + n /\ ~(k < mid + 1) /\ k >= mid + 1 - 1
          /\ k \in Int /\ mid + 1 \in Nat
      OBVIOUS
    <3> HIDE DEF first, k, T
    <3>2. ProcessLines(first, body, mid + 1, k)
            = ProcessEvent(ProcessLines(first, body, mid + 1, k - 1), body[k])
      BY <3>1, ProcessUnfolds
    <3> QED BY <3>1, <3>2, Zenon DEF k
  <2>2. ProcessLines(acc, body, 1, mid + (n + 1))
          = ProcessEvent(ProcessLines(acc, body, 1, mid + n), body[mid + (n + 1)])
    <3>1. mid + n \in Nat /\ mid + n + 1 = mid + (n + 1)
      OBVIOUS
    <3> HIDE DEF T, first
    <3>2. ProcessLines(acc, body, 1, (mid + n) + 1)
            = ProcessEvent(ProcessLines(acc, body, 1, mid + n), body[(mid + n) + 1])
      BY <3>1, ProcessOneMore
    <3> QED BY <3>1, <3>2
  <2> QED BY <2>1, <2>2
<1>3. T = Nat
  <2>1. T \subseteq Nat
    OBVIOUS
  <2> HIDE DEF T
  <2> QED BY <1>1, <1>2, <2>1, NumberInduction
<1>4. to - mid \in T /\ mid + (to - mid) = to
  <2> HIDE DEF T
  <2> QED BY <1>3
<1> QED BY <1>4

\* A line without an event leaves the summary alone.
LEMMA NoEvent ==
  ASSUME NEW acc, NEW line, line.kind \notin Events
  PROVE  ProcessEvent(acc, line) = acc
BY DEF ProcessEvent, Events, TerminalEvents

-----------------------------------------------------------------------------
(* The line buffer.                                                        *)

LEMMA Thirds ==
  ASSUME NEW n \in Nat
  PROVE  n \div Pieces \in Nat /\ Pieces * (n \div Pieces) <= n
         /\ n < Pieces * (n \div Pieces) + Pieces
BY DEF Pieces

\* No complete line is left in the buffer, unless behind a malformed one.
Emptied(taken, received, body) ==
  received >= Pieces * (taken + 1) => taken > 0 /\ body[taken].kind = "malformed"

LEMMA ChunkEmpties ==
  ASSUME NEW buf, buf.taken \in Nat, NEW body, NEW n \in Nat, Pieces * buf.taken <= n
  PROVE  LET last == LastTaken(buf, body, n) IN
         /\ last \in Nat /\ buf.taken <= last /\ Pieces * last <= n
         /\ Emptied(last, n, body)
<1> DEFINE complete == Complete(buf, n)
           bad == {i \in complete : body[i].kind = "malformed"}
           last == LastTaken(buf, body, n)
<1>1. complete = (buf.taken + 1)..(n \div Pieces)
  BY DEF Complete
<1>2. last = IF bad # {} THEN Min(bad)
             ELSE IF complete # {} THEN n \div Pieces ELSE buf.taken
  BY DEF LastTaken
<1>3. \A i \in complete : i \in Nat /\ buf.taken < i /\ Pieces * i <= n
  <2> HIDE DEF complete
  <2> QED BY <1>1, Thirds DEF Pieces
<1>4. CASE bad # {}
  <2>1. Min(bad) \in bad
    <3>1. bad \subseteq Nat
      <4> HIDE DEF complete
      <4> QED BY <1>3
    <3> HIDE DEF bad
    <3> QED BY <1>4, <3>1, NaturalMin
  <2>2. last \in complete /\ body[last].kind = "malformed"
    <3> HIDE DEF complete, last
    <3> QED BY <1>2, <1>4, <2>1
  <2> HIDE DEF last, complete
  <2> QED BY <1>3, <2>2 DEF Emptied, last
<1>5. CASE bad = {} /\ complete # {}
  <2>1. last = n \div Pieces /\ last >= buf.taken + 1
    <3>1. last = n \div Pieces
      <4> HIDE DEF complete, last
      <4> QED BY <1>2, <1>5
    <3>2. PICK i \in complete : TRUE
      BY <1>5
    <3>3. i \in (buf.taken + 1)..(n \div Pieces) /\ n \div Pieces \in Nat
      BY <1>1, <3>2, Thirds
    <3> HIDE DEF last, complete
    <3> QED BY <3>1, <3>3
  <2> HIDE DEF last, complete
  <2> QED BY <2>1, Thirds DEF Emptied, Pieces, last
<1>6. CASE bad = {} /\ complete = {}
  <2>1. last = buf.taken
    <3> HIDE DEF complete, last
    <3> QED BY <1>2, <1>6
  <2>2. n \div Pieces \in Nat /\ ~(buf.taken + 1 <= n \div Pieces)
    <3> HIDE DEF complete
    <3> QED BY <1>1, <1>6, Thirds
  <2> HIDE DEF last, complete
  <2> QED BY <2>1, <2>2, Thirds DEF Emptied, Pieces, last
<1> QED BY <1>4, <1>5, <1>6

\* What finish makes of the rest is what one line after the other makes.
LEMMA FinishIsWhole ==
  ASSUME NEW buf, buf.taken \in Nat, buf.received \in Nat,
         Pieces * buf.taken <= buf.received,
         NEW body, NEW S, body \in Seq(S), buf.received <= Pieces * Len(body),
         Emptied(buf.taken, buf.received, body), NoneMalformed(body),
         NEW acc
  PROVE  /\ ~FinishFails(buf, body)
              => Finish(ProcessLines(acc, body, 1, buf.taken), buf, body)
                   = ProcessLines(acc, body, 1, WholeLines(buf.received))
         /\ buf.received % Pieces # 1 => ~FinishFails(buf, body)
<1> DEFINE k == buf.taken
           n == buf.received
           prior == ProcessLines(acc, body, 1, k)
           line == body[k + 1]
<1>0. Len(body) \in Nat /\ DOMAIN body = 1..Len(body)
  BY LenProperties
<1>1. n = 3 * k \/ n = 3 * k + 1 \/ n = 3 * k + 2
  <2>1. k > 0 => k \in DOMAIN body
    BY <1>0 DEF Pieces
  <2>2. ~(n >= 3 * (k + 1))
    BY <2>1 DEF Emptied, NoneMalformed, Pieces
  <2>3. k \in Nat /\ n \in Nat /\ 3 * k <= n /\ n < 3 * (k + 1)
    BY <2>2 DEF Pieces
  <2> HIDE DEF k, n
  <2> QED BY <2>3
<1>2. ProcessLines(acc, body, 1, k + 1) = ProcessEvent(prior, line)
  BY ProcessOneMore
<1>3. CASE n = 3 * k
  <2>1. WholeLines(n) = k /\ BufferEmpty(buf)
    BY <1>3 DEF WholeLines, Pieces, BufferEmpty
  <2> QED BY <2>1 DEF Finish, FinishFails
<1>4. CASE n = 3 * k + 1
  <2>1. WholeLines(n) = k /\ ~BufferEmpty(buf)
    BY <1>4 DEF WholeLines, Pieces, BufferEmpty
  <2>2. n % Pieces = 1
    <3> HIDE DEF k, n
    <3>1. k \in Nat /\ (3 * k + 1) % 3 = 1
      BY DEF k
    <3> QED BY <1>4, <3>1 DEF Pieces
  <2>4. n < TextOf(k + 1)
    BY <1>4 DEF TextOf, Pieces
  <2>5. IsData(line) => FinishFails(buf, body)
    BY <2>1, <2>4 DEF FinishFails, FirstLeft
  <2>3. ~IsData(line) => Finish(prior, buf, body) = prior
    BY DEF Finish, FirstLeft
  <2> HIDE DEF prior, line
  <2> QED BY <2>1, <2>2, <2>3, <2>5 DEF prior, line
<1>5. CASE n = 3 * k + 2
  <2>1. WholeLines(n) = k + 1 /\ ~BufferEmpty(buf)
    BY <1>5 DEF WholeLines, Pieces, BufferEmpty
  <2>2. Finish(prior, buf, body) = ProcessEvent(prior, line)
    <3>1. CASE IsData(line)
      BY <2>1, <3>1 DEF Finish, FirstLeft
    <3>2. CASE ~IsData(line)
      <4>1. ProcessEvent(prior, line) = prior
        BY <3>2, NoEvent DEF IsData
      <4> QED BY <3>2, <4>1 DEF Finish, FirstLeft
    <3> QED BY <3>1, <3>2
  <2>3. ~FinishFails(buf, body)
    <3>1. k + 1 \in DOMAIN body
      BY <1>0, <1>5 DEF Pieces
    <3>2. line.kind # "malformed"
      BY <3>1 DEF NoneMalformed
    <3>3. RestIsBlank(buf, body)
      <4> SUFFICES ASSUME NEW i \in 1..Len(body), k + 1 < i, (i - 1) * 3 < n
                   PROVE  FALSE
        BY <1>0 DEF RestIsBlank, FirstLeft, Pieces
      <4> QED BY <1>5
    <3>4. ~(n < TextOf(k + 1)) /\ ~(n > TextOf(k + 1))
      BY <1>5 DEF TextOf, Pieces
    <3> QED BY <3>2, <3>3, <3>4 DEF FinishFails, FirstLeft
  <2> HIDE DEF prior, line
  <2> QED BY <1>2, <2>1, <2>2, <2>3 DEF prior, line
<1> QED BY <1>1, <1>3, <1>4, <1>5

-----------------------------------------------------------------------------
(* The inductive invariant: what each exchange is, the tool events, and    *)
(* the requests under way.                                                 *)

OnStreams(f) == f = [r \in Stream |-> f[r]]
FunctionsOK == OnStreams(request) /\ OnStreams(summary) /\ OnStreams(turn)
TypesOK ==
  /\ at \in [Stream -> Waits] /\ admitted \in [Stream -> BOOLEAN]
  /\ is_sse \in [Stream -> BOOLEAN] /\ finalized \in [Stream -> BOOLEAN]
  /\ request_id \in [Stream -> RequestId \cup {None}]
  /\ buffer \in [Stream -> [taken : Nat, received : Nat]]
  /\ answer \in [Stream -> Answer \cup {NoAnswer}]
  /\ unread \in [Stream -> 0..ReplyCap]
LocalsOK == TypesOK /\ FunctionsOK

HeadersOf(r) == ApplyHeaders(NewSummary, answer[r].status, answer[r].model)

\* There was no response so far.
Unanswered(r) ==
  /\ answer[r] = NoAnswer /\ ~is_sse[r] /\ ~finalized[r]
  /\ buffer[r] = NewBuffer /\ summary[r] = NewSummary

(* The summary of a response is that of the lines taken out so far, one    *)
(* after the other.                                                        *)
Answered(r) ==
  /\ answer[r] \in Answer /\ is_sse[r] = IsSse(answer[r].status)
  /\ ~is_sse[r] => buffer[r] = NewBuffer
  /\ summary[r] = ProcessLines(HeadersOf(r), answer[r].lines, 1, buffer[r].taken)
  /\ Pieces * buffer[r].taken <= buffer[r].received
  /\ buffer[r].received <= answer[r].total
  /\ Emptied(buffer[r].taken, buffer[r].received, answer[r].lines)
  /\ finalized[r] /\ is_sse[r] => buffer[r].received = answer[r].total

Accumulates(r) ==
  /\ Unanswered(r) \/ Answered(r)
  /\ at[r] \in {"headers", "body", "guard", "refused", "response"} => Unanswered(r)
  /\ at[r] = "chunks" => Answered(r)

\* Who is admitted is known, and was not refused.
Identified(r) ==
  /\ at[r] \in {"headers", "body", "guard", "refused"} => ~admitted[r]
  /\ at[r] \in {"body", "response", "chunks"} => request_id[r] \in RequestId

\* An exchange is a turn once it is finalized, and not before.
TurnIsDue(r) ==
  /\ at[r] # "over" /\ ~finalized[r] => turn[r] = <<>>
  /\ turn[r] # <<>> => turn[r] = <<TurnOf(r)>> /\ ~Unfinished(r)
  /\ admitted[r] /\ finalized[r] /\ Recorded(r) => turn[r] # <<>>

StreamInv(r) == Accumulates(r) /\ Identified(r) /\ TurnIsDue(r)

(* The table holds the tool events of the time to live, at their age.      *)
AgesOK(map) == map \in [DOMAIN map -> 0..TTL]
TableIsRecent ==
  /\ AgesOK(seen) /\ AgesOK(since) /\ shown \in [DOMAIN shown -> Nat]
  /\ DOMAIN seen \subseteq DOMAIN shown
  /\ \A k \in Current : Recent(k) /\ since[k] = seen[k]
  /\ \A k : Recent(k) => k \in Current

RequestsOK ==
  /\ AgesOK(request_state) /\ DOMAIN request_state \subseteq RequestId
  /\ holding \subseteq Stream
  /\ exchanges \in 0..MaxExchanges /\ crashes \in 0..MaxCrashes

IInv ==
  /\ LocalsOK /\ \A r \in Stream : StreamInv(r)
  /\ TableIsRecent /\ RequestsOK

-----------------------------------------------------------------------------
LEMMA Initially == Init => IInv
<1> SUFFICES ASSUME Init PROVE IInv
  OBVIOUS
<1> USE DEF Init, NewBuffer
<1>1. LocalsOK
  BY CapAssumption DEF LocalsOK, TypesOK, FunctionsOK, Waits, OnStreams
<1>2. ASSUME NEW r \in Stream PROVE StreamInv(r)
  <2>1. /\ at[r] = "over" /\ turn[r] = <<>> /\ ~admitted[r] /\ ~finalized[r]
        /\ Unanswered(r)
    BY DEF Unanswered
  <2> QED BY <2>1 DEF StreamInv, Accumulates, Identified, TurnIsDue
<1>3. TableIsRecent
  BY DEF TableIsRecent, AgesOK, Current, Recent
<1>4. RequestsOK
  BY CrashAssumption DEF RequestsOK, AgesOK
<1> QED BY <1>1, <1>2, <1>3, <1>4 DEF IInv

-----------------------------------------------------------------------------
(* The exchanges.                                                          *)

\* Nothing happens to an exchange, or it is given up.
Same(r) ==
  /\ at'[r] = at[r] \/ at'[r] = "over"
  /\ request_id'[r] = request_id[r] /\ request'[r] = request[r]
  /\ admitted'[r] = admitted[r] /\ is_sse'[r] = is_sse[r]
  /\ summary'[r] = summary[r] /\ buffer'[r] = buffer[r]
  /\ answer'[r] = answer[r] /\ finalized'[r] = finalized[r] /\ turn'[r] = turn[r]

LEMMA SameStays == ASSUME NEW r \in Stream, StreamInv(r), Same(r) PROVE StreamInv(r)'
<1>1. (Unanswered(r)' <=> Unanswered(r)) /\ (Answered(r)' <=> Answered(r))
  BY DEF Same, Unanswered, Answered, HeadersOf
<1>2. TurnOf(r)' = TurnOf(r) /\ (Unfinished(r)' <=> Unfinished(r))
      /\ (Recorded(r)' <=> Recorded(r))
  BY DEF Same, TurnOf, Unfinished, Recorded
<1>3. Accumulates(r)'
  BY <1>1 DEF StreamInv, Accumulates, Same
<1>4. Identified(r)'
  BY DEF StreamInv, Identified, Same
<1>5. TurnIsDue(r)'
  BY <1>2 DEF StreamInv, TurnIsDue, Same
<1> QED BY <1>3, <1>4, <1>5 DEF StreamInv

\* What an action does to the exchanges it does not mention.
LEMMA OthersSame ==
  ASSUME LocalsOK, NEW r \in Stream, NEW q \in Stream, q # r,
         \/ Open(r)
         \/ \E id \in RequestId, open \in BOOLEAN : RequestHeaders(r, id, open)
         \/ \E kind \in RequestKind, over \in BOOLEAN : RequestBody(r, kind, over)
         \/ RefusalReply(r) \/ TakeReply(r)
         \/ \E reply \in Answer : ResponseHeaders(r, reply)
         \/ \E count \in 1..answer[r].total : ResponseBody(r, count)
         \/ EndOfStream(r) \/ Close(r) \/ ReplyFails(r)
  PROVE  Same(q)
<1> USE DEF LocalsOK, TypesOK, FunctionsOK, OnStreams, Same, Goto, locals
<1>1. CASE Open(r)
  BY <1>1 DEF Open
<1>2. ASSUME NEW id \in RequestId, NEW open \in BOOLEAN, RequestHeaders(r, id, open)
      PROVE  Same(q)
  BY <1>2 DEF RequestHeaders
<1>3. ASSUME NEW kind \in RequestKind, NEW over \in BOOLEAN,
             RequestBody(r, kind, over) PROVE Same(q)
  BY <1>3 DEF RequestBody, Admit
<1>4. CASE RefusalReply(r) \/ TakeReply(r)
  BY <1>4 DEF RefusalReply, TakeReply
<1>5. ASSUME NEW reply \in Answer, ResponseHeaders(r, reply) PROVE Same(q)
  BY <1>5 DEF ResponseHeaders
<1>6. ASSUME NEW count \in 1..answer[r].total, ResponseBody(r, count) PROVE Same(q)
  BY <1>6 DEF ResponseBody
<1>7. CASE EndOfStream(r)
  BY <1>7 DEF EndOfStream, RecordTurn
<1>8. CASE Close(r)
  BY <1>8 DEF Close, RecordTurn
<1>9. CASE ReplyFails(r)
  BY <1>9 DEF ReplyFails
<1> QED BY <1>1, <1>2, <1>3, <1>4, <1>5, <1>6, <1>7, <1>8, <1>9

\* What recording a turn does to it.
LEMMA Recording ==
  ASSUME NEW r \in Stream, OnStreams(turn), turn[r] = <<>>, RecordTurn(r)
  PROVE  /\ OnStreams(turn)'
         /\ Recorded(r) => turn'[r] = <<TurnOf(r)>>
         /\ ~Recorded(r) => turn'[r] = <<>>
<1> DEFINE t == TurnOf(r)
<1>1. CASE Recorded(r)
  <2>1. turn' = [turn EXCEPT ![r] = Append(@, t)]
    BY <1>1 DEF RecordTurn
  <2>2. Append(<<>>, t) = <<t>>
    OBVIOUS
  <2> HIDE DEF t
  <2>3. turn'[r] = Append(turn[r], t) /\ turn' = [q \in Stream |-> turn'[q]]
    BY <2>1 DEF OnStreams
  <2> QED BY <1>1, <2>2, <2>3 DEF t, OnStreams
<1>2. CASE ~Recorded(r)
  <2>1. turn' = turn
    BY <1>2 DEF RecordTurn
  <2> QED BY <1>2, <2>1 DEF OnStreams
<1> QED BY <1>1, <1>2

LEMMA StepTypes == IInv /\ [Next]_vars => TypesOK'
<1> SUFFICES ASSUME TypesOK, \A r \in Stream : StreamInv(r), [Next]_vars PROVE TypesOK'
  BY DEF IInv, LocalsOK
<1> USE CapAssumption DEF TypesOK, Waits, Goto, Reply
<1>0. NewBuffer \in [taken : Nat, received : Nat]
  BY DEF NewBuffer
<1>1. ASSUME NEW r \in Stream, Open(r) PROVE TypesOK'
  BY <1>0, <1>1 DEF Open
<1>2. ASSUME NEW r \in Stream, NEW id \in RequestId, NEW open \in BOOLEAN,
             RequestHeaders(r, id, open)
      PROVE  TypesOK'
  BY <1>2 DEF RequestHeaders
<1>3. ASSUME NEW r \in Stream, NEW kind \in RequestKind, NEW over \in BOOLEAN,
             RequestBody(r, kind, over)
      PROVE  TypesOK'
  <2>1. at' \in [Stream -> Waits] /\ admitted' \in [Stream -> BOOLEAN]
    BY <1>3 DEF RequestBody, Admit
  <2>2. unread' \in [Stream -> 0..ReplyCap]
    BY <1>3 DEF RequestBody, Admit
  <2>3. buffer' \in [Stream -> [taken : Nat, received : Nat]]
    BY <1>0, <1>3 DEF RequestBody, Admit
  <2>4. UNCHANGED <<request_id, is_sse, answer, finalized>>
    BY <1>3 DEF RequestBody
  <2> QED BY <2>1, <2>2, <2>3, <2>4
<1>4. ASSUME NEW r \in Stream, RefusalReply(r) PROVE TypesOK'
  BY <1>4 DEF RefusalReply, locals
<1>5. ASSUME NEW r \in Stream, TakeReply(r) PROVE TypesOK'
  BY <1>5 DEF TakeReply, locals
<1>6. ASSUME NEW r \in Stream, NEW reply \in Answer, ResponseHeaders(r, reply)
      PROVE  TypesOK'
  <2>1. IsSse(reply.status) \in BOOLEAN
    BY DEF IsSse
  <2>2. is_sse' \in [Stream -> BOOLEAN]
    BY <1>6, <2>1, Zenon DEF ResponseHeaders
  <2> QED BY <1>6, <2>2 DEF ResponseHeaders
<1>7. ASSUME NEW r \in Stream, NEW count \in 1..answer[r].total, ResponseBody(r, count)
      PROVE  TypesOK'
  <2>1. BufferAfter(buffer[r], answer[r].lines, count) \in [taken : Nat, received : Nat]
    <3>1. Answered(r)
      BY <1>7 DEF ResponseBody, StreamInv, Accumulates
    <3>2. count \in Nat /\ buffer[r].received + count \in Nat
      BY <1>7 DEF ResponseBody
    <3>3. Pieces * buffer[r].taken <= buffer[r].received + count
      BY <3>1, <3>2 DEF Answered, Pieces
    <3> QED BY <3>2, <3>3, ChunkEmpties DEF BufferAfter
  <2> QED BY <1>7, <2>1 DEF ResponseBody
<1>8. ASSUME NEW r \in Stream, EndOfStream(r) PROVE TypesOK'
  <2>1. at' \in [Stream -> Waits] /\ finalized' \in [Stream -> BOOLEAN]
    BY <1>8 DEF EndOfStream
  <2>2. unread' \in [Stream -> 0..ReplyCap]
    BY <1>8 DEF EndOfStream
  <2> QED BY <1>8, <2>1, <2>2 DEF EndOfStream
<1>9. ASSUME NEW r \in Stream, Close(r) PROVE TypesOK'
  BY <1>9 DEF Close
<1>10. ASSUME NEW r \in Stream, ReplyFails(r) PROVE TypesOK'
  BY <1>10 DEF ReplyFails, locals
<1>11. CASE CleanUp \/ Tick \/ Crash \/ UNCHANGED vars
  BY <1>11 DEF CleanUp, Tick, Crash, vars, locals
<1> QED BY <1>1, <1>2, <1>3, <1>4, <1>5, <1>6, <1>7, <1>8, <1>9, <1>10, <1>11 DEF Next

LEMMA UpdatedLines ==
  ASSUME NEW f, OnStreams(f), NEW r, NEW v
  PROVE  OnStreams([f EXCEPT ![r] = v])
BY DEF OnStreams

\* One value is replaced, or none.
Updates(f, g, r) == g = f \/ \E v : g = [f EXCEPT ![r] = v]
LEMMA UpdatedStays ==
  ASSUME NEW f, OnStreams(f), NEW r, NEW g, Updates(f, g, r)
  PROVE  OnStreams(g)
BY UpdatedLines DEF Updates

LEMMA StepFunctions == IInv /\ [Next]_vars => FunctionsOK'
<1> SUFFICES ASSUME TypesOK, FunctionsOK, \A r \in Stream : StreamInv(r), [Next]_vars
             PROVE  FunctionsOK'
  BY DEF IInv, LocalsOK
<1>1. ASSUME NEW r \in Stream, Open(r) PROVE FunctionsOK'
  <2>1. OnStreams(request')
    BY <1>1, UpdatedLines DEF Open, FunctionsOK
  <2>2. OnStreams(summary')
    BY <1>1, UpdatedLines DEF Open, FunctionsOK
  <2>3. OnStreams(turn')
    BY <1>1, UpdatedLines DEF Open, FunctionsOK
  <2> QED BY <2>1, <2>2, <2>3 DEF FunctionsOK
<1>2. ASSUME NEW r \in Stream, NEW kind \in RequestKind, NEW over \in BOOLEAN,
             RequestBody(r, kind, over)
      PROVE  FunctionsOK'
  <2>1. OnStreams(request')
    <3>1. Updates(request, request', r)
      BY <1>2 DEF RequestBody, Admit, Updates
    <3> QED BY <3>1, UpdatedStays DEF FunctionsOK
  <2>2. OnStreams(summary')
    <3>1. Updates(summary, summary', r)
      BY <1>2 DEF RequestBody, Admit, Updates
    <3> QED BY <3>1, UpdatedStays DEF FunctionsOK
  <2> QED BY <1>2, <2>1, <2>2 DEF RequestBody, FunctionsOK
<1>3. ASSUME NEW r \in Stream, NEW reply \in Answer, ResponseHeaders(r, reply)
      PROVE  FunctionsOK'
  <2>1. OnStreams(summary')
    BY <1>3, UpdatedLines DEF ResponseHeaders, FunctionsOK
  <2> QED BY <1>3, <2>1 DEF ResponseHeaders, FunctionsOK
<1>4. ASSUME NEW r \in Stream, NEW count \in 1..answer[r].total, ResponseBody(r, count)
      PROVE  FunctionsOK'
  <2>1. OnStreams(summary')
    <3>1. Updates(summary, summary', r)
      BY <1>4 DEF ResponseBody, Updates
    <3> QED BY <3>1, UpdatedStays DEF FunctionsOK
  <2> QED BY <1>4, <2>1 DEF ResponseBody, FunctionsOK
<1>5. ASSUME NEW r \in Stream, EndOfStream(r) \/ Close(r) PROVE FunctionsOK'
  <2>1. OnStreams(turn')
    <3>1. Updates(turn, turn', r)
      BY <1>5 DEF EndOfStream, Close, RecordTurn, Updates
    <3> QED BY <3>1, UpdatedStays DEF FunctionsOK
  <2>2. UNCHANGED <<request, summary>>
    BY <1>5 DEF EndOfStream, Close
  <2> QED BY <2>1, <2>2 DEF FunctionsOK
<1>6. CASE UNCHANGED <<request, summary, turn>>
  BY <1>6 DEF FunctionsOK
<1> QED
  BY <1>1, <1>2, <1>3, <1>4, <1>5, <1>6
       DEF Next, RequestHeaders, RefusalReply, TakeReply, ReplyFails, CleanUp,
           Tick,
         Crash, vars, locals

-----------------------------------------------------------------------------
(* What an action does to its exchange.                                    *)

LEMMA OpenKeeps ==
  ASSUME LocalsOK, NEW r \in Stream, Open(r) PROVE StreamInv(r)'
<1>1. /\ at'[r] = "headers" /\ ~admitted'[r] /\ turn'[r] = <<>> /\ ~finalized'[r]
      /\ answer'[r] = NoAnswer /\ ~is_sse'[r]
      /\ buffer'[r] = NewBuffer /\ summary'[r] = NewSummary
  BY DEF LocalsOK, TypesOK, FunctionsOK, OnStreams, Open, Goto
<1> QED BY <1>1 DEF StreamInv, Accumulates, Unanswered, Identified, TurnIsDue

LEMMA HeadersKeep ==
  ASSUME LocalsOK, NEW r \in Stream, StreamInv(r),
         NEW id \in RequestId, NEW open \in BOOLEAN, RequestHeaders(r, id, open)
  PROVE  StreamInv(r)'
<1>1. /\ at'[r] \in {"refused", "body"} /\ request_id'[r] = id
      /\ UNCHANGED <<request, admitted, is_sse, summary, buffer, answer, finalized, turn>>
  BY DEF LocalsOK, TypesOK, RequestHeaders, Goto
<1>2. Unanswered(r) /\ ~admitted[r] /\ turn[r] = <<>>
  BY
     DEF RequestHeaders, StreamInv, Accumulates, Unanswered, Identified,
         TurnIsDue
<1> QED BY <1>1, <1>2 DEF StreamInv, Accumulates, Unanswered, Identified, TurnIsDue

LEMMA BodyKeeps ==
  ASSUME LocalsOK, NEW r \in Stream, StreamInv(r),
         NEW kind \in RequestKind, NEW over \in BOOLEAN,
             RequestBody(r, kind, over)
  PROVE  StreamInv(r)'
<1>1. /\ Unanswered(r) /\ ~admitted[r] /\ turn[r] = <<>> /\ request_id[r] \in RequestId
      /\ UNCHANGED <<request_id, is_sse, answer, finalized, turn>>
  BY DEF RequestBody, StreamInv, Accumulates, Unanswered, Identified, TurnIsDue
<1>2. Unanswered(r)'
  BY <1>1
     DEF RequestBody, Admit, Unanswered, LocalsOK, TypesOK, FunctionsOK,
         OnStreams
<1>3. at'[r] \in {"guard", "response"}
  BY DEF RequestBody, Admit, Goto, LocalsOK, TypesOK
<1>4. Identified(r)'
  <2>1. at'[r] = "guard" => ~admitted'[r]
    BY <1>1 DEF RequestBody, Admit, LocalsOK, TypesOK, Goto
  <2> QED BY <1>1, <1>3, <2>1 DEF Identified
<1> QED BY <1>1, <1>2, <1>3, <1>4 DEF StreamInv, Accumulates, TurnIsDue, Unanswered

LEMMA RefusalKeeps ==
  ASSUME LocalsOK, NEW r \in Stream, StreamInv(r), RefusalReply(r) PROVE StreamInv(r)'
<1>1. at[r] = "guard" /\ at'[r] = "refused" /\ UNCHANGED locals
  BY DEF RefusalReply, Goto, LocalsOK, TypesOK
<1>2. Unanswered(r) /\ ~admitted[r] /\ turn[r] = <<>>
  BY <1>1 DEF StreamInv, Accumulates, Identified, TurnIsDue, Unanswered
<1> QED BY <1>1, <1>2 DEF locals, StreamInv, Accumulates, Unanswered, Identified, TurnIsDue

LEMMA ResponseKeeps ==
  ASSUME LocalsOK, NEW r \in Stream, StreamInv(r),
         NEW reply \in Answer, ResponseHeaders(r, reply)
  PROVE  StreamInv(r)'
<1>1. /\ at[r] = "response" /\ at'[r] = "chunks" /\ answer'[r] = reply
      /\ is_sse'[r] = IsSse(reply.status)
      /\ summary'[r] = ApplyHeaders(summary[r], reply.status, reply.model)
      /\ UNCHANGED <<request_id, request, admitted, buffer, finalized, turn>>
  BY DEF ResponseHeaders, Goto, LocalsOK, TypesOK, FunctionsOK, OnStreams
<1>2. Unanswered(r) /\ turn[r] = <<>> /\ request_id[r] \in RequestId
  BY <1>1 DEF StreamInv, Accumulates, Identified, TurnIsDue, Unanswered
<1>3. ProcessLines(HeadersOf(r)', reply.lines, 1, 0) = HeadersOf(r)'
  BY ProcessOneMore
<1>4. HeadersOf(r)' = summary'[r]
  BY <1>1, <1>2 DEF HeadersOf, Unanswered
<1>5. reply.total \in Nat
  BY AnswersAssumption
<1>6. Answered(r)'
  BY <1>1, <1>2, <1>3, <1>4, <1>5
     DEF Answered, Unanswered, NewBuffer, Pieces, Emptied
<1> QED BY <1>1, <1>2, <1>6 DEF StreamInv, Accumulates, Identified, TurnIsDue, Unanswered

(* However the body is cut, the summary stays that of the lines taken out. *)
LEMMA ChunkKeeps ==
  ASSUME LocalsOK, NEW r \in Stream, StreamInv(r),
         NEW count \in 1..answer[r].total, ResponseBody(r, count)
  PROVE  StreamInv(r)'
<1> DEFINE lines == answer[r].lines
           old == buffer[r]
           n == buffer[r].received + count
           last == LastTaken(old, lines, n)
<1>1. /\ at[r] = "chunks" /\ ~finalized[r] /\ Answered(r) /\ turn[r] = <<>>
      /\ old \in [taken : Nat, received : Nat] /\ answer[r].total \in Nat
      /\ UNCHANGED <<at, request_id, request, admitted, is_sse, answer, finalized, turn>>
  <2>1. answer[r].total \in Nat
    BY AnswersAssumption DEF StreamInv, Accumulates, Answered, ResponseBody
  <2> QED BY <2>1 DEF ResponseBody, StreamInv, Accumulates, TurnIsDue, LocalsOK, TypesOK
<1>2. count \in Nat /\ n \in Nat /\ n <= answer[r].total
  <2>1. count \in 1..(answer[r].total - old.received)
    BY DEF ResponseBody
  <2> QED BY <1>1, <2>1
<1>3. Answered(r)'
  <2>1. CASE is_sse[r]
    <3>1. buffer'[r] = [received |-> n, taken |-> last]
      BY <2>1 DEF ResponseBody, BufferAfter, LocalsOK, TypesOK
    <3>2. summary'[r] = ProcessLines(summary[r], lines, old.taken + 1, last)
      <4>1. summary' = [summary EXCEPT ![r] = SummaryAfter(summary[r], old, lines, count)]
        BY <2>1 DEF ResponseBody
      <4>2. summary'[r] = SummaryAfter(summary[r], old, lines, count)
        BY <4>1, Zenon DEF LocalsOK, FunctionsOK, OnStreams
      <4> QED BY <4>2 DEF SummaryAfter
    <3>3. Pieces * old.taken <= n
      BY <1>1, <1>2 DEF Answered, Pieces
    <3> HIDE DEF last
    <3>4. /\ last \in Nat /\ old.taken <= last /\ Pieces * last <= n
          /\ Emptied(last, n, lines)
      BY <1>1, <1>2, <3>3, ChunkEmpties DEF last
    <3>5. summary[r] = ProcessLines(HeadersOf(r), lines, 1, old.taken)
      BY <1>1 DEF Answered
    <3>6. summary'[r] = ProcessLines(HeadersOf(r), lines, 1, last)
      BY <1>1, <3>2, <3>4, <3>5, ProcessInPortions
    <3>7. HeadersOf(r)' = HeadersOf(r)
      BY <1>1 DEF HeadersOf
    <3> HIDE DEF n
    <3>8. buffer'[r].taken = last /\ buffer'[r].received = n
      BY <3>1
    <3> QED BY <1>1, <1>2, <2>1, <3>4, <3>6, <3>7, <3>8 DEF Answered
  <2>2. CASE ~is_sse[r]
    BY <1>1, <2>2 DEF ResponseBody, Answered, HeadersOf
  <2> QED BY <2>1, <2>2
<1> QED BY <1>1, <1>3 DEF StreamInv, Accumulates, Identified, TurnIsDue

LEMMA EndKeeps ==
  ASSUME LocalsOK, NEW r \in Stream, StreamInv(r), EndOfStream(r)
  PROVE  StreamInv(r)'
<1>1. /\ at[r] = "chunks" /\ ~finalized[r] /\ Answered(r) /\ turn[r] = <<>>
      /\ UNCHANGED <<request_id, request, admitted, is_sse, summary, buffer, answer>>
  BY DEF EndOfStream, StreamInv, Accumulates, TurnIsDue
<1>2. finalized'[r] /\ at'[r] \in {"chunks", "over"}
  BY <1>1 DEF EndOfStream, Goto, LocalsOK, TypesOK
<1>3. Answered(r)'
  BY <1>1 DEF EndOfStream, Answered, HeadersOf
<1>4. TurnOf(r)' = TurnOf(r) /\ (Unfinished(r)' <=> Unfinished(r))
      /\ (Recorded(r)' <=> Recorded(r))
  BY <1>1 DEF TurnOf, Unfinished, Recorded
<1>5. turn'[r] = IF Recorded(r) THEN <<TurnOf(r)>> ELSE <<>>
  BY <1>1, Recording DEF EndOfStream, LocalsOK, FunctionsOK
<1>6. TurnIsDue(r)'
  <2>1. turn'[r] # <<>> => Recorded(r)
    BY <1>5
  <2>2. Recorded(r) => ~Unfinished(r)
    BY DEF Recorded
  <2>3. <<TurnOf(r)>> # <<>>
    OBVIOUS
  <2> QED BY <1>2, <1>4, <1>5, <2>1, <2>2, <2>3 DEF TurnIsDue
<1> QED BY <1>1, <1>2, <1>3, <1>6 DEF StreamInv, Accumulates, Identified

LEMMA CloseKeeps ==
  ASSUME LocalsOK, NEW r \in Stream, StreamInv(r), Close(r)
  PROVE  StreamInv(r)'
<1>1. /\ at[r] # "over" /\ at'[r] = "over"
      /\ UNCHANGED <<request_id, request, admitted, is_sse, summary, buffer, answer,
                     finalized>>
  BY DEF Close, Goto, LocalsOK, TypesOK
<1>2. CASE ~finalized[r] /\ admitted[r]
  <2>1. turn[r] = <<>> /\ RecordTurn(r)
    BY <1>1, <1>2 DEF Close, StreamInv, TurnIsDue
  <2>2. turn'[r] = IF Recorded(r) THEN <<TurnOf(r)>> ELSE <<>>
    BY <2>1, Recording DEF LocalsOK, FunctionsOK
  <2>3. TurnOf(r)' = TurnOf(r) /\ (Unfinished(r)' <=> Unfinished(r))
    BY <1>1 DEF TurnOf, Unfinished
  <2>4. TurnIsDue(r)'
    <3>1. Recorded(r) => ~Unfinished(r)
      BY DEF Recorded
    <3> QED BY <1>1, <1>2, <2>2, <2>3, <3>1 DEF TurnIsDue
  <2>5. (Unanswered(r)' <=> Unanswered(r)) /\ (Answered(r)' <=> Answered(r))
    BY <1>1 DEF Unanswered, Answered, HeadersOf
  <2> QED BY <1>1, <2>4, <2>5 DEF StreamInv, Accumulates, Identified
<1>3. CASE ~(~finalized[r] /\ admitted[r])
  <2>1. Same(r)
    BY <1>1, <1>3 DEF Close, Same
  <2> QED BY <2>1, SameStays
<1> QED BY <1>2, <1>3

LEMMA StepStreams == IInv /\ [Next]_vars => \A q \in Stream : StreamInv(q)'
<1> SUFFICES ASSUME LocalsOK, [Next]_vars, NEW q \in Stream, StreamInv(q)
             PROVE  StreamInv(q)'
  BY DEF IInv
<1>1. ASSUME NEW r \in Stream, Open(r) PROVE StreamInv(q)'
  BY <1>1, OthersSame, SameStays, OpenKeeps
<1>2. ASSUME NEW r \in Stream, NEW id \in RequestId, NEW open \in BOOLEAN,
             RequestHeaders(r, id, open)
      PROVE  StreamInv(q)'
  BY <1>2, OthersSame, SameStays, HeadersKeep
<1>3. ASSUME NEW r \in Stream, NEW kind \in RequestKind, NEW over \in BOOLEAN,
             RequestBody(r, kind, over)
      PROVE  StreamInv(q)'
  BY <1>3, OthersSame, SameStays, BodyKeeps
<1>4. ASSUME NEW r \in Stream, RefusalReply(r) PROVE StreamInv(q)'
  BY <1>4, OthersSame, SameStays, RefusalKeeps
<1>5. ASSUME NEW r \in Stream, NEW reply \in Answer, ResponseHeaders(r, reply)
      PROVE  StreamInv(q)'
  BY <1>5, OthersSame, SameStays, ResponseKeeps
<1>6. ASSUME NEW r \in Stream, NEW count \in 1..answer[r].total, ResponseBody(r, count)
      PROVE  StreamInv(q)'
  BY <1>6, OthersSame, SameStays, ChunkKeeps
<1>7. ASSUME NEW r \in Stream, EndOfStream(r) PROVE StreamInv(q)'
  BY <1>7, OthersSame, SameStays, EndKeeps
<1>8. ASSUME NEW r \in Stream, Close(r) PROVE StreamInv(q)'
  BY <1>8, OthersSame, SameStays, CloseKeeps
<1>9. ASSUME NEW r \in Stream, TakeReply(r) \/ ReplyFails(r) PROVE StreamInv(q)'
  <2>1. Same(q)
    BY <1>9 DEF TakeReply, ReplyFails, Same, locals, Goto, LocalsOK, TypesOK
  <2> QED BY <2>1, SameStays
<1>10. CASE CleanUp \/ Tick \/ Crash \/ UNCHANGED vars
  <2>1. Same(q)
    BY <1>10 DEF CleanUp, Tick, Crash, vars, Same, locals
  <2> QED BY <2>1, SameStays
<1> QED BY <1>1, <1>2, <1>3, <1>4, <1>5, <1>6, <1>7, <1>8, <1>9, <1>10 DEF Next

-----------------------------------------------------------------------------
(* The table of tool events.                                               *)

LEMMA OlderAges ==
  ASSUME NEW map, AgesOK(map)
  PROVE  /\ AgesOK(Older(map)) /\ DOMAIN Older(map) = DOMAIN map
         /\ \A k \in DOMAIN map :
              Older(map)[k] = IF map[k] < TTL THEN map[k] + 1 ELSE TTL
BY TTLAssumption DEF AgesOK, Older

\* What is remembered: the keys not in the table, as of now.
LEMMA Remembering ==
  ASSUME TableIsRecent, NEW keys, RememberTools(keys)
  PROVE  /\ TableIsRecent'
         /\ DOMAIN shown' = DOMAIN shown \cup keys
         /\ \A k \in DOMAIN shown :
              shown'[k] = IF k \in keys /\ ~Recent(k) THEN shown[k] + 1 ELSE shown[k]
<1> USE TTLAssumption
<1> DEFINE new == keys \ Current
<1>1. /\ DOMAIN shown' = DOMAIN shown \cup new
      /\ \A k \in DOMAIN shown \cup new :
           shown'[k] = (IF k \in DOMAIN shown THEN shown[k] ELSE 0)
                       + (IF k \in new THEN 1 ELSE 0)
      /\ shown' = [k \in DOMAIN shown' |-> shown'[k]]
  BY DEF RememberTools, Show
<1>2. /\ DOMAIN since' = DOMAIN since \cup new
      /\ \A k \in DOMAIN since \cup new :
           since'[k] = IF k \in new THEN 0 ELSE since[k]
      /\ since' = [k \in DOMAIN since' |-> since'[k]]
  BY DEF RememberTools, Show
<1>3. Current \subseteq DOMAIN seen /\ \A k \in DOMAIN seen : seen[k] \in 0..TTL
  BY DEF Current, TableIsRecent, AgesOK
<1>4. /\ AgesOK(seen') /\ DOMAIN seen' \subseteq DOMAIN seen \cup new
      /\ \A k : k \in DOMAIN seen' /\ seen'[k] < TTL <=> k \in Current \cup new
      /\ \A k \in Current \cup new : seen'[k] = IF k \in Current THEN seen[k] ELSE 0
  <2>1. CASE keys = {}
    <3>1. seen' = seen /\ new = {}
      BY <2>1 DEF RememberTools
    <3> QED BY <3>1 DEF Current, TableIsRecent
  <2>2. CASE keys # {}
    <3>1. seen' = [k \in Current \cup keys |-> IF k \in Current THEN seen[k] ELSE 0]
      BY <2>2 DEF RememberTools
    <3>2. Current \cup keys = Current \cup new
      OBVIOUS
    <3>3. \A k \in Current : seen[k] \in 0..TTL /\ seen[k] < TTL
      BY <1>3 DEF Current
    <3> HIDE DEF new
    <3> QED BY <1>3, <3>1, <3>2, <3>3 DEF AgesOK
  <2> QED BY <2>1, <2>2
<1>5. \A k : Recent(k) <=> k \in Current
  BY DEF TableIsRecent
<1>6. shown' \in [DOMAIN shown' -> Nat]
  <2>1. \A k \in DOMAIN shown' : shown'[k] \in Nat
    <3> HIDE DEF new
    <3> QED BY <1>1 DEF TableIsRecent
  <2> QED BY <1>1, <2>1
<1>7. AgesOK(since')
  <2>1. \A k \in DOMAIN since' : since'[k] \in 0..TTL
    <3> HIDE DEF new
    <3> QED BY <1>2 DEF TableIsRecent, AgesOK
  <2> QED BY <1>2, <2>1 DEF AgesOK
<1>8. \A k : k \in Current' <=> k \in Current \cup new
  BY <1>4 DEF Current
<1>9. \A k : Recent(k)' <=> k \in Current \cup new
  <2>1. \A k : Recent(k)' <=> k \in DOMAIN since' /\ since'[k] < TTL
    BY DEF Recent
  <2>2. \A k \in new : k \in DOMAIN since' /\ since'[k] = 0
    <3> HIDE DEF new
    <3> QED BY <1>2
  <2>3. \A k : k \notin new =>
          (k \in DOMAIN since' /\ since'[k] < TTL <=> k \in DOMAIN since /\ since[k] < TTL)
    <3> HIDE DEF new
    <3> QED BY <1>2
  <2>4. \A k : k \notin new => (Recent(k)' <=> Recent(k))
    <3> HIDE DEF new
    <3> QED BY <2>1, <2>3 DEF Recent
  <2>5. \A k \in new : Recent(k)'
    <3> HIDE DEF new
    <3> QED BY <2>1, <2>2
  <2> HIDE DEF new
  <2> QED BY <1>5, <2>4, <2>5
<1>10. \A k \in Current \cup new : since'[k] = seen'[k]
  <2>1. \A k \in Current : k \in DOMAIN since /\ since[k] = seen[k] /\ k \notin new
    BY DEF TableIsRecent, Recent
  <2> HIDE DEF new
  <2> QED BY <1>2, <1>4, <2>1
<1>11. DOMAIN seen' \subseteq DOMAIN shown'
  <2> HIDE DEF new
  <2> QED BY <1>1, <1>4 DEF TableIsRecent
<1>12. TableIsRecent'
  <2> HIDE DEF new
  <2>1. \A k \in Current' : Recent(k)' /\ since'[k] = seen'[k]
    BY <1>8, <1>9, <1>10
  <2>2. \A k : Recent(k)' => k \in Current'
    BY <1>8, <1>9
  <2> QED BY <1>4, <1>6, <1>7, <1>11, <2>1, <2>2 DEF TableIsRecent, AgesOK
<1>13. DOMAIN shown \cup new = DOMAIN shown \cup keys
  BY DEF TableIsRecent, Current
<1>14. \A k \in DOMAIN shown :
         shown'[k] = IF k \in keys /\ ~Recent(k) THEN shown[k] + 1 ELSE shown[k]
  BY <1>1, <1>5 DEF TableIsRecent
<1> HIDE DEF new
<1> QED BY <1>1, <1>12, <1>13, <1>14

LEMMA StepTable == IInv /\ [Next]_vars => TableIsRecent'
<1> SUFFICES ASSUME TableIsRecent, [Next]_vars PROVE TableIsRecent'
  BY DEF IInv
<1>1. ASSUME NEW r \in Stream, RecordTurn(r) PROVE TableIsRecent'
  <2>1. CASE Recorded(r)
    BY <1>1, <2>1, Remembering DEF RecordTurn
  <2>2. CASE ~Recorded(r)
    BY <1>1, <2>2 DEF RecordTurn, toolEvents, TableIsRecent, Current, Recent
  <2> QED BY <2>1, <2>2
<1>2. CASE UNCHANGED toolEvents
  BY <1>2 DEF toolEvents, TableIsRecent, Current, Recent
<1>3. CASE Tick
  <2>1. seen' = Older(seen) /\ since' = Older(since) /\ shown' = shown
    BY <1>3 DEF Tick
  <2>2. /\ AgesOK(seen') /\ DOMAIN seen' = DOMAIN seen
        /\ \A k \in DOMAIN seen :
             seen'[k] = IF seen[k] < TTL THEN seen[k] + 1 ELSE TTL
    BY <2>1, OlderAges DEF TableIsRecent
  <2>3. /\ AgesOK(since') /\ DOMAIN since' = DOMAIN since
        /\ \A k \in DOMAIN since :
             since'[k] = IF since[k] < TTL THEN since[k] + 1 ELSE TTL
    BY <2>1, OlderAges DEF TableIsRecent
  <2>4. \A k \in Current' : k \in Current /\ Recent(k)' /\ since'[k] = seen'[k]
    <3> SUFFICES ASSUME NEW k \in DOMAIN seen, seen'[k] < TTL
                 PROVE  k \in Current /\ Recent(k)' /\ since'[k] = seen'[k]
      BY <2>2 DEF Current
    <3>1. k \in Current
      BY <2>2, TTLAssumption DEF Current
    <3>2. k \in DOMAIN since /\ since[k] < TTL /\ since[k] = seen[k]
      BY <3>1 DEF TableIsRecent, Recent
    <3> QED BY <2>2, <2>3, <3>1, <3>2 DEF Recent
  <2>5. ASSUME NEW k, Recent(k)' PROVE k \in Current'
    <3>1. k \in DOMAIN since /\ since'[k] < TTL
      BY <2>3, <2>5 DEF Recent
    <3>2. Recent(k)
      BY <2>3, <3>1, TTLAssumption DEF Recent
    <3>3. k \in DOMAIN seen /\ since[k] = seen[k]
      BY <3>2 DEF TableIsRecent, Current
    <3> QED BY <2>2, <2>3, <3>1, <3>3 DEF Current
  <2> QED BY <2>1, <2>2, <2>3, <2>4, <2>5 DEF TableIsRecent, AgesOK
<1>4. CASE Crash
  <2>1. seen' = <<>> /\ since' = <<>> /\ shown' = shown
    BY <1>4 DEF Crash
  <2> QED BY <2>1 DEF TableIsRecent, AgesOK, Current, Recent
<1> QED
  BY <1>1, <1>2, <1>3, <1>4
       DEF Next, Open, RequestHeaders, RequestBody, Admit, RefusalReply,
           TakeReply,
         ResponseHeaders, ResponseBody, EndOfStream, Close, ReplyFails, CleanUp,
         vars, shared

LEMMA StepRequests == IInv /\ [Next]_vars => RequestsOK'
<1> SUFFICES ASSUME TypesOK, \A r \in Stream : StreamInv(r), RequestsOK, [Next]_vars
             PROVE  RequestsOK'
  BY DEF IInv, LocalsOK
<1> USE CrashAssumption, TTLAssumption
<1>1. AgesOK(request_state') /\ DOMAIN request_state' \subseteq RequestId
  <2>1. ASSUME NEW r \in Stream, NEW kind \in RequestKind, NEW over \in BOOLEAN,
             RequestBody(r, kind, over)
        PROVE  AgesOK(request_state') /\ DOMAIN request_state' \subseteq RequestId
    <3>1. request_id[r] \in RequestId
      BY <2>1 DEF RequestBody, StreamInv, Identified
    <3>2. \/ request_state' = request_state
          \/ request_state' = Entered(request_state, request_id[r])
      BY <2>1 DEF RequestBody, Admit
    <3> QED BY <3>1, <3>2 DEF RequestsOK, AgesOK, Entered
  <2>2. ASSUME NEW keys, request_state' = Without(request_state, keys)
        PROVE  AgesOK(request_state') /\ DOMAIN request_state' \subseteq RequestId
    BY <2>2 DEF Without, RequestsOK, AgesOK
  <2>3. CASE Tick
    BY <2>3, OlderAges DEF Tick, RequestsOK
  <2>4. CASE Crash
    BY <2>4 DEF Crash, AgesOK
  <2>5. CASE UNCHANGED request_state
    BY <2>5 DEF RequestsOK
  <2> QED
    BY <2>1, <2>2, <2>3, <2>4, <2>5
       DEF Next, Open, RequestHeaders, RefusalReply, TakeReply,
           ResponseHeaders, ResponseBody, EndOfStream, Close, ReplyFails, CleanUp,
           vars, shared
<1>2. exchanges' \in 0..MaxExchanges
  <2>1. ASSUME NEW r \in Stream, Open(r) PROVE exchanges' \in 0..MaxExchanges
    BY <2>1 DEF Open, RequestsOK
  <2>2. (\E r \in Stream : Open(r)) \/ exchanges' = exchanges
    BY
       DEF Next, RequestHeaders, RequestBody, RefusalReply, TakeReply,
           ResponseHeaders,
           ResponseBody, EndOfStream, Close, ReplyFails, CleanUp, Tick, Crash, vars
  <2> QED BY <2>1, <2>2 DEF RequestsOK
<1>3. crashes' \in 0..MaxCrashes
  <2>1. CASE Crash
    BY <2>1 DEF Crash, RequestsOK
  <2>2. Crash \/ crashes' = crashes
    BY
       DEF Next, RequestHeaders, RequestBody, RefusalReply, TakeReply,
           ResponseHeaders,
           ResponseBody, EndOfStream, Close, ReplyFails, CleanUp, Tick, Open, vars
  <2> QED BY <2>1, <2>2 DEF RequestsOK
<1>4. holding' \subseteq Stream
  BY DEF Next, Open, RequestHeaders, RequestBody, Admit, RefusalReply, TakeReply,
         ResponseHeaders, ResponseBody, EndOfStream, Close, ReplyFails, CleanUp,
         Tick, Crash, vars, RequestsOK
<1> QED BY <1>1, <1>2, <1>3, <1>4 DEF RequestsOK

-----------------------------------------------------------------------------
LEMMA Invariance == Spec => []IInv
<1>1. IInv /\ [Next]_vars => IInv'
  BY StepTypes, StepFunctions, StepStreams, StepTable, StepRequests DEF IInv, LocalsOK
<1> QED BY Initially, <1>1, PTL DEF Spec

(* Every variable keeps its type: replies never exceed the channel.        *)
THEOREM TypeCorrect == Spec => []TypeOK
<1>1. ASSUME IInv PROVE TypeOK
  <2>1. TypesOK /\ holding \subseteq Stream /\ RequestsOK /\ AgesOK(seen)
    BY <1>1 DEF IInv, LocalsOK, RequestsOK, TableIsRecent
  <2>2. Range(request_state) \cup Range(seen) \subseteq 0..TTL
    BY <2>1 DEF RequestsOK, AgesOK, Range
  <2> QED BY <2>1, <2>2 DEF TypeOK, TypesOK, RequestsOK
<1> QED BY <1>1, Invariance, PTL

\* What finish makes of an exchange is what its lines make one by one, and
\* a response that is whole does not fail.
LEMMA FinishedByLines ==
  ASSUME LocalsOK, NEW r \in Stream, StreamInv(r), NoneMalformed(answer[r].lines)
  PROVE  /\ ~Unfinished(r) => TurnOf(r) = SummarizeTurn(request[r], Reference(r))
         /\ finalized[r] /\ answer[r].total % Pieces # 1 => ~Unfinished(r)
<1> DEFINE lines == answer[r].lines
           acc == Finish(summary[r], buffer[r], lines)
<1>1. ASSUME acc = Reference(r)
      PROVE  TurnOf(r) = SummarizeTurn(request[r], Reference(r))
  BY <1>1 DEF TurnOf
<1>2. CASE buffer[r] = NewBuffer /\ summary[r] = Reference(r)
  <2>1. BufferEmpty(buffer[r])
    BY <1>2 DEF BufferEmpty, NewBuffer, Pieces
  <2> QED BY <1>1, <1>2, <2>1 DEF Finish, FinishFails, Unfinished
<1>3. CASE Unanswered(r)
  BY <1>2, <1>3 DEF Unanswered, Reference
<1>4. CASE Answered(r) /\ ~is_sse[r]
  <2>1. buffer[r] = NewBuffer /\ buffer[r].taken = 0
    BY <1>4 DEF Answered, NewBuffer
  <2>2. summary[r] = HeadersOf(r)
    BY <1>4, <2>1, ProcessOneMore DEF Answered
  <2>3. CASE answer[r] = NoAnswer
    <3>1. ApplyHeaders(NewSummary, None, None) = NewSummary
      BY DEF ApplyHeaders, OrElse, NewSummary
    <3>2. HeadersOf(r) = NewSummary
      BY <2>3, <3>1 DEF HeadersOf, NoAnswer
    <3> QED BY <1>2, <2>1, <2>2, <2>3, <3>2 DEF Reference
  <2>4. CASE answer[r] # NoAnswer
    BY <1>2, <1>4, <2>1, <2>2, <2>4 DEF Reference, HeadersOf
  <2> QED BY <2>3, <2>4
<1>5. CASE Answered(r) /\ is_sse[r]
  <2>1. answer[r] \in Answer /\ answer[r].status = 200 /\ answer[r] # NoAnswer
    <3>1. answer[r].status = 200
      BY <1>5, Zenon DEF Answered, IsSse
    <3> QED BY <1>5, <3>1, NoneAssumption DEF Answered, NoAnswer
  <2>2. /\ lines \in Seq(Range(lines)) /\ answer[r].total <= Pieces * Len(lines)
        /\ answer[r].total \in Nat
    BY <2>1, AnswersAssumption
  <2>3. Len(lines) \in Nat
    BY <2>2, LenProperties
  <2>4. buffer[r].received \in Nat /\ buffer[r].taken \in Nat
    BY DEF LocalsOK, TypesOK
  <2>5. /\ buffer[r].received <= Pieces * Len(lines)
        /\ Pieces * buffer[r].taken <= buffer[r].received
        /\ Emptied(buffer[r].taken, buffer[r].received, lines)
        /\ summary[r] = ProcessLines(HeadersOf(r), lines, 1, buffer[r].taken)
        /\ finalized[r] => buffer[r].received = answer[r].total
    BY <1>5, <2>2, <2>3, <2>4 DEF Answered, Pieces
  <2>6. Reference(r)
          = ProcessLines(HeadersOf(r), lines, 1, WholeLines(buffer[r].received))
    BY <1>5, <2>1 DEF Reference, HeadersOf
  <2> HIDE DEF lines
  <2>7. /\ ~FinishFails(buffer[r], lines)
             => Finish(summary[r], buffer[r], lines) = Reference(r)
        /\ buffer[r].received % Pieces # 1 => ~FinishFails(buffer[r], lines)
    <3>1. NoneMalformed(lines)
      BY DEF lines
    <3> QED BY <2>2, <2>4, <2>5, <2>6, <3>1, FinishIsWhole
  <2> QED BY <1>1, <2>5, <2>7 DEF Unfinished, lines
<1> QED BY <1>3, <1>4, <1>5 DEF StreamInv, Accumulates

(* Wherever the chunks of a body end, the turn is that of its lines, taken *)
(* one after the other, and no complete line stays in the buffer.          *)
THEOREM TurnsAreWhatArrived == Spec => []TurnsSumUpWhatArrived
<1>1. IInv => LeftoverBehindMalformed
  <2> SUFFICES ASSUME IInv, NEW r \in Stream,
                      buffer[r].received >= Pieces * (buffer[r].taken + 1)
               PROVE  /\ buffer[r].taken > 0
                      /\ answer[r].lines[buffer[r].taken].kind = "malformed"
    BY DEF LeftoverBehindMalformed
  <2>1. ~Unanswered(r)
    BY DEF Unanswered, NewBuffer, Pieces
  <2> QED BY <2>1 DEF IInv, StreamInv, Accumulates, Answered, Emptied
<1>2. ASSUME IInv, NEW r \in Stream, turn[r] # <<>>, NoneMalformed(answer[r].lines)
      PROVE  turn[r] = <<SummarizeTurn(request[r], Reference(r))>>
  BY <1>2, FinishedByLines DEF IInv, StreamInv, TurnIsDue
<1>3. IInv => TurnsSumUpWhatArrived
  BY <1>1, <1>2 DEF TurnsSumUpWhatArrived
<1> QED BY <1>3, Invariance, PTL

(* A response that came to its end is a turn, whoever cleaned up in the    *)
(* meantime, unless it is malformed, cut or wide.                          *)
THEOREM WholeIsRecorded == Spec => []WholeResponsesRecorded
<1>1. ASSUME IInv, NEW r \in Stream, admitted[r], finalized[r],
             NoneMalformed(answer[r].lines), answer[r].total % Pieces # 1,
             ~Panics(Reference(r).tools)
      PROVE  turn[r] # <<>>
  <2>1. ~Unfinished(r) /\ TurnOf(r) = SummarizeTurn(request[r], Reference(r))
    BY <1>1, FinishedByLines DEF IInv
  <2>2. TurnOf(r).tools = Reference(r).tools
    BY <2>1 DEF SummarizeTurn
  <2>3. Recorded(r)
    BY <1>1, <2>1, <2>2 DEF Recorded
  <2> QED BY <1>1, <2>3 DEF IInv, StreamInv, TurnIsDue
<1>2. IInv => WholeResponsesRecorded
  BY <1>1 DEF WholeResponsesRecorded
<1> QED BY <1>2, Invariance, PTL

\* Only the end of an exchange makes a turn of it.
LEMMA TurnStep ==
  ASSUME IInv, Next, NEW r \in Stream, turn'[r] # turn[r], turn'[r] # <<>>
  PROVE  /\ turn[r] = <<>> /\ at[r] # "refused"
         /\ RecordTurn(r) /\ turn'[r] = <<TurnOf(r)>> /\ Recorded(r)
<1>0. LocalsOK /\ \A q \in Stream : StreamInv(q)
  BY DEF IInv
<1>1. EndOfStream(r) \/ Close(r)
  <2>1. ASSUME NEW q \in Stream, q # r,
               \/ Open(q)
               \/ \E id \in RequestId, open \in BOOLEAN : RequestHeaders(q, id, open)
               \/ \E kind \in RequestKind, over \in BOOLEAN : RequestBody(q, kind, over)
               \/ RefusalReply(q) \/ TakeReply(q)
               \/ \E reply \in Answer : ResponseHeaders(q, reply)
               \/ \E count \in 1..answer[q].total : ResponseBody(q, count)
               \/ EndOfStream(q) \/ Close(q) \/ ReplyFails(q)
        PROVE  FALSE
    BY <1>0, <2>1, OthersSame DEF Same
  <2>2. CASE Open(r)
    BY <1>0, <2>2 DEF Open, LocalsOK, FunctionsOK, OnStreams
  <2>3. CASE CleanUp \/ Tick \/ Crash
    BY <2>3 DEF CleanUp, Tick, Crash, locals
  <2>4. CASE \/ \E id \in RequestId, open \in BOOLEAN : RequestHeaders(r, id, open)
             \/ \E kind \in RequestKind, over \in BOOLEAN : RequestBody(r, kind, over)
             \/ RefusalReply(r) \/ TakeReply(r)
             \/ \E reply \in Answer : ResponseHeaders(r, reply)
             \/ \E count \in 1..answer[r].total : ResponseBody(r, count)
             \/ ReplyFails(r)
    BY <2>4
       DEF RequestHeaders, RequestBody, RefusalReply, TakeReply,
           ResponseHeaders,
                ResponseBody, ReplyFails, locals
  <2> QED BY <2>1, <2>2, <2>3, <2>4 DEF Next
<1>2. RecordTurn(r) /\ at[r] # "over" /\ ~finalized[r]
  BY <1>1 DEF EndOfStream, Close
<1>3. turn[r] = <<>>
  BY <1>0, <1>2 DEF StreamInv, TurnIsDue
<1>4. turn'[r] = <<TurnOf(r)>> /\ Recorded(r)
  BY <1>0, <1>2, <1>3, Recording DEF LocalsOK, FunctionsOK
<1>5. at[r] # "refused"
  BY <1>0, <1>4 DEF Recorded, StreamInv, Identified
<1> QED BY <1>2, <1>3, <1>4, <1>5

(* An exchange is told once: its turn, and each of its tool events unless  *)
(* the same one was told within the time to live.                          *)
THEOREM AnnouncedOnce == Spec => ExchangesAreAnnouncedOnce
<1>1. IInv /\ [Next]_vars
        => [\A r \in Stream :
              (turn'[r] # turn[r] /\ turn'[r] # <<>>)
                => turn[r] = <<>> /\ at[r] # "refused"]_vars
  BY TurnStep
<1>2. IInv /\ [Next]_vars
        => [\A r \in Stream :
              (turn'[r] # turn[r] /\ turn'[r] # <<>>)
                => DOMAIN shown' = DOMAIN shown \cup KeysOf(Last(turn'[r]))
                   /\ \A k \in DOMAIN shown :
                        shown'[k] = IF k \in KeysOf(Last(turn'[r])) /\ ~Recent(k)
                                      THEN shown[k] + 1 ELSE shown[k]]_vars
  <2> SUFFICES ASSUME IInv, Next, NEW r \in Stream, turn'[r] # turn[r], turn'[r] # <<>>
               PROVE  LET keys == KeysOf(Last(turn'[r])) IN
                      /\ DOMAIN shown' = DOMAIN shown \cup keys
                      /\ \A k \in DOMAIN shown :
                           shown'[k] = IF k \in keys /\ ~Recent(k)
                                         THEN shown[k] + 1 ELSE shown[k]
    OBVIOUS
  <2>1. RecordTurn(r) /\ turn'[r] = <<TurnOf(r)>> /\ Recorded(r)
    BY TurnStep
  <2>2. Last(turn'[r]) = TurnOf(r)
    BY <2>1 DEF Last
  <2>3. RememberTools(KeysOf(TurnOf(r)))
    BY <2>1 DEF RecordTurn
  <2>4. TableIsRecent
    BY DEF IInv
  <2> QED BY <2>2, <2>3, <2>4, Remembering
<1> QED
  BY <1>1, <1>2, Invariance, PTL
       DEF Spec, ExchangesAreAnnouncedOnce, OneTurnPerExchange,
           ToolUsesDeduplicated

-----------------------------------------------------------------------------
\* Picked has what the sequence has at the places, in order.
PickedAs(r, s, D) ==
  \E place :
    /\ \A n \in DOMAIN r : place[n] \in D /\ r[n] = s[place[n]]
    /\ \A m, n \in DOMAIN r : m < n => place[m] < place[n]
    /\ \A i \in D : \E n \in DOMAIN r : place[n] = i

LEMMA PickedIs ==
  ASSUME NEW S, NEW s \in Seq(S), NEW D, D \subseteq DOMAIN s
  PROVE  Picked(s, D) \in Seq(S) /\ PickedAs(Picked(s, D), s, D)
<1>1. D \subseteq Nat /\ IsFiniteSet(D)
  <2>1. DOMAIN s = 1..Len(s) /\ Len(s) \in Nat
    OBVIOUS
  <2>2. IsFiniteSet(1..Len(s))
    BY <2>1, FS_Interval
  <2> QED BY <2>1, <2>2, FS_Subset
<1> DEFINE size == Cardinality(D)
<1>2. PICK place : place = Ranked(D)
  OBVIOUS
<1>3. /\ \A n \in 1..size : place[n] \in D
      /\ \A m, n \in 1..size : m < n => place[m] < place[n]
      /\ \A i \in D : \E n \in 1..size : place[n] = i
  BY <1>1, <1>2, Ranks
<1>4. Picked(s, D) = [n \in 1..size |-> s[place[n]]]
  BY <1>2 DEF Picked, Ranked
<1>5. size \in Nat
  BY <1>1, FS_CardinalityType
<1> HIDE DEF size
<1>6. \A n \in 1..size : s[place[n]] \in S
  BY <1>3
<1>7. PICK r : r = [n \in 1..size |-> s[place[n]]]
  OBVIOUS
<1>8. r \in Seq(S) /\ DOMAIN r = 1..size
  BY <1>5, <1>6, <1>7
<1>9. PickedAs(r, s, D)
  BY <1>3, <1>7, <1>8 DEF PickedAs
<1> QED BY <1>4, <1>7, <1>8, <1>9

-----------------------------------------------------------------------------
(* The run gate.  What is on the way to the database is not in it, and what *)
(* of the child's session is on the way or newer than the pre-check is the  *)
(* child's, if nothing of that session was on the way when the run began.   *)

DbCommand == [op : {"turn", "diagnosis"}, turn : Nat, session : Session]

\* What the writer has and gets: a turn once, and not again.
WriterOK ==
  /\ turns \in Seq(Session) /\ rows \in Seq(Nat) /\ queue \in Seq(DbCommand)
  /\ \A i \in DOMAIN rows : rows[i] \in DOMAIN turns
  /\ \A i \in DOMAIN queue :
       /\ queue[i].turn <= Len(turns)
       /\ queue[i].op = "turn" <=> queue[i].turn # 0
  /\ \A i, j \in DOMAIN queue :
       queue[i].turn # 0 /\ queue[j].turn = queue[i].turn => i = j
  /\ \A i \in DOMAIN queue : \A j \in DOMAIN rows : queue[i].turn # rows[j]

StepsOK ==
  /\ before \in 0..Len(rows)
  /\ scope \in {"session", "prompt", "any"}
  /\ step = "start" => own = {}
  /\ step \in {"start", "checked", "child"} => scope = "any"
  /\ step = "start" => ~settled

OwnOK ==
  /\ \A t \in own : t \in DOMAIN turns /\ turns[t] = Watched
  /\ \A i \in DOMAIN rows : rows[i] \in own => i > before
  /\ settled =>
       /\ \A i \in DOMAIN rows : i > before /\ turns[rows[i]] = Watched => rows[i] \in own
       /\ \A i \in DOMAIN queue :
            queue[i].turn # 0 /\ turns[queue[i].turn] = Watched => queue[i].turn \in own
  /\ step = "done" /\ exit = 0 /\ scope = "session" /\ settled
       => \E i \in DOMAIN rows : rows[i] \in own

GateOK == WriterOK /\ StepsOK /\ OwnOK

-----------------------------------------------------------------------------
(* The feed of a watch client.                                             *)

FeedEvent ==
  [type : {"SessionStart", "CodexTurnSummary", "SessionEnd", "PostmortemReady"},
   session : Session, turn : Nat, turns : Nat,
   status : {"none", "failed", "completed"}]

\* An event of the feed, when ts are the turns.
GoodEvent(e, ts) ==
  /\ e \in FeedEvent
  /\ e.turn # 0 <=> e.type = "CodexTurnSummary"
  /\ e.turn # 0 => e.turn \in DOMAIN ts /\ ts[e.turn] = e.session
  /\ e.type \in {"SessionEnd", "PostmortemReady"} => e.turns > 0
GoodFeed(q, ts) == q \in Seq(FeedEvent) /\ \A i \in DOMAIN q : GoodEvent(q[i], ts)

\* A turn that is about to be published, with its start or without.
GoodTask(k, ts) ==
  /\ k \in [turn : Nat, session : Session, start : BOOLEAN]
  /\ k.turn # 0 /\ k.turn \in DOMAIN ts /\ ts[k.turn] = k.session
TaskTurns == {k.turn : k \in tasks}

FeedsOK ==
  /\ memory \in [Session -> Nat] /\ live \subseteq Session
  /\ begun \in [Session -> [BOOLEAN -> Nat]]
  /\ \A s \in live : begun[s][TRUE] = 0 /\ begun[s][FALSE] = 0 => memory[s] > 0
  /\ \A k \in tasks : GoodTask(k, turns)
  /\ \A k, l \in tasks : k.turn = l.turn => k = l
  /\ GoodFeed(history, turns) /\ GoodFeed(backlog, turns)
  /\ GoodFeed(inbox, turns) /\ GoodFeed(replay, turns) /\ GoodFeed(outgoing, turns)
  /\ stage \in {"down", "subscribed", "loaded", "streaming"}
  /\ stage # "streaming" => outgoing = <<>>
  /\ stage # "loaded" => replay = <<>>
  /\ stage \notin {"subscribed", "loaded"} => backlog = <<>>
  /\ stage = "down" => inbox = <<>>

\* Turns are stored in the order they ended in.
OrderOK ==
  /\ \A i, j \in DOMAIN rows : i < j => rows[i] < rows[j]
  /\ \A i, j \in DOMAIN queue :
       i < j /\ queue[i].turn # 0 /\ queue[j].turn # 0 => queue[i].turn < queue[j].turn
  /\ \A i \in DOMAIN queue : \A j \in DOMAIN rows :
       queue[i].turn # 0 => rows[j] < queue[i].turn

\* What a watch process knows of a session is what it has met of it.
HeardFacts(observed, ended, n, failed) ==
  [block |-> FALSE, cooldown |-> FALSE, unavailable |-> FALSE,
   observed |-> observed, ended |-> ended, mismatch |-> FALSE, issues |-> {},
   signals |-> {}, turns |-> n, failed |-> failed, incomplete |-> 0,
   unknown |-> 0, anomalies |-> 0, fill |-> 0, estimate |-> "absent"]
Heard(f) == f = HeardFacts(f.observed, f.ended, f.turns, f.failed)
Knows(f, mine) ==
  /\ Heard(f) /\ f.observed \in BOOLEAN /\ f.ended \in BOOLEAN
  /\ f.turns \in Nat /\ f.failed \in Nat
  /\ f.failed > 0 <=> \E e \in mine : e.type = "CodexTurnSummary" /\ e.status = "failed"
  /\ f.ended <=> \E e \in mine : e.type \in {"SessionEnd", "PostmortemReady"}
  /\ f.observed <=> mine # {}
  /\ f.turns > 0 <=> \E e \in mine : e.type # "SessionStart"
Heeded(e) ==
  e.type \in {"SessionStart", "CodexTurnSummary", "SessionEnd", "PostmortemReady"}
TrackOK ==
  /\ DOMAIN facts = Session
  /\ \A s \in Session : Knows(facts[s], {e \in met : e.session = s})
  /\ \A e \in met : Heeded(e)

\* No turn comes twice in a feed.
Once(q) ==
  \A i, j \in DOMAIN q : q[i].turn # 0 /\ q[j].turn = q[i].turn => i = j

\* A turn is published once, and a stream may tell it a second time only from
\* the replay.
OnceOK ==
  /\ Once(history) /\ Once(backlog) /\ Once(inbox) /\ Once(replay) /\ Once(outgoing)
  /\ late \subseteq 0..Len(turns) /\ heard \subseteq 1..Len(turns)
  /\ stage \in {"subscribed", "loaded"} => heard = {} /\ twice = {} /\ notices = {}
  /\ \A t \in TaskTurns :
       /\ t \notin TurnsIn(history) \cup TurnsIn(backlog)
       /\ stage # "down" => t \notin late
       /\ stage # "down" /\ t \in heard \cup TurnsIn(outgoing) => t \in replayed
  /\ stage = "loaded" => TurnsIn(replay) \subseteq replayed
  /\ stage = "loaded" /\ ~ShouldLoad => replay = <<>> /\ reach = {}
  /\ stage # "down" =>
       /\ TurnsIn(inbox) \subseteq late \cup {0}
       /\ TurnsIn(backlog) \cap late \subseteq {0}
       /\ TurnsIn(outgoing) \cap late \subseteq replayed \cup {0}
       /\ heard \cap TurnsIn(outgoing) = {}
       /\ heard \cap TurnsIn(inbox) \subseteq replayed
       /\ twice \subseteq replayed \cap late

\* What is on the way to the database is about to be published or was, and the
\* client has it, or gets it, or its replay finds it in the database.
WantedTurn(t) == mode = "session" => turns[t] = Watched
OnTheWay == {queue[i].turn : i \in DOMAIN queue} \ {0}
MeetsOK ==
  /\ OnTheWay \subseteq TaskTurns \cup TurnsIn(history)
  /\ stage # "down" =>
       \A t \in late \ {0} :
         WantedTurn(t) => t \in heard \cup TurnsIn(outgoing) \cup TurnsIn(inbox)
  /\ stage = "subscribed" =>
       OnTheWay \subseteq TaskTurns \cup TurnsIn(backlog) \cup late
  /\ stage \in {"loaded", "streaming"} =>
       /\ \A t \in OnTheWay :
            turns[t] \in reach /\ WantedTurn(t) => t \in TaskTurns \cup late
       /\ \A t \in Stored :
            turns[t] \in reach /\ WantedTurn(t) =>
              t \in heard \cup TurnsIn(replay) \cup TurnsIn(outgoing) \cup TaskTurns \cup late

\* The events of the watched session.
IsTurn(e) == e.turn # 0 /\ e.session = Watched
Tells(q, type) == \E i \in DOMAIN q : q[i].type = type /\ q[i].session = Watched
HasTurn(q) == \E i \in DOMAIN q : IsTurn(q[i])
Noted(type) == \E e \in notices : e.type = type /\ e.session = Watched
Told(type) == Noted(type) \/ Tells(Pending, type)

\* Its start is on its way, or there is none.
Announcing ==
  \/ begun[Watched][TRUE] > 0 \/ \E k \in tasks : k.session = Watched /\ k.start
  \/ Watched \in mute

\* A session with turns in the feed is live, and a live one has a start: in the
\* stream, on its way, or none for want of a prompt.
HeaderOK ==
  /\ HasTurn(history) \/ (\E k \in tasks : k.session = Watched)
       \/ begun[Watched][TRUE] > 0 \/ begun[Watched][FALSE] > 0 => Watched \in live
  /\ mode = "session" =>
       /\ \A q \in {inbox, replay, outgoing} : \A i \in DOMAIN q : q[i].session = Watched
       /\ stage \in {"subscribed", "loaded"} =>
            /\ HasTurn(backlog) \/ HasTurn(inbox) =>
                 Watched \in live \/ Tells(inbox, "SessionEnd")
            /\ HasTurn(replay) => Tells(replay, "SessionStart")
       /\ stage = "streaming" =>
            \/ Told("SessionEnd")
            \/ Told("SessionStart")
            \/ /\ heard # {} \/ HasTurn(Pending) => Watched \in live
               /\ Watched \in live => Announcing

\* The turns that are none behind turn t, or were themselves published late.
Newer(t) == {p \in Nat : t <= p \/ p \in overtaken}

\* The last turn of s in q is one of P.
NoTurn(q, s) == \A i \in DOMAIN q : q[i].turn # 0 => q[i].session # s
Falls(q, s, P) ==
  \E i \in DOMAIN q :
    /\ q[i].turn # 0 /\ q[i].session = s /\ q[i].turn \in P
    /\ \A j \in DOMAIN q : j > i /\ q[j].turn # 0 => q[j].session # s
Shows(q, s, t) ==
  \/ Falls(q, s, Newer(t))
  \/ NoTurn(q, s) /\ s \in DOMAIN panes /\ panes[s].turn \in Newer(t)

\* What was published before the client subscribed is none ahead of what was
\* published since; and for each turn that is stored or was published since, the
\* last that the client has or gets of its session is none behind it.
PanesOK ==
  /\ DOMAIN panes \subseteq Session /\ IsFiniteSet(DOMAIN panes)
  /\ \A s \in DOMAIN panes : panes[s] \in Pane
  /\ mode # "recent" => DOMAIN panes = {}
  /\ stage # "down" =>
       \A t \in DOMAIN turns : t \notin late \cup TaskTurns =>
         \A u \in late \ {0} : turns[u] = turns[t] => u \in Newer(t)
  /\ mode = "recent" =>
       /\ stage \in {"subscribed", "loaded"} =>
            \A t \in late \ {0} : Falls(inbox, turns[t], Newer(t))
       /\ stage = "loaded" =>
            \A t \in (Stored \cup late) \ {0} : turns[t] \in reach =>
              t \in TaskTurns \/ Falls(replay \o inbox, turns[t], Newer(t))
       /\ stage = "streaming" =>
            \A t \in (Stored \cup late) \ {0} :
              turns[t] \in reach /\ (turns[t] \in DOMAIN panes \/ RoomForPane) =>
                t \in TaskTurns \/ Shows(Pending, turns[t], t)

FeedOK == FeedsOK /\ OrderOK /\ TrackOK /\ OnceOK /\ MeetsOK /\ HeaderOK /\ PanesOK

judged == <<turns, rows, queue, gate>>

LEMMA GateStart == RunInit => GateOK
BY WatchedAssumption DEF RunInit, FeedInit, GateOK, WriterOK, StepsOK, OwnOK

LEMMA SameJudged == GateOK /\ UNCHANGED judged => GateOK'
BY DEF GateOK, WriterOK, StepsOK, OwnOK, judged, gate

LEMMA CrashIsJudged == GateOK /\ CoreCrash /\ UNCHANGED gate => GateOK'
<1> SUFFICES ASSUME GateOK, CoreCrash, UNCHANGED gate PROVE GateOK'
  OBVIOUS
<1>1. queue' = <<>> /\ turns' = turns /\ rows' = rows
  BY DEF CoreCrash
<1>2. WriterOK'
  BY <1>1 DEF GateOK, WriterOK
<1>3. StepsOK' /\ OwnOK'
  BY <1>1 DEF GateOK, StepsOK, OwnOK, gate
<1> QED BY <1>2, <1>3 DEF GateOK

LEMMA EndIsJudged ==
  ASSUME NEW s \in Session, GateOK, EndSession(s), UNCHANGED gate
  PROVE  GateOK'
<1> DEFINE cmd == [op |-> "diagnosis", turn |-> 0, session |-> s]
<1>1. queue' = Append(queue, cmd) /\ turns' = turns /\ rows' = rows
  BY DEF EndSession, finalizing
<1>2. cmd \in DbCommand /\ cmd.op = "diagnosis" /\ cmd.turn = 0
  BY DEF DbCommand
<1> HIDE DEF cmd
<1>3. queue \in Seq(DbCommand)
  BY DEF GateOK, WriterOK
<1>4. /\ queue' \in Seq(DbCommand) /\ Len(queue') = Len(queue) + 1
      /\ DOMAIN queue = 1..Len(queue) /\ DOMAIN queue' = 1..(Len(queue) + 1)
      /\ Len(queue) \in Nat
      /\ \A i \in DOMAIN queue : queue'[i] = queue[i]
      /\ queue'[Len(queue) + 1] = cmd
  BY <1>1, <1>2, <1>3
<1>5. \A i \in DOMAIN queue' : i \in DOMAIN queue \/ queue'[i] = cmd
  BY <1>4
<1>6. WriterOK'
  <2>1. \A i \in DOMAIN queue' :
          /\ queue'[i].turn <= Len(turns)
          /\ queue'[i].op = "turn" <=> queue'[i].turn # 0
    BY <1>2, <1>4, <1>5 DEF GateOK, WriterOK
  <2>2. \A i, j \in DOMAIN queue' :
          queue'[i].turn # 0 /\ queue'[j].turn = queue'[i].turn => i = j
    BY <1>2, <1>4, <1>5 DEF GateOK, WriterOK
  <2>3. \A i \in DOMAIN queue' : \A j \in DOMAIN rows : queue'[i].turn # rows[j]
    BY <1>2, <1>4, <1>5 DEF GateOK, WriterOK
  <2> QED BY <1>1, <1>4, <2>1, <2>2, <2>3 DEF GateOK, WriterOK
<1>7. StepsOK' /\ OwnOK'
  <2>1. \A i \in DOMAIN queue' : queue'[i].turn # 0 => i \in DOMAIN queue /\ queue'[i] = queue[i]
    BY <1>2, <1>4, <1>5
  <2> QED BY <1>1, <2>1 DEF GateOK, StepsOK, OwnOK, gate
<1> QED BY <1>6, <1>7 DEF GateOK

\* A new turn is queued; it is the child's, or of another session, or nothing
\* is said of the session yet.
LEMMA TurnIsJudged ==
  ASSUME NEW s \in Session, NEW start \in BOOLEAN, GateOK, RecordAnswer(s, start)
  PROVE  GateOK'
<1> DEFINE t == Len(turns) + 1
           cmd == [op |-> "turn", turn |-> t, session |-> s]
<1>0. /\ Finalize(s, start) /\ UNCHANGED <<step, plan, before, scope, polls, exit, settled>>
      /\ \/ own' = own /\ (s = Watched => step = "start")
         \/ own' = own \cup {Len(turns')} /\ s = Watched /\ step # "start"
  BY DEF RecordAnswer, Child
<1>1. /\ turns \in Seq(Session) /\ queue \in Seq(DbCommand) /\ rows \in Seq(Nat)
      /\ turns' = Append(turns, s) /\ rows' = rows
  BY <1>0 DEF GateOK, WriterOK, Finalize
<1>2. /\ turns' \in Seq(Session) /\ Len(turns') = t /\ t \in Nat /\ t > Len(turns)
      /\ DOMAIN turns = 1..Len(turns) /\ DOMAIN turns' = 1..t /\ Len(turns) \in Nat
      /\ t \in DOMAIN turns' /\ t \notin DOMAIN turns /\ t # 0
      /\ \A i \in DOMAIN turns : i \in DOMAIN turns' /\ turns'[i] = turns[i]
      /\ turns'[t] = s
  BY <1>1
<1>3. queue' = Append(queue, cmd)
  BY <1>0, <1>2 DEF Finalize
<1>4. cmd \in DbCommand /\ cmd.op = "turn" /\ cmd.turn = t
  BY <1>2 DEF DbCommand
<1> HIDE DEF cmd
<1>5. /\ queue' \in Seq(DbCommand)
      /\ DOMAIN queue = 1..Len(queue) /\ DOMAIN queue' = 1..(Len(queue) + 1)
      /\ Len(queue) \in Nat
      /\ \A i \in DOMAIN queue : queue'[i] = queue[i] /\ queue[i] \in DbCommand
      /\ queue'[Len(queue) + 1] = cmd
  BY <1>1, <1>3, <1>4
<1>6. \A i \in DOMAIN queue' :
        \/ i \in DOMAIN queue /\ queue'[i] = queue[i]
        \/ i = Len(queue) + 1 /\ queue'[i] = cmd
  BY <1>5
<1>7. \A i \in DOMAIN queue :
        /\ queue[i].turn \in Nat /\ queue[i].turn <= Len(turns) /\ queue[i].turn # t
        /\ queue[i].turn # 0 => queue[i].turn \in DOMAIN turns
  BY <1>2, <1>5 DEF DbCommand, GateOK, WriterOK
<1>8. \A i \in DOMAIN rows : rows[i] \in DOMAIN turns /\ rows[i] # t
  BY <1>2 DEF GateOK, WriterOK
<1> HIDE DEF t
<1>9. WriterOK'
  <2>1. \A i \in DOMAIN queue' :
          /\ queue'[i].turn <= Len(turns')
          /\ queue'[i].op = "turn" <=> queue'[i].turn # 0
    <3>1. ASSUME NEW i \in DOMAIN queue PROVE queue[i].turn <= t
      BY <1>2, <1>7
    <3> QED BY <1>2, <1>4, <1>6, <3>1 DEF GateOK, WriterOK
  <2>2. \A i, j \in DOMAIN queue' :
          queue'[i].turn # 0 /\ queue'[j].turn = queue'[i].turn => i = j
    BY <1>4, <1>6, <1>7 DEF GateOK, WriterOK
  <2>3. \A i \in DOMAIN queue' : \A j \in DOMAIN rows : queue'[i].turn # rows[j]
    BY <1>4, <1>6, <1>8 DEF GateOK, WriterOK
  <2> QED BY <1>1, <1>2, <1>5, <1>8, <2>1, <2>2, <2>3 DEF WriterOK
<1>10. StepsOK'
  BY <1>0, <1>1 DEF GateOK, StepsOK
<1>11. OwnOK'
  <2>1. \A i \in DOMAIN rows : rows[i] \in own' <=> rows[i] \in own
    BY <1>0, <1>2, <1>8
  <2>2. \A x \in own' : x \in DOMAIN turns' /\ turns'[x] = Watched
    BY <1>0, <1>2 DEF GateOK, OwnOK
  <2>3. \A i \in DOMAIN rows : turns'[rows[i]] = turns[rows[i]]
    BY <1>2, <1>8
  <2>4. settled => \A i \in DOMAIN queue' :
          queue'[i].turn # 0 /\ turns'[queue'[i].turn] = Watched => queue'[i].turn \in own'
    <3> SUFFICES ASSUME settled, NEW i \in DOMAIN queue', queue'[i].turn # 0,
                        turns'[queue'[i].turn] = Watched
                 PROVE  queue'[i].turn \in own'
      OBVIOUS
    <3>1. CASE i \in DOMAIN queue /\ queue'[i] = queue[i]
      <4>1. turns[queue[i].turn] = Watched
        BY <1>2, <1>7, <3>1
      <4> QED BY <1>0, <3>1, <4>1 DEF GateOK, OwnOK
    <3>2. CASE queue'[i] = cmd
      <4>1. s = Watched
        BY <1>2, <1>4, <3>2
      <4>2. step # "start"
        BY <1>0 DEF GateOK, StepsOK
      <4> QED BY <1>0, <1>2, <1>4, <3>2, <4>1, <4>2
    <3> QED BY <1>6, <3>1, <3>2
  <2>5. \A i \in DOMAIN rows : rows[i] \in own' => i > before
    BY <1>0, <2>1 DEF GateOK, OwnOK
  <2>6. settled => \A i \in DOMAIN rows :
          i > before /\ turns'[rows[i]] = Watched => rows[i] \in own'
    BY <1>0, <2>1, <2>3 DEF GateOK, OwnOK
  <2>7. step = "done" /\ exit = 0 /\ scope = "session" /\ settled
          => \E i \in DOMAIN rows : rows[i] \in own'
    BY <1>0, <2>1 DEF GateOK, OwnOK
  <2> QED BY <1>0, <1>1, <2>2, <2>4, <2>5, <2>6, <2>7 DEF OwnOK
<1> QED BY <1>9, <1>10, <1>11 DEF GateOK

LEMMA CommitIsJudged == GateOK /\ Commit /\ UNCHANGED gate => GateOK'
<1> SUFFICES ASSUME GateOK, Commit, UNCHANGED gate PROVE GateOK'
  OBVIOUS
<1>1. /\ queue \in Seq(DbCommand) /\ queue # <<>> /\ queue' = Tail(queue)
      /\ turns' = turns /\ rows \in Seq(Nat)
  BY DEF Commit, finalizing, GateOK, WriterOK
<1>2. /\ queue' \in Seq(DbCommand) /\ Head(queue) = queue[1] /\ 1 \in DOMAIN queue
      /\ \A i \in DOMAIN queue' : /\ i \in Nat /\ i + 1 \in DOMAIN queue /\ i + 1 # 1
                                  /\ queue'[i] = queue[i + 1]
  BY <1>1
<1>3. CASE queue[1].op # "turn"
  <2>1. rows' = rows
    BY <1>2, <1>3 DEF Commit
  <2>2. WriterOK'
    <3>1. \A i, j \in DOMAIN queue' :
            queue'[i].turn # 0 /\ queue'[j].turn = queue'[i].turn => i = j
      BY <1>2 DEF GateOK, WriterOK
    <3> QED BY <1>1, <1>2, <2>1, <3>1 DEF GateOK, WriterOK
  <2>3. StepsOK' /\ OwnOK'
    <3>1. settled => \A i \in DOMAIN queue' :
            queue'[i].turn # 0 /\ turns[queue'[i].turn] = Watched => queue'[i].turn \in own
      BY <1>2 DEF GateOK, OwnOK
    <3> QED BY <1>1, <2>1, <3>1 DEF GateOK, StepsOK, OwnOK, gate
  <2> QED BY <2>2, <2>3 DEF GateOK
<1>4. CASE queue[1].op = "turn"
  <2> DEFINE t == queue[1].turn
             n == Len(rows) + 1
  <2>1. rows' = Append(rows, t)
    BY <1>2, <1>4 DEF Commit
  <2>2. queue[1] \in DbCommand /\ t \in Nat /\ t # 0 /\ t \in DOMAIN turns
    <3>1. queue[1] \in DbCommand
      BY <1>1, <1>2
    <3>2. t \in Nat /\ t # 0 /\ t <= Len(turns)
      BY <1>2, <1>4, <3>1 DEF GateOK, WriterOK, DbCommand
    <3>3. turns \in Seq(Session)
      BY DEF GateOK, WriterOK
    <3> QED BY <3>1, <3>2, <3>3
  <2>3. /\ rows' \in Seq(Nat) /\ Len(rows') = n /\ n \in Nat /\ Len(rows) \in Nat
        /\ DOMAIN rows = 1..Len(rows) /\ DOMAIN rows' = 1..n
        /\ \A i \in DOMAIN rows : rows'[i] = rows[i] /\ i \in DOMAIN rows'
        /\ rows'[n] = t /\ n \in DOMAIN rows'
    BY <1>1, <2>1, <2>2
  <2>4. \A i \in DOMAIN rows' :
          \/ i \in DOMAIN rows /\ rows'[i] = rows[i]
          \/ i = n /\ rows'[i] = t
    BY <2>3
  <2>5. \A i \in DOMAIN queue' : queue'[i].turn # t
    BY <1>2, <2>2 DEF GateOK, WriterOK
  <2>6. before \in Nat /\ before < n
    BY <2>3 DEF GateOK, StepsOK
  <2> HIDE DEF t, n
  <2>7. WriterOK'
    <3>1. \A i, j \in DOMAIN queue' :
            queue'[i].turn # 0 /\ queue'[j].turn = queue'[i].turn => i = j
      BY <1>2 DEF GateOK, WriterOK
    <3>2. \A i \in DOMAIN rows' : rows'[i] \in DOMAIN turns
      BY <2>2, <2>4 DEF GateOK, WriterOK
    <3>3. \A i \in DOMAIN queue' : \A j \in DOMAIN rows' : queue'[i].turn # rows'[j]
      BY <1>2, <2>4, <2>5 DEF GateOK, WriterOK
    <3>4. \A i \in DOMAIN queue' :
            /\ queue'[i].turn <= Len(turns)
            /\ queue'[i].op = "turn" <=> queue'[i].turn # 0
      BY <1>2 DEF GateOK, WriterOK
    <3> QED BY <1>1, <1>2, <2>3, <3>1, <3>2, <3>3, <3>4 DEF GateOK, WriterOK
  <2>8. StepsOK'
    <3>1. before \in 0..n
      BY <2>3, <2>6
    <3> QED BY <2>3, <3>1 DEF GateOK, StepsOK, gate
  <2>9. OwnOK'
    <3>1. \A i \in DOMAIN rows' : rows'[i] \in own => i > before
      BY <2>3, <2>4, <2>6 DEF GateOK, OwnOK
    <3>2. settled => \A i \in DOMAIN queue' :
            queue'[i].turn # 0 /\ turns[queue'[i].turn] = Watched => queue'[i].turn \in own
      BY <1>2 DEF GateOK, OwnOK
    <3>3. settled => (turns[t] = Watched => t \in own)
      BY <1>2, <2>2 DEF GateOK, OwnOK, t
    <3>4. settled => \A i \in DOMAIN rows' :
            i > before /\ turns[rows'[i]] = Watched => rows'[i] \in own
      BY <2>4, <3>3 DEF GateOK, OwnOK
    <3>5. step = "done" /\ exit = 0 /\ scope = "session" /\ settled
            => \E i \in DOMAIN rows' : rows'[i] \in own
      BY <2>3 DEF GateOK, OwnOK
    <3> QED BY <1>1, <3>1, <3>2, <3>4, <3>5 DEF GateOK, OwnOK, gate
  <2> QED BY <2>7, <2>8, <2>9 DEF GateOK
<1> QED BY <1>3, <1>4

-----------------------------------------------------------------------------
(* The steps of the wrapper.                                               *)

LEMMA PreCheckIsJudged == GateOK /\ PreCheck => GateOK'
<1> SUFFICES ASSUME GateOK, PreCheck PROVE GateOK'
  OBVIOUS
<1>1. /\ turns' = turns /\ rows' = rows /\ queue' = queue
      /\ scope' = scope /\ own' = own /\ own = {} /\ scope = "any" /\ ~settled
  BY DEF PreCheck, PreCheckAfter, feedVars, core, finalizing, GateOK, StepsOK
<1>2. WriterOK'
  BY <1>1 DEF GateOK, WriterOK
<1>3. before' \in 0..Len(rows) /\ before \in 0..Len(rows) /\ step' # "start"
  BY DEF PreCheck, PreCheckAfter, Fail, GateOK, StepsOK, WriterOK
<1>4. StepsOK'
  BY <1>1, <1>3 DEF StepsOK
<1>5. settled' => before' = Len(rows) /\ Settled
  BY <1>1 DEF PreCheck, PreCheckAfter
<1>6. OwnOK'
  <2>1. ASSUME settled', NEW i \in DOMAIN queue, queue[i].turn # 0,
               turns[queue[i].turn] = Watched
        PROVE  FALSE
    <3>1. queue[i].turn \in DOMAIN turns
      <4>1. queue[i] \in DbCommand
        BY DEF GateOK, WriterOK
      <4> QED BY <2>1, <4>1 DEF GateOK, WriterOK, DbCommand
    <3>2. queue[i].turn \in Stored
      BY <1>5, <2>1, <3>1 DEF Settled, Child
    <3> QED BY <3>2 DEF Stored, ToSet, GateOK, WriterOK
  <2>2. settled' => \A i \in DOMAIN rows : ~(i > before')
    BY <1>5 DEF GateOK, WriterOK
  <2> QED BY <1>1, <2>1, <2>2 DEF OwnOK
<1> QED BY <1>2, <1>4, <1>6 DEF GateOK

\* The steps that leave what is known of the child as it is.
LEMMA RestIsJudged ==
  ASSUME GateOK, Launch \/ ChildExits \/ Poll \/ GiveUp
  PROVE  GateOK'
<1>1. /\ turns' = turns /\ rows' = rows /\ queue' = queue
      /\ before' = before /\ own' = own /\ settled' = settled
  BY DEF Launch, ChildExits, Poll, GiveUp, feedVars, core, finalizing
<1>2. WriterOK'
  BY <1>1 DEF GateOK, WriterOK
<1>3. /\ step' \in {"child", "check", "done"} /\ scope' \in {"session", "prompt", "any"}
      /\ step' = "child" => scope' = "any"
  BY DEF Launch, ChildExits, Poll, GiveUp, Fail, GateOK, StepsOK
<1>4. StepsOK'
  BY <1>1, <1>3 DEF GateOK, StepsOK
<1>5. ASSUME step' = "done", exit' = 0, scope' = "session", settled
      PROVE  \E i \in DOMAIN rows : rows[i] \in own
  <2>1. Poll /\ scope = "session" /\ Observed
    <3>1. ~Launch
      BY <1>5 DEF Launch, Fail
    <3>2. ~GiveUp
      BY <1>5 DEF GiveUp, Fail
    <3>3. ~ChildExits
      <4> SUFFICES ASSUME ChildExits PROVE FALSE
        OBVIOUS
      <4>1. scope = "any"
        BY DEF ChildExits, GateOK, StepsOK
      <4>2. scope' = scope
        BY <1>5 DEF ChildExits
      <4> QED BY <1>5, <4>1, <4>2
    <3>4. Poll
      BY <3>1, <3>2, <3>3
    <3>5. Observed
      BY <1>5, <3>4 DEF Poll, Fail
    <3>6. scope' = scope
      BY <3>4 DEF Poll
    <3> QED BY <1>5, <3>4, <3>5, <3>6
  <2>2. PICK i \in (before + 1)..Len(rows) : turns[rows[i]] = Watched
    BY <2>1 DEF Observed, Matching, Child
  <2>3. i \in DOMAIN rows /\ i > before
    BY <2>2 DEF GateOK, WriterOK, StepsOK
  <2> QED BY <1>5, <2>2, <2>3 DEF GateOK, OwnOK
<1>6. OwnOK'
  BY <1>1, <1>5 DEF GateOK, OwnOK
<1> QED BY <1>2, <1>4, <1>6 DEF GateOK

LEMMA RunStepIsJudged == GateOK /\ [RunNext]_runVars => GateOK'
<1> SUFFICES ASSUME GateOK, [RunNext]_runVars PROVE GateOK'
  OBVIOUS
<1> USE DEF judged
<1> USE DEF finalizing
<1>1. ASSUME NEW k \in tasks, PublishStart(k) \/ Publish(k), UNCHANGED gate PROVE GateOK'
  BY <1>1, SameJudged DEF PublishStart, Publish
<1>2. CASE Commit /\ UNCHANGED gate
  BY <1>2, CommitIsJudged
<1>3. CASE CoreCrash /\ UNCHANGED gate
  BY <1>3, CrashIsJudged
<1>4. ASSUME NEW s \in Session, EndSession(s), UNCHANGED gate PROVE GateOK'
  BY <1>4, EndIsJudged
<1>5. ASSUME NEW s \in Session, Timeout(s), UNCHANGED gate PROVE GateOK'
  BY <1>5, SameJudged DEF Timeout
<1>6. ASSUME NEW s \in Session, NEW start \in BOOLEAN, RecordAnswer(s, start)
      PROVE  GateOK'
  BY <1>6, TurnIsJudged
<1>7. ASSUME NEW s \in Session, NEW missed \in BOOLEAN, NEW prompted \in BOOLEAN,
             AnswerEnds(s, missed, prompted)
      PROVE  GateOK'
  BY <1>7, SameJudged DEF AnswerEnds, Enter
<1>8. CASE Listen /\ UNCHANGED gate
  BY <1>8, SameJudged DEF Listen, LoadReplay, OpenStream, Reconnect, Subscribe,
                          HearPlainly, HearInPanes, Send, core
<1>9. CASE (Disconnect \/ Expire) /\ UNCHANGED gate
  BY <1>9, SameJudged DEF Disconnect, Expire, core
<1>10. CASE PreCheck
  BY <1>10, PreCheckIsJudged
<1>11. CASE Launch \/ ChildExits \/ Poll \/ GiveUp
  BY <1>11, RestIsJudged
<1>12. CASE UNCHANGED runVars
  BY <1>12, SameJudged DEF runVars, feedVars, core
<1> QED BY <1>1, <1>2, <1>3, <1>4, <1>5, <1>6, <1>7, <1>8, <1>9, <1>10, <1>11, <1>12
        DEF RunNext

LEMMA GateOKJudges == GateOK => GateJudgesTheChild
<1> SUFFICES ASSUME GateOK PROVE GateJudgesTheChild
  OBVIOUS
<1>1. \A t : t \in Stored <=> \E i \in DOMAIN rows : rows[i] = t
  BY DEF Stored, ToSet
<1>2. ASSUME step = "check", own \cap Stored # {},
             ~(scope = "prompt" /\ plan.hint # "prompt")
      PROVE  Matching(before) # {}
  <2>1. PICK i \in DOMAIN rows : rows[i] \in own
    BY <1>1, <1>2
  <2>2. i > before /\ turns[rows[i]] = Watched
    BY <2>1 DEF GateOK, OwnOK
  <2>3. i \in (before + 1)..Len(rows)
    BY <2>2 DEF GateOK, WriterOK, StepsOK
  <2>4. i \in Matching(before)
    BY <1>2, <2>2, <2>3, PromptedAssumption DEF Matching, Child, GateOK, StepsOK
  <2> QED BY <2>4
<1>3. step = "done" /\ exit = 0 /\ scope = "session" /\ settled => own \cap Stored # {}
  BY <1>1 DEF GateOK, OwnOK
<1> QED BY <1>2, <1>3 DEF GateJudgesTheChild, GateOK, OwnOK

\* What the post-check looks for is the child's, and a run that passes for a
\* known session had a turn of its own, however its requests, the writer and
\* the sessions next to it interleave.
THEOREM GateJudges == RunSpec => []GateJudgesTheChild
<1>1. RunInit => GateOK
  BY GateStart
<1>2. GateOK /\ [RunNext]_runVars => GateOK'
  BY RunStepIsJudged
<1>3. GateOK => GateJudgesTheChild
  BY GateOKJudges
<1> QED BY <1>1, <1>2, <1>3, PTL DEF RunSpec

-----------------------------------------------------------------------------
(* Sequences of events.                                                    *)

LEMMA ConcatIs ==
  ASSUME NEW S, NEW a \in Seq(S), NEW b \in Seq(S)
  PROVE  /\ a \o b \in Seq(S) /\ Len(a) \in Nat
         /\ \A i \in DOMAIN a : i \in DOMAIN (a \o b) /\ (a \o b)[i] = a[i] /\ i <= Len(a)
         /\ \A i \in DOMAIN b :
              Len(a) + i \in DOMAIN (a \o b) /\ (a \o b)[Len(a) + i] = b[i]
         /\ \A i \in DOMAIN (a \o b) :
              \/ i \in DOMAIN a /\ i <= Len(a) /\ (a \o b)[i] = a[i]
              \/ i > Len(a) /\ i - Len(a) \in DOMAIN b /\ (a \o b)[i] = b[i - Len(a)]
<1>1. /\ a \o b \in Seq(S) /\ Len(a) \in Nat /\ Len(b) \in Nat
      /\ DOMAIN a = 1..Len(a) /\ DOMAIN b = 1..Len(b)
      /\ DOMAIN (a \o b) = 1..(Len(a) + Len(b))
      /\ \A i \in 1..(Len(a) + Len(b)) :
           (a \o b)[i] = IF i <= Len(a) THEN a[i] ELSE b[i - Len(a)]
  BY ConcatProperties
<1> DEFINE ab == a \o b
<1>2. /\ ab \in Seq(S) /\ DOMAIN ab = 1..(Len(a) + Len(b))
      /\ \A i \in 1..(Len(a) + Len(b)) : ab[i] = IF i <= Len(a) THEN a[i] ELSE b[i - Len(a)]
  BY <1>1
<1> HIDE DEF ab
<1>3. \A i \in DOMAIN a : i \in DOMAIN ab /\ ab[i] = a[i] /\ i <= Len(a)
  BY <1>1, <1>2
<1>4. ASSUME NEW i \in DOMAIN b PROVE Len(a) + i \in DOMAIN ab /\ ab[Len(a) + i] = b[i]
  <2>1. i \in 1..Len(b)
    BY <1>1
  <2>2. /\ Len(a) + i \in 1..(Len(a) + Len(b)) /\ ~(Len(a) + i <= Len(a))
        /\ (Len(a) + i) - Len(a) = i
    BY <1>1, <2>1
  <2> QED BY <1>2, <2>2
<1>5. ASSUME NEW i \in DOMAIN ab
      PROVE  \/ i \in DOMAIN a /\ i <= Len(a) /\ ab[i] = a[i]
             \/ i > Len(a) /\ i - Len(a) \in DOMAIN b /\ ab[i] = b[i - Len(a)]
  <2>1. i \in 1..(Len(a) + Len(b))
    BY <1>2
  <2>2. CASE i <= Len(a)
    BY <1>1, <1>2, <2>1, <2>2
  <2>3. CASE ~(i <= Len(a))
    BY <1>1, <1>2, <2>1, <2>3
  <2> QED BY <2>2, <2>3
<1> QED BY <1>1, <1>3, <1>4, <1>5 DEF ab

LEMMA TailIs ==
  ASSUME NEW S, NEW q \in Seq(S), q # <<>>
  PROVE  /\ Tail(q) \in Seq(S) /\ Head(q) \in S /\ Head(q) = q[1] /\ 1 \in DOMAIN q
         /\ \A i \in DOMAIN Tail(q) :
              i \in Nat /\ i > 0 /\ i + 1 \in DOMAIN q /\ Tail(q)[i] = q[i + 1]
         /\ \A i \in DOMAIN q : i \in Nat /\ i > 0 /\ (i = 1 \/ (i - 1 \in DOMAIN Tail(q) /\ Tail(q)[i - 1] = q[i]))
OBVIOUS

LEMMA GoodNone == \A ts : GoodFeed(<<>>, ts)
BY DEF GoodFeed

LEMMA GoodConcat ==
  ASSUME NEW ts, NEW a, NEW b, GoodFeed(a, ts), GoodFeed(b, ts)
  PROVE  GoodFeed(a \o b, ts)
<1>1. a \in Seq(FeedEvent) /\ b \in Seq(FeedEvent)
  BY DEF GoodFeed
<1>2. \A i \in DOMAIN (a \o b) :
        \/ i \in DOMAIN a /\ (a \o b)[i] = a[i]
        \/ i - Len(a) \in DOMAIN b /\ (a \o b)[i] = b[i - Len(a)]
  BY <1>1, ConcatIs
<1>3. a \o b \in Seq(FeedEvent)
  BY <1>1, ConcatIs
<1> QED BY <1>2, <1>3 DEF GoodFeed

LEMMA GoodTail ==
  ASSUME NEW ts, NEW q, GoodFeed(q, ts), q # <<>>
  PROVE  GoodFeed(Tail(q), ts) /\ GoodEvent(Head(q), ts)
<1>1. q \in Seq(FeedEvent)
  BY DEF GoodFeed
<1>2. /\ Tail(q) \in Seq(FeedEvent) /\ Head(q) = q[1] /\ 1 \in DOMAIN q
      /\ \A i \in DOMAIN Tail(q) : i + 1 \in DOMAIN q /\ Tail(q)[i] = q[i + 1]
  BY <1>1, TailIs
<1> QED BY <1>2 DEF GoodFeed

LEMMA GoodOne ==
  ASSUME NEW ts, NEW e, GoodEvent(e, ts)
  PROVE  GoodFeed(<<e>>, ts)
<1>1. e \in FeedEvent
  BY DEF GoodEvent
<1>2. <<e>> \in Seq(FeedEvent) /\ \A i \in DOMAIN <<e>> : <<e>>[i] = e
  BY <1>1
<1> QED BY <1>2 DEF GoodFeed

LEMMA GoodPicked ==
  ASSUME NEW ts, NEW q, GoodFeed(q, ts), NEW D, D \subseteq DOMAIN q
  PROVE  GoodFeed(Picked(q, D), ts)
<1>1. Picked(q, D) \in Seq(FeedEvent) /\ PickedAs(Picked(q, D), q, D)
  BY PickedIs DEF GoodFeed
<1> QED BY <1>1 DEF PickedAs, GoodFeed

LEMMA GoodGrows ==
  ASSUME NEW ts \in Seq(Session), NEW s \in Session, NEW q, GoodFeed(q, ts)
  PROVE  GoodFeed(q, Append(ts, s))
<1>1. \A i \in DOMAIN ts : i \in DOMAIN Append(ts, s) /\ Append(ts, s)[i] = ts[i]
  OBVIOUS
<1> QED BY <1>1 DEF GoodFeed, GoodEvent

LEMMA GoodSummary ==
  ASSUME NEW ts, NEW s \in Session, NEW t \in Nat, t # 0, t \in DOMAIN ts, ts[t] = s
  PROVE  GoodEvent(Summary(s, t), ts)
BY DEF GoodEvent, FeedEvent, Summary, Event, Status

LEMMA GoodStart ==
  ASSUME NEW ts, NEW s \in Session
  PROVE  GoodEvent(Start(s), ts)
BY DEF GoodEvent, FeedEvent, Start, Event, Status

LEMMA GoodNotice ==
  ASSUME NEW ts, NEW s \in Session, NEW n \in Nat, n > 0
  PROVE  /\ GoodEvent(Event("SessionEnd", s, 0, n), ts)
         /\ GoodEvent(Event("PostmortemReady", s, 0, n), ts)
BY DEF GoodEvent, FeedEvent, Event, Status

-----------------------------------------------------------------------------
(* The replay: what is read from the rows.                                 *)

\* The turns of a session among the rows, in order.
LEMMA OfRows ==
  ASSUME WriterOK, OrderOK, NEW s
  PROVE  /\ Of(rows, s) \in Seq(Nat)
         /\ \A k \in DOMAIN Of(rows, s) :
              /\ Of(rows, s)[k] # 0 /\ Of(rows, s)[k] \in DOMAIN turns
              /\ turns[Of(rows, s)[k]] = s /\ Of(rows, s)[k] \in Stored
         /\ \A k, l \in DOMAIN Of(rows, s) : k < l => Of(rows, s)[k] < Of(rows, s)[l]
         /\ \A t \in Stored : turns[t] = s => \E k \in DOMAIN Of(rows, s) : Of(rows, s)[k] = t
<1> DEFINE D == {i \in DOMAIN rows : turns[rows[i]] = s}
           mine == Picked(rows, D)
<1>1. Of(rows, s) = mine
  BY DEF Of
<1>2. rows \in Seq(Nat) /\ D \subseteq DOMAIN rows
  BY DEF WriterOK
<1>3. mine \in Seq(Nat) /\ PickedAs(mine, rows, D)
  <2> HIDE DEF D
  <2> QED BY <1>2, PickedIs
<1> HIDE DEF mine
<1>4. PICK place :
        /\ \A n \in DOMAIN mine : place[n] \in D /\ mine[n] = rows[place[n]]
        /\ \A m, n \in DOMAIN mine : m < n => place[m] < place[n]
        /\ \A i \in D : \E n \in DOMAIN mine : place[n] = i
  BY <1>3 DEF PickedAs
<1>5. \A k \in DOMAIN mine :
        /\ mine[k] # 0 /\ mine[k] \in DOMAIN turns
        /\ turns[mine[k]] = s /\ mine[k] \in Stored
  <2> TAKE k \in DOMAIN mine
  <2>1. place[k] \in DOMAIN rows /\ mine[k] = rows[place[k]] /\ turns[rows[place[k]]] = s
    BY <1>4
  <2>2. rows[place[k]] \in DOMAIN turns /\ rows[place[k]] \in Stored
    BY <2>1 DEF WriterOK, Stored, ToSet
  <2>3. 0 \notin DOMAIN turns
    BY DEF WriterOK
  <2> QED BY <2>1, <2>2, <2>3
<1>6. \A k, l \in DOMAIN mine : k < l => mine[k] < mine[l]
  <2> TAKE k, l \in DOMAIN mine
  <2> HAVE k < l
  <2>1. place[k] \in DOMAIN rows /\ place[l] \in DOMAIN rows /\ place[k] < place[l]
    BY <1>4
  <2>2. rows[place[k]] < rows[place[l]]
    BY <2>1 DEF OrderOK
  <2> QED BY <1>4, <2>2
<1>7. \A t \in Stored : turns[t] = s => \E k \in DOMAIN mine : mine[k] = t
  <2> TAKE t \in Stored
  <2> HAVE turns[t] = s
  <2>1. PICK i \in DOMAIN rows : rows[i] = t
    BY DEF Stored, ToSet
  <2>2. i \in D
    BY <2>1
  <2> QED BY <1>4, <2>1, <2>2
<1> QED BY <1>1, <1>3, <1>5, <1>6, <1>7

\* The sessions of the replay: each once, with a turn.
LEMMA SessionsOfReplay ==
  ASSUME WriterOK
  PROVE  /\ ReplaySessions \in Seq(Session)
         /\ \A m, n \in DOMAIN ReplaySessions :
              ReplaySessions[m] = ReplaySessions[n] => m = n
         /\ \A n \in DOMAIN ReplaySessions :
              /\ \E t \in Stored : turns[t] = ReplaySessions[n]
              /\ mode = "session" => ReplaySessions[n] = Watched
<1> DEFINE lasts == {i \in DOMAIN rows : \A j \in (i + 1)..Len(rows) :
                       turns[rows[j]] # turns[rows[i]]}
           Lately(i) == Cardinality({j \in lasts : j > i}) < ReplayLimit
           D == {i \in lasts : IF mode = "session" THEN turns[rows[i]] = Watched ELSE Lately(i)}
           all == [i \in DOMAIN rows |-> turns[rows[i]]]
           r == Picked(all, D)
<1>1. ReplaySessions = r
  BY DEF ReplaySessions
<1>2. /\ all \in Seq(Session) /\ DOMAIN all = DOMAIN rows
      /\ \A i \in DOMAIN rows : all[i] = turns[rows[i]]
  <2>1. rows \in Seq(Nat) /\ turns \in Seq(Session) /\ \A i \in DOMAIN rows : rows[i] \in DOMAIN turns
    BY DEF WriterOK
  <2>2. \A i \in DOMAIN rows : turns[rows[i]] \in Session
    BY <2>1
  <2> QED BY <2>1, <2>2
<1>3. /\ D \subseteq DOMAIN rows
      /\ \A i \in D : mode = "session" => turns[rows[i]] = Watched
      /\ \A i \in D : \A j \in (i + 1)..Len(rows) : turns[rows[j]] # turns[rows[i]]
  OBVIOUS
<1> HIDE DEF D, all
<1>4. r \in Seq(Session) /\ PickedAs(r, all, D)
  BY <1>2, <1>3, PickedIs
<1> HIDE DEF r
<1>5. PICK place :
        /\ \A n \in DOMAIN r : place[n] \in D /\ r[n] = all[place[n]]
        /\ \A m, n \in DOMAIN r : m < n => place[m] < place[n]
  BY <1>4 DEF PickedAs
<1>6. \A n \in DOMAIN r : place[n] \in DOMAIN rows /\ r[n] = turns[rows[place[n]]]
  BY <1>2, <1>3, <1>5
<1>7. ASSUME NEW m \in DOMAIN r, NEW n \in DOMAIN r, m < n PROVE r[m] # r[n]
  <2>1. place[m] < place[n] /\ place[m] \in D /\ place[n] \in DOMAIN rows /\ place[m] \in DOMAIN rows
    BY <1>3, <1>5, <1>7
  <2>2. place[n] \in (place[m] + 1)..Len(rows)
    <3>1. DOMAIN rows = 1..Len(rows) /\ Len(rows) \in Nat
      BY DEF WriterOK
    <3> QED BY <2>1, <3>1
  <2> QED BY <1>3, <1>6, <2>1, <2>2
<1>8. \A m, n \in DOMAIN r : r[m] = r[n] => m = n
  <2> TAKE m, n \in DOMAIN r
  <2>1. m \in Nat /\ n \in Nat
    BY <1>4
  <2>2. m < n \/ n < m \/ m = n
    BY <2>1
  <2> QED BY <1>7, <2>2
<1>9. \A n \in DOMAIN r :
        /\ \E t \in Stored : turns[t] = r[n]
        /\ mode = "session" => r[n] = Watched
  <2> TAKE n \in DOMAIN r
  <2>1. rows[place[n]] \in Stored
    BY <1>6 DEF Stored, ToSet
  <2> QED BY <1>3, <1>5, <1>6, <2>1
<1> QED BY <1>1, <1>4, <1>8, <1>9

\* The events of one session.
LEMMA ReplayOfIs ==
  ASSUME WriterOK, OrderOK, NEW s \in Session, \E t \in Stored : turns[t] = s
  PROVE  /\ GoodFeed(ReplayOf(s), turns)
         /\ 1 \in DOMAIN ReplayOf(s) /\ ReplayOf(s)[1] = Start(s)
         /\ \A k \in DOMAIN ReplayOf(s) : ReplayOf(s)[k].session = s
         /\ \A t \in Stored : turns[t] = s => \E k \in DOMAIN ReplayOf(s) : ReplayOf(s)[k].turn = t
         /\ \A k, l \in DOMAIN ReplayOf(s) :
              k < l /\ ReplayOf(s)[l].turn # 0 => ReplayOf(s)[k].turn < ReplayOf(s)[l].turn
<1> DEFINE mine == Of(rows, s)
           told == [i \in DOMAIN mine |-> Summary(s, mine[i])]
           end == IF s \in idle THEN <<Event("PostmortemReady", s, 0, Len(mine))>> ELSE <<>>
           first == <<Start(s)>> \o told
<1>1. ReplayOf(s) = first \o end
  BY DEF ReplayOf
<1>2. /\ mine \in Seq(Nat)
      /\ \A k \in DOMAIN mine :
           mine[k] # 0 /\ mine[k] \in DOMAIN turns /\ turns[mine[k]] = s /\ mine[k] \in Stored
      /\ \A k, l \in DOMAIN mine : k < l => mine[k] < mine[l]
      /\ \A t \in Stored : turns[t] = s => \E k \in DOMAIN mine : mine[k] = t
  BY OfRows
<1>3. Len(mine) \in Nat /\ Len(mine) > 0
  <2>1. PICK k \in DOMAIN mine : TRUE
    BY <1>2
  <2> QED BY <1>2, <2>1
<1> HIDE DEF mine
<1>4. GoodFeed(told, turns) /\ DOMAIN told = DOMAIN mine
      /\ \A k \in DOMAIN mine : told[k] = Summary(s, mine[k])
  <2>1. \A k \in DOMAIN mine : GoodEvent(Summary(s, mine[k]), turns)
    <3> TAKE k \in DOMAIN mine
    <3>1. mine[k] \in Nat
      BY <1>2
    <3> QED BY <1>2, <3>1, GoodSummary
  <2>2. told \in Seq(FeedEvent)
    BY <1>2, <2>1 DEF GoodEvent
  <2> QED BY <2>1, <2>2 DEF GoodFeed
<1>5. GoodFeed(<<Start(s)>>, turns) /\ Start(s).turn = 0 /\ Start(s).session = s
  BY GoodStart, GoodOne DEF Start, Event
<1>6. GoodFeed(end, turns) /\ \A k \in DOMAIN end : end[k].turn = 0 /\ end[k].session = s
  <2>1. CASE s \in idle
    <3>1. GoodEvent(Event("PostmortemReady", s, 0, Len(mine)), turns)
      BY <1>3, GoodNotice
    <3> QED BY <2>1, <3>1, GoodOne DEF Event
  <2>2. CASE s \notin idle
    BY <2>2, GoodNone
  <2> QED BY <2>1, <2>2
<1> HIDE DEF told, end
<1>7. /\ GoodFeed(first, turns)
      /\ 1 \in DOMAIN first /\ first[1] = Start(s)
      /\ \A k \in DOMAIN mine : 1 + k \in DOMAIN first /\ first[1 + k] = told[k]
      /\ \A k \in DOMAIN first :
           \/ k = 1 /\ first[k] = Start(s)
           \/ k > 1 /\ k - 1 \in DOMAIN mine /\ first[k] = told[k - 1]
  <2> DEFINE one == <<Start(s)>>
  <2>1. one \in Seq(FeedEvent) /\ told \in Seq(FeedEvent)
    BY <1>4, <1>5 DEF GoodFeed
  <2>2. DOMAIN one = {1} /\ one[1] = Start(s) /\ Len(one) = 1
    OBVIOUS
  <2>3. GoodFeed(one, turns)
    BY <1>5
  <2> HIDE DEF one
  <2>4. /\ \A i \in DOMAIN one : i \in DOMAIN (one \o told) /\ (one \o told)[i] = one[i]
        /\ \A i \in DOMAIN told :
             Len(one) + i \in DOMAIN (one \o told) /\ (one \o told)[Len(one) + i] = told[i]
        /\ \A i \in DOMAIN (one \o told) :
             \/ i \in DOMAIN one /\ (one \o told)[i] = one[i]
             \/ i > Len(one) /\ i - Len(one) \in DOMAIN told /\ (one \o told)[i] = told[i - Len(one)]
    BY <2>1, ConcatIs
  <2>5. GoodFeed(one \o told, turns)
    BY <1>4, <2>3, GoodConcat
  <2>6. first = one \o told
    BY DEF one
  <2> HIDE DEF first
  <2> QED BY <1>4, <2>2, <2>4, <2>5, <2>6
<1> HIDE DEF first
<1>8. first \in Seq(FeedEvent) /\ end \in Seq(FeedEvent)
  BY <1>6, <1>7 DEF GoodFeed
<1> DEFINE whole == first \o end
<1>9. /\ \A k \in DOMAIN first : k \in DOMAIN whole /\ whole[k] = first[k]
      /\ \A k \in DOMAIN whole :
           \/ k \in DOMAIN first /\ k <= Len(first) /\ whole[k] = first[k]
           \/ k > Len(first) /\ k - Len(first) \in DOMAIN end /\ whole[k] = end[k - Len(first)]
  BY <1>8, ConcatIs
<1>10. GoodFeed(whole, turns)
  BY <1>6, <1>7, GoodConcat
<1> HIDE DEF whole
<1>11. \A k \in DOMAIN mine : told[k].turn = mine[k] /\ told[k].session = s
  BY <1>4 DEF Summary, Event
<1>12. \A k \in DOMAIN whole : whole[k].session = s
  BY <1>5, <1>6, <1>7, <1>9, <1>11
<1>13. ASSUME NEW t \in Stored, turns[t] = s
       PROVE  \E k \in DOMAIN whole : whole[k].turn = t
  <2>1. PICK k \in DOMAIN mine : mine[k] = t
    BY <1>2, <1>13
  <2>2. 1 + k \in DOMAIN whole /\ whole[1 + k] = told[k]
    BY <1>7, <1>9
  <2> QED BY <1>11, <2>1, <2>2
<1>14. \A k \in DOMAIN whole : whole[k].turn # 0 =>
         /\ k \in DOMAIN first /\ k > 1 /\ k - 1 \in DOMAIN mine
         /\ whole[k].turn = mine[k - 1]
  BY <1>5, <1>6, <1>7, <1>9, <1>11
<1>15. ASSUME NEW k \in DOMAIN whole, NEW l \in DOMAIN whole, k < l, whole[l].turn # 0
       PROVE  whole[k].turn < whole[l].turn
  <2>0. k \in Nat /\ l \in Nat
    BY <1>10 DEF GoodFeed
  <2>1. l - 1 \in DOMAIN mine /\ whole[l].turn = mine[l - 1] /\ mine[l - 1] \in Nat
        /\ mine[l - 1] # 0
    BY <1>2, <1>14, <1>15
  <2>2. CASE whole[k].turn = 0
    BY <2>1, <2>2
  <2>3. CASE whole[k].turn # 0
    <3>1. k - 1 \in DOMAIN mine /\ whole[k].turn = mine[k - 1]
      BY <1>14, <2>3
    <3>2. k - 1 < l - 1
      BY <1>15, <2>0
    <3> QED BY <1>2, <2>1, <3>1, <3>2
  <2> QED BY <2>2, <2>3
<1>16. 1 \in DOMAIN whole /\ whole[1] = Start(s)
  BY <1>7, <1>9
<1> QED BY <1>1, <1>10, <1>12, <1>13, <1>15, <1>16 DEF whole

LEMMA LastPlace ==
  ASSUME NEW S, NEW q \in Seq(S), NEW D, D \subseteq DOMAIN q, D # {}
  PROVE  \E m \in D : \A j \in D : j <= m
<1>1. DOMAIN q = 1..Len(q) /\ Len(q) \in Nat
  OBVIOUS
<1>2. IsFiniteSet(D)
  <2>1. IsFiniteSet(1..Len(q))
    BY <1>1, FS_Interval
  <2> QED BY <1>1, <2>1, FS_Subset
<1>3. D \subseteq Int /\ \A j \in D : j \in Int
  BY <1>1
<1>4. Max(D) \in D /\ \A y \in D : Max(D) >= y
  BY <1>2, <1>3, FiniteMax
<1>5. PICK m : m = Max(D)
  OBVIOUS
<1>6. m \in D /\ \A y \in D : m >= y
  BY <1>4, <1>5
<1>7. \A j \in D : j <= m
  BY ONLY <1>3, <1>6
<1> QED BY <1>6, <1>7

\* The replay: good events, no turn twice, the turns of its sessions all and the
\* last ones last; of a filtered stream, its session under its header.
LEMMA ReplayFacts ==
  ASSUME WriterOK, OrderOK
  PROVE  /\ GoodFeed(ReplayEvents, turns) /\ Once(ReplayEvents)
         /\ \A t \in Stored : turns[t] \in ToSet(ReplaySessions) =>
              t \in TurnsIn(ReplayEvents) /\ Falls(ReplayEvents, turns[t], Newer(t))
         /\ mode = "session" =>
              /\ \A i \in DOMAIN ReplayEvents : ReplayEvents[i].session = Watched
              /\ HasTurn(ReplayEvents) => Tells(ReplayEvents, "SessionStart")
<1> DEFINE rs == ReplaySessions
           q == [i \in DOMAIN rs |-> ReplayOf(rs[i])]
           f == ReplayEvents
<1>1. /\ rs \in Seq(Session)
      /\ \A m, n \in DOMAIN rs : rs[m] = rs[n] => m = n
      /\ \A n \in DOMAIN rs : /\ \E t \in Stored : turns[t] = rs[n]
                              /\ mode = "session" => rs[n] = Watched
  BY SessionsOfReplay
<1>2. f = FlattenSeq(q)
  BY DEF ReplayEvents
<1> HIDE DEF rs, f
<1>3. ASSUME NEW n \in DOMAIN rs
      PROVE  LET r == q[n] IN
             /\ GoodFeed(r, turns) /\ 1 \in DOMAIN r /\ r[1] = Start(rs[n])
             /\ \A k \in DOMAIN r : r[k].session = rs[n]
             /\ \A t \in Stored : turns[t] = rs[n] => \E k \in DOMAIN r : r[k].turn = t
             /\ \A k, l \in DOMAIN r : k < l /\ r[l].turn # 0 => r[k].turn < r[l].turn
  <2>1. rs[n] \in Session /\ \E t \in Stored : turns[t] = rs[n]
    BY <1>1
  <2>2. q[n] = ReplayOf(rs[n])
    OBVIOUS
  <2> HIDE DEF q
  <2> QED BY <2>1, <2>2, ReplayOfIs
<1>4. q \in Seq(Seq(FeedEvent)) /\ DOMAIN q = DOMAIN rs /\ DOMAIN rs = 1..Len(rs) /\ Len(q) = Len(rs)
  <2>1. \A n \in DOMAIN rs : ReplayOf(rs[n]) \in Seq(FeedEvent)
    BY <1>3 DEF GoodFeed
  <2>2. DOMAIN rs = 1..Len(rs) /\ Len(rs) \in Nat
    BY <1>1
  <2> QED BY <2>1, <2>2
<1> HIDE DEF q
<1>5. f \in Seq(FeedEvent) /\ Behind(f, q, Len(rs))
  BY <1>2, <1>4, FlatIs
<1>6. PICK row, col : BehindBy(f, q, Len(rs), row, col)
  BY <1>5 DEF Behind
<1>7. \A p \in DOMAIN f :
        /\ row[p] \in DOMAIN rs /\ col[p] \in DOMAIN q[row[p]]
        /\ f[p] = q[row[p]][col[p]] /\ f[p].session = rs[row[p]]
        /\ GoodEvent(f[p], turns)
  BY <1>3, <1>4, <1>6 DEF BehindBy, GoodFeed
<1>8. ASSUME NEW o \in DOMAIN f, NEW p \in DOMAIN f, o < p,
             f[o].session = f[p].session, f[p].turn # 0
      PROVE  f[o].turn < f[p].turn
  <2>1. row[o] = row[p]
    BY <1>1, <1>7, <1>8
  <2>2. row[o] < row[p] \/ (row[o] = row[p] /\ col[o] < col[p])
    BY <1>6, <1>8 DEF BehindBy
  <2>3. row[o] \in Nat
    BY <1>1, <1>7
  <2>4. col[o] < col[p]
    BY <2>1, <2>2, <2>3
  <2> QED BY <1>3, <1>7, <1>8, <2>1, <2>4
<1>9. GoodFeed(f, turns)
  BY <1>5, <1>7 DEF GoodFeed
<1>10. Once(f)
  <2> SUFFICES ASSUME NEW i \in DOMAIN f, NEW j \in DOMAIN f,
                      f[i].turn # 0, f[j].turn = f[i].turn
               PROVE  i = j
    BY DEF Once
  <2>1. i \in Nat /\ j \in Nat /\ f[i].turn \in Nat
    BY <1>5, <1>7 DEF GoodEvent, FeedEvent
  <2>2. f[i].session = f[j].session
    BY <1>7 DEF GoodEvent
  <2>3. ~(i < j) /\ ~(j < i)
    BY <1>8, <2>1, <2>2
  <2> QED BY <2>1, <2>3
<1>11. ASSUME NEW t \in Stored, turns[t] \in ToSet(rs)
       PROVE  t \in TurnsIn(f) /\ Falls(f, turns[t], Newer(t))
  <2>1. PICK n \in DOMAIN rs : rs[n] = turns[t]
    BY <1>11 DEF ToSet
  <2>2. PICK k \in DOMAIN q[n] : q[n][k].turn = t
    BY <1>3, <2>1
  <2>3. PICK o \in DOMAIN f : row[o] = n /\ col[o] = k
    BY <1>4, <1>6, <2>1 DEF BehindBy
  <2>4. f[o].turn = t /\ f[o].session = turns[t]
    BY <1>7, <2>1, <2>2, <2>3
  <2>5. t # 0 /\ t \in Nat
    BY DEF Stored, ToSet, WriterOK
  <2> DEFINE D == {p \in DOMAIN f : f[p].turn # 0 /\ f[p].session = turns[t]}
  <2>6. PICK m \in D : \A j \in D : j <= m
    <3>1. o \in D /\ D \subseteq DOMAIN f
      BY <2>4, <2>5
    <3> HIDE DEF D
    <3> QED BY <1>5, <3>1, LastPlace
  <2>7. m \in Nat /\ o \in Nat /\ o <= m /\ f[m].turn \in Nat
    BY <1>5, <1>7, <2>4, <2>5, <2>6 DEF GoodEvent, FeedEvent
  <2>8. f[m].turn >= t
    <3>1. CASE o = m
      BY <2>4, <2>5, <3>1
    <3>2. CASE o < m
      <4>1. f[o].turn < f[m].turn
        BY <1>8, <2>4, <2>6, <3>2
      <4> QED BY <2>4, <2>5, <2>7, <4>1
    <3> QED BY <2>7, <3>1, <3>2
  <2>9. \A j \in DOMAIN f : j > m /\ f[j].turn # 0 => f[j].session # turns[t]
    <3>1. \A j \in DOMAIN f : j \in Nat
      BY <1>5
    <3> QED BY <2>6, <2>7, <3>1
  <2>10. Falls(f, turns[t], Newer(t))
    <3>1. f[m].turn \in Newer(t)
      BY <2>7, <2>8 DEF Newer
    <3> QED BY <2>6, <2>9, <3>1 DEF Falls
  <2>11. t \in TurnsIn(f)
    BY <2>4 DEF TurnsIn
  <2> QED BY <2>10, <2>11
<1>12. ASSUME mode = "session"
       PROVE  /\ \A i \in DOMAIN f : f[i].session = Watched
              /\ HasTurn(f) => Tells(f, "SessionStart")
  <2>1. \A i \in DOMAIN f : f[i].session = Watched
    BY <1>1, <1>7, <1>12
  <2>2. ASSUME NEW i \in DOMAIN f, IsTurn(f[i])
        PROVE  \E j \in DOMAIN f : f[j].type = "SessionStart" /\ f[j].session = Watched
    <3> DEFINE n == row[i]
    <3>1. n \in DOMAIN rs /\ 1 \in DOMAIN q[n] /\ q[n][1] = Start(rs[n]) /\ rs[n] = Watched
      BY <1>1, <1>3, <1>7, <1>12
    <3>2. PICK j \in DOMAIN f : row[j] = n /\ col[j] = 1
      <4> HIDE DEF n
      <4> QED BY <1>4, <1>6, <3>1 DEF BehindBy
    <3>3. f[j].type = "SessionStart" /\ f[j].session = Watched
      BY <1>7, <3>1, <3>2 DEF Start, Event
    <3> QED BY <3>3
  <2> QED BY <2>1, <2>2 DEF HasTurn, Tells
<1> QED BY <1>9, <1>10, <1>11, <1>12 DEF f, rs

-----------------------------------------------------------------------------
(* The steps of the feed.                                                  *)

FeedStep ==
  \/ (Commit \/ Expire \/ CoreCrash \/ Disconnect) /\ UNCHANGED client
  \/ \E k \in tasks : (PublishStart(k) \/ Publish(k)) /\ UNCHANGED client
  \/ \E s \in Session : (EndSession(s) \/ Timeout(s)) /\ UNCHANGED client
  \/ \E s \in Session, missed, prompted \in BOOLEAN :
       Enter(s, missed, prompted) /\ UNCHANGED client
  \/ \E s \in Session, start \in BOOLEAN : Finalize(s, start) /\ UNCHANGED client
  \/ Listen
  \/ UNCHANGED <<feedVars, client>>

LEMMA RunStepsFeed == [RunNext]_runVars => FeedStep
<1> SUFFICES ASSUME [RunNext]_runVars PROVE FeedStep
  OBVIOUS
<1>1. CASE \E s \in Session, start \in BOOLEAN : RecordAnswer(s, start)
  BY <1>1 DEF RecordAnswer, FeedStep
<1>2. CASE \E s \in Session, missed, prompted \in BOOLEAN : AnswerEnds(s, missed, prompted)
  BY <1>2 DEF AnswerEnds, FeedStep
<1>3. CASE PreCheck \/ Launch \/ ChildExits \/ Poll \/ GiveUp
  BY <1>3 DEF PreCheck, PreCheckAfter, Launch, ChildExits, Poll, GiveUp, FeedStep
<1>4. CASE UNCHANGED runVars
  BY <1>4 DEF runVars, FeedStep
<1>5. CASE RunNext
  BY <1>1, <1>2, <1>3, <1>5 DEF RunNext, FeedStep
<1> QED BY <1>4, <1>5

LEMMA OnlyWantedIs ==
  ASSUME NEW ts, NEW q, GoodFeed(q, ts)
  PROVE  /\ GoodFeed(OnlyWanted(q), ts)
         /\ PickedAs(OnlyWanted(q), q, {i \in DOMAIN q : Wanted(q[i])})
<1> DEFINE D == {i \in DOMAIN q : Wanted(q[i])}
<1>1. D \subseteq DOMAIN q /\ OnlyWanted(q) = Picked(q, D)
  BY DEF OnlyWanted
<1>2. q \in Seq(FeedEvent)
  BY DEF GoodFeed
<1> HIDE DEF D
<1>3. PickedAs(Picked(q, D), q, D) /\ GoodFeed(Picked(q, D), ts)
  BY <1>1, <1>2, PickedIs, GoodPicked
<1> QED BY <1>1, <1>3 DEF D

LEMMA GoodBroadcast ==
  ASSUME NEW ts, NEW events, GoodFeed(events, ts), GoodFeed(history, ts),
         GoodFeed(inbox, ts), Broadcast(events)
  PROVE  GoodFeed(history', ts) /\ GoodFeed(inbox', ts)
<1>1. GoodFeed(OnlyWanted(events), ts)
  BY OnlyWantedIs
<1>2. GoodFeed(history \o events, ts) /\ GoodFeed(inbox \o OnlyWanted(events), ts)
  BY <1>1, GoodConcat
<1> QED BY <1>2 DEF Broadcast

feeds == <<turns, memory, live, begun, tasks, history, backlog, inbox, replay, outgoing,
           stage>>

LEMMA SameFeeds == FeedsOK /\ UNCHANGED feeds => FeedsOK'
<1> SUFFICES ASSUME FeedsOK, UNCHANGED feeds PROVE FeedsOK'
  OBVIOUS
<1> QED BY DEF FeedsOK, feeds, GoodTask

LEMMA EnterFeeds ==
  ASSUME FeedsOK, NEW s \in Session, NEW missed \in BOOLEAN, NEW prompted \in BOOLEAN,
         Enter(s, missed, prompted)
  PROVE  FeedsOK'
<1>1. /\ begun' = [begun EXCEPT ![s][missed /\ prompted] = @ + 1]
      /\ live' = live \cup {s}
      /\ UNCHANGED <<turns, memory, tasks, history, backlog, inbox, replay, outgoing, stage>>
  BY DEF Enter, connection
<1>2. PICK b \in BOOLEAN : b = (missed /\ prompted)
  OBVIOUS
<1>3. begun' = [begun EXCEPT ![s][b] = @ + 1]
  BY <1>1, <1>2
<1>4. begun' \in [Session -> [BOOLEAN -> Nat]]
  BY <1>3 DEF FeedsOK
<1>5. ASSUME NEW x \in live', begun'[x][TRUE] = 0, begun'[x][FALSE] = 0
      PROVE  memory'[x] > 0
  <2>1. x \in Session /\ begun[x][TRUE] \in Nat /\ begun[x][FALSE] \in Nat
    BY <1>1 DEF FeedsOK
  <2>2. CASE x = s
    <3>1. begun'[s][b] > 0
      BY <1>3 DEF FeedsOK
    <3>2. b = TRUE \/ b = FALSE
      OBVIOUS
    <3>3. b = TRUE => begun'[s][TRUE] > 0
      BY <3>1, Zenon
    <3>4. b = FALSE => begun'[s][FALSE] > 0
      BY <3>1, Zenon
    <3>5. ~(begun'[s][TRUE] > 0) /\ ~(begun'[s][FALSE] > 0)
      <4>1. PICK y, z : y = begun'[s][TRUE] /\ z = begun'[s][FALSE]
        OBVIOUS
      <4>2. y = 0 /\ z = 0
        BY <1>5, <2>2, <4>1, Zenon
      <4>3. ~(y > 0) /\ ~(z > 0)
        BY ONLY <4>2
      <4> QED BY <4>1, <4>3, Zenon
    <3> QED BY <3>2, <3>3, <3>4, <3>5, Zenon
  <2>3. CASE x # s
    <3>1. begun'[x][TRUE] = begun[x][TRUE] /\ begun'[x][FALSE] = begun[x][FALSE]
      BY <1>3, <2>1, <2>3 DEF FeedsOK
    <3> QED BY <1>1, <1>5, <2>3, <3>1 DEF FeedsOK
  <2> QED BY <2>2, <2>3
<1>6. live' \subseteq Session
  BY <1>1 DEF FeedsOK
<1> QED BY <1>1, <1>4, <1>5, <1>6 DEF FeedsOK, GoodTask

LEMMA GoodTaskGrows ==
  ASSUME NEW ts \in Seq(Session), NEW s \in Session, NEW k, GoodTask(k, ts)
  PROVE  GoodTask(k, Append(ts, s))
<1>1. \A i \in DOMAIN ts : i \in DOMAIN Append(ts, s) /\ Append(ts, s)[i] = ts[i]
  OBVIOUS
<1> QED BY <1>1 DEF GoodTask

LEMMA FinalizeFeeds ==
  ASSUME WriterOK, FeedsOK, NEW s \in Session, NEW start \in BOOLEAN, Finalize(s, start)
  PROVE  FeedsOK'
<1> DEFINE t == Len(turns) + 1
           new == [turn |-> t, session |-> s, start |-> start]
           ts == Append(turns, s)
<1>1. turns \in Seq(Session)
  BY DEF WriterOK
<1>2. /\ turns' = ts /\ Len(ts) = t /\ t \in Nat /\ t # 0 /\ t \in DOMAIN ts /\ ts[t] = s
      /\ t \notin DOMAIN turns
  BY <1>1 DEF Finalize
<1>3. tasks' = tasks \cup {new}
  BY <1>2 DEF Finalize
<1>4. GoodTask(new, ts)
  BY <1>2 DEF GoodTask
<1> HIDE DEF t
<1>5. /\ \A k \in tasks' : GoodTask(k, ts)
      /\ \A k, l \in tasks' : k.turn = l.turn => k = l
  <2>1. \A k \in tasks : GoodTask(k, ts) /\ k.turn # t
    BY <1>1, <1>2, GoodTaskGrows DEF FeedsOK, GoodTask
  <2>2. new.turn = t
    OBVIOUS
  <2> HIDE DEF new, ts
  <2> QED BY <1>3, <1>4, <2>1, <2>2 DEF FeedsOK
<1>6. /\ GoodFeed(history, ts) /\ GoodFeed(backlog, ts) /\ GoodFeed(inbox, ts)
      /\ GoodFeed(replay, ts) /\ GoodFeed(outgoing, ts)
  BY <1>1, GoodGrows DEF FeedsOK
<1> HIDE DEF ts
<1>7. /\ history' = history /\ backlog' = backlog /\ inbox' = inbox /\ replay' = replay
      /\ outgoing' = outgoing /\ stage' = stage /\ live' = live
      /\ memory' = [memory EXCEPT ![s] = @ + 1] /\ begun' = [begun EXCEPT ![s][start] = @ - 1]
      /\ begun[s][start] > 0
  BY DEF Finalize, connection
<1>8. memory' \in [Session -> Nat] /\ begun' \in [Session -> [BOOLEAN -> Nat]]
  BY <1>7 DEF FeedsOK
<1>9. ASSUME NEW x \in live', begun'[x][TRUE] = 0, begun'[x][FALSE] = 0
      PROVE  memory'[x] > 0
  <2>1. CASE x = s
    BY <1>7, <2>1 DEF FeedsOK
  <2>2. CASE x # s
    <3>1. x \in Session
      BY <1>7 DEF FeedsOK
    <3>2. /\ begun'[x][TRUE] = begun[x][TRUE] /\ begun'[x][FALSE] = begun[x][FALSE]
          /\ memory'[x] = memory[x]
      BY <1>7, <2>2, <3>1 DEF FeedsOK
    <3> QED BY <1>7, <1>9, <3>2 DEF FeedsOK
  <2> QED BY <2>1, <2>2
<1> QED BY <1>2, <1>5, <1>6, <1>7, <1>8, <1>9 DEF FeedsOK

\* What a publication announces: one event of its task.
EventOf(k) == IF k.start THEN Start(k.session) ELSE Summary(k.session, k.turn)
Publishes(k) == PublishStart(k) \/ Publish(k)

LEMMA PublishIs ==
  ASSUME FeedsOK, NEW k \in tasks, Publishes(k)
  PROVE  /\ k.session \in Session /\ k.turn \in Nat /\ k.turn # 0 /\ k.start \in BOOLEAN
         /\ k.turn \in DOMAIN turns /\ turns[k.turn] = k.session
         /\ GoodEvent(EventOf(k), turns) /\ Broadcast(<<EventOf(k)>>)
         /\ EventOf(k).session = k.session
         /\ EventOf(k).type = IF k.start THEN "SessionStart" ELSE "CodexTurnSummary"
         /\ EventOf(k).turn = IF k.start THEN 0 ELSE k.turn
         /\ UNCHANGED <<turns, begun, sessions, announced, queue, rows, idle, faults,
                        mode, stage, backlog, replay, outgoing, reach, replayed>>
         /\ \A l \in tasks' : \E m \in tasks : l.turn = m.turn /\ l.session = m.session
         /\ k.start => TaskTurns' = TaskTurns
         /\ ~k.start => TaskTurns' = TaskTurns \ {k.turn} /\ tasks' = tasks \ {k}
         /\ k.start => tasks' = (tasks \ {k}) \cup {[k EXCEPT !.start = FALSE]}
<1>1. GoodTask(k, turns) /\ \A l \in tasks : l.turn = k.turn => l = k
  BY DEF FeedsOK
<1>2. /\ k.session \in Session /\ k.turn \in Nat /\ k.turn # 0 /\ k.start \in BOOLEAN
      /\ k.turn \in DOMAIN turns /\ turns[k.turn] = k.session
  BY <1>1 DEF GoodTask
<1>3. GoodEvent(EventOf(k), turns)
  BY <1>2, GoodStart, GoodSummary DEF EventOf
<1>4. /\ EventOf(k).session = k.session
      /\ EventOf(k).type = IF k.start THEN "SessionStart" ELSE "CodexTurnSummary"
      /\ EventOf(k).turn = IF k.start THEN 0 ELSE k.turn
  BY DEF EventOf, Start, Summary, Event
<1>5. Broadcast(<<EventOf(k)>>)
  BY DEF Publishes, PublishStart, Publish, EventOf
<1>6. UNCHANGED <<turns, begun, sessions, announced, queue, rows, idle, faults,
                  mode, stage, backlog, replay, outgoing, reach, replayed>>
  BY DEF Publishes, PublishStart, Publish
<1>7. /\ k.start => tasks' = (tasks \ {k}) \cup {[k EXCEPT !.start = FALSE]}
      /\ ~k.start => tasks' = tasks \ {k}
  BY DEF Publishes, PublishStart, Publish
<1>8. LET m == [k EXCEPT !.start = FALSE] IN m.turn = k.turn /\ m.session = k.session
  BY <1>1 DEF GoodTask
<1>9. \A l \in tasks' : \E m \in tasks : l.turn = m.turn /\ l.session = m.session
  BY <1>2, <1>7, <1>8
<1>10. k.start => TaskTurns' = TaskTurns
  BY <1>7, <1>8 DEF TaskTurns
<1>11. ~k.start => TaskTurns' = TaskTurns \ {k.turn}
  BY <1>1, <1>7 DEF TaskTurns
<1> QED BY <1>2, <1>3, <1>4, <1>5, <1>6, <1>7, <1>9, <1>10, <1>11

LEMMA BroadcastFeeds ==
  ASSUME WriterOK, OrderOK, FeedsOK,
         Commit \/ (\E k \in tasks : Publishes(k)) \/ \E s \in Session : EndSession(s)
  PROVE  FeedsOK'
<1>0. GoodFeed(history, turns) /\ GoodFeed(inbox, turns)
  BY DEF FeedsOK
<1>1. ASSUME NEW k \in tasks, Publishes(k) PROVE FeedsOK'
  <2>1. GoodFeed(history', turns) /\ GoodFeed(inbox', turns)
    <3> DEFINE e == EventOf(k)
    <3>1. GoodEvent(e, turns) /\ Broadcast(<<e>>)
      BY <1>1, PublishIs
    <3> HIDE DEF e
    <3> QED BY <1>0, <3>1, GoodOne, GoodBroadcast
  <2>2. stage = "down" => inbox' = <<>>
    <3>1. Broadcast(<<EventOf(k)>>)
      BY <1>1, PublishIs
    <3> QED BY <3>1 DEF Broadcast, Listening, FeedsOK
  <2>3. /\ UNCHANGED <<turns, begun, live, memory, stage, backlog, replay, outgoing>>
        /\ GoodTask(k, turns)
        /\ tasks' = tasks \ {k} \/ tasks' = (tasks \ {k}) \cup {[k EXCEPT !.start = FALSE]}
    <3>1. GoodTask(k, turns)
      BY DEF FeedsOK
    <3> QED BY <1>1, <3>1, PublishIs DEF sessions
  <2>4. /\ \A l \in tasks' : GoodTask(l, turns)
        /\ \A l, m \in tasks' : l.turn = m.turn => l = m
    <3> DEFINE told == [k EXCEPT !.start = FALSE]
    <3>1. GoodTask(told, turns) /\ told.turn = k.turn
      BY <2>3 DEF GoodTask
    <3>2. \A l \in tasks : l.turn = k.turn => l = k
      BY DEF FeedsOK
    <3>3. \A l \in tasks' : l = told \/ (l \in tasks /\ l # k)
      BY <2>3
    <3> HIDE DEF told
    <3> QED BY <3>1, <3>2, <3>3 DEF FeedsOK
  <2> QED BY <2>1, <2>2, <2>3, <2>4 DEF FeedsOK
<1>2. ASSUME NEW s \in Session, EndSession(s) PROVE FeedsOK'
  <2> DEFINE e == Event("SessionEnd", s, 0, memory[s])
  <2>1. GoodFeed(<<e>>, turns)
    <3>1. memory[s] \in Nat /\ memory[s] > 0
      BY <1>2 DEF EndSession, Quiet, FeedsOK
    <3> QED BY <3>1, GoodNotice, GoodOne
  <2>2. Broadcast(<<e>>)
    BY <1>2 DEF EndSession
  <2> HIDE DEF e
  <2>3. GoodFeed(history', turns) /\ GoodFeed(inbox', turns)
    BY <1>0, <2>1, <2>2, GoodBroadcast
  <2>4. stage = "down" => inbox' = <<>>
    BY <2>2 DEF Broadcast, Listening, FeedsOK
  <2>5. /\ turns' = turns /\ begun' = begun /\ tasks' = tasks /\ backlog' = backlog
        /\ replay' = replay /\ outgoing' = outgoing /\ stage' = stage
        /\ live' = live \ {s} /\ memory' = [memory EXCEPT ![s] = 0]
    BY <1>2 DEF EndSession, finalizing
  <2>6. /\ memory' \in [Session -> Nat] /\ live' \subseteq Session
        /\ \A x \in live' : begun'[x][TRUE] = 0 /\ begun'[x][FALSE] = 0 => memory'[x] > 0
    BY <2>5 DEF FeedsOK
  <2> QED BY <2>3, <2>4, <2>5, <2>6 DEF FeedsOK
<1>3. CASE Commit
  <2>1. UNCHANGED <<turns, begun, tasks, live, memory, stage, backlog, replay, outgoing>>
    BY <1>3 DEF Commit, finalizing, sessions
  <2>2. CASE history' = history /\ inbox' = inbox
    BY <2>1, <2>2, SameFeeds DEF feeds
  <2>3. CASE ~(history' = history /\ inbox' = inbox)
    <3> DEFINE s == Head(queue).session
               n == Len(Of(rows, s))
               e == Event("PostmortemReady", s, 0, n)
    <3>1. Of(rows, s) # <<>> /\ Broadcast(<<e>>) /\ queue # <<>>
      BY <1>3, <2>3 DEF Commit
    <3>2. s \in Session
      <4>1. queue \in Seq(DbCommand) /\ queue # <<>>
        BY <3>1 DEF WriterOK
      <4>2. Head(queue) \in DbCommand
        BY <4>1, TailIs
      <4> QED BY <4>2 DEF DbCommand
    <3>3. n \in Nat /\ n > 0
      <4>1. Of(rows, s) \in Seq(Nat)
        BY OfRows
      <4> HIDE DEF s
      <4> QED BY <3>1, <4>1
    <3>4. GoodFeed(<<e>>, turns)
      <4> HIDE DEF s, n
      <4> QED BY <3>2, <3>3, GoodNotice, GoodOne
    <3> HIDE DEF e
    <3>5. GoodFeed(history', turns) /\ GoodFeed(inbox', turns)
      BY <1>0, <3>1, <3>4, GoodBroadcast
    <3>6. stage = "down" => inbox' = <<>>
      BY <3>1 DEF Broadcast, Listening, FeedsOK
    <3> QED BY <2>1, <3>5, <3>6 DEF FeedsOK
  <2> QED BY <2>2, <2>3
<1> QED BY <1>1, <1>2, <1>3

LEMMA OutgoingIs ==
  ASSUME FeedsOK, OpenStream
  PROVE  /\ stage = "loaded" /\ stage' = "streaming" /\ backlog' = <<>> /\ replay' = <<>>
         /\ inbox' = inbox /\ core' = core /\ mode' = mode /\ ghosts' = ghosts
         /\ \E first, persisted :
              /\ outgoing' = first \o persisted \o OnlyWanted(backlog)
              /\ first = IF NeedsStart THEN <<Start(Watched)>> ELSE <<>>
              /\ GoodFeed(first, turns)
              /\ GoodFeed(persisted, turns)
              /\ PickedAs(persisted, replay,
                   {i \in DOMAIN replay : ~(NeedsStart /\ replay[i].type = "SessionStart")})
<1> DEFINE D == {i \in DOMAIN replay : ~(NeedsStart /\ replay[i].type = "SessionStart")}
           first == IF NeedsStart THEN <<Start(Watched)>> ELSE <<>>
           persisted == Picked(replay, D)
<1>1. outgoing' = first \o persisted \o OnlyWanted(backlog)
  BY DEF OpenStream
<1>2. GoodFeed(first, turns)
  BY GoodNone, GoodStart, GoodOne, WatchedAssumption
<1>3. GoodFeed(persisted, turns) /\ PickedAs(persisted, replay, D)
  <2>1. GoodFeed(replay, turns) /\ replay \in Seq(FeedEvent) /\ D \subseteq DOMAIN replay
    BY DEF FeedsOK, GoodFeed
  <2> HIDE DEF D
  <2> QED BY <2>1, PickedIs, GoodPicked
<1>4. /\ stage = "loaded" /\ stage' = "streaming" /\ backlog' = <<>> /\ replay' = <<>>
      /\ inbox' = inbox /\ core' = core /\ mode' = mode /\ ghosts' = ghosts
  BY DEF OpenStream
<1>5. PICK fst : fst = first
  OBVIOUS
<1>6. PICK per : per = persisted
  OBVIOUS
<1> HIDE DEF persisted
<1> QED BY <1>1, <1>2, <1>3, <1>4, <1>5, <1>6

LEMMA ListenFeeds ==
  ASSUME WriterOK, OrderOK, FeedsOK, Listen
  PROVE  FeedsOK'
<1>1. CASE LoadReplay
  <2>1. GoodFeed(replay', turns)
    BY <1>1, ReplayFacts, GoodNone DEF LoadReplay
  <2> QED BY <1>1, <2>1 DEF LoadReplay, FeedsOK, core, finalizing, sessions
<1>2. CASE OpenStream
  <2>1. PICK first, persisted :
          /\ outgoing' = first \o persisted \o OnlyWanted(backlog)
          /\ GoodFeed(first, turns) /\ GoodFeed(persisted, turns)
    BY <1>2, OutgoingIs
  <2>2. GoodFeed(OnlyWanted(backlog), turns)
    BY OnlyWantedIs DEF FeedsOK
  <2>3. GoodFeed(outgoing', turns)
    BY <2>1, <2>2, GoodConcat
  <2>4. GoodFeed(<<>>, turns)
    BY GoodNone
  <2> QED BY <1>2, <2>3, <2>4, OutgoingIs DEF FeedsOK, core, finalizing, sessions
<1>3. CASE Reconnect
  BY <1>3, GoodNone DEF Reconnect, Subscribe, FeedsOK, core, finalizing, sessions
<1>4. CASE Send
  <2>1. outgoing # <<>> => GoodFeed(Tail(outgoing), turns)
    BY GoodTail DEF FeedsOK
  <2>2. outgoing = <<>> => inbox # <<>>
    BY <1>4 DEF Send, Pending, FeedsOK, GoodFeed
  <2>3. inbox # <<>> => GoodFeed(Tail(inbox), turns)
    BY GoodTail DEF FeedsOK
  <2> QED BY <1>4, <2>1, <2>2, <2>3 DEF Send, FeedsOK, core, finalizing, sessions
<1> QED BY <1>1, <1>2, <1>3, <1>4 DEF Listen, HearPlainly, HearInPanes

LEMMA FeedsStay ==
  ASSUME WriterOK, OrderOK, FeedsOK, FeedStep
  PROVE  FeedsOK'
<1>1. CASE Commit \/ (\E k \in tasks : Publishes(k)) \/ \E s \in Session : EndSession(s)
  BY <1>1, BroadcastFeeds
<1>2. CASE \E s \in Session, start \in BOOLEAN : Finalize(s, start)
  BY <1>2, FinalizeFeeds
<1>9. CASE \E s \in Session, missed, prompted \in BOOLEAN : Enter(s, missed, prompted)
  BY <1>9, EnterFeeds
<1>3. CASE \E s \in Session : Timeout(s)
  BY <1>3, SameFeeds DEF Timeout, connection, finalizing, sessions, feeds
<1>4. CASE Expire
  <2>1. GoodFeed(Tail(history), turns)
    BY <1>4, GoodTail DEF Expire, FeedsOK
  <2> QED BY <1>4, <2>1 DEF Expire, FeedsOK, connection, finalizing, sessions
<1>5. CASE CoreCrash
  BY <1>5, GoodNone DEF CoreCrash, Hangup, FeedsOK
<1>6. CASE Disconnect
  BY <1>6, GoodNone DEF Disconnect, Hangup, FeedsOK, core, finalizing, sessions
<1>7. CASE Listen
  BY <1>7, ListenFeeds
<1>8. CASE UNCHANGED <<feedVars, client>>
  BY <1>8, SameFeeds DEF feedVars, core, finalizing, sessions, connection, feeds
<1> QED BY <1>1, <1>2, <1>3, <1>4, <1>5, <1>6, <1>7, <1>8, <1>9 DEF FeedStep, Publishes

-----------------------------------------------------------------------------
(* Turns are stored in order.                                              *)

LEMMA OrderAppend ==
  ASSUME WriterOK, OrderOK, NEW cmd \in DbCommand, queue' = Append(queue, cmd), rows' = rows,
         cmd.turn # 0 => /\ \A i \in DOMAIN queue : queue[i].turn < cmd.turn
                         /\ \A j \in DOMAIN rows : rows[j] < cmd.turn
  PROVE  OrderOK'
<1>1. /\ queue \in Seq(DbCommand) /\ Len(queue) \in Nat
      /\ DOMAIN queue = 1..Len(queue) /\ DOMAIN queue' = 1..(Len(queue) + 1)
      /\ \A i \in DOMAIN queue : queue'[i] = queue[i]
      /\ queue'[Len(queue) + 1] = cmd
  BY DEF WriterOK
<1>2. \A i \in DOMAIN queue' :
        \/ i \in DOMAIN queue /\ queue'[i] = queue[i] /\ i < Len(queue) + 1
        \/ i = Len(queue) + 1 /\ queue'[i] = cmd
  BY <1>1
<1>3. ASSUME NEW i \in DOMAIN queue', NEW j \in DOMAIN queue', i < j,
             queue'[i].turn # 0, queue'[j].turn # 0
      PROVE  queue'[i].turn < queue'[j].turn
  <2>1. CASE j \in DOMAIN queue /\ queue'[j] = queue[j] /\ j < Len(queue) + 1
    <3>1. i # Len(queue) + 1
      BY <1>1, <1>3, <2>1
    <3> QED BY <1>2, <1>3, <2>1, <3>1 DEF OrderOK
  <2>2. CASE j = Len(queue) + 1 /\ queue'[j] = cmd
    <3>1. i # Len(queue) + 1
      BY <1>1, <1>3, <2>2
    <3> QED BY <1>2, <1>3, <2>2, <3>1
  <2> QED BY <1>2, <2>1, <2>2
<1>4. \A i \in DOMAIN queue' : \A j \in DOMAIN rows :
        queue'[i].turn # 0 => rows[j] < queue'[i].turn
  BY <1>2 DEF OrderOK
<1> QED BY <1>3, <1>4 DEF OrderOK

LEMMA OrderStays ==
  ASSUME WriterOK, OrderOK, FeedStep
  PROVE  OrderOK'
<1>1. CASE queue' = queue /\ rows' = rows
  BY <1>1 DEF OrderOK
<1>2. ASSUME NEW s \in Session, NEW start \in BOOLEAN, Finalize(s, start) PROVE OrderOK'
  <2> DEFINE t == Len(turns) + 1
             cmd == [op |-> "turn", turn |-> t, session |-> s]
  <2>1. turns \in Seq(Session) /\ Len(turns') = t /\ t \in Nat
    BY <1>2 DEF WriterOK, Finalize
  <2>2. queue' = Append(queue, cmd) /\ rows' = rows
    BY <1>2, <2>1 DEF Finalize
  <2>3. cmd \in DbCommand /\ cmd.turn = t
    BY <2>1 DEF DbCommand
  <2>4. \A i \in DOMAIN queue : queue[i].turn < t
    <3>1. \A i \in DOMAIN queue : queue[i] \in DbCommand /\ queue[i].turn <= Len(turns)
      BY DEF WriterOK
    <3> QED BY <2>1, <3>1 DEF DbCommand
  <2>5. \A j \in DOMAIN rows : rows[j] < t
    <3>1. \A j \in DOMAIN rows : rows[j] \in DOMAIN turns
      BY DEF WriterOK
    <3> QED BY <2>1, <3>1
  <2> HIDE DEF cmd, t
  <2> QED BY <2>2, <2>3, <2>4, <2>5, OrderAppend
<1>3. ASSUME NEW s \in Session, EndSession(s) PROVE OrderOK'
  <2> DEFINE cmd == [op |-> "diagnosis", turn |-> 0, session |-> s]
  <2>1. queue' = Append(queue, cmd) /\ rows' = rows
    BY <1>3 DEF EndSession
  <2>2. cmd \in DbCommand /\ cmd.turn = 0
    BY DEF DbCommand
  <2> HIDE DEF cmd
  <2> QED BY <2>1, <2>2, OrderAppend
<1>4. CASE Commit
  <2>1. /\ queue \in Seq(DbCommand) /\ queue # <<>> /\ queue' = Tail(queue)
        /\ rows \in Seq(Nat)
    BY <1>4 DEF Commit, WriterOK
  <2>2. /\ Head(queue) = queue[1] /\ 1 \in DOMAIN queue
        /\ \A i \in DOMAIN queue' : /\ i \in Nat /\ i > 0 /\ i + 1 \in DOMAIN queue
                                    /\ queue'[i] = queue[i + 1]
    BY <2>1, TailIs
  <2>3. \A i, j \in DOMAIN queue' :
          i < j /\ queue'[i].turn # 0 /\ queue'[j].turn # 0 => queue'[i].turn < queue'[j].turn
    BY <2>2 DEF OrderOK
  <2>4. CASE rows' = rows
    BY <2>2, <2>3, <2>4 DEF OrderOK
  <2>5. CASE rows' # rows
    <3> DEFINE t == queue[1].turn
    <3>1. rows' = Append(rows, t) /\ queue[1].op = "turn"
      BY <1>4, <2>2, <2>5 DEF Commit
    <3>2. t \in Nat /\ t # 0
      <4>1. queue[1] \in DbCommand
        BY <2>1, <2>2
      <4>2. queue[1].turn # 0
        BY <2>2, <3>1 DEF WriterOK
      <4> QED BY <4>1, <4>2 DEF DbCommand
    <3>3. \A i \in DOMAIN queue' : queue'[i].turn # 0 => t < queue'[i].turn
      <4> TAKE i \in DOMAIN queue'
      <4>1. 1 < i + 1 /\ i + 1 \in DOMAIN queue
        BY <2>2
      <4> QED BY <2>2, <3>2, <4>1 DEF OrderOK
    <3>4. \A j \in DOMAIN rows : rows[j] < t
      BY <2>2, <3>2 DEF OrderOK
    <3> HIDE DEF t
    <3>5. /\ Len(rows) \in Nat
          /\ DOMAIN rows = 1..Len(rows) /\ DOMAIN rows' = 1..(Len(rows) + 1)
          /\ \A i \in DOMAIN rows : rows'[i] = rows[i]
          /\ rows'[Len(rows) + 1] = t
      BY <2>1, <3>1, <3>2
    <3>6. \A i \in DOMAIN rows' :
            \/ i \in DOMAIN rows /\ rows'[i] = rows[i] /\ i < Len(rows) + 1
            \/ i = Len(rows) + 1 /\ rows'[i] = t
      BY <3>5
    <3>7. ASSUME NEW i \in DOMAIN rows', NEW j \in DOMAIN rows', i < j
          PROVE  rows'[i] < rows'[j]
      <4>1. i # Len(rows) + 1
        BY <3>5, <3>7
      <4>2. i \in DOMAIN rows /\ rows'[i] = rows[i]
        BY <3>6, <4>1
      <4>3. CASE j \in DOMAIN rows /\ rows'[j] = rows[j]
        BY <3>7, <4>2, <4>3 DEF OrderOK
      <4>4. CASE rows'[j] = t
        BY <3>4, <4>2, <4>4
      <4> QED BY <3>6, <4>3, <4>4
    <3>8. \A i \in DOMAIN queue' : \A j \in DOMAIN rows' :
            queue'[i].turn # 0 => rows'[j] < queue'[i].turn
      BY <2>2, <3>3, <3>6 DEF OrderOK
    <3> QED BY <2>3, <3>7, <3>8 DEF OrderOK
  <2> QED BY <2>4, <2>5
<1>5. CASE CoreCrash
  BY <1>5 DEF CoreCrash, OrderOK
<1>6. CASE Expire \/ Disconnect \/ (\E s \in Session : Timeout(s))
        \/ (\E k \in tasks : PublishStart(k) \/ Publish(k))
        \/ \E s \in Session, missed, prompted \in BOOLEAN : Enter(s, missed, prompted)
  BY <1>1, <1>6 DEF PublishStart, Publish, Enter, Expire, Disconnect, Timeout, core
<1>7. CASE Listen
  BY <1>1, <1>7 DEF Listen, LoadReplay, OpenStream, Reconnect, Subscribe, HearPlainly,
                    HearInPanes, Send, core
<1>8. CASE UNCHANGED <<feedVars, client>>
  BY <1>1, <1>8 DEF feedVars, core
<1> QED BY <1>2, <1>3, <1>4, <1>5, <1>6, <1>7, <1>8 DEF FeedStep

-----------------------------------------------------------------------------
(* What a watch process knows.                                             *)

LEMMA TrackKnows ==
  ASSUME NEW ts, NEW f, NEW mine, NEW e, Knows(f, mine), GoodEvent(e, ts)
  PROVE  Knows(Track(f, e), mine \cup {News(e)})
<1> DEFINE g == Track(f, e)
<1>0. /\ News(e).type = e.type /\ News(e).status = e.status
      /\ e.turns \in Nat /\ e.status \in {"none", "failed", "completed"}
      /\ e.type \in {"SessionStart", "CodexTurnSummary", "SessionEnd", "PostmortemReady"}
  BY DEF News, GoodEvent, FeedEvent
<1>1. PICK n : n = News(e)
  OBVIOUS
<1>a. PICK o, d, k, x : o = f.observed /\ d = f.ended /\ k = f.turns /\ x = f.failed
  OBVIOUS
<1>b. f = HeardFacts(o, d, k, x) /\ k \in Nat /\ x \in Nat
  BY <1>a DEF Knows, Heard
<1>c. \A p, q, u, v : /\ HeardFacts(p, q, u, v).observed = p /\ HeardFacts(p, q, u, v).ended = q
                      /\ HeardFacts(p, q, u, v).turns = u /\ HeardFacts(p, q, u, v).failed = v
  BY DEF HeardFacts
<1>d. ASSUME NEW p, NEW q, NEW u, NEW v PROVE Heard(HeardFacts(p, q, u, v))
  <2>1. PICK h : h = HeardFacts(p, q, u, v)
    OBVIOUS
  <2>2. h.observed = p /\ h.ended = q /\ h.turns = u /\ h.failed = v
    BY <1>c, <2>1
  <2>3. h = HeardFacts(h.observed, h.ended, h.turns, h.failed)
    BY <2>1, <2>2, Zenon
  <2> QED BY <2>1, <2>3 DEF Heard
<1>2. CASE e.type = "SessionStart"
  <2>1. g = [f EXCEPT !.observed = TRUE]
    BY <1>2, Zenon DEF Track
  <2>2. g = HeardFacts(TRUE, d, k, x)
    BY <1>b, <2>1 DEF HeardFacts
  <2> HIDE DEF g
  <2>3. /\ Heard(g) /\ g.observed = TRUE /\ g.ended = f.ended /\ g.turns = f.turns
        /\ g.failed = f.failed
    <3>1. Heard(g)
      <4>1. Heard(HeardFacts(TRUE, d, k, x))
        BY <1>d
      <4> QED BY <2>2, <4>1
    <3>2. g.observed = TRUE
      BY <2>2 DEF HeardFacts
    <3>3. g.ended = d
      BY <2>2 DEF HeardFacts
    <3>4. g.turns = k /\ g.failed = x
      BY <2>2 DEF HeardFacts
    <3> QED BY <1>a, <3>1, <3>2, <3>3, <3>4
  <2> QED BY <1>0, <1>1, <1>2, <2>3 DEF Knows, g
<1>3. CASE e.type = "CodexTurnSummary"
  <2> DEFINE y == x + (IF e.status = "failed" THEN 1 ELSE 0)
  <2>1. g = [f EXCEPT !.observed = TRUE, !.turns = @ + 1,
               !.failed = @ + (IF e.status = "failed" THEN 1 ELSE 0),
               !.incomplete = @ + (IF e.status = "incomplete" THEN 1 ELSE 0),
               !.unknown = @ + (IF e.status = "unknown" THEN 1 ELSE 0)]
    BY <1>3, Zenon DEF Track
  <2>2. e.status # "incomplete" /\ e.status # "unknown"
    BY <1>0
  <2>3. g = HeardFacts(TRUE, d, k + 1, y)
    <3>1. /\ DOMAIN g = DOMAIN f /\ DOMAIN f = DOMAIN HeardFacts(TRUE, d, k + 1, y)
          /\ g.observed = TRUE /\ g.turns = f.turns + 1 /\ g.incomplete = f.incomplete + 0
          /\ g.unknown = f.unknown + 0
          /\ g.failed = f.failed + (IF e.status = "failed" THEN 1 ELSE 0)
      BY <1>b, <2>1, <2>2 DEF HeardFacts
    <3>2. /\ f.turns = k /\ f.failed = x /\ f.incomplete = 0 /\ f.unknown = 0
      BY <1>b DEF HeardFacts
    <3>3. g.turns = k + 1 /\ g.failed = y /\ g.incomplete = 0 /\ g.unknown = 0
      BY <3>1, <3>2
    <3>4. g = [f EXCEPT !.observed = TRUE, !.turns = k + 1, !.failed = y, !.incomplete = 0,
                !.unknown = 0]
      BY <2>1, <2>2, <3>2
    <3> HIDE DEF g, y
    <3> QED BY <1>b, <3>4 DEF HeardFacts
  <2>4. y \in Nat /\ (y > 0 <=> (x > 0 \/ e.status = "failed"))
    BY <1>b
  <2> HIDE DEF g, y
  <2>5. /\ Heard(g) /\ g.observed = TRUE /\ g.ended = f.ended /\ g.turns = k + 1
        /\ g.failed = y
    <3>1. Heard(g)
      <4>1. Heard(HeardFacts(TRUE, d, k + 1, y))
        BY <1>d
      <4> QED BY <2>3, <4>1
    <3>2. g.observed = TRUE
      BY <2>3 DEF HeardFacts
    <3>3. g.ended = d
      BY <2>3 DEF HeardFacts
    <3>4. g.turns = k + 1 /\ g.failed = y
      BY <2>3 DEF HeardFacts
    <3> QED BY <1>a, <3>1, <3>2, <3>3, <3>4
  <2>6. g.failed > 0 <=> \E z \in mine \cup {n} : z.type = "CodexTurnSummary" /\ z.status = "failed"
    BY <1>0, <1>1, <1>3, <1>a, <2>4, <2>5 DEF Knows
  <2>7. g.ended <=> \E z \in mine \cup {n} : z.type \in {"SessionEnd", "PostmortemReady"}
    BY <1>0, <1>1, <1>3, <2>5 DEF Knows
  <2>8. g.turns > 0 /\ g.turns \in Nat /\ g.failed \in Nat
    BY <1>b, <2>4, <2>5
  <2>9. \E z \in mine \cup {n} : z.type # "SessionStart"
    BY <1>0, <1>1, <1>3
  <2>10. g.observed \in BOOLEAN /\ g.ended \in BOOLEAN /\ (g.observed <=> mine \cup {n} # {})
    BY <2>5 DEF Knows
  <2>11. Knows(g, mine \cup {n})
    BY <2>5, <2>6, <2>7, <2>8, <2>9, <2>10 DEF Knows
  <2> QED BY <1>1, <2>11 DEF g
<1>4. CASE e.type \in {"SessionEnd", "PostmortemReady"}
  <2>1. e.turns > 0
    BY <1>4 DEF GoodEvent
  <2>2. g = [f EXCEPT !.observed = e.type = "PostmortemReady" \/ e.turns > 0,
               !.ended = TRUE, !.turns = e.turns]
    <3>1. CASE e.type = "SessionEnd"
      BY <3>1, Zenon DEF Track
    <3>2. CASE e.type = "PostmortemReady"
      BY <3>2, Zenon DEF Track
    <3> QED BY <1>4, <3>1, <3>2
  <2>3. (e.type = "PostmortemReady" \/ e.turns > 0) = TRUE
    BY <2>1
  <2>4. g = [f EXCEPT !.observed = TRUE, !.ended = TRUE, !.turns = e.turns]
    BY <2>2, <2>3, Zenon
  <2>5. g = HeardFacts(TRUE, TRUE, e.turns, x)
    <3> HIDE DEF g
    <3> QED BY <1>b, <2>4 DEF HeardFacts
  <2> HIDE DEF g
  <2>6. /\ Heard(g) /\ g.observed = TRUE /\ g.ended = TRUE /\ g.turns = e.turns
        /\ g.failed = f.failed
    <3>1. Heard(g)
      <4>1. Heard(HeardFacts(TRUE, TRUE, e.turns, x))
        BY <1>d
      <4> QED BY <2>5, <4>1
    <3>2. g.observed = TRUE
      BY <2>5 DEF HeardFacts
    <3>3. g.ended = TRUE
      BY <2>5 DEF HeardFacts
    <3>4. g.turns = e.turns /\ g.failed = x
      BY <2>5 DEF HeardFacts
    <3> QED BY <1>a, <3>1, <3>2, <3>3, <3>4
  <2>7. g.failed > 0 <=> \E z \in mine \cup {n} : z.type = "CodexTurnSummary" /\ z.status = "failed"
    BY <1>0, <1>1, <1>4, <2>6 DEF Knows
  <2>8. \E z \in mine \cup {n} : z.type \in {"SessionEnd", "PostmortemReady"}
    BY <1>0, <1>1, <1>4
  <2>9. \E z \in mine \cup {n} : z.type # "SessionStart"
    BY <1>0, <1>1, <1>4
  <2>10. g.turns > 0 /\ g.turns \in Nat /\ g.failed \in Nat
    BY <1>0, <1>a, <1>b, <2>1, <2>6
  <2>11. g.observed \in BOOLEAN /\ g.ended \in BOOLEAN /\ (g.observed <=> mine \cup {n} # {})
    BY <2>6
  <2>12. Knows(g, mine \cup {n})
    BY <2>6, <2>7, <2>8, <2>9, <2>10, <2>11 DEF Knows
  <2> QED BY <1>1, <2>12 DEF g
<1> QED BY <1>0, <1>2, <1>3, <1>4

LEMMA NextIsGood ==
  ASSUME FeedsOK, Send
  PROVE  GoodEvent(Next1, turns)
<1>1. GoodFeed(Pending, turns)
  BY GoodConcat DEF Pending, FeedsOK
<1> QED BY <1>1, GoodTail DEF Send, Next1

LEMMA TrackStays ==
  ASSUME FeedsOK, TrackOK, FeedStep
  PROVE  TrackOK'
<1>1. CASE UNCHANGED <<facts, met>>
  BY <1>1 DEF TrackOK
<1>2. CASE HearPlainly
  <2> DEFINE e == Next1
  <2>1. GoodEvent(e, turns)
    BY <1>2, NextIsGood DEF HearPlainly
  <2>2. /\ facts' = [facts EXCEPT ![e.session] = Track(@, e)]
        /\ met' = met \cup {News(e)}
    BY <1>2 DEF HearPlainly, Judge, Remember
  <2> HIDE DEF e
  <2>3. e.session \in Session /\ News(e).session = e.session /\ Heeded(News(e))
    BY <2>1 DEF GoodEvent, FeedEvent, News, Heeded
  <2>4. ASSUME NEW s \in Session
        PROVE  Knows(facts'[s], {x \in met' : x.session = s})
    <3> DEFINE mine == {x \in met : x.session = s}
    <3>1. Knows(facts[s], mine)
      BY DEF TrackOK
    <3>2. CASE s = e.session
      <4>1. facts'[s] = Track(facts[s], e)
        BY <2>2, <2>3, <3>2 DEF TrackOK
      <4>2. {x \in met' : x.session = s} = mine \cup {News(e)}
        BY <2>2, <2>3, <3>2
      <4> HIDE DEF mine
      <4> QED BY <2>1, <3>1, <4>1, <4>2, TrackKnows
    <3>3. CASE s # e.session
      <4>1. facts'[s] = facts[s]
        BY <2>2, <2>3, <3>3 DEF TrackOK
      <4>2. {x \in met' : x.session = s} = mine
        BY <2>2, <2>3, <3>3
      <4> QED BY <3>1, <4>1, <4>2
    <3> QED BY <3>2, <3>3
  <2>5. DOMAIN facts' = Session
    BY <2>2 DEF TrackOK
  <2>6. \A x \in met' : Heeded(x)
    BY <2>2, <2>3 DEF TrackOK
  <2> QED BY <2>4, <2>5, <2>6 DEF TrackOK
<1>3. CASE UNCHANGED client
  BY <1>1, <1>3 DEF client, judging, hearing
<1>4. CASE Reconnect \/ HearInPanes
  BY <1>1, <1>4 DEF Reconnect, HearInPanes, judging
<1> QED BY <1>2, <1>3, <1>4 DEF FeedStep, Listen

\* What decide makes of such facts.
LEMMA DecideHeard ==
  ASSUME NEW f, Heard(f), f.turns \in Nat, f.failed \in Nat,
         f.observed \in BOOLEAN, f.ended \in BOOLEAN
  PROVE  Decide(f) =
           IF ~f.observed \/ (f.turns = 0 /\ ~f.ended) THEN "Watching"
           ELSE IF f.failed > 0 THEN "Stop" ELSE IF f.ended THEN "Ended" ELSE "Healthy"
<1> DEFINE ladder == Ladder(f)
           holds == {i \in DOMAIN ladder : ladder[i][1]}
<1>0. /\ f.block = FALSE /\ f.cooldown = FALSE /\ f.unavailable = FALSE /\ f.mismatch = FALSE
      /\ f.issues = {} /\ f.signals = {} /\ f.incomplete = 0 /\ f.unknown = 0
      /\ f.anomalies = 0 /\ f.fill = 0 /\ f.estimate = "absent"
  BY DEF Heard, HeardFacts
<1>1. Strongest(f) = "none"
  BY <1>0 DEF Strongest
<1>2. DOMAIN ladder = 1..21
  BY DEF Ladder
<1>3. ~ladder[1][1] /\ ~ladder[2][1] /\ ~ladder[3][1] /\ ~ladder[4][1]
  BY <1>0 DEF Ladder
<1>4. /\ ladder[5][1] <=> ~f.observed
      /\ ladder[6][1] <=> (f.turns = 0 /\ ~f.ended)
  BY DEF Ladder
<1>5. ~ladder[7][1] /\ ~ladder[8][1] /\ ~ladder[9][1] /\ ~ladder[10][1]
  BY <1>1 DEF Ladder
<1>6. ladder[11][1] <=> f.failed > 0
  BY Zenon DEF Ladder
<1>7. ~ladder[12][1] /\ ~ladder[13][1] /\ ~ladder[14][1] /\ ~ladder[15][1]
  <2>1. (ladder[12][1] <=> f.incomplete > 0) /\ (ladder[13][1] <=> f.anomalies > 0)
    BY Zenon DEF Ladder
  <2>2. (ladder[14][1] <=> f.fill >= StopContextPercent)
    BY Zenon DEF Ladder
  <2>3. (ladder[15][1] <=> f.fill >= CarefulContextPercent)
    BY Zenon DEF Ladder
  <2> QED BY <1>0, <2>1, <2>2, <2>3 DEF StopContextPercent, CarefulContextPercent
<1>8. ~ladder[16][1] /\ ~ladder[17][1] /\ (ladder[18][1] <=> f.ended)
  <2>1. (ladder[16][1] <=> f.mismatch) /\ (ladder[17][1] <=> f.unknown > 0)
    BY Zenon DEF Ladder
  <2>2. ladder[18][1] <=> f.ended
    BY Zenon DEF Ladder
  <2> QED BY <1>0, <2>1, <2>2
<1>9. ~ladder[19][1] /\ ~ladder[20][1] /\ ladder[21][1]
  BY <1>0, <1>1 DEF Ladder
<1>10. /\ ladder[5][2] = "Watching" /\ ladder[6][2] = "Watching" /\ ladder[11][2] = "Stop"
       /\ ladder[18][2] = "Ended" /\ ladder[21][2] = "Healthy"
  BY DEF Ladder
<1>11. Decide(f) = ladder[CHOOSE i \in holds : \A j \in holds : i <= j][2]
  BY DEF Decide
<1> HIDE DEF ladder
<1>12. \A i \in DOMAIN ladder :
         i \in {1, 2, 3, 4, 5, 6, 7, 8, 9, 10, 11, 12, 13, 14, 15, 16, 17, 18, 19, 20, 21}
  BY <1>2
<1>13. /\ holds \subseteq {5, 6, 11, 18, 21} /\ 21 \in holds
       /\ 5 \in holds <=> ~f.observed
       /\ 6 \in holds <=> (f.turns = 0 /\ ~f.ended)
       /\ 11 \in holds <=> f.failed > 0
       /\ 18 \in holds <=> f.ended
  BY <1>2, <1>3, <1>4, <1>5, <1>6, <1>7, <1>8, <1>9, <1>12
<1>14. PICK c : c = CHOOSE i \in holds : \A j \in holds : i <= j
  OBVIOUS
<1> HIDE DEF holds
<1>15. c \in holds /\ \A j \in holds : c <= j
  <2>1. holds \subseteq Nat /\ holds # {}
    BY <1>13
  <2>2. \E i \in holds : \A j \in holds : i <= j
    BY <2>1, LeastNumber
  <2> QED BY <1>14, <2>2
<1>16. c = 5 \/ c = 6 \/ c = 11 \/ c = 18 \/ c = 21
  BY <1>13, <1>15
<1>17. Decide(f) = ladder[c][2]
  BY <1>11, <1>14 DEF holds
<1>18. CASE ~f.observed \/ (f.turns = 0 /\ ~f.ended)
  <2>1. c <= 6
    BY <1>13, <1>15, <1>16, <1>18
  <2>2. c = 5 \/ c = 6
    BY <1>16, <2>1
  <2> QED BY <1>10, <1>17, <1>18, <2>2
<1>19. CASE ~(~f.observed \/ (f.turns = 0 /\ ~f.ended))
  <2>1. c # 5 /\ c # 6
    BY <1>13, <1>15, <1>19
  <2>2. CASE f.failed > 0
    <3>1. c <= 11
      BY <1>13, <1>15, <2>2
    <3>2. c = 11
      BY <1>16, <2>1, <3>1
    <3> QED BY <1>10, <1>17, <1>19, <2>2, <3>2
  <2>3. CASE ~(f.failed > 0) /\ f.ended
    <3>1. c <= 18 /\ c # 11
      BY <1>13, <1>15, <2>3
    <3>2. c = 18
      BY <1>16, <2>1, <3>1
    <3> QED BY <1>10, <1>17, <1>19, <2>3, <3>2
  <2>4. CASE ~(f.failed > 0) /\ ~f.ended
    <3>1. c # 11 /\ c # 18
      BY <1>13, <1>15, <2>4
    <3>2. c = 21
      BY <1>16, <2>1, <3>1
    <3> QED BY <1>10, <1>17, <1>19, <2>4, <3>2
  <2> QED BY <2>2, <2>3, <2>4
<1> QED BY <1>18, <1>19

LEMMA TrackOKRepeats == TrackOK => RepeatsChangeNothing
<1> SUFFICES ASSUME TrackOK, NEW s \in Session
             PROVE  LET mine == {e \in met : e.session = s}
                        Said(type, status) ==
                          \E e \in mine : e.type = type /\ e.status = status
                    IN Decide(facts[s]) =
                         IF Said("CodexTurnSummary", "failed") THEN "Stop"
                         ELSE IF \E e \in mine : e.type \in {"SessionEnd", "PostmortemReady"}
                              THEN "Ended"
                         ELSE IF \E e \in mine : e.type = "CodexTurnSummary"
                              THEN "Healthy" ELSE "Watching"
  BY DEF RepeatsChangeNothing
<1> DEFINE f == facts[s]
           mine == {e \in met : e.session = s}
<1>1. Knows(f, mine) /\ \A e \in mine : Heeded(e)
  BY DEF TrackOK
<1> HIDE DEF f, mine
<1>2. Decide(f) =
        IF ~f.observed \/ (f.turns = 0 /\ ~f.ended) THEN "Watching"
        ELSE IF f.failed > 0 THEN "Stop" ELSE IF f.ended THEN "Ended" ELSE "Healthy"
  BY <1>1, DecideHeard DEF Knows
<1>3. f.failed > 0 <=> \E e \in mine : e.type = "CodexTurnSummary" /\ e.status = "failed"
  BY <1>1 DEF Knows
<1>4. f.ended <=> \E e \in mine : e.type \in {"SessionEnd", "PostmortemReady"}
  BY <1>1 DEF Knows
<1>5. (~f.observed \/ (f.turns = 0 /\ ~f.ended))
        <=> ~\E e \in mine : e.type \in {"CodexTurnSummary", "SessionEnd", "PostmortemReady"}
  <2>1. f.turns \in Nat /\ (f.observed <=> mine # {})
        /\ (f.turns > 0 <=> \E e \in mine : e.type # "SessionStart")
    BY <1>1 DEF Knows
  <2>2. f.turns = 0 <=> ~(f.turns > 0)
    BY <2>1
  <2>3. \A e \in mine : e.type # "SessionStart"
          <=> e.type \in {"CodexTurnSummary", "SessionEnd", "PostmortemReady"}
    BY <1>1 DEF Heeded
  <2> QED BY <1>4, <2>1, <2>2, <2>3
<1>6. Decide(f) =
        IF \E e \in mine : e.type = "CodexTurnSummary" /\ e.status = "failed" THEN "Stop"
        ELSE IF \E e \in mine : e.type \in {"SessionEnd", "PostmortemReady"} THEN "Ended"
        ELSE IF \E e \in mine : e.type = "CodexTurnSummary" THEN "Healthy" ELSE "Watching"
  BY <1>2, <1>3, <1>4, <1>5
<1> QED BY <1>6 DEF f, mine

-----------------------------------------------------------------------------
(* The turns of a feed, as sets.                                           *)

LEMMA TurnsConcat ==
  ASSUME NEW a \in Seq(FeedEvent), NEW b \in Seq(FeedEvent)
  PROVE  TurnsIn(a \o b) = TurnsIn(a) \cup TurnsIn(b)
<1>1. /\ \A i \in DOMAIN a : i \in DOMAIN (a \o b) /\ (a \o b)[i] = a[i]
      /\ \A i \in DOMAIN b :
           Len(a) + i \in DOMAIN (a \o b) /\ (a \o b)[Len(a) + i] = b[i]
      /\ \A i \in DOMAIN (a \o b) :
           \/ i \in DOMAIN a /\ (a \o b)[i] = a[i]
           \/ i - Len(a) \in DOMAIN b /\ (a \o b)[i] = b[i - Len(a)]
  BY ConcatIs
<1>2. PICK ab : ab = a \o b
  OBVIOUS
<1>3. ASSUME NEW t \in TurnsIn(ab) PROVE t \in TurnsIn(a) \cup TurnsIn(b)
  BY <1>1, <1>2 DEF TurnsIn
<1>4. ASSUME NEW t \in TurnsIn(a) PROVE t \in TurnsIn(ab)
  BY <1>1, <1>2 DEF TurnsIn
<1>5. ASSUME NEW t \in TurnsIn(b) PROVE t \in TurnsIn(ab)
  <2>1. PICK i \in DOMAIN b : t = b[i].turn
    BY DEF TurnsIn
  <2>2. PICK k : k = Len(a) + i
    OBVIOUS
  <2>3. k \in DOMAIN ab /\ ab[k] = b[i]
    BY <1>1, <1>2, <2>2
  <2> QED BY <2>1, <2>3 DEF TurnsIn
<1> QED BY <1>2, <1>3, <1>4, <1>5

LEMMA TurnsTail ==
  ASSUME NEW q \in Seq(FeedEvent), q # <<>>
  PROVE  TurnsIn(q) = TurnsIn(Tail(q)) \cup {Head(q).turn}
<1>1. PICK r : r = Tail(q)
  OBVIOUS
<1>2. /\ Head(q) = q[1] /\ 1 \in DOMAIN q
      /\ \A i \in DOMAIN r : i + 1 \in DOMAIN q /\ r[i] = q[i + 1]
      /\ \A i \in DOMAIN q : i = 1 \/ (i - 1 \in DOMAIN r /\ r[i - 1] = q[i])
  BY <1>1, TailIs
<1>3. ASSUME NEW t \in TurnsIn(q) PROVE t \in TurnsIn(r) \cup {Head(q).turn}
  <2>1. PICK i \in DOMAIN q : t = q[i].turn
    BY DEF TurnsIn
  <2>2. CASE i = 1
    BY <1>2, <2>1, <2>2
  <2>3. CASE i # 1
    <3>1. PICK k : k = i - 1
      OBVIOUS
    <3>2. k \in DOMAIN r /\ r[k] = q[i]
      BY <1>2, <2>3, <3>1
    <3> QED BY <2>1, <3>2 DEF TurnsIn
  <2> QED BY <2>2, <2>3
<1>4. ASSUME NEW t \in TurnsIn(r) PROVE t \in TurnsIn(q)
  <2>1. PICK i \in DOMAIN r : t = r[i].turn
    BY DEF TurnsIn
  <2>2. PICK k : k = i + 1
    OBVIOUS
  <2>3. k \in DOMAIN q /\ r[i] = q[k]
    BY <1>2, <2>2
  <2> QED BY <2>1, <2>3 DEF TurnsIn
<1>5. Head(q).turn \in TurnsIn(q)
  BY <1>2 DEF TurnsIn
<1> QED BY <1>1, <1>3, <1>4, <1>5

LEMMA TurnsPicked ==
  ASSUME NEW q, NEW r, NEW D, PickedAs(r, q, D), D \subseteq DOMAIN q
  PROVE  TurnsIn(r) = {q[i].turn : i \in D} /\ TurnsIn(r) \subseteq TurnsIn(q)
<1>1. TurnsIn(r) = {q[i].turn : i \in D}
  BY DEF PickedAs, TurnsIn
<1> QED BY <1>1 DEF TurnsIn

LEMMA TurnsOne ==
  ASSUME NEW e \in FeedEvent
  PROVE  TurnsIn(<<e>>) = {e.turn} /\ (e.turn = 0 => Once(<<e>>)) /\ Once(<<e>>)
<1>1. DOMAIN <<e>> = {1} /\ <<e>>[1] = e
  OBVIOUS
<1> QED BY <1>1 DEF TurnsIn, Once

LEMMA TurnsNone == TurnsIn(<<>>) = {} /\ Once(<<>>)
BY DEF TurnsIn, Once

LEMMA OnceConcat ==
  ASSUME NEW a \in Seq(FeedEvent), NEW b \in Seq(FeedEvent), Once(a), Once(b),
         TurnsIn(a) \cap TurnsIn(b) \subseteq {0}
  PROVE  Once(a \o b)
<1>1. PICK ab : ab = a \o b
  OBVIOUS
<1>2. PICK n : n = Len(a)
  OBVIOUS
<1>3. /\ n \in Nat
      /\ \A i \in DOMAIN ab :
           \/ i \in DOMAIN a /\ i <= n /\ ab[i] = a[i]
           \/ i > n /\ i - n \in DOMAIN b /\ ab[i] = b[i - n]
      /\ DOMAIN ab \subseteq Nat
  <2>1. ab \in Seq(FeedEvent)
    BY <1>1, ConcatIs
  <2>2. DOMAIN ab \subseteq Nat
    BY <2>1
  <2> QED BY <1>1, <1>2, <2>2, ConcatIs
<1>4. ASSUME NEW i \in DOMAIN ab, NEW j \in DOMAIN ab, ab[i].turn # 0, ab[j].turn = ab[i].turn
      PROVE  i = j
  <2>0. i \in Nat /\ j \in Nat
    BY <1>3
  <2>1. CASE i \in DOMAIN a /\ ab[i] = a[i]
    <3>1. ab[i].turn \in TurnsIn(a)
      BY <2>1 DEF TurnsIn
    <3>2. CASE j \in DOMAIN a /\ ab[j] = a[j]
      BY <1>4, <2>1, <3>2 DEF Once
    <3>3. CASE j - n \in DOMAIN b /\ ab[j] = b[j - n]
      <4>1. ab[j].turn \in TurnsIn(b)
        BY <3>3 DEF TurnsIn
      <4> QED BY <1>4, <3>1, <4>1
    <3> QED BY <1>3, <3>2, <3>3
  <2>2. CASE i - n \in DOMAIN b /\ ab[i] = b[i - n]
    <3>1. ab[i].turn \in TurnsIn(b)
      BY <2>2 DEF TurnsIn
    <3>2. CASE j \in DOMAIN a /\ ab[j] = a[j]
      <4>1. ab[j].turn \in TurnsIn(a)
        BY <3>2 DEF TurnsIn
      <4> QED BY <1>4, <3>1, <4>1
    <3>3. CASE j - n \in DOMAIN b /\ ab[j] = b[j - n]
      <4>1. PICK k, l : k = i - n /\ l = j - n
        OBVIOUS
      <4>2. b[k].turn # 0 /\ b[l].turn = b[k].turn /\ k \in DOMAIN b /\ l \in DOMAIN b
        BY <1>4, <2>2, <3>3, <4>1
      <4>3. k = l
        BY <4>2 DEF Once
      <4> QED BY <1>3, <2>0, <4>1, <4>3
    <3> QED BY <1>3, <3>2, <3>3
  <2> QED BY <1>3, <2>1, <2>2
<1> QED BY <1>1, <1>4 DEF Once

LEMMA OnceTail ==
  ASSUME NEW q \in Seq(FeedEvent), q # <<>>, Once(q)
  PROVE  Once(Tail(q)) /\ (Head(q).turn # 0 => Head(q).turn \notin TurnsIn(Tail(q)))
<1>1. PICK r : r = Tail(q)
  OBVIOUS
<1>2. /\ Head(q) = q[1] /\ 1 \in DOMAIN q
      /\ \A i \in DOMAIN r : i \in Nat /\ i > 0 /\ i + 1 \in DOMAIN q /\ r[i] = q[i + 1]
  BY <1>1, TailIs
<1>3. ASSUME NEW i \in DOMAIN r, NEW j \in DOMAIN r, r[i].turn # 0, r[j].turn = r[i].turn
      PROVE  i = j
  <2>1. i + 1 \in DOMAIN q /\ j + 1 \in DOMAIN q /\ r[i] = q[i + 1] /\ r[j] = q[j + 1]
    BY <1>2
  <2>2. i + 1 = j + 1
    BY <1>3, <2>1 DEF Once
  <2> QED BY <1>2, <2>2
<1>4. ASSUME Head(q).turn # 0, NEW i \in DOMAIN r, r[i].turn = Head(q).turn PROVE FALSE
  <2>1. i + 1 \in DOMAIN q /\ r[i] = q[i + 1] /\ i > 0 /\ i \in Nat
    BY <1>2
  <2>2. i + 1 = 1
    BY <1>2, <1>4, <2>1 DEF Once
  <2> QED BY <2>1, <2>2
<1> QED BY <1>1, <1>3, <1>4 DEF Once, TurnsIn

LEMMA OncePicked ==
  ASSUME NEW q \in Seq(FeedEvent), NEW r \in Seq(FeedEvent), NEW D, PickedAs(r, q, D),
         D \subseteq DOMAIN q, Once(q)
  PROVE  Once(r)
<1>1. PICK place :
        /\ \A n \in DOMAIN r : place[n] \in D /\ r[n] = q[place[n]]
        /\ \A m, n \in DOMAIN r : m < n => place[m] < place[n]
  BY DEF PickedAs
<1>2. \A n \in DOMAIN r : n \in Nat /\ place[n] \in Nat
  BY <1>1
<1>3. ASSUME NEW m \in DOMAIN r, NEW n \in DOMAIN r, r[m].turn # 0, r[n].turn = r[m].turn
      PROVE  m = n
  <2>1. place[m] = place[n]
    BY <1>1, <1>3 DEF Once
  <2>2. ~(m < n) /\ ~(n < m)
    BY <1>1, <1>2, <2>1
  <2> QED BY <1>2, <2>2
<1> QED BY <1>3 DEF Once

\* What reaches a client of a broadcast.
LEMMA TurnsWanted ==
  ASSUME NEW ts, NEW q, GoodFeed(q, ts)
  PROVE  /\ OnlyWanted(q) \in Seq(FeedEvent)
         /\ TurnsIn(OnlyWanted(q)) \subseteq TurnsIn(q)
         /\ Once(q) => Once(OnlyWanted(q))
         /\ \A t \in TurnsIn(q) \ {0} :
              (mode = "session" => ts[t] = Watched) => t \in TurnsIn(OnlyWanted(q))
         /\ ~(\E i \in DOMAIN q : Wanted(q[i])) => TurnsIn(OnlyWanted(q)) = {}
<1> DEFINE D == {i \in DOMAIN q : Wanted(q[i])}
           r == OnlyWanted(q)
<1>1. PickedAs(r, q, D) /\ D \subseteq DOMAIN q /\ q \in Seq(FeedEvent) /\ r \in Seq(FeedEvent)
  BY OnlyWantedIs DEF GoodFeed
<1> HIDE DEF r
<1>2. TurnsIn(r) = {q[i].turn : i \in D} /\ TurnsIn(r) \subseteq TurnsIn(q)
  <2> HIDE DEF D
  <2> QED BY <1>1, TurnsPicked
<1>3. Once(q) => Once(r)
  <2> HIDE DEF D
  <2> QED BY <1>1, OncePicked
<1>4. ASSUME NEW t \in TurnsIn(q) \ {0}, mode = "session" => ts[t] = Watched
      PROVE  t \in TurnsIn(r)
  <2>1. PICK i \in DOMAIN q : q[i].turn = t
    BY DEF TurnsIn
  <2>2. ts[t] = q[i].session
    BY <2>1 DEF GoodFeed, GoodEvent
  <2>3. i \in D
    BY <1>4, <2>2 DEF Wanted
  <2> QED BY <1>2, <2>1, <2>3
<1>5. ~(\E i \in DOMAIN q : Wanted(q[i])) => TurnsIn(r) = {}
  BY <1>2
<1> QED BY <1>1, <1>2, <1>3, <1>4, <1>5 DEF r

\* The turns of a feed are turns.
LEMMA TurnsAreTurns ==
  ASSUME NEW ts \in Seq(Session), NEW q, GoodFeed(q, ts)
  PROVE  /\ q \in Seq(FeedEvent)
         /\ \A t \in TurnsIn(q) : t # 0 => t \in DOMAIN ts
         /\ TurnsIn(q) \subseteq 0..Len(ts)
<1>1. \A t \in TurnsIn(q) : t # 0 => t \in DOMAIN ts
  BY DEF GoodFeed, GoodEvent, TurnsIn
<1>2. DOMAIN ts = 1..Len(ts) /\ Len(ts) \in Nat
  OBVIOUS
<1> QED BY <1>1, <1>2 DEF GoodFeed

-----------------------------------------------------------------------------
(* A turn is published once.                                               *)

onces == <<turns, TaskTurns, history, backlog, inbox, replay, outgoing, late, heard, twice,
           notices, replayed, reach, mode, stage>>

LEMMA SameOnce == OnceOK /\ UNCHANGED onces => OnceOK'
<1> SUFFICES ASSUME OnceOK, UNCHANGED onces PROVE OnceOK'
  OBVIOUS
<1>1. ShouldLoad' = ShouldLoad
  BY DEF onces, ShouldLoad, HistoryHasSession, Wanted
<1> QED BY <1>1 DEF OnceOK, onces

LEMMA OnceBroadcast ==
  ASSUME WriterOK, FeedsOK, OnceOK, NEW events, GoodFeed(events, turns), Once(events),
         TurnsIn(events) \ {0} \subseteq TaskTurns, Broadcast(events),
         TaskTurns' = TaskTurns \ TurnsIn(events),
         UNCHANGED <<turns, mode, stage, backlog, replay, outgoing, reach, replayed, heard,
                     twice, notices>>
  PROVE  OnceOK'
<1>1. \A t \in TurnsIn(events) \ {0} :
        /\ t \notin TurnsIn(history) \cup TurnsIn(backlog)
        /\ stage # "down" => t \notin late
        /\ stage # "down" /\ t \in heard \cup TurnsIn(outgoing) => t \in replayed
  BY DEF OnceOK
<1>2. /\ turns \in Seq(Session) /\ history \in Seq(FeedEvent) /\ inbox \in Seq(FeedEvent)
      /\ events \in Seq(FeedEvent)
  BY DEF WriterOK, FeedsOK, GoodFeed
<1>3. Once(history') /\ TurnsIn(history') = TurnsIn(history) \cup TurnsIn(events)
  <2>1. history' = history \o events
    BY DEF Broadcast
  <2>2. Once(history) /\ TurnsIn(history) \cap TurnsIn(events) \subseteq {0}
    BY <1>1 DEF OnceOK
  <2> QED BY <1>2, <2>1, <2>2, OnceConcat, TurnsConcat
<1>4. /\ stage # "down" => late' = late \cup TurnsIn(events)
      /\ stage = "down" => late' = late
  BY DEF Broadcast, Listening, TurnsIn
<1>5. CASE stage # "down"
  <2>1. inbox' = inbox \o OnlyWanted(events)
    BY <1>5 DEF Broadcast, Listening
  <2>2. /\ OnlyWanted(events) \in Seq(FeedEvent) /\ Once(OnlyWanted(events))
        /\ TurnsIn(OnlyWanted(events)) \subseteq TurnsIn(events)
    BY TurnsWanted
  <2>3. Once(inbox) /\ TurnsIn(inbox) \cap TurnsIn(OnlyWanted(events)) \subseteq {0}
    BY <1>1, <1>5, <2>2 DEF OnceOK
  <2>4. Once(inbox') /\ TurnsIn(inbox') \subseteq TurnsIn(inbox) \cup TurnsIn(events)
    BY <1>2, <2>1, <2>2, <2>3, OnceConcat, TurnsConcat
  <2>5. /\ TurnsIn(inbox') \subseteq late' \cup {0}
        /\ TurnsIn(backlog) \cap late' \subseteq {0}
        /\ TurnsIn(outgoing) \cap late' \subseteq replayed \cup {0}
        /\ heard \cap TurnsIn(outgoing) = {}
        /\ twice \subseteq replayed \cap late'
    BY <1>1, <1>4, <1>5, <2>4 DEF OnceOK
  <2>6. heard \cap TurnsIn(inbox') \subseteq replayed
    <3>1. 0 \notin heard
      BY DEF OnceOK
    <3>2. heard \cap TurnsIn(inbox) \subseteq replayed
      BY <1>5 DEF OnceOK
    <3> QED BY <1>1, <1>5, <2>4, <3>1, <3>2
  <2>7. Once(backlog) /\ Once(replay) /\ Once(outgoing)
    BY DEF OnceOK
  <2>9. late' \subseteq 0..Len(turns) /\ heard \subseteq 1..Len(turns)
    <3>1. TurnsIn(events) \subseteq 0..Len(turns)
      BY <1>2, TurnsAreTurns
    <3> QED BY <1>4, <1>5, <3>1 DEF OnceOK
  <2>10. ASSUME NEW t \in TaskTurns'
         PROVE  /\ t \notin TurnsIn(history') \cup TurnsIn(backlog)
                /\ stage # "down" => t \notin late'
                /\ stage # "down" /\ t \in heard \cup TurnsIn(outgoing) => t \in replayed
    <3>1. t \in TaskTurns /\ t \notin TurnsIn(events)
      BY <2>10
    <3> QED BY <1>3, <1>4, <1>5, <3>1 DEF OnceOK
  <2>11. /\ stage \in {"subscribed", "loaded"} => heard = {} /\ twice = {} /\ notices = {}
         /\ stage = "loaded" => TurnsIn(replay) \subseteq replayed
         /\ stage = "loaded" /\ ~ShouldLoad => replay = <<>> /\ reach = {}
    BY DEF OnceOK
  <2>12. ShouldLoad' = ShouldLoad
    BY DEF ShouldLoad, HistoryHasSession, Wanted
  <2> QED BY <1>3, <2>4, <2>5, <2>6, <2>7, <2>9, <2>10, <2>11, <2>12 DEF OnceOK
<1>6. CASE stage = "down"
  <2>1. inbox' = inbox
    BY <1>6 DEF Broadcast, Listening
  <2>2. Once(inbox) /\ Once(backlog) /\ Once(replay) /\ Once(outgoing)
    BY DEF OnceOK
  <2>4. late' \subseteq 0..Len(turns) /\ heard \subseteq 1..Len(turns)
    BY <1>4, <1>6 DEF OnceOK
  <2>5. ASSUME NEW t \in TaskTurns'
        PROVE  t \notin TurnsIn(history') \cup TurnsIn(backlog)
    <3>1. t \in TaskTurns /\ t \notin TurnsIn(events)
      BY <2>5
    <3> QED BY <1>3, <3>1 DEF OnceOK
  <2> QED BY <1>3, <1>6, <2>1, <2>2, <2>4, <2>5 DEF OnceOK
<1> QED BY <1>5, <1>6

LEMMA OnceFinalize ==
  ASSUME WriterOK, FeedsOK, OnceOK, NEW s \in Session, NEW start \in BOOLEAN,
         Finalize(s, start), UNCHANGED client
  PROVE  OnceOK'
<1> DEFINE n == Len(turns) + 1
           new == [turn |-> n, session |-> s, start |-> start]
<1>1. turns \in Seq(Session) /\ Len(turns) \in Nat /\ Len(turns') = n
  BY DEF WriterOK, Finalize
<1>2. tasks' = tasks \cup {new}
  BY <1>1 DEF Finalize
<1>5. TaskTurns' \subseteq TaskTurns \cup {n}
  BY <1>2 DEF TaskTurns
<1>6. /\ TurnsIn(history) \subseteq 0..Len(turns) /\ TurnsIn(backlog) \subseteq 0..Len(turns)
      /\ TurnsIn(outgoing) \subseteq 0..Len(turns)
  BY <1>1, TurnsAreTurns DEF FeedsOK
<1>7. late \subseteq 0..Len(turns) /\ heard \subseteq 1..Len(turns)
  BY DEF OnceOK
<1>8. /\ n \notin TurnsIn(history) \cup TurnsIn(backlog) \cup TurnsIn(outgoing) \cup late \cup heard
      /\ late \subseteq 0..n /\ heard \subseteq 1..n
  BY <1>1, <1>6, <1>7
<1>9. /\ history' = history /\ backlog' = backlog /\ inbox' = inbox /\ replay' = replay
      /\ outgoing' = outgoing /\ late' = late /\ heard' = heard /\ twice' = twice
      /\ notices' = notices /\ replayed' = replayed /\ reach' = reach /\ mode' = mode
      /\ stage' = stage
  BY DEF Finalize, connection, ghosts, client, hearing
<1>10. ShouldLoad' = ShouldLoad
  BY <1>9 DEF ShouldLoad, HistoryHasSession, Wanted
<1> HIDE DEF n, new
<1>11. \A t \in TaskTurns' :
         /\ t \notin TurnsIn(history) \cup TurnsIn(backlog)
         /\ stage # "down" => t \notin late
         /\ stage # "down" /\ t \in heard \cup TurnsIn(outgoing) => t \in replayed
  BY <1>5, <1>8 DEF OnceOK
<1> QED BY <1>1, <1>8, <1>9, <1>10, <1>11 DEF OnceOK

LEMMA OnceOpen ==
  ASSUME WriterOK, FeedsOK, OnceOK, OpenStream, UNCHANGED client
  PROVE  /\ OnceOK'
         /\ \A t \in TurnsIn(replay) \ {0} : t \in TurnsIn(outgoing')
<1>1. PICK first, persisted :
        /\ outgoing' = first \o persisted \o OnlyWanted(backlog)
        /\ first = IF NeedsStart THEN <<Start(Watched)>> ELSE <<>>
        /\ GoodFeed(first, turns)
        /\ GoodFeed(persisted, turns)
        /\ PickedAs(persisted, replay,
             {i \in DOMAIN replay : ~(NeedsStart /\ replay[i].type = "SessionStart")})
  BY OutgoingIs
<1>2. /\ stage = "loaded" /\ stage' = "streaming" /\ backlog' = <<>> /\ replay' = <<>>
      /\ inbox' = inbox /\ turns' = turns /\ TaskTurns' = TaskTurns /\ history' = history
      /\ late' = late /\ replayed' = replayed /\ reach' = reach
      /\ heard' = heard /\ twice' = twice /\ notices' = notices
  BY OutgoingIs DEF core, finalizing, ghosts, client, hearing, TaskTurns
<1>3. /\ first \in Seq(FeedEvent) /\ persisted \in Seq(FeedEvent) /\ replay \in Seq(FeedEvent)
      /\ turns \in Seq(Session)
  BY <1>1 DEF GoodFeed, FeedsOK, WriterOK
<1>4. TurnsIn(first) \subseteq {0} /\ Once(first)
  <2>1. Start(Watched) \in FeedEvent /\ Start(Watched).turn = 0
    BY WatchedAssumption DEF FeedEvent, Start, Event, Status
  <2> QED BY <1>1, <2>1, TurnsOne, TurnsNone
<1>5. /\ TurnsIn(persisted) \subseteq TurnsIn(replay) /\ Once(persisted)
      /\ \A t \in TurnsIn(replay) \ {0} : t \in TurnsIn(persisted)
  <2> DEFINE D == {i \in DOMAIN replay : ~(NeedsStart /\ replay[i].type = "SessionStart")}
  <2>1. D \subseteq DOMAIN replay /\ PickedAs(persisted, replay, D) /\ Once(replay)
    BY <1>1 DEF OnceOK
  <2>2. ASSUME NEW t \in TurnsIn(replay) \ {0} PROVE t \in {replay[i].turn : i \in D}
    <3>1. PICK i \in DOMAIN replay : replay[i].turn = t
      BY DEF TurnsIn
    <3>2. replay[i].type = "CodexTurnSummary"
      BY <2>2, <3>1 DEF FeedsOK, GoodFeed, GoodEvent
    <3> QED BY <3>1, <3>2
  <2> HIDE DEF D
  <2>3. TurnsIn(persisted) = {replay[i].turn : i \in D} /\ TurnsIn(persisted) \subseteq TurnsIn(replay)
    BY <2>1, TurnsPicked
  <2>4. Once(persisted)
    BY <1>3, <2>1, OncePicked
  <2> QED BY <2>2, <2>3, <2>4
<1>6. PICK wanted : wanted = OnlyWanted(backlog)
  OBVIOUS
<1>7. /\ wanted \in Seq(FeedEvent) /\ TurnsIn(wanted) \subseteq TurnsIn(backlog) /\ Once(wanted)
      /\ TurnsIn(persisted) \cap TurnsIn(wanted) = {}
  <2>1. /\ wanted \in Seq(FeedEvent) /\ TurnsIn(wanted) \subseteq TurnsIn(backlog) /\ Once(wanted)
        /\ ~HistoryHasSession(backlog) => TurnsIn(wanted) = {}
    BY <1>6, TurnsWanted DEF FeedsOK, OnceOK, HistoryHasSession
  <2>2. CASE ShouldLoad
    BY <2>1, <2>2 DEF ShouldLoad
  <2>3. CASE ~ShouldLoad
    <3>1. replay = <<>>
      BY <1>2, <2>3 DEF OnceOK
    <3> QED BY <1>5, <2>1, <3>1, TurnsNone
  <2> QED BY <2>2, <2>3
<1>8. first \o persisted \in Seq(FeedEvent) /\ Once(first \o persisted)
      /\ TurnsIn(first \o persisted) = TurnsIn(first) \cup TurnsIn(persisted)
  BY <1>3, <1>4, <1>5, OnceConcat, TurnsConcat, ConcatIs
<1>9. /\ Once(outgoing')
      /\ TurnsIn(outgoing') = TurnsIn(first) \cup TurnsIn(persisted) \cup TurnsIn(wanted)
  <2>1. PICK a : a = first \o persisted
    OBVIOUS
  <2>2. TurnsIn(a) \cap TurnsIn(wanted) \subseteq {0} /\ a \in Seq(FeedEvent) /\ Once(a)
    BY <1>4, <1>7, <1>8, <2>1
  <2>3. outgoing' = a \o wanted
    BY <1>1, <1>6, <2>1
  <2> QED BY <1>7, <1>8, <2>1, <2>2, <2>3, OnceConcat, TurnsConcat
<1>10. /\ heard = {} /\ twice = {} /\ TurnsIn(replay) \subseteq replayed
       /\ TurnsIn(backlog) \cap late \subseteq {0} /\ TurnsIn(inbox) \subseteq late \cup {0}
  BY <1>2 DEF OnceOK
<1>11. TurnsIn(outgoing') \cap late \subseteq replayed \cup {0}
  BY <1>4, <1>5, <1>7, <1>9, <1>10
<1>12. ASSUME NEW t \in TaskTurns
       PROVE  /\ t \notin TurnsIn(history) \cup TurnsIn(<<>>)
              /\ t \notin late
              /\ t \in heard \cup TurnsIn(outgoing') => t \in replayed
  <2>0. t # 0
    BY DEF FeedsOK, GoodTask, TaskTurns
  <2>1. t \notin TurnsIn(history) \cup TurnsIn(backlog) /\ t \notin late /\ t # 0
    BY <1>2, <2>0 DEF OnceOK
  <2> QED BY <1>4, <1>5, <1>7, <1>9, <1>10, <2>1, TurnsNone
<1>13. OnceOK'
  <2>1. Once(history) /\ Once(inbox)
    BY DEF OnceOK
  <2>2. /\ late \subseteq 0..Len(turns) /\ heard \subseteq 1..Len(turns)
    BY DEF OnceOK
  <2> QED BY <1>2, <1>9, <1>10, <1>11, <1>12, <2>1, <2>2, TurnsNone DEF OnceOK
<1> QED BY <1>5, <1>9, <1>13

LEMMA OnceListen ==
  ASSUME WriterOK, OrderOK, FeedsOK, OnceOK, (LoadReplay /\ UNCHANGED client) \/ Reconnect
  PROVE  OnceOK'
<1>1. CASE LoadReplay /\ UNCHANGED client
  <2>1. Once(replay')
    BY <1>1, ReplayFacts, TurnsNone DEF LoadReplay
  <2>2. /\ stage = "subscribed" /\ stage' = "loaded" /\ replayed' = TurnsIn(replay')
        /\ ~ShouldLoad => replay' = <<>> /\ reach' = {}
        /\ turns' = turns /\ TaskTurns' = TaskTurns /\ history' = history /\ backlog' = backlog
        /\ inbox' = inbox /\ outgoing' = outgoing /\ late' = late /\ mode' = mode
        /\ heard' = heard /\ twice' = twice /\ notices' = notices
    BY <1>1 DEF LoadReplay, TurnsIn, core, finalizing, client, hearing, TaskTurns
  <2>3. outgoing = <<>> /\ heard = {} /\ twice = {} /\ notices = {}
    BY <2>2 DEF FeedsOK, OnceOK
  <2>4. ShouldLoad' = ShouldLoad
    BY <2>2 DEF ShouldLoad, HistoryHasSession, Wanted
  <2>5. \A t \in TaskTurns : t \notin TurnsIn(history) \cup TurnsIn(backlog) /\ t \notin late
    BY <2>2 DEF OnceOK
  <2>6. TurnsIn(outgoing) = {}
    BY <2>3, TurnsNone
  <2>7. TurnsIn(inbox) \subseteq late \cup {0} /\ TurnsIn(backlog) \cap late \subseteq {0}
    BY <2>2 DEF OnceOK
  <2> QED BY <2>1, <2>2, <2>3, <2>4, <2>5, <2>6, <2>7 DEF OnceOK
<1>2. CASE Reconnect
  <2>1. /\ stage = "down" /\ stage' = "subscribed" /\ backlog' = history /\ inbox' = <<>>
        /\ late' = {} /\ heard' = {} /\ twice' = {} /\ notices' = {}
        /\ turns' = turns /\ TaskTurns' = TaskTurns /\ history' = history
        /\ replay' = replay /\ outgoing' = outgoing
    BY <1>2 DEF Reconnect, Subscribe, core, finalizing, TaskTurns
  <2>2. outgoing = <<>> /\ TurnsIn(outgoing) = {}
    BY <2>1, TurnsNone DEF FeedsOK
  <2> QED BY <2>1, <2>2, TurnsNone DEF OnceOK
<1> QED BY <1>1, <1>2

\* What sending and hearing the next event is.
LEMMA SendIs ==
  ASSUME FeedsOK, HearPlainly \/ HearInPanes
  PROVE  /\ stage = "streaming" /\ stage' = stage /\ mode' = mode /\ core' = core
         /\ backlog' = backlog /\ replay' = replay /\ ghosts' = ghosts
         /\ Next1 \in FeedEvent /\ GoodEvent(Next1, turns)
         /\ heard' = heard \cup ({Next1.turn} \ {0})
         /\ twice' = twice \cup ({Next1.turn} \cap heard)
         /\ \/ /\ outgoing # <<>> /\ Next1 = Head(outgoing)
               /\ outgoing' = Tail(outgoing) /\ inbox' = inbox
            \/ /\ outgoing = <<>> /\ inbox # <<>> /\ Next1 = Head(inbox)
               /\ outgoing' = outgoing /\ inbox' = Tail(inbox)
<1>1. Send
  BY DEF HearPlainly, HearInPanes
<1>2. outgoing \in Seq(FeedEvent) /\ inbox \in Seq(FeedEvent)
  BY DEF FeedsOK, GoodFeed
<1>3. Next1 \in FeedEvent /\ GoodEvent(Next1, turns)
  BY <1>1, NextIsGood DEF GoodEvent
<1>4. /\ heard' = heard \cup ({Next1.turn} \ {0})
      /\ twice' = twice \cup ({Next1.turn} \cap heard)
  BY DEF HearPlainly, HearInPanes, Hear
<1>5. CASE outgoing # <<>>
  <2>1. Head(outgoing \o inbox) = Head(outgoing)
    <3>1. /\ outgoing \o inbox \in Seq(FeedEvent) /\ 1 \in DOMAIN outgoing
          /\ Head(outgoing) = outgoing[1]
      BY <1>2, <1>5, TailIs, ConcatIs
    <3>2. PICK ab : ab = outgoing \o inbox
      OBVIOUS
    <3>3. 1 \in DOMAIN ab /\ ab[1] = outgoing[1] /\ ab \in Seq(FeedEvent)
      BY <1>2, <3>1, <3>2, ConcatIs
    <3> QED BY <3>1, <3>2, <3>3
  <2> QED BY <1>1, <1>3, <1>4, <1>5, <2>1 DEF Send, Next1, Pending
<1>6. CASE outgoing = <<>>
  <2>1. outgoing \o inbox = inbox
    BY <1>2, <1>6
  <2> QED BY <1>1, <1>3, <1>4, <1>6, <2>1 DEF Send, Next1, Pending
<1> QED BY <1>5, <1>6

LEMMA OnceHear ==
  ASSUME WriterOK, FeedsOK, OnceOK, HearPlainly \/ HearInPanes
  PROVE  OnceOK'
<1> DEFINE t == Next1.turn
<1>1. /\ stage = "streaming" /\ stage' = stage /\ mode' = mode
      /\ turns' = turns /\ TaskTurns' = TaskTurns /\ history' = history
      /\ backlog' = backlog /\ replay' = replay
      /\ late' = late /\ replayed' = replayed /\ reach' = reach
      /\ heard' = heard \cup ({t} \ {0})
      /\ twice' = twice \cup ({t} \cap heard)
  BY SendIs DEF core, finalizing, ghosts, TaskTurns
<1>2. t \in Nat /\ t \in 0..Len(turns) /\ turns \in Seq(Session)
  <2>1. t \in Nat /\ (t # 0 => t \in DOMAIN turns) /\ turns \in Seq(Session)
    BY SendIs DEF GoodEvent, FeedEvent, WriterOK
  <2> QED BY <2>1
<1>3. outgoing \in Seq(FeedEvent) /\ inbox \in Seq(FeedEvent) /\ Once(outgoing) /\ Once(inbox)
  BY DEF FeedsOK, GoodFeed, OnceOK
<1>4. /\ 0 \notin heard /\ late \subseteq 0..Len(turns) /\ heard' \subseteq 1..Len(turns)
  <2>1. heard \subseteq 1..Len(turns) /\ late \subseteq 0..Len(turns)
    BY DEF OnceOK
  <2>2. {t} \ {0} \subseteq 1..Len(turns) /\ Len(turns) \in Nat
    BY <1>2
  <2> HIDE DEF t
  <2>3. heard' \subseteq 1..Len(turns)
    BY <1>1, <2>1, <2>2
  <2> QED BY <2>1, <2>2, <2>3
<1>5. /\ TurnsIn(inbox) \subseteq late \cup {0}
      /\ TurnsIn(outgoing) \cap late \subseteq replayed \cup {0}
      /\ heard \cap TurnsIn(outgoing) = {}
      /\ heard \cap TurnsIn(inbox) \subseteq replayed
      /\ twice \subseteq replayed \cap late
      /\ TurnsIn(backlog) \cap late \subseteq {0}
  BY <1>1 DEF OnceOK
<1>6. \A x \in TaskTurns :
        /\ x \notin TurnsIn(history) \cup TurnsIn(backlog)
        /\ x \notin late
        /\ x \in heard \cup TurnsIn(outgoing) => x \in replayed
  BY <1>1 DEF OnceOK
<1>7. /\ Once(outgoing') /\ Once(inbox')
      /\ TurnsIn(outgoing') \subseteq TurnsIn(outgoing)
      /\ TurnsIn(inbox') \subseteq TurnsIn(inbox)
      /\ heard' \cap TurnsIn(outgoing') = {}
      /\ heard' \cap TurnsIn(inbox') \subseteq replayed
      /\ twice' \subseteq replayed \cap late
      /\ \A x \in TaskTurns :
           x \in heard' \cup TurnsIn(outgoing') => x \in replayed
  <2>1. CASE outgoing # <<>> /\ Next1 = Head(outgoing)
             /\ outgoing' = Tail(outgoing) /\ inbox' = inbox
    <3>1. TurnsIn(outgoing) = TurnsIn(outgoing') \cup {t}
      BY <1>3, <2>1, TurnsTail
    <3>2. Once(outgoing') /\ (t # 0 => t \notin TurnsIn(outgoing'))
      BY <1>3, <2>1, OnceTail
    <3>3. t \notin heard /\ twice' = twice
      BY <1>1, <1>5, <3>1
    <3>4. heard' \cap TurnsIn(inbox) \subseteq replayed
      BY <1>1, <1>5, <3>1
    <3> HIDE DEF t
    <3> QED BY <1>1, <1>3, <1>4, <1>5, <1>6, <2>1, <3>1, <3>2, <3>3, <3>4
  <2>2. CASE outgoing = <<>> /\ inbox # <<>> /\ Next1 = Head(inbox)
             /\ outgoing' = outgoing /\ inbox' = Tail(inbox)
    <3>1. TurnsIn(inbox) = TurnsIn(inbox') \cup {t}
      BY <1>3, <2>2, TurnsTail
    <3>2. Once(inbox') /\ (t # 0 => t \notin TurnsIn(inbox'))
      BY <1>3, <2>2, OnceTail
    <3>3. TurnsIn(outgoing') = {}
      BY <2>2, TurnsNone
    <3>4. {t} \cap heard \subseteq replayed \cap late
      BY <1>4, <1>5, <3>1
    <3> HIDE DEF t
    <3>5. heard' \cap TurnsIn(inbox') \subseteq replayed
      BY <1>1, <1>5, <3>1, <3>2
    <3>6. twice' \subseteq replayed \cap late
      BY <1>1, <1>5, <3>4
    <3>7. ASSUME NEW x \in TaskTurns, x \in heard' \cup TurnsIn(outgoing')
          PROVE  x \in replayed
      <4>1. x # t \/ t = 0
        BY <1>5, <1>6, <3>1
      <4>2. x \in heard
        BY <1>1, <3>3, <3>7, <4>1
      <4> QED BY <1>6, <4>2
    <3> QED BY <1>3, <2>2, <3>1, <3>2, <3>3, <3>5, <3>6, <3>7
  <2> QED BY <2>1, <2>2, SendIs
<1>8. Once(history) /\ Once(backlog) /\ Once(replay)
  BY DEF OnceOK
<1> HIDE DEF t
<1>10. TurnsIn(inbox') \subseteq late \cup {0} /\ TurnsIn(outgoing') \cap late \subseteq replayed \cup {0}
  BY <1>5, <1>7
<1> QED BY <1>1, <1>4, <1>5, <1>6, <1>7, <1>8, <1>10 DEF OnceOK

\* A notice, which is of no turn.
LEMMA NoticeIs ==
  ASSUME NEW e \in FeedEvent, e.turn = 0
  PROVE  Once(<<e>>) /\ TurnsIn(<<e>>) = {0}
BY TurnsOne

LEMMA OnceStays ==
  ASSUME WriterOK, OrderOK, FeedsOK, OnceOK, FeedStep
  PROVE  OnceOK'
<1>0. turns \in Seq(Session)
  BY DEF WriterOK
<1>1. ASSUME NEW k \in tasks, Publishes(k), UNCHANGED client PROVE OnceOK'
  <2>1. PICK e : e = EventOf(k)
    OBVIOUS
  <2>2. /\ GoodEvent(e, turns) /\ Broadcast(<<e>>)
        /\ e.turn = IF k.start THEN 0 ELSE k.turn
        /\ TaskTurns' = IF k.start THEN TaskTurns ELSE TaskTurns \ {k.turn}
        /\ UNCHANGED <<turns, mode, stage, backlog, replay, outgoing, reach, replayed, heard,
                       twice, notices>>
    BY <1>1, <2>1, PublishIs DEF client, hearing
  <2>3. GoodFeed(<<e>>, turns) /\ Once(<<e>>) /\ TurnsIn(<<e>>) = {e.turn}
    BY <2>2, GoodOne, TurnsOne DEF GoodEvent
  <2>4. 0 \notin TaskTurns /\ k.turn \in TaskTurns
    BY DEF FeedsOK, GoodTask, TaskTurns
  <2>5. /\ TurnsIn(<<e>>) \ {0} \subseteq TaskTurns
        /\ TaskTurns' = TaskTurns \ TurnsIn(<<e>>)
    BY <2>2, <2>3, <2>4
  <2> QED BY <2>2, <2>3, <2>5, OnceBroadcast
<1>2. ASSUME NEW s \in Session, EndSession(s), UNCHANGED client PROVE OnceOK'
  <2>1. PICK e : e = Event("SessionEnd", s, 0, memory[s])
    OBVIOUS
  <2>2. memory[s] \in Nat /\ memory[s] > 0
    BY <1>2 DEF EndSession, Quiet, FeedsOK
  <2>3. GoodEvent(e, turns) /\ e.turn = 0
    BY <2>1, <2>2, GoodNotice DEF Event
  <2>4. GoodFeed(<<e>>, turns) /\ Once(<<e>>) /\ TurnsIn(<<e>>) = {0}
    BY <2>3, GoodOne, NoticeIs DEF GoodEvent
  <2>5. Broadcast(<<e>>) /\ TaskTurns' = TaskTurns /\ 0 \notin TaskTurns
    BY <1>2, <2>1 DEF EndSession, finalizing, TaskTurns, FeedsOK, GoodTask
  <2>6. UNCHANGED <<turns, mode, stage, backlog, replay, outgoing, reach, replayed, heard,
                    twice, notices>>
    BY <1>2 DEF EndSession, finalizing, client, hearing
  <2>7. TurnsIn(<<e>>) \ {0} \subseteq TaskTurns /\ TaskTurns' = TaskTurns \ TurnsIn(<<e>>)
    BY <2>4, <2>5
  <2> QED BY <2>4, <2>5, <2>6, <2>7, OnceBroadcast
<1>3. CASE Commit /\ UNCHANGED client
  <2>1. /\ UNCHANGED <<turns, mode, stage, backlog, replay, outgoing, reach, replayed, heard,
                       twice, notices>>
        /\ TaskTurns' = TaskTurns /\ 0 \notin TaskTurns
    BY <1>3 DEF Commit, finalizing, client, hearing, TaskTurns, FeedsOK, GoodTask
  <2>2. CASE UNCHANGED <<history, inbox, late>>
    BY <2>1, <2>2, SameOnce DEF onces
  <2>3. CASE ~UNCHANGED <<history, inbox, late>>
    <3>1. PICK s : s = Head(queue).session
      OBVIOUS
    <3>2. PICK n : n = Len(Of(rows, s))
      OBVIOUS
    <3>3. Of(rows, s) # <<>> /\ Broadcast(<<Event("PostmortemReady", s, 0, n)>>) /\ queue # <<>>
      BY <1>3, <2>3, <3>1, <3>2 DEF Commit
    <3>4. s \in Session
      <4>1. queue \in Seq(DbCommand) /\ queue # <<>>
        BY <3>3 DEF WriterOK
      <4>2. Head(queue) \in DbCommand
        BY <4>1, TailIs
      <4> QED BY <3>1, <4>2 DEF DbCommand
    <3>5. n \in Nat /\ n > 0
      <4>1. Of(rows, s) \in Seq(Nat)
        BY OfRows
      <4> QED BY <3>2, <3>3, <4>1
    <3>6. PICK e : e = Event("PostmortemReady", s, 0, n)
      OBVIOUS
    <3>7. GoodEvent(e, turns) /\ e.turn = 0
      BY <3>4, <3>5, <3>6, GoodNotice DEF Event
    <3>8. GoodFeed(<<e>>, turns) /\ Once(<<e>>) /\ TurnsIn(<<e>>) = {0}
      BY <3>7, GoodOne, NoticeIs DEF GoodEvent
    <3>9. Broadcast(<<e>>)
      BY <3>3, <3>6
    <3>10. TurnsIn(<<e>>) \ {0} \subseteq TaskTurns /\ TaskTurns' = TaskTurns \ TurnsIn(<<e>>)
      BY <2>1, <3>8
    <3> QED BY <2>1, <3>8, <3>9, <3>10, OnceBroadcast
  <2> QED BY <2>2, <2>3
<1>4. ASSUME NEW s \in Session, NEW start \in BOOLEAN, Finalize(s, start), UNCHANGED client
      PROVE  OnceOK'
  BY <1>4, OnceFinalize
<1>10. ASSUME NEW s \in Session, NEW missed \in BOOLEAN, NEW prompted \in BOOLEAN,
              Enter(s, missed, prompted), UNCHANGED client
       PROVE  OnceOK'
  BY <1>10, SameOnce DEF Enter, connection, ghosts, client, hearing, onces, TaskTurns
<1>5. CASE Expire /\ UNCHANGED client
  <2>1. /\ history # <<>> /\ history' = Tail(history)
        /\ UNCHANGED <<turns, TaskTurns, backlog, inbox, replay, outgoing, late, heard, twice,
                       notices, replayed, reach, mode, stage>>
    BY <1>5 DEF Expire, connection, finalizing, ghosts, client, hearing, TaskTurns
  <2>2. history \in Seq(FeedEvent) /\ Once(history)
    BY DEF FeedsOK, GoodFeed, OnceOK
  <2>3. Once(history') /\ TurnsIn(history') \subseteq TurnsIn(history)
    BY <2>1, <2>2, OnceTail, TurnsTail
  <2>4. ShouldLoad' = ShouldLoad
    BY <2>1 DEF ShouldLoad, HistoryHasSession, Wanted
  <2> QED BY <2>1, <2>3, <2>4 DEF OnceOK
<1>6. CASE CoreCrash /\ UNCHANGED client
  <2>1. /\ tasks' = {} /\ history' = <<>> /\ stage' = "down" /\ backlog' = <<>> /\ inbox' = <<>>
        /\ replay' = <<>> /\ outgoing' = <<>>
        /\ late' = {} /\ UNCHANGED <<turns, heard, twice, notices>>
    BY <1>6 DEF CoreCrash, Hangup, ghosts, client, hearing
  <2>2. TaskTurns' = {}
    BY <2>1 DEF TaskTurns
  <2> QED BY <2>1, <2>2, TurnsNone DEF OnceOK
<1>7. CASE Disconnect /\ UNCHANGED client
  <2>1. /\ TaskTurns' = TaskTurns /\ history' = history /\ stage' = "down" /\ backlog' = <<>> /\ inbox' = <<>>
        /\ replay' = <<>> /\ outgoing' = <<>>
        /\ late' = {} /\ UNCHANGED <<turns, heard, twice, notices>>
    BY <1>7 DEF Disconnect, Hangup, ghosts, client, hearing, core, finalizing, TaskTurns
  <2> QED BY <2>1, TurnsNone DEF OnceOK
<1>8. CASE (\E s \in Session : Timeout(s) /\ UNCHANGED client) \/ UNCHANGED <<feedVars, client>>
  BY <1>8, SameOnce
  DEF Timeout, connection, ghosts, client, hearing, feedVars, core, finalizing, onces, TaskTurns
<1>9. CASE Listen
  BY <1>9, OnceOpen, OnceListen, OnceHear DEF Listen
<1> QED BY <1>1, <1>2, <1>3, <1>4, <1>5, <1>6, <1>7, <1>8, <1>9, <1>10 DEF FeedStep, Publishes

-----------------------------------------------------------------------------
(* Nothing falls between the database and the stream.                      *)

meets == <<turns, TaskTurns, history, backlog, inbox, replay, outgoing, late, heard, reach, mode,
           stage, queue, rows>>

LEMMA SameMeets == MeetsOK /\ UNCHANGED meets => MeetsOK'
<1> SUFFICES ASSUME MeetsOK, UNCHANGED meets PROVE MeetsOK'
  OBVIOUS
<1>1. OnTheWay' = OnTheWay /\ Stored' = Stored /\ \A t : WantedTurn(t)' <=> WantedTurn(t)
  BY DEF meets, OnTheWay, Stored, WantedTurn
<1> QED BY <1>1 DEF MeetsOK, meets

\* A broadcast, when what is on the way may have been stored since.
LEMMA MeetsBroadcast ==
  ASSUME WriterOK, FeedsOK, OnceOK, MeetsOK, NEW events, GoodFeed(events, turns),
         Broadcast(events),
         TaskTurns \subseteq TaskTurns' \cup TurnsIn(events),
         UNCHANGED <<turns, mode, stage, backlog, replay, outgoing, reach, heard, rows>>,
         OnTheWay' \subseteq OnTheWay
  PROVE  MeetsOK'
<1>1. /\ history \in Seq(FeedEvent) /\ inbox \in Seq(FeedEvent) /\ events \in Seq(FeedEvent)
  BY DEF FeedsOK, GoodFeed
<1>2. TurnsIn(history') = TurnsIn(history) \cup TurnsIn(events)
  BY <1>1, TurnsConcat DEF Broadcast
<1>3. stage # "down" => late' = late \cup TurnsIn(events)
  BY DEF Broadcast, Listening, TurnsIn
<1>4. Stored' = Stored /\ \A t : WantedTurn(t)' <=> WantedTurn(t)
  BY DEF Stored, WantedTurn
<1>5. ASSUME stage # "down", NEW t \in late' \ {0}, WantedTurn(t)
      PROVE  t \in heard \cup TurnsIn(outgoing) \cup TurnsIn(inbox')
  <2>1. inbox' = inbox \o OnlyWanted(events)
    BY <1>5 DEF Broadcast, Listening
  <2>2. /\ OnlyWanted(events) \in Seq(FeedEvent)
        /\ t \in TurnsIn(events) => t \in TurnsIn(OnlyWanted(events))
    BY <1>5, TurnsWanted DEF WantedTurn
  <2>3. TurnsIn(inbox') = TurnsIn(inbox) \cup TurnsIn(OnlyWanted(events))
    BY <1>1, <2>1, <2>2, TurnsConcat
  <2> QED BY <1>3, <1>5, <2>2, <2>3 DEF MeetsOK
<1>6. OnTheWay' \subseteq TaskTurns' \cup TurnsIn(history')
  BY <1>2 DEF MeetsOK
<1>7. stage = "subscribed" => OnTheWay' \subseteq TaskTurns' \cup TurnsIn(backlog) \cup late'
  BY <1>3 DEF MeetsOK
<1>8. stage \in {"loaded", "streaming"} =>
        \A t \in OnTheWay' : turns[t] \in reach /\ WantedTurn(t) => t \in TaskTurns' \cup late'
  BY <1>3 DEF MeetsOK
<1>9. stage \in {"loaded", "streaming"} =>
        \A t \in Stored : turns[t] \in reach /\ WantedTurn(t) =>
          t \in heard \cup TurnsIn(replay) \cup TurnsIn(outgoing) \cup TaskTurns' \cup late'
  BY <1>3 DEF MeetsOK
<1> QED BY <1>4, <1>5, <1>6, <1>7, <1>8, <1>9 DEF MeetsOK

\* Storing the next turn, or leaving a diagnosis.
LEMMA TakenIs ==
  ASSUME WriterOK, Commit
  PROVE  /\ OnTheWay' \subseteq OnTheWay
         /\ \/ rows' = rows
            \/ \E t \in OnTheWay : t \in DOMAIN turns /\ Stored' = Stored \cup {t}
<1>1. queue \in Seq(DbCommand) /\ queue # <<>> /\ queue' = Tail(queue) /\ rows \in Seq(Nat)
  BY DEF WriterOK, Commit
<1>2. /\ Head(queue) = queue[1] /\ 1 \in DOMAIN queue
      /\ \A i \in DOMAIN queue' : i + 1 \in DOMAIN queue /\ queue'[i] = queue[i + 1]
  BY <1>1, TailIs
<1>3. ASSUME NEW t \in OnTheWay' PROVE t \in OnTheWay
  <2>1. PICK i \in DOMAIN queue' : queue'[i].turn = t /\ t # 0
    BY DEF OnTheWay
  <2>2. PICK k : k = i + 1
    OBVIOUS
  <2>3. k \in DOMAIN queue /\ queue[k].turn = t
    BY <1>2, <2>1, <2>2
  <2> QED BY <2>1, <2>3 DEF OnTheWay
<1>4. CASE rows' # rows
  <2>1. PICK t : t = queue[1].turn
    OBVIOUS
  <2>2. rows' = Append(rows, t) /\ queue[1].op = "turn"
    BY <1>2, <1>4, <2>1 DEF Commit
  <2>3. t # 0 /\ t \in OnTheWay
    BY <1>2, <2>1, <2>2 DEF WriterOK, OnTheWay
  <2>4. t \in Nat /\ t <= Len(turns) /\ turns \in Seq(Session)
    <3>1. queue[1] \in DbCommand /\ queue[1].turn <= Len(turns)
      BY <1>1, <1>2 DEF WriterOK
    <3> QED BY <2>1, <3>1 DEF DbCommand, WriterOK
  <2>5. t \in DOMAIN turns
    BY <2>3, <2>4
  <2>6. Stored' = Stored \cup {t}
    <3>1. /\ Len(rows) \in Nat /\ DOMAIN rows = 1..Len(rows)
          /\ DOMAIN rows' = 1..(Len(rows) + 1)
          /\ \A i \in DOMAIN rows : rows'[i] = rows[i]
          /\ rows'[Len(rows) + 1] = t
      BY <1>1, <2>2, <2>4
    <3>2. \A i \in DOMAIN rows' : i \in DOMAIN rows \/ i = Len(rows) + 1
      BY <3>1
    <3>3. \A i \in DOMAIN rows : i \in DOMAIN rows'
      BY <3>1
    <3>4. Len(rows) + 1 \in DOMAIN rows'
      BY <3>1
    <3>5. Stored = {rows[i] : i \in DOMAIN rows} /\ Stored' = {rows'[i] : i \in DOMAIN rows'}
      BY DEF Stored, ToSet
    <3> QED BY <3>1, <3>2, <3>3, <3>4, <3>5
  <2> QED BY <1>3, <2>3, <2>5, <2>6
<1> QED BY <1>3, <1>4

LEMMA MeetsCommit ==
  ASSUME WriterOK, OrderOK, FeedsOK, OnceOK, MeetsOK, Commit, UNCHANGED client
  PROVE  MeetsOK'
<1>1. /\ UNCHANGED <<turns, mode, stage, backlog, replay, outgoing, reach, heard>>
      /\ TaskTurns' = TaskTurns
  BY DEF Commit, finalizing, client, hearing, TaskTurns
<1>2. CASE rows' = rows
  <2>1. OnTheWay' \subseteq OnTheWay
    BY TakenIs
  <2>2. CASE UNCHANGED <<history, inbox, late>>
    <3>1. Stored' = Stored /\ \A t : WantedTurn(t)' <=> WantedTurn(t)
      BY <1>1, <1>2 DEF Stored, WantedTurn
    <3> QED BY <1>1, <2>1, <2>2, <3>1 DEF MeetsOK
  <2>3. CASE ~UNCHANGED <<history, inbox, late>>
    <3>1. PICK s : s = Head(queue).session
      OBVIOUS
    <3>2. PICK n : n = Len(Of(rows, s))
      OBVIOUS
    <3>3. Of(rows, s) # <<>> /\ Broadcast(<<Event("PostmortemReady", s, 0, n)>>) /\ queue # <<>>
      BY <2>3, <3>1, <3>2 DEF Commit
    <3>4. s \in Session
      <4>1. queue \in Seq(DbCommand) /\ queue # <<>>
        BY <3>3 DEF WriterOK
      <4>2. Head(queue) \in DbCommand
        BY <4>1, TailIs
      <4> QED BY <3>1, <4>2 DEF DbCommand
    <3>5. n \in Nat /\ n > 0
      <4>1. Of(rows, s) \in Seq(Nat)
        BY OfRows
      <4> QED BY <3>2, <3>3, <4>1
    <3>6. PICK e : e = Event("PostmortemReady", s, 0, n)
      OBVIOUS
    <3>7. GoodFeed(<<e>>, turns)
      BY <3>4, <3>5, <3>6, GoodNotice, GoodOne
    <3>8. Broadcast(<<e>>)
      BY <3>3, <3>6
    <3> QED BY <1>1, <1>2, <2>1, <3>7, <3>8, MeetsBroadcast
  <2> QED BY <2>2, <2>3
<1>3. CASE rows' # rows
  <2>1. PICK t \in OnTheWay : t \in DOMAIN turns /\ Stored' = Stored \cup {t}
    BY <1>3, TakenIs
  <2>2. OnTheWay' \subseteq OnTheWay /\ \A u : WantedTurn(u)' <=> WantedTurn(u)
    BY <1>1, TakenIs DEF WantedTurn
  <2>3. UNCHANGED <<history, inbox, late>>
    BY <1>3 DEF Commit
  <2>4. stage \in {"loaded", "streaming"} =>
          \A u \in Stored' : turns[u] \in reach /\ WantedTurn(u) =>
            u \in heard \cup TurnsIn(replay) \cup TurnsIn(outgoing) \cup TaskTurns \cup late
    BY <2>1 DEF MeetsOK
  <2> QED BY <1>1, <2>2, <2>3, <2>4 DEF MeetsOK
<1> QED BY <1>2, <1>3

LEMMA MeetsFinalize ==
  ASSUME WriterOK, FeedsOK, OnceOK, MeetsOK, NEW s \in Session,
         NEW start \in BOOLEAN, Finalize(s, start), UNCHANGED client
  PROVE  MeetsOK'
<1> DEFINE n == Len(turns) + 1
           cmd == [op |-> "turn", turn |-> n, session |-> s]
           new == [turn |-> n, session |-> s, start |-> start]
<1>1. turns \in Seq(Session) /\ turns' = Append(turns, s) /\ Len(turns') = n /\ n \in Nat
  BY DEF WriterOK, Finalize
<1>2. /\ \A t \in DOMAIN turns : turns'[t] = turns[t]
      /\ DOMAIN turns = 1..Len(turns) /\ Len(turns) \in Nat
  BY <1>1
<1>3. /\ tasks' = tasks \cup {new}
      /\ queue' = Append(queue, cmd) /\ cmd.turn = n
      /\ history' = history /\ backlog' = backlog /\ inbox' = inbox /\ replay' = replay
      /\ outgoing' = outgoing /\ late' = late /\ heard' = heard /\ reach' = reach
      /\ mode' = mode /\ stage' = stage /\ rows' = rows
  BY <1>1 DEF Finalize, connection, ghosts, client, hearing
<1>4. TaskTurns' = TaskTurns \cup {n}
  <2>1. new.turn = n /\ tasks' = tasks \cup {new}
    BY <1>3
  <2> HIDE DEF new, n
  <2> QED BY <2>1 DEF TaskTurns
<1>5. OnTheWay' \subseteq OnTheWay \cup {n}
  <2>1. queue \in Seq(DbCommand) /\ cmd \in DbCommand
    BY <1>1 DEF WriterOK, DbCommand
  <2>2. \A i \in DOMAIN queue' : (i \in DOMAIN queue /\ queue'[i] = queue[i]) \/ queue'[i] = cmd
    <3> HIDE DEF cmd
    <3> QED BY <1>3, <2>1
  <2> QED BY <1>3, <2>2 DEF OnTheWay
<1>7. /\ OnTheWay \subseteq DOMAIN turns /\ Stored \subseteq DOMAIN turns
      /\ late \ {0} \subseteq DOMAIN turns
  <2>1. \A i \in DOMAIN queue : queue[i] \in DbCommand /\ queue[i].turn <= Len(turns)
    BY DEF WriterOK
  <2>2. \A i \in DOMAIN queue : queue[i].turn # 0 => queue[i].turn \in DOMAIN turns
    BY <1>2, <2>1 DEF DbCommand
  <2>3. OnTheWay \subseteq DOMAIN turns
    BY <2>2 DEF OnTheWay
  <2>4. Stored \subseteq DOMAIN turns
    BY DEF Stored, ToSet, WriterOK
  <2>5. late \ {0} \subseteq DOMAIN turns
    BY <1>2 DEF OnceOK
  <2> QED BY <2>3, <2>4, <2>5
<1>8. Stored' = Stored /\ \A t \in DOMAIN turns : WantedTurn(t)' <=> WantedTurn(t)
  BY <1>2, <1>3 DEF Stored, WantedTurn
<1> HIDE DEF n, cmd, new
<1>9. OnTheWay' \subseteq TaskTurns' \cup TurnsIn(history)
  BY <1>4, <1>5 DEF MeetsOK
<1>10. stage # "down" =>
         \A t \in late \ {0} :
           WantedTurn(t)' => t \in heard \cup TurnsIn(outgoing) \cup TurnsIn(inbox)
  BY <1>7, <1>8 DEF MeetsOK
<1>11. stage = "subscribed" => OnTheWay' \subseteq TaskTurns' \cup TurnsIn(backlog) \cup late
  BY <1>4, <1>5 DEF MeetsOK
<1>12. stage \in {"loaded", "streaming"} =>
         \A t \in OnTheWay' : turns'[t] \in reach /\ WantedTurn(t)' => t \in TaskTurns' \cup late
  BY <1>2, <1>4, <1>5, <1>7, <1>8 DEF MeetsOK
<1>13. stage \in {"loaded", "streaming"} =>
         \A t \in Stored : turns'[t] \in reach /\ WantedTurn(t)' =>
           t \in heard \cup TurnsIn(replay) \cup TurnsIn(outgoing) \cup TaskTurns' \cup late
  BY <1>2, <1>4, <1>7, <1>8 DEF MeetsOK
<1> QED BY <1>3, <1>8, <1>9, <1>10, <1>11, <1>12, <1>13 DEF MeetsOK

LEMMA MeetsListen ==
  ASSUME WriterOK, OrderOK, FeedsOK, OnceOK, MeetsOK, Listen
  PROVE  MeetsOK'
<1>0. turns' = turns /\ rows' = rows /\ queue' = queue /\ TaskTurns' = TaskTurns /\ history' = history
      /\ mode' = mode
  BY DEF Listen, LoadReplay, OpenStream, Reconnect, Subscribe, HearPlainly, HearInPanes,
         Send, core, finalizing, TaskTurns
<1>1. OnTheWay' = OnTheWay /\ Stored' = Stored /\ \A t : WantedTurn(t)' <=> WantedTurn(t)
  BY <1>0 DEF OnTheWay, Stored, WantedTurn
<1>2. CASE LoadReplay /\ UNCHANGED client
  <2>1. /\ stage = "subscribed" /\ stage' = "loaded" /\ backlog' = backlog /\ inbox' = inbox
        /\ outgoing' = outgoing /\ late' = late /\ heard' = heard
        /\ replay' = (IF ShouldLoad THEN ReplayEvents ELSE <<>>)
        /\ reach' = (IF ShouldLoad
                     THEN {s \in Session : Of(rows, s) # <<>> => s \in ToSet(ReplaySessions)}
                     ELSE {})
    BY <1>2 DEF LoadReplay, client, hearing
  <2>2. \A t \in late \ {0} : WantedTurn(t) => t \in heard \cup TurnsIn(outgoing) \cup TurnsIn(inbox)
    BY <2>1 DEF MeetsOK
  <2>3. ASSUME NEW t \in OnTheWay, turns[t] \in reach', WantedTurn(t)
        PROVE  t \in TaskTurns \cup late
    <3>1. ShouldLoad
      BY <2>1, <2>3
    <3>2. t \in TaskTurns \cup TurnsIn(backlog) \cup late /\ t # 0
      BY <2>1 DEF MeetsOK, OnTheWay
    <3>3. ASSUME t \in TurnsIn(backlog) PROVE FALSE
      <4>1. PICK i \in DOMAIN backlog : backlog[i].turn = t
        BY <3>3 DEF TurnsIn
      <4>2. backlog[i].session = turns[t]
        BY <3>2, <4>1 DEF FeedsOK, GoodFeed, GoodEvent
      <4>3. Wanted(backlog[i])
        BY <2>3, <4>2 DEF Wanted, WantedTurn
      <4> QED BY <3>1, <4>3 DEF ShouldLoad, HistoryHasSession
    <3> QED BY <3>2, <3>3
  <2>4. ASSUME NEW t \in Stored, turns[t] \in reach' PROVE t \in TurnsIn(replay')
    <3>1. ShouldLoad
      BY <2>1, <2>4
    <3>2. PICK s : s = turns[t]
      OBVIOUS
    <3>3. Of(rows, s) # <<>>
      <4>1. \A u \in Stored : turns[u] = s => \E k \in DOMAIN Of(rows, s) : Of(rows, s)[k] = u
        BY OfRows
      <4>2. \E k \in DOMAIN Of(rows, s) : Of(rows, s)[k] = t
        BY <2>4, <3>2, <4>1
      <4> QED BY <4>2
    <3>4. turns[t] \in ToSet(ReplaySessions)
      BY <2>1, <2>4, <3>1, <3>2, <3>3
    <3> QED BY <2>1, <3>1, <3>4, ReplayFacts
  <2> QED BY <1>0, <1>1, <2>1, <2>2, <2>3, <2>4 DEF MeetsOK
<1>3. CASE OpenStream /\ UNCHANGED client
  <2>1. /\ stage = "loaded" /\ stage' = "streaming" /\ inbox' = inbox /\ late' = late
        /\ heard' = heard /\ reach' = reach
    BY <1>3, OutgoingIs DEF ghosts, client, hearing
  <2>2. \A t \in TurnsIn(replay) \ {0} : t \in TurnsIn(outgoing')
    BY <1>3, OnceOpen
  <2>3. TurnsIn(outgoing) = {}
    BY <2>1, TurnsNone DEF FeedsOK
  <2>4. 0 \notin Stored
    <3>1. Stored \subseteq DOMAIN turns /\ turns \in Seq(Session)
      BY DEF Stored, ToSet, WriterOK
    <3> QED BY <3>1
  <2>5. \A t \in late \ {0} : WantedTurn(t) => t \in heard \cup TurnsIn(outgoing') \cup TurnsIn(inbox)
    BY <2>1, <2>3 DEF MeetsOK
  <2>6. \A t \in OnTheWay : turns[t] \in reach /\ WantedTurn(t) => t \in TaskTurns \cup late
    BY <2>1 DEF MeetsOK
  <2>7. \A t \in Stored : turns[t] \in reach /\ WantedTurn(t) =>
          t \in heard \cup TurnsIn(outgoing') \cup TaskTurns \cup late
    BY <2>1, <2>2, <2>3, <2>4 DEF MeetsOK
  <2>8. OnTheWay \subseteq TaskTurns \cup TurnsIn(history)
    BY DEF MeetsOK
  <2> QED BY <1>0, <1>1, <2>1, <2>5, <2>6, <2>7, <2>8 DEF MeetsOK
<1>4. CASE Reconnect
  <2>1. stage' = "subscribed" /\ backlog' = history /\ late' = {}
    BY <1>4 DEF Reconnect, Subscribe
  <2> QED BY <1>0, <1>1, <2>1 DEF MeetsOK
<1>5. CASE HearPlainly \/ HearInPanes
  <2> DEFINE t == Next1.turn
  <2>1. /\ stage = "streaming" /\ stage' = stage /\ backlog' = backlog /\ replay' = replay
        /\ late' = late /\ reach' = reach /\ heard' = heard \cup ({t} \ {0})
    BY <1>5, SendIs DEF ghosts
  <2>2. outgoing \in Seq(FeedEvent) /\ inbox \in Seq(FeedEvent)
    BY DEF FeedsOK, GoodFeed
  <2>3. /\ (heard \cup TurnsIn(outgoing)) \ {0} \subseteq heard' \cup TurnsIn(outgoing')
        /\ (heard \cup TurnsIn(outgoing) \cup TurnsIn(inbox)) \ {0}
             \subseteq heard' \cup TurnsIn(outgoing') \cup TurnsIn(inbox')
    <3>1. CASE outgoing # <<>> /\ Next1 = Head(outgoing)
               /\ outgoing' = Tail(outgoing) /\ inbox' = inbox
      <4>1. TurnsIn(outgoing) = TurnsIn(outgoing') \cup {t}
        BY <2>2, <3>1, TurnsTail
      <4> QED BY <2>1, <3>1, <4>1
    <3>2. CASE outgoing = <<>> /\ inbox # <<>> /\ Next1 = Head(inbox)
               /\ outgoing' = outgoing /\ inbox' = Tail(inbox)
      <4>1. TurnsIn(inbox) = TurnsIn(inbox') \cup {t}
        BY <2>2, <3>2, TurnsTail
      <4> QED BY <2>1, <3>2, <4>1
    <3> QED BY <1>5, <3>1, <3>2, SendIs
  <2> HIDE DEF t
  <2>4. 0 \notin Stored
    <3>1. Stored \subseteq DOMAIN turns /\ turns \in Seq(Session)
      BY DEF Stored, ToSet, WriterOK
    <3> QED BY <3>1
  <2>5. \A u \in late \ {0} : WantedTurn(u) => u \in heard' \cup TurnsIn(outgoing') \cup TurnsIn(inbox')
    BY <2>1, <2>3 DEF MeetsOK
  <2>6. \A u \in OnTheWay : turns[u] \in reach /\ WantedTurn(u) => u \in TaskTurns \cup late
    BY <2>1 DEF MeetsOK
  <2>7. \A u \in Stored : turns[u] \in reach /\ WantedTurn(u) =>
          u \in heard' \cup TurnsIn(replay) \cup TurnsIn(outgoing') \cup TaskTurns \cup late
    BY <2>1, <2>3, <2>4 DEF MeetsOK
  <2>8. OnTheWay \subseteq TaskTurns \cup TurnsIn(history)
    BY DEF MeetsOK
  <2> QED BY <1>0, <1>1, <2>1, <2>5, <2>6, <2>7, <2>8 DEF MeetsOK
<1> QED BY <1>2, <1>3, <1>4, <1>5 DEF Listen

LEMMA MeetsStay ==
  ASSUME WriterOK, OrderOK, FeedsOK, OnceOK, MeetsOK, FeedStep
  PROVE  MeetsOK'
<1>1. ASSUME NEW k \in tasks, Publishes(k), UNCHANGED client PROVE MeetsOK'
  <2>1. PICK e : e = EventOf(k)
    OBVIOUS
  <2>2. /\ GoodEvent(e, turns) /\ Broadcast(<<e>>) /\ OnTheWay' = OnTheWay
        /\ e.turn = IF k.start THEN 0 ELSE k.turn
        /\ TaskTurns' = IF k.start THEN TaskTurns ELSE TaskTurns \ {k.turn}
        /\ UNCHANGED <<turns, mode, stage, backlog, replay, outgoing, reach, heard, rows>>
    BY <1>1, <2>1, PublishIs DEF client, hearing, OnTheWay
  <2>3. GoodFeed(<<e>>, turns) /\ TurnsIn(<<e>>) = {e.turn}
    BY <2>2, GoodOne, TurnsOne DEF GoodEvent
  <2>4. TaskTurns \subseteq TaskTurns' \cup TurnsIn(<<e>>)
    BY <2>2, <2>3
  <2> QED BY <2>2, <2>3, <2>4, MeetsBroadcast
<1>2. ASSUME NEW s \in Session, EndSession(s), UNCHANGED client PROVE MeetsOK'
  <2>1. PICK e : e = Event("SessionEnd", s, 0, memory[s])
    OBVIOUS
  <2>2. memory[s] \in Nat /\ memory[s] > 0
    BY <1>2 DEF EndSession, Quiet, FeedsOK
  <2>3. GoodFeed(<<e>>, turns)
    BY <2>1, <2>2, GoodNotice, GoodOne
  <2>4. PICK cmd : cmd = [op |-> "diagnosis", turn |-> 0, session |-> s]
    OBVIOUS
  <2>5. /\ Broadcast(<<e>>) /\ TaskTurns' = TaskTurns /\ queue' = Append(queue, cmd)
        /\ UNCHANGED <<turns, mode, stage, backlog, replay, outgoing, reach, heard, rows>>
    BY <1>2, <2>1, <2>4 DEF EndSession, finalizing, client, hearing, TaskTurns
  <2>6. OnTheWay' \subseteq OnTheWay
    <3>1. queue \in Seq(DbCommand) /\ cmd \in DbCommand /\ cmd.turn = 0
      BY <2>4 DEF WriterOK, DbCommand
    <3>2. \A i \in DOMAIN queue' : (i \in DOMAIN queue /\ queue'[i] = queue[i]) \/ queue'[i] = cmd
      BY <2>5, <3>1
    <3> QED BY <3>1, <3>2 DEF OnTheWay
  <2> QED BY <2>3, <2>5, <2>6, MeetsBroadcast
<1>3. CASE Commit /\ UNCHANGED client
  BY <1>3, MeetsCommit
<1>4. ASSUME NEW s \in Session, NEW start \in BOOLEAN, Finalize(s, start), UNCHANGED client
      PROVE  MeetsOK'
  BY <1>4, MeetsFinalize
<1>10. ASSUME NEW s \in Session, NEW missed \in BOOLEAN, NEW prompted \in BOOLEAN,
              Enter(s, missed, prompted), UNCHANGED client
       PROVE  MeetsOK'
  BY <1>10, SameMeets DEF Enter, connection, ghosts, client, hearing, meets, TaskTurns
<1>5. CASE Expire /\ UNCHANGED client
  <2>1. /\ history # <<>> /\ history' = Tail(history) /\ Head(history).turn \in Stored \cup {0}
        /\ UNCHANGED <<turns, TaskTurns, backlog, inbox, replay, outgoing, late, heard, reach,
                       mode, stage, queue, rows>>
    BY <1>5 DEF Expire, connection, finalizing, ghosts, client, hearing, TaskTurns
  <2>2. history \in Seq(FeedEvent)
    BY DEF FeedsOK, GoodFeed
  <2>3. TurnsIn(history) = TurnsIn(history') \cup {Head(history).turn}
    BY <2>1, <2>2, TurnsTail
  <2>4. OnTheWay' = OnTheWay /\ Stored' = Stored /\ \A t : WantedTurn(t)' <=> WantedTurn(t)
    BY <2>1 DEF OnTheWay, Stored, WantedTurn
  <2>5. OnTheWay \cap (Stored \cup {0}) = {}
    BY DEF OnTheWay, Stored, ToSet, WriterOK
  <2>6. OnTheWay \subseteq TaskTurns \cup TurnsIn(history')
    BY <2>1, <2>3, <2>5 DEF MeetsOK
  <2> QED BY <2>1, <2>4, <2>6 DEF MeetsOK
<1>6. CASE CoreCrash /\ UNCHANGED client
  <2>1. queue' = <<>> /\ stage' = "down"
    BY <1>6 DEF CoreCrash, Hangup
  <2>2. OnTheWay' = {}
    BY <2>1 DEF OnTheWay
  <2> QED BY <2>1, <2>2 DEF MeetsOK
<1>7. CASE Disconnect /\ UNCHANGED client
  <2>1. TaskTurns' = TaskTurns /\ history' = history /\ stage' = "down" /\ queue' = queue
    BY <1>7 DEF Disconnect, Hangup, core, finalizing, TaskTurns
  <2>2. OnTheWay' = OnTheWay
    BY <2>1 DEF OnTheWay
  <2> QED BY <2>1, <2>2 DEF MeetsOK
<1>8. CASE (\E s \in Session : Timeout(s) /\ UNCHANGED client) \/ UNCHANGED <<feedVars, client>>
  BY <1>8, SameMeets
  DEF Timeout, connection, ghosts, client, hearing, feedVars, core, finalizing, meets, TaskTurns
<1>9. CASE Listen
  BY <1>9, MeetsListen
<1> QED BY <1>1, <1>2, <1>3, <1>4, <1>5, <1>6, <1>7, <1>8, <1>9, <1>10 DEF FeedStep, Publishes

LEMMA FeedOKMeets == WriterOK /\ FeedsOK /\ OnceOK /\ MeetsOK => ReplayMeetsLive
<1> SUFFICES ASSUME WriterOK, FeedsOK, OnceOK, MeetsOK, stage = "streaming"
             PROVE  /\ \A t \in Stored \cup (late \ {0}) :
                         turns[t] \in reach /\ Wanted(Summary(turns[t], t))
                           => t \in heard \cup TurnsIn(Pending) \cup TaskTurns
                    /\ twice \cup (heard \cap TurnsIn(Pending)) \subseteq replayed \cap late
  BY DEF ReplayMeetsLive, TaskTurns
<1>1. TurnsIn(Pending) = TurnsIn(outgoing) \cup TurnsIn(inbox)
  BY TurnsConcat DEF Pending, FeedsOK, GoodFeed
<1>2. replay = <<>> /\ TurnsIn(replay) = {}
  BY TurnsNone DEF FeedsOK
<1>3. ASSUME NEW t \in Stored \cup (late \ {0}), turns[t] \in reach, Wanted(Summary(turns[t], t))
      PROVE  t \in heard \cup TurnsIn(Pending) \cup TaskTurns
  <2>1. WantedTurn(t)
    BY <1>3 DEF WantedTurn, Wanted, Summary, Event
  <2>2. t # 0
    <3>1. Stored \subseteq DOMAIN turns /\ turns \in Seq(Session)
      BY DEF Stored, ToSet, WriterOK
    <3> QED BY <3>1
  <2> QED BY <1>1, <1>2, <1>3, <2>1, <2>2 DEF MeetsOK
<1>4. twice \cup (heard \cap TurnsIn(Pending)) \subseteq replayed \cap late
  BY <1>1 DEF OnceOK
<1> QED BY <1>3, <1>4

-----------------------------------------------------------------------------
(* The watched session in a feed.                                          *)

IsStart(e) == e.type = "SessionStart" /\ e.session = Watched

LEMMA TellsConcat ==
  ASSUME NEW a \in Seq(FeedEvent), NEW b \in Seq(FeedEvent), NEW type
  PROVE  /\ Tells(a \o b, type) <=> (Tells(a, type) \/ Tells(b, type))
         /\ HasTurn(a \o b) <=> (HasTurn(a) \/ HasTurn(b))
<1>1. /\ \A i \in DOMAIN a : i \in DOMAIN (a \o b) /\ (a \o b)[i] = a[i]
      /\ \A i \in DOMAIN b :
           Len(a) + i \in DOMAIN (a \o b) /\ (a \o b)[Len(a) + i] = b[i]
      /\ \A i \in DOMAIN (a \o b) :
           \/ i \in DOMAIN a /\ (a \o b)[i] = a[i]
           \/ i - Len(a) \in DOMAIN b /\ (a \o b)[i] = b[i - Len(a)]
  BY ConcatIs
<1>2. PICK ab, n : ab = a \o b /\ n = Len(a)
  OBVIOUS
<1>3. /\ \A i \in DOMAIN a : i \in DOMAIN ab /\ ab[i] = a[i]
      /\ \A i \in DOMAIN b : n + i \in DOMAIN ab /\ ab[n + i] = b[i]
      /\ \A i \in DOMAIN ab :
           \/ i \in DOMAIN a /\ ab[i] = a[i]
           \/ i - n \in DOMAIN b /\ ab[i] = b[i - n]
  BY <1>1, <1>2
<1>4. ASSUME Tells(ab, type) PROVE Tells(a, type) \/ Tells(b, type)
  BY <1>3, <1>4 DEF Tells
<1>5. ASSUME Tells(a, type) \/ Tells(b, type) PROVE Tells(ab, type)
  BY <1>3, <1>5 DEF Tells
<1>6. ASSUME HasTurn(ab) PROVE HasTurn(a) \/ HasTurn(b)
  BY <1>3, <1>6 DEF HasTurn
<1>7. ASSUME HasTurn(a) \/ HasTurn(b) PROVE HasTurn(ab)
  BY <1>3, <1>7 DEF HasTurn
<1> QED BY <1>2, <1>4, <1>5, <1>6, <1>7

LEMMA TellsNone ==
  /\ \A type : ~Tells(<<>>, type)
  /\ ~HasTurn(<<>>)
BY DEF Tells, HasTurn

\* What a client of the watched session gets of a feed.
LEMMA WatchedPicked ==
  ASSUME NEW q \in Seq(FeedEvent), NEW r \in Seq(FeedEvent), NEW D, PickedAs(r, q, D),
         D \subseteq DOMAIN q
  PROVE  /\ \A type : (\A i \in DOMAIN q : q[i].type = type /\ q[i].session = Watched => i \in D)
                        => (Tells(r, type) <=> Tells(q, type))
         /\ HasTurn(r) => HasTurn(q)
         /\ (\A i \in DOMAIN q : IsTurn(q[i]) => i \in D) /\ HasTurn(q) => HasTurn(r)
<1>1. PICK place :
        /\ \A n \in DOMAIN r : place[n] \in D /\ r[n] = q[place[n]]
        /\ \A m, n \in DOMAIN r : m < n => place[m] < place[n]
        /\ \A i \in D : \E n \in DOMAIN r : place[n] = i
  BY DEF PickedAs
<1>2. \A n \in DOMAIN r : n \in Nat /\ place[n] \in Nat /\ place[n] \in DOMAIN q
  BY <1>1
<1>3. ASSUME NEW type,
             \A i \in DOMAIN q : q[i].type = type /\ q[i].session = Watched => i \in D
      PROVE  Tells(r, type) <=> Tells(q, type)
  <2>1. ASSUME Tells(r, type) PROVE Tells(q, type)
    BY <1>1, <1>2, <2>1 DEF Tells
  <2>2. ASSUME Tells(q, type) PROVE Tells(r, type)
    BY <1>1, <1>3, <2>2 DEF Tells
  <2> QED BY <2>1, <2>2
<1>4. HasTurn(r) => HasTurn(q)
  BY <1>1, <1>2 DEF HasTurn
<1>5. (\A i \in DOMAIN q : IsTurn(q[i]) => i \in D) /\ HasTurn(q) => HasTurn(r)
  BY <1>1 DEF HasTurn
<1> QED BY <1>3, <1>4, <1>5

LEMMA WatchedWanted ==
  ASSUME NEW ts, NEW q, GoodFeed(q, ts), mode = "session"
  PROVE  LET w == OnlyWanted(q) IN
         /\ w \in Seq(FeedEvent) /\ GoodFeed(w, ts)
         /\ \A i \in DOMAIN w : w[i].session = Watched
         /\ \A type : Tells(w, type) <=> Tells(q, type)
         /\ HasTurn(w) <=> HasTurn(q)
<1> DEFINE D == {i \in DOMAIN q : Wanted(q[i])}
<1>1. PICK w : w = OnlyWanted(q)
  OBVIOUS
<1>2. /\ PickedAs(w, q, D) /\ GoodFeed(w, ts) /\ w \in Seq(FeedEvent) /\ q \in Seq(FeedEvent)
      /\ D \subseteq DOMAIN q
  BY <1>1, OnlyWantedIs DEF GoodFeed
<1>3. \A i \in DOMAIN q : i \in D <=> q[i].session = Watched
  BY DEF Wanted
<1>4. \A i \in DOMAIN w : w[i].session = Watched
  BY <1>2, <1>3 DEF PickedAs
<1> HIDE DEF D
<1>5. \A type : Tells(w, type) <=> Tells(q, type)
  BY <1>2, <1>3, WatchedPicked
<1>6. \A i \in DOMAIN q : IsTurn(q[i]) => i \in D
  BY <1>3 DEF IsTurn
<1>7. HasTurn(w) <=> HasTurn(q)
  BY <1>2, <1>6, WatchedPicked
<1> QED BY <1>1, <1>2, <1>4, <1>5, <1>7

\* What the stream has yet to send, after a broadcast and after a send.
LEMMA PendingGrows ==
  ASSUME FeedsOK, NEW events, GoodFeed(events, turns), Broadcast(events), stage # "down",
         outgoing' = outgoing
  PROVE  /\ inbox' = inbox \o OnlyWanted(events)
         /\ Pending' = Pending \o OnlyWanted(events)
         /\ Pending \in Seq(FeedEvent)
<1>1. inbox' = inbox \o OnlyWanted(events)
  BY DEF Broadcast, Listening
<1>2. /\ OnlyWanted(events) \in Seq(FeedEvent) /\ inbox \in Seq(FeedEvent)
      /\ outgoing \in Seq(FeedEvent)
  BY OnlyWantedIs DEF FeedsOK, GoodFeed
<1>3. PICK a, b, c : a = outgoing /\ b = inbox /\ c = OnlyWanted(events)
  OBVIOUS
<1>4. a \o (b \o c) = (a \o b) \o c /\ a \o b \in Seq(FeedEvent)
  BY <1>2, <1>3, ConcatAssociative, ConcatIs
<1>5. Pending' = a \o (b \o c)
  BY <1>1, <1>3 DEF Pending
<1> QED BY <1>1, <1>3, <1>4, <1>5 DEF Pending

LEMMA PendingShrinks ==
  ASSUME FeedsOK, HearPlainly \/ HearInPanes
  PROVE  /\ Pending \in Seq(FeedEvent) /\ Pending # <<>> /\ Next1 = Head(Pending)
         /\ Pending' = Tail(Pending) /\ GoodFeed(Pending, turns)
<1>1. Send
  BY DEF HearPlainly, HearInPanes
<1>2. outgoing \in Seq(FeedEvent) /\ inbox \in Seq(FeedEvent)
  BY DEF FeedsOK, GoodFeed
<1>3. /\ Pending \in Seq(FeedEvent) /\ Pending # <<>> /\ Next1 = Head(Pending)
      /\ GoodFeed(Pending, turns)
  BY <1>1, GoodConcat DEF Send, Next1, Pending, FeedsOK, GoodFeed
<1>4. CASE outgoing # <<>> /\ outgoing' = Tail(outgoing) /\ inbox' = inbox
  <2>1. PICK a, b : a = outgoing /\ b = inbox
    OBVIOUS
  <2>2. a \in Seq(FeedEvent) /\ b \in Seq(FeedEvent) /\ a # <<>>
    BY <1>2, <1>4, <2>1
  <2>3. PICK x, y : x = Tail(a) \o b /\ y = Tail(a \o b)
    OBVIOUS
  <2>4. /\ a \o b \in Seq(FeedEvent) /\ Len(a \o b) = Len(a) + Len(b) /\ Len(a) \in Nat
        /\ Len(b) \in Nat /\ Len(a) > 0
        /\ \A i \in 1..(Len(a) + Len(b)) : (a \o b)[i] = IF i <= Len(a) THEN a[i] ELSE b[i - Len(a)]
    BY <2>2, ConcatProperties
  <2>5. /\ Tail(a) \in Seq(FeedEvent) /\ Len(Tail(a)) = Len(a) - 1
        /\ \A i \in 1..(Len(a) - 1) : Tail(a)[i] = a[i + 1]
    BY <2>2
  <2>6. /\ x \in Seq(FeedEvent) /\ Len(x) = Len(a) - 1 + Len(b)
        /\ \A i \in 1..(Len(a) - 1 + Len(b)) :
             x[i] = IF i <= Len(a) - 1 THEN Tail(a)[i] ELSE b[i - (Len(a) - 1)]
    BY <2>2, <2>3, <2>5, ConcatProperties
  <2>7. PICK ab : ab = a \o b
    OBVIOUS
  <2>8. /\ ab # <<>> /\ y = Tail(ab) /\ ab \in Seq(FeedEvent) /\ Len(ab) = Len(a) + Len(b)
    BY <2>3, <2>4, <2>7
  <2>9. /\ y \in Seq(FeedEvent) /\ Len(y) = Len(a) + Len(b) - 1
        /\ \A i \in 1..(Len(a) + Len(b) - 1) : y[i] = ab[i + 1]
    BY <2>4, <2>8
  <2>10. ASSUME NEW i \in 1..Len(x) PROVE x[i] = y[i]
    <3>1. y[i] = ab[i + 1] /\ i \in Nat /\ i + 1 \in 1..(Len(a) + Len(b))
      BY <2>4, <2>6, <2>9
    <3>2. ab[i + 1] = IF i + 1 <= Len(a) THEN a[i + 1] ELSE b[(i + 1) - Len(a)]
      BY <2>4, <2>7, <3>1
    <3>3. x[i] = IF i <= Len(a) - 1 THEN Tail(a)[i] ELSE b[i - (Len(a) - 1)]
      BY <2>6
    <3>4. CASE i <= Len(a) - 1
      BY <2>4, <2>5, <3>1, <3>2, <3>3, <3>4
    <3>5. CASE ~(i <= Len(a) - 1)
      <4>1. ~(i + 1 <= Len(a)) /\ (i + 1) - Len(a) = i - (Len(a) - 1)
        BY <2>4, <3>1, <3>5
      <4> QED BY <3>1, <3>2, <3>3, <3>5, <4>1
    <3> QED BY <3>4, <3>5
  <2>11. x = y
    BY <2>4, <2>6, <2>9, <2>10, SeqEqual
  <2> QED BY <1>3, <1>4, <2>1, <2>3, <2>11 DEF Pending
<1>5. CASE outgoing = <<>> /\ inbox # <<>> /\ outgoing' = outgoing /\ inbox' = Tail(inbox)
  <2>1. /\ <<>> \o inbox = inbox /\ Tail(inbox) \in Seq(FeedEvent)
    BY <1>2, <1>5
  <2>2. <<>> \o Tail(inbox) = Tail(inbox)
    BY <2>1
  <2> QED BY <1>3, <1>5, <2>1, <2>2 DEF Pending
<1> QED BY <1>4, <1>5, SendIs

\* Dropping the first event.
LEMMA WatchedTail ==
  ASSUME NEW q \in Seq(FeedEvent), q # <<>>
  PROVE  /\ \A type : Tells(q, type) <=>
              (Tells(Tail(q), type) \/ (Head(q).type = type /\ Head(q).session = Watched))
         /\ HasTurn(q) <=> (HasTurn(Tail(q)) \/ IsTurn(Head(q)))
<1>1. PICK r : r = Tail(q)
  OBVIOUS
<1>2. /\ Head(q) = q[1] /\ 1 \in DOMAIN q
      /\ \A i \in DOMAIN r : i \in Nat /\ i > 0 /\ i + 1 \in DOMAIN q /\ r[i] = q[i + 1]
      /\ \A i \in DOMAIN q : i \in Nat /\ i > 0 /\ (i = 1 \/ (i - 1 \in DOMAIN r /\ r[i - 1] = q[i]))
  BY <1>1, TailIs
<1>3. ASSUME NEW type
      PROVE  Tells(q, type) <=>
               (Tells(r, type) \/ (Head(q).type = type /\ Head(q).session = Watched))
  <2>1. ASSUME Tells(q, type)
        PROVE  Tells(r, type) \/ (Head(q).type = type /\ Head(q).session = Watched)
    BY <1>2, <2>1 DEF Tells
  <2>2. ASSUME Tells(r, type) PROVE Tells(q, type)
    BY <1>2, <2>2 DEF Tells
  <2>3. ASSUME Head(q).type = type, Head(q).session = Watched PROVE Tells(q, type)
    BY <1>2, <2>3 DEF Tells
  <2> QED BY <2>1, <2>2, <2>3
<1>4. HasTurn(q) <=> (HasTurn(r) \/ IsTurn(Head(q)))
  <2>1. ASSUME HasTurn(q) PROVE HasTurn(r) \/ IsTurn(Head(q))
    BY <1>2, <2>1 DEF HasTurn
  <2>2. ASSUME HasTurn(r) PROVE HasTurn(q)
    BY <1>2, <2>2 DEF HasTurn
  <2>3. ASSUME IsTurn(Head(q)) PROVE HasTurn(q)
    BY <1>2, <2>3 DEF HasTurn
  <2> QED BY <2>1, <2>2, <2>3
<1> QED BY <1>1, <1>3, <1>4

-----------------------------------------------------------------------------
(* A filtered stream has a header.                                         *)

heads == <<live, mute, begun, tasks, history, backlog, inbox, replay, outgoing, notices,
           heard, mode, stage>>

\* A session of which the feed has something to say is live.
LiveOK ==
  HasTurn(history) \/ (\E k \in tasks : k.session = Watched)
    \/ begun[Watched][TRUE] > 0 \/ begun[Watched][FALSE] > 0 => Watched \in live

LEMMA SameHeader == HeaderOK /\ UNCHANGED heads => HeaderOK'
<1> SUFFICES ASSUME HeaderOK, UNCHANGED heads PROVE HeaderOK'
  OBVIOUS
<1>1. Pending' = Pending /\ \A type : Noted(type)' <=> Noted(type)
  BY DEF Noted, Pending, heads
<1>2. \A type : Told(type)' <=> Told(type)
  BY <1>1 DEF Told
<1>3. Announcing' <=> Announcing
  BY DEF Announcing, heads
<1> QED BY <1>1, <1>2, <1>3 DEF HeaderOK, heads

\* What is broadcast is a turn of a live session, its start, or a notice; when
\* a session ends the stream tells it, and when a start is no longer on its way
\* the stream has it.
LEMMA HeaderBroadcast ==
  ASSUME FeedsOK, HeaderOK, NEW e, GoodEvent(e, turns), Broadcast(<<e>>),
         UNCHANGED <<turns, mode, stage, backlog, replay, outgoing, heard, notices>>,
         LiveOK', IsTurn(e) => Watched \in live',
         Watched \in live' => Watched \in live,
         Watched \in live /\ Watched \notin live' => e.type = "SessionEnd" /\ e.session = Watched,
         Announcing /\ ~Announcing' => IsStart(e) \/ Watched \notin live'
  PROVE  HeaderOK'
<1>1. CASE mode # "session"
  BY <1>1 DEF HeaderOK, LiveOK
<1>2. CASE mode = "session" /\ stage = "down"
  BY <1>2 DEF HeaderOK, LiveOK, Broadcast, Listening
<1>3. CASE mode = "session" /\ stage # "down"
  <2>1. PICK events, w : events = <<e>> /\ w = OnlyWanted(events)
    OBVIOUS
  <2>2. /\ GoodFeed(events, turns) /\ events \in Seq(FeedEvent) /\ Broadcast(events)
        /\ DOMAIN events = {1} /\ events[1] = e
    <3>1. GoodFeed(events, turns)
      BY <2>1, GoodOne
    <3>2. DOMAIN <<e>> = {1} /\ <<e>>[1] = e
      OBVIOUS
    <3> QED BY <2>1, <3>1, <3>2 DEF GoodFeed
  <2>3. /\ \A type : Tells(events, type) <=> (e.type = type /\ e.session = Watched)
        /\ HasTurn(events) <=> IsTurn(e)
    BY <2>2 DEF Tells, HasTurn
  <2>4. /\ w \in Seq(FeedEvent) /\ (\A i \in DOMAIN w : w[i].session = Watched)
        /\ \A type : Tells(w, type) <=> (e.type = type /\ e.session = Watched)
        /\ HasTurn(w) <=> IsTurn(e)
    BY <1>3, <2>1, <2>2, <2>3, WatchedWanted
  <2>5. /\ inbox' = inbox \o w /\ Pending' = Pending \o w /\ Pending \in Seq(FeedEvent)
        /\ inbox \in Seq(FeedEvent)
    BY <1>3, <2>1, <2>2, PendingGrows DEF FeedsOK, GoodFeed
  <2>6. /\ \A type : Tells(inbox', type) <=> (Tells(inbox, type) \/ Tells(w, type))
        /\ \A type : Tells(Pending', type) <=> (Tells(Pending, type) \/ Tells(w, type))
        /\ HasTurn(inbox') <=> (HasTurn(inbox) \/ IsTurn(e))
        /\ HasTurn(Pending') <=> (HasTurn(Pending) \/ IsTurn(e))
    BY <2>4, <2>5, TellsConcat
  <2>7. \A q \in {inbox', replay', outgoing'} : \A i \in DOMAIN q : q[i].session = Watched
    <3>1. \A i \in DOMAIN inbox : inbox[i].session = Watched
      BY <1>3 DEF HeaderOK
    <3>2. \A i \in DOMAIN inbox' : inbox'[i].session = Watched
      BY <2>4, <2>5, <3>1, ConcatIs
    <3> QED BY <1>3, <3>2 DEF HeaderOK
  <2>8. ASSUME stage \in {"subscribed", "loaded"}
        PROVE  /\ HasTurn(backlog) \/ HasTurn(inbox') => Watched \in live' \/ Tells(inbox', "SessionEnd")
               /\ HasTurn(replay) => Tells(replay, "SessionStart")
    <3>1. HasTurn(backlog) \/ HasTurn(inbox) => Watched \in live \/ Tells(inbox, "SessionEnd")
      BY <1>3, <2>8 DEF HeaderOK
    <3>2. Watched \in live => Watched \in live' \/ Tells(inbox', "SessionEnd")
      BY <2>4, <2>6
    <3> QED BY <1>3, <2>6, <2>8, <3>1, <3>2 DEF HeaderOK
  <2>9. ASSUME stage = "streaming"
        PROVE  \/ Told("SessionEnd")' \/ Told("SessionStart")'
               \/ /\ heard' # {} \/ HasTurn(Pending') => Watched \in live'
                  /\ Watched \in live' => Announcing'
    <3>1. /\ \A type : Told(type) => Told(type)'
          /\ \A type : e.type = type /\ e.session = Watched => Told(type)'
      BY <2>4, <2>6 DEF Told, Noted
    <3>2. CASE Told("SessionEnd") \/ Told("SessionStart")
      BY <3>1, <3>2
    <3>3. CASE e.session = Watched /\ e.type \in {"SessionStart", "SessionEnd"}
      BY <3>1, <3>3
    <3>4. CASE /\ heard # {} \/ HasTurn(Pending) => Watched \in live
               /\ Watched \in live => Announcing
               /\ ~(e.session = Watched /\ e.type \in {"SessionStart", "SessionEnd"})
      <4>1. Watched \in live' <=> Watched \in live
        BY <3>4
      <4>2. heard' # {} \/ HasTurn(Pending') => Watched \in live'
        BY <2>6, <3>4, <4>1
      <4>3. Watched \in live' => Announcing'
        BY <3>4, <4>1 DEF IsStart
      <4> QED BY <4>2, <4>3
    <3> QED BY <1>3, <2>9, <3>2, <3>3, <3>4 DEF HeaderOK
  <2> QED BY <1>3, <2>7, <2>8, <2>9 DEF HeaderOK, LiveOK
<1> QED BY <1>1, <1>2, <1>3

LEMMA HeaderPublish ==
  ASSUME FeedsOK, HeaderOK, NEW k \in tasks, Publishes(k), UNCHANGED client
  PROVE  HeaderOK'
<1>1. PICK e : e = EventOf(k)
  OBVIOUS
<1>2. /\ GoodEvent(e, turns) /\ Broadcast(<<e>>) /\ e.session = k.session
      /\ e.type = IF k.start THEN "SessionStart" ELSE "CodexTurnSummary"
      /\ e.turn = IF k.start THEN 0 ELSE k.turn
      /\ UNCHANGED <<turns, begun, live, mute, mode, stage, backlog, replay, outgoing>>
      /\ UNCHANGED <<heard, notices>>
      /\ \A l \in tasks' : \E m \in tasks : l.turn = m.turn /\ l.session = m.session
      /\ ~k.start => tasks' = tasks \ {k}
      /\ k.start => tasks' = (tasks \ {k}) \cup {[k EXCEPT !.start = FALSE]}
      /\ k.turn # 0
  BY <1>1, PublishIs DEF sessions, client, hearing
<1>3. /\ HasTurn(history) \/ (\E l \in tasks : l.session = Watched)
           \/ begun[Watched][TRUE] > 0 \/ begun[Watched][FALSE] > 0 => Watched \in live
  BY DEF HeaderOK
<1>4. IsTurn(e) => Watched \in live
  BY <1>2, <1>3 DEF IsTurn
<1>5. HasTurn(history') => HasTurn(history) \/ IsTurn(e)
  <2>1. PICK events : events = <<e>>
    OBVIOUS
  <2>2. /\ GoodFeed(events, turns) /\ history' = history \o events
        /\ DOMAIN events = {1} /\ events[1] = e
    <3>1. DOMAIN <<e>> = {1} /\ <<e>>[1] = e
      OBVIOUS
    <3> QED BY <1>2, <2>1, <3>1, GoodOne DEF Broadcast
  <2>3. history \in Seq(FeedEvent) /\ events \in Seq(FeedEvent)
    BY <2>2 DEF FeedsOK, GoodFeed
  <2> QED BY <2>2, <2>3, TellsConcat DEF HasTurn
<1>6. LiveOK'
  BY <1>2, <1>3, <1>4, <1>5 DEF LiveOK
<1>7. Announcing /\ ~Announcing' => IsStart(e)
  <2> SUFFICES ASSUME Announcing, ~Announcing' PROVE IsStart(e)
    OBVIOUS
  <2>1. PICK l \in tasks : l.session = Watched /\ l.start /\ l \notin tasks'
    BY <1>2 DEF Announcing
  <2>2. l = k
    BY <1>2, <2>1, PublishIs
  <2> QED BY <1>2, <2>1, <2>2 DEF IsStart
<1> QED BY <1>2, <1>4, <1>6, <1>7, HeaderBroadcast

LEMMA HeaderEnter ==
  ASSUME FeedsOK, HeaderOK, NEW s \in Session, NEW missed \in BOOLEAN, NEW prompted \in BOOLEAN,
         Enter(s, missed, prompted), UNCHANGED client
  PROVE  HeaderOK'
<1>1. /\ begun' = [begun EXCEPT ![s][missed /\ prompted] = @ + 1] /\ live' = live \cup {s}
      /\ UNCHANGED <<tasks, history, backlog, inbox, replay, outgoing, mode, stage>>
      /\ UNCHANGED <<heard, notices>>
      /\ mute' = IF ~missed THEN mute
                 ELSE IF prompted THEN mute \ {s}
                 ELSE mute \cup ({s} \ live)
      /\ begun \in [Session -> [BOOLEAN -> Nat]]
      /\ missed \/ s \in live
  BY DEF Enter, connection, ghosts, client, hearing, FeedsOK
<1>2. \A x \in Session : x # s => begun'[x] = begun[x]
  BY <1>1
<1>3. /\ begun'[s][TRUE] \in Nat /\ begun[s][TRUE] \in Nat
      /\ begun[s][TRUE] > 0 => begun'[s][TRUE] > 0
      /\ missed /\ prompted => begun'[s][TRUE] > 0
  <2>1. PICK b \in BOOLEAN : b = (missed /\ prompted)
    OBVIOUS
  <2>2. begun' = [begun EXCEPT ![s][b] = @ + 1] /\ begun \in [Session -> [BOOLEAN -> Nat]]
    BY <1>1, <2>1
  <2>3. /\ begun'[s][TRUE] \in Nat /\ begun[s][TRUE] \in Nat
        /\ begun[s][TRUE] > 0 => begun'[s][TRUE] > 0
        /\ b = TRUE => begun'[s][TRUE] > 0
    <3>1. \A c \in BOOLEAN : begun[s][c] \in Nat /\ begun'[s][c] \in Nat
      BY <2>2
    <3>2. \A c \in BOOLEAN : begun[s][c] > 0 => begun'[s][c] > 0
      BY <2>2, <3>1
    <3>3. begun'[s][b] > 0
      BY <2>2, <3>1
    <3>4. b = TRUE => begun'[s][TRUE] > 0
      BY <3>3, Zenon
    <3> QED BY <3>1, <3>2, <3>4
  <2>4. missed /\ prompted => b = TRUE
    BY <2>1
  <2> QED BY <2>3, <2>4
<1>4. LiveOK'
  BY <1>1, <1>2, WatchedAssumption DEF LiveOK, HeaderOK
<1>5. Watched \in live /\ Announcing => Announcing'
  BY <1>1, <1>2, <1>3, WatchedAssumption DEF Announcing
<1>6. Watched \notin live /\ Watched \in live' => Announcing'
  BY <1>1, <1>3 DEF Announcing
<1>7. /\ Pending' = Pending
      /\ \A type : Told(type)' <=> Told(type)
  BY <1>1 DEF Pending, Told, Noted
<1>8. Watched \in live => Watched \in live'
  BY <1>1
<1> QED BY <1>1, <1>4, <1>5, <1>6, <1>7, <1>8 DEF HeaderOK, LiveOK

LEMMA HeaderFinalize ==
  ASSUME FeedsOK, HeaderOK, NEW s \in Session, NEW start \in BOOLEAN, Finalize(s, start),
         UNCHANGED client
  PROVE  HeaderOK'
<1>1. PICK k : k = [turn |-> Len(turns'), session |-> s, start |-> start]
  OBVIOUS
<1>2. /\ begun[s][start] > 0 /\ begun' = [begun EXCEPT ![s][start] = @ - 1]
      /\ tasks' = tasks \cup {k} /\ k.session = s /\ k.start = start
      /\ UNCHANGED <<live, mute, history, backlog, inbox, replay, outgoing, mode, stage>>
      /\ UNCHANGED <<heard, notices>>
      /\ begun \in [Session -> [BOOLEAN -> Nat]]
  BY <1>1 DEF Finalize, connection, ghosts, client, hearing, FeedsOK
<1>3. \A x \in Session, b \in BOOLEAN : ~(x = s /\ b = start) => begun'[x][b] = begun[x][b]
  BY <1>2
<1>4. /\ HasTurn(history) \/ (\E l \in tasks : l.session = Watched)
           \/ begun[Watched][TRUE] > 0 \/ begun[Watched][FALSE] > 0 => Watched \in live
  BY DEF HeaderOK
<1>5. s = Watched => Watched \in live
  BY <1>2, <1>4
<1>6. LiveOK'
  <2>1. CASE s = Watched
    BY <1>2, <1>5, <2>1 DEF LiveOK
  <2>2. CASE s # Watched
    BY <1>2, <1>3, <1>4, <2>2, WatchedAssumption DEF LiveOK
  <2> QED BY <2>1, <2>2
<1>7. Announcing => Announcing'
  BY <1>2, <1>3, WatchedAssumption DEF Announcing
<1>8. /\ Pending' = Pending
      /\ \A type : Told(type)' <=> Told(type)
  BY <1>2 DEF Pending, Told, Noted
<1> QED BY <1>2, <1>6, <1>7, <1>8 DEF HeaderOK, LiveOK

LEMMA HeaderOpen ==
  ASSUME FeedsOK, OnceOK, HeaderOK, OpenStream, UNCHANGED client
  PROVE  HeaderOK'
<1>1. PICK first, persisted :
        /\ outgoing' = first \o persisted \o OnlyWanted(backlog)
        /\ first = IF NeedsStart THEN <<Start(Watched)>> ELSE <<>>
        /\ GoodFeed(first, turns)
        /\ GoodFeed(persisted, turns)
        /\ PickedAs(persisted, replay,
             {i \in DOMAIN replay : ~(NeedsStart /\ replay[i].type = "SessionStart")})
  BY OutgoingIs
<1>2. /\ stage = "loaded" /\ stage' = "streaming" /\ backlog' = <<>> /\ replay' = <<>>
      /\ inbox' = inbox /\ turns' = turns /\ tasks' = tasks /\ history' = history
      /\ live' = live /\ begun' = begun /\ mute' = mute
      /\ mode' = mode /\ heard' = {} /\ notices' = {}
  BY OutgoingIs DEF core, finalizing, sessions, ghosts, client, hearing, OnceOK
<1>3. LiveOK'
  BY <1>2 DEF HeaderOK, LiveOK
<1>4. CASE mode # "session"
  BY <1>2, <1>3, <1>4 DEF HeaderOK, LiveOK
<1>5. CASE mode = "session"
  <2>1. PICK w : w = OnlyWanted(backlog)
    OBVIOUS
  <2>2. /\ w \in Seq(FeedEvent) /\ (\A i \in DOMAIN w : w[i].session = Watched)
        /\ (\A type : Tells(w, type) <=> Tells(backlog, type))
        /\ (HasTurn(w) <=> HasTurn(backlog))
    BY <1>5, <2>1, WatchedWanted DEF FeedsOK
  <2>3. /\ first \in Seq(FeedEvent) /\ persisted \in Seq(FeedEvent) /\ inbox \in Seq(FeedEvent)
        /\ replay \in Seq(FeedEvent)
    BY <1>1 DEF GoodFeed, FeedsOK
  <2>4. PICK a : a = first \o persisted
    OBVIOUS
  <2>5. a \in Seq(FeedEvent) /\ outgoing' = a \o w
    BY <1>1, <2>1, <2>3, <2>4, ConcatIs
  <2>6. outgoing' \in Seq(FeedEvent) /\ Pending' = outgoing' \o inbox
    BY <1>2, <2>2, <2>5, ConcatIs DEF Pending
  <2>7. /\ \A i \in DOMAIN inbox : inbox[i].session = Watched
        /\ \A i \in DOMAIN replay : replay[i].session = Watched
        /\ HasTurn(backlog) \/ HasTurn(inbox) => Watched \in live \/ Tells(inbox, "SessionEnd")
        /\ HasTurn(replay) => Tells(replay, "SessionStart")
    BY <1>2, <1>5 DEF HeaderOK
  <2>8. \A i \in DOMAIN outgoing' : outgoing'[i].session = Watched
    <3>1. \A i \in DOMAIN first : first[i].session = Watched
      <4>1. CASE NeedsStart
        <5>1. PICK e : e = Start(Watched)
          OBVIOUS
        <5>2. e.session = Watched /\ first = <<e>>
          BY <1>1, <4>1, <5>1 DEF Start, Event
        <5> QED BY <5>2
      <4>2. CASE ~NeedsStart
        BY <1>1, <4>2
      <4> QED BY <4>1, <4>2
    <3>2. \A i \in DOMAIN persisted : persisted[i].session = Watched
      BY <1>1, <2>7 DEF PickedAs
    <3>3. \A i \in DOMAIN a : a[i].session = Watched
      BY <2>3, <2>4, <3>1, <3>2, ConcatIs
    <3> QED BY <2>2, <2>5, <3>3, ConcatIs
  <2>9. /\ \A type : Tells(Pending', type) <=>
             \/ Tells(first, type) \/ Tells(persisted, type)
             \/ Tells(backlog, type) \/ Tells(inbox, type)
        /\ HasTurn(Pending') <=>
             \/ HasTurn(first) \/ HasTurn(persisted)
             \/ HasTurn(backlog) \/ HasTurn(inbox)
    <3>1. /\ \A type : Tells(a, type) <=> (Tells(first, type) \/ Tells(persisted, type))
          /\ HasTurn(a) <=> (HasTurn(first) \/ HasTurn(persisted))
      BY <2>3, <2>4, TellsConcat
    <3>2. /\ \A type : Tells(outgoing', type) <=> (Tells(a, type) \/ Tells(w, type))
          /\ HasTurn(outgoing') <=> (HasTurn(a) \/ HasTurn(w))
      BY <2>2, <2>5, TellsConcat
    <3>3. /\ \A type : Tells(Pending', type) <=> (Tells(outgoing', type) \/ Tells(inbox, type))
          /\ HasTurn(Pending') <=> (HasTurn(outgoing') \/ HasTurn(inbox))
      BY <2>3, <2>6, TellsConcat
    <3> QED BY <2>2, <3>1, <3>2, <3>3
  <2>10. \/ Told("SessionEnd")' \/ Told("SessionStart")'
         \/ ~HasTurn(Pending') /\ Watched \notin live
    <3>1. CASE NeedsStart
      <4>1. PICK e : e = Start(Watched)
        OBVIOUS
      <4>2. /\ first = <<e>> /\ e.type = "SessionStart" /\ e.session = Watched
            /\ DOMAIN <<e>> = {1} /\ <<e>>[1] = e
        BY <1>1, <3>1, <4>1 DEF Start, Event
      <4>3. Tells(first, "SessionStart")
        BY <4>2 DEF Tells
      <4> QED BY <2>9, <4>3 DEF Told
    <3>2. CASE HistoryHasStart(backlog)
      <4>1. Tells(backlog, "SessionStart")
        BY <3>2 DEF HistoryHasStart, Tells
      <4> QED BY <2>9, <4>1 DEF Told
    <3>3. CASE ~NeedsStart /\ ~HistoryHasStart(backlog)
      <4>1. Watched \notin live
        BY <1>5, <3>3 DEF NeedsStart
      <4>2. CASE Tells(inbox, "SessionEnd")
        BY <2>9, <4>2 DEF Told
      <4>3. CASE ~Tells(inbox, "SessionEnd")
        <5> DEFINE D == {i \in DOMAIN replay : ~(NeedsStart /\ replay[i].type = "SessionStart")}
        <5>1. PickedAs(persisted, replay, D) /\ D = DOMAIN replay
          BY <1>1, <3>3
        <5> HIDE DEF D
        <5>2. /\ Tells(persisted, "SessionStart") <=> Tells(replay, "SessionStart")
              /\ HasTurn(persisted) => HasTurn(replay)
          BY <2>3, <5>1, WatchedPicked
        <5>3. CASE Tells(replay, "SessionStart")
          BY <2>9, <5>2, <5>3 DEF Told
        <5>4. CASE ~Tells(replay, "SessionStart")
          <6>1. ~HasTurn(first)
            BY <1>1, <3>3, TellsNone
          <6> QED BY <2>7, <2>9, <4>1, <4>3, <5>2, <5>4, <6>1
        <5> QED BY <5>3, <5>4
      <4> QED BY <4>2, <4>3
    <3> QED BY <3>1, <3>2, <3>3
  <2>11. \A q \in {inbox', replay', outgoing'} : \A i \in DOMAIN q : q[i].session = Watched
    BY <1>2, <2>7, <2>8
  <2> QED BY <1>2, <1>3, <2>10, <2>11 DEF HeaderOK, LiveOK
<1> QED BY <1>4, <1>5

LEMMA HeaderListen ==
  ASSUME WriterOK, OrderOK, FeedsOK, HeaderOK, (LoadReplay /\ UNCHANGED client) \/ Reconnect
  PROVE  HeaderOK'
<1>1. /\ live' = live /\ tasks' = tasks /\ begun' = begun /\ history' = history
      /\ mode' = mode /\ outgoing' = outgoing
  BY DEF LoadReplay, Reconnect, Subscribe, core, finalizing, sessions
<1>2. LiveOK'
  BY <1>1 DEF HeaderOK, LiveOK
<1>3. CASE LoadReplay /\ UNCHANGED client
  <2>1. /\ stage = "subscribed" /\ stage' = "loaded" /\ backlog' = backlog /\ inbox' = inbox
        /\ replay' = IF ShouldLoad THEN ReplayEvents ELSE <<>>
    BY <1>3 DEF LoadReplay
  <2>2. mode = "session" => /\ HasTurn(replay') => Tells(replay', "SessionStart")
                            /\ \A i \in DOMAIN replay' : replay'[i].session = Watched
    BY <2>1, ReplayFacts, TellsNone
  <2>3. outgoing = <<>>
    BY <2>1 DEF FeedsOK
  <2> QED BY <1>1, <1>2, <2>1, <2>2, <2>3 DEF HeaderOK, LiveOK
<1>4. CASE Reconnect
  <2>1. /\ stage = "down" /\ stage' = "subscribed" /\ backlog' = history /\ inbox' = <<>>
        /\ replay' = replay
    BY <1>4 DEF Reconnect, Subscribe
  <2>2. replay = <<>> /\ outgoing = <<>>
    BY <2>1 DEF FeedsOK
  <2> QED BY <1>1, <1>2, <2>1, <2>2, TellsNone DEF HeaderOK, LiveOK
<1> QED BY <1>3, <1>4

LEMMA HeaderHear ==
  ASSUME FeedsOK, HeaderOK, HearPlainly \/ HearInPanes
  PROVE  HeaderOK'
<1>1. /\ stage = "streaming" /\ stage' = stage /\ mode' = mode
      /\ live' = live /\ tasks' = tasks /\ begun' = begun /\ mute' = mute
      /\ history' = history /\ backlog' = backlog /\ replay' = replay
      /\ heard' = heard \cup ({Next1.turn} \ {0}) /\ GoodEvent(Next1, turns)
  BY SendIs DEF core, finalizing, sessions
<1>2. LiveOK'
  BY <1>1 DEF HeaderOK, LiveOK
<1>3. CASE mode # "session"
  BY <1>1, <1>2, <1>3 DEF HeaderOK, LiveOK
<1>4. CASE mode = "session"
  <2>1. notices' = IF Next1.turn = 0 THEN notices \cup {News(Next1)} ELSE notices
    BY <1>4 DEF HearPlainly, HearInPanes, Remember
  <2>2. /\ Pending \in Seq(FeedEvent) /\ Pending # <<>> /\ Next1 = Head(Pending)
        /\ Pending' = Tail(Pending)
    BY PendingShrinks
  <2>3. /\ \A i \in DOMAIN inbox : inbox[i].session = Watched
        /\ \A i \in DOMAIN outgoing : outgoing[i].session = Watched
        /\ \A i \in DOMAIN replay : replay[i].session = Watched
    BY <1>4 DEF HeaderOK
  <2>4. /\ inbox \in Seq(FeedEvent) /\ outgoing \in Seq(FeedEvent)
    BY DEF FeedsOK, GoodFeed
  <2>5. /\ \A i \in DOMAIN inbox' : inbox'[i].session = Watched
        /\ \A i \in DOMAIN outgoing' : outgoing'[i].session = Watched
        /\ Next1.session = Watched
    <3>1. CASE outgoing # <<>> /\ Next1 = Head(outgoing)
               /\ outgoing' = Tail(outgoing) /\ inbox' = inbox
      BY <2>3, <2>4, <3>1, TailIs
    <3>2. CASE outgoing = <<>> /\ inbox # <<>> /\ Next1 = Head(inbox)
               /\ outgoing' = outgoing /\ inbox' = Tail(inbox)
      BY <2>3, <2>4, <3>2, TailIs
    <3> QED BY <3>1, <3>2, SendIs
  <2>6. PICK e : e = Next1
    OBVIOUS
  <2>7. /\ GoodEvent(e, turns) /\ e.session = Watched /\ e = Head(Pending)
        /\ News(e).type = e.type /\ News(e).session = Watched
    BY <1>1, <2>2, <2>5, <2>6 DEF News
  <2>8. /\ \A type : Tells(Pending, type) <=> (Tells(Pending', type) \/ e.type = type)
        /\ HasTurn(Pending) <=> (HasTurn(Pending') \/ IsTurn(e))
    BY <2>2, <2>7, WatchedTail
  <2>9. /\ \A type : Noted(type) => Noted(type)'
        /\ e.turn = 0 => Noted(e.type)'
    BY <2>1, <2>6, <2>7 DEF Noted
  <2>10. /\ e.turn # 0 <=> IsTurn(e)
         /\ e.type \in {"SessionStart", "SessionEnd"} => e.turn = 0
    BY <2>7 DEF IsTurn, GoodEvent
  <2>11. \A type \in {"SessionStart", "SessionEnd"} : Told(type) => Told(type)'
    BY <2>8, <2>9, <2>10 DEF Told
  <2>12. \A q \in {inbox', replay', outgoing'} : \A i \in DOMAIN q : q[i].session = Watched
    BY <1>1, <2>3, <2>5
  <2>13. CASE Told("SessionEnd") \/ Told("SessionStart")
    BY <1>1, <1>2, <2>11, <2>12, <2>13 DEF HeaderOK, LiveOK
  <2>14. CASE /\ heard # {} \/ HasTurn(Pending) => Watched \in live
              /\ Watched \in live => Announcing
    <3>1. heard' # {} \/ HasTurn(Pending') => Watched \in live'
      <4>1. heard' # {} => heard # {} \/ IsTurn(e)
        BY <1>1, <2>6, <2>10
      <4> QED BY <1>1, <2>8, <2>14, <4>1
    <3>2. Announcing' <=> Announcing
      BY <1>1 DEF Announcing
    <3> QED BY <1>1, <1>2, <2>12, <2>14, <3>1, <3>2 DEF HeaderOK, LiveOK
  <2> QED BY <1>1, <1>4, <2>13, <2>14 DEF HeaderOK
<1> QED BY <1>3, <1>4

LEMMA HeaderStays ==
  ASSUME WriterOK, OrderOK, FeedsOK, OnceOK, HeaderOK, FeedStep
  PROVE  HeaderOK'
<1>1. ASSUME NEW s \in Session, EndSession(s), UNCHANGED client PROVE HeaderOK'
  <2>1. PICK e : e = Event("SessionEnd", s, 0, memory[s])
    OBVIOUS
  <2>2. memory[s] \in Nat /\ memory[s] > 0
    BY <1>1 DEF EndSession, Quiet, FeedsOK
  <2>3. GoodEvent(e, turns) /\ e.turn = 0 /\ e.type = "SessionEnd" /\ e.session = s
    <3>1. GoodEvent(e, turns)
      BY <2>1, <2>2, GoodNotice
    <3>2. e.turn = 0 /\ e.type = "SessionEnd" /\ e.session = s
      BY <2>1 DEF Event
    <3> QED BY <3>1, <3>2
  <2>4. /\ Broadcast(<<e>>) /\ live' = live \ {s} /\ mute' = mute \ {s}
        /\ UNCHANGED <<turns, begun, tasks, mode, stage, backlog, replay, outgoing>>
        /\ UNCHANGED <<heard, notices>>
    BY <1>1, <2>1 DEF EndSession, finalizing, client, hearing
  <2>5. HasTurn(history') => HasTurn(history)
    <3>1. PICK events : events = <<e>>
      OBVIOUS
    <3>2. /\ GoodFeed(events, turns) /\ history' = history \o events
          /\ DOMAIN events = {1} /\ events[1] = e
      <4>1. DOMAIN <<e>> = {1} /\ <<e>>[1] = e
        OBVIOUS
      <4> QED BY <2>3, <2>4, <3>1, <4>1, GoodOne DEF Broadcast
    <3>3. history \in Seq(FeedEvent) /\ events \in Seq(FeedEvent)
      BY <3>2 DEF FeedsOK, GoodFeed
    <3>4. ~HasTurn(events)
      BY <2>3, <3>2 DEF HasTurn, IsTurn
    <3> QED BY <3>2, <3>3, <3>4, TellsConcat
  <2>6. CASE s = Watched
    <3>1. /\ ~HasTurn(history) /\ (\A k \in tasks : k.session # Watched)
          /\ begun[Watched][TRUE] = 0 /\ begun[Watched][FALSE] = 0
      BY <1>1, <2>6 DEF EndSession, Quiet, HasTurn, IsTurn
    <3>2. LiveOK'
      BY <2>4, <2>5, <3>1 DEF LiveOK
    <3> QED BY <2>3, <2>4, <2>6, <3>2, HeaderBroadcast DEF IsTurn
  <2>7. CASE s # Watched
    <3>1. LiveOK'
      BY <2>4, <2>5, <2>7 DEF LiveOK, HeaderOK
    <3>2. Announcing => Announcing'
      BY <2>4, <2>7 DEF Announcing
    <3> QED BY <2>3, <2>4, <2>7, <3>1, <3>2, HeaderBroadcast DEF IsTurn
  <2> QED BY <2>6, <2>7
<1>2. CASE Commit /\ UNCHANGED client
  <2>1. /\ UNCHANGED <<turns, begun, tasks, live, mute, mode, stage, backlog, replay, outgoing>>
        /\ UNCHANGED <<heard, notices>>
    BY <1>2 DEF Commit, finalizing, sessions, client, hearing
  <2>2. CASE UNCHANGED <<history, inbox, late>>
    BY <2>1, <2>2, SameHeader DEF heads
  <2>3. CASE ~UNCHANGED <<history, inbox, late>>
    <3>1. PICK s : s = Head(queue).session
      OBVIOUS
    <3>2. PICK n : n = Len(Of(rows, s))
      OBVIOUS
    <3>3. Of(rows, s) # <<>> /\ Broadcast(<<Event("PostmortemReady", s, 0, n)>>) /\ queue # <<>>
      BY <1>2, <2>3, <3>1, <3>2 DEF Commit
    <3>4. s \in Session
      <4>1. queue \in Seq(DbCommand) /\ queue # <<>>
        BY <3>3 DEF WriterOK
      <4>2. Head(queue) \in DbCommand
        BY <4>1, TailIs
      <4> QED BY <3>1, <4>2 DEF DbCommand
    <3>5. n \in Nat /\ n > 0
      <4>1. Of(rows, s) \in Seq(Nat)
        BY OfRows
      <4> QED BY <3>2, <3>3, <4>1
    <3>6. PICK e : e = Event("PostmortemReady", s, 0, n)
      OBVIOUS
    <3>7. GoodEvent(e, turns) /\ e.turn = 0 /\ e.type = "PostmortemReady"
      <4>1. GoodEvent(e, turns)
        BY <3>4, <3>5, <3>6, GoodNotice
      <4>2. e.turn = 0 /\ e.type = "PostmortemReady"
        BY <3>6 DEF Event
      <4> QED BY <4>1, <4>2
    <3>8. HasTurn(history') => HasTurn(history)
      <4>1. PICK events : events = <<e>>
        OBVIOUS
      <4>2. /\ GoodFeed(events, turns) /\ history' = history \o events
            /\ DOMAIN events = {1} /\ events[1] = e
        <5>1. DOMAIN <<e>> = {1} /\ <<e>>[1] = e
          OBVIOUS
        <5> QED BY <3>3, <3>6, <3>7, <4>1, <5>1, GoodOne DEF Broadcast
      <4>3. history \in Seq(FeedEvent) /\ events \in Seq(FeedEvent)
        BY <4>2 DEF FeedsOK, GoodFeed
      <4>4. ~HasTurn(events)
        BY <3>7, <4>2 DEF HasTurn, IsTurn
      <4> QED BY <4>2, <4>3, <4>4, TellsConcat
    <3>9. LiveOK' /\ (Announcing' <=> Announcing)
      BY <2>1, <3>8 DEF LiveOK, HeaderOK, Announcing
    <3>10. Broadcast(<<e>>)
      BY <3>3, <3>6
    <3> QED BY <2>1, <3>7, <3>9, <3>10, HeaderBroadcast DEF IsTurn
  <2> QED BY <2>2, <2>3
<1>3. CASE Expire /\ UNCHANGED client
  <2>1. /\ history # <<>> /\ history' = Tail(history)
        /\ UNCHANGED <<live, mute, begun, tasks, backlog, inbox, replay, outgoing>>
        /\ UNCHANGED <<notices, heard, mode, stage>>
    BY <1>3 DEF Expire, finalizing, sessions, connection, client, hearing
  <2>2. history \in Seq(FeedEvent)
    BY DEF FeedsOK, GoodFeed
  <2>3. HasTurn(history') => HasTurn(history)
    BY <2>1, <2>2, WatchedTail
  <2>4. /\ \A type : Told(type)' <=> Told(type)
        /\ Pending' = Pending /\ (Announcing' <=> Announcing)
    BY <2>1 DEF Told, Noted, Pending, Announcing
  <2> QED BY <2>1, <2>3, <2>4 DEF HeaderOK
<1>4. CASE CoreCrash /\ UNCHANGED client
  <2>1. /\ tasks' = {} /\ begun' = [s \in Session |-> [start \in BOOLEAN |-> 0]]
        /\ history' = <<>> /\ stage' = "down" /\ inbox' = <<>>
        /\ replay' = <<>> /\ outgoing' = <<>> /\ mode' = mode
    BY <1>4 DEF CoreCrash, Hangup
  <2>2. begun'[Watched][TRUE] = 0 /\ begun'[Watched][FALSE] = 0
    BY <2>1, WatchedAssumption
  <2>3. LiveOK'
    <3>1. ~HasTurn(history')
      BY <2>1, TellsNone
    <3>2. \A k \in tasks' : FALSE
      BY <2>1
    <3> QED BY <2>2, <3>1, <3>2 DEF LiveOK
  <2>4. \A q \in {inbox', replay', outgoing'} : \A i \in DOMAIN q : q[i].session = Watched
    BY <2>1
  <2> QED BY <2>1, <2>3, <2>4 DEF HeaderOK, LiveOK
<1>5. CASE Disconnect /\ UNCHANGED client
  <2>1. /\ tasks' = tasks /\ begun' = begun /\ history' = history /\ live' = live
        /\ stage' = "down" /\ inbox' = <<>>
        /\ replay' = <<>> /\ outgoing' = <<>> /\ mode' = mode
    BY <1>5 DEF Disconnect, Hangup, core, finalizing, sessions
  <2>2. LiveOK'
    BY <2>1 DEF LiveOK, HeaderOK
  <2>3. \A q \in {inbox', replay', outgoing'} : \A i \in DOMAIN q : q[i].session = Watched
    BY <2>1
  <2> QED BY <2>1, <2>2, <2>3 DEF HeaderOK, LiveOK
<1>6. CASE (\E s \in Session : Timeout(s) /\ UNCHANGED client) \/ UNCHANGED <<feedVars, client>>
  BY <1>6, SameHeader
     DEF Timeout, finalizing, sessions, connection, client, hearing, feedVars, core, heads
<1>7. CASE Listen
  BY <1>7, HeaderOpen, HeaderListen, HeaderHear DEF Listen
<1> QED BY <1>1, <1>2, <1>3, <1>4, <1>5, <1>6, <1>7, HeaderPublish, HeaderEnter, HeaderFinalize
        DEF FeedStep, Publishes

LEMMA HeaderOKLeads == HeaderOK => HeaderComesFirst
<1> SUFFICES ASSUME HeaderOK, mode = "session", stage = "streaming", heard # {}
             PROVE  \/ \E e \in notices \cup ToSet(Pending) :
                         e.type = "SessionStart" /\ e.session = Watched
                    \/ \E e \in notices \cup ToSet(Pending) :
                         e.type = "SessionEnd" /\ e.session = Watched
                    \/ Announcing
  BY DEF HeaderComesFirst, Announcing
<1>1. Told("SessionEnd") \/ Told("SessionStart") \/ Announcing
  BY DEF HeaderOK
<1>2. \A type : Told(type) =>
        \E e \in notices \cup ToSet(Pending) : e.type = type /\ e.session = Watched
  BY DEF Told, Noted, Tells, ToSet
<1> QED BY <1>1, <1>2

-----------------------------------------------------------------------------
(* The last turn of a session in a feed.                                   *)

LEMMA NoTurnConcat ==
  ASSUME NEW a \in Seq(FeedEvent), NEW b \in Seq(FeedEvent), NEW s
  PROVE  NoTurn(a \o b, s) <=> (NoTurn(a, s) /\ NoTurn(b, s))
<1>1. PICK ab, n : ab = a \o b /\ n = Len(a)
  OBVIOUS
<1>2. /\ \A i \in DOMAIN a : i \in DOMAIN ab /\ ab[i] = a[i]
      /\ \A i \in DOMAIN b : n + i \in DOMAIN ab /\ ab[n + i] = b[i]
      /\ \A i \in DOMAIN ab :
           \/ i \in DOMAIN a /\ ab[i] = a[i]
           \/ i - n \in DOMAIN b /\ ab[i] = b[i - n]
  BY <1>1, ConcatIs
<1>3. ASSUME NoTurn(ab, s) PROVE NoTurn(a, s) /\ NoTurn(b, s)
  <2>1. NoTurn(a, s)
    BY <1>2, <1>3 DEF NoTurn
  <2>2. NoTurn(b, s)
    BY <1>2, <1>3 DEF NoTurn
  <2> QED BY <2>1, <2>2
<1>4. ASSUME NoTurn(a, s), NoTurn(b, s) PROVE NoTurn(ab, s)
  BY <1>2, <1>4 DEF NoTurn
<1> QED BY <1>1, <1>3, <1>4

LEMMA NoTurnTail ==
  ASSUME NEW q \in Seq(FeedEvent), q # <<>>, NEW s
  PROVE  NoTurn(q, s) <=> (NoTurn(Tail(q), s) /\ (Head(q).turn # 0 => Head(q).session # s))
<1>1. PICK r : r = Tail(q)
  OBVIOUS
<1>2. /\ Head(q) = q[1] /\ 1 \in DOMAIN q
      /\ \A i \in DOMAIN r : i \in Nat /\ i > 0 /\ i + 1 \in DOMAIN q /\ r[i] = q[i + 1]
      /\ \A i \in DOMAIN q : i \in Nat /\ i > 0 /\ (i = 1 \/ (i - 1 \in DOMAIN r /\ r[i - 1] = q[i]))
  BY <1>1, TailIs
<1>3. ASSUME NoTurn(q, s) PROVE NoTurn(r, s) /\ (Head(q).turn # 0 => Head(q).session # s)
  BY <1>2, <1>3 DEF NoTurn
<1>4. ASSUME NoTurn(r, s), Head(q).turn # 0 => Head(q).session # s PROVE NoTurn(q, s)
  BY <1>2, <1>4 DEF NoTurn
<1> QED BY <1>1, <1>3, <1>4

\* The last place of a session's turns.
LEMMA FallsLast ==
  ASSUME NEW q \in Seq(FeedEvent), NEW s, NEW P, ~NoTurn(q, s),
         \A i \in DOMAIN q : q[i].turn # 0 /\ q[i].session = s => q[i].turn \in P
  PROVE  Falls(q, s, P)
<1> DEFINE D == {i \in DOMAIN q : q[i].turn # 0 /\ q[i].session = s}
<1>1. D \subseteq DOMAIN q /\ D # {}
  BY DEF NoTurn
<1>2. PICK m \in D : \A j \in D : j <= m
  <2> HIDE DEF D
  <2> QED BY <1>1, LastPlace
<1>3. \A j \in DOMAIN q : j > m /\ q[j].turn # 0 => q[j].session # s
  <2> SUFFICES ASSUME NEW j \in DOMAIN q, j > m, q[j].turn # 0, q[j].session = s PROVE FALSE
    OBVIOUS
  <2>1. j <= m
    BY <1>2
  <2>2. j \in Nat /\ m \in Nat
    OBVIOUS
  <2> QED BY <2>1, <2>2
<1> QED BY <1>2, <1>3 DEF Falls

LEMMA FallsConcat ==
  ASSUME NEW a \in Seq(FeedEvent), NEW b \in Seq(FeedEvent), NEW s, NEW P
  PROVE  Falls(a \o b, s, P) <=> (Falls(b, s, P) \/ (Falls(a, s, P) /\ NoTurn(b, s)))
<1>1. PICK ab, n : ab = a \o b /\ n = Len(a)
  OBVIOUS
<1>2. /\ n \in Nat
      /\ \A i \in DOMAIN a : i \in Nat /\ i \in DOMAIN ab /\ ab[i] = a[i] /\ i <= n
      /\ \A i \in DOMAIN b : i \in Nat /\ i > 0 /\ n + i \in DOMAIN ab /\ ab[n + i] = b[i]
      /\ \A i \in DOMAIN ab :
           /\ i \in Nat
           /\ \/ i \in DOMAIN a /\ i <= n /\ ab[i] = a[i]
              \/ i > n /\ i - n \in DOMAIN b /\ ab[i] = b[i - n]
  <2>1. /\ ab \in Seq(FeedEvent) /\ (\A i \in DOMAIN a : i \in Nat)
        /\ (\A i \in DOMAIN b : i \in Nat /\ i > 0)
    BY <1>1, ConcatIs
  <2>2. \A i \in DOMAIN ab : i \in Nat
    BY <2>1
  <2> QED BY <1>1, <2>1, <2>2, ConcatIs
<1>3. ASSUME Falls(b, s, P) PROVE Falls(ab, s, P)
  <2>1. PICK i \in DOMAIN b :
          /\ b[i].turn # 0 /\ b[i].session = s /\ b[i].turn \in P
          /\ \A j \in DOMAIN b : j > i /\ b[j].turn # 0 => b[j].session # s
    BY <1>3 DEF Falls
  <2>2. PICK k : k = n + i
    OBVIOUS
  <2>3. k \in DOMAIN ab /\ ab[k] = b[i] /\ i \in Nat /\ i > 0
    BY <1>2, <2>2
  <2>4. ASSUME NEW j \in DOMAIN ab, j > k, ab[j].turn # 0 PROVE ab[j].session # s
    <3>1. j \in Nat /\ j > n
      BY <1>2, <2>2, <2>3, <2>4
    <3>2. j - n \in DOMAIN b /\ ab[j] = b[j - n]
      BY <1>2, <3>1
    <3>3. j - n > i
      BY <1>2, <2>2, <2>3, <2>4, <3>1
    <3> QED BY <2>1, <2>4, <3>2, <3>3
  <2> QED BY <2>1, <2>3, <2>4 DEF Falls
<1>4. ASSUME Falls(a, s, P), NoTurn(b, s) PROVE Falls(ab, s, P)
  <2>1. PICK i \in DOMAIN a :
          /\ a[i].turn # 0 /\ a[i].session = s /\ a[i].turn \in P
          /\ \A j \in DOMAIN a : j > i /\ a[j].turn # 0 => a[j].session # s
    BY <1>4 DEF Falls
  <2>2. i \in DOMAIN ab /\ ab[i] = a[i]
    BY <1>2
  <2>3. ASSUME NEW j \in DOMAIN ab, j > i, ab[j].turn # 0 PROVE ab[j].session # s
    <3>1. CASE j \in DOMAIN a /\ ab[j] = a[j]
      BY <2>1, <2>3, <3>1
    <3>2. CASE j - n \in DOMAIN b /\ ab[j] = b[j - n]
      BY <1>4, <2>3, <3>2 DEF NoTurn
    <3> QED BY <1>2, <3>1, <3>2
  <2> QED BY <2>1, <2>2, <2>3 DEF Falls
<1>5. ASSUME Falls(ab, s, P) PROVE Falls(b, s, P) \/ (Falls(a, s, P) /\ NoTurn(b, s))
  <2>1. PICK i \in DOMAIN ab :
          /\ ab[i].turn # 0 /\ ab[i].session = s /\ ab[i].turn \in P
          /\ \A j \in DOMAIN ab : j > i /\ ab[j].turn # 0 => ab[j].session # s
    BY <1>5 DEF Falls
  <2>2. CASE i \in DOMAIN a /\ i <= n /\ ab[i] = a[i]
    <3>1. NoTurn(b, s)
      <4> SUFFICES ASSUME NEW j \in DOMAIN b, b[j].turn # 0 PROVE b[j].session # s
        BY DEF NoTurn
      <4>1. PICK k : k = n + j
        OBVIOUS
      <4>2. k \in DOMAIN ab /\ ab[k] = b[j] /\ k > i
        BY <1>2, <2>2, <4>1
      <4> QED BY <2>1, <4>2
    <3>2. Falls(a, s, P)
      BY <1>2, <2>1, <2>2 DEF Falls
    <3> QED BY <3>1, <3>2
  <2>3. CASE i > n /\ i - n \in DOMAIN b /\ ab[i] = b[i - n]
    <3>1. PICK k : k = i - n
      OBVIOUS
    <3>2. k \in DOMAIN b /\ b[k] = ab[i] /\ i = n + k /\ k \in Nat
      BY <1>2, <2>3, <3>1
    <3>3. ASSUME NEW j \in DOMAIN b, j > k, b[j].turn # 0 PROVE b[j].session # s
      <4>1. PICK l : l = n + j
        OBVIOUS
      <4>2. l \in DOMAIN ab /\ ab[l] = b[j] /\ l > i
        BY <1>2, <3>2, <3>3, <4>1
      <4> QED BY <2>1, <3>3, <4>2
    <3> QED BY <2>1, <3>2, <3>3 DEF Falls
  <2> QED BY <1>2, <2>2, <2>3
<1> QED BY <1>1, <1>3, <1>4, <1>5

LEMMA FallsTail ==
  ASSUME NEW q \in Seq(FeedEvent), q # <<>>, NEW s, NEW P, Falls(q, s, P)
  PROVE  \/ Falls(Tail(q), s, P)
         \/ /\ NoTurn(Tail(q), s)
            /\ Head(q).turn # 0 /\ Head(q).session = s /\ Head(q).turn \in P
<1>1. PICK r : r = Tail(q)
  OBVIOUS
<1>2. /\ Head(q) = q[1] /\ 1 \in DOMAIN q
      /\ \A i \in DOMAIN r : i \in Nat /\ i > 0 /\ i + 1 \in DOMAIN q /\ r[i] = q[i + 1]
      /\ \A i \in DOMAIN q : i \in Nat /\ i > 0 /\ (i = 1 \/ (i - 1 \in DOMAIN r /\ r[i - 1] = q[i]))
  BY <1>1, TailIs
<1>3. PICK i \in DOMAIN q :
        /\ q[i].turn # 0 /\ q[i].session = s /\ q[i].turn \in P
        /\ \A j \in DOMAIN q : j > i /\ q[j].turn # 0 => q[j].session # s
  BY DEF Falls
<1>4. \A j \in DOMAIN r : r[j].turn # 0 /\ j + 1 > i => r[j].session # s
  BY <1>2, <1>3
<1>5. CASE i = 1
  <2>1. NoTurn(r, s)
    <3>1. \A j \in DOMAIN r : j + 1 > i
      BY <1>2, <1>5
    <3> QED BY <1>4, <3>1 DEF NoTurn
  <2> QED BY <1>1, <1>2, <1>3, <1>5, <2>1
<1>6. CASE i # 1
  <2>1. PICK k : k = i - 1
    OBVIOUS
  <2>2. k \in DOMAIN r /\ r[k] = q[i] /\ k \in Nat /\ i = k + 1
    BY <1>2, <1>6, <2>1
  <2>3. \A j \in DOMAIN r : j > k /\ r[j].turn # 0 => r[j].session # s
    BY <1>2, <1>4, <2>2
  <2> QED BY <1>1, <1>3, <2>2, <2>3 DEF Falls
<1> QED BY <1>5, <1>6

LEMMA FallsPicked ==
  ASSUME NEW q \in Seq(FeedEvent), NEW r \in Seq(FeedEvent), NEW D, PickedAs(r, q, D),
         D = DOMAIN q, NEW s, NEW P
  PROVE  /\ Falls(q, s, P) => Falls(r, s, P)
         /\ NoTurn(q, s) <=> NoTurn(r, s)
         /\ TurnsIn(r) = TurnsIn(q)
<1>1. PICK place :
        /\ \A n \in DOMAIN r : place[n] \in D /\ r[n] = q[place[n]]
        /\ \A m, n \in DOMAIN r : m < n => place[m] < place[n]
        /\ \A i \in D : \E n \in DOMAIN r : place[n] = i
  BY DEF PickedAs
<1>2. \A n \in DOMAIN r : n \in Nat /\ place[n] \in Nat
  BY <1>1
<1>3. ASSUME Falls(q, s, P) PROVE Falls(r, s, P)
  <2>1. PICK i \in DOMAIN q :
          /\ q[i].turn # 0 /\ q[i].session = s /\ q[i].turn \in P
          /\ \A j \in DOMAIN q : j > i /\ q[j].turn # 0 => q[j].session # s
    BY <1>3 DEF Falls
  <2>2. PICK n \in DOMAIN r : place[n] = i
    BY <1>1
  <2>3. ASSUME NEW m \in DOMAIN r, m > n, r[m].turn # 0 PROVE r[m].session # s
    <3>1. n < m
      BY <1>2, <2>3
    <3>2. place[n] < place[m] /\ place[m] \in DOMAIN q /\ r[m] = q[place[m]]
      BY <1>1, <3>1
    <3>3. place[m] > i
      BY <1>2, <2>2, <3>2
    <3> QED BY <2>1, <2>3, <3>2, <3>3
  <2> QED BY <1>1, <2>1, <2>2, <2>3 DEF Falls
<1>4. NoTurn(q, s) <=> NoTurn(r, s)
  <2>1. ASSUME NoTurn(q, s), NEW n \in DOMAIN r, r[n].turn # 0 PROVE r[n].session # s
    <3>1. place[n] \in DOMAIN q /\ r[n] = q[place[n]]
      BY <1>1
    <3> QED BY <2>1, <3>1 DEF NoTurn
  <2>2. ASSUME NoTurn(r, s), NEW i \in DOMAIN q, q[i].turn # 0 PROVE q[i].session # s
    <3>1. PICK n \in DOMAIN r : place[n] = i
      BY <1>1
    <3> QED BY <1>1, <2>2, <3>1 DEF NoTurn
  <2> QED BY <2>1, <2>2 DEF NoTurn
<1>5. TurnsIn(r) = TurnsIn(q)
  BY TurnsPicked DEF TurnsIn
<1> QED BY <1>3, <1>4, <1>5

\* A client of all sessions gets it all.
LEMMA AllWanted ==
  ASSUME NEW ts, NEW q, GoodFeed(q, ts), mode = "recent"
  PROVE  /\ OnlyWanted(q) \in Seq(FeedEvent) /\ GoodFeed(OnlyWanted(q), ts)
         /\ \A s, P : Falls(q, s, P) => Falls(OnlyWanted(q), s, P)
         /\ \A s : NoTurn(q, s) <=> NoTurn(OnlyWanted(q), s)
<1> DEFINE D == {i \in DOMAIN q : Wanted(q[i])}
<1>1. PICK w : w = OnlyWanted(q)
  OBVIOUS
<1>2. PickedAs(w, q, D) /\ GoodFeed(w, ts) /\ w \in Seq(FeedEvent) /\ q \in Seq(FeedEvent)
  BY <1>1, OnlyWantedIs DEF GoodFeed
<1>3. D = DOMAIN q
  BY DEF Wanted
<1> HIDE DEF D
<1> QED BY <1>1, <1>2, <1>3, FallsPicked

-----------------------------------------------------------------------------
(* A pane shows the last turn.                                             *)

paned == <<turns, tasks, overtaken, inbox, replay, outgoing, late, reach, mode, stage, rows,
           panes>>

LEMMA SamePanes == PanesOK /\ UNCHANGED paned => PanesOK'
<1> SUFFICES ASSUME PanesOK, UNCHANGED paned PROVE PanesOK'
  OBVIOUS
<1>1. /\ Stored' = Stored /\ Pending' = Pending /\ (RoomForPane' <=> RoomForPane)
      /\ TaskTurns' = TaskTurns
  BY DEF Stored, Pending, RoomForPane, TaskTurns, paned
<1>2. /\ \A t : Newer(t)' = Newer(t)
      /\ \A q, s, t : Shows(q, s, t)' <=> Shows(q, s, t)
  BY DEF Shows, Newer, paned
<1> QED BY <1>1, <1>2 DEF PanesOK, paned

LEMMA StoredAreTurns ==
  ASSUME WriterOK, OnceOK
  PROVE  /\ Stored \subseteq DOMAIN turns /\ late \ {0} \subseteq DOMAIN turns
         /\ DOMAIN turns = 1..Len(turns) /\ Len(turns) \in Nat
         /\ \A t \in DOMAIN turns : t \in Nat /\ t <= Len(turns)
<1>1. turns \in Seq(Session)
  BY DEF WriterOK
<1>2. DOMAIN turns = 1..Len(turns) /\ Len(turns) \in Nat
  BY <1>1
<1>3. Stored \subseteq DOMAIN turns
  BY DEF Stored, ToSet, WriterOK
<1>4. late \ {0} \subseteq DOMAIN turns
  BY <1>2 DEF OnceOK
<1> QED BY <1>2, <1>3, <1>4

\* A notice, or a turn that is none behind those published before it, or else
\* one that was overtaken.
LEMMA PanesBroadcast ==
  ASSUME WriterOK, FeedsOK, OnceOK, PanesOK, NEW e, GoodEvent(e, turns),
         Broadcast(<<e>>),
         UNCHANGED <<turns, mode, stage, replay, outgoing, reach, rows, panes>>,
         overtaken \subseteq overtaken', TaskTurns' \subseteq TaskTurns,
         TaskTurns \subseteq TaskTurns' \cup {e.turn}, e.turn # 0 => e.turn \notin TaskTurns',
         e.turn # 0 => \A t \in DOMAIN turns : t \notin TaskTurns' /\ turns[t] = e.session =>
                         e.turn \in Newer(t)'
  PROVE  PanesOK'
<1>1. PICK events, w : events = <<e>> /\ w = OnlyWanted(events)
  OBVIOUS
<1>2. /\ GoodFeed(events, turns) /\ events \in Seq(FeedEvent) /\ Broadcast(events)
      /\ DOMAIN events = {1} /\ events[1] = e
      /\ stage # "down" => late' = late \cup {e.turn}
      /\ inbox \in Seq(FeedEvent) /\ replay \in Seq(FeedEvent)
  <2>1. DOMAIN <<e>> = {1} /\ <<e>>[1] = e
    OBVIOUS
  <2>2. GoodFeed(events, turns) /\ DOMAIN events = {1} /\ events[1] = e /\ Broadcast(events)
    BY <1>1, <2>1, GoodOne
  <2>3. stage # "down" => late' = late \cup {e.turn}
    BY <2>2 DEF Broadcast, Listening
  <2> QED BY <2>2, <2>3 DEF GoodFeed, FeedsOK
<1>3. w \in Seq(FeedEvent)
  BY <1>1, <1>2, OnlyWantedIs DEF GoodFeed
<1>4. /\ Stored' = Stored /\ (RoomForPane' <=> RoomForPane)
      /\ \A q, s, t : Shows(q, s, t) <=>
           \/ Falls(q, s, Newer(t))
           \/ NoTurn(q, s) /\ s \in DOMAIN panes /\ panes[s].turn \in Newer(t)
      /\ \A q, s, t : Shows(q, s, t)' <=>
           \/ Falls(q, s, Newer(t)')
           \/ NoTurn(q, s) /\ s \in DOMAIN panes /\ panes[s].turn \in Newer(t)'
  BY DEF Stored, RoomForPane, Shows
<1>5. /\ \A t : Newer(t) \subseteq Newer(t)'
      /\ \A q, s, t : Falls(q, s, Newer(t)) => Falls(q, s, Newer(t)')
  <2>1. \A t : Newer(t) \subseteq Newer(t)'
    BY DEF Newer
  <2> QED BY <2>1 DEF Falls
<1>6. PICK now, then, news : now = Pending /\ then = Pending' /\ news = inbox'
  OBVIOUS
<1>7. stage # "down" => news = inbox \o w /\ then = now \o w /\ now \in Seq(FeedEvent)
  <2> SUFFICES ASSUME stage # "down"
               PROVE  news = inbox \o w /\ then = now \o w /\ now \in Seq(FeedEvent)
    OBVIOUS
  <2> QED BY <1>1, <1>2, <1>6, PendingGrows
<1>8. stage # "down" => \A s, P :
         /\ Falls(w, s, P) => Falls(news, s, P) /\ Falls(then, s, P)
         /\ NoTurn(w, s) /\ Falls(inbox, s, P) => Falls(news, s, P)
         /\ NoTurn(w, s) /\ Falls(now, s, P) => Falls(then, s, P)
         /\ NoTurn(w, s) /\ NoTurn(now, s) => NoTurn(then, s)
  <2> SUFFICES ASSUME stage # "down", NEW s, NEW P
               PROVE  /\ Falls(w, s, P) => Falls(news, s, P) /\ Falls(then, s, P)
                      /\ NoTurn(w, s) /\ Falls(inbox, s, P) => Falls(news, s, P)
                      /\ NoTurn(w, s) /\ Falls(now, s, P) => Falls(then, s, P)
                      /\ NoTurn(w, s) /\ NoTurn(now, s) => NoTurn(then, s)
    OBVIOUS
  <2>1. news = inbox \o w /\ then = now \o w /\ now \in Seq(FeedEvent)
    BY <1>7
  <2>2. Falls(inbox \o w, s, P) <=> (Falls(w, s, P) \/ (Falls(inbox, s, P) /\ NoTurn(w, s)))
    BY <1>2, <1>3, FallsConcat
  <2>3. Falls(now \o w, s, P) <=> (Falls(w, s, P) \/ (Falls(now, s, P) /\ NoTurn(w, s)))
    BY <2>1, <1>3, FallsConcat
  <2>4. NoTurn(now \o w, s) <=> (NoTurn(now, s) /\ NoTurn(w, s))
    BY <2>1, <1>3, NoTurnConcat
  <2> QED BY <2>1, <2>2, <2>3, <2>4
<1>9. stage # "down" => \A s, P :
         /\ Falls(w, s, P) => Falls(replay \o news, s, P)
         /\ NoTurn(w, s) /\ Falls(replay \o inbox, s, P) => Falls(replay \o news, s, P)
  <2> SUFFICES ASSUME stage # "down", NEW s, NEW P
               PROVE  /\ Falls(w, s, P) => Falls(replay \o news, s, P)
                      /\ NoTurn(w, s) /\ Falls(replay \o inbox, s, P) => Falls(replay \o news, s, P)
    OBVIOUS
  <2>1. PICK a : a = replay \o inbox
    OBVIOUS
  <2>2. a \in Seq(FeedEvent)
    BY <1>2, <2>1, ConcatIs
  <2>3. replay \o (inbox \o w) = (replay \o inbox) \o w
    BY <1>2, <1>3, ConcatAssociative
  <2>4. replay \o news = a \o w
    BY <1>7, <2>1, <2>3
  <2>5. Falls(a \o w, s, P) <=> (Falls(w, s, P) \/ (Falls(a, s, P) /\ NoTurn(w, s)))
    BY <1>3, <2>2, FallsConcat
  <2> QED BY <2>1, <2>4, <2>5
<1>10. ASSUME stage # "down", NEW t \in DOMAIN turns, t \notin late' \cup TaskTurns',
              NEW u \in late' \ {0}, turns[u] = turns[t]
       PROVE  u \in Newer(t)'
  <2>1. t \notin late \cup TaskTurns /\ t # e.turn
    BY <1>2, <1>10
  <2>2. CASE u \in late
    <3>1. u \in Newer(t)
      BY <1>10, <2>1, <2>2 DEF PanesOK
    <3> QED BY <1>5, <3>1
  <2>3. CASE u \notin late
    <3>1. u = e.turn /\ u # 0
      BY <1>2, <1>10, <2>3
    <3>2. turns[u] = e.session
      BY <3>1 DEF GoodEvent
    <3> QED BY <1>10, <3>1, <3>2
  <2> QED BY <2>2, <2>3
\* What the broadcast adds for a session, or does not.
<1>11. ASSUME stage # "down", mode = "recent", NEW t \in (Stored' \cup late') \ {0},
              t \notin TaskTurns'
       PROVE  \/ Falls(w, turns[t], Newer(t)')
              \/ /\ NoTurn(w, turns[t]) /\ t \in (Stored \cup late) \ {0} /\ t \notin TaskTurns
                 /\ t \in late' => t \in late
  <2>1. t \in DOMAIN turns
    <3>1. e.turn # 0 => e.turn \in DOMAIN turns
      BY DEF GoodEvent
    <3> QED BY <1>2, <1>4, <1>11, <3>1, StoredAreTurns
  <2>2. CASE e.turn # 0 /\ e.session = turns[t]
    <3>1. e.turn \in Newer(t)'
      BY <1>11, <2>1, <2>2
    <3>2. Falls(events, turns[t], Newer(t)')
      BY <1>2, <2>2, <3>1 DEF Falls
    <3> QED BY <1>1, <1>2, <1>11, <3>2, AllWanted
  <2>3. CASE ~(e.turn # 0 /\ e.session = turns[t])
    <3>1. NoTurn(events, turns[t])
      BY <1>2, <2>3 DEF NoTurn
    <3>2. NoTurn(w, turns[t])
      BY <1>1, <1>2, <1>11, <3>1, AllWanted
    <3>3. t # e.turn
      BY <1>11, <2>3 DEF GoodEvent
    <3> QED BY <1>2, <1>4, <1>11, <3>2, <3>3
  <2> QED BY <2>2, <2>3
<1>12. ASSUME mode = "recent", stage \in {"subscribed", "loaded"}, NEW t \in late' \ {0}
       PROVE  Falls(news, turns[t], Newer(t)')
  <2>0. stage # "down"
    BY <1>12
  <2>1. t \notin TaskTurns'
    BY <1>2, <1>12, <2>0 DEF OnceOK
  <2>2. Falls(w, turns[t], Newer(t)') \/ (NoTurn(w, turns[t]) /\ t \in late)
    BY <1>11, <1>12, <2>0, <2>1
  <2>3. t \in late => Falls(inbox, turns[t], Newer(t))
    BY <1>12 DEF PanesOK
  <2> QED BY <1>5, <1>8, <2>0, <2>2, <2>3
<1>13. ASSUME mode = "recent", stage = "loaded", NEW t \in (Stored' \cup late') \ {0},
              turns[t] \in reach
       PROVE  t \in TaskTurns' \/ Falls(replay \o news, turns[t], Newer(t)')
  <2>0. stage # "down"
    BY <1>13
  <2>1. CASE Falls(w, turns[t], Newer(t)')
    BY <1>9, <2>0, <2>1
  <2>2. CASE /\ NoTurn(w, turns[t]) /\ t \in (Stored \cup late) \ {0} /\ t \notin TaskTurns
    <3>1. Falls(replay \o inbox, turns[t], Newer(t))
      BY <1>13, <2>2 DEF PanesOK
    <3> QED BY <1>5, <1>9, <2>0, <2>2, <3>1
  <2> QED BY <1>11, <1>13, <2>0, <2>1, <2>2
<1>14. ASSUME mode = "recent", stage = "streaming", NEW t \in (Stored' \cup late') \ {0},
              turns[t] \in reach, turns[t] \in DOMAIN panes \/ RoomForPane
       PROVE  t \in TaskTurns' \/ Shows(then, turns[t], t)'
  <2>0. stage # "down"
    BY <1>14
  <2>1. CASE Falls(w, turns[t], Newer(t)')
    BY <1>4, <1>8, <2>0, <2>1
  <2>2. CASE /\ NoTurn(w, turns[t]) /\ t \in (Stored \cup late) \ {0} /\ t \notin TaskTurns
    <3>1. Shows(now, turns[t], t)
      BY <1>6, <1>14, <2>2 DEF PanesOK
    <3>2. CASE Falls(now, turns[t], Newer(t))
      <4>1. Falls(then, turns[t], Newer(t))
        BY <1>8, <2>0, <2>2, <3>2
      <4> QED BY <1>4, <1>5, <4>1
    <3>3. CASE NoTurn(now, turns[t]) /\ turns[t] \in DOMAIN panes /\ panes[turns[t]].turn \in Newer(t)
      <4>1. NoTurn(then, turns[t]) /\ panes[turns[t]].turn \in Newer(t)'
        BY <1>5, <1>8, <2>0, <2>2, <3>3
      <4> QED BY <1>4, <3>3, <4>1
    <3> QED BY <1>4, <3>1, <3>2, <3>3
  <2> QED BY <1>11, <1>14, <2>0, <2>1, <2>2
<1>15. /\ DOMAIN panes \subseteq Session /\ IsFiniteSet(DOMAIN panes)
       /\ \A s \in DOMAIN panes : panes[s] \in Pane
       /\ mode # "recent" => DOMAIN panes = {}
  BY DEF PanesOK
<1> QED BY <1>4, <1>6, <1>10, <1>12, <1>13, <1>14, <1>15 DEF PanesOK

LEMMA PanesPublish ==
  ASSUME WriterOK, FeedsOK, OnceOK, PanesOK, NEW k \in tasks, Publishes(k), UNCHANGED client
  PROVE  PanesOK'
<1>1. PICK e : e = EventOf(k)
  OBVIOUS
<1>2. /\ GoodEvent(e, turns) /\ Broadcast(<<e>>) /\ e.session = k.session
      /\ e.turn = IF k.start THEN 0 ELSE k.turn
      /\ UNCHANGED <<turns, mode, stage, replay, outgoing, reach, rows, panes>>
      /\ k.start => TaskTurns' = TaskTurns
      /\ ~k.start => TaskTurns' = TaskTurns \ {k.turn} /\ tasks' = tasks \ {k}
      /\ k.turn # 0 /\ k.turn \in DOMAIN turns /\ turns[k.turn] = k.session
  BY <1>1, PublishIs DEF client
<1>3. overtaken \subseteq overtaken'
  BY DEF Publishes, PublishStart, Publish
<1>4. ASSUME e.turn # 0, NEW t \in DOMAIN turns, t \notin TaskTurns', turns[t] = e.session
      PROVE  e.turn \in Newer(t)'
  <2>1. ~k.start /\ e.turn = k.turn
    BY <1>2, <1>4
  <2>2. t \in Nat /\ k.turn \in Nat /\ t <= Len(turns) /\ Len(turns) \in Nat
    BY <1>2, StoredAreTurns
  <2>3. CASE t <= k.turn
    BY <2>1, <2>2, <2>3 DEF Newer
  <2>4. CASE t > k.turn
    <3>1. \A j \in tasks : j.turn # t
      <4>1. t \notin TaskTurns
        BY <1>2, <1>4, <2>1, <2>2, <2>4
      <4> QED BY <4>1 DEF TaskTurns
    <3>2. t \in (k.turn + 1)..Len(turns) /\ turns[t] = k.session
      BY <1>2, <1>4, <2>2, <2>4
    <3>3. k.turn \in overtaken'
      <4>1. overtaken' = overtaken \cup
              {u \in {k.turn} : \E later \in (u + 1)..Len(turns) :
                 turns[later] = k.session /\ \A j \in tasks : j.turn # later}
        BY <2>1 DEF Publishes, PublishStart, Publish
      <4> QED BY <3>1, <3>2, <4>1
    <3> QED BY <2>1, <2>2, <3>3 DEF Newer
  <2> QED BY <2>2, <2>3, <2>4
<1>5. /\ TaskTurns' \subseteq TaskTurns /\ TaskTurns \subseteq TaskTurns' \cup {e.turn}
      /\ e.turn # 0 => e.turn \notin TaskTurns'
  BY <1>2
<1> QED BY <1>2, <1>3, <1>4, <1>5, PanesBroadcast

\* A new turn is about to be published; for the others nothing changes.
LEMMA PanesFinalize ==
  ASSUME WriterOK, FeedsOK, OnceOK, PanesOK, NEW s \in Session, NEW start \in BOOLEAN,
         Finalize(s, start), UNCHANGED client
  PROVE  PanesOK'
<1> DEFINE n == Len(turns) + 1
<1>1. /\ turns \in Seq(Session) /\ Len(turns) \in Nat /\ turns' = Append(turns, s)
      /\ UNCHANGED <<mode, stage, inbox, replay, outgoing, late, reach, rows, panes, overtaken>>
  BY DEF WriterOK, Finalize, connection, ghosts, client
<1>2. \A t \in DOMAIN turns : turns'[t] = turns[t] /\ t \in DOMAIN turns'
  BY <1>1
<1>3. DOMAIN turns' = DOMAIN turns \cup {n} /\ Len(turns') = n
  BY <1>1
<1>4. TaskTurns \subseteq TaskTurns' /\ n \in TaskTurns'
  <2>1. PICK k : k = [turn |-> n, session |-> s, start |-> start]
    OBVIOUS
  <2>2. tasks' = tasks \cup {k} /\ k.turn = n
    BY <1>3, <2>1 DEF Finalize
  <2> QED BY <2>2 DEF TaskTurns
<1> HIDE DEF n
<1>5. /\ Stored' = Stored /\ Pending' = Pending /\ (RoomForPane' <=> RoomForPane)
      /\ (\A t : Newer(t)' = Newer(t))
      /\ \A q, x, t : Shows(q, x, t)' <=> Shows(q, x, t)
  BY <1>1 DEF Stored, Pending, RoomForPane, Shows, Newer
<1>6. \A t \in (Stored \cup late) \ {0} : turns'[t] = turns[t]
  BY <1>2, StoredAreTurns
<1>7. ASSUME stage # "down", NEW t \in DOMAIN turns', t \notin late \cup TaskTurns',
             NEW u \in late \ {0}, turns'[u] = turns'[t]
      PROVE  u \in Newer(t)
  <2>1. t \in DOMAIN turns /\ t \notin late \cup TaskTurns
    BY <1>3, <1>4, <1>7
  <2>2. turns[u] = turns[t]
    BY <1>2, <1>6, <1>7, <2>1
  <2> QED BY <1>7, <2>1, <2>2 DEF PanesOK
<1>8. mode = "recent" /\ stage \in {"subscribed", "loaded"} =>
        \A t \in late \ {0} : Falls(inbox, turns'[t], Newer(t))
  BY <1>6 DEF PanesOK
<1>9. mode = "recent" /\ stage = "loaded" =>
        \A t \in (Stored \cup late) \ {0} : turns'[t] \in reach =>
          t \in TaskTurns' \/ Falls(replay \o inbox, turns'[t], Newer(t))
  BY <1>4, <1>6 DEF PanesOK
<1>10. mode = "recent" /\ stage = "streaming" =>
         \A t \in (Stored \cup late) \ {0} :
           turns'[t] \in reach /\ (turns'[t] \in DOMAIN panes \/ RoomForPane) =>
             t \in TaskTurns' \/ Shows(Pending, turns'[t], t)
  BY <1>4, <1>6 DEF PanesOK
<1>11. /\ DOMAIN panes \subseteq Session /\ IsFiniteSet(DOMAIN panes)
       /\ \A x \in DOMAIN panes : panes[x] \in Pane
       /\ mode # "recent" => DOMAIN panes = {}
  BY DEF PanesOK
<1> QED BY <1>1, <1>5, <1>7, <1>8, <1>9, <1>10, <1>11 DEF PanesOK

\* The writer stores a turn that is published or about to be; or tells that a
\* session has a review.
LEMMA PanesCommit ==
  ASSUME WriterOK, OrderOK, FeedsOK, OnceOK, MeetsOK, PanesOK, Commit, UNCHANGED client
  PROVE  PanesOK'
<1>1. UNCHANGED <<turns, mode, stage, replay, outgoing, reach, panes, tasks, overtaken>>
  BY DEF Commit, finalizing, client
<1>2. TaskTurns' = TaskTurns
  BY <1>1 DEF TaskTurns
<1>3. CASE rows' = rows
  <2>2. CASE UNCHANGED <<history, inbox, late>>
    BY <1>1, <1>3, <2>2, SamePanes DEF paned
  <2>3. CASE ~UNCHANGED <<history, inbox, late>>
    <3>1. PICK s : s = Head(queue).session
      OBVIOUS
    <3>2. PICK n : n = Len(Of(rows, s))
      OBVIOUS
    <3>3. Of(rows, s) # <<>> /\ Broadcast(<<Event("PostmortemReady", s, 0, n)>>) /\ queue # <<>>
      BY <2>3, <3>1, <3>2 DEF Commit
    <3>4. s \in Session
      <4>1. queue \in Seq(DbCommand) /\ queue # <<>>
        BY <3>3 DEF WriterOK
      <4>2. Head(queue) \in DbCommand
        BY <4>1, TailIs
      <4> QED BY <3>1, <4>2 DEF DbCommand
    <3>5. n \in Nat /\ n > 0
      <4>1. Of(rows, s) \in Seq(Nat)
        BY OfRows
      <4> QED BY <3>2, <3>3, <4>1
    <3>6. PICK e : e = Event("PostmortemReady", s, 0, n)
      OBVIOUS
    <3>7. GoodEvent(e, turns) /\ e.turn = 0 /\ Broadcast(<<e>>)
      <4>1. GoodEvent(e, turns)
        BY <3>4, <3>5, <3>6, GoodNotice
      <4>2. e.turn = 0
        BY <3>6 DEF Event
      <4>3. Broadcast(<<e>>)
        BY <3>3, <3>6
      <4> QED BY <4>1, <4>2, <4>3
    <3> QED BY <1>1, <1>2, <1>3, <3>7, PanesBroadcast
  <2> QED BY <2>2, <2>3
<1>4. CASE rows' # rows
  <2>1. PICK t \in OnTheWay : t \in DOMAIN turns /\ Stored' = Stored \cup {t}
    BY <1>4, TakenIs
  <2>2. UNCHANGED <<history, inbox, late>>
    BY <1>4 DEF Commit
  <2>3. /\ Pending' = Pending /\ (RoomForPane' <=> RoomForPane)
        /\ (\A u : Newer(u)' = Newer(u))
        /\ \A q, x, u : Shows(q, x, u)' <=> Shows(q, x, u)
    BY <1>1, <2>2 DEF Pending, RoomForPane, Shows, Newer
  <2>4. mode = "recent" /\ stage \in {"loaded", "streaming"} /\ turns[t] \in reach
          => t \in TaskTurns \/ t \in late
    <3>1. mode = "recent" => WantedTurn(t)
      BY DEF WantedTurn
    <3> QED BY <2>1, <3>1 DEF MeetsOK
  <2>5. mode = "recent" /\ stage = "loaded" =>
          \A u \in (Stored' \cup late) \ {0} : turns[u] \in reach =>
            u \in TaskTurns \/ Falls(replay \o inbox, turns[u], Newer(u))
    BY <2>1, <2>4 DEF PanesOK
  <2>6. mode = "recent" /\ stage = "streaming" =>
          \A u \in (Stored' \cup late) \ {0} :
            turns[u] \in reach /\ (turns[u] \in DOMAIN panes \/ RoomForPane) =>
              u \in TaskTurns \/ Shows(Pending, turns[u], u)
    BY <2>1, <2>4 DEF PanesOK
  <2> QED BY <1>1, <1>2, <2>2, <2>3, <2>5, <2>6 DEF PanesOK
<1> QED BY <1>3, <1>4

\* A replay begins with what is stored, and what comes after it is newer.
LEMMA PanesLoad ==
  ASSUME WriterOK, OrderOK, FeedsOK, OnceOK, PanesOK, LoadReplay, UNCHANGED client
  PROVE  PanesOK'
<1>1. /\ UNCHANGED <<turns, tasks, overtaken, rows, inbox, late, mode, outgoing, panes>>
      /\ stage = "subscribed" /\ stage' = "loaded"
      /\ replay' = IF ShouldLoad THEN ReplayEvents ELSE <<>>
      /\ reach' = IF ShouldLoad
                  THEN {s \in Session : Of(rows, s) # <<>> => s \in ToSet(ReplaySessions)}
                  ELSE {}
  BY DEF LoadReplay, core, finalizing, client
<1>2. Stored' = Stored /\ TaskTurns' = TaskTurns /\ \A t : Newer(t)' = Newer(t)
  BY <1>1 DEF Stored, TaskTurns, Newer
<1>3. /\ turns \in Seq(Session) /\ inbox \in Seq(FeedEvent) /\ GoodFeed(inbox, turns)
      /\ TurnsIn(inbox) \subseteq late \cup {0}
  BY <1>1 DEF WriterOK, FeedsOK, GoodFeed, OnceOK
<1>4. PICK r : r = ReplayEvents
  OBVIOUS
<1>5. /\ r \in Seq(FeedEvent)
      /\ \A t \in Stored : turns[t] \in ToSet(ReplaySessions) => Falls(r, turns[t], Newer(t))
  BY <1>4, ReplayFacts DEF GoodFeed
<1>6. ASSUME mode = "recent", NEW t \in (Stored \cup late) \ {0}, turns[t] \in reach'
      PROVE  t \in TaskTurns \/ Falls(replay' \o inbox, turns[t], Newer(t))
  <2>1. ShouldLoad /\ replay' = r
    BY <1>1, <1>4, <1>6
  <2>2. PICK s, P : s = turns[t] /\ P = Newer(t)
    OBVIOUS
  <2>3. Falls(r \o inbox, s, P) <=> (Falls(inbox, s, P) \/ (Falls(r, s, P) /\ NoTurn(inbox, s)))
    BY <1>3, <1>5, FallsConcat
  <2>4. CASE t \in late
    <3>1. Falls(inbox, s, P)
      BY <1>1, <1>6, <2>2, <2>4 DEF PanesOK
    <3> QED BY <2>1, <2>2, <2>3, <3>1
  <2>5. CASE t \notin late /\ t \notin TaskTurns
    <3>1. t \in Stored /\ t \in DOMAIN turns
      BY <1>6, <2>5, StoredAreTurns
    <3>2. \A u \in late \ {0} : turns[u] = s => u \in P
      BY <1>1, <2>2, <2>5, <3>1 DEF PanesOK
    <3>3. CASE ~NoTurn(inbox, s)
      <4>1. ASSUME NEW i \in DOMAIN inbox, inbox[i].turn # 0, inbox[i].session = s
            PROVE  inbox[i].turn \in P
        <5>1. inbox[i].turn \in late \ {0}
          BY <1>3, <4>1 DEF TurnsIn
        <5>2. turns[inbox[i].turn] = s
          BY <1>3, <4>1 DEF GoodFeed, GoodEvent
        <5> QED BY <3>2, <5>1, <5>2
      <4>2. Falls(inbox, s, P)
        BY <1>3, <3>3, <4>1, FallsLast
      <4> QED BY <2>1, <2>2, <2>3, <4>2
    <3>4. CASE NoTurn(inbox, s)
      <4>1. Of(rows, s) # <<>>
        <5>1. PICK o : o = Of(rows, s)
          OBVIOUS
        <5>2. \E k \in DOMAIN o : o[k] = t
          BY <2>2, <3>1, <5>1, OfRows
        <5> QED BY <5>1, <5>2
      <4>2. s \in ToSet(ReplaySessions)
        BY <1>1, <1>6, <2>1, <2>2, <4>1
      <4>3. Falls(r, s, P)
        BY <1>5, <2>2, <3>1, <4>2
      <4> QED BY <2>1, <2>2, <2>3, <3>4, <4>3
    <3> QED BY <3>3, <3>4
  <2> QED BY <2>2, <2>4, <2>5
<1>7. /\ DOMAIN panes \subseteq Session /\ IsFiniteSet(DOMAIN panes)
      /\ \A s \in DOMAIN panes : panes[s] \in Pane
      /\ mode # "recent" => DOMAIN panes = {}
      /\ \A t \in DOMAIN turns : t \notin late \cup TaskTurns =>
           \A u \in late \ {0} : turns[u] = turns[t] => u \in Newer(t)
      /\ mode = "recent" => \A t \in late \ {0} : Falls(inbox, turns[t], Newer(t))
  BY <1>1 DEF PanesOK
<1> QED BY <1>1, <1>2, <1>6, <1>7 DEF PanesOK

\* The stream starts with the replay, if the history had nothing.
LEMMA PanesOpen ==
  ASSUME WriterOK, FeedsOK, OnceOK, PanesOK, OpenStream, UNCHANGED client
  PROVE  PanesOK'
<1>1. PICK first, persisted :
        /\ outgoing' = first \o persisted \o OnlyWanted(backlog)
        /\ first = IF NeedsStart THEN <<Start(Watched)>> ELSE <<>>
        /\ GoodFeed(first, turns)
        /\ GoodFeed(persisted, turns)
        /\ PickedAs(persisted, replay,
             {i \in DOMAIN replay : ~(NeedsStart /\ replay[i].type = "SessionStart")})
  BY OutgoingIs
<1>2. /\ stage = "loaded" /\ stage' = "streaming"
      /\ inbox' = inbox /\ turns' = turns /\ tasks' = tasks /\ rows' = rows /\ mode' = mode
      /\ late' = late /\ reach' = reach /\ panes' = panes /\ overtaken' = overtaken
  BY OutgoingIs DEF core, finalizing, ghosts, client
<1>3. /\ persisted \in Seq(FeedEvent) /\ replay \in Seq(FeedEvent)
      /\ inbox \in Seq(FeedEvent) /\ GoodFeed(backlog, turns)
  BY <1>1 DEF GoodFeed, FeedsOK
<1>4. /\ Stored' = Stored /\ (RoomForPane' <=> RoomForPane) /\ TaskTurns' = TaskTurns
      /\ \A t : Newer(t)' = Newer(t)
  BY <1>2 DEF Stored, RoomForPane, TaskTurns, Newer
<1>5. PICK then : then = Pending'
  OBVIOUS
<1>6. \A q, s, t : Shows(q, s, t)' <=>
        \/ Falls(q, s, Newer(t))
        \/ NoTurn(q, s) /\ s \in DOMAIN panes /\ panes[s].turn \in Newer(t)
  BY <1>2, <1>4 DEF Shows
<1>7. ASSUME mode = "recent", NEW t \in (Stored \cup late) \ {0}, turns[t] \in reach
      PROVE  t \in TaskTurns \/ Falls(then, turns[t], Newer(t))
  <2>1. PICK s, b, P : s = turns[t] /\ b = OnlyWanted(backlog) /\ P = Newer(t)
    OBVIOUS
  <2>2. t \in TaskTurns \/ Falls(replay \o inbox, s, P)
    BY <1>2, <1>7, <2>1 DEF PanesOK
  <2>3. /\ b \in Seq(FeedEvent) /\ NoTurn(b, s)
    <3>1. ShouldLoad
      BY <1>2, <1>7 DEF OnceOK
    <3>2. \A i \in DOMAIN backlog : FALSE
      BY <1>7, <3>1 DEF ShouldLoad, HistoryHasSession, Wanted
    <3>3. NoTurn(backlog, s)
      BY <3>2 DEF NoTurn
    <3> QED BY <1>3, <1>7, <2>1, <3>3, AllWanted
  <2>4. outgoing' = persisted \o b
    <3>1. ~NeedsStart /\ first = <<>>
      BY <1>1, <1>7 DEF NeedsStart
    <3>2. <<>> \o persisted = persisted
      BY <1>3
    <3> QED BY <1>1, <2>1, <3>1, <3>2
  <2>5. PICK o : o = persisted \o b
    OBVIOUS
  <2>6. o \in Seq(FeedEvent) /\ then = o \o inbox
    <3>1. o \in Seq(FeedEvent)
      BY <1>3, <2>3, <2>5, ConcatIs
    <3> QED BY <1>2, <1>5, <2>4, <2>5, <3>1 DEF Pending
  <2>7. Falls(replay, s, P) => Falls(persisted, s, P)
    <3>1. PickedAs(persisted, replay, DOMAIN replay)
      <4>1. {i \in DOMAIN replay : ~(NeedsStart /\ replay[i].type = "SessionStart")} = DOMAIN replay
        BY <1>7 DEF NeedsStart
      <4> QED BY <1>1, <4>1
    <3>2. PICK D : D = DOMAIN replay
      OBVIOUS
    <3> QED BY <1>3, <3>1, <3>2, FallsPicked
  <2>8. Falls(persisted, s, P) => Falls(o, s, P)
    BY <1>3, <2>3, <2>5, FallsConcat
  <2>9. Falls(o \o inbox, s, P) <=> (Falls(inbox, s, P) \/ (Falls(o, s, P) /\ NoTurn(inbox, s)))
    BY <1>3, <2>6, FallsConcat
  <2>10. Falls(replay \o inbox, s, P) <=> (Falls(inbox, s, P) \/ (Falls(replay, s, P) /\ NoTurn(inbox, s)))
    BY <1>3, FallsConcat
  <2> QED BY <2>1, <2>2, <2>6, <2>7, <2>8, <2>9, <2>10
<1>8. /\ DOMAIN panes \subseteq Session /\ IsFiniteSet(DOMAIN panes)
      /\ \A s \in DOMAIN panes : panes[s] \in Pane
      /\ mode # "recent" => DOMAIN panes = {}
      /\ \A t \in DOMAIN turns : t \notin late \cup TaskTurns =>
           \A u \in late \ {0} : turns[u] = turns[t] => u \in Newer(t)
  BY <1>2 DEF PanesOK
<1> QED BY <1>2, <1>4, <1>5, <1>6, <1>7, <1>8 DEF PanesOK

LEMMA PaneIsUpdated ==
  ASSUME NEW p \in Pane, NEW e \in FeedEvent
  PROVE  /\ Updated(p, e) \in Pane
         /\ Updated(p, e).turn = IF e.type = "CodexTurnSummary" THEN e.turn ELSE p.turn
<1>1. e.type \in {"SessionStart", "CodexTurnSummary", "SessionEnd", "PostmortemReady"} /\ e.turn \in Nat
  BY DEF FeedEvent
<1>2. CASE e.type = "CodexTurnSummary"
  <2>1. Updated(p, e) = [p EXCEPT !.turn = e.turn]
    BY <1>2, Zenon DEF Updated
  <2> QED BY <1>1, <1>2, <2>1 DEF Pane
<1>3. CASE e.type = "SessionEnd"
  <2>1. Updated(p, e) = [p EXCEPT !.ended = TRUE]
    BY <1>3, Zenon DEF Updated
  <2> QED BY <1>3, <2>1 DEF Pane
<1>4. CASE e.type # "CodexTurnSummary" /\ e.type # "SessionEnd"
  <2>1. Updated(p, e) = p
    BY <1>4, Zenon DEF Updated
  <2> QED BY <1>4, <2>1
<1> QED BY <1>2, <1>3, <1>4

\* What an event of the stream does to the panes.
LEMMA PanesTake ==
  ASSUME FeedsOK, PanesOK, HearInPanes
  PROVE  /\ DOMAIN panes \subseteq DOMAIN panes' /\ DOMAIN panes' \subseteq Session
         /\ IsFiniteSet(DOMAIN panes') /\ \A s \in DOMAIN panes' : panes'[s] \in Pane
         /\ RoomForPane' => RoomForPane
         /\ \A s \in DOMAIN panes' \ DOMAIN panes : RoomForPane
         /\ \A s \in DOMAIN panes :
              panes'[s].turn = IF Next1.session = s /\ Next1.type = "CodexTurnSummary"
                               THEN Next1.turn ELSE panes[s].turn
         /\ Next1.type = "CodexTurnSummary" /\ RoomForPane =>
              Next1.session \in DOMAIN panes' /\ panes'[Next1.session].turn = Next1.turn
<1>1. PICK e, s : e = Next1 /\ s = e.session
  OBVIOUS
<1>2. e \in FeedEvent /\ s \in Session
  <2>1. GoodEvent(e, turns)
    BY <1>1, NextIsGood DEF HearInPanes
  <2> QED BY <1>1, <2>1 DEF GoodEvent, FeedEvent
<1>3. /\ DOMAIN panes \subseteq Session /\ IsFiniteSet(DOMAIN panes)
      /\ \A x \in DOMAIN panes : panes[x] \in Pane
  BY DEF PanesOK
<1>4. /\ NewPane \in Pane /\ NewPane.turn = 0
  BY DEF NewPane, Pane
<1>5. CASE /\ s \in DOMAIN panes
           /\ panes' = [panes EXCEPT ![s] = Updated(@, e)]
  <2>1. /\ DOMAIN panes' = DOMAIN panes
        /\ \A x \in DOMAIN panes : panes'[x] = IF x = s THEN Updated(panes[x], e) ELSE panes[x]
    BY <1>5
  <2>2. /\ Updated(panes[s], e) \in Pane
        /\ Updated(panes[s], e).turn = IF e.type = "CodexTurnSummary" THEN e.turn ELSE panes[s].turn
    BY <1>2, <1>3, <1>5, PaneIsUpdated
  <2>3. RoomForPane' <=> RoomForPane
    BY <2>1 DEF RoomForPane
  <2> QED BY <1>1, <1>3, <1>5, <2>1, <2>2, <2>3
<1>6. CASE /\ s \notin DOMAIN panes /\ RoomForPane
           /\ panes' = [x \in DOMAIN panes \cup {s} |->
                          IF x = s THEN Updated(NewPane, e) ELSE panes[x]]
  <2>1. /\ DOMAIN panes' = DOMAIN panes \cup {s}
        /\ panes'[s] = Updated(NewPane, e)
        /\ \A x \in DOMAIN panes : panes'[x] = panes[x]
    BY <1>6
  <2>2. /\ Updated(NewPane, e) \in Pane
        /\ Updated(NewPane, e).turn = IF e.type = "CodexTurnSummary" THEN e.turn ELSE NewPane.turn
    BY <1>2, <1>4, PaneIsUpdated
  <2>3. IsFiniteSet(DOMAIN panes')
    <3>1. PICK D : D = DOMAIN panes
      OBVIOUS
    <3>2. IsFiniteSet(D \cup {s})
      BY <1>3, <3>1, FS_AddElement
    <3> QED BY <2>1, <3>1, <3>2
  <2> QED BY <1>1, <1>2, <1>3, <1>6, <2>1, <2>2, <2>3
<1>7. CASE s \notin DOMAIN panes /\ (e.type = "SessionEnd" \/ ~RoomForPane) /\ panes' = panes
  <2>1. RoomForPane' <=> RoomForPane
    BY <1>7 DEF RoomForPane
  <2> QED BY <1>1, <1>3, <1>7, <2>1
<1> QED BY <1>1, <1>5, <1>6, <1>7 DEF HearInPanes

LEMMA PanesHear ==
  ASSUME WriterOK, FeedsOK, OnceOK, PanesOK, HearPlainly \/ HearInPanes
  PROVE  PanesOK'
<1>1. /\ stage = "streaming" /\ stage' = stage /\ mode' = mode
      /\ turns' = turns /\ tasks' = tasks /\ rows' = rows
      /\ late' = late /\ reach' = reach /\ overtaken' = overtaken
  BY SendIs DEF core, finalizing, ghosts
<1>2. Stored' = Stored /\ TaskTurns' = TaskTurns /\ \A t : Newer(t)' = Newer(t)
  BY <1>1 DEF Stored, TaskTurns, Newer
<1>3. /\ DOMAIN panes \subseteq Session /\ IsFiniteSet(DOMAIN panes)
      /\ \A s \in DOMAIN panes : panes[s] \in Pane
      /\ mode # "recent" => DOMAIN panes = {}
      /\ \A t \in DOMAIN turns : t \notin late \cup TaskTurns =>
           \A u \in late \ {0} : turns[u] = turns[t] => u \in Newer(t)
  BY <1>1 DEF PanesOK
<1>4. CASE HearPlainly
  <2>1. mode # "recent" /\ panes' = panes
    BY <1>4 DEF HearPlainly
  <2>2. \A t \in DOMAIN turns' : t \notin (late \cup TaskTurns)' =>
          \A u \in late' \ {0} : turns'[u] = turns'[t] => u \in Newer(t)'
    BY <1>1, <1>2, <1>3
  <2> QED BY <1>1, <1>3, <2>1, <2>2 DEF PanesOK
<1>5. CASE HearInPanes
  <2>1. mode = "recent"
    BY <1>5 DEF HearInPanes
  <2>2. PICK now, then, e : now = Pending /\ then = Pending' /\ e = Next1
    OBVIOUS
  <2>3. /\ now \in Seq(FeedEvent) /\ now # <<>> /\ e = Head(now) /\ then = Tail(now)
        /\ GoodFeed(now, turns)
    BY <2>2, PendingShrinks
  <2>4. GoodEvent(e, turns)
    BY <2>3, GoodTail
  <2>5. /\ DOMAIN panes \subseteq DOMAIN panes' /\ DOMAIN panes' \subseteq Session
        /\ IsFiniteSet(DOMAIN panes') /\ \A s \in DOMAIN panes' : panes'[s] \in Pane
        /\ RoomForPane' => RoomForPane
        /\ \A s \in DOMAIN panes' \ DOMAIN panes : RoomForPane
        /\ \A s \in DOMAIN panes :
             panes'[s].turn = IF e.session = s /\ e.type = "CodexTurnSummary"
                              THEN e.turn ELSE panes[s].turn
        /\ e.type = "CodexTurnSummary" /\ RoomForPane =>
             e.session \in DOMAIN panes' /\ panes'[e.session].turn = e.turn
    BY <1>5, <2>2, PanesTake
  <2>6. \A q, s, t : Shows(q, s, t)' <=>
          \/ Falls(q, s, Newer(t))
          \/ NoTurn(q, s) /\ s \in DOMAIN panes' /\ panes'[s].turn \in Newer(t)
    BY <1>2 DEF Shows
  <2>7. \A q, s, t : Shows(q, s, t) <=>
          \/ Falls(q, s, Newer(t))
          \/ NoTurn(q, s) /\ s \in DOMAIN panes /\ panes[s].turn \in Newer(t)
    BY DEF Shows
  <2>8. ASSUME NEW t \in (Stored \cup late) \ {0}, turns[t] \in reach,
               turns[t] \in DOMAIN panes' \/ RoomForPane'
        PROVE  \/ t \in TaskTurns \/ Falls(then, turns[t], Newer(t))
               \/ /\ NoTurn(then, turns[t]) /\ turns[t] \in DOMAIN panes'
                  /\ panes'[turns[t]].turn \in Newer(t)
    <3>1. PICK s, P : s = turns[t] /\ P = Newer(t)
      OBVIOUS
    <3>2. s \in DOMAIN panes \/ RoomForPane
      BY <2>5, <2>8, <3>1
    <3>3. t \in TaskTurns \/ Shows(now, s, t)
      BY <1>1, <2>1, <2>2, <2>8, <3>1, <3>2 DEF PanesOK
    <3>4. CASE Falls(now, s, P)
      <4>1. \/ Falls(then, s, P)
            \/ NoTurn(then, s) /\ e.turn # 0 /\ e.session = s /\ e.turn \in P
        BY <2>3, <3>4, FallsTail
      <4>2. CASE Falls(then, s, P)
        BY <3>1, <4>2
      <4>3. CASE NoTurn(then, s) /\ e.turn # 0 /\ e.session = s /\ e.turn \in P
        <5>1. e.type = "CodexTurnSummary" /\ e.turn \in Nat
          BY <2>4, <4>3 DEF GoodEvent, FeedEvent
        <5>2. s \in DOMAIN panes' /\ panes'[s].turn = e.turn
          BY <2>5, <3>2, <4>3, <5>1
        <5> QED BY <3>1, <4>3, <5>2
      <4> QED BY <4>1, <4>2, <4>3
    <3>5. CASE NoTurn(now, s) /\ s \in DOMAIN panes /\ panes[s].turn \in P
      <4>1. NoTurn(then, s) /\ (e.turn # 0 => e.session # s)
        BY <2>3, <3>5, NoTurnTail
      <4>2. e.type = "CodexTurnSummary" => e.session # s
        BY <2>4, <4>1 DEF GoodEvent
      <4>3. s \in DOMAIN panes' /\ panes'[s].turn = panes[s].turn
        BY <2>5, <3>5, <4>2
      <4> QED BY <3>1, <3>5, <4>1, <4>3
    <3> QED BY <2>7, <3>1, <3>3, <3>4, <3>5
  <2> QED BY <1>1, <1>2, <1>3, <2>1, <2>2, <2>5, <2>6, <2>8 DEF PanesOK
<1> QED BY <1>4, <1>5

LEMMA PanesStay ==
  ASSUME WriterOK, OrderOK, FeedsOK, OnceOK, MeetsOK, PanesOK, FeedStep
  PROVE  PanesOK'
<1>1. ASSUME NEW s \in Session, EndSession(s), UNCHANGED client PROVE PanesOK'
  <2>1. PICK e : e = Event("SessionEnd", s, 0, memory[s])
    OBVIOUS
  <2>2. memory[s] \in Nat /\ memory[s] > 0
    BY <1>1 DEF EndSession, Quiet, FeedsOK
  <2>3. GoodEvent(e, turns) /\ e.turn = 0
    <3>1. GoodEvent(e, turns)
      BY <2>1, <2>2, GoodNotice
    <3>2. e.turn = 0
      BY <2>1 DEF Event
    <3> QED BY <3>1, <3>2
  <2>4. /\ Broadcast(<<e>>) /\ tasks' = tasks /\ overtaken' = overtaken
        /\ UNCHANGED <<turns, mode, stage, replay, outgoing, reach, rows, panes>>
    BY <1>1, <2>1 DEF EndSession, finalizing, client
  <2>5. TaskTurns' = TaskTurns
    BY <2>4 DEF TaskTurns
  <2> QED BY <2>3, <2>4, <2>5, PanesBroadcast
<1>2. CASE Commit /\ UNCHANGED client
  BY <1>2, PanesCommit
<1>3. ASSUME NEW s \in Session, NEW missed \in BOOLEAN, NEW prompted \in BOOLEAN,
             Enter(s, missed, prompted), UNCHANGED client
      PROVE  PanesOK'
  BY <1>3, SamePanes DEF Enter, connection, ghosts, client, paned
<1>4. CASE Expire /\ UNCHANGED client
  BY <1>4, SamePanes DEF Expire, finalizing, connection, ghosts, client, paned
<1>5. CASE (CoreCrash \/ Disconnect) /\ UNCHANGED client
  <2>1. stage' = "down" /\ mode' = mode /\ panes' = panes
    BY <1>5 DEF CoreCrash, Disconnect, Hangup, client
  <2> QED BY <2>1 DEF PanesOK
<1>6. CASE (\E s \in Session : Timeout(s) /\ UNCHANGED client) \/ UNCHANGED <<feedVars, client>>
  BY <1>6, SamePanes DEF Timeout, finalizing, connection, ghosts, client, feedVars, core, paned
<1>7. CASE Reconnect
  <2>1. stage' = "subscribed" /\ late' = {} /\ mode' = mode /\ panes' = panes
    BY <1>7 DEF Reconnect, Subscribe
  <2> QED BY <2>1 DEF PanesOK
<1>8. CASE Listen
  BY <1>7, <1>8, PanesLoad, PanesOpen, PanesHear DEF Listen
<1> QED BY <1>1, <1>2, <1>3, <1>4, <1>5, <1>6, <1>8, PanesPublish, PanesFinalize
        DEF FeedStep, Publishes

LEMMA PanesOKShow == PanesOK => PanesShowTheLast
<1> SUFFICES ASSUME PanesOK, stage = "streaming", Pending = <<>>, tasks = {},
                    NEW s \in DOMAIN panes \cap reach,
                    NEW t \in Stored \cup late, t # 0, turns[t] = s
             PROVE  t <= panes[s].turn \/ panes[s].turn \in overtaken
  BY DEF PanesShowTheLast
<1>1. mode = "recent"
  BY DEF PanesOK
<1>2. t \notin TaskTurns
  BY DEF TaskTurns
<1>3. Shows(Pending, s, t)
  BY <1>1, <1>2 DEF PanesOK
<1>4. ~Falls(Pending, s, Newer(t))
  BY DEF Falls
<1> QED BY <1>3, <1>4 DEF Shows, Newer

-----------------------------------------------------------------------------
(* The feed's invariant, and what it shows.                                *)

LEMMA FeedStart == RunInit => FeedOK
<1> SUFFICES ASSUME RunInit PROVE FeedOK
  OBVIOUS
<1>1. FeedInit /\ ClientInit
  BY DEF RunInit
<1>2. FeedsOK
  BY <1>1, GoodNone DEF FeedInit, FeedsOK
<1>3. OrderOK
  BY <1>1 DEF FeedInit, OrderOK
<1>4. TrackOK
  <2>1. facts = [s \in Session |-> NoFacts] /\ met = {}
    BY <1>1 DEF ClientInit
  <2>2. NoFacts = HeardFacts(FALSE, FALSE, 0, 0)
    BY DEF NoFacts, HeardFacts
  <2>3. Knows(NoFacts, {})
    <3>1. PICK f : f = HeardFacts(FALSE, FALSE, 0, 0)
      OBVIOUS
    <3>2. f.observed = FALSE /\ f.ended = FALSE /\ f.turns = 0 /\ f.failed = 0
      BY <3>1 DEF HeardFacts
    <3>3. Heard(f)
      BY <3>1, <3>2 DEF Heard
    <3>4. Knows(f, {})
      <4>1. f.observed \in BOOLEAN /\ f.ended \in BOOLEAN /\ ~f.ended /\ ~f.observed
        BY ONLY <3>2, Zenon
      <4>2. f.turns \in Nat /\ f.failed \in Nat /\ ~(f.failed > 0) /\ ~(f.turns > 0)
        <5>1. f.turns = 0 /\ f.failed = 0
          BY ONLY <3>2, Zenon
        <5> QED BY ONLY <5>1
      <4> QED BY <3>3, <4>1, <4>2, Zenon DEF Knows
    <3> QED BY <2>2, <3>1, <3>4
  <2> QED BY <2>1, <2>3 DEF TrackOK
<1>5. OnceOK
  <2>1. /\ turns = <<>> /\ tasks = {} /\ history = <<>> /\ backlog = <<>> /\ inbox = <<>>
        /\ replay = <<>> /\ outgoing = <<>> /\ late = {} /\ heard = {} /\ stage = "down"
    BY <1>1 DEF FeedInit, ClientInit
  <2> QED BY <2>1, TurnsNone DEF OnceOK, TaskTurns
<1>6. MeetsOK
  <2>1. queue = <<>> /\ stage = "down"
    BY <1>1 DEF FeedInit
  <2> QED BY <2>1 DEF MeetsOK, OnTheWay
<1>7. HeaderOK
  <2>1. /\ tasks = {} /\ history = <<>> /\ backlog = <<>> /\ inbox = <<>>
        /\ replay = <<>> /\ outgoing = <<>> /\ stage = "down"
        /\ begun = [s \in Session |-> [start \in BOOLEAN |-> 0]]
    BY <1>1 DEF FeedInit
  <2>2. begun[Watched][TRUE] = 0 /\ begun[Watched][FALSE] = 0
    BY <2>1, WatchedAssumption
  <2>3. LiveOK
    <3>1. ~HasTurn(history)
      BY <2>1, TellsNone
    <3>2. \A k \in tasks : FALSE
      BY <2>1
    <3> QED BY <2>2, <3>1, <3>2 DEF LiveOK
  <2>4. \A q \in {inbox, replay, outgoing} : \A i \in DOMAIN q : q[i].session = Watched
    BY <2>1
  <2> QED BY <2>1, <2>3, <2>4 DEF HeaderOK, LiveOK
<1>8. PanesOK
  <2>1. panes = <<>> /\ stage = "down"
    BY <1>1 DEF FeedInit, ClientInit
  <2>2. DOMAIN panes = {} /\ IsFiniteSet({})
    BY <2>1, FS_EmptySet
  <2> QED BY <2>1, <2>2 DEF PanesOK
<1> QED BY <1>2, <1>3, <1>4, <1>5, <1>6, <1>7, <1>8 DEF FeedOK

LEMMA FeedStays == GateOK /\ FeedOK /\ [RunNext]_runVars => FeedOK'
<1> SUFFICES ASSUME GateOK, FeedOK, [RunNext]_runVars PROVE FeedOK'
  OBVIOUS
<1>1. FeedStep
  BY RunStepsFeed
<1>2. WriterOK /\ OrderOK /\ FeedsOK /\ OnceOK /\ MeetsOK /\ HeaderOK /\ PanesOK /\ TrackOK
  BY DEF GateOK, FeedOK
<1>3. FeedsOK'
  BY <1>1, <1>2, FeedsStay
<1>4. OrderOK'
  BY <1>1, <1>2, OrderStays
<1>5. TrackOK'
  BY <1>1, <1>2, TrackStays
<1>6. OnceOK'
  BY <1>1, <1>2, OnceStays
<1>7. MeetsOK'
  BY <1>1, <1>2, MeetsStay
<1>8. HeaderOK'
  BY <1>1, <1>2, HeaderStays
<1>9. PanesOK'
  BY <1>1, <1>2, PanesStay
<1> QED BY <1>3, <1>4, <1>5, <1>6, <1>7, <1>8, <1>9 DEF FeedOK

LEMMA FeedIsOK == RunSpec => [](GateOK /\ FeedOK)
<1>1. RunInit => GateOK /\ FeedOK
  BY GateStart, FeedStart
<1>2. GateOK /\ FeedOK /\ [RunNext]_runVars => (GateOK /\ FeedOK)'
  BY RunStepIsJudged, FeedStays
<1> QED BY <1>1, <1>2, PTL DEF RunSpec

(* Nothing falls between the replay and the live events, and a turn comes  *)
(* twice only if it was stored before the replay was read and published    *)
(* after the client had subscribed.                                        *)
THEOREM ReplayMeets == RunSpec => []ReplayMeetsLive
<1>1. GateOK /\ FeedOK => ReplayMeetsLive
  BY FeedOKMeets DEF GateOK, FeedOK
<1> QED BY <1>1, FeedIsOK, PTL

(* What a watch process says of a session depends on what it has heard and *)
(* not on how often, through any reconnections and replays.                *)
THEOREM RepeatsAreIdle == RunSpec => []RepeatsChangeNothing
<1>1. GateOK /\ FeedOK => RepeatsChangeNothing
  BY TrackOKRepeats DEF FeedOK
<1> QED BY <1>1, FeedIsOK, PTL

(* A filtered stream has the SessionStart before the first turn or with    *)
(* the turns whose finalizations overlap its own, unless the session began *)
(* without a prompt; and a pane shows the last turn there is of its        *)
(* session when nothing is on the way, unless the one it shows was         *)
(* overtaken while it was published.                                       *)
THEOREM SessionsAreWhole == RunSpec => []SessionsAreShownWhole
<1>1. GateOK /\ FeedOK => SessionsAreShownWhole
  BY HeaderOKLeads, PanesOKShow DEF FeedOK, SessionsAreShownWhole
<1> QED BY <1>1, FeedIsOK, PTL
==============================================================================
