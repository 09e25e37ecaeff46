------------------------------- MODULE Ledger --------------------------------
(***************************************************************************)
(* What the sessions cost.  Turns are stored with an estimate of their     *)
(* price, clients post what they were billed (POST                         *)
(* /api/billing-reconciliations), and reports put the two side by side for *)
(* today, this week and this month (GET /api/summary) or for one session   *)
(* (/api/diagnosis, /api/sessions, /api/postmortem).                       *)
(*                                                                         *)
(* Turns and bills reach the tables through the queue of the DB writer;    *)
(* a post sends one record, waits for its reply and sends the next.  Each  *)
(* query of a report is a step of its own.  Costs are tenths of a cent,    *)
(* times are days: two imports of a day are told apart by their row.       *)
(***************************************************************************)
EXTENDS Integers, SequencesExt, FiniteSetsExt

CONSTANTS
  Session,
  Charge,      \* a turn's [stored, estimate, input, cached]; stored is None in
               \* rows of versions that did not store a cost
  OldRows,     \* the rows of such a version
  Batch,       \* the posts: sequences of [session, at, amount, valid]
  Catalog,     \* [source, trusted] of the prices in use
  Week, Month, \* the first day of the week and of the month of a day
  None,
  LastDay, MaxTurns, MaxPosts, MaxReports, MaxFaults   \* bounds

\* What is asked for: who, when it was imported, what it cost.
ASSUME BatchAssumption ==
  Batch \subseteq Seq([session : Session, at : Int \cup {None}, amount : Int,
                      valid : BOOLEAN])
ASSUME DaysAssumption ==
  LastDay \in Nat /\ Week \in [0..LastDay -> Int] /\ Month \in [0..LastDay -> Int]
ASSUME RowsAssumption ==
  /\ OldRows \in Seq(Range(OldRows))
  /\ \A i \in DOMAIN OldRows : OldRows[i].day \in Int
\* Prices and tokens are numbers, of either sign: rows come from a table.
ASSUME ChargeAssumption ==
  \A c \in Charge \cup {OldRows[i].charge : i \in DOMAIN OldRows} :
    /\ c.stored # None => c.stored.cost \in Int
    /\ c.estimate.cost \in Int /\ c.input \in Int /\ c.cached \in Int

VARIABLES
  sessions, requests, bills,  \* tables: ids, rows in order, rows in order
  writer, queue, half,        \* the DB writer, its commands, a turn half stored
  today,
  posts,                      \* the requests to import, in order of arrival
  report,                     \* a request for figures
  turns, asked, faults,       \* counters for the bounds
  landed, acked, unstored     \* ghosts: rows per post; bills the client was told
                              \* are stored; sessions whose row was not
tables == <<sessions, requests, bills>>
ghosts == <<landed, acked, unstored>>
vars == <<tables, writer, queue, half, today, posts, report, turns, asked,
          faults, ghosts>>

NoReport == [kind |-> "none", todo |-> <<>>, windows |-> <<>>, acked |-> {}]

Init ==
  /\ sessions = {OldRows[i].session : i \in DOMAIN OldRows}
  /\ requests = OldRows /\ bills = <<>>
  /\ writer = "up" /\ queue = <<>> /\ half = FALSE
  /\ today = 0
  /\ posts = <<>> /\ report = NoReport
  /\ turns = 0 /\ asked = 0 /\ faults = 0
  /\ landed = <<>> /\ acked = {} /\ unstored = {}

-----------------------------------------------------------------------------
(* Posts.                                                                  *)

\* handle_billing_reconciliations: without records there is nothing to do.
Post(batch) ==
  /\ Len(posts) < MaxPosts
  /\ posts' = Append(posts,
       [batch |-> batch, inserted |-> 0, expected |-> FALSE,
        at |-> IF batch = <<>> THEN "missing" ELSE "sending"])
  /\ landed' = Append(landed, 0)
  /\ UNCHANGED <<tables, writer, queue, half, today, report, turns, asked,
                 faults, acked, unstored>>

Record(p) == posts[p].batch[posts[p].inserted + 1]
Coming(s) == \E i \in DOMAIN queue : queue[i].kind = "turn" /\ queue[i].session = s

\* persist_billing_reconciliation; a record without a time gets the present.
Submit(p) ==
  LET record == Record(p)
      at == IF record.at = None THEN today ELSE record.at
      Answer(a) == posts' = [posts EXCEPT ![p].at = a] /\ UNCHANGED queue
  IN /\ posts[p].at = "sending"
     /\ \/ ~record.valid /\ Answer("invalid")
        \/ record.valid /\ writer = "gone" /\ Answer("unavailable")
        \/ /\ record.valid /\ writer = "up"
           /\ queue' = Append(queue, [kind |-> "bill", post |-> p,
                session |-> record.session, at |-> at, amount |-> record.amount])
           /\ posts' = [posts EXCEPT
                ![p].at = "waiting",
                ![p].expected = record.session \in sessions \/ Coming(record.session)]
     /\ UNCHANGED <<tables, writer, half, today, report, turns, asked, faults, ghosts>>

\* The client closes its connection: the handler is dropped, the command that
\* it has sent is not.
HangUp(p) ==
  /\ posts[p].at \in {"sending", "waiting"}
  /\ posts' = [posts EXCEPT ![p].at = "lost"]
  /\ UNCHANGED <<tables, writer, queue, half, today, report, turns, asked,
                 faults, ghosts>>

-----------------------------------------------------------------------------
(* The DB writer.                                                          *)

\* A turn is finalized: its command has its time and its price.
FinishTurn(s, charge) ==
  /\ turns < MaxTurns
  /\ turns' = turns + 1
  /\ queue' = IF writer = "up"
                THEN Append(queue, [kind |-> "turn", session |-> s, day |-> today,
                                    charge |-> charge])
                ELSE queue
  /\ UNCHANGED <<tables, writer, half, today, posts, report, asked, faults, ghosts>>

Next1(kind) == queue # <<>> /\ queue[1].kind = kind
MayFail == faults < MaxFaults /\ faults' = faults + 1

\* RecordCodexTurn: the row of the session, then the row of the request; a
\* failing INSERT is ignored.
StoreSession ==
  /\ Next1("turn") /\ ~half
  /\ half' = TRUE
  /\ \/ sessions' = sessions \cup {queue[1].session} /\ UNCHANGED <<faults, unstored>>
     \/ MayFail /\ unstored' = unstored \cup {queue[1].session} /\ UNCHANGED sessions
  /\ UNCHANGED <<requests, bills, writer, queue, today, posts, report, turns,
                 asked, landed, acked>>

StoreRequest ==
  /\ Next1("turn") /\ half
  /\ half' = FALSE
  /\ queue' = Tail(queue)
  /\ \/ /\ requests' = Append(requests, [session |-> queue[1].session,
                         day |-> queue[1].day, charge |-> queue[1].charge])
        /\ UNCHANGED faults
     \/ MayFail /\ UNCHANGED requests
  /\ UNCHANGED <<sessions, bills, writer, today, posts, report, turns, asked, ghosts>>

\* The result is sent to the handler, which is gone if the client is.
Reply(bill, result) ==
  LET p == bill.post
      last == posts[p].inserted + 1 = Len(posts[p].batch)
      stored == result = "stored"
  IN IF posts[p].at # "waiting" THEN UNCHANGED <<posts, acked>>
     ELSE /\ posts' = [posts EXCEPT
               ![p].inserted = IF stored THEN @ + 1 ELSE @,
               ![p].at = IF ~stored THEN result
                         ELSE IF last THEN "ok" ELSE "sending"]
          /\ acked' = IF stored THEN acked \cup {[session |-> bill.session, at |-> bill.at]}
                      ELSE acked

Insert(bill) ==
  /\ bills' = Append(bills, [session |-> bill.session, at |-> bill.at,
                             amount |-> bill.amount])
  /\ landed' = [landed EXCEPT ![bill.post] = @ + 1]

\* Mutation: the reply does not tell a failing INSERT.
StoreBillBlindly ==
  /\ Next1("bill")
  /\ queue' = Tail(queue)
  /\ LET bill == queue[1] IN
     IF bill.session \in sessions
       THEN /\ Reply(bill, "stored")
            /\ \/ Insert(bill) /\ UNCHANGED faults
               \/ MayFail /\ UNCHANGED <<bills, landed>>
       ELSE Reply(bill, "unknown") /\ UNCHANGED <<bills, landed, faults>>
  /\ UNCHANGED <<sessions, requests, writer, half, today, report, turns, asked,
                 unstored>>

\* WriteBillingReconciliation: a bill needs the row of its session.
StoreBill ==
  /\ Next1("bill")
  /\ queue' = Tail(queue)
  /\ LET bill == queue[1] IN
     \/ /\ bill.session \in sessions
        /\ Insert(bill) /\ Reply(bill, "stored")
        /\ UNCHANGED faults
     \/ /\ bill.session \notin sessions
        /\ Reply(bill, "unknown")
        /\ UNCHANGED <<bills, landed, faults>>
     \/ MayFail /\ Reply(bill, "failed") /\ UNCHANGED <<bills, landed>>
  /\ UNCHANGED <<sessions, requests, writer, half, today, report, turns, asked,
                 unstored>>

-----------------------------------------------------------------------------
(* Reports.                                                                *)

\* query_summary and compute_estimated_costs_for_sessions: a row has its
\* price, or is priced by the catalog in use.
PriceOf(charge) == IF charge.stored = None THEN charge.estimate ELSE charge.stored

Positive(n) == IF n > 0 THEN n ELSE 0

\* CostAccumulator.  Without rows, the catalog in use tells source and trust.
Aggregate(rows) ==
  LET sources == {PriceOf(requests[i].charge).source : i \in rows}
  IN [cost |-> SumFunction([i \in rows |-> Positive(PriceOf(requests[i].charge).cost)]),
      source |-> IF rows = {} THEN Catalog.source
                 ELSE IF Cardinality(sources) = 1 THEN CHOOSE s \in sources : TRUE
                 ELSE "mixed",
      trusted |-> IF rows = {} THEN Catalog.trusted
                  ELSE \A i \in rows : PriceOf(requests[i].charge).trusted]

\* CodexCachedInputSummary, recorded row by row.
CachedInput(rows) ==
  [input |-> SumFunction([i \in rows |-> Positive(requests[i].charge.input)]),
   cached |-> SumFunction([i \in rows |-> Positive(requests[i].charge.cached)])]

\* load_codex_cached_input_summaries: recorded once, with the sums.
CachedSums(rows) ==
  [input |-> Positive(SumFunction([i \in rows |-> requests[i].charge.input])),
   cached |-> Positive(SumFunction([i \in rows |-> requests[i].charge.cached]))]

\* Mutation: of the bills of a session, the last that was imported.
LastBill(s) == bills[Max({i \in DOMAIN bills : bills[i].session = s})]

\* load_latest_billing_reconciliations: ORDER BY imported_at DESC, id DESC.
LatestBill(s) ==
  LET of == {i \in DOMAIN bills : bills[i].session = s}
      Later(i, j) == \/ bills[i].at > bills[j].at
                     \/ bills[i].at = bills[j].at /\ i > j
  IN bills[CHOOSE i \in of : \A j \in of \ {i} : Later(i, j)]
LatestBills(ids) ==
  [s \in {s \in ids : \E i \in DOMAIN bills : bills[i].session = s} |-> LatestBill(s)]

\* start_of_today_iso, start_of_week_iso, start_of_month_iso
Since(window) ==
  CASE window = "today" -> today [] window = "week" -> Week[today]
    [] window = "month" -> Month[today]

\* Mutation: the longest window is read first.
LongestFirst ==
  [summary |-> <<<<"rows", "month">>, <<"bills", "month">>, <<"rows", "week">>,
                 <<"bills", "week">>, <<"rows", "today">>, <<"bills", "today">>>>,
   session |-> <<<<"costs", "session">>, <<"bills", "session">>, <<"cached", "session">>>>]

\* handle_summary; handle_diagnosis, handle_sessions.
Queries ==
  [summary |-> <<<<"rows", "today">>, <<"bills", "today">>, <<"rows", "week">>,
                 <<"bills", "week">>, <<"rows", "month">>, <<"bills", "month">>>>,
   session |-> <<<<"costs", "session">>, <<"bills", "session">>, <<"cached", "session">>>>]

\* One report at a time: reports only read.  Those on a session are for one
\* with a row in requests.
Ask(kind) ==
  /\ report.todo = <<>> /\ asked < MaxReports
  /\ asked' = asked + 1
  /\ \E ids \in {{s} : s \in {requests[i].session : i \in DOMAIN requests}} :
       report' = [kind |-> kind, todo |-> Queries[kind], acked |-> acked,
                  windows |-> IF kind = "summary" THEN <<>>
                              ELSE [w \in {"session"} |-> [ids |-> ids]]]
  /\ UNCHANGED <<tables, writer, queue, half, today, posts, turns, faults, ghosts>>

Query == Head(report.todo)
With(map, key, value) ==
  [k \in DOMAIN map \cup {key} |-> IF k = key THEN value ELSE map[k]]
Fill(window) ==
  report' = [report EXCEPT !.todo = Tail(@), !.windows = With(@, Query[2], window)]
Reads(what) == report.todo # <<>> /\ Query[1] = what
               /\ UNCHANGED <<tables, writer, queue, half, today, posts, turns,
                              asked, faults, ghosts>>

\* The rows of a window; only sessions that have a row of their own count.
ReadRows ==
  LET rows == {i \in DOMAIN requests : requests[i].day >= Since(Query[2])} IN
  /\ Reads("rows")
  /\ Fill([since |-> Since(Query[2]), rows |-> rows,
           ids |-> {requests[i].session : i \in rows} \cap sessions,
           estimate |-> Aggregate(rows), input |-> CachedInput(rows)])

ReadCosts ==
  LET window == report.windows["session"]
      rows == {i \in DOMAIN requests : requests[i].session \in window.ids}
  IN Reads("costs") /\ Fill(With(window, "estimate", Aggregate(rows)))

ReadBills ==
  LET window == report.windows[Query[2]] IN
  Reads("bills") /\ Fill(With(window, "bills", LatestBills(window.ids)))

ReadCached ==
  LET window == report.windows["session"]
      rows == {i \in DOMAIN requests : requests[i].session \in window.ids}
  IN Reads("cached") /\ Fill(With(window, "input", CachedSums(rows)))

-----------------------------------------------------------------------------
Midnight ==
  /\ today < LastDay
  /\ today' = today + 1
  /\ UNCHANGED <<tables, writer, queue, half, posts, report, turns, asked, faults, ghosts>>

\* The core dies, and with it what is queued and every request; the writer
\* thread of the next one may return at once.
Crash ==
  /\ MayFail
  /\ writer' \in {"up", "gone"}
  /\ queue' = <<>> /\ half' = FALSE
  /\ posts' = [p \in DOMAIN posts |->
                 IF posts[p].at \in {"sending", "waiting"}
                   THEN [posts[p] EXCEPT !.at = "lost"] ELSE posts[p]]
  /\ report' = IF report.todo = <<>> THEN report ELSE NoReport
  /\ UNCHANGED <<tables, today, turns, asked, ghosts>>

Next ==
  \/ \E batch \in Batch : Post(batch)
  \/ \E p \in DOMAIN posts : Submit(p) \/ HangUp(p)
  \/ \E s \in Session, charge \in Charge : FinishTurn(s, charge)
  \/ StoreSession \/ StoreRequest \/ StoreBill
  \/ \E kind \in DOMAIN Queries : Ask(kind)
  \/ ReadRows \/ ReadCosts \/ ReadBills \/ ReadCached
  \/ Midnight \/ Crash

Spec == Init /\ [][Next]_vars

-----------------------------------------------------------------------------
\* rounded_estimated_cost_dollars
Cents(cost) == (cost + 5) \div 10

Order == <<"today", "week", "month">>

(* The windows of a summary are read one after the other while turns and   *)
(* bills come in, a session may be counted in one whose row came between,  *)
(* and midnight, a Monday or the first of a month may pass: still of two   *)
(* windows the one that starts later never shows more, and is not trusted  *)
(* less.                                                                   *)
WindowsAreNested ==
  report.kind = "summary" /\ report.todo = <<>> =>
    \A i, j \in DOMAIN Order : i < j =>
      LET short == report.windows[Order[i]]
          long == report.windows[Order[j]]
      IN short.since >= long.since =>
           /\ short.rows \subseteq long.rows /\ short.ids \subseteq long.ids
           /\ Cents(short.estimate.cost) <= Cents(long.estimate.cost)
           /\ short.input.input <= long.input.input
           /\ short.input.cached <= long.input.cached
           /\ short.rows # {} /\ long.estimate.trusted => short.estimate.trusted
           /\ \A s \in DOMAIN short.bills :
                s \in DOMAIN long.bills /\ short.bills[s].at <= long.bills[s].at

(* A client that was told its bill is stored finds it in every report it   *)
(* asks for from then on, or one of a later time: no retry of an earlier   *)
(* import, no other client and no crash brings an earlier one back.        *)
AcknowledgedBillsCount ==
  report.todo = <<>> =>
    \A bill \in report.acked, w \in DOMAIN report.windows :
      LET window == report.windows[w] IN
      bill.session \in window.ids =>
        bill.session \in DOMAIN window.bills /\ window.bills[bill.session].at >= bill.at

(* What a post answers is what it did: as many bills as it says, the first *)
(* of its batch, are stored and no more; and it calls a session unknown    *)
(* only if none of its turns was finalized before, since the queue stores  *)
(* the turn first, or if the row of the session could not be stored.       *)
AnswersAreTrue ==
  \A p \in DOMAIN posts : posts[p].at \notin {"sending", "waiting", "lost"} =>
    /\ landed[p] = posts[p].inserted
    /\ posts[p].at = "ok" => posts[p].inserted = Len(posts[p].batch)
    /\ posts[p].at = "unknown" /\ posts[p].expected => Record(p).session \in unstored
=============================================================================
