# A TLA+ verification of codex-blackbox

codex-blackbox watches the traffic of OpenAI Codex. Envoy routes Codex's HTTP
exchanges through `codex-blackbox-core`, an external processor that may refuse a
request (cooldown, session policy), parses the streamed response, and turns each
finished exchange into a *turn*: counters, a database record, a watch event, and
in the end a diagnosis of the session. `codex-blackbox-cli` brings up the stack,
starts Codex and follows the core over HTTP.

This directory holds TLA+ modules of the parts where interleaving, crashes and
boundaries decide whether that works, TLC configurations that check them on
small instances, and proofs that TLAPS checks for every value of the constants.
Paths of the form `main.rs:N` mean `src/codex-blackbox-core/src/main.rs`; other
files of the core are named alone (`watch.rs`), those of the CLI with `cli/`.

`PROJECT.json` lists the components, the runs, the mutants that show each
property can fail, the hazards, the findings, and for each definition the lines
of code it stands for.

## 1. The system

### Processes, threads and what they share

    Codex -> Envoy ==gRPC stream per HTTP exchange==> one task per stream (process)
      ^                                                  |
      |   +----------------------+-----------------------+-----------------+
      |   v                      v                       v                 v
      | RUNTIME_STATE          SESSIONS,               DB_TX (unbounded   watch::BROADCASTER
      | (one Mutex:            SESSION_GUARD_STATES,    std channel)      (history + tokio
      |  error streak,         SESSION_TURNS,             |                broadcast channel)
      |  open window)          REQUEST_STATE (DashMaps)   v                   |
      |                              ^                 writer thread --> SQLite (WAL)
      |                              |                                    ^    |
      |                    inactivity monitor (30 s),        repair pass --+    v
      |                    stale cleanup, retention (1 h)   HTTP handlers  /watch, /api/*
      |                                                                        ^
      +-- codex-blackbox run, up, doctor (docker compose)   watch, status, guard+

Everything in the core is in one process: a crash loses all memory and every
queued command and keeps the tables.

### Inventory

| Component | State | Operations | What is hard | What makes it correct | Module |
|---|---|---|---|---|---|
| Circuit breaker (main.rs 262–306, 4320–4379) | `consecutive_errors`, `circuit_open_until` | check at the request headers; count or reset at the response headers; announce | any number of exchanges in flight; the event is broadcast after the unlock; an expired window stays `Some` | opens exactly with the streak, once per streak, is never prolonged | `CircuitBreaker` |
| ext_proc stream task (main.rs 4093–4434) | locals of `process`, `REQUEST_STATE` | headers, body, response headers, chunks, close | messages interleave over tasks, the stream may end anywhere, replies fill a bounded channel | a turn is what arrived, once; every complete response is one | `ExtProcStream` |
| SSE accumulator (codex_response.rs), accounting (codex_accounting.rs), identity (codex_request.rs), pricing (pricing.rs) | line buffer, summary | push chunk, finish, summarize | chunk boundaries, malformed lines, counters that contradict each other, overflow | the turn does not depend on the chunks | `CodexResponse`, `CodexAccounting` |
| Stale request cleanup, tool events (main.rs 6460–6500, 3990–4090) | `REQUEST_STATE`, `CODEX_TOOL_EVENT_DEDUP` | drop by age | the response may still stream | drops nothing in use, announces nothing twice | `ExtProcStream` |
| Session guard (main.rs 224–254, 308–420, 2604–2647) | `SESSION_GUARD_STATES` | check before a request, charge after its response | check and charge are far apart; a restart forgets | overspending is bounded, in a life and over restarts; a refusal stands | `SessionLifecycle`, `Evaluation` |
| Session lifecycle and monitor (main.rs 2543–2690, 2841–2870, 3617–3690, 6536–6570) | `SESSIONS`, `SESSION_TURNS` | upsert, remember, scan, end | three maps, emptied one after the other while tasks fill them | no turn lost or diagnosed twice, the maps agree, idle sessions end | `SessionLifecycle` |
| Watch broadcaster (watch.rs 90–150, main.rs 5271–5395) | history ring, channel, receivers | broadcast, subscribe, replay, receive, lag | record and send are two steps; slow clients | nothing lost silently, duplicates explained, order per publisher | `WatchDelivery`, `EventBroadcaster` |
| /watch persisted replay (main.rs 3142–3390, 5271–5395) | – | reads tables ahead of the stream | overlaps with the history and with what is published meanwhile | no gap between replay and live, a header before the turns | `WatchFeed` |
| Database writer (main.rs 1141–1486) | command channel, SQLite | RecordCodexTurn, WriteDiagnosis, WriteRecall, WriteBillingReconciliation | each statement commits alone, errors are dropped, crash anywhere | a turn is counted once and only a fault keeps it out; numbers follow the turns | `Persistence`, `Ledger`, `Reports` |
| Artifact repair, retention (main.rs 3400–3615, 6500–6534) | the same tables | summaries, diagnoses, recalls; hourly DELETEs | reads in one transaction, writes in another, beside the writer | recalls settle, idle sessions are diagnosed, numbers stay in order | `Persistence` |
| Schema and migrations (main.rs 669–1140) | tables, columns | CREATE, ALTER, fill, filter causes | every connection initializes; each ALTER commits alone | what serves is whole, whatever was interrupted | `Migration` |
| Billing, summaries (main.rs 1494–1980, 4461, 5404, 5616, 5780–5860) | `billing_reconciliations`, `requests` | post a batch, read windows, put bills beside estimates | replies through a oneshot, hang-ups, midnight between two queries | answers tell what was stored, an acknowledged bill counts, windows are nested | `Ledger` |
| Guard policy (guard_policy.rs) | policy file, environment | load, evaluate rules over evidence | counters in the core, totals of rows in the CLI | both come to the same block; a refusal stands; fails open | `GuardPolicy`, `Evaluation` |
| Decision engine (decision.rs) | – | facts to state and action | precedence of facts; four callers with other facts | the callers agree on Stop | `Decision`, `Evaluation`, `WatchTracker` |
| Coach (coach.rs), diagnosis engine (diagnosis.rs) | coach_events | events, signals, causes of turns | concurrent turns, each announcing what is new; the oldest 500 events | every cause announced once, the final verdict agrees | `Coach`, `Diagnosis`, `Evaluation` |
| Postmortem and other reports (postmortem.rs, main.rs 3142–3260, 4880–5270) | diagnoses that readers store | evidence, causes, coach section in separate queries | the writer commits between any two; readers overwrite each other | the sections agree, nothing out of date, no trouble invented | `Postmortem`, `Reports` |
| CLI run gate (cli/main.rs 1420–2028) | polled observations | plan a child, pre-check, poll, verdict | rows are written later than the child ends | no false pass or refusal | `RunPlan`, `RunGate` |
| CLI watch client (cli/main.rs 42–64, 2328–2468, 5524–5621), tmux.rs | tracker, reviews, panes | reconnect, track, card | history is replayed to it again | repetition changes nothing it says | `WatchClient`, `WatchTracker` |
| CLI status and guard (cli/main.rs 3603–3824) | – | facts of a report to a decision | judge by rows what the core judges by counters | see guard policy | `Evaluation` |
| CLI stack (cli/main.rs 613–1221), Envoy and Compose files | containers, bundled files | doctor, up, run | two processes at once, a bind-mounted file, ports | what `up` and `doctor` say holds | `Stack` |
| Metrics, CLI rendering, coach and baseline commands | – | – | read and format, or dormant | – | not modelled |

How they interact: tasks and the monitor share the three DashMaps (one call on
one entry is atomic, two are not); tasks and the monitor send to the writer
thread through a FIFO channel that never blocks; tasks, the monitor and the
writer publish to the broadcaster; the repair pass, the HTTP handlers and the
retention pass open the database beside the writer; each CLI process is a client
of the HTTP API and of docker.

## 2. Modules

| Module | Extends | Holds |
|---|---|---|
| `CircuitBreaker` | – | the breaker and the tasks that meet it |
| `SessionLifecycle` | – | tasks, guard, monitor over the three maps |
| `CodexResponse`, `CodexAccounting` | –, `CodexResponse` | operators: the accumulator of a response; identity, tokens and price of an exchange |
| `ExtProcStream` | `CodexAccounting` | a stream message by message, restarts, cleanup |
| `WatchDelivery` | – | the abstract promise to a client |
| `EventBroadcaster` | – (instantiates `WatchDelivery`) | history, channel, streams of /watch |
| `WatchFeed` | – | what a watch client is sent: turns, rows, replay, stream |
| `WatchTracker`, `WatchClient` | `Decision`; `WatchFeed`, `WatchTracker` | the facts a client keeps; the client over its connections |
| `RunPlan`, `RunGate` | –; `WatchClient`, `RunPlan` | the wrapper's plan; the wrapper beside the feed and a watcher |
| `Persistence` | – | writer, end of sessions, repair, review, retention, crash |
| `GuardPolicy`, `Decision`, `Coach`, `Diagnosis` | – | operators: the rules, the ladder of states, events and signals, causes |
| `Evaluation` | those four | one session's turns in every place that judges them |
| `Postmortem`, `Reports` | `Diagnosis`, `Coach`; `Postmortem` | operators: what the reports say; readers beside the writer |
| `Migration`, `Stack` | –; `Migration` | the schema of the database; the CLI, compose and Envoy around it |
| `Ledger` | – | turns, bills and the reports on both |
| `Induction` | the community and theorem libraries | lemmas: induction, sums, ranks, concatenations |
| `StreamProofs` | `ExtProcStream`, `RunGate`, `Induction` | theorems about the stream task, the run gate and the watch client |
| `EventBroadcasterProofs` | `EventBroadcaster`, `CircuitBreaker` | theorems about both, and about `WatchDelivery` |
| `EvaluationProofs` | `Evaluation`, `Reports`, `Induction` | theorems about both |
| `LedgerProofs` | `Ledger`, `Induction` | its theorems |
| `SessionLifecycleProofs`, `PersistenceProofs`, `StackProofs` | the module of that name | its theorems |
| `MC*` | the module they instantiate | values of the constants for TLC |

Conventions: variables and actions keep the names of the code where it has
them. Operators whose comment begins with "Mutation:" stand just before the
definition they would replace; they are the plausible bugs that `PROJECT.json`
uses to show that a property can fail, and are not part of any specification.
Variables called ghosts in their comment only record what happened. Names that
two composed components would both use carry the component's name in one of
them (`BreakerSpec`, `CoreCrash`, `ReportsSpec`, `RunSpec`).

### 2.1 CircuitBreaker

One `Exchange` is one gRPC stream and its task. `phase[x]` says how far it got;
`has_model[x]` is "the local `model` is not empty". `circuit_open_until` is an
`Option<Instant>`, which the code only compares with *now*: it is modelled as
the ticks left, `None` as -1 and an expired `Some` as 0. `ResponseHeaders` is
one action because the code holds the `RUNTIME_STATE` lock from the test to the
assignment; `Announce` is another because the broadcast follows the unlock. A
task has no await between the two, so `Close` needs that no event is held.
Inputs: the status of an answer is a success, an error, or missing (the code
takes 0); a body has a model, is refused by policy, belongs to an auxiliary
path, or does not parse.

### 2.2 SessionLifecycle

A `Stream` is a slot for one task at a time, a `Session` is an id (the key of
`SESSIONS` is a function of it). The maps are `sessions` (keys) with `stale`
(keys idle for longer than the timeout), `spent` and `requests`
(`SESSION_GUARD_STATES`, where no entry is `requests = 0`) and `turns` (length of
a `SESSION_TURNS` entry). Every DashMap call is an action: the upsert is two
(lookup, insert), and `end_session` is three (guard state, turns, report), with
the tasks of other turns between any two. `stale` grows by time alone:
`last_activity` is refreshed by finalizations and not by requests in flight.
`PublishTurn` announces a start only if the turn has a prompt (main.rs:2463);
`silent` counts the newly started sessions that go without. `Crash` empties the
maps. `charged`, `removals` and `crashes` are ghosts for `SpendingBounded`: what a
session spends in all its lives.
The refused 403, the failed `finish()` and the reply that cannot be sent are one
action (`Abandon`), as they leave the same state.

### 2.3 WatchDelivery and EventBroadcaster

`WatchDelivery` is what a client of /watch may rely on: from the moment it
connects every event is *due* to it, is delivered at least once or is covered by
what it was *told* it missed, and a newcomer gets the recent events as far as
the backlog holds them. It says nothing of rings, channels or locks.

`EventBroadcaster` is the code: `Record` (under the history lock), `Send` (after
it), `Subscribe` (snapshot and new receiver under the lock), `Replay` and then
`Receive` or `Lagged`. Events are numbered in the order of the history. tokio's
channel is external and modelled from how it is used: it retains the last
`ChannelCap` messages and tells a receiver that fell behind how many it lost.
The refinement mapping is at the end of the module: *due* is everything after
the client's horizon at subscription, *owed* is what its snapshot still holds,
what the channel will still hand it, and what has been recorded and not sent.

### 2.4 Persistence

Tables hold turns. `rows` is the `requests` table in rowid order, a snapshot is
the index of its request row with its `turn_number`, a diagnosis is the set of
turns it was computed from, a recall is the turn whose `response_summary` it
quotes. `queue` keeps a command at its head until its last statement. Each
statement is an action with an outcome: one that fails costs a fault, its error
is dropped as in the code, and the next one runs. The number of a snapshot is a
SELECT of its own (`ReadNumber`), which yields 1 when it fails (main.rs:1282).
`SnapshotsInRecordOrder` is claimed for snapshots whose number was read: one that
was not repeats a number, as no constraint forbids it. `Crash` may happen between
any two steps, empties the memory and the queue, and the writer thread of the
next process may be `dead` (it returns when it cannot open its database,
main.rs:1146). The repair pass and the review keep what they read in local
records, so another actor's writes come between their read and their write.

`RequestOf` need not be injective: without `x-request-id` the id is the elapsed
nanoseconds since a clock that was just read (main.rs:4163), which two turns may
share. `SessionOf` and `RequestOf` are constants: a turn's identity is fixed
when its request is parsed.

Abstractions: prompts are blank, so a recall exists exactly for a summary; the
`LIMIT 200` of the repair query is not reached; retention time is the number of
oldest request rows that are over 30 days old, and passes only when nothing that
takes minutes is under way (`Quiet`); `coach_events` and
`billing_reconciliations` have no reader here; foreign keys are enforced, as in
the bundled SQLite; WAL with `synchronous = NORMAL` survives the crash of the
process, which is the crash that is modelled.

### 2.5 GuardPolicy, Decision, Coach, Diagnosis and Evaluation

The first four hold operators. `GuardPolicy` is the loading of a policy (file, or
environment; a limit that does not parse) and `evaluate_guard_policy`: the first
rule in order that is reached is the block. `Decision` is `decide`, a ladder of
pairs (condition, state) in the order of its returns. `Coach` derives events from
a turn and signals from events. `Diagnosis` finds the causes of a sequence of
turns, each with the turn that first shows it. Fills are counted in hundredths of
a percent and dollars in tenths of a cent, the grain at which the limits and the
rounding of a report (`Rounded`, to a tenth of a percent and to a cent) can be told
apart; tokens are whole numbers.

`Evaluation` composes them around one session. A finished response passes through
the steps of `apply_codex_finalization_outcome` -- `Upsert`, `Count`, `Persist`,
`Remember`, `Announce`, `Publish` once per event -- with the other task, the
writer (`CommitTurn`, `CommitDiagnosis`) and the monitor (`RemoveSession`,
`DropGuard`, `TakeTurns`, `ReportEnd`) between them. Five judgements are made of
the same turns, each from its own state. Those from `rows` read a report, which
rounds the fill and the dollars (`Coarse`); the core compares both as they are:

| Judgement | Operator | From |
|---|---|---|
| the core's refusal | `CoreBlock` | `guard`, charged turn by turn |
| `codex-blackbox guard` | `RowsEvidence`, `GuardFacts` | `rows` |
| `codex-blackbox status` | `StatusFacts` | `rows` and `log` |
| the decision in a postmortem | `CompanionFacts` | `log` |
| `codex-blackbox watch` | `Track` (of `WatchTracker`) | the events |

Abstractions: turns have a session id and a first prompt; all turns are Codex
turns; coach events are in commit order, where the code orders them by the
timestamps that turns got just before they were queued; the effects of `ReportEnd`
follow each other without a wait and are one action; CLI and core read the same
policy source, whose content may change between any two requests (see section 5
for what the shipped compose file does to that).

### 2.6 CodexResponse, CodexAccounting and ExtProcStream

The body of a response is a sequence of lines, and a line has three pieces: the
two halves of its text and its newline. A chunk is a number of pieces, so it may
end anywhere in a line; since lines leave the buffer at its front only, the buffer
is two numbers. `ProcessLines` folds the events of the lines into the summary.
`LastTaken` has the early return of `process_chunk`: a malformed line leaves what
is behind it in the buffer.

`CodexAccounting` turns a request and a summary into a turn: which of the header
and body fields names the session (and the hash it falls back to), which totals
contradict each other (`SaturatingAdd` keeps the width of the counters), which
price is found.

`ExtProcStream` is the loop of `process`. A `Stream` is a slot for one task at a
time. A reply goes through a channel of `ReplyCap` places, so `Reply(r)` is enabled
only when there is room; the reply to a refused request is sent inside the `if let`
that holds a shard of `SESSIONS` (`holding`), and finalizations wait for the shard
(`ShardFree`). Envoy is external: it sends the next part of a request only after
its reply, as `envoy.yaml` fixes (headers, then the whole buffered body), and may
close at any moment. No task can wait for its own channel under that assumption, so
no property is spent on it. `Close` and `EndOfStream` are both ends of an exchange;
`finalized` is the flag that keeps the second from finalizing again.
`REQUEST_STATE` and the tool events keep ages that `Tick` raises to `TTL`.
`Crash` empties all maps and every stream. Whether the guard refuses is a free
choice here: what it counts, and what becomes of it when a session ends, is
`SessionLifecycle`.

### 2.7 WatchFeed, WatchTracker and WatchClient

`WatchFeed` is what /watch sends to one client, from the tables to the stream.
Finalizations of a session overlap: each enters `SESSIONS` (`Enter`, which may miss
a session that another is entering), persists its turn (`Finalize`), then publishes
a SessionStart, if it has one to announce, and its turn (`PublishStart`, `Publish`),
at its own pace. So a turn may be published before the start of its session, or
after a later turn (`overtaken`), and a session that a turn without a prompt opened
has no start (`mute`). The writer stores turns (`Commit`), and events fall out of the
history (`Expire`). A connection takes its steps one by one -- `Subscribe`,
`LoadReplay`, `OpenStream`, then `Send` -- with all of the former between them, and
loses the connection or the core at any point. The other events of a turn are one
with it here; how events overtake each other in the channel is `EventBroadcaster`.
`WatchClient` is the process at the other end. It reconnects as long as it lives
and keeps its tracker, the reviews it has shown, and with `--tmux` its panes.

### 2.8 RunPlan and RunGate

`RunPlan` is what `run` makes of its words: which of them are options that take a
value, whether the child asks its model something, what its prompt is thought to
be. A word is only told apart as far as the parser does: the prompt of the child,
or another text. `RunGate` puts the wrapper beside the feed: it notes the last row
(`PreCheck`), starts the child, whose turns are finalized and stored like any
other, and polls for a row that is newer and matches.

### 2.9 Postmortem and Reports

`Postmortem` holds operators: evidence, flight recorder, timeline, degradation
view and recommendation, each with its own copy of the rules, as in the code.
`Reports` runs readers beside the writer: `CommitRequest`, `CommitSnapshot`,
`CommitEvent`, `CommitTotals` are the writer's transactions of a turn, and a
reader goes through `ReadEvidence`, `Analyze`, `Store` and `ReadCoach` (or `ReadList`)
in the order of its endpoint (`Queries`), each on a state of its own.

### 2.10 Migration and Stack

`Migration` is `initialize_persistence_schema` on one connection per `Conn`: tables,
then for each block a look at the columns and the ALTERs that look asked for, then
the context windows, then the causes of old diagnoses, read as a whole and written
back one by one. The writer thread serves its queue after that; `Reader`s
(monitor, reading endpoints) do the same on their own. The columns and blocks are
constants.

`Stack` starts it: `doctor`, `up` and `run` are processes that check
prerequisites and ports, write the bundled files if they differ (a new `serial`),
compose, restart Envoy and wait. Docker and the containers are external: compose
starts the core and then Envoy, nothing restarts what died, and Envoy reads its
bind-mounted file only when it starts. The probes by which a `run` decides whether
the stack is up may also fail for what is there, since they give up after two
seconds or take another answer for not ready (cli/main.rs:872-936): such a run is
`misled`. A wait for what was started may give up in the same way.

### 2.11 Ledger

`requests` and `bills` are rows in their order, `queue` the writer's commands, a
post is a batch with its place (`inserted`) and its answer so far, a report is the
list of queries it still has to make. `expected` notes, when a bill is sent,
whether a turn of its session is stored or queued before it. Costs are tenths of a
cent (the code rounds dollars to cents), times are days: `imported_at` is an ISO
text, compared as such, and two imports of a day are told apart by their row.
`CachedSums` clamps the sum of a session's cached tokens, as the code does.

## 3. What the runs check

Each run takes from a few seconds to two minutes with two workers.

| Run | Instance | Checks |
|---|---|---|
| `breaker` | 4 exchanges, threshold 2, window 2 | `OpenIffStreak`, `OneEventPerTrip`, `CooldownNeverExtended` |
| `session` | 2 tasks, 1 session, budget 1, 3 turns, 1 restart, fair | `BudgetOvershootBounded`, `SpendingBounded`, `TurnsConserved`, `SessionMapsAgree`, `SessionsMakeProgress` |
| `session_cleanup` (violation) | 2 tasks, 1 session, no timeout within a finalization | `EndCleansUp` |
| `watch` | 2 publishers, 1 client, 2 connections, both capacities 2, 4 events, fair | `NoSilentLoss`, `ArrivesInOrder`, `Delivers`, `OwedSettled` |
| `persistence` | 1 session, 2 turns, the repair pass, 1 fault, fair | `SnapshotsInRecordOrder`, `ReadyCoversLife`, `SessionsSettle` |
| `persistence_readers` | 2 sessions whose turns share a request_id, both readers, 2 faults | `DiagnosesAreOnRecord`, `OnlyDamageIsMissing` |
| `evaluation` | 2 tasks, 2 turns of 6 kinds, 9 policy sources, 1 removal | `GuardCommandPredicts`, `VerdictsFollowAlarms`, `StopsAreShared`, `RefusalsStand` |
| `stream` | 2 tasks, 3 exchanges, 4 answers in any chunks, 1 crash | `TurnsSumUpWhatArrived`, `WholeResponsesRecorded`, `ExchangesAreAnnouncedOnce` |
| `cli` | 2 sessions, 2 turns in any overlap, 2 kinds of client or a wrapper with 6 commands, 1 fault | `ReplayMeetsLive`, `SessionsAreShownWhole`, `RepeatsChangeNothing`, `GateJudgesTheChild` |
| `reports` | 2 readers, 2 turns of 4 kinds, 1 lost snapshot, 1 ended life | `EvidenceBacksCauses`, `ReportsAreCurrent`, `DegradationHasOneStory`, `HistoryNeverInvents` |
| `startup` | 2 processes, or 1 beside a reader and a session, 6 hosts, 1 edit, 1 crash, 1 fault | `ServingIsWhole`, `OnlyReadersDoHarm`, `UpIsTrue`, `OnlyEarlierStartsCut` |
| `ledger` | 2 sessions, 2 days, 1 turn, 2 posts of 3 batches, 1 report, 1 fault | `WindowsAreNested`, `AcknowledgedBillsCount`, `AnswersAreTrue` |

Types are proved instead of run where a theorem states them, and every invariant
of the table is also a theorem (section 4).

Why the bounds are enough:

- **Breaker.** A threshold of 2 is the least that a streak has to be completed
  for; four exchanges give two to complete it, one straggler that was admitted
  before the trip and answers while the circuit is open, and one that is refused,
  or answers after the expiry. A window of 2 distinguishes full, partly run down
  and expired.
- **Sessions.** The maps have one entry per session and no step touches two, so
  one session shows every safety hazard. Two tasks overlap in every way two
  finalizations can; a third adds a round to the bound on overspending and no new
  case. Three turns of one token exceed a budget of 1 by a round, and spend a fresh
  one after an end or a restart; the theorems cover the rest.
- **Broadcaster.** Clients do not interact, so one is enough; two connections
  show the second one against events of the first; two publishers are the fewest
  that overtake each other. With both capacities at 2 and four events the ring
  and the channel overflow, the client lags, and the window expires in the middle
  of the ring.
- **Persistence.** Two turns of a session are the fewest for a recall to be
  overtaken and for retention to take one of two numbered turns. Two sessions are
  needed only for a shared request id. One fault cuts any transaction group; two
  show a fault after another's damage. With all actors at once the instance is too
  large, so `Readers` leaves the review out of `persistence`. The theorems need
  none of these bounds.
- **Evaluation.** Properties compare what two or more turns add up to, so two turns,
  finalized in any overlap, distinguish sums from maxima, first from last and
  all from any. The six kinds cover each status, each cause, both context
  thresholds, a fill and a price that the report rounds up to a limit or down below
  one, and an unpriced turn; the policies set each kind of limit, alone and with a warning, where one
  turn stays below and two reach it, and come from a file, from the environment,
  with garbled limits, or not at all. `EventLimit` is 4 for the code's 500, so that
  two turns can overflow it, and `ReuseTurns` is 2 for the code's 3, so that two can
  show low reuse. One removal lets tasks straddle the end of a session and start
  another life.
- **Stream.** Responses of two lines and a broken third show a split in every part
  of a line, a malformed line with another behind it, contradicting totals, a wide
  tool input, a cut end and an error. Three exchanges put two at once behind a first
  one, so that a tool event meets its repetition in the table and after its time. A
  channel of one place is the one that fills soonest.
- **CLI.** Two sessions tell a filter from none; two turns of one session overlap
  from `SESSIONS` to the stream, and one stored and one published turn are what a
  replay and the history can both have. A plain client has the steps of the others
  without a replay or a pane, and is left to the theorems. The one fault is kept for
  where it leaves a trace (`FaultsLeaveTraces`: a crash once there was a turn, a lost
  connection once it brought one), and a client that asks for no session sees
  the two as interchangeable, so the first turn is the watched one's
  (`FirstIsWatched`); both restrict the instance and not the specification. `MaxPolls` 1 is one poll that
  fails and one that is in time. The commands have options before and after the
  prompt, a value option the wrapper does not know, a resumed session, a terminal
  session, help, and a program that is not codex.
- **Reports.** The four kinds of turns have every cause; Full and Cut together
  reuse exactly a tenth of their input, where evidence and diagnosis differ, two of
  Full none. One lost snapshot makes rows and snapshots differ; one life that ends
  between two turns leaves a diagnosis of the first or of the second only.
- **Startup.** Two processes are the fewest that restart each other's Envoy.
  `Scope` keeps two processes and a reader apart: they share no variable but the
  core's phase, and together they are too many. Three blocks have a column to add,
  one to add beside one to drop, and a table to drop.
- **Ledger.** Day 1 is the first of a month but not of a week, so that the week
  reaches back behind the month. One batch stores two bills, one stops at its
  invalid second; two posts of them, in any overlap, retry an older import behind
  a newer one. The second session gets its first turn during the run.

Fairness, where a run assumes it:

- *Sessions:* once a finalization has begun, the task runs without waiting
  (`WF` of the task outside `streaming`); the monitor's timer keeps firing. When
  a response ends is up to Envoy and no fairness says so. `TimelySpec`, used by
  the cleanup run, adds that no session becomes stale between the map calls of one
  finalization, as the timeout is minutes: the violation needs no such accident.
- *Broadcaster:* nothing blocks between the two halves of a broadcast; a client
  that keeps its connection reads from it. Nobody has to publish or disconnect.
- *Persistence:* the writer and the tasks wait for no one, the repair pass and
  the monitor are timer loops, idle sessions time out. Turns, reviews, retention
  and faults are not owed.

Runs switch the deadlock check off because every bounded instance really stops:
all exchanges are over, all turns have been used.

## 4. What is proved

TLAPS checks the theorems for every value of the constants that satisfies the
named `ASSUME`s, and with no bound of a run. Among them is every invariant that a
passing run checks. The assumptions are these:

- *Sizes:* tasks, publishers and streams are finite sets; capacities, windows,
  budgets, times to live, `EventLimit` and `ReuseTurns` are positive; bounds are
  natural numbers, and so are token limits and panes.
- *Data:* a turn has a session and an id; a turn that is judged has the fields of
  its type; a policy file has the fields of a policy. The body of an answer is a
  sequence of lines, and what is sent of it is no more than its pieces. A batch
  holds bills of sessions, days are numbered, and costs are whole numbers of
  either sign.
- *Places:* the writer's connection is not a reader's, columns and blocks are
  those of the schema, ports of hosts are among the ports; the watched session is
  a session, its prompt is the child's, and what `run` is given names a program.

**Induction** holds what the other proofs need of the libraries. Their induction
theorems take an operator as a parameter, so induction is stated with sets: a set
of naturals that has 0 and every successor is all of them, and a nonempty set of
subsets of a finite set has a minimal one. From these it follows that a finite
nonempty set of numbers has a maximum; that `SumFunction` exists, unfolds at any
element, and grows with its parts; that a finite set of numbers has its elements
in order, one per rank; and what the elements of `FlattenSeq` are.

**EventBroadcasterProofs.** `Implements`: the broadcaster implements
`WatchDelivery`, from `TypeInv` and `HistoryIsNewest` (the ring holds the newest
events in order, and every event that left the channel's future was sent).
`AlwaysAccounted`: whatever was due was seen, is owed, or is covered by what the
client was told; `NothingLostSilently` reads it through the mapping.
`OnlyStraddlersRepeat` and `PublishersAreInOrder` (`OrderInv`: for one author, what
is still to come is later than what was seen) make up `ClientsSeeAnOrderedFeed`.
Of the circuit breaker: `BreakerTypes`; `CircuitFollowsStreak` (`OpenIffStreak` is
inductive given the types); `CooldownOnlyShrinks`, the action property, from the
types alone; `TripsAreAnnouncedOnce`, which needs the strengthening that only
tasks that have answered hold an event: otherwise a task could gather two.

**SessionLifecycleProofs.** `TypeCorrect`; `TurnsAreConserved`, by counting the
tasks in phase "queued" before and after each step (adding to or removing from a
finite set); `OvershootIsBounded` and `SpendingIsBounded`. The first bound is not inductive by itself.
`BudgetInv` distinguishes three cases: a session never ended (`NeverEnded`: what
is spent plus one `MaxTokens` per task in flight stays below budget plus round),
one ended before (`EndedBefore`: what is in flight on top of what is spent stays
within two more rounds), and one whose guard state the monitor is about to drop.
The stragglers are what it takes to keep them apart: tasks let through before an
end charge the next life. `SpendingIsBounded` adds up the lives: what was charged is
what the lives that are over may have spent and what is spent now, and a removal or
a restart closes a life at its bound. `MapsAgree` rests on `AgreeInv`: every end, past or to
come, has an insertion of its own, counted among the starts, among those that had no
prompt to announce, or held by a task that has yet to publish; that the monitor puts a session down as ended before it
removes anything keeps the second half to sessions that never ended.

**StreamProofs: the stream task.** `TypeCorrect`, `TurnsAreWhatArrived`,
`WholeIsRecorded` and the action property `AnnouncedOnce`, from one inductive invariant.

- `StreamInv`, for each stream: its summary is the fold of the lines taken out so
  far and the buffer holds the rest (`Accumulates`); who is admitted is known
  (`Identified`); it has a turn once it is finalized and not before (`TurnIsDue`).
  That chunks fold like the whole response is `ProcessInPortions`, by induction over
  the lines; `ChunkEmpties` says where a chunk stops, before a broken line or
  at the last whole one.
- `TableIsRecent`: the table of tool events holds those of the time to live, at
  their age. A second announcement within that time would be of an event in the table.

**StreamProofs: the CLI.** `GateJudges`, from `GateOK`: turns reach the tables once
(`WriterOK`); a turn of the child has a row behind the one that the pre-check noted,
and if none of its session was on the way then, a row behind it is the child's
(`OwnOK`). `ReplayMeets`, `SessionsAreWhole` and `RepeatsAreIdle` need `FeedOK`:

- what a feed holds is what was published, with the session of its turn
  (`FeedsOK`), no turn twice (`OnceOK`), and rows in the order in which turns ended
  (`OrderOK`);
- a turn on its way to the database is also about to be published, or was
  (`MeetsOK`): a client that did not hear it finds its row, in the replay;
- a live session has a start, in what the client got or is about to get, with a
  finalization that has yet to publish it, or none for want of a prompt; unless its
  end is among that (`HeaderOK`);
- the last turn of a session is in what is pending, still with the task, or in the
  pane, as later turns are newer unless they were overtaken (`PanesOK`);
- what the tracker says is a function of the set of events it met (`TrackOK`), so
  that a repetition changes nothing.

**PersistenceProofs.** `TypeCorrect` together with `WriterInv` (what the writer is
between two statements of: its command is the head of the queue, its row the last
row). `TurnsAreNumberedInOrder`: a number that was read is above those of all
snapshots of its session until it is used (`HeldNumberInv`), as only the writer inserts;
that `CHOOSE` finds a maximum is a lemma over finite sets of snapshots (`MaxExists`). `LedgerIsComplete`:
`Counted` and `Kept` say how far the writer's current row is in the totals and
the snapshots, and a completion step joins them. `DiagnosesFollowTurns`: every turn
a diagnosis could be about (in memory, with the monitor, in a queued command, in
the repair pass or review) is on record, damaged, or *ahead of it in the FIFO
queue*. `EventsCoverTheirLife`: adds that a life in someone's hands keeps its
snapshots, since 30 days do not pass while it is held.

**EvaluationProofs: the judgements.**

- `RefusalsAreFinal`, the action property `RefusalsStand`, under whatever a policy
  source loads to: only `Count` touches the counters while the session lives; a
  charge lowers no measure and restores no trust (`ChargeIsMonotone`), so a rule
  reached before is reached after (`ReachedStays`), and there is a block exactly if
  some rule is reached (`BlockIff`). `CountersAreTyped` is the invariant it rests on.
- `GuardPredicts`: until a session ends its counters are those of the rows, the
  queue and the tasks between `Count` and `Persist`, together. `CountersAgree` has
  this for sums, for maxima, and for the trust in prices. At rest the last two are
  empty, and the first rule in order is the same on both sides (`SameBlock`), up to
  the rounding of the fill and of the dollars.
- `AlarmsTellTheStory`: the alarms on a life, and those a task is about to raise,
  have every firm cause of its turns and no other (`StoriesHold`), and the verdict
  names the earliest of them (`VerdictsHold`). A turn more may add causes and
  takes back none (`FirmOfAppend`).
- `StopsShared`: every event of a turn on record is known to the watcher or waits
  in the outbox of a task (`OutboxOK`, `WatchOK`), and the coach events are those
  of the rows (`LogOK`). The ladder of `decide` then has the same outcome for the
  facts of each caller (`WhenStopped`, `WhenHeard`).

**EvaluationProofs: the reports.** `ReportsStayCurrent`, `EvidenceMatches`, `OneStory`
and `HistoryIsTrue`, from `ReadersOK`: whatever a reader has read between two of its
queries is a prefix of the snapshots as they are now, a diagnosis of a longer prefix
than the evidence, and it is without one only if the table was empty when the
request came in. `TablesOK` says as much of what is stored. The rest is about
operators: what evidence, timeline and causes make of the same prefix.

**StackProofs.** `WriterServesWhole` and `HarmIsByReaders` follow from one inductive
invariant. Of the database each phase of a connection says what it has behind it
(`Staged`), which holds because no statement undoes another, by whichever
connection; a column that is about to be altered and needs it no more was altered by
another connection, and that is what the writer stops over (`Warned`); a row that
still has causes of other providers is one that every connection past its SELECT
has still to write (`Listed`); causes of another analysis than the row's belong to
a session that was diagnosed while a reader held a copy (`Attributed`); and what a
connection looked up it keeps for one phase only (`Held`). `UpSaysWhatIs`: serials
only grow, and a process past its restart of Envoy has what it composed with loaded.
`CutsAreExcused`: while a child has not been cut off Envoy is there, and every
process that could restart it is excused (`ChildrenServed`), since a run that finds
both up starts nothing, unless a probe misled it. `MigrationTypes` states the types.

**LedgerProofs.** `ImportsAnswerTruly` for `AnswersAreTrue`, from four conjuncts: the
types; a post has as many bills stored as it says, unless its client left
(`CountsAgree`); the bills in the queue that are waited for are one each, of the
record their post is at (`QueueAgrees`); and a turn that came before a bill is
ahead of it in the queue, or its session has its row or was refused one
(`TurnsComeFirst`), which at the head of the queue leaves only the last two.
`WindowsNest` and `AcknowledgedBillsStay`: tables only grow, and an acknowledged
bill is in them (`BooksOK`). A report has answered its queries up to some point
(`Progress`); each window shows the sum of rows that are still there (`Counted`) and
for each session a bill that is still there (`BillsStand`), no older than any that
was acknowledged when the report was asked for (`AcksStand`), and a window that is
read later has what an earlier one has (`Nests`).

Only model-checked: the liveness properties `SessionsMakeProgress`, `OwedSettled` and
`SessionsSettle`, since fairness and ENABLED are outside the prover's reach; and the
violation, which is about one instance.


## 5. What the code does otherwise

The violation that a run shows:

*An ended session leaves entries behind* (`session_cleanup`). The monitor does not
look at `last_activity` again before it removes a collected key (main.rs:6555); a
task between its upsert and its pushes re-creates guard state and turns of a
session no scan will see again, until another request of that session: the turn
is neither ended nor diagnosed before then. The comment at main.rs:3617 promises
"clean up".

Other places where code and documents, or two parts of the code, differ. The
models have what the code does; no run is spent on them.

Turns and sessions:

- Errors of exchanges without a model reset the breaker (main.rs:4357); the comment
  at main.rs:4329 says they are ignored.
- `truncate_detail` (main.rs:4018) slices a tool input at its 100th byte and panics
  inside a multi-byte character: the task dies with its turn, and `REQUEST_STATE`
  keeps the entry until the cleanup. The comment at main.rs:4393 says processing
  continues "to finalize the response regardless". `WholeResponsesRecorded` is
  claimed for other inputs. `persisted_session_display_name` and the CLI's
  `render_event` slice likewise.
- A malformed line that is the last of a stream, or left in the buffer behind
  another, makes `finish` fail, and the turn is lost.
- The session id falls back to a hash of the *last* user prompt; ARCHITECTURE.md:91
  says the first. The core cuts its excerpt of a prompt with `…` (main.rs:3939), the
  accounting and the CLI with `...`; only the latter is stored and compared.
- Session totals are never recomputed: ARCHITECTURE.md:138 says "repair derived
  session totals and summaries", but after a fault between the request row and the
  totals (main.rs:1352) they stay short. The runtime counters count a repeated
  request id twice, the database once. Rows may be in another order than memory,
  as finalizations overlap.
- A session whose first turn has no prompt ends with a SessionEnd and had no
  SessionStart (main.rs:2463). Concurrent turns of a new session may be published
  before its SessionStart, and in another order than they were stored.
- A failed SELECT of the turn number stores a second turn 1 (main.rs:1282).
- `POSTMORTEM_READY_SESSIONS` and the shown reviews of `watch` are never emptied; a
  review counts as shown before it was fetched.

Policies and decisions:

- `decide` returns the state of the strongest signal, Careful included, before it
  looks at the counters (decision.rs:213): with an anomalous response and an
  unknown status, or a fill of 70–84 %, status says Careful, although
  decision.rs:613 and decision.rs:634 are named for the opposite. The same happens to failed
  responses once a session has more than 500 coach events, as the oldest are read
  (postmortem.rs:494). ARCHITECTURE.md:55 lists a signal for untrusted pricing that
  nothing emits.
- README.md:211 says that decision states have the same semantics everywhere;
  the tracker of `watch` never clears `ended` when a session comes back, nor does a pane.
- The guard command reads its policy from the CLI's environment, the core from its
  container's, where docker-compose.yml sets both budgets to 0 and names no policy
  file. `GuardCommandPredicts` is about two readers of one source. A garbled limit
  in the environment is silently unset, one in the file drops the whole file with an issue.
- The report rounds the fill to a tenth of a percent and the dollars to a cent, the
  core compares both unrounded: the guard command may block a turn early or late
  (`GuardCommandPredicts` says exactly when).

Reports:

- Evidence of low cache reuse is `<= 0.10` (postmortem.rs), the diagnosis has
  `< 0.10`. The next action of a postmortem may address another cause than its
  primary one.
- The diagnosis at the end of a life covers that life's turns only and replaces one
  of the whole session; GET /api/diagnosis may replace a newer one.
- A postmortem read from request rows, before the first snapshot, may show a
  failure its later diagnosis does not cover (`EndsAsShown` is claimed for the
  others), and one that has request rows only reports a failure without a cause.
  The coach section may be a turn ahead of the evidence or behind it. Synthesized
  coach events carry no context pressure.
- `handle_sessions` casts a negative number of days to an unsigned one.

Watch and run:

- The persisted replay is skipped when any recent event of the session is in the
  history, however old the rest of it is. A client that reconnects counts turns
  again (only its verdicts are unaffected, `RepeatsChangeNothing`).
- A pane of an ended session is never freed; Ctrl+C may leave an orphan pane.
- Without a session id on the child's stderr the run gate matches by prompt, or by
  nothing but the row: another session's turn can satisfy it, and a turn of its
  own session that was still on its way at the pre-check can. An option unknown to
  `codex_exec_option_consumes_value` makes its value the prompt, and a good run
  whose session id was not captured fails.

Database and stack:

- A bill posted without `imported_at` gets the present: a late retry of it replaces
  a newer one. A bill that was queued when its client hung up is stored. The week
  of a summary may reach back behind its month.
- Reading endpoints migrate the schema concurrently: a "duplicate column" can end
  the writer thread while /health stays good, and
  `repair_session_diagnosis_envoy_causes` can put old causes into a newer row.
- `doctor` does not test port 9092, which `up` binds (README.md:82), and asks for
  docker where `up` takes docker-compose. Two runs restart each other's Envoy, and a
  run whose probe of a busy core times out restarts it under another's child.
  With `failure_mode_allow` traffic passes unobserved while the core is down.

## 6. Not modelled, and why

- *Metrics:* Prometheus counters are read by nothing else; the historical gauges are
  a no-op.
- *Coach hooks, baselines, `coach` and `baseline` commands, companion routes, the
  `reconcile` command:* dormant behind `features` constants that are false, or not
  mounted. The subscription preflight is dead code.
- *The search of recalls:* a read-only score over text.
- *Rendering and redaction* in the CLI and in postmortems, the text of the compose
  files, `logs`, `down` and the Grafana option: format and process I/O.
- *The 90-day DELETEs* of recalls and diagnoses: no other actor reads what they take,
  except a repair that puts it back.
- *The branches of the diagnosis for other providers:* no turn of theirs is recorded
  any more; the migration filters their causes (`Migration`).
- *Parsing of JSON and TOML, floating-point prices:* what they yield is given.
- *tmux itself:* its panes are a set with a limit (`WatchClient`).

## 7. Plan

What would add most next:

1. A refinement of `WatchDelivery` by `WatchFeed`, so that the persisted replay has
   the same abstract promise as the history; `ReplayMeetsLive` is proved directly so far.
2. The 90-day DELETEs in `Persistence`, with a bound on time that keeps them apart
   from the 30-day one.
3. Lag of the channel in `WatchFeed`: a client that is told it missed events and has
   no replay left.
