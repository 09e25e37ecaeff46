----------------------------- MODULE WatchFeed -----------------------------
(***************************************************************************)
(* GET /watch for one client, and what feeds it.  A finalization enters    *)
(* its session, persists its turn (queue), then publishes it; those of a   *)
(* session overlap, each task at its own pace.  The writer thread commits  *)
(* turns (rows); recent events wait in the broadcaster's history.  A       *)
(* client takes the history and subscribes in one step (EventBroadcaster), *)
(* then the handler may load a replay from the database, then looks for a  *)
(* SessionStart to put first, and then streams: replay, history, live      *)
(* events.  Turns are persisted, published and committed between any two   *)
(* of these steps.                                                         *)
(*                                                                         *)
(* What a turn publishes is a SessionStart, if it has one, and one event   *)
(* for the rest, which no property tells apart.  Left to other modules:    *)
(* guard state and counters (SessionLifecycle), diagnoses (Evaluation),    *)
(* repairs and failed statements (Persistence), lag (EventBroadcaster).    *)
(***************************************************************************)
EXTENDS Integers, SequencesExt, FiniteSetsExt

CONSTANTS
  Session,
  Watched,         \* the session a filtered client asks for
  Mode,            \* the clients: /watch, ?session=Watched, ?replay=recent; or
                   \* none ("run": codex-blackbox run)
  Failing,         \* the turns that fail, as numbers
  ReplayLimit,     \* sessions in an unfiltered replay: 20
  MaxTurns, MaxFaults   \* bounds: turns; faults and lost connections

ASSUME WatchedAssumption == Watched \in Session
ASSUME ModeAssumption == Mode \subseteq {"plain", "session", "recent", "run"}

VARIABLES
  turns,           \* ghost: the session of each turn; a turn is its index
  begun,           \* finalizations between SESSIONS and DB_TX, by session and
                   \* whether they have a SessionStart to announce
  tasks,           \* finalizations that have persisted their turn and not yet
                   \* published it; start: nor its SessionStart
  live, memory,    \* SESSIONS; turns in SESSION_TURNS, as a number
  mute,            \* ghost: live sessions that a turn without a prompt opened
  overtaken,       \* ghost: turns published after a later one of their session
  announced,       \* POSTMORTEM_READY_SESSIONS
  queue, rows,     \* DB_TX; the turns with a snapshot, in turn_number order
  idle,            \* sessions whose ended_at is past the timeout
  history,         \* the broadcaster's recent events
  faults,          \* ghost: faults and lost connections so far
  mode, stage,     \* the client's URL; where the handler is
  backlog, inbox,  \* the history it took; its receiver
  replay, outgoing,  \* the persisted replay; what is streamed before inbox
  reach,           \* ghost: the sessions the replay leaves nothing out of
  replayed, late   \* ghosts: turns in the replay; published since subscribing

finalizing == <<turns, begun, tasks>>
sessions == <<live, memory, mute>>
core == <<finalizing, sessions, overtaken, announced, queue, rows, idle, history>>
ghosts == <<reach, replayed, late>>
connection == <<mode, stage, backlog, inbox, replay, outgoing, ghosts>>
feedVars == <<core, faults, connection>>

Status(t) ==
  IF t = 0 THEN "none" ELSE IF t \in Failing THEN "failed" ELSE "completed"

\* What a sequence has at some of its places, in order.
Picked(s, places) ==
  LET Before(i) == Cardinality({j \in places : j < i}) IN
  [n \in 1..Cardinality(places) |-> s[CHOOSE i \in places : Before(i) = n - 1]]

Of(ids, s) == Picked(ids, {i \in DOMAIN ids : turns[ids[i]] = s})

Event(type, s, t, n) ==
  [type |-> type, session |-> s, turn |-> t, turns |-> n, status |-> Status(t)]
Start(s) == Event("SessionStart", s, 0, 0)
Summary(s, t) == Event("CodexTurnSummary", s, t, 0)

FeedTypeOK ==
  /\ turns \in Seq(Session)
  /\ begun \in [Session -> [BOOLEAN -> Nat]]
  /\ tasks \subseteq [turn : DOMAIN turns, session : Session, start : BOOLEAN]
  /\ mute \subseteq live /\ overtaken \subseteq DOMAIN turns
  /\ live \subseteq Session /\ announced \subseteq Session /\ idle \subseteq Session
  /\ memory \in [Session -> Nat]
  /\ rows \in Seq(DOMAIN turns)
  /\ stage \in {"down", "subscribed", "loaded", "streaming"}
  /\ mode \in Mode
  /\ \A q \in {history, backlog, inbox, replay, outgoing} :
       \A i \in DOMAIN q : q[i].session \in Session /\ q[i].turn \in 0..Len(turns)

FeedInit ==
  /\ begun = [s \in Session |-> [start \in BOOLEAN |-> 0]]
  /\ turns = <<>> /\ tasks = {}
  /\ live = {} /\ mute = {} /\ overtaken = {} /\ announced = {}
  /\ memory = [s \in Session |-> 0]
  /\ queue = <<>> /\ rows = <<>> /\ idle = {} /\ history = <<>> /\ faults = 0
  /\ mode \in Mode /\ stage = "down" /\ backlog = <<>> /\ inbox = <<>>
  /\ replay = <<>> /\ outgoing = <<>>
  /\ reach = {} /\ replayed = {} /\ late = {}

-----------------------------------------------------------------------------
(* The core.                                                               *)

\* event_matches_session; the client's own filter is the same.
Wanted(event) == mode = "session" => event.session = Watched
OnlyWanted(events) == Picked(events, {i \in DOMAIN events : Wanted(events[i])})

\* Mutation: the receiver is created when the stream starts.
ListeningFromStream == stage = "streaming"

\* Whether broadcasts reach the client's receiver.
Listening == stage # "down"

Broadcast(events) ==
  /\ history' = history \o events
  /\ IF Listening
       THEN /\ inbox' = inbox \o OnlyWanted(events)
            /\ late' = late \cup {events[i].turn : i \in DOMAIN events}
       ELSE UNCHANGED <<inbox, late>>

\* Finalizations that have not persisted their turn.
Entering == MapThenSumSet(LAMBDA s : begun[s][TRUE] + begun[s][FALSE], Session)

\* upsert_codex_session.  Its lookup is a step before its insertion: a task
\* may miss a session that another is entering.  Whoever inserts announces a
\* start, if the turn has a prompt.
Enter(s, missed, prompted) ==
  /\ Len(turns) + Entering < MaxTurns
  /\ IF missed THEN s \notin live \/ begun[s][TRUE] + begun[s][FALSE] > 0
               ELSE s \in live
  /\ begun' = [begun EXCEPT ![s][missed /\ prompted] = @ + 1]
  /\ live' = live \cup {s}
  /\ mute' = IF ~missed THEN mute
             ELSE IF prompted THEN mute \ {s}
             ELSE mute \cup ({s} \ live)
  /\ UNCHANGED <<turns, tasks, memory, overtaken, announced, queue, rows, idle,
                 history, faults, connection>>

\* apply_codex_finalization_outcome from there to its events.
Finalize(s, start) ==
  /\ begun[s][start] > 0
  /\ begun' = [begun EXCEPT ![s][start] = @ - 1]
  /\ turns' = Append(turns, s)
  /\ tasks' = tasks \cup {[turn |-> Len(turns'), session |-> s, start |-> start]}
  /\ memory' = [memory EXCEPT ![s] = @ + 1]
  /\ queue' = Append(queue, [op |-> "turn", turn |-> Len(turns'), session |-> s])
  /\ UNCHANGED <<live, mute, overtaken, announced, rows, idle, history, faults,
                 connection>>

\* Its events: of tasks under way, each publishes at its own pace.
PublishStart(k) ==
  /\ k.start
  /\ Broadcast(<<Start(k.session)>>)
  /\ tasks' = (tasks \ {k}) \cup {[k EXCEPT !.start = FALSE]}
  /\ UNCHANGED <<turns, begun, sessions, overtaken, announced, queue, rows, idle,
                 faults, mode, stage, backlog, replay, outgoing, reach, replayed>>

Publish(k) ==
  /\ ~k.start
  /\ Broadcast(<<Summary(k.session, k.turn)>>)
  /\ tasks' = tasks \ {k}
  /\ overtaken' = overtaken \cup
       {t \in {k.turn} : \E later \in (t + 1)..Len(turns) :
          turns[later] = k.session /\ \A j \in tasks : j.turn # later}
  /\ UNCHANGED <<turns, begun, sessions, announced, queue, rows, idle, faults,
                 mode, stage, backlog, replay, outgoing, reach, replayed>>

\* The session timeout is a number of minutes: by then the 30 s window holds no
\* turn of s, and tasks and the writer are assumed to keep up with the window.
Quiet(s) ==
  /\ begun[s][TRUE] = 0 /\ begun[s][FALSE] = 0
  /\ \A k \in tasks : k.session # s
  /\ \A q \in {queue, history} : \A i \in DOMAIN q :
       q[i].turn # 0 => q[i].session # s

\* The monitor and end_session.
EndSession(s) ==
  /\ s \in live /\ Quiet(s)
  /\ live' = live \ {s} /\ mute' = mute \ {s}
  /\ memory' = [memory EXCEPT ![s] = 0]
  /\ Broadcast(<<Event("SessionEnd", s, 0, memory[s])>>)
  /\ queue' = Append(queue, [op |-> "diagnosis", turn |-> 0, session |-> s])
  /\ UNCHANGED <<finalizing, overtaken, announced, rows, idle, faults, mode, stage,
                 backlog, replay, outgoing, reach, replayed>>

\* db_writer_loop: RecordCodexTurn sets ended_at, WriteDiagnosis is followed by
\* maybe_broadcast_postmortem_ready.
Commit ==
  /\ queue # <<>>
  /\ LET cmd == Head(queue) s == cmd.session IN
     /\ queue' = Tail(queue)
     /\ IF cmd.op = "turn"
        THEN /\ rows' = Append(rows, cmd.turn) /\ idle' = idle \ {s}
             /\ UNCHANGED <<announced, history, inbox, late>>
        ELSE /\ IF Of(rows, s) # <<>> /\ s \notin announced
                THEN /\ announced' = announced \cup {s}
                     /\ Broadcast(<<Event("PostmortemReady", s, 0, Len(Of(rows, s)))>>)
                ELSE UNCHANGED <<announced, history, inbox, late>>
             /\ UNCHANGED <<rows, idle>>
  /\ UNCHANGED <<finalizing, sessions, overtaken, faults, mode, stage, backlog,
                 replay, outgoing, reach, replayed>>

\* ended_at falls behind now - session_timeout_secs.
Timeout(s) ==
  /\ Of(rows, s) # <<>> /\ s \notin idle /\ Quiet(s)
  /\ idle' = idle \cup {s}
  /\ UNCHANGED <<finalizing, sessions, overtaken, announced, queue, rows, history,
                 faults, connection>>

Stored == ToSet(rows)

\* An event leaves the 30 s window.
Expire ==
  /\ history # <<>>
  /\ Head(history).turn \in Stored \cup {0}
  /\ history' = Tail(history)
  /\ UNCHANGED <<finalizing, sessions, overtaken, announced, queue, rows, idle,
                 faults, connection>>

-----------------------------------------------------------------------------
(* handle_watch.                                                           *)

HistoryHasSession(h) == \E i \in DOMAIN h : Wanted(h[i])
HistoryHasStart(h) ==
  \E i \in DOMAIN h : h[i].type = "SessionStart" /\ h[i].session = Watched

\* should_load_persisted_watch_replay.
ShouldLoad == mode # "plain" /\ ~HistoryHasSession(backlog)

\* load_persisted_watch_sessions: the watched one, or the last ReplayLimit by
\* their last turn, oldest first.
ReplaySessions ==
  LET lasts == {i \in DOMAIN rows : \A j \in (i + 1)..Len(rows) :
                  turns[rows[j]] # turns[rows[i]]}
      Recent(i) == Cardinality({j \in lasts : j > i}) < ReplayLimit
  IN Picked([i \in DOMAIN rows |-> turns[rows[i]]],
            {i \in lasts : IF mode = "session" THEN turns[rows[i]] = Watched ELSE Recent(i)})

\* Mutation: the turns come in descending order.
ReplayOfNewestFirst(s) ==
  LET mine == Reverse(Of(rows, s)) IN
  <<Start(s)>> \o [i \in DOMAIN mine |-> Summary(s, mine[i])]
    \o (IF s \in idle THEN <<Event("PostmortemReady", s, 0, Len(mine))>> ELSE <<>>)

\* load_persisted_watch_replay_events.
ReplayOf(s) ==
  LET mine == Of(rows, s) IN
  <<Start(s)>> \o [i \in DOMAIN mine |-> Summary(s, mine[i])]
    \o (IF s \in idle THEN <<Event("PostmortemReady", s, 0, Len(mine))>> ELSE <<>>)
ReplayEvents == FlattenSeq([i \in DOMAIN ReplaySessions |-> ReplayOf(ReplaySessions[i])])

\* subscribe_with_history.
Subscribe ==
  /\ mode # "run" /\ stage = "down"
  /\ stage' = "subscribed" /\ backlog' = history /\ inbox' = <<>>
  /\ reach' = {} /\ replayed' = {} /\ late' = {}
  /\ UNCHANGED <<core, faults, mode, replay, outgoing>>

\* The blocking load, when it is wanted.
LoadReplay ==
  /\ stage = "subscribed"
  /\ stage' = "loaded"
  /\ replay' = IF ShouldLoad THEN ReplayEvents ELSE <<>>
  /\ replayed' = {replay'[i].turn : i \in DOMAIN replay'}
  /\ reach' = IF ShouldLoad
              THEN {s \in Session : Of(rows, s) # <<>> => s \in ToSet(ReplaySessions)}
              ELSE {}
  /\ UNCHANGED <<core, faults, mode, backlog, inbox, outgoing, late>>

\* Whether a SessionStart is made up from SESSIONS.
NeedsStart == mode = "session" /\ Watched \in live /\ ~HistoryHasStart(backlog)

\* The lookup in SESSIONS, and what the stream starts with.
OpenStream ==
  LET persisted == Picked(replay, {i \in DOMAIN replay :
                     ~(NeedsStart /\ replay[i].type = "SessionStart")})
  IN
  /\ stage = "loaded"
  /\ stage' = "streaming"
  /\ outgoing' = (IF NeedsStart THEN <<Start(Watched)>> ELSE <<>>)
                   \o persisted \o OnlyWanted(backlog)
  /\ backlog' = <<>> /\ replay' = <<>>
  /\ UNCHANGED <<core, faults, mode, inbox, ghosts>>

\* What the stream sends next, and sending it.
Pending == outgoing \o inbox
Send ==
  /\ stage = "streaming" /\ Pending # <<>>
  /\ IF outgoing # <<>> THEN outgoing' = Tail(outgoing) /\ UNCHANGED inbox
                        ELSE inbox' = Tail(inbox) /\ UNCHANGED outgoing
  /\ UNCHANGED <<core, faults, mode, stage, backlog, replay, ghosts>>

Hangup ==
  /\ stage' = "down" /\ backlog' = <<>> /\ inbox' = <<>>
  /\ replay' = <<>> /\ outgoing' = <<>>
  /\ reach' = {} /\ replayed' = {} /\ late' = {}
  /\ UNCHANGED mode

Fault == faults < MaxFaults /\ faults' = faults + 1

\* Client or network give up.
Disconnect == stage # "down" /\ Fault /\ Hangup /\ UNCHANGED core

\* The core dies: what is in memory is gone, and every connection.
CoreCrash ==
  /\ Fault
  /\ begun' = [s \in Session |-> [start \in BOOLEAN |-> 0]]
  /\ tasks' = {}
  /\ live' = {} /\ mute' = {} /\ announced' = {} /\ queue' = <<>>
  /\ memory' = [s \in Session |-> 0] /\ history' = <<>>
  /\ Hangup
  /\ UNCHANGED <<turns, overtaken, rows, idle>>
=============================================================================
