-------------------------- MODULE SessionLifecycle --------------------------
(***************************************************************************)
(* The life of a session inside codex-blackbox-core: how ext_proc tasks    *)
(* admit requests against the session's token budget and finalize turns    *)
(* into the shared maps, while the inactivity monitor ends idle sessions.  *)
(*                                                                         *)
(* The shared maps are DashMaps: one call on one entry is atomic, two      *)
(* calls are not.  An action below is one such call, with the local        *)
(* computation after it, so that every interleaving the maps allow is a    *)
(* behaviour.                                                              *)
(*                                                                         *)
(*   SESSIONS              sessions (its keys), stale (idle too long)      *)
(*   SESSION_GUARD_STATES  spent, requests; no entry is requests = 0       *)
(*   SESSION_TURNS         turns (the length); no entry is 0, as an entry  *)
(*                         is created only to push a turn into it          *)
(*                                                                         *)
(* A stream is a slot for one ext_proc task at a time.  The policy has a   *)
(* token budget only; the other rules are in GuardPolicy.  Nothing here is *)
(* stored: a crash of the core empties the maps, and its tasks are gone.   *)
(***************************************************************************)
EXTENDS Integers, FiniteSets

CONSTANTS
  Stream,      \* slots for concurrent ext_proc tasks
  Session,     \* session ids; SESSIONS' key is a function of the id
  Budget,      \* session_token_budget
  MaxTokens,   \* the most tokens one turn can report
  MaxTurns,    \* bound: requests each session may start
  MaxCrashes   \* bound: restarts of the core

ASSUME StreamAssumption == IsFiniteSet(Stream)
ASSUME BudgetAssumption == Budget \in Nat \ {0}
ASSUME TokensAssumption == MaxTokens \in Nat
ASSUME TurnsAssumption == MaxTurns \in Nat
ASSUME CrashesAssumption == MaxCrashes \in Nat

VARIABLES
  sessions, stale,        \* SESSIONS, and those past the inactivity timeout
  spent, requests,        \* SESSION_GUARD_STATES: total_tokens, request_count
  turns,                  \* SESSION_TURNS: number of remembered turns
  recorded,               \* RecordCodexTurn commands sent in this life
  phase, session, fresh,  \* per task: step, session id, newly_started
  monitor, expired, ending, taken,  \* the inactivity monitor's locals
  starts, ends, diagnosed,  \* of this life: SessionStart, SessionEnd events;
                            \* turns in the WriteDiagnosis commands
  silent,                 \* ghost: newly started, but no prompt to announce
  reopened,               \* ghost: removed by the monitor in this life
  started, crashes,       \* ghosts: requests and restarts, to bound the model
  charged, removals       \* ghosts: tokens ever charged, entries ever removed

maps == <<sessions, stale, spent, requests, turns>>
tasks == <<phase, session, fresh>>
monitorVars == <<monitor, expired, ending, taken>>
events == <<recorded, starts, ends, diagnosed, silent>>
overall == <<crashes, removals>>
ghosts == <<started, reopened, charged, overall>>
vars == <<maps, tasks, monitorVars, events, ghosts>>

Phases == {"idle", "refused", "streaming", "missed", "upserted", "counted",
           "queued", "remembered"}
MonitorPhases == {"scan", "next", "guard", "turns", "report"}

TypeOK ==
  /\ sessions \in SUBSET Session /\ stale \in SUBSET sessions
  /\ spent \in [Session -> Nat] /\ requests \in [Session -> Nat]
  /\ turns \in [Session -> Nat]
  /\ recorded \in [Session -> Nat]
  /\ phase \in [Stream -> Phases]
  /\ session \in [Stream -> Session] /\ fresh \in [Stream -> BOOLEAN]
  /\ monitor \in MonitorPhases /\ expired \in SUBSET Session
  /\ ending \in Session /\ taken \in Nat
  /\ starts \in [Session -> Nat] /\ ends \in [Session -> Nat]
  /\ diagnosed \in [Session -> Nat] /\ silent \in [Session -> Nat]
  /\ started \in [Session -> 0..MaxTurns]
  /\ reopened \in SUBSET Session
  /\ crashes \in 0..MaxCrashes
  /\ charged \in [Session -> Nat] /\ removals \in [Session -> Nat]

Init ==
  /\ sessions = {} /\ stale = {}
  /\ spent = [s \in Session |-> 0] /\ requests = [s \in Session |-> 0]
  /\ turns = [s \in Session |-> 0]
  /\ recorded = [s \in Session |-> 0]
  /\ phase = [r \in Stream |-> "idle"]
  /\ session \in [Stream -> Session] /\ fresh = [r \in Stream |-> FALSE]
  /\ monitor = "scan" /\ expired = {} /\ ending \in Session /\ taken = 0
  /\ starts = [s \in Session |-> 0] /\ ends = [s \in Session |-> 0]
  /\ diagnosed = [s \in Session |-> 0] /\ silent = [s \in Session |-> 0]
  /\ reopened = {}
  /\ started = [s \in Session |-> 0] /\ crashes = 0
  /\ charged = [s \in Session |-> 0] /\ removals = [s \in Session |-> 0]

Goto(r, p) == phase' = [phase EXCEPT ![r] = p]

-----------------------------------------------------------------------------
(* The ext_proc task.                                                      *)

\* Mutation: only a budget that is exceeded refuses.
OverBudgetLate(s) == s \in sessions /\ requests[s] > 0 /\ spent[s] > Budget

\* check_session_guard: no SESSIONS entry or no guard state lets the request
\* through; a budget that is reached refuses it.  The SESSIONS entry stays
\* locked while the guard state is read, so the two reads are one step.
OverBudget(s) == s \in sessions /\ requests[s] > 0 /\ spent[s] >= Budget

\* RequestBody of a request that names session s.
RequestBody(r, s) ==
  /\ phase[r] = "idle"
  /\ started[s] < MaxTurns
  /\ started' = [started EXCEPT ![s] = @ + 1]
  /\ session' = [session EXCEPT ![r] = s]
  /\ Goto(r, IF OverBudget(s) THEN "refused" ELSE "streaming")
  /\ UNCHANGED <<maps, fresh, monitorVars, events, reopened, charged, overall>>

\* The task ends with nothing to finalize: the request was refused (`model`
\* is empty), a reply could not be sent, or finish() failed on what is left
\* of the response.
Abandon(r) ==
  /\ phase[r] \in {"refused", "streaming"}
  /\ Goto(r, "idle")
  /\ UNCHANGED <<maps, session, fresh, monitorVars, events, ghosts>>

\* end_of_stream, or the stream closed: upsert_codex_session looks the key up
\* and refreshes last_activity of an entry it finds.
Upsert(r) ==
  LET s == session[r] IN
  /\ phase[r] = "streaming"
  /\ IF s \in sessions
       THEN /\ Goto(r, "upserted")
            /\ fresh' = [fresh EXCEPT ![r] = FALSE]
            /\ stale' = stale \ {s}
       ELSE Goto(r, "missed") /\ UNCHANGED <<fresh, stale>>
  /\ UNCHANGED <<sessions, spent, requests, turns, session, monitorVars, events, ghosts>>

\* Mutation: a newly listed session starts with an empty guard state.
UpsertInsertAnew(r) ==
  LET s == session[r] IN
  /\ phase[r] = "missed"
  /\ Goto(r, "upserted")
  /\ fresh' = [fresh EXCEPT ![r] = TRUE]
  /\ sessions' = sessions \cup {s}
  /\ stale' = stale \ {s}
  /\ spent' = [spent EXCEPT ![s] = 0]
  /\ requests' = [requests EXCEPT ![s] = 0]
  /\ UNCHANGED <<turns, session, monitorVars, events, ghosts>>

\* ... and inserts otherwise, overwriting what came in between.
UpsertInsert(r) ==
  LET s == session[r] IN
  /\ phase[r] = "missed"
  /\ Goto(r, "upserted")
  /\ fresh' = [fresh EXCEPT ![r] = TRUE]
  /\ sessions' = sessions \cup {s}
  /\ stale' = stale \ {s}
  /\ UNCHANGED <<spent, requests, turns, session, monitorVars, events, ghosts>>

\* Mutation: a turn without reported tokens is not counted.
CountTurnUnlessEmpty(r, tokens) ==
  LET s == session[r] IN
  /\ phase[r] = "upserted"
  /\ Goto(r, "counted")
  /\ spent' = [spent EXCEPT ![s] = @ + tokens]
  /\ requests' = [requests EXCEPT ![s] = IF tokens = 0 THEN @ ELSE @ + 1]
  /\ charged' = [charged EXCEPT ![s] = @ + tokens]
  /\ UNCHANGED <<sessions, stale, turns, session, fresh, monitorVars, events, started,
                 reopened, overall>>

\* record_codex_runtime_counters: entry().or_default() and the additions.
CountTurn(r, tokens) ==
  LET s == session[r] IN
  /\ phase[r] = "upserted"
  /\ Goto(r, "counted")
  /\ spent' = [spent EXCEPT ![s] = @ + tokens]
  /\ requests' = [requests EXCEPT ![s] = @ + 1]
  /\ charged' = [charged EXCEPT ![s] = @ + tokens]
  /\ UNCHANGED <<sessions, stale, turns, session, fresh, monitorVars, events, started,
                 reopened, overall>>

\* persist_codex_finalization_outcome: DB_TX.send(RecordCodexTurn).
PersistTurn(r) ==
  LET s == session[r] IN
  /\ phase[r] = "counted"
  /\ Goto(r, "queued")
  /\ recorded' = [recorded EXCEPT ![s] = @ + 1]
  /\ UNCHANGED <<maps, session, fresh, monitorVars, starts, ends, diagnosed, silent,
                 ghosts>>

\* Mutation: turns are remembered only for a session that is still listed.
RememberListedTurn(r) ==
  LET s == session[r] IN
  /\ phase[r] = "queued"
  /\ s \in sessions
  /\ Goto(r, "remembered")
  /\ turns' = [turns EXCEPT ![s] = @ + 1]
  /\ UNCHANGED <<sessions, stale, spent, requests, session, fresh, monitorVars,
                 events, ghosts>>

\* remember_codex_turn_and_emit_diagnosis: push under the entry's lock.
RememberTurn(r) ==
  LET s == session[r] IN
  /\ phase[r] = "queued"
  /\ Goto(r, "remembered")
  /\ turns' = [turns EXCEPT ![s] = @ + 1]
  /\ UNCHANGED <<sessions, stale, spent, requests, session, fresh, monitorVars,
                 events, ghosts>>

\* The watch events of the turn; a SessionStart only if newly_started, and if
\* the request has a prompt (first_user_prompt_excerpt).
PublishTurn(r, prompted) ==
  LET s == session[r] IN
  /\ phase[r] = "remembered"
  /\ Goto(r, "idle")
  /\ starts' = [starts EXCEPT ![s] = IF fresh[r] /\ prompted THEN @ + 1 ELSE @]
  /\ silent' = [silent EXCEPT ![s] = IF fresh[r] /\ ~prompted THEN @ + 1 ELSE @]
  /\ UNCHANGED <<maps, session, fresh, monitorVars, recorded, ends, diagnosed, ghosts>>

Task(r) ==
  \/ Upsert(r) \/ UpsertInsert(r)
  \/ \E tokens \in 0..MaxTokens : CountTurn(r, tokens)
  \/ PersistTurn(r) \/ RememberTurn(r)
  \/ \E prompted \in BOOLEAN : PublishTurn(r, prompted)

-----------------------------------------------------------------------------
(* session_inactivity_monitor and end_session.                             *)

\* A session's last activity -- the end of its last turn -- falls out of the
\* timeout; requests in flight do not count as activity.
GrowStale(s) ==
  /\ s \in sessions \ stale
  /\ stale' = stale \cup {s}
  /\ UNCHANGED <<sessions, spent, requests, turns, tasks, monitorVars, events, ghosts>>

\* Every 30 s: collect the keys that are idle too long.
Scan ==
  /\ monitor = "scan"
  /\ stale # {}
  /\ expired' = stale
  /\ monitor' = "next"
  /\ UNCHANGED <<maps, tasks, ending, taken, events, ghosts>>

\* SESSIONS.remove(&hash) for a collected key, refreshed meanwhile or not.
RemoveSession(s) ==
  /\ monitor = "next"
  /\ s \in expired
  /\ expired' = expired \ {s}
  /\ IF s \in sessions
       THEN /\ monitor' = "guard"
            /\ ending' = s
            /\ sessions' = sessions \ {s}
            /\ stale' = stale \ {s}
            /\ reopened' = reopened \cup {s}
            /\ removals' = [removals EXCEPT ![s] = @ + 1]
       ELSE UNCHANGED <<monitor, ending, sessions, stale, reopened, removals>>
  /\ UNCHANGED <<spent, requests, turns, tasks, taken, events, started, charged,
                 crashes>>

\* Every collected key was visited.
ScanDone ==
  /\ monitor = "next"
  /\ expired = {}
  /\ monitor' = "scan"
  /\ UNCHANGED <<maps, tasks, expired, ending, taken, events, ghosts>>

\* end_session: SESSION_GUARD_STATES.remove.
DropGuardState ==
  /\ monitor = "guard"
  /\ monitor' = "turns"
  /\ spent' = [spent EXCEPT ![ending] = 0]
  /\ requests' = [requests EXCEPT ![ending] = 0]
  /\ UNCHANGED <<sessions, stale, turns, tasks, expired, ending, taken, events, ghosts>>

\* Mutation: the turns are read but left in SESSION_TURNS.
ReadTurns ==
  /\ monitor = "turns"
  /\ monitor' = IF turns[ending] > 0 THEN "report" ELSE "next"
  /\ taken' = turns[ending]
  /\ UNCHANGED <<maps, tasks, expired, ending, events, ghosts>>

\* end_session: SESSION_TURNS.remove; without an entry there is nothing more.
TakeTurns ==
  /\ monitor = "turns"
  /\ monitor' = IF turns[ending] > 0 THEN "report" ELSE "next"
  /\ taken' = turns[ending]
  /\ turns' = [turns EXCEPT ![ending] = 0]
  /\ UNCHANGED <<sessions, stale, spent, requests, tasks, expired, ending, events, ghosts>>

\* end_session: SessionEnd, then WriteDiagnosis over the turns it took.
ReportEnd ==
  /\ monitor = "report"
  /\ monitor' = "next"
  /\ ends' = [ends EXCEPT ![ending] = @ + 1]
  /\ diagnosed' = [diagnosed EXCEPT ![ending] = @ + taken]
  /\ taken' = 0
  /\ UNCHANGED <<maps, tasks, expired, ending, recorded, starts, silent, ghosts>>

Monitor ==
  \/ Scan \/ ScanDone \/ DropGuardState \/ TakeTurns \/ ReportEnd
  \/ \E s \in Session : RemoveSession(s)

-----------------------------------------------------------------------------
\* The process dies and is started again, with empty maps and no task; session
\* and ending are locals nobody reads now.
Crash ==
  /\ crashes < MaxCrashes
  /\ crashes' = crashes + 1
  /\ sessions' = {} /\ stale' = {}
  /\ spent' = [s \in Session |-> 0] /\ requests' = [s \in Session |-> 0]
  /\ turns' = [s \in Session |-> 0]
  /\ phase' = [r \in Stream |-> "idle"] /\ fresh' = [r \in Stream |-> FALSE]
  /\ monitor' = "scan" /\ expired' = {} /\ taken' = 0
  /\ recorded' = [s \in Session |-> 0] /\ diagnosed' = [s \in Session |-> 0]
  /\ starts' = [s \in Session |-> 0] /\ ends' = [s \in Session |-> 0]
  /\ silent' = [s \in Session |-> 0] /\ reopened' = {}
  /\ UNCHANGED <<session, ending, started, charged, removals>>

-----------------------------------------------------------------------------
Next ==
  \/ \E r \in Stream :
       \/ \E s \in Session : RequestBody(r, s)
       \/ Abandon(r)
       \/ Task(r)
  \/ \E s \in Session : GrowStale(s)
  \/ Monitor
  \/ Crash

Spec == Init /\ [][Next]_vars

\* The timeout is minutes and a finalization a handful of map calls: no entry
\* grows stale between the calls of one finalization.
Finalizing(s) ==
  \E r \in Stream : session[r] = s
                   /\ phase[r] \in {"upserted", "counted", "queued", "remembered"}
TimelySpec ==
  Init /\ [][Next /\ \A s \in stale' \ stale : ~Finalizing(s)]_vars

\* Once finalization has begun a task runs without an await; the monitor's
\* timer keeps firing.  When a stream closes is up to Envoy: no fairness.
FairSpec ==
  /\ Spec
  /\ \A r \in Stream : WF_vars(phase[r] # "streaming" /\ Task(r))
  /\ WF_vars(Monitor)

-----------------------------------------------------------------------------
\* Requests of s that were let through and are not yet counted.
InFlight(s) ==
  {r \in Stream : session[r] = s
                  /\ phase[r] \in {"streaming", "missed", "upserted"}}

At(s, p) == {r \in Stream : session[r] = s /\ phase[r] = p}

\* What the monitor has taken out of SESSION_TURNS and not reported yet.
InHand(s) == IF monitor = "report" /\ ending = s THEN taken ELSE 0

(* The guard is checked before a request and charged after its response,   *)
(* so a session overspends.  By how much is bounded: by the turns that can *)
(* be in flight at once, as long as the session was never ended.  A        *)
(* session that was ended and came back can be charged by the tasks the    *)
(* monitor overtook and by requests that were let through unchecked while  *)
(* it had no SESSIONS entry: two more rounds of turns, and never more.     *)
Round == Cardinality(Stream) * MaxTokens
AtLeast(a, b) == IF a > b THEN a ELSE b

BudgetOvershootBounded ==
  \A s \in Session :
    spent[s] <= IF s \in reopened
                  THEN AtLeast(Budget - 1, Round) + 2 * Round
                  ELSE Budget - 1 + Round

(* The guard state is the only account of a budget, and it goes with the   *)
(* entry and with the process.  So what a session spends over all its      *)
(* lives is bounded by the times it was handed a fresh budget: a restart   *)
(* brings one and a round of turns in flight, an end by inactivity one and *)
(* two rounds.                                                             *)
SpendingBounded ==
  \A s \in Session :
    charged[s] <= (crashes + 1) * (Budget - 1 + Round)
                  + removals[s] * (AtLeast(Budget - 1, Round) + 2 * Round)

(* No turn is lost between the database and the diagnosis, or diagnosed    *)
(* twice: what was sent to the DB writer is what the monitor reported, has *)
(* in its hands, finds in SESSION_TURNS, or a task is about to push there. *)
(* So a diagnosis never covers a turn whose record is not queued before.   *)
TurnsConserved ==
  \A s \in Session :
    recorded[s] = diagnosed[s] + turns[s] + Cardinality(At(s, "queued")) + InHand(s)

(* Watchers never see more ends of a session than it has had starts, apart *)
(* from the starts that a task still has to publish and from those that    *)
(* were never announced, as their request had no prompt to announce.       *)
EndsHaveStarts ==
  \A s \in Session :
    ends[s] <= starts[s] + silent[s] + Cardinality({r \in Stream :
                 /\ session[r] = s /\ fresh[r]
                 /\ phase[r] \in {"upserted", "counted", "queued", "remembered"}})

(* As long as the monitor has not ended it, a session's guard state and    *)
(* its turn history count the same turns, apart from those on their way.   *)
GuardMatchesTurns ==
  \A s \in Session \ reopened :
    requests[s] = turns[s] + Cardinality(At(s, "counted"))
                  + Cardinality(At(s, "queued"))

(* SESSIONS, SESSION_GUARD_STATES and SESSION_TURNS are filled and emptied *)
(* one after the other, and still agree on what a session is.              *)
SessionMapsAgree == EndsHaveStarts /\ GuardMatchesTurns

(* A session that stays idle is ended: the monitor gets to every stale     *)
(* entry, or a finalized turn refreshes it.                                *)
StaleSessionsEnd == \A s \in Session : s \in stale ~> s \notin stale

(* A turn whose response is complete reaches the watchers.                 *)
FinalizedTurnsPublished ==
  \A r \in Stream : phase[r] = "missed" ~> phase[r] = "idle"

(* Neither the monitor nor a finalizing task starves.                      *)
SessionsMakeProgress == StaleSessionsEnd /\ FinalizedTurnsPublished

(* "End a session: run diagnosis, broadcast SessionEnd, persist to DB,     *)
(* clean up." (main.rs:3617): once the monitor is done and no task is      *)
(* finalizing a turn of it, an ended session has left nothing behind.      *)
EndCleansUp ==
  \A s \in Session :
    /\ s \notin sessions
    /\ monitor \in {"scan", "next"}
    /\ \A r \in Stream : session[r] = s => phase[r] \in {"idle", "streaming"}
    => requests[s] = 0 /\ turns[s] = 0
=============================================================================
