--------------------------- MODULE CircuitBreaker ---------------------------
(***************************************************************************)
(* The process-wide API cooldown of codex-blackbox-core: the error counter *)
(* and the open window of RuntimeState, as the ext_proc tasks of many      *)
(* exchanges read and update them.  One exchange is one HTTP request, that *)
(* is one gRPC stream and one spawned task.  Envoy may run any number of   *)
(* them at once, and their handlers interleave at every message.           *)
(*                                                                         *)
(* An Instant is abstracted to what the code asks of it: how many ticks    *)
(* the window still has.  None is `Option::None`, 0 is Some(instant in the *)
(* past) -- an expired window that nobody cleared --, k > 0 blocks.        *)
(***************************************************************************)
EXTENDS Integers, FiniteSets

CONSTANTS
  Exchange,    \* ext_proc streams, one per HTTP exchange
  Threshold,   \* CODEX_BLACKBOX_CIRCUIT_BREAKER_THRESHOLD
  Window       \* length of the cooldown, in ticks (30 s in the code)

ASSUME ThresholdAssumption == Threshold \in Nat
ASSUME WindowAssumption == Window \in Nat \ {0}

VARIABLES
  consecutive_errors,  \* RuntimeState.consecutive_errors
  circuit_open_until,  \* RuntimeState.circuit_open_until, as ticks left
  phase,               \* where the task of each exchange stands
  has_model,           \* the task's local `model` is not empty
  cooldown_event,      \* exchanges that hold a Cooldown event to broadcast
  trips,               \* ghost: how often the circuit went from None to Some
  announced            \* Cooldown events handed to watch::BROADCASTER

runtime == <<consecutive_errors, circuit_open_until>>
breakerVars == <<consecutive_errors, circuit_open_until, phase, has_model,
          cooldown_event, trips, announced>>

None == -1
Phases == {"new", "admitted", "requested", "blocked", "answered_ok",
           "answered_error", "over"}
\* The :status of an answer, and none at all (unwrap_or(0)).
Statuses == {"success", "error", "missing"}
\* What a RequestBody message turns out to be.
Bodies == {"model", "policy_blocked", "auxiliary", "unparsed"}

BreakerTypeOK ==
  /\ consecutive_errors \in Nat
  /\ circuit_open_until \in {None} \cup 0..Window
  /\ phase \in [Exchange -> Phases]
  /\ has_model \in [Exchange -> BOOLEAN]
  /\ cooldown_event \in SUBSET Exchange
  /\ trips \in Nat
  /\ announced \in Nat

BreakerInit ==
  /\ consecutive_errors = 0
  /\ circuit_open_until = None
  /\ phase = [x \in Exchange |-> "new"]
  /\ has_model = [x \in Exchange |-> FALSE]
  /\ cooldown_event = {}
  /\ trips = 0
  /\ announced = 0

-----------------------------------------------------------------------------
\* check_circuit_breaker: `Instant::now() < until`.
Blocking == circuit_open_until > 0

\* RequestHeaders: an immediate 429 while the window lasts, else continue.
RequestHeaders(x) ==
  /\ phase[x] = "new"
  /\ phase' = [phase EXCEPT ![x] = IF Blocking THEN "blocked" ELSE "admitted"]
  /\ UNCHANGED <<consecutive_errors, circuit_open_until, has_model,
                 cooldown_event, trips, announced>>

\* RequestBody: the local `model` is assigned only for a parsed request that
\* the session guard lets through.  An auxiliary path or a body that does not
\* parse continues with an empty model.
RequestBody(x, body) ==
  /\ phase[x] = "admitted"
  /\ phase' = [phase EXCEPT
       ![x] = IF body = "policy_blocked" THEN "blocked" ELSE "requested"]
  /\ has_model' = [has_model EXCEPT ![x] = body = "model"]
  /\ UNCHANGED <<consecutive_errors, circuit_open_until, cooldown_event,
                 trips, announced>>

\* `status >= 400 && !model.is_empty()`
CountsAsError(x, status) == status = "error" /\ has_model[x]

\* Mutations: one error too late; the `is_none()` test forgotten.
TripTooLate(errors) == errors > Threshold /\ circuit_open_until = None
TripAgainWhileOpen(errors) == errors >= Threshold

ShouldTrip(errors) == errors >= Threshold /\ circuit_open_until = None

\* ResponseHeaders: under one hold of the RUNTIME_STATE lock the error is
\* counted and the circuit possibly opened, or both are reset.  The Cooldown
\* event is only broadcast after the lock is released (Announce).  A GET has
\* no RequestBody message, so "admitted" answers too.
ResponseHeaders(x, status) ==
  /\ phase[x] \in {"admitted", "requested"}
  /\ phase' = [phase EXCEPT
       ![x] = IF status = "error" THEN "answered_error" ELSE "answered_ok"]
  /\ \/ /\ CountsAsError(x, status)
        /\ consecutive_errors' = consecutive_errors + 1
        /\ IF ShouldTrip(consecutive_errors + 1)
             THEN /\ circuit_open_until' = Window
                  /\ cooldown_event' = cooldown_event \cup {x}
                  /\ trips' = trips + 1
             ELSE UNCHANGED <<circuit_open_until, cooldown_event, trips>>
     \/ /\ ~CountsAsError(x, status)
        /\ consecutive_errors' = 0
        /\ circuit_open_until' = None
        /\ UNCHANGED <<cooldown_event, trips>>
  /\ UNCHANGED <<has_model, announced>>

\* watch::BROADCASTER.broadcast(event), after the lock was released.
Announce(x) ==
  /\ x \in cooldown_event
  /\ cooldown_event' = cooldown_event \ {x}
  /\ announced' = announced + 1
  /\ UNCHANGED <<consecutive_errors, circuit_open_until, phase, has_model, trips>>

\* Mutation: the task may be torn down between the unlock and the broadcast.
CloseLosesEvent(x) ==
  /\ phase[x] # "over"
  /\ cooldown_event' = cooldown_event \ {x}
  /\ phase' = [phase EXCEPT ![x] = "over"]
  /\ UNCHANGED <<consecutive_errors, circuit_open_until, has_model, trips,
                 announced>>

\* The stream closes or fails, or a reply cannot be sent: the task leaves its
\* loop.  A task that holds an event is not waiting for a message.
Close(x) ==
  /\ phase[x] # "over"
  /\ x \notin cooldown_event
  /\ phase' = [phase EXCEPT ![x] = "over"]
  /\ UNCHANGED <<consecutive_errors, circuit_open_until, has_model,
                 cooldown_event, trips, announced>>

\* Time passes.
Tick ==
  /\ circuit_open_until > 0
  /\ circuit_open_until' = circuit_open_until - 1
  /\ UNCHANGED <<consecutive_errors, phase, has_model, cooldown_event, trips,
                 announced>>

BreakerNext ==
  \/ \E x \in Exchange :
       \/ RequestHeaders(x)
       \/ \E body \in Bodies : RequestBody(x, body)
       \/ \E status \in Statuses : ResponseHeaders(x, status)
       \/ Announce(x)
       \/ Close(x)
  \/ Tick

BreakerSpec == BreakerInit /\ [][BreakerNext]_breakerVars

-----------------------------------------------------------------------------
(* Whatever the interleaving of the answers, the circuit is Some exactly   *)
(* while an unbroken streak of at least Threshold model errors lasts: it   *)
(* opens with the error that completes the streak and is cleared with the  *)
(* counter.  Expiry does not clear it, so one streak opens it once.        *)
OpenIffStreak ==
  circuit_open_until # None <=>
    consecutive_errors > 0 /\ consecutive_errors >= Threshold

(* A cooldown that blocks is never prolonged: errors of requests that were *)
(* admitted before it opened only leave it alone, time shortens it, and    *)
(* anything else that changes it ends it (main.rs:4338-4345).              *)
CooldownNeverExtended ==
  [][Blocking /\ circuit_open_until' # None
       => circuit_open_until' <= circuit_open_until]_breakerVars

(* Every opening of the circuit is announced by one Cooldown event, no     *)
(* more and no fewer, although the event is broadcast after the lock that  *)
(* opened it was released and another task may have reset it meanwhile.    *)
OneEventPerTrip == trips = announced + Cardinality(cooldown_event)

=============================================================================
