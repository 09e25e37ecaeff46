---------------------------- MODULE ExtProcStream ----------------------------
(***************************************************************************)
(* The tasks of codex-blackbox-core that follow one HTTP exchange each     *)
(* (main.rs, process): messages of Envoy in, replies out, and one turn at  *)
(* the end.  Around them the maps they share: REQUEST_STATE with the       *)
(* cleanup task, the tool events seen lately.                              *)
(*                                                                         *)
(* A stream is a slot for one task at a time.  Envoy is external: it sends *)
(* the request once its last message is answered, the response in chunks   *)
(* without waiting, and may close the stream at any point.  The upstream   *)
(* server is external too; its answer is chosen with the response headers. *)
(*                                                                         *)
(* What the circuit breaker and the guard policy say is a choice here (see *)
(* CircuitBreaker, SessionLifecycle), and a turn is published at once (see *)
(* Evaluation).                                                            *)
(***************************************************************************)
EXTENDS CodexAccounting

CONSTANTS
  Stream,        \* slots for concurrent tasks
  RequestId,     \* values of x-request-id, or of the clock without one
  RequestKind,   \* [body, headers, auxiliary] of requests
  Answer,        \* [status, model, lines, total] of responses: the pieces sent
  ReplyCap,      \* capacity of the channel of replies
  TTL,           \* CODEX_TOOL_EVENT_DEDUP_TTL and the age limit of REQUEST_STATE
  MaxExchanges,  \* bound: exchanges
  MaxCrashes     \* bound: restarts of the core

\* The body of a 200 is the pieces of its lines, as many as are sent.
ASSUME AnswersAssumption ==
  \A a \in Answer :
    /\ a.total \in Nat
    /\ a.status = 200 => a.total <= Pieces * Len(a.lines)
    /\ a.lines \in Seq(Range(a.lines))
ASSUME CapAssumption == ReplyCap \in Nat \ {0}
ASSUME TTLAssumption == TTL \in Nat \ {0}
ASSUME CrashAssumption == MaxCrashes \in Nat /\ MaxExchanges \in Nat

VARIABLES
  at,          \* the message the task waits for, or that its exchange is over
  request_id,  \* of the request headers
  request,     \* current_codex_request, None before a body is parsed
  admitted,    \* `model` is not empty
  is_sse, summary, buffer, \* the accumulator
  answer,      \* what the upstream server sends
  finalized,   \* end_of_stream was handled
  turn,        \* ghost: turns of this exchange, in order
  unread,      \* replies in the channel
  holding,     \* tasks inside the if-let that holds a shard of SESSIONS
  request_state,  \* ages in REQUEST_STATE, by id
  seen,        \* CODEX_TOOL_EVENT_DEDUP: ages, by key
  shown, since,   \* ghost: ToolUse events of each key, age of the last one
  exchanges, crashes

locals == <<request_id, request, admitted, is_sse, summary, buffer,
            answer, finalized, turn>>
toolEvents == <<seen, shown, since>>
shared == <<request_state, toolEvents>>
vars == <<at, locals, unread, holding, shared, exchanges, crashes>>

\* parse_request_body_metadata_result
Parsed(kind) == ParseRequest(kind.body, RequestHeadersOf(kind.headers))

NoAnswer == [status |-> None, model |-> None, lines |-> <<>>, total |-> 0]

Waits == {"headers", "body", "guard", "refused", "response", "chunks", "over"}

Init ==
  /\ at = [r \in Stream |-> "over"]
  /\ request_id = [r \in Stream |-> None]
  /\ request = [r \in Stream |-> None] /\ admitted = [r \in Stream |-> FALSE]
  /\ is_sse = [r \in Stream |-> FALSE]
  /\ summary = [r \in Stream |-> NewSummary]
  /\ buffer = [r \in Stream |-> NewBuffer]
  /\ answer = [r \in Stream |-> NoAnswer]
  /\ finalized = [r \in Stream |-> FALSE] /\ turn = [r \in Stream |-> <<>>]
  /\ unread = [r \in Stream |-> 0] /\ holding = {}
  /\ request_state = <<>> /\ seen = <<>>
  /\ shown = <<>> /\ since = <<>>
  /\ exchanges = 0 /\ crashes = 0

Goto(r, where) == at' = [at EXCEPT ![r] = where]
\* tx.send().await of a task that waits for room.
Reply(r) == unread[r] < ReplyCap /\ unread' = [unread EXCEPT ![r] = @ + 1]
Entered(map, key) == [k \in DOMAIN map \cup {key} |-> IF k = key THEN 0 ELSE map[k]]
Without(map, keys) == [k \in DOMAIN map \ keys |-> map[k]]

-----------------------------------------------------------------------------
(* The request.                                                            *)

\* process: a new stream, its task with fresh locals.
Open(r) ==
  /\ at[r] = "over" /\ exchanges < MaxExchanges
  /\ exchanges' = exchanges + 1
  /\ Goto(r, "headers")
  /\ request_id' = [request_id EXCEPT ![r] = None]
  /\ request' = [request EXCEPT ![r] = None]
  /\ admitted' = [admitted EXCEPT ![r] = FALSE]
  /\ is_sse' = [is_sse EXCEPT ![r] = FALSE]
  /\ summary' = [summary EXCEPT ![r] = NewSummary]
  /\ buffer' = [buffer EXCEPT ![r] = NewBuffer]
  /\ answer' = [answer EXCEPT ![r] = NoAnswer]
  /\ finalized' = [finalized EXCEPT ![r] = FALSE]
  /\ turn' = [turn EXCEPT ![r] = <<>>]
  /\ unread' = [unread EXCEPT ![r] = 0]
  /\ UNCHANGED <<holding, shared, crashes>>

\* RequestHeaders: an open circuit is answered at once, and Envoy closes.
RequestHeaders(r, id, open) ==
  /\ at[r] = "headers"
  /\ Goto(r, IF open THEN "refused" ELSE "body")
  /\ request_id' = [request_id EXCEPT ![r] = id]
  /\ Reply(r)
  /\ UNCHANGED <<request, admitted, is_sse, summary, buffer, answer, finalized,
                 turn, holding, shared, exchanges, crashes>>

\* A request that parses: refused with the shard of SESSIONS still held if
\* check_session_guard says so, or entered in REQUEST_STATE and answered.
Admit(r, parsed, over) ==
  /\ request' = [request EXCEPT ![r] = parsed]
  /\ summary' = [summary EXCEPT ![r] = NewSummary]
  /\ buffer' = [buffer EXCEPT ![r] = NewBuffer]
  /\ IF over
       THEN /\ Goto(r, "guard") /\ holding' = holding \cup {r}
            /\ UNCHANGED <<admitted, unread, request_state>>
       ELSE /\ Goto(r, "response") /\ Reply(r) /\ UNCHANGED holding
            /\ admitted' = [admitted EXCEPT ![r] = TRUE]
            /\ request_state' = Entered(request_state, request_id[r])

\* RequestBody, the whole of it (buffered), once the headers were answered.
\* Auxiliary paths are not parsed; what does not parse is let through.
RequestBody(r, kind, over) ==
  /\ at[r] = "body" /\ unread[r] = 0
  /\ IF kind.auxiliary \/ ParseFails(kind.body)
       THEN /\ Goto(r, "response") /\ Reply(r)
            /\ UNCHANGED <<request, admitted, summary, buffer, holding,
                           request_state>>
       ELSE Admit(r, Parsed(kind), over)
  /\ UNCHANGED <<request_id, is_sse, answer, finalized, turn,
                 toolEvents, exchanges, crashes>>

\* The immediate response of a refusal, sent inside the if-let.
RefusalReply(r) ==
  /\ at[r] = "guard"
  /\ Goto(r, "refused") /\ Reply(r)
  /\ holding' = holding \ {r}
  /\ UNCHANGED <<locals, shared, exchanges, crashes>>

TakeReply(r) ==
  /\ at[r] # "over" /\ unread[r] > 0
  /\ unread' = [unread EXCEPT ![r] = @ - 1]
  /\ UNCHANGED <<at, locals, holding, shared, exchanges, crashes>>

-----------------------------------------------------------------------------
(* The response.                                                           *)

\* SelectedResponseAccumulator: only the body of a 200 is read as events.
IsSse(status) == status = 200

\* ResponseHeaders; Envoy sends none after an immediate response.
ResponseHeaders(r, reply) ==
  /\ at[r] = "response" /\ unread[r] = 0
  /\ Goto(r, "chunks") /\ Reply(r)
  /\ answer' = [answer EXCEPT ![r] = reply]
  /\ is_sse' = [is_sse EXCEPT ![r] = IsSse(reply.status)]
  /\ summary' = [summary EXCEPT ![r] = ApplyHeaders(@, reply.status, reply.model)]
  /\ UNCHANGED <<request_id, request, admitted, buffer, finalized,
                 turn, holding, shared, exchanges, crashes>>

\* truncate_detail slices a detail of more than 100 bytes at its 100th: a
\* panic if that is inside a character.  Such a text is called wide.
Panics(tools) == \E i \in DOMAIN tools : "wide" \in Range(tools[i].input)

\* codex_watch_event_dedupe_key of the ToolUse events of a turn: session, name
\* and input, not the id of the call.
ToolKey(s, tool) ==
  <<s, OrElse(tool.name, tool.id),
    IF tool.input = <<>> THEN <<tool.id>> ELSE tool.input>>
KeysOf(t) == {ToolKey(t.session, t.tools[i]) : i \in DOMAIN t.tools}

Show(keys) ==
  /\ shown' = [k \in DOMAIN shown \cup keys |->
                 (IF k \in DOMAIN shown THEN shown[k] ELSE 0)
                 + (IF k \in keys THEN 1 ELSE 0)]
  /\ since' = [k \in DOMAIN since \cup keys |->
                 IF k \in keys THEN 0 ELSE since[k]]

\* Mutation: entries are never dropped.
CurrentForever == DOMAIN seen

\* Entries that codex_watch_event_is_duplicate_or_remember retains.
Current == {k \in DOMAIN seen : seen[k] < TTL}

\* What is not in the table is entered and broadcast, the rest suppressed.
RememberTools(keys) ==
  /\ seen' = IF keys = {} THEN seen
             ELSE [k \in Current \cup keys |->
                     IF k \in Current THEN seen[k] ELSE 0]
  /\ Show(keys \ Current)

\* What finalize_selected_response makes of a summary: a turn, or nothing if
\* the rest of the buffer does not parse or the task panics.
Unfinished(r) == FinishFails(buffer[r], answer[r].lines)
TurnOf(r) ==
  SummarizeTurn(request[r], Finish(summary[r], buffer[r], answer[r].lines))
Recorded(r) == admitted[r] /\ ~Unfinished(r) /\ ~Panics(TurnOf(r).tools)

\* Mutation: a turn is only recorded while REQUEST_STATE has its request.
RecordKnownTurn(r) ==
  IF Recorded(r) /\ request_id[r] \in DOMAIN request_state
    THEN LET t == TurnOf(r) IN
         /\ turn' = [turn EXCEPT ![r] = Append(@, t)]
         /\ RememberTools(KeysOf(t))
    ELSE UNCHANGED <<turn, toolEvents>>

RecordTurn(r) ==
  IF Recorded(r)
    THEN LET t == TurnOf(r) IN
         /\ turn' = [turn EXCEPT ![r] = Append(@, t)]
         /\ RememberTools(KeysOf(t))
    ELSE UNCHANGED <<turn, toolEvents>>

\* upsert_codex_session waits for the shard of SESSIONS.
ShardFree == holding = {}

Panicked(r) == admitted[r] /\ ~Unfinished(r) /\ Panics(TurnOf(r).tools)

\* ResponseBody: the next pieces of the body.  process_chunk's error is only
\* logged.
ResponseBody(r, count) ==
  /\ at[r] = "chunks" /\ ~finalized[r]
  /\ count \in 1..(answer[r].total - buffer[r].received)
  /\ Reply(r)
  /\ IF is_sse[r]
       THEN /\ buffer' = [buffer EXCEPT ![r] =
                            BufferAfter(@, answer[r].lines, count)]
            /\ summary' = [summary EXCEPT ![r] =
                 SummaryAfter(@, buffer[r], answer[r].lines, count)]
       ELSE UNCHANGED <<buffer, summary>>
  /\ UNCHANGED <<at, request_id, request, admitted, is_sse, answer,
                 finalized, turn, holding, shared, exchanges, crashes>>

\* ResponseBody with end_of_stream, empty or behind the last piece: the reply
\* may fail, the turn is finalized regardless.  A panic ends the task; the
\* ghost part of `finalized` is that it is set even then.
EndOfStream(r) ==
  /\ at[r] = "chunks" /\ ~finalized[r]
  /\ is_sse[r] => buffer[r].received = answer[r].total
  /\ ShardFree
  /\ Reply(r) \/ UNCHANGED unread
  /\ RecordTurn(r)
  /\ finalized' = [finalized EXCEPT ![r] = TRUE]
  /\ IF Panicked(r)
       THEN Goto(r, "over") /\ UNCHANGED request_state
       ELSE /\ request_state' = Without(request_state, {request_id[r]})
            /\ UNCHANGED at
  /\ UNCHANGED <<request_id, request, admitted, is_sse, summary,
                 buffer, answer, holding, exchanges, crashes>>

\* stream.message() returns None or an error: what is there so far is a turn.
Close(r) ==
  /\ at[r] \notin {"over", "guard"}
  /\ Goto(r, "over")
  /\ IF ~finalized[r] /\ admitted[r]
       THEN /\ ShardFree /\ RecordTurn(r)
            /\ request_state' = IF Panicked(r) THEN request_state
                                ELSE Without(request_state, {request_id[r]})
       ELSE UNCHANGED <<turn, shared>>
  /\ UNCHANGED <<request_id, request, admitted, is_sse, summary,
                 buffer, answer, finalized, unread, holding, exchanges, crashes>>

\* A reply other than the last finds the stream cancelled: the loop breaks,
\* nothing is finalized or removed.
ReplyFails(r) ==
  /\ at[r] \notin {"over", "refused"} /\ ~finalized[r]
  /\ Goto(r, "over")
  /\ holding' = holding \ {r}
  /\ UNCHANGED <<locals, unread, shared, exchanges, crashes>>

-----------------------------------------------------------------------------
(* The cleanup task, time, and restarts.                                   *)

\* cleanup_stale_requests: every minute, what is older than the limit.
CleanUp ==
  /\ \E id \in DOMAIN request_state : request_state[id] >= TTL
  /\ request_state' =
       Without(request_state, {id \in DOMAIN request_state : request_state[id] >= TTL})
  /\ UNCHANGED <<at, locals, unread, holding, toolEvents, exchanges, crashes>>

Older(map) == [k \in DOMAIN map |-> IF map[k] < TTL THEN map[k] + 1 ELSE TTL]

\* Time passes while no task is between two statements.
Tick ==
  /\ Older(request_state) # request_state \/ Older(seen) # seen
  /\ request_state' = Older(request_state) /\ seen' = Older(seen)
  /\ since' = Older(since)
  /\ UNCHANGED <<at, locals, unread, holding, shown, exchanges, crashes>>

\* The core restarts: memory is gone, the exchanges go on unobserved
\* (failure_mode_allow).
Crash ==
  /\ crashes < MaxCrashes /\ crashes' = crashes + 1
  /\ at' = [r \in Stream |-> "over"] /\ holding' = {}
  /\ request_state' = <<>> /\ seen' = <<>> /\ since' = <<>>
  /\ UNCHANGED <<locals, unread, shown, exchanges>>

Next ==
  \/ \E r \in Stream :
       \/ Open(r)
       \/ \E id \in RequestId, open \in BOOLEAN :
            RequestHeaders(r, id, open)
       \/ \E kind \in RequestKind, over \in BOOLEAN : RequestBody(r, kind, over)
       \/ RefusalReply(r) \/ TakeReply(r)
       \/ \E reply \in Answer : ResponseHeaders(r, reply)
       \/ \E count \in 1..answer[r].total : ResponseBody(r, count)
       \/ EndOfStream(r) \/ Close(r) \/ ReplyFails(r)
  \/ CleanUp \/ Tick \/ Crash

Spec == Init /\ [][Next]_vars
-----------------------------------------------------------------------------
Turns == UNION {Range(turn[r]) : r \in Stream}

TypeOK ==
  /\ at \in [Stream -> Waits]
  /\ request_id \in [Stream -> RequestId \cup {None}]
  /\ admitted \in [Stream -> BOOLEAN] /\ is_sse \in [Stream -> BOOLEAN]
  /\ finalized \in [Stream -> BOOLEAN]
  /\ buffer \in [Stream -> [taken : Nat, received : Nat]]
  /\ answer \in [Stream -> Answer \cup {NoAnswer}]
  /\ unread \in [Stream -> 0..ReplyCap] /\ holding \subseteq Stream
  /\ DOMAIN request_state \subseteq RequestId
  /\ Range(request_state) \cup Range(seen) \subseteq 0..TTL
  /\ exchanges \in 0..MaxExchanges /\ crashes \in 0..MaxCrashes

\* The lines of an answer whose text is whole after n pieces.
WholeLines(n) == (n + 1) \div Pieces
NoneMalformed(lines) == \A i \in DOMAIN lines : lines[i].kind # "malformed"

\* The summary of what arrived, one line after the other: no chunks, no buffer.
Reference(r) ==
  LET headers == ApplyHeaders(NewSummary, answer[r].status, answer[r].model)
  IN IF answer[r] = NoAnswer THEN NewSummary
     ELSE IF ~is_sse[r] THEN headers
     ELSE ProcessLines(headers, answer[r].lines, 1, WholeLines(buffer[r].received))

(* A complete line stays in the buffer between two chunks only behind a    *)
(* malformed one: nothing else makes process_chunk return early.           *)
LeftoverBehindMalformed ==
  \A r \in Stream :
    LET taken == buffer[r].taken IN
    buffer[r].received >= Pieces * (taken + 1)
      => taken > 0 /\ answer[r].lines[taken].kind = "malformed"

(* Where a chunk ends makes no difference: whatever the split, and whether *)
(* the stream ended or broke off, a turn sums up the lines that arrived    *)
(* (codex_response.rs, process_chunk and finish), because no complete line *)
(* is left behind in the buffer unless one is malformed.                   *)
TurnsSumUpWhatArrived ==
  /\ LeftoverBehindMalformed
  /\ \A r \in Stream :
       (turn[r] # <<>> /\ NoneMalformed(answer[r].lines))
         => turn[r] = <<SummarizeTurn(request[r], Reference(r))>>

(* An admitted request whose response came to its end is a turn, however   *)
(* long it took (cleanup_stale_requests), unless a line of it is malformed *)
(* or cut, or a tool input is wide.                                        *)
WholeResponsesRecorded ==
  \A r \in Stream :
    (/\ admitted[r] /\ finalized[r]
     /\ NoneMalformed(answer[r].lines)
     /\ answer[r].total % Pieces # 1
     /\ ~Panics(Reference(r).tools))
      => turn[r] # <<>>

(* An exchange is at most one turn, although its end may be announced      *)
(* twice (end_of_stream, then the closed stream), and none if it was       *)
(* refused.                                                                *)
OneTurnPerExchange ==
  [][\A r \in Stream :
       (turn'[r] # turn[r] /\ turn'[r] # <<>>)
         => turn[r] = <<>> /\ at[r] # "refused"]_vars

(* A tool use is broadcast unless the same one of that session was within  *)
(* the time to live, which repetitions do not prolong.                     *)
Recent(k) == k \in DOMAIN since /\ since[k] < TTL
ToolUsesDeduplicated ==
  [][\A r \in Stream :
       (turn'[r] # turn[r] /\ turn'[r] # <<>>)
         => DOMAIN shown' = DOMAIN shown \cup KeysOf(Last(turn'[r]))
            /\ \A k \in DOMAIN shown :
                 shown'[k] = IF k \in KeysOf(Last(turn'[r])) /\ ~Recent(k)
                               THEN shown[k] + 1 ELSE shown[k]]_vars

(* Nothing of an exchange is told twice: neither its turn nor its tools.   *)
ExchangesAreAnnouncedOnce == OneTurnPerExchange /\ ToolUsesDeduplicated
=============================================================================
