-------------------------- MODULE EventBroadcaster --------------------------
(***************************************************************************)
(* watch.rs: EventBroadcaster, and the replay-then-live part of the        *)
(* /watch stream that reads it.  A broadcast records the event in the      *)
(* history under its lock and sends it on the channel after the lock is    *)
(* released, so two publishers may send in another order than they         *)
(* recorded, and a newcomer may subscribe between the two halves.          *)
(*                                                                         *)
(* Events are numbered in the order of the history.  The channel is        *)
(* tokio's broadcast channel (external): it keeps the last ChannelCap      *)
(* messages and a receiver that fell behind gets Lagged(n).                *)
(***************************************************************************)
EXTENDS Integers, Sequences, FiniteSets

CONSTANTS
  Publisher,   \* tasks and threads that call broadcast
  Watcher,     \* clients of /watch
  HistoryCap,  \* HISTORY_CAP (512)
  ChannelCap,  \* capacity of the broadcast channel (512)
  MaxEvents,   \* bound: events broadcast
  MaxConnects  \* bound: connections each client makes

ASSUME CapAssumption == HistoryCap \in Nat \ {0} /\ ChannelCap \in Nat \ {0}
ASSUME BoundAssumption == MaxEvents \in Nat /\ MaxConnects \in Nat
ASSUME PublisherAssumption == IsFiniteSet(Publisher)

VARIABLES
  history,    \* events, oldest first
  pushed,     \* events recorded so far; the next is pushed + 1
  expired,    \* events 1..expired are older than REPLAY_WINDOW
  unsent,     \* per publisher: the event it recorded and has not sent, or 0
  sent,       \* every message ever sent; the channel retains the last ones
  connected,  \* clients whose stream is open
  replay,     \* per client: the rest of its snapshot of the history
  cursor,     \* ... messages of the channel it has read or was told it missed
  seen,       \* ... events it was sent
  missed,     \* ... sum of its lag notices
  since,      \* ghost: it is entitled to the events after this one
  straddling, \* ghost: events recorded but unsent when it subscribed
  author,     \* ghost: the publisher of each event
  connects    \* ghost: to bound the connections

channel == <<history, pushed, expired, unsent, sent, author>>
client == <<connected, replay, cursor, seen, missed, since, straddling, connects>>
vars == <<channel, client>>

Event == 1..pushed
Unsent == {unsent[p] : p \in Publisher} \ {0}
EventsIn(seq) == {seq[i] : i \in DOMAIN seq}

TypeOK ==
  /\ pushed \in 0..MaxEvents /\ expired \in 0..pushed
  /\ history \in Seq(Event) /\ Len(history) <= HistoryCap
  /\ unsent \in [Publisher -> 0..pushed]
  /\ sent \in Seq(Event)
  /\ author \in [Event -> Publisher]
  /\ connected \in SUBSET Watcher
  /\ replay \in [Watcher -> Seq(Event)]
  /\ cursor \in [Watcher -> 0..Len(sent)]
  /\ seen \in [Watcher -> SUBSET Event]
  /\ missed \in [Watcher -> Nat]
  /\ since \in [Watcher -> 0..pushed]
  /\ straddling \in [Watcher -> SUBSET Event]
  /\ connects \in [Watcher -> 0..MaxConnects]

Init ==
  /\ history = <<>> /\ pushed = 0 /\ expired = 0
  /\ unsent = [p \in Publisher |-> 0]
  /\ sent = <<>>
  /\ author = <<>>
  /\ connected = {}
  /\ replay = [w \in Watcher |-> <<>>]
  /\ cursor = [w \in Watcher |-> 0]
  /\ seen = [w \in Watcher |-> {}]
  /\ missed = [w \in Watcher |-> 0]
  /\ since = [w \in Watcher |-> 0]
  /\ straddling = [w \in Watcher |-> {}]
  /\ connects = [w \in Watcher |-> 0]

-----------------------------------------------------------------------------
(* broadcast                                                               *)

\* Mutation: ... or one event early.
PushedEarly(e) ==
  IF Len(history) + 1 >= HistoryCap THEN Append(Tail(history), e) ELSE Append(history, e)

\* pop_front at the capacity, push_back of the new event.
Pushed(e) ==
  IF Len(history) >= HistoryCap THEN Append(Tail(history), e) ELSE Append(history, e)

\* Mutation: the event is sent first and recorded in the history after that.
BroadcastSentFirst(p) ==
  \/ /\ Unsent = {} /\ pushed < MaxEvents
     /\ pushed' = pushed + 1
     /\ sent' = Append(sent, pushed')
     /\ unsent' = [unsent EXCEPT ![p] = pushed']
     /\ author' = Append(author, p)
     /\ UNCHANGED <<history, expired, client>>
  \/ /\ unsent[p] # 0
     /\ history' = Pushed(unsent[p])
     /\ unsent' = [unsent EXCEPT ![p] = 0]
     /\ UNCHANGED <<pushed, expired, sent, author, client>>

\* Under the lock of the history the event is recorded; after it, sent.
Record(p) ==
  /\ unsent[p] = 0
  /\ pushed < MaxEvents
  /\ pushed' = pushed + 1
  /\ history' = Pushed(pushed')
  /\ unsent' = [unsent EXCEPT ![p] = pushed']
  /\ author' = Append(author, p)
  /\ UNCHANGED <<expired, sent, client>>

Send(p) ==
  /\ unsent[p] # 0
  /\ sent' = Append(sent, unsent[p])
  /\ unsent' = [unsent EXCEPT ![p] = 0]
  /\ UNCHANGED <<history, pushed, expired, author, client>>

Broadcast(p) == Record(p) \/ Send(p)

\* Time passes: the oldest recorded event leaves the replay window.  The
\* timestamps are taken under the lock, so they never decrease.
Expire ==
  /\ expired < pushed
  /\ expired' = expired + 1
  /\ UNCHANGED <<history, pushed, unsent, sent, author, client>>

-----------------------------------------------------------------------------
(* subscribe_with_history and the stream                                   *)

\* The history inside the replay window: a suffix, as it is ordered by time.
Snapshot ==
  LET old == {i \in DOMAIN history : history[i] <= expired}
  IN  SubSeq(history, Cardinality(old) + 1, Len(history))

\* What the snapshot can be relied on to hold: everything recent, as far as
\* the ring of the history reaches back.
Horizon == IF pushed - expired <= HistoryCap THEN expired ELSE pushed - HistoryCap

\* A new receiver sees the messages sent after it subscribed (external).
NewReceiver == Len(sent)

\* Both under the lock of the history.
Subscribe(w) ==
  /\ w \notin connected
  /\ connects[w] < MaxConnects
  /\ connects' = [connects EXCEPT ![w] = @ + 1]
  /\ connected' = connected \cup {w}
  /\ replay' = [replay EXCEPT ![w] = Snapshot]
  /\ cursor' = [cursor EXCEPT ![w] = NewReceiver]
  /\ seen' = [seen EXCEPT ![w] = {}]
  /\ missed' = [missed EXCEPT ![w] = 0]
  /\ since' = [since EXCEPT ![w] = Horizon]
  /\ straddling' = [straddling EXCEPT ![w] = Unsent]
  /\ UNCHANGED channel

\* Mutation: the newest of the snapshot is replayed first.
ReplayBackwards(w) ==
  /\ w \in connected
  /\ replay[w] # <<>>
  /\ seen' = [seen EXCEPT ![w] = @ \cup {replay[w][Len(replay[w])]}]
  /\ replay' = [replay EXCEPT ![w] = SubSeq(@, 1, Len(@) - 1)]
  /\ UNCHANGED <<channel, connected, cursor, missed, since, straddling, connects>>

\* The stream yields the snapshot first ...
Replay(w) ==
  /\ w \in connected
  /\ replay[w] # <<>>
  /\ seen' = [seen EXCEPT ![w] = @ \cup {Head(replay[w])}]
  /\ replay' = [replay EXCEPT ![w] = Tail(@)]
  /\ UNCHANGED <<channel, connected, cursor, missed, since, straddling, connects>>

\* The oldest message the channel still holds is number Oldest + 1 (external).
Oldest == IF Len(sent) > ChannelCap THEN Len(sent) - ChannelCap ELSE 0

\* ... then what it receives ...
Receive(w) ==
  /\ w \in connected
  /\ replay[w] = <<>>
  /\ cursor[w] >= Oldest /\ cursor[w] < Len(sent)
  /\ seen' = [seen EXCEPT ![w] = @ \cup {sent[cursor[w] + 1]}]
  /\ cursor' = [cursor EXCEPT ![w] = @ + 1]
  /\ UNCHANGED <<channel, connected, replay, missed, since, straddling, connects>>

\* Mutation: a receiver that lagged stays where it was.
LaggedInPlace(w) ==
  /\ w \in connected
  /\ replay[w] = <<>>
  /\ cursor[w] < Oldest
  /\ missed' = [missed EXCEPT ![w] = Oldest - cursor[w]]
  /\ UNCHANGED <<channel, connected, replay, cursor, seen, since, straddling, connects>>

\* ... with a notice of how many messages were overwritten before it came.
Lagged(w) ==
  /\ w \in connected
  /\ replay[w] = <<>>
  /\ cursor[w] < Oldest
  /\ missed' = [missed EXCEPT ![w] = @ + (Oldest - cursor[w])]
  /\ cursor' = [cursor EXCEPT ![w] = Oldest]
  /\ UNCHANGED <<channel, connected, replay, seen, since, straddling, connects>>

\* The client hangs up; the stream and its receiver are dropped.
Disconnect(w) ==
  /\ w \in connected
  /\ connected' = connected \ {w}
  /\ UNCHANGED <<channel, replay, cursor, seen, missed, since, straddling, connects>>

Yield(w) == Replay(w) \/ Receive(w) \/ Lagged(w)

Next ==
  \/ \E p \in Publisher : Broadcast(p)
  \/ Expire
  \/ \E w \in Watcher : Subscribe(w) \/ Yield(w) \/ Disconnect(w)

Spec == Init /\ [][Next]_vars

\* Nothing blocks between the two halves of a broadcast; a client that keeps
\* its connection reads from it.
FairSpec ==
  /\ Spec
  /\ \A p \in Publisher : WF_vars(Send(p))
  /\ \A w \in Watcher : WF_vars(Yield(w))

-----------------------------------------------------------------------------
\* Events that may still reach the client: replayed, received, or sent later.
\* A message that was overwritten is on its way until the client is told.
Replayed(w) == EventsIn(replay[w])
Coming(w) == {sent[i] : i \in cursor[w] + 1 .. Len(sent)}
Owed(w) == Replayed(w) \cup Coming(w) \cup Unsent

\* Events the client is entitled to.
Due(w) == since[w] + 1 .. pushed

(* "Holding the history lock while calling `sender.subscribe()` ensures no *)
(* events slip through the gap between snapshot and subscribe"             *)
(* (watch.rs:135): once a client has read everything there is to read, it  *)
(* has seen every event broadcast since it connected and every recent one  *)
(* from before, except at most as many as it was told it missed.           *)
NoSilentLoss ==
  \A w \in connected :
    replay[w] = <<>> /\ cursor[w] = Len(sent) /\ Unsent = {}
      => Cardinality(Due(w) \ seen[w]) <= missed[w]

(* An event reaches a client twice only if the client connected between    *)
(* the two halves of its broadcast: nothing else it has seen is still on   *)
(* its way to it.  There is one such event per publisher at most.          *)
DuplicatesStraddle ==
  \A w \in connected :
    /\ seen[w] \cap Owed(w) \subseteq straddling[w]
    /\ Cardinality(straddling[w]) <= Cardinality(Publisher)

(* Publishers may overtake one another between record and send, but the    *)
(* events of one publisher -- SessionStart before the turn it announces -- *)
(* reach a client in order: nothing it has not seen of a publisher is on   *)
(* its way once it has seen a later event of that publisher.               *)
PublisherOrder ==
  \A w \in connected : \A e \in Owed(w) \ seen[w], later \in seen[w] :
    author[e] = author[later] => e > later

(* What arrives is in order, and twice only around a connect.              *)
ArrivesInOrder == DuplicatesStraddle /\ PublisherOrder

(* What is owed to a client is eventually delivered, reported as missed,   *)
(* or the client is gone.                                                  *)
OwedSettled ==
  \A w \in Watcher, e \in 1..MaxEvents :
    w \in connected /\ e \in Owed(w) ~> w \notin connected \/ e \notin Owed(w)

(* The broadcaster implements what WatchDelivery promises.                 *)
Delivery ==
  INSTANCE WatchDelivery WITH
    Backlog <- HistoryCap,
    published <- pushed,
    recent <- expired + 1 .. pushed,
    due <- [w \in Watcher |-> IF w \in connected THEN Due(w) ELSE {}],
    owed <- [w \in Watcher |-> IF w \in connected THEN Owed(w) ELSE {}],
    told <- missed

Delivers == Delivery!Spec
=============================================================================
