--------------------------- MODULE WatchDelivery ---------------------------
(***************************************************************************)
(* What the watch broadcaster promises a client of /watch, without saying  *)
(* how: from the moment it connects, every event is delivered to it at     *)
(* least once, or it is told how many it may have missed; and what was     *)
(* published just before is replayed, as far as the backlog reaches.       *)
(* EventBroadcaster implements this specification.                         *)
(***************************************************************************)
EXTENDS Integers, FiniteSets

CONSTANTS
  Watcher,   \* clients
  Backlog    \* recent events a newcomer can be sure of

VARIABLES
  published, \* the events so far: 1..published
  recent,    \* those inside the replay window
  connected, \* clients
  due,       \* per client: the events it is entitled to
  owed,      \* ... that may still be delivered to it
  seen,      \* ... that were delivered
  told       \* ... how many it was told it missed

vars == <<published, recent, connected, due, owed, seen, told>>

Event == 1..published

TypeOK ==
  /\ published \in Nat
  /\ connected \in SUBSET Watcher
  /\ due \in [Watcher -> SUBSET Event] /\ owed \in [Watcher -> SUBSET Event]
  /\ seen \in [Watcher -> SUBSET Event]
  /\ told \in [Watcher -> Nat]

Init ==
  /\ published = 0 /\ recent = {} /\ connected = {}
  /\ due = [w \in Watcher |-> {}] /\ owed = [w \in Watcher |-> {}]
  /\ seen = [w \in Watcher |-> {}] /\ told = [w \in Watcher |-> 0]

\* A new event is due to, and on its way to, everyone connected.
Publish ==
  /\ published' = published + 1
  /\ recent' = recent \cup {published'}
  /\ due' = [w \in Watcher |->
               IF w \in connected THEN due[w] \cup {published'} ELSE due[w]]
  /\ owed' = [w \in Watcher |->
               IF w \in connected THEN owed[w] \cup {published'} ELSE owed[w]]
  /\ UNCHANGED <<connected, seen, told>>

\* Time passes: events leave the replay window.
Expire ==
  /\ recent' \subseteq recent
  /\ UNCHANGED <<published, connected, due, owed, seen, told>>

\* A newcomer is entitled to the recent events if the backlog holds them.
Connect(w) ==
  /\ w \notin connected
  /\ connected' = connected \cup {w}
  /\ \E backlog \in SUBSET Event, coming \in SUBSET Event :
       /\ Cardinality(recent) <= Backlog => recent \subseteq backlog
       /\ backlog \subseteq coming
       /\ due' = [due EXCEPT ![w] = backlog]
       /\ owed' = [owed EXCEPT ![w] = coming]
  /\ seen' = [seen EXCEPT ![w] = {}]
  /\ told' = [told EXCEPT ![w] = 0]
  /\ UNCHANGED <<published, recent>>

\* Delivered, and possibly to be delivered once more.
Deliver(w) ==
  /\ w \in connected
  /\ \E e \in owed[w] :
       /\ seen' = [seen EXCEPT ![w] = @ \cup {e}]
       /\ \E rest \in {owed[w], owed[w] \ {e}} : owed' = [owed EXCEPT ![w] = rest]
  /\ UNCHANGED <<published, recent, connected, due, told>>

\* Events are given up, and the client is told of at least as many.
GiveUp(w) ==
  /\ w \in connected
  /\ \E lost \in SUBSET owed[w] :
       /\ owed' = [owed EXCEPT ![w] = @ \ lost]
       /\ told'[w] >= told[w] + Cardinality(lost)
       /\ told' \in [Watcher -> Nat]
       /\ \A v \in Watcher \ {w} : told'[v] = told[v]
  /\ UNCHANGED <<published, recent, connected, due, seen>>

Disconnect(w) ==
  /\ w \in connected
  /\ connected' = connected \ {w}
  /\ due' = [due EXCEPT ![w] = {}]
  /\ owed' = [owed EXCEPT ![w] = {}]
  /\ UNCHANGED <<published, recent, seen, told>>

Next ==
  \/ Publish \/ Expire
  \/ \E w \in Watcher : Connect(w) \/ Deliver(w) \/ GiveUp(w) \/ Disconnect(w)

Spec == Init /\ [][Next]_vars

\* What a client was entitled to and will not get.
Lost(w) == due[w] \ (seen[w] \cup owed[w])

(* A client is told of at least as many events as it is entitled to and    *)
(* will not get.                                                           *)
Accounted == \A w \in connected : Cardinality(Lost(w)) <= told[w]
=============================================================================
