----------------------- MODULE EventBroadcasterProofs -----------------------
(***************************************************************************)
(* EventBroadcaster implements WatchDelivery, for any number of publishers *)
(* and clients and any capacities; its safety properties follow from that  *)
(* and from an inductive invariant over the order of sends.  The circuit   *)
(* breaker, one of the publishers, is proved about at the end.             *)
(***************************************************************************)
EXTENDS EventBroadcaster, CircuitBreaker, FiniteSetTheorems, SequenceTheorems, TLAPS

USE CapAssumption, BoundAssumption

-----------------------------------------------------------------------------
(* Type correctness, and what the history holds: the newest events.        *)

HistoryIsNewest ==
  /\ Len(history) = IF pushed <= HistoryCap THEN pushed ELSE HistoryCap
  /\ \A i \in DOMAIN history : history[i] = pushed - Len(history) + i

TypeInv == TypeOK /\ HistoryIsNewest

LEMMA TailAppend ==
  ASSUME NEW S, NEW s \in Seq(S), NEW e \in S, s # <<>>
  PROVE  /\ Append(Tail(s), e) \in Seq(S)
         /\ Len(Append(Tail(s), e)) = Len(s)
         /\ \A i \in 1 .. Len(s) :
              Append(Tail(s), e)[i] = IF i = Len(s) THEN e ELSE s[i + 1]
  BY HeadTailProperties, AppendProperties, LenProperties, SMT

LEMMA SuffixOf ==
  ASSUME NEW S, NEW s \in Seq(S), NEW k \in Nat, k <= Len(s)
  PROVE  /\ SubSeq(s, k + 1, Len(s)) \in Seq(S)
         /\ Len(SubSeq(s, k + 1, Len(s))) = Len(s) - k
         /\ \A i \in 1 .. Len(s) - k : SubSeq(s, k + 1, Len(s))[i] = s[k + i]
<1>1. Len(s) \in Nat /\ \A i \in k + 1 .. Len(s) : s[i] \in S
  BY LenProperties, ElementOfSeq
<1>2. /\ SubSeq(s, k + 1, Len(s)) \in Seq(S)
      /\ Len(SubSeq(s, k + 1, Len(s))) = IF k + 1 <= Len(s) THEN Len(s) - (k + 1) + 1 ELSE 0
      /\ \A i \in 1 .. Len(s) - (k + 1) + 1 :
           SubSeq(s, k + 1, Len(s))[i] = s[(k + 1) + i - 1]
  BY <1>1, SubSeqProperties
<1>3. ASSUME NEW i \in 1 .. Len(s) - k
      PROVE  SubSeq(s, k + 1, Len(s))[i] = s[k + i]
  <2>1. i \in 1 .. Len(s) - (k + 1) + 1 /\ (k + 1) + i - 1 = k + i
    BY <1>1
  <2> QED BY <1>2, <2>1
<1>4. Len(SubSeq(s, k + 1, Len(s))) = Len(s) - k
  <2>1. CASE k + 1 <= Len(s) BY <2>1, <1>1, <1>2
  <2>2. CASE k = Len(s) BY <2>2, <1>1, <1>2
  <2> QED BY <1>1, <2>1, <2>2
<1> QED BY <1>2, <1>3, <1>4

LEMMA SnapshotIsRecent ==
  ASSUME TypeInv
  PROVE  /\ Snapshot \in Seq(Event)
         /\ EventsIn(Snapshot) = Horizon + 1 .. pushed
         /\ \A i, j \in DOMAIN Snapshot : i < j => Snapshot[i] < Snapshot[j]
<1> DEFINE start == pushed - Len(history)
           gone == IF expired <= start THEN 0 ELSE expired - start
           old == {i \in DOMAIN history : history[i] <= expired}
<1>1. /\ pushed \in Nat /\ expired \in 0..pushed /\ history \in Seq(Event)
      /\ Len(history) \in Nat /\ DOMAIN history = 1..Len(history)
      /\ start \in Nat /\ gone \in 0..Len(history)
  BY LenProperties DEF TypeInv, TypeOK, HistoryIsNewest
<1>2. old = 1..gone
  BY <1>1 DEF TypeInv, HistoryIsNewest
<1>3. Cardinality(old) = gone
  <2> HIDE DEF gone, old
  <2> QED BY <1>1, <1>2, FS_Interval, SMT
<1>4. Snapshot = SubSeq(history, gone + 1, Len(history))
  BY <1>3 DEF Snapshot
<1>5. /\ Snapshot \in Seq(Event)
      /\ Len(Snapshot) = Len(history) - gone
      /\ \A i \in 1..Len(Snapshot) : Snapshot[i] = start + gone + i
  <2> HIDE DEF gone
  <2>1. /\ Snapshot \in Seq(Event)
        /\ Len(Snapshot) = Len(history) - gone
        /\ \A i \in 1 .. Len(history) - gone : Snapshot[i] = history[gone + i]
    <3>1. gone \in Nat /\ gone <= Len(history) BY <1>1
    <3>2. history \in Seq(Event) BY <1>1
    <3> QED BY ONLY <3>1, <3>2, <1>4, SuffixOf
  <2>2. ASSUME NEW i \in 1..Len(Snapshot) PROVE Snapshot[i] = start + gone + i
    <3>1. gone + i \in DOMAIN history
      BY <1>1, <2>1
    <3>2. history[gone + i] = pushed - Len(history) + (gone + i)
      BY <3>1 DEF TypeInv, HistoryIsNewest
    <3>3. Snapshot[i] = history[gone + i] BY <2>1
    <3> QED BY <1>1, <3>2, <3>3
  <2> QED BY <2>1, <2>2
<1>6. Horizon = start + gone
  BY <1>1 DEF Horizon, TypeInv, HistoryIsNewest
<1>7. DOMAIN Snapshot = 1..Len(Snapshot)
  BY <1>5, LenProperties
<1> QED
  <2> HIDE DEF gone, start
  <2>1. start \in Nat /\ gone \in Nat /\ Len(Snapshot) \in Nat
        /\ pushed = start + gone + Len(Snapshot)
    BY <1>1, <1>5 DEF start, gone
  <2>2. ASSUME NEW e \in Horizon + 1 .. pushed PROVE e \in EventsIn(Snapshot)
    <3>1. e - start - gone \in 1..Len(Snapshot) BY <1>6, <2>1
    <3>2. Snapshot[e - start - gone] = e BY <1>5, <2>1, <3>1, <1>6, SMTT(30)
    <3> QED BY <3>1, <3>2, <1>7 DEF EventsIn
  <2>3. EventsIn(Snapshot) \subseteq Horizon + 1 .. pushed
    BY <1>5, <1>6, <1>7, <2>1 DEF EventsIn
  <2>4. EventsIn(Snapshot) = Horizon + 1 .. pushed
    BY <2>2, <2>3
  <2>5. \A i, j \in DOMAIN Snapshot : i < j => Snapshot[i] < Snapshot[j]
    BY <1>5, <1>7, <2>1, SMTT(30)
  <2> QED BY <1>5, <2>4, <2>5

LEMMA SeqOfLarger ==
  ASSUME NEW S, NEW T, S \subseteq T, NEW s \in Seq(S)
  PROVE  s \in Seq(T)
  BY SeqMonotonic

LEMMA InitTypes == Init => TypeInv
<1> SUFFICES ASSUME Init PROVE TypeInv
  OBVIOUS
<1>1. Event = {} /\ pushed = 0
  BY DEF Init, Event
<1>2. <<>> \in Seq(Event) /\ Len(<<>>) = 0 /\ DOMAIN <<>> = {}
  BY EmptySeq
<1>3. author \in [Event -> Publisher]
  BY <1>1, <1>2 DEF Init
<1> QED BY <1>1, <1>2, <1>3 DEF Init, TypeInv, TypeOK, HistoryIsNewest

\* What a new event does to the ring of the history.
LEMMA PushedProperties ==
  ASSUME TypeInv, pushed' = pushed + 1, history' = Pushed(pushed')
  PROVE  /\ history' \in Seq(Event') /\ Len(history') <= HistoryCap
         /\ HistoryIsNewest'
<1>1. /\ pushed \in Nat /\ history \in Seq(Event') /\ pushed' \in Event'
      /\ Len(history) \in Nat /\ DOMAIN history = 1..Len(history)
  BY SeqOfLarger, LenProperties DEF TypeInv, TypeOK, Event
<1>2. CASE Len(history) >= HistoryCap
  <2>1. /\ history # <<>> /\ Len(history) = HistoryCap
        /\ history' = Append(Tail(history), pushed')
    BY <1>1, <1>2, EmptySeq DEF Pushed, TypeInv, HistoryIsNewest
  <2>2. /\ history' \in Seq(Event') /\ Len(history') = Len(history)
        /\ \A i \in 1 .. Len(history) :
             history'[i] = IF i = Len(history) THEN pushed' ELSE history[i + 1]
    <3>1. history \in Seq(Event') /\ pushed' \in Event' /\ history # <<>>
      BY <1>1, <2>1
    <3> QED BY ONLY <2>1, <3>1, TailAppend
  <2>3. DOMAIN history' = 1..Len(history)
    BY <2>2, LenProperties
  <2>4. ASSUME NEW i \in DOMAIN history'
        PROVE  history'[i] = pushed' - Len(history') + i
    <3>0. /\ i \in 1 .. Len(history) /\ Len(history') = Len(history)
          /\ history'[i] = IF i = Len(history) THEN pushed' ELSE history[i + 1]
      <4>1. i \in 1 .. Len(history) BY <2>3
      <4> QED BY ONLY <2>2, <4>1
    <3>1. CASE i = Len(history)
      <4>1. pushed' \in Nat BY <1>1
      <4> QED BY ONLY <1>1, <3>0, <3>1, <4>1
    <3>2. CASE i + 1 \in DOMAIN history
      <4>1. history[i + 1] = pushed - Len(history) + (i + 1)
        BY <3>2 DEF TypeInv, HistoryIsNewest
      <4>2. history'[i] = history[i + 1] /\ Len(history') = Len(history)
        BY ONLY <1>1, <3>0, <3>2
      <4>3. pushed' = pushed + 1 /\ i \in Nat BY <3>0
      <4> QED BY ONLY <1>1, <4>1, <4>2, <4>3
    <3> QED BY ONLY <1>1, <3>0, <3>1, <3>2
  <2> QED BY <1>1, <2>1, <2>2, <2>4 DEF TypeInv, HistoryIsNewest
<1>3. CASE Len(history) < HistoryCap
  <2>1. history' = Append(history, pushed')
    BY <1>1, <1>3 DEF Pushed
  <2>2. /\ history' \in Seq(Event') /\ Len(history') = Len(history) + 1
        /\ \A i \in 1 .. Len(history) : history'[i] = history[i]
        /\ history'[Len(history) + 1] = pushed'
    BY <1>1, <2>1, AppendProperties
  <2>3. DOMAIN history' = 1..Len(history) + 1
    BY <2>2, LenProperties
  <2>4. pushed = Len(history)
    BY <1>1, <1>3 DEF TypeInv, HistoryIsNewest
  <2>5. \A i \in DOMAIN history' : history'[i] = pushed' - Len(history') + i
    BY <1>1, <2>2, <2>3, <2>4 DEF TypeInv, HistoryIsNewest
  <2> QED BY <1>1, <1>3, <2>2, <2>4, <2>5, SMTT(30) DEF HistoryIsNewest
<1> QED BY <1>1, <1>2, <1>3

LEMMA HistoryUnchanged ==
  ASSUME HistoryIsNewest, UNCHANGED <<history, pushed>>
  PROVE  HistoryIsNewest' /\ Event' = Event
  BY DEF HistoryIsNewest, Event

LEMMA StepTypes == TypeInv /\ [Next]_vars => TypeInv'
<1> SUFFICES ASSUME TypeInv, [Next]_vars PROVE TypeInv'
  OBVIOUS
<1> USE DEF TypeInv, TypeOK
<1>1. ASSUME NEW p \in Publisher, Record(p) PROVE TypeInv'
  <2>1. /\ history' \in Seq(Event') /\ Len(history') <= HistoryCap
        /\ HistoryIsNewest'
    BY <1>1, PushedProperties DEF Record
  <2>2. pushed' \in 0..MaxEvents /\ pushed' = pushed + 1 /\ Event \subseteq Event'
    BY <1>1 DEF Record, Event
  <2>3. sent' \in Seq(Event') /\ replay' \in [Watcher -> Seq(Event')]
    BY <1>1, <2>2, SeqOfLarger DEF Record, client
  <2>4. author' \in [Event' -> Publisher]
    <3>1. author \in Seq(Publisher) /\ Len(author) = pushed
      BY IsASeq, LenProperties DEF Event
    <3>2. author' \in Seq(Publisher) /\ Len(author') = pushed + 1
      BY <1>1, <3>1, AppendProperties DEF Record
    <3> QED BY <2>2, <3>2, LenProperties, ElementOfSeq DEF Event
  <2>5. /\ unsent' \in [Publisher -> 0..pushed'] /\ expired' \in 0..pushed'
        /\ since' \in [Watcher -> 0..pushed']
    BY <1>1, <2>2 DEF Record, client
  <2>6. /\ seen' \in [Watcher -> SUBSET Event']
        /\ straddling' \in [Watcher -> SUBSET Event']
    BY <1>1, <2>2 DEF Record, client
  <2> QED BY <1>1, <2>1, <2>2, <2>3, <2>4, <2>5, <2>6 DEF Record, client
<1>2. ASSUME NEW p \in Publisher, Send(p) PROVE TypeInv'
  <2>1. /\ sent' \in Seq(Event) /\ Len(sent') = Len(sent) + 1 /\ Len(sent) \in Nat
    BY <1>2, AppendProperties, LenProperties DEF Send, Event
  <2>2. cursor' \in [Watcher -> 0..Len(sent')]
    BY <1>2, <2>1 DEF Send, client
  <2>3. unsent' \in [Publisher -> 0..pushed]
    BY <1>2 DEF Send
  <2> QED BY <1>2, <2>1, <2>2, <2>3, HistoryUnchanged DEF Send, client
<1>3. ASSUME Expire PROVE TypeInv'
  <2>1. expired' \in 0..pushed /\ UNCHANGED <<history, pushed, unsent, sent, author, client>>
    BY <1>3 DEF Expire
  <2> QED BY <2>1, HistoryUnchanged DEF client
<1>4. ASSUME NEW w \in Watcher, Subscribe(w) PROVE TypeInv'
  <2>0. Snapshot \in Seq(Event)
    BY SnapshotIsRecent
  <2>1. Horizon \in 0..pushed /\ Unsent \subseteq Event
    BY SMTT(30) DEF Horizon, Unsent, Event
  <2>2. Len(sent) \in 0..Len(sent)
    BY LenProperties
  <2> QED BY <1>4, <2>0, <2>1, <2>2, HistoryUnchanged, SMTT(30) DEF Subscribe, NewReceiver, channel
<1>5. ASSUME NEW w \in Watcher, Replay(w) PROVE TypeInv'
  <2>1. Head(replay[w]) \in Event /\ Tail(replay[w]) \in Seq(Event)
    BY <1>5, HeadTailProperties DEF Replay
  <2> QED BY <1>5, <2>1, HistoryUnchanged DEF Replay, channel
<1>6. ASSUME NEW w \in Watcher, Receive(w) PROVE TypeInv'
  <2>1. /\ Len(sent) \in Nat /\ cursor[w] + 1 \in 0..Len(sent)
        /\ cursor[w] + 1 \in 1..Len(sent)
    BY <1>6, LenProperties, SMTT(30) DEF Receive
  <2>2. sent[cursor[w] + 1] \in Event
    BY <2>1, ElementOfSeq
  <2> QED BY <1>6, <2>1, <2>2, HistoryUnchanged DEF Receive, channel
<1>7. ASSUME NEW w \in Watcher, Lagged(w) PROVE TypeInv'
  <2>1. Len(sent) \in Nat /\ cursor[w] \in Nat /\ cursor[w] < Oldest
    BY <1>7, LenProperties DEF Lagged
  <2>2. Oldest \in 0..Len(sent) /\ Oldest - cursor[w] \in Nat
    <3>1. Oldest \in 0..Len(sent)
      BY ONLY <2>1, CapAssumption DEF Oldest
    <3> QED BY ONLY <2>1, <3>1
  <2>3. /\ missed' \in [Watcher -> Nat] /\ cursor' \in [Watcher -> 0..Len(sent)]
    <3>1. PICK n \in Nat : n = Oldest - cursor[w]
      BY <2>2
    <3>2. missed' = [missed EXCEPT ![w] = @ + n] /\ missed \in [Watcher -> Nat]
      BY <1>7, <3>1 DEF Lagged
    <3>3. missed' \in [Watcher -> Nat] BY ONLY <3>2
    <3> QED BY <1>7, <2>2, <3>3 DEF Lagged
  <2> QED BY <1>7, <2>3, HistoryUnchanged DEF Lagged, channel
<1>8. ASSUME NEW w \in Watcher, Disconnect(w) PROVE TypeInv'
  BY <1>8, HistoryUnchanged DEF Disconnect, channel
<1>9. CASE UNCHANGED vars
  BY <1>9, HistoryUnchanged DEF vars, channel, client
<1> QED BY <1>1, <1>2, <1>3, <1>4, <1>5, <1>6, <1>7, <1>8, <1>9
        DEF Next, Broadcast, Yield

(* The history never outgrows its ring, the cursors stay inside the        *)
(* channel, and clients are only ever sent events that were broadcast.     *)
THEOREM TypeCorrect == Spec => []TypeOK
<1>1. Spec => []TypeInv
  BY InitTypes, StepTypes, PTL DEF Spec
<1>2. TypeInv => TypeOK
  BY DEF TypeInv
<1> QED BY <1>1, <1>2, PTL

-----------------------------------------------------------------------------
(* The steps of the broadcaster are steps of WatchDelivery.                *)

\* The instance brings its own copy of FiniteSets.
LEMMA SameCardinality ==
  ASSUME NEW S
  PROVE  Delivery!Cardinality(S) = Cardinality(S)
  BY DEF Delivery!Cardinality, Cardinality

LEMMA InitDelivers == Init => Delivery!Init
  BY DEF Init, Delivery!Init

LEMMA StepDelivers ==
  TypeInv /\ TypeInv' /\ [Next]_vars => [Delivery!Next]_(Delivery!vars)
<1> SUFFICES ASSUME TypeInv, TypeInv', [Next]_vars
             PROVE  [Delivery!Next]_(Delivery!vars)
  OBVIOUS
<1>0. /\ pushed \in Nat /\ expired \in Nat
      /\ connected \subseteq Watcher
      /\ seen \in [Watcher -> SUBSET Event] /\ missed \in [Watcher -> Nat]
      /\ replay \in [Watcher -> Seq(Event)] /\ cursor \in [Watcher -> Nat]
      /\ Len(sent) \in Nat /\ sent \in Seq(Event)
  BY LenProperties DEF TypeInv, TypeOK
<1>1. ASSUME NEW p \in Publisher, Record(p) PROVE Delivery!Publish
  <2>1. pushed' = pushed + 1 /\ UNCHANGED <<expired, sent, client>>
    BY <1>1 DEF Record
  <2>2. Unsent' = Unsent \cup {pushed'}
    BY <1>1, <1>0 DEF Record, Unsent, TypeInv, TypeOK
  <2>3. \A w \in Watcher : Owed(w)' = Owed(w) \cup {pushed'}
    BY <2>1, <2>2 DEF Owed, Replayed, Coming, client
  <2>4. \A w \in Watcher : Due(w)' = Due(w) \cup {pushed'}
    BY <1>0, <2>1, SMTT(30) DEF Due, client, TypeInv, TypeOK
  <2>5. expired' + 1 .. pushed' = (expired + 1 .. pushed) \cup {pushed'}
    <3>1. expired <= pushed BY DEF TypeInv, TypeOK
    <3> QED BY ONLY <1>0, <2>1, <3>1
  <2> QED BY <2>1, <2>3, <2>4, <2>5 DEF Delivery!Publish, client
<1>2. ASSUME NEW p \in Publisher, Send(p) PROVE UNCHANGED Delivery!vars
  <2>1. UNCHANGED <<pushed, expired, client>>
    BY <1>2 DEF Send
  <2>2. /\ Unsent' \cup {unsent[p]} = Unsent
        /\ Len(sent') = Len(sent) + 1 /\ sent'[Len(sent')] = unsent[p]
        /\ \A i \in 1..Len(sent) : sent'[i] = sent[i]
    <3>1. /\ unsent[p] \in Event /\ unsent[p] # 0
          /\ unsent' = [unsent EXCEPT ![p] = 0] /\ sent' = Append(sent, unsent[p])
          /\ unsent \in [Publisher -> Nat]
      BY <1>2 DEF Send, TypeInv, TypeOK, Event
    <3> QED BY <1>0, <3>1, AppendProperties DEF Unsent
  <2>3. ASSUME NEW w \in Watcher PROVE Owed(w)' = Owed(w)
    <3>1. cursor[w] \in Nat /\ cursor[w] <= Len(sent)
      BY DEF TypeInv, TypeOK
    <3>2. Coming(w)' = Coming(w) \cup {unsent[p]}
      <4>1. cursor'[w] = cursor[w] /\ Coming(w)' = {sent'[i] : i \in cursor[w] + 1 .. Len(sent')}
        BY <2>1 DEF Coming, client
      <4>2. cursor[w] + 1 .. Len(sent') = (cursor[w] + 1 .. Len(sent)) \cup {Len(sent')}
        BY ONLY <1>0, <2>2, <3>1
      <4>3. \A i \in cursor[w] + 1 .. Len(sent) : sent'[i] = sent[i]
        BY ONLY <1>0, <2>2, <3>1
      <4> QED BY ONLY <2>2, <4>1, <4>2, <4>3 DEF Coming
    <3>3. Replayed(w)' = Replayed(w)
      BY <2>1 DEF Replayed, client
    <3> QED BY <2>2, <3>2, <3>3 DEF Owed
  <2> QED BY <2>1, <2>3 DEF Delivery!vars, Due, client
<1>3. ASSUME Expire PROVE Delivery!Expire
  <2>1. expired' = expired + 1 /\ UNCHANGED <<pushed, unsent, sent, client>>
    BY <1>3 DEF Expire
  <2>2. expired' + 1 .. pushed' \subseteq expired + 1 .. pushed
    BY ONLY <1>0, <2>1
  <2> QED
    BY <2>1, <2>2 DEF Delivery!Expire, Owed, Replayed, Coming, Unsent, Due, client
<1>4. ASSUME NEW w \in Watcher, Subscribe(w) PROVE Delivery!Connect(w)
  <2>1. /\ w \notin connected /\ connected' = connected \cup {w}
        /\ replay' = [replay EXCEPT ![w] = Snapshot]
        /\ cursor' = [cursor EXCEPT ![w] = Len(sent)]
        /\ seen' = [seen EXCEPT ![w] = {}] /\ missed' = [missed EXCEPT ![w] = 0]
        /\ since' = [since EXCEPT ![w] = Horizon]
        /\ UNCHANGED channel
    BY <1>4 DEF Subscribe, NewReceiver
  <2>2. Due(w)' = Horizon + 1 .. pushed
    BY <2>1 DEF Due, channel, TypeInv, TypeOK
  <2>3. /\ Replayed(w)' = Horizon + 1 .. pushed
        /\ Unsent \subseteq Event /\ Horizon \in Nat
    <3>1. EventsIn(Snapshot) = Horizon + 1 .. pushed
      BY SnapshotIsRecent
    <3>2. replay'[w] = Snapshot
      BY <1>0, <2>1
    <3>3. Horizon \in Nat
      BY DEF Horizon, TypeInv, TypeOK
    <3>4. Unsent \subseteq Event
      <4>1. \A p \in Publisher : unsent[p] \in 0..pushed
        BY DEF TypeInv, TypeOK
      <4> QED BY <1>0, <4>1 DEF Unsent, Event
    <3> QED BY <3>1, <3>2, <3>3, <3>4 DEF Replayed, EventsIn
  <2>4. Owed(w)' = (Horizon + 1 .. pushed) \cup Unsent
    <3>1. Coming(w)' = {}
      BY <1>0, <2>1 DEF Coming, channel
    <3> QED BY <2>1, <2>3, <3>1 DEF Owed, Unsent, channel
  <2>5. ASSUME NEW v \in Watcher, v # w PROVE Owed(v)' = Owed(v) /\ Due(v)' = Due(v)
    BY <2>1, <2>5 DEF Owed, Replayed, Coming, Unsent, Due, channel, TypeInv, TypeOK
  <2>6. Cardinality(expired + 1 .. pushed) <= HistoryCap
          => expired + 1 .. pushed \subseteq Due(w)'
    <3>1. SUFFICES ASSUME Cardinality(expired + 1 .. pushed) <= HistoryCap
                   PROVE  Horizon = expired
      BY <2>2
    <3>2. expired <= pushed
      BY DEF TypeInv, TypeOK
    <3>3. Cardinality(expired + 1 .. pushed) = pushed - expired
      <4>1. expired + 1 \in Int /\ pushed \in Int BY <1>0
      <4>2. Cardinality(expired + 1 .. pushed)
              = IF expired + 1 > pushed THEN 0 ELSE pushed - (expired + 1) + 1
        BY ONLY <4>1, FS_Interval
      <4> QED BY ONLY <1>0, <3>2, <4>2
    <3> QED BY <3>1, <3>3 DEF Horizon
  <2>7. Due(w)' \in SUBSET Event /\ Owed(w)' \in SUBSET Event /\ Due(w)' \subseteq Owed(w)'
    BY <1>0, <2>2, <2>3, <2>4 DEF Event
  <2>8. UNCHANGED <<pushed, expired>>
    BY <2>1 DEF channel
  <2> DEFINE due == [v \in Watcher |-> IF v \in connected THEN Due(v) ELSE {}]
             owed == [v \in Watcher |-> IF v \in connected THEN Owed(v) ELSE {}]
  <2>9. due' = [due EXCEPT ![w] = Due(w)'] /\ owed' = [owed EXCEPT ![w] = Owed(w)']
    BY <2>1, <2>5
  <2> DEFINE backlog == Due(w)'
             coming == Owed(w)'
  <2> HIDE DEF due, owed, backlog, coming
  <2>10. \E b, c \in SUBSET Event :
           /\ Cardinality(expired + 1 .. pushed) <= HistoryCap => expired + 1 .. pushed \subseteq b
           /\ b \subseteq c
           /\ due' = [due EXCEPT ![w] = b] /\ owed' = [owed EXCEPT ![w] = c]
    BY <2>6, <2>7, <2>9 DEF backlog, coming
  <2>11. \E b, c \in SUBSET (1..pushed) :
           /\ Delivery!Cardinality(expired + 1 .. pushed) <= HistoryCap
                => expired + 1 .. pushed \subseteq b
           /\ b \subseteq c
           /\ [v \in Watcher |-> IF v \in connected THEN Due(v) ELSE {}]'
                = [[v \in Watcher |-> IF v \in connected THEN Due(v) ELSE {}] EXCEPT ![w] = b]
           /\ [v \in Watcher |-> IF v \in connected THEN Owed(v) ELSE {}]'
                = [[v \in Watcher |-> IF v \in connected THEN Owed(v) ELSE {}] EXCEPT ![w] = c]
    BY <2>10, SameCardinality DEF due, owed, Event
  <2>12. w \notin connected /\ connected' = connected \cup {w}
         /\ seen' = [seen EXCEPT ![w] = {}] /\ missed' = [missed EXCEPT ![w] = 0]
         /\ UNCHANGED <<pushed, expired + 1 .. pushed>>
    BY <2>1, <2>8
  <2> QED
    BY ONLY <2>11, <2>12 DEF Delivery!Connect, Delivery!Event
<1>5. ASSUME NEW w \in Watcher, NEW e, e \in Owed(w), w \in connected,
             seen' = [seen EXCEPT ![w] = @ \cup {e}],
             Owed(w) = Owed(w)' \cup {e},
             \A v \in Watcher \ {w} : UNCHANGED <<replay[v], cursor[v]>>,
             UNCHANGED <<channel, connected, missed, since>>
      PROVE  Delivery!Deliver(w)
  <2>1. ASSUME NEW v \in Watcher, v # w PROVE Owed(v)' = Owed(v)
    BY <1>5, <2>1 DEF Owed, Replayed, Coming, Unsent, channel
  <2>2. \A v \in Watcher : Due(v)' = Due(v)
    BY <1>5 DEF Due, channel
  <2> DEFINE owed == [v \in Watcher |-> IF v \in connected THEN Owed(v) ELSE {}]
  <2>3. Owed(w)' = Owed(w) \/ Owed(w)' = Owed(w) \ {e}
    BY <1>5
  <2>4. owed' = [owed EXCEPT ![w] = Owed(w)'] /\ owed[w] = Owed(w)
    BY <1>5, <2>1
  <2>5. UNCHANGED <<pushed, expired + 1 .. pushed, connected, missed,
                    [v \in Watcher |-> IF v \in connected THEN Due(v) ELSE {}]>>
    BY <1>5, <2>2 DEF channel
  <2>6. \E x \in owed[w] :
          /\ seen' = [seen EXCEPT ![w] = @ \cup {x}]
          /\ \E rest \in {owed[w], owed[w] \ {x}} : owed' = [owed EXCEPT ![w] = rest]
    <3> HIDE DEF owed
    <3> QED BY <1>5, <2>3, <2>4
  <2> QED BY <1>5, <2>5, <2>6 DEF Delivery!Deliver
<1>6. ASSUME NEW w \in Watcher, Replay(w) PROVE Delivery!Deliver(w)
  <2>1. /\ w \in connected /\ replay[w] # <<>> /\ replay[w] \in Seq(Event)
        /\ seen' = [seen EXCEPT ![w] = @ \cup {Head(replay[w])}]
        /\ replay' = [replay EXCEPT ![w] = Tail(@)]
        /\ UNCHANGED <<channel, connected, cursor, missed, since>>
    BY <1>0, <1>6 DEF Replay
  <2>2. Replayed(w) = {Head(replay[w])} \cup Replayed(w)'
    <3> DEFINE s == replay[w]
    <3>1. /\ Len(s) \in Nat \ {0} /\ Head(s) = s[1] /\ Len(Tail(s)) = Len(s) - 1
          /\ \A i \in 1 .. Len(Tail(s)) : Tail(s)[i] = s[i + 1]
          /\ DOMAIN s = 1..Len(s) /\ DOMAIN Tail(s) = 1..Len(Tail(s))
      BY <2>1, HeadTailProperties, LenProperties, EmptySeq
    <3>2. replay'[w] = Tail(s)
      BY <1>0, <2>1
    <3> HIDE DEF s
    <3>3. EventsIn(s) = {Head(s)} \cup EventsIn(Tail(s))
      <4>1. EventsIn(Tail(s)) \subseteq EventsIn(s) /\ Head(s) \in EventsIn(s)
        BY ONLY <3>1 DEF EventsIn
      <4>2. ASSUME NEW i \in DOMAIN s, i # 1 PROVE s[i] \in EventsIn(Tail(s))
        <5>1. i - 1 \in DOMAIN Tail(s) /\ Tail(s)[i - 1] = s[i]
          BY ONLY <3>1, <4>2
        <5> QED BY <5>1 DEF EventsIn
      <4> QED BY <3>1, <4>1, <4>2 DEF EventsIn
    <3> QED BY <3>2, <3>3 DEF Replayed, EventsIn, s
  <2>3. Coming(w)' = Coming(w) /\ Unsent' = Unsent
    BY <2>1 DEF Coming, Unsent, channel
  <2>4. Owed(w) = Owed(w)' \cup {Head(replay[w])} /\ Head(replay[w]) \in Owed(w)
    BY <2>2, <2>3 DEF Owed
  <2>5. \A v \in Watcher \ {w} : UNCHANGED <<replay[v], cursor[v]>>
    BY <1>0, <2>1
  <2> QED BY <1>5, <2>1, <2>4, <2>5
<1>7. ASSUME NEW w \in Watcher, Receive(w) PROVE Delivery!Deliver(w)
  <2> DEFINE e == sent[cursor[w] + 1]
  <2>1. /\ w \in connected /\ cursor[w] \in Nat /\ cursor[w] < Len(sent)
        /\ seen' = [seen EXCEPT ![w] = @ \cup {e}]
        /\ cursor' = [cursor EXCEPT ![w] = @ + 1]
        /\ UNCHANGED <<channel, connected, replay, missed, since>>
    BY <1>0, <1>7 DEF Receive
  <2>2. Coming(w) = Coming(w)' \cup {e}
    <3>1. cursor'[w] = cursor[w] + 1 /\ sent' = sent
      BY <1>0, <2>1 DEF channel
    <3>2. cursor[w] + 1 .. Len(sent) = (cursor[w] + 2 .. Len(sent)) \cup {cursor[w] + 1}
      BY <1>0, <2>1
    <3>3. Coming(w)' = {sent[i] : i \in cursor[w] + 2 .. Len(sent)}
      BY <1>0, <2>1, <3>1 DEF Coming
    <3> QED BY <3>2, <3>3 DEF Coming
  <2>3. Replayed(w)' = Replayed(w) /\ Unsent' = Unsent
    BY <2>1 DEF Replayed, Unsent, channel
  <2>4. Owed(w) = Owed(w)' \cup {e} /\ e \in Owed(w)
    BY <2>2, <2>3 DEF Owed
  <2>5. \A v \in Watcher \ {w} : UNCHANGED <<replay[v], cursor[v]>>
    BY <1>0, <2>1
  <2> QED BY <1>5, <2>1, <2>4, <2>5
<1>8. ASSUME NEW w \in Watcher, Lagged(w) PROVE Delivery!GiveUp(w)
  <2> DEFINE owed == [v \in Watcher |-> IF v \in connected THEN Owed(v) ELSE {}]
             lost == Owed(w) \ Owed(w)'
             gap == cursor[w] + 1 .. Oldest
  <2>1. /\ w \in connected /\ cursor[w] \in Nat /\ cursor[w] < Oldest
        /\ missed' = [missed EXCEPT ![w] = @ + (Oldest - cursor[w])]
        /\ cursor' = [cursor EXCEPT ![w] = Oldest]
        /\ UNCHANGED <<channel, connected, replay, seen, since>>
    BY <1>0, <1>8 DEF Lagged
  <2>2. Oldest \in Nat /\ Oldest <= Len(sent)
    BY ONLY <1>0, <2>1, CapAssumption DEF Oldest
  <2>3. Coming(w)' = {sent[i] : i \in Oldest + 1 .. Len(sent)}
    BY <1>0, <2>1 DEF Coming, channel
  <2>4. Coming(w) = Coming(w)' \cup {sent[i] : i \in gap}
    <3>1. cursor[w] + 1 .. Len(sent) = gap \cup (Oldest + 1 .. Len(sent))
      BY ONLY <1>0, <2>1, <2>2
    <3> QED BY <2>3, <3>1 DEF Coming
  <2>5. Owed(w)' \subseteq Owed(w) /\ lost \subseteq {sent[i] : i \in gap}
    <3>1. Replayed(w)' = Replayed(w) /\ Unsent' = Unsent
      BY <2>1 DEF Replayed, Unsent, channel
    <3> QED BY <2>4, <3>1 DEF Owed
  <2>6. Cardinality(lost) <= Oldest - cursor[w] /\ Cardinality(lost) \in Nat
    <3>1. IsFiniteSet(gap) /\ Cardinality(gap) = Oldest - cursor[w]
      <4>1. cursor[w] + 1 \in Int /\ Oldest \in Int BY <2>1, <2>2
      <4>2. /\ IsFiniteSet(gap)
            /\ Cardinality(gap) = IF cursor[w] + 1 > Oldest THEN 0 ELSE Oldest - (cursor[w] + 1) + 1
        BY ONLY <4>1, FS_Interval
      <4> QED BY ONLY <2>1, <2>2, <4>2
    <3> DEFINE f == [i \in gap |-> sent[i]]
    <3>2. /\ IsFiniteSet({f[i] : i \in gap})
          /\ Cardinality({f[i] : i \in gap}) <= Cardinality(gap)
      <4>1. f \in Surjection(gap, {f[i] : i \in gap})
        BY DEF Surjection
      <4> HIDE DEF gap, f
      <4> QED BY ONLY <3>1, <4>1, FS_Surjection
    <3>3. {f[i] : i \in gap} = {sent[i] : i \in gap}
      OBVIOUS
    <3>4. /\ Cardinality(lost) <= Cardinality({f[i] : i \in gap})
          /\ Cardinality(lost) \in Nat /\ Cardinality({f[i] : i \in gap}) \in Nat
      BY <2>5, <3>2, <3>3, FS_Subset, FS_CardinalityType
    <3> HIDE DEF lost, gap, f
    <3> QED BY <2>1, <2>2, <3>1, <3>2, <3>4
  <2>7. ASSUME NEW v \in Watcher, v # w PROVE Owed(v)' = Owed(v)
    BY <1>0, <2>1, <2>7 DEF Owed, Replayed, Coming, Unsent, channel
  <2>8. \A v \in Watcher : Due(v)' = Due(v)
    BY <2>1 DEF Due, channel
  <2>9. owed' = [owed EXCEPT ![w] = @ \ lost] /\ lost \subseteq owed[w]
    <3>1. Owed(w) \ lost = Owed(w)'
      BY <2>5
    <3> HIDE DEF lost
    <3> QED BY <2>1, <2>5, <2>7, <3>1 DEF lost
  <2>10. /\ missed'[w] >= missed[w] + Cardinality(lost)
         /\ missed' \in [Watcher -> Nat]
         /\ \A v \in Watcher \ {w} : missed'[v] = missed[v]
    <3> HIDE DEF lost
    <3>1. missed'[w] = missed[w] + (Oldest - cursor[w]) /\ missed[w] \in Nat
      BY <1>0, <2>1
    <3>2. missed'[w] >= missed[w] + Cardinality(lost)
      BY ONLY <2>1, <2>2, <2>6, <3>1
    <3>3. missed' \in [Watcher -> Nat]
      BY DEF TypeInv, TypeOK
    <3> QED BY <1>0, <2>1, <3>2, <3>3
  <2>11. \E x \in SUBSET owed[w] :
           /\ owed' = [owed EXCEPT ![w] = @ \ x]
           /\ missed'[w] >= missed[w] + Delivery!Cardinality(x)
           /\ missed' \in [Watcher -> Nat]
           /\ \A v \in Watcher \ {w} : missed'[v] = missed[v]
    <3> HIDE DEF owed, lost
    <3> QED BY <2>9, <2>10, SameCardinality
  <2>12. UNCHANGED <<pushed, expired + 1 .. pushed, connected, seen,
                     [v \in Watcher |-> IF v \in connected THEN Due(v) ELSE {}]>>
    BY <2>1, <2>8 DEF channel
  <2> QED BY <2>1, <2>11, <2>12 DEF Delivery!GiveUp
<1>9. ASSUME NEW w \in Watcher, Disconnect(w) PROVE Delivery!Disconnect(w)
  <2>1. /\ w \in connected /\ connected' = connected \ {w}
        /\ UNCHANGED <<channel, replay, cursor, seen, missed, since>>
    BY <1>9 DEF Disconnect
  <2>2. \A v \in Watcher : Owed(v)' = Owed(v) /\ Due(v)' = Due(v)
    BY <2>1 DEF Owed, Replayed, Coming, Unsent, Due, channel
  <2> QED BY <2>1, <2>2 DEF Delivery!Disconnect, channel
<1>10. CASE UNCHANGED vars
  BY <1>10 DEF vars, channel, client, Delivery!vars, Owed, Replayed, Coming, Unsent, Due
<1> QED
  BY <1>1, <1>2, <1>3, <1>4, <1>6, <1>7, <1>8, <1>9, <1>10
     DEF Next, Broadcast, Yield, Delivery!Next

(* For any number of publishers and clients and any capacities, every step *)
(* of the broadcaster is a step of WatchDelivery.                          *)
THEOREM Implements == Spec => Delivers
<1>1. Spec => []TypeInv
  BY InitTypes, StepTypes, PTL DEF Spec
<1> QED BY <1>1, InitDelivers, StepDelivers, PTL DEF Spec, Delivers, Delivery!Spec

-----------------------------------------------------------------------------
(* Steps that WatchDelivery allows keep every client accounted for.        *)

\* The refinement mapping, and what a client will not get.
due == [w \in Watcher |-> IF w \in connected THEN Due(w) ELSE {}]
owed == [w \in Watcher |-> IF w \in connected THEN Owed(w) ELSE {}]
Lost(w) == due[w] \ (seen[w] \cup owed[w])

DeliveryTypeOK ==
  /\ pushed \in Nat /\ connected \subseteq Watcher
  /\ due \in [Watcher -> SUBSET (1..pushed)]
  /\ owed \in [Watcher -> SUBSET (1..pushed)]
  /\ seen \in [Watcher -> SUBSET (1..pushed)]
  /\ missed \in [Watcher -> Nat]
Accounted == \A w \in connected : Cardinality(Lost(w)) <= missed[w]

LEMMA AccountedAlike == Delivery!Accounted = Accounted
  BY SameCardinality, Zenon
     DEF Delivery!Accounted, Accounted, Delivery!Lost, Lost, due, owed

LEMMA LostIsFinite ==
  ASSUME DeliveryTypeOK, NEW w \in Watcher
  PROVE  IsFiniteSet(Lost(w)) /\ Cardinality(Lost(w)) \in Nat
<1>1. Lost(w) \subseteq 1..pushed /\ pushed \in Nat
  BY DEF DeliveryTypeOK, Lost
<1>2. IsFiniteSet(1..pushed)
  BY <1>1, FS_Interval
<1> QED BY <1>1, <1>2, FS_Subset, FS_CardinalityType

\* A client that loses nothing more stays accounted for.
LEMMA NothingMoreLost ==
  ASSUME DeliveryTypeOK, DeliveryTypeOK', Accounted, NEW w \in connected,
         Lost(w)' \subseteq Lost(w), missed'[w] = missed[w]
  PROVE  Cardinality(Lost(w)') <= missed'[w]
<1>1. w \in Watcher
  BY DEF DeliveryTypeOK
<1>2. /\ IsFiniteSet(Lost(w)) /\ Cardinality(Lost(w)) \in Nat
      /\ Cardinality(Lost(w)') <= Cardinality(Lost(w))
      /\ Cardinality(Lost(w)') \in Nat
  BY <1>1, LostIsFinite, FS_Subset, FS_CardinalityType
<1>3. Cardinality(Lost(w)) <= missed[w] /\ missed[w] \in Nat
  BY <1>1 DEF Accounted, DeliveryTypeOK
<1> QED BY <1>2, <1>3

LEMMA StepAccounts ==
  DeliveryTypeOK /\ DeliveryTypeOK' /\ Accounted /\ [Delivery!Next]_(Delivery!vars)
    => Accounted'
<1> SUFFICES ASSUME DeliveryTypeOK, DeliveryTypeOK', Accounted,
                    [Delivery!Next]_(Delivery!vars), NEW w \in connected'
             PROVE  Cardinality(Lost(w)') <= missed'[w]
  BY DEF Accounted
<1>0. w \in Watcher
  BY DEF DeliveryTypeOK
<1>1. CASE Delivery!Publish
  <2>1. /\ due' = [v \in Watcher |->
                     IF v \in connected THEN due[v] \cup {pushed'} ELSE due[v]]
        /\ owed' = [v \in Watcher |->
                      IF v \in connected THEN owed[v] \cup {pushed'} ELSE owed[v]]
        /\ UNCHANGED <<connected, seen, missed>>
    BY <1>1, Zenon DEF Delivery!Publish, due, owed
  <2>2. w \in connected /\ missed'[w] = missed[w] /\ Lost(w)' \subseteq Lost(w)
    BY <1>0, <2>1 DEF Lost
  <2> QED BY <2>2, NothingMoreLost
<1>2. CASE Delivery!Expire \/ UNCHANGED Delivery!vars
  <2>1. UNCHANGED <<connected, due, owed, seen, missed>>
    BY <1>2, Zenon DEF Delivery!Expire, Delivery!vars, due, owed
  <2>2. w \in connected /\ missed'[w] = missed[w] /\ Lost(w)' \subseteq Lost(w)
    BY <2>1 DEF Lost
  <2> QED BY <2>2, NothingMoreLost
<1>3. ASSUME NEW v \in Watcher, Delivery!Connect(v)
      PROVE  Cardinality(Lost(w)') <= missed'[w]
  <2>1. PICK backlog \in SUBSET Delivery!Event, coming \in SUBSET Delivery!Event :
          /\ backlog \subseteq coming
          /\ due' = [due EXCEPT ![v] = backlog]
          /\ owed' = [owed EXCEPT ![v] = coming]
    BY <1>3, Zenon DEF Delivery!Connect, due, owed
  <2>2. /\ connected' = connected \cup {v}
        /\ seen' = [seen EXCEPT ![v] = {}] /\ missed' = [missed EXCEPT ![v] = 0]
    BY <1>3 DEF Delivery!Connect
  <2>3. CASE w = v
    <3>1. Lost(w)' = {} /\ missed'[w] = 0
      BY <1>0, <2>1, <2>2, <2>3 DEF DeliveryTypeOK, Lost
    <3> QED BY <3>1, FS_EmptySet
  <2>4. CASE w # v
    <3>1. w \in connected /\ missed'[w] = missed[w] /\ Lost(w)' \subseteq Lost(w)
      BY <1>0, <2>1, <2>2, <2>4 DEF DeliveryTypeOK, Lost
    <3> QED BY <3>1, NothingMoreLost
  <2> QED BY <2>3, <2>4
<1>4. ASSUME NEW v \in Watcher, Delivery!Deliver(v)
      PROVE  Cardinality(Lost(w)') <= missed'[w]
  <2>1. PICK e \in owed[v] :
          /\ seen' = [seen EXCEPT ![v] = @ \cup {e}]
          /\ \E rest \in {owed[v], owed[v] \ {e}} : owed' = [owed EXCEPT ![v] = rest]
    BY <1>4, Zenon DEF Delivery!Deliver, owed
  <2>2. UNCHANGED <<connected, due, missed>>
    BY <1>4, Zenon DEF Delivery!Deliver, due
  <2>3. w \in connected /\ missed'[w] = missed[w] /\ Lost(w)' \subseteq Lost(w)
    BY <1>0, <2>1, <2>2 DEF DeliveryTypeOK, Lost
  <2> QED BY <2>3, NothingMoreLost
<1>5. ASSUME NEW v \in Watcher, Delivery!GiveUp(v)
      PROVE  Cardinality(Lost(w)') <= missed'[w]
  <2>1. PICK lost \in SUBSET owed[v] :
             /\ owed' = [owed EXCEPT ![v] = @ \ lost]
             /\ missed'[v] >= missed[v] + Delivery!Cardinality(lost)
             /\ \A u \in Watcher \ {v} : missed'[u] = missed[u]
    BY <1>5, Zenon DEF Delivery!GiveUp, owed
  <2>2. UNCHANGED <<connected, due, seen>>
    BY <1>5, Zenon DEF Delivery!GiveUp, due
  <2>3. CASE w = v
    <3>1. w \in connected /\ Lost(w)' \subseteq Lost(w) \cup lost /\ lost \subseteq 1..pushed
      BY <1>0, <2>1, <2>2, <2>3 DEF DeliveryTypeOK, Lost
    <3>2. /\ IsFiniteSet(lost) /\ Cardinality(lost) \in Nat
          /\ missed'[w] >= missed[w] + Cardinality(lost)
      <4>1. IsFiniteSet(1..pushed)
        BY FS_Interval DEF DeliveryTypeOK
      <4> QED BY <2>1, <2>3, <3>1, <4>1, SameCardinality, FS_Subset, FS_CardinalityType
    <3>3. /\ IsFiniteSet(Lost(w)) /\ Cardinality(Lost(w)) \in Nat
          /\ Cardinality(Lost(w)) <= missed[w] /\ missed[w] \in Nat
      BY <1>0, <3>1, LostIsFinite DEF Accounted, DeliveryTypeOK
    <3>4. /\ IsFiniteSet(Lost(w) \cup lost)
          /\ Cardinality(Lost(w) \cup lost) \in Nat
          /\ Cardinality(Lost(w) \cup lost) <= Cardinality(Lost(w)) + Cardinality(lost)
      <4>1. Cardinality(Lost(w) \cup lost)
              = Cardinality(Lost(w)) + Cardinality(lost) - Cardinality(Lost(w) \cap lost)
        BY <3>2, <3>3, FS_Union
      <4>2. IsFiniteSet(Lost(w) \cup lost)
        BY <3>2, <3>3, FS_Union
      <4>3. Cardinality(Lost(w) \cap lost) \in Nat
        BY <3>2, <3>3, FS_Intersection, FS_CardinalityType
      <4> QED BY <3>2, <3>3, <4>1, <4>2, <4>3, FS_CardinalityType
    <3>5. Cardinality(Lost(w)') <= Cardinality(Lost(w) \cup lost)
          /\ Cardinality(Lost(w)') \in Nat
      BY <3>1, <3>4, FS_Subset, FS_CardinalityType
    <3>6. missed'[w] \in Nat
      BY <1>0 DEF DeliveryTypeOK
    <3> QED BY <3>2, <3>3, <3>4, <3>5, <3>6
  <2>4. CASE w # v
    <3>1. w \in connected /\ missed'[w] = missed[w] /\ Lost(w)' \subseteq Lost(w)
      BY <1>0, <2>1, <2>2, <2>4 DEF DeliveryTypeOK, Lost
    <3> QED BY <3>1, NothingMoreLost
  <2> QED BY <2>3, <2>4
<1>6. ASSUME NEW v \in Watcher, Delivery!Disconnect(v)
      PROVE  Cardinality(Lost(w)') <= missed'[w]
  <2>1. /\ due' = [due EXCEPT ![v] = {}] /\ owed' = [owed EXCEPT ![v] = {}]
        /\ connected' = connected \ {v} /\ UNCHANGED <<seen, missed>>
    BY <1>6, Zenon DEF Delivery!Disconnect, due, owed
  <2>2. w \in connected /\ missed'[w] = missed[w] /\ Lost(w)' \subseteq Lost(w)
    BY <1>0, <2>1 DEF DeliveryTypeOK, Lost
  <2> QED BY <2>2, NothingMoreLost
<1> QED BY <1>1, <1>2, <1>3, <1>4, <1>5, <1>6 DEF Delivery!Next

LEMMA ValuesOfSeq ==
  ASSUME NEW S, NEW s \in Seq(S) PROVE EventsIn(s) \subseteq S
  BY DEF EventsIn

LEMMA DeliveryTypes == TypeInv => DeliveryTypeOK
<1> SUFFICES ASSUME TypeInv PROVE DeliveryTypeOK
  OBVIOUS
<1>1. /\ pushed \in Nat /\ connected \subseteq Watcher
      /\ seen \in [Watcher -> SUBSET (1..pushed)] /\ missed \in [Watcher -> Nat]
  BY DEF TypeInv, TypeOK, Event
<1>2. ASSUME NEW w \in Watcher PROVE Due(w) \subseteq 1..pushed
  BY DEF TypeInv, TypeOK, Due, Event
<1>3. ASSUME NEW w \in Watcher PROVE Owed(w) \subseteq 1..pushed
  <2>1. /\ replay[w] \in Seq(1..pushed) /\ sent \in Seq(1..pushed)
        /\ cursor[w] \in Nat /\ unsent \in [Publisher -> 0..pushed]
    BY DEF TypeInv, TypeOK, Event
  <2>2. Replayed(w) \subseteq 1..pushed
    BY <2>1, ValuesOfSeq DEF Replayed
  <2>3. Coming(w) \subseteq 1..pushed
    <3>1. Len(sent) \in Nat /\ \A i \in 1..Len(sent) : sent[i] \in 1..pushed
      BY <2>1, LenProperties
    <3>2. cursor[w] + 1 .. Len(sent) \subseteq 1..Len(sent)
      BY <2>1, <3>1
    <3> QED BY <3>1, <3>2 DEF Coming
  <2>4. Unsent \subseteq 1..pushed
    BY <1>1, <2>1 DEF Unsent
  <2> QED BY <2>2, <2>3, <2>4 DEF Owed
<1> QED BY <1>1, <1>2, <1>3 DEF DeliveryTypeOK, due, owed

(* WatchDelivery keeps its promise, and with it whatever implements it: a  *)
(* client is told of at least as many events as it will not get.           *)
THEOREM AlwaysAccounted == Spec => []Delivery!Accounted
<1>1. Init => Accounted
  <2>1. Init => connected = {}
    BY DEF Init
  <2> QED BY <2>1 DEF Accounted
<1>2. Spec => []TypeInv
  BY InitTypes, StepTypes, PTL DEF Spec
<1>3. Accounted => Delivery!Accounted
  BY AccountedAlike
<1> QED
  BY <1>1, <1>2, <1>3, StepDelivers, StepAccounts, DeliveryTypes, PTL DEF Spec

(* No event is lost to a client silently: every event broadcast since it   *)
(* connected, and every recent one, is delivered or covered by a notice.   *)
THEOREM NothingLostSilently == Spec => []NoSilentLoss
<1>1. TypeInv /\ Delivery!Accounted => NoSilentLoss
  <2> SUFFICES ASSUME TypeInv, Delivery!Accounted, NEW w \in connected,
                      replay[w] = <<>>, cursor[w] = Len(sent), Unsent = {}
               PROVE  Cardinality(Due(w) \ seen[w]) <= missed[w]
    BY DEF NoSilentLoss
  <2>1. w \in Watcher /\ Len(sent) \in Nat
    BY LenProperties DEF TypeInv, TypeOK
  <2>2. Owed(w) = {}
    <3>1. Replayed(w) = {} BY EmptySeq DEF Replayed, EventsIn
    <3>2. Coming(w) = {} BY <2>1 DEF Coming
    <3> QED BY <3>1, <3>2 DEF Owed
  <2>3. Delivery!Lost(w) = Due(w) \ seen[w]
    BY <2>1, <2>2 DEF Delivery!Lost
  <2> QED BY <2>3, SameCardinality DEF Delivery!Accounted
<1>2. Spec => []TypeInv
  BY InitTypes, StepTypes, PTL DEF Spec
<1> QED BY <1>1, <1>2, AlwaysAccounted, PTL

-----------------------------------------------------------------------------
(* Order and duplicates.                                                   *)

\* An event is never in two places on its way to the channel.
SentOnce ==
  /\ \A i, j \in DOMAIN sent : sent[i] = sent[j] => i = j
  /\ \A p \in Publisher, i \in DOMAIN sent : unsent[p] # sent[i]
  /\ \A p, q \in Publisher : unsent[p] = unsent[q] /\ unsent[p] # 0 => p = q

\* A publisher sends its events in the order of their numbers.
InOrder ==
  /\ \A p \in Publisher : unsent[p] # 0 =>
       author[unsent[p]] = p /\ \A e \in Event : author[e] = p => e <= unsent[p]
  /\ \A i, j \in DOMAIN sent :
       i < j /\ author[sent[i]] = author[sent[j]] => sent[i] < sent[j]

\* What the channel will bring.
Ahead(w) == Coming(w) \cup Unsent

\* What a snapshot and the channel both bring is a straddling event, and the
\* channel brings nothing of a publisher that is older than the snapshot.
ReplayInv(w) ==
  /\ \A i, j \in DOMAIN replay[w] : i < j => replay[w][i] < replay[w][j]
  /\ Replayed(w) \cap Ahead(w) \subseteq straddling[w]
  /\ \A x \in Replayed(w), e \in Ahead(w) : author[e] = author[x] => x <= e

SeenInv(w) ==
  /\ seen[w] \cap (Replayed(w) \cup Ahead(w)) \subseteq straddling[w]
  /\ \A e \in (Replayed(w) \cup Ahead(w)) \ seen[w], later \in seen[w] :
       author[e] = author[later] => e > later
  /\ Cardinality(straddling[w]) <= Cardinality(Publisher)

OrderInv ==
  /\ SentOnce /\ InOrder
  /\ \A w \in Watcher : ReplayInv(w) /\ SeenInv(w)

LEMMA InitOrder == Init => OrderInv
<1> SUFFICES ASSUME Init PROVE OrderInv
  OBVIOUS
<1>1. DOMAIN sent = {} /\ \A p \in Publisher : unsent[p] = 0
  BY EmptySeq DEF Init
<1>2. ASSUME NEW w \in Watcher PROVE ReplayInv(w) /\ SeenInv(w)
  <2>1. replay[w] = <<>> /\ DOMAIN replay[w] = {} /\ Replayed(w) = {}
    BY EmptySeq DEF Init, Replayed, EventsIn
  <2>2. Ahead(w) = {}
    <3>1. cursor[w] = 0 /\ Len(sent) = 0 BY EmptySeq DEF Init
    <3> QED BY <1>1, <3>1 DEF Ahead, Coming, Unsent
  <2>3. seen[w] = {} /\ straddling[w] = {}
    BY DEF Init
  <2>4. Cardinality({}) = 0 /\ Cardinality(Publisher) \in Nat
    BY PublisherAssumption, FS_EmptySet, FS_CardinalityType
  <2> QED BY <2>1, <2>2, <2>3, <2>4 DEF ReplayInv, SeenInv
<1> QED BY <1>1, <1>2 DEF OrderInv, SentOnce, InOrder

LEMMA Sizes ==
  ASSUME TypeInv
  PROVE  /\ pushed \in Nat /\ Event \subseteq Nat /\ Unsent \subseteq Event
         /\ Len(sent) \in Nat /\ DOMAIN sent = 1..Len(sent)
         /\ \A i \in DOMAIN sent : sent[i] \in Event
         /\ \A p \in Publisher : unsent[p] # 0 => unsent[p] \in Event
         /\ \A w \in Watcher :
              /\ cursor[w] \in Nat /\ cursor[w] <= Len(sent)
              /\ Coming(w) \subseteq Event /\ Replayed(w) \subseteq Event
              /\ seen[w] \subseteq Event
<1>1. pushed \in Nat /\ sent \in Seq(Event) /\ Len(sent) \in Nat /\ DOMAIN sent = 1..Len(sent)
  BY LenProperties DEF TypeInv, TypeOK
<1>2. \A i \in DOMAIN sent : sent[i] \in Event
  BY <1>1, ElementOfSeq
<1>3. \A p \in Publisher : unsent[p] \in 0..pushed
  BY DEF TypeInv, TypeOK
<1>4. Unsent \subseteq Event /\ \A p \in Publisher : unsent[p] # 0 => unsent[p] \in Event
  BY <1>1, <1>3 DEF Unsent, Event
<1>5. ASSUME NEW w \in Watcher
      PROVE  /\ cursor[w] \in Nat /\ cursor[w] <= Len(sent)
             /\ Coming(w) \subseteq Event /\ Replayed(w) \subseteq Event
             /\ seen[w] \subseteq Event
  <2>1. cursor[w] \in 0..Len(sent) /\ seen[w] \subseteq Event /\ replay[w] \in Seq(Event)
    BY DEF TypeInv, TypeOK
  <2>2. Coming(w) \subseteq Event
    BY <1>1, <1>2, <2>1 DEF Coming
  <2>3. Replayed(w) \subseteq Event
    <3>1. \A i \in DOMAIN replay[w] : replay[w][i] \in Event
      BY <2>1, LenProperties, ElementOfSeq
    <3> QED BY <3>1 DEF Replayed, EventsIn
  <2> QED BY <1>1, <2>1, <2>2, <2>3
<1> QED BY <1>1, <1>2, <1>4, <1>5 DEF Event

LEMMA SendsUnchanged ==
  ASSUME SentOnce, InOrder, UNCHANGED <<pushed, unsent, sent, author>>
  PROVE  SentOnce' /\ InOrder'
  BY DEF SentOnce, InOrder, Event

\* A client that is left alone, except that less may be ahead of it.
LEMMA ClientUnchanged ==
  ASSUME NEW w \in Watcher, ReplayInv(w), SeenInv(w),
         UNCHANGED <<replay[w], seen[w], straddling[w], author>>,
         Ahead(w)' \subseteq Ahead(w)
  PROVE  ReplayInv(w)' /\ SeenInv(w)'
<1>1. Replayed(w)' = Replayed(w)
  BY DEF Replayed, EventsIn
<1> QED BY <1>1 DEF ReplayInv, SeenInv

\* Between the two halves of a broadcast an event is ahead of everyone.
LEMMA RecordKeepsOrder ==
  ASSUME TypeInv, TypeInv', OrderInv, NEW p \in Publisher, Record(p)
  PROVE  OrderInv'
<1> DEFINE n == pushed + 1
<1>1. /\ pushed' = n /\ unsent[p] = 0 /\ unsent' = [unsent EXCEPT ![p] = n]
      /\ UNCHANGED <<sent, client>>
  BY DEF Record
<1>2. /\ Event' = Event \cup {n} /\ n \notin Event /\ n \in Nat /\ n # 0
      /\ \A e \in Event : e < n
  BY <1>1, Sizes DEF Event
<1>3. author'[n] = p /\ \A e \in Event : author'[e] = author[e]
  <2>1. author \in Seq(Publisher) /\ Len(author) = pushed
    <3>1. author \in [1..pushed -> Publisher] /\ pushed \in Nat
      BY Sizes DEF TypeInv, TypeOK, Event
    <3> QED BY <3>1, IsASeq, LenProperties
  <2>2. author' = Append(author, p) BY DEF Record
  <2> QED BY <2>1, <2>2, AppendProperties DEF Event
<1>4. unsent \in [Publisher -> Nat] /\ \A q \in Publisher : unsent[q] # n
  BY <1>1, <1>2, Sizes DEF TypeInv, TypeOK
<1>5. /\ unsent'[p] = n /\ \A q \in Publisher : q # p => unsent'[q] = unsent[q]
  BY <1>1, <1>4
<1> HIDE DEF n
<1>6. SentOnce'
  BY <1>1, <1>2, <1>4, <1>5, Sizes DEF OrderInv, SentOnce
<1>7. InOrder'
  <2>1. ASSUME NEW q \in Publisher, unsent'[q] # 0
        PROVE  author'[unsent'[q]] = q /\ \A e \in Event' : author'[e] = q => e <= unsent'[q]
    <3>1. CASE q = p
      BY <1>2, <1>3, <1>5, <3>1, Sizes
    <3>2. CASE q # p
      BY <1>2, <1>3, <1>5, <2>1, <3>2, Sizes DEF OrderInv, InOrder
    <3> QED BY <3>1, <3>2
  <2>2. \A i, j \in DOMAIN sent' :
          i < j /\ author'[sent'[i]] = author'[sent'[j]] => sent'[i] < sent'[j]
    BY <1>1, <1>3, Sizes DEF OrderInv, InOrder
  <2> QED BY <2>1, <2>2 DEF InOrder
<1>8. ASSUME NEW w \in Watcher PROVE ReplayInv(w)' /\ SeenInv(w)'
  <2>1. /\ Replayed(w)' = Replayed(w) /\ replay'[w] = replay[w] /\ seen'[w] = seen[w]
        /\ straddling'[w] = straddling[w]
    BY <1>1 DEF client, Replayed
  <2>2. Unsent' = Unsent \cup {n}
    BY <1>1, <1>2, <1>4 DEF Unsent
  <2>3. Ahead(w)' = Ahead(w) \cup {n}
    BY <1>1, <2>2 DEF Ahead, Coming, client
  <2>4. Ahead(w) \subseteq Event /\ Replayed(w) \subseteq Event /\ seen[w] \subseteq Event
    BY Sizes DEF Ahead
  <2>5. n \notin Replayed(w) /\ n \notin seen[w]
    BY <1>2, <2>4
  <2>6. ReplayInv(w) /\ SeenInv(w)
    BY DEF OrderInv
  <2>7. ReplayInv(w)'
    BY <1>2, <1>3, <2>1, <2>3, <2>4, <2>5, <2>6, Sizes DEF ReplayInv
  <2>8. SeenInv(w)'
    BY <1>2, <1>3, <2>1, <2>3, <2>4, <2>5, <2>6, Sizes DEF SeenInv
  <2> QED BY <2>7, <2>8
<1> QED BY <1>6, <1>7, <1>8 DEF OrderInv

LEMMA SendKeepsOrder ==
  ASSUME TypeInv, TypeInv', OrderInv, NEW p \in Publisher, Send(p)
  PROVE  OrderInv'
<1> DEFINE u == unsent[p]
<1>1. /\ u # 0 /\ u \in Event /\ unsent' = [unsent EXCEPT ![p] = 0]
      /\ UNCHANGED <<pushed, author, client>>
      /\ unsent \in [Publisher -> Nat]
  BY Sizes DEF Send, TypeInv, TypeOK
<1>2. /\ Len(sent') = Len(sent) + 1 /\ DOMAIN sent' = 1 .. Len(sent) + 1
      /\ DOMAIN sent = 1..Len(sent) /\ Len(sent) \in Nat
      /\ sent'[Len(sent) + 1] = u
      /\ \A i \in 1..Len(sent) : sent'[i] = sent[i]
  <2>1. sent' = Append(sent, u) /\ sent \in Seq(Event)
    BY DEF Send, TypeInv, TypeOK
  <2> QED BY <1>1, <2>1, Sizes, AppendProperties, LenProperties
<1>3. /\ unsent'[p] = 0 /\ \A q \in Publisher : q # p => unsent'[q] = unsent[q]
      /\ \A q \in Publisher : q # p => unsent[q] # u
  BY <1>1 DEF OrderInv, SentOnce
<1>4. Event' = Event
  BY <1>1 DEF Event
<1> HIDE DEF u
<1>5. SentOnce'
  <2>1. \A i \in 1..Len(sent) : sent[i] # u /\ sent[i] # 0
    BY <1>2, Sizes DEF OrderInv, SentOnce, Event, u
  <2>2. \A i, j \in DOMAIN sent' : sent'[i] = sent'[j] => i = j
    BY <1>2, <2>1 DEF OrderInv, SentOnce
  <2>3. ASSUME NEW q \in Publisher, NEW i \in DOMAIN sent' PROVE unsent'[q] # sent'[i]
    <3>1. u # 0 BY <1>1
    <3>2. CASE q = p BY <1>2, <1>3, <2>1, <3>1, <3>2
    <3>3. CASE q # p BY <1>2, <1>3, <3>3 DEF OrderInv, SentOnce
    <3> QED BY <3>2, <3>3
  <2>4. \A q, r \in Publisher : unsent'[q] = unsent'[r] /\ unsent'[q] # 0 => q = r
    BY <1>3 DEF OrderInv, SentOnce
  <2> QED BY <2>2, <2>3, <2>4 DEF SentOnce
<1>6. InOrder'
  <2>1. ASSUME NEW q \in Publisher, unsent'[q] # 0
        PROVE  author'[unsent'[q]] = q /\ \A e \in Event' : author'[e] = q => e <= unsent'[q]
    BY <1>1, <1>3, <1>4, <2>1 DEF OrderInv, InOrder
  <2>2. ASSUME NEW i \in DOMAIN sent', NEW j \in DOMAIN sent', i < j,
               author'[sent'[i]] = author'[sent'[j]]
        PROVE  sent'[i] < sent'[j]
    <3>0. i \in 1..Len(sent) /\ author' = author
      BY <1>1, <1>2, <2>2
    <3>1. CASE j \in 1..Len(sent)
      BY <1>2, <2>2, <3>0, <3>1 DEF OrderInv, InOrder
    <3>2. CASE j = Len(sent) + 1
      <4>1. author[u] = p /\ \A e \in Event : author[e] = p => e <= u
        BY <1>1 DEF OrderInv, InOrder, u
      <4>2. sent'[i] = sent[i] /\ sent'[j] = u /\ sent[i] \in Event /\ sent[i] # u
        BY <1>2, <3>0, <3>2, Sizes DEF OrderInv, SentOnce, u
      <4>3. sent[i] \in Nat /\ u \in Nat
        BY <1>1, <4>2, Sizes
      <4> QED BY <2>2, <3>0, <4>1, <4>2, <4>3
    <3> QED BY <1>2, <3>1, <3>2
  <2> QED BY <2>1, <2>2 DEF InOrder
<1>7. ASSUME NEW w \in Watcher PROVE ReplayInv(w)' /\ SeenInv(w)'
  <2>1. Unsent' \subseteq Unsent /\ u \in Unsent
    BY <1>1, <1>3 DEF Unsent, u
  <2>2. Coming(w)' \subseteq Coming(w) \cup {u}
    <3>1. cursor'[w] = cursor[w] /\ cursor[w] \in Nat
      BY <1>1, Sizes DEF client
    <3> QED BY <1>2, <3>1 DEF Coming
  <2>3. Ahead(w)' \subseteq Ahead(w)
    BY <2>1, <2>2 DEF Ahead
  <2>4. UNCHANGED <<replay[w], seen[w], straddling[w], author>> /\ ReplayInv(w) /\ SeenInv(w)
    BY <1>1 DEF client, OrderInv
  <2> QED BY <2>3, <2>4, ClientUnchanged
<1> QED BY <1>5, <1>6, <1>7 DEF OrderInv

LEMMA SubscribeKeepsOrder ==
  ASSUME TypeInv, TypeInv', OrderInv, NEW w \in Watcher, Subscribe(w)
  PROVE  OrderInv'
<1>1. /\ replay' = [replay EXCEPT ![w] = Snapshot] /\ cursor' = [cursor EXCEPT ![w] = Len(sent)]
      /\ seen' = [seen EXCEPT ![w] = {}] /\ straddling' = [straddling EXCEPT ![w] = Unsent]
      /\ UNCHANGED channel
  BY DEF Subscribe, NewReceiver
<1>2. /\ replay \in [Watcher -> Seq(Event)] /\ cursor \in [Watcher -> 0..Len(sent)]
      /\ seen \in [Watcher -> SUBSET Event] /\ straddling \in [Watcher -> SUBSET Event]
  BY DEF TypeInv, TypeOK
<1>3. SentOnce' /\ InOrder'
  BY <1>1, SendsUnchanged DEF OrderInv, channel
<1>4. ASSUME NEW v \in Watcher, v # w PROVE ReplayInv(v)' /\ SeenInv(v)'
  <2>1. /\ UNCHANGED <<replay[v], seen[v], straddling[v], author>>
        /\ Ahead(v)' = Ahead(v)
    BY <1>1, <1>2, <1>4 DEF channel, Ahead, Coming, Unsent
  <2> QED BY <2>1, ClientUnchanged DEF OrderInv
<1>5. ReplayInv(w)'
  <2>1. replay'[w] = Snapshot /\ straddling'[w] = Unsent /\ author' = author
    BY <1>1, <1>2 DEF channel
  <2>2. Ahead(w)' = Unsent
    <3>1. cursor'[w] = Len(sent) /\ sent' = sent /\ Len(sent) \in Nat
      BY <1>1, <1>2, Sizes DEF channel
    <3>2. Coming(w)' = {}
      BY <3>1 DEF Coming
    <3> QED BY <1>1, <3>2 DEF Ahead, Unsent, channel
  <2>3. Replayed(w)' \subseteq Event
    <3>1. Replayed(w)' = EventsIn(Snapshot)
      BY <2>1 DEF Replayed, EventsIn
    <3>2. EventsIn(Snapshot) = Horizon + 1 .. pushed
      BY SnapshotIsRecent
    <3>3. Horizon \in Nat /\ pushed \in Nat
      BY DEF Horizon, TypeInv, TypeOK
    <3> QED BY <3>1, <3>2, <3>3 DEF Event
  <2>4. ASSUME NEW x \in Event, NEW e \in Unsent, author[e] = author[x] PROVE x <= e
    BY <2>4 DEF OrderInv, InOrder, Unsent
  <2>5. \A i, j \in DOMAIN replay'[w] : i < j => replay'[w][i] < replay'[w][j]
    BY <2>1, SnapshotIsRecent
  <2> QED BY <2>1, <2>2, <2>3, <2>4, <2>5 DEF ReplayInv
<1>6. SeenInv(w)'
  <2>1. seen'[w] = {} /\ straddling'[w] = Unsent
    BY <1>1, <1>2
  <2>2. Cardinality(Unsent) <= Cardinality(Publisher)
    <3> DEFINE busy == {p \in Publisher : unsent[p] # 0}
               f == [p \in busy |-> unsent[p]]
    <3>1. IsFiniteSet(busy) /\ Cardinality(busy) <= Cardinality(Publisher)
      BY PublisherAssumption, FS_Subset
    <3>2. f \in Surjection(busy, Unsent)
      BY DEF Surjection, Unsent
    <3>3. Cardinality(Unsent) <= Cardinality(busy) /\ IsFiniteSet(Unsent)
      <4> HIDE DEF busy, f
      <4> QED BY ONLY <3>1, <3>2, FS_Surjection
    <3>4. /\ Cardinality(Unsent) \in Nat /\ Cardinality(busy) \in Nat
          /\ Cardinality(Publisher) \in Nat
      BY <3>1, <3>3, PublisherAssumption, FS_CardinalityType
    <3> HIDE DEF busy
    <3> QED BY <3>1, <3>3, <3>4
  <2> QED BY <2>1, <2>2 DEF SeenInv
<1> QED BY <1>3, <1>4, <1>5, <1>6 DEF OrderInv

LEMMA ReplayKeepsOrder ==
  ASSUME TypeInv, TypeInv', OrderInv, NEW w \in Watcher, Replay(w)
  PROVE  OrderInv'
<1> DEFINE s == replay[w]
           h == Head(replay[w])
<1>1. /\ seen' = [seen EXCEPT ![w] = @ \cup {h}] /\ replay' = [replay EXCEPT ![w] = Tail(@)]
      /\ s # <<>> /\ s \in Seq(Event)
      /\ UNCHANGED <<channel, cursor, straddling>>
      /\ replay \in [Watcher -> Seq(Event)] /\ seen \in [Watcher -> SUBSET Event]
  BY DEF Replay, TypeInv, TypeOK
<1>2. /\ Len(s) \in Nat \ {0} /\ h = s[1] /\ Len(Tail(s)) = Len(s) - 1
      /\ \A i \in 1 .. Len(Tail(s)) : Tail(s)[i] = s[i + 1]
      /\ DOMAIN s = 1..Len(s) /\ DOMAIN Tail(s) = 1..Len(Tail(s))
  BY <1>1, HeadTailProperties, LenProperties, EmptySeq
<1>3. /\ replay'[w] = Tail(s) /\ seen'[w] = seen[w] \cup {h}
      /\ \A v \in Watcher : v # w => replay'[v] = replay[v] /\ seen'[v] = seen[v]
  BY <1>1
<1>4. \A i, j \in DOMAIN s : i < j => s[i] < s[j]
  BY DEF OrderInv, ReplayInv
<1>5. /\ h \in Replayed(w) /\ Replayed(w)' \subseteq Replayed(w)
      /\ \A x \in Replayed(w)' : h < x
  <2> HIDE DEF s, h
  <2>1. Replayed(w) = EventsIn(s) /\ Replayed(w)' = EventsIn(Tail(s))
    BY <1>3 DEF Replayed, EventsIn, s
  <2>2. ASSUME NEW i \in DOMAIN Tail(s) PROVE Tail(s)[i] \in EventsIn(s) /\ h < Tail(s)[i]
    <3>1. 1 \in DOMAIN s /\ i + 1 \in DOMAIN s /\ 1 < i + 1 /\ Tail(s)[i] = s[i + 1]
      BY ONLY <1>2, <2>2
    <3> QED BY <1>2, <1>4, <3>1 DEF EventsIn
  <2>3. h \in EventsIn(s)
    BY ONLY <1>2 DEF EventsIn
  <2> QED BY <2>1, <2>2, <2>3 DEF EventsIn
<1>6. Ahead(w)' = Ahead(w) /\ author' = author /\ straddling'[w] = straddling[w]
  BY <1>1 DEF Ahead, Coming, Unsent, channel
<1>7. /\ Ahead(w) \subseteq Nat /\ Replayed(w) \subseteq Nat /\ seen[w] \subseteq Nat
  BY Sizes DEF Ahead
<1>8. ReplayInv(w) /\ SeenInv(w)
  BY DEF OrderInv
<1>9. ReplayInv(w)'
  <2>1. ASSUME NEW i \in DOMAIN Tail(s), NEW j \in DOMAIN Tail(s), i < j
        PROVE  Tail(s)[i] < Tail(s)[j]
    <3>1. /\ i + 1 \in DOMAIN s /\ j + 1 \in DOMAIN s /\ i + 1 < j + 1
          /\ Tail(s)[i] = s[i + 1] /\ Tail(s)[j] = s[j + 1]
      BY ONLY <1>2, <2>1
    <3> QED BY ONLY <1>4, <3>1
  <2> QED BY <1>3, <1>5, <1>6, <1>8, <2>1 DEF ReplayInv
<1>10. SeenInv(w)'
  <2> HIDE DEF h, s
  <2>1. h \notin Replayed(w)' /\ h \in Nat
    BY <1>5, <1>7
  <2>2. h \in Ahead(w) => h \in straddling[w]
    BY <1>5, <1>8 DEF ReplayInv
  <2>3. seen'[w] \cap (Replayed(w)' \cup Ahead(w)') \subseteq straddling'[w]
    BY <1>3, <1>5, <1>6, <1>8, <2>1, <2>2 DEF SeenInv
  <2>4. ASSUME NEW e \in (Replayed(w)' \cup Ahead(w)') \ seen'[w], NEW later \in seen'[w],
               author'[e] = author'[later]
        PROVE  e > later
    <3>1. CASE later \in seen[w]
      BY <1>3, <1>5, <1>6, <1>8, <2>4, <3>1 DEF SeenInv
    <3>2. CASE later = h /\ e \in Replayed(w)'
      BY <1>5, <1>7, <3>2
    <3>3. CASE later = h /\ e \in Ahead(w)
      <4>1. h <= e /\ e # h /\ e \in Nat
        BY <1>3, <1>5, <1>6, <1>7, <1>8, <2>4, <3>3 DEF ReplayInv
      <4> QED BY <2>1, <3>3, <4>1
    <3> QED BY <1>3, <1>6, <3>1, <3>2, <3>3
  <2> QED BY <1>6, <1>8, <2>3, <2>4 DEF SeenInv
<1>11. ASSUME NEW v \in Watcher, v # w PROVE ReplayInv(v)' /\ SeenInv(v)'
  <2>1. UNCHANGED <<replay[v], seen[v], straddling[v], author>> /\ Ahead(v)' = Ahead(v)
    BY <1>1, <1>3, <1>11 DEF Ahead, Coming, Unsent, channel
  <2> QED BY <2>1, ClientUnchanged DEF OrderInv
<1>12. SentOnce' /\ InOrder'
  BY <1>1, SendsUnchanged DEF OrderInv, channel
<1> QED BY <1>9, <1>10, <1>11, <1>12 DEF OrderInv

LEMMA ReceiveKeepsOrder ==
  ASSUME TypeInv, TypeInv', OrderInv, NEW w \in Watcher, Receive(w)
  PROVE  OrderInv'
<1> DEFINE c == cursor[w] + 1
           e0 == sent[c]
<1>1. /\ seen' = [seen EXCEPT ![w] = @ \cup {e0}] /\ cursor' = [cursor EXCEPT ![w] = @ + 1]
      /\ c \in DOMAIN sent /\ replay[w] = <<>>
      /\ UNCHANGED <<channel, replay, straddling>>
      /\ seen \in [Watcher -> SUBSET Event]
      /\ cursor \in [Watcher -> 0..Len(sent)]
  <2>1. c \in DOMAIN sent
    <3>1. cursor[w] < Len(sent) /\ cursor[w] \in Nat /\ DOMAIN sent = 1..Len(sent) /\ Len(sent) \in Nat
      BY Sizes DEF Receive
    <3> QED BY ONLY <3>1
  <2> QED BY <2>1 DEF Receive, TypeInv, TypeOK
<1>2. /\ cursor'[w] = c /\ c \in Nat /\ seen'[w] = seen[w] \cup {e0}
      /\ \A v \in Watcher : v # w => cursor'[v] = cursor[v] /\ seen'[v] = seen[v]
  BY <1>1, Sizes
<1>3. Replayed(w) = {} /\ Replayed(w)' = {}
  BY <1>1, EmptySeq DEF Replayed, EventsIn
<1>4. /\ Ahead(w)' \subseteq Ahead(w) /\ e0 \in Ahead(w) /\ e0 \notin Ahead(w)'
      /\ \A e \in Ahead(w)' : author[e] = author[e0] => e0 < e
  <2>1. Coming(w)' = {sent[i] : i \in c + 1 .. Len(sent)} /\ Unsent' = Unsent
    BY <1>1, <1>2 DEF Coming, Unsent, channel
  <2>2. Coming(w)' \subseteq Coming(w) /\ e0 \in Coming(w)
    <3>1. DOMAIN sent = 1..Len(sent) /\ Len(sent) \in Nat /\ cursor[w] \in Nat
      BY Sizes
    <3>2. c + 1 .. Len(sent) \subseteq cursor[w] + 1 .. Len(sent) /\ c \in cursor[w] + 1 .. Len(sent)
      BY <1>1, <3>1
    <3> QED BY ONLY <2>1, <3>2 DEF Coming
  <2>3. ASSUME NEW i \in c + 1 .. Len(sent)
        PROVE  sent[i] # e0 /\ (author[sent[i]] = author[e0] => e0 < sent[i])
    <3>1. i \in DOMAIN sent /\ c < i
      BY <1>1, <1>2, Sizes
    <3> QED BY <1>1, <3>1 DEF OrderInv, SentOnce, InOrder
  <2>4. ASSUME NEW p \in Publisher, unsent[p] # 0
        PROVE  unsent[p] # e0 /\ (author[unsent[p]] = author[e0] => e0 < unsent[p])
    <3>1. unsent[p] # e0 /\ e0 \in Event
      BY <1>1, Sizes DEF OrderInv, SentOnce
    <3>2. author[unsent[p]] = p /\ (author[e0] = p => e0 <= unsent[p])
      BY <2>4, <3>1 DEF OrderInv, InOrder
    <3>3. e0 \in Nat /\ unsent[p] \in Nat
      BY <2>4, <3>1, Sizes
    <3> QED BY ONLY <3>1, <3>2, <3>3
  <2> QED BY <2>1, <2>2, <2>3, <2>4 DEF Ahead, Unsent
<1>5. ReplayInv(w) /\ SeenInv(w) /\ author' = author /\ straddling'[w] = straddling[w]
  BY <1>1 DEF OrderInv, channel
<1> HIDE DEF c, e0
<1>6. ReplayInv(w)'
  <2>1. replay'[w] = <<>> /\ DOMAIN replay'[w] = {}
    BY <1>1, EmptySeq
  <2> QED BY <1>3, <2>1 DEF ReplayInv
<1>7. SeenInv(w)'
  <2>1. ASSUME NEW e \in Ahead(w)' \ seen'[w], NEW later \in seen'[w], author[e] = author[later]
        PROVE  e > later
    <3>1. CASE later \in seen[w]
      BY <1>2, <1>4, <1>5, <2>1, <3>1 DEF SeenInv
    <3>2. CASE later = e0
      <4>1. e \in Nat /\ e0 \in Nat /\ e0 < e
        BY <1>4, <2>1, <3>2, Sizes DEF Ahead
      <4> QED BY <3>2, <4>1
    <3> QED BY <1>2, <3>1, <3>2
  <2>2. seen'[w] \cap Ahead(w)' \subseteq straddling[w]
    BY <1>2, <1>4, <1>5 DEF SeenInv
  <2> QED BY <1>3, <1>5, <2>1, <2>2 DEF SeenInv
<1>8. ASSUME NEW v \in Watcher, v # w PROVE ReplayInv(v)' /\ SeenInv(v)'
  <2>1. UNCHANGED <<replay[v], seen[v], straddling[v], author>> /\ Ahead(v)' = Ahead(v)
    BY <1>1, <1>2, <1>8 DEF Ahead, Coming, Unsent, channel
  <2> QED BY <2>1, ClientUnchanged DEF OrderInv
<1>9. SentOnce' /\ InOrder'
  BY <1>1, SendsUnchanged DEF OrderInv, channel
<1> QED BY <1>6, <1>7, <1>8, <1>9 DEF OrderInv

LEMMA LaggedKeepsOrder ==
  ASSUME TypeInv, TypeInv', OrderInv, NEW w \in Watcher, Lagged(w)
  PROVE  OrderInv'
<1>1. /\ cursor[w] < Oldest /\ cursor' = [cursor EXCEPT ![w] = Oldest]
      /\ UNCHANGED <<channel, replay, seen, straddling>>
      /\ cursor \in [Watcher -> 0..Len(sent)] /\ Len(sent) \in Nat
  BY Sizes DEF Lagged, TypeInv, TypeOK
<1>2. Oldest \in Nat
  BY ONLY <1>1, CapAssumption DEF Oldest
<1>3. ASSUME NEW v \in Watcher PROVE ReplayInv(v)' /\ SeenInv(v)'
  <2>1. cursor[v] \in Nat /\ cursor'[v] \in Nat /\ cursor'[v] >= cursor[v]
    BY <1>1, <1>2
  <2>2. Coming(v)' \subseteq Coming(v)
    BY <1>1, <2>1 DEF Coming, channel
  <2>3. Ahead(v)' \subseteq Ahead(v) /\ UNCHANGED <<replay[v], seen[v], straddling[v], author>>
    BY <1>1, <2>2 DEF Ahead, Unsent, channel
  <2> QED BY <2>3, ClientUnchanged DEF OrderInv
<1>4. SentOnce' /\ InOrder'
  BY <1>1, SendsUnchanged DEF OrderInv, channel
<1> QED BY <1>3, <1>4 DEF OrderInv

LEMMA StepKeepsOrder == TypeInv /\ TypeInv' /\ OrderInv /\ [Next]_vars => OrderInv'
<1> SUFFICES ASSUME TypeInv, TypeInv', OrderInv, [Next]_vars PROVE OrderInv'
  OBVIOUS
<1>1. CASE UNCHANGED <<history, pushed, unsent, sent, author, replay, cursor, seen, straddling>>
  <2>1. ASSUME NEW w \in Watcher PROVE ReplayInv(w)' /\ SeenInv(w)'
    <3>1. Ahead(w)' = Ahead(w) /\ UNCHANGED <<replay[w], seen[w], straddling[w], author>>
      BY <1>1 DEF Ahead, Coming, Unsent
    <3> QED BY <3>1, ClientUnchanged DEF OrderInv
  <2> QED BY <1>1, <2>1, SendsUnchanged DEF OrderInv
<1>2. ASSUME Expire PROVE OrderInv'
  BY <1>1, <1>2 DEF Expire, client
<1>3. ASSUME NEW w \in Watcher, Disconnect(w) PROVE OrderInv'
  BY <1>1, <1>3 DEF Disconnect, channel
<1>4. CASE UNCHANGED vars
  BY <1>1, <1>4 DEF vars, channel, client
<1> QED
  BY <1>2, <1>3, <1>4, RecordKeepsOrder, SendKeepsOrder, SubscribeKeepsOrder, ReplayKeepsOrder,
     ReceiveKeepsOrder, LaggedKeepsOrder DEF Next, Broadcast, Yield

LEMMA AlwaysOrdered == Spec => [](TypeInv /\ OrderInv)
  BY InitTypes, StepTypes, InitOrder, StepKeepsOrder, PTL DEF Spec

(* An event reaches a client twice only if the client connected between    *)
(* the two halves of its broadcast: one event per publisher at most.       *)
THEOREM OnlyStraddlersRepeat == Spec => []DuplicatesStraddle
<1>1. TypeInv /\ OrderInv => DuplicatesStraddle
  BY DEF OrderInv, SeenInv, DuplicatesStraddle, Owed, Ahead, TypeInv, TypeOK
<1> QED BY <1>1, AlwaysOrdered, PTL

(* The events of one publisher reach every client in order.                *)
THEOREM PublishersAreInOrder == Spec => []PublisherOrder
<1>1. TypeInv /\ OrderInv => PublisherOrder
  BY DEF OrderInv, SeenInv, PublisherOrder, Owed, Ahead, TypeInv, TypeOK
<1> QED BY <1>1, AlwaysOrdered, PTL

(* Both together: each client sees what one publisher broadcast in order,  *)
(* and again only what straddles its connect.                              *)
THEOREM ClientsSeeAnOrderedFeed == Spec => []ArrivesInOrder
BY OnlyStraddlersRepeat, PublishersAreInOrder, PTL DEF ArrivesInOrder

-----------------------------------------------------------------------------
(* The circuit breaker, whose Cooldown events are among what is broadcast, *)
(* for any number of exchanges, any threshold and any window.              *)

(* Every variable keeps its type: the counter never goes below zero and    *)
(* the window never lasts longer than Window.                              *)
THEOREM BreakerTypes == BreakerSpec => []BreakerTypeOK
<1>1. BreakerInit => BreakerTypeOK
  BY WindowAssumption DEF BreakerInit, BreakerTypeOK, None, Phases
<1>2. BreakerTypeOK /\ [BreakerNext]_breakerVars => BreakerTypeOK'
  <2> SUFFICES ASSUME BreakerTypeOK, [BreakerNext]_breakerVars
               PROVE BreakerTypeOK'
    OBVIOUS
  <2> USE DEF BreakerTypeOK, Phases, None
  <2>1. ASSUME NEW x \in Exchange, RequestHeaders(x)
        PROVE BreakerTypeOK'
    BY <2>1 DEF RequestHeaders
  <2>2. ASSUME NEW x \in Exchange, NEW body \in Bodies,
               RequestBody(x, body)
        PROVE  BreakerTypeOK'
    BY <2>2 DEF RequestBody
  <2>3. ASSUME NEW x \in Exchange, NEW status \in Statuses,
               ResponseHeaders(x, status)
        PROVE  BreakerTypeOK'
    BY <2>3, WindowAssumption DEF ResponseHeaders
  <2>4. ASSUME NEW x \in Exchange, Announce(x) PROVE BreakerTypeOK'
    BY <2>4 DEF Announce
  <2>5. ASSUME NEW x \in Exchange, Close(x) PROVE BreakerTypeOK'
    BY <2>5 DEF Close
  <2>6. CASE Tick
    BY <2>6, WindowAssumption DEF Tick
  <2>7. CASE UNCHANGED breakerVars
    BY <2>7 DEF breakerVars
  <2>8. QED
    BY <2>1, <2>2, <2>3, <2>4, <2>5, <2>6, <2>7 DEF BreakerNext
<1>3. QED
  BY <1>1, <1>2, PTL DEF BreakerSpec

(* The circuit is open exactly while an unbroken streak of at least        *)
(* Threshold model errors lasts.                                           *)
THEOREM CircuitFollowsStreak == BreakerSpec => []OpenIffStreak
<1>1. BreakerInit => OpenIffStreak
  BY DEF BreakerInit, OpenIffStreak, None
<1>2. BreakerTypeOK /\ OpenIffStreak /\ [BreakerNext]_breakerVars
     => OpenIffStreak'
  <2> SUFFICES ASSUME BreakerTypeOK, OpenIffStreak,
                      [BreakerNext]_breakerVars
               PROVE  OpenIffStreak'
    OBVIOUS
  <2> USE ThresholdAssumption, WindowAssumption DEF BreakerTypeOK, OpenIffStreak, None
  <2>1. ASSUME NEW x \in Exchange, NEW status \in Statuses,
               ResponseHeaders(x, status)
        PROVE  OpenIffStreak'
    <3>1. CASE CountsAsError(x, status)
      BY <2>1, <3>1 DEF ResponseHeaders, ShouldTrip
    <3>2. CASE ~CountsAsError(x, status)
      BY <2>1, <3>2 DEF ResponseHeaders
    <3>3. QED
      BY <3>1, <3>2
  <2>2. CASE Tick
    BY <2>2 DEF Tick
  <2>3. CASE UNCHANGED runtime
    BY <2>3 DEF runtime
  <2>4. QED
    BY <2>1, <2>2, <2>3
       DEF BreakerNext, breakerVars, runtime, RequestHeaders,
           RequestBody, Announce, Close
<1>3. QED
  BY <1>1, <1>2, BreakerTypes, PTL DEF BreakerSpec

(* No step makes a cooldown that is blocking last longer.                  *)
THEOREM CooldownOnlyShrinks == BreakerSpec => CooldownNeverExtended
<1>1. BreakerTypeOK /\ [BreakerNext]_breakerVars
        => [Blocking /\ circuit_open_until' # None
              => circuit_open_until' <= circuit_open_until]_breakerVars
  <2> SUFFICES ASSUME BreakerTypeOK,
       BreakerNext, Blocking, circuit_open_until' # None
               PROVE  circuit_open_until' <= circuit_open_until
    BY DEF breakerVars
  <2> USE WindowAssumption DEF BreakerTypeOK, Blocking, None
  <2>1. ASSUME NEW x \in Exchange, NEW status \in Statuses,
               ResponseHeaders(x, status)
        PROVE  circuit_open_until' <= circuit_open_until
    BY <2>1 DEF ResponseHeaders, ShouldTrip
  <2>2. CASE Tick
    BY <2>2 DEF Tick
  <2>3. CASE UNCHANGED circuit_open_until
    BY <2>3
  <2>4. QED
    BY <2>1, <2>2, <2>3
       DEF BreakerNext, RequestHeaders, RequestBody,
           Announce, Close
<1>2. QED
  BY <1>1, BreakerTypes, PTL DEF BreakerSpec, CooldownNeverExtended

(* An exchange holds at most one event, and only after its answer.         *)
EventsOfAnswered ==
  /\ IsFiniteSet(cooldown_event)
  /\ \A x \in cooldown_event : phase[x] \in {"answered_ok", "answered_error"}
  /\ trips = announced + Cardinality(cooldown_event)

(* Every opening of the circuit is announced exactly once.                 *)
THEOREM TripsAreAnnouncedOnce == BreakerSpec => []OneEventPerTrip
<1>1. BreakerInit => EventsOfAnswered
  BY FS_EmptySet DEF BreakerInit, EventsOfAnswered
<1>2. BreakerTypeOK /\ EventsOfAnswered /\ [BreakerNext]_breakerVars
     => EventsOfAnswered'
  <2> SUFFICES ASSUME BreakerTypeOK, EventsOfAnswered,
       [BreakerNext]_breakerVars
               PROVE  EventsOfAnswered'
    OBVIOUS
  <2> USE DEF BreakerTypeOK, EventsOfAnswered
  <2>0. Cardinality(cooldown_event) \in Nat
    BY FS_CardinalityType
  <2>1. ASSUME NEW x \in Exchange, RequestHeaders(x)
        PROVE EventsOfAnswered'
    BY <2>1 DEF RequestHeaders
  <2>2. ASSUME NEW x \in Exchange, NEW body \in Bodies,
               RequestBody(x, body)
        PROVE  EventsOfAnswered'
    BY <2>2 DEF RequestBody
  <2>3. ASSUME NEW x \in Exchange, NEW status \in Statuses,
               ResponseHeaders(x, status)
        PROVE  EventsOfAnswered'
    <3>1. x \notin cooldown_event
      BY <2>3 DEF ResponseHeaders
    <3>2. Cardinality(cooldown_event \cup {x}) = Cardinality(cooldown_event) + 1
          /\ IsFiniteSet(cooldown_event \cup {x})
      BY <3>1, FS_AddElement
    <3>3. phase' \in [Exchange -> Phases]
          /\ phase'[x] \in {"answered_ok", "answered_error"}
          /\ \A y \in Exchange \ {x} : phase'[y] = phase[y]
      BY <2>3 DEF ResponseHeaders, Phases
    <3>4. CASE UNCHANGED <<cooldown_event, trips>>
      BY <2>3, <3>1, <3>3, <3>4 DEF ResponseHeaders
    <3>5. CASE cooldown_event' = cooldown_event \cup {x} /\ trips' = trips + 1
      BY <2>0, <2>3, <3>2, <3>3, <3>5 DEF ResponseHeaders
    <3>6. QED
      BY <2>3, <3>4, <3>5 DEF ResponseHeaders
  <2>4. ASSUME NEW x \in Exchange, Announce(x) PROVE EventsOfAnswered'
    <3>1. Cardinality(cooldown_event \ {x}) = Cardinality(cooldown_event) - 1
          /\ IsFiniteSet(cooldown_event \ {x})
      BY <2>4, FS_RemoveElement DEF Announce
    <3>2. QED
      BY <2>0, <2>4, <3>1 DEF Announce
  <2>5. ASSUME NEW x \in Exchange, Close(x) PROVE EventsOfAnswered'
    BY <2>5 DEF Close
  <2>6. CASE Tick
    BY <2>6 DEF Tick
  <2>7. CASE UNCHANGED breakerVars
    BY <2>7 DEF breakerVars
  <2>8. QED
    BY <2>1, <2>2, <2>3, <2>4, <2>5, <2>6, <2>7 DEF BreakerNext
<1>3. EventsOfAnswered => OneEventPerTrip
  BY DEF EventsOfAnswered, OneEventPerTrip
<1>4. QED
  BY <1>1, <1>2, <1>3, BreakerTypes, PTL DEF BreakerSpec
=============================================================================
