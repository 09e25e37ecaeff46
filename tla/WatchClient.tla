---------------------------- MODULE WatchClient ----------------------------
(***************************************************************************)
(* codex-blackbox watch: one process that reconnects as long as it lives   *)
(* and keeps what it knows.  Without --tmux it judges the sessions it      *)
(* hears of (facts) and fetches a review of each at most once (reviewed);  *)
(* with --tmux it listens to all sessions and keeps a pane for each.       *)
(***************************************************************************)
EXTENDS WatchFeed, WatchTracker

CONSTANT MaxPanes   \* --tmux-max-panes

ASSUME MaxPanesAssumption == MaxPanes \in Nat

VARIABLES
  facts,           \* DecisionSessionTracker
  reviewed,        \* rendered_postmortems
  panes,           \* --tmux: what is shown for each session with a pane
  heard, twice,    \* ghosts: turns heard on this connection, ... again
  notices,         \* ghost: the other types of event heard on this connection
  met              \* ghost: what was ever heard, without repetition

judging == <<facts, reviewed>>
hearing == <<heard, twice, notices, met>>
News(e) == [session |-> e.session, type |-> e.type, status |-> e.status]
client == <<judging, panes, hearing>>

Pane == [turn : Nat, ended : BOOLEAN]
NewPane == [turn |-> 0, ended |-> FALSE]

ClientTypeOK ==
  /\ DOMAIN facts = Session
  /\ \A s \in Session : facts[s].turns \in Nat /\ facts[s].ended \in BOOLEAN
  /\ reviewed \subseteq Session
  /\ DOMAIN panes \subseteq Session /\ Cardinality(DOMAIN panes) <= MaxPanes
  /\ \A s \in DOMAIN panes : panes[s] \in Pane

ClientInit ==
  /\ facts = [s \in Session |-> NoFacts] /\ reviewed = {}
  /\ panes = <<>>
  /\ heard = {} /\ twice = {} /\ notices = {} /\ met = {}

Next1 == Head(Pending)

Hear(e) ==
  /\ heard' = heard \cup ({e.turn} \ {0})
  /\ twice' = twice \cup ({e.turn} \cap heard)
Remember(e) ==
  /\ notices' = IF e.turn = 0 THEN notices \cup {News(e)} ELSE notices
  /\ met' = met \cup {News(e)}

\* Mutation: a SessionStart begins the facts anew.
JudgeAnew(e) ==
  /\ facts' = [facts EXCEPT ![e.session] =
                 Track(IF e.type = "SessionStart" THEN NoFacts ELSE @, e)]
  /\ reviewed' = IF e.type = "PostmortemReady" THEN reviewed \cup {e.session}
                                               ELSE reviewed

\* The tracker, and maybe_render_watch_postmortem.
Judge(e) ==
  /\ facts' = [facts EXCEPT ![e.session] = Track(@, e)]
  /\ reviewed' = IF e.type = "PostmortemReady" THEN reviewed \cup {e.session}
                                               ELSE reviewed

\* connect_and_stream.
HearPlainly ==
  /\ mode # "recent" /\ Send
  /\ Judge(Next1) /\ Hear(Next1) /\ Remember(Next1)
  /\ UNCHANGED panes

-----------------------------------------------------------------------------
(* The tmux orchestrator.                                                  *)

\* What a pane shows: its session's last turn, and whether it is over.
Updated(pane, e) ==
  CASE e.type = "CodexTurnSummary" -> [pane EXCEPT !.turn = e.turn]
    [] e.type = "SessionEnd" -> [pane EXCEPT !.ended = TRUE]
    [] OTHER -> pane

\* Panes are never given up.
RoomForPane == Cardinality(DOMAIN panes) < MaxPanes

\* handle_event and ensure_pane_exists; a SessionEnd makes no pane.
HearInPanes ==
  /\ mode = "recent" /\ Send
  /\ Hear(Next1)
  /\ LET e == Next1 s == e.session IN
     \/ /\ s \in DOMAIN panes
        /\ panes' = [panes EXCEPT ![s] = Updated(@, e)]
     \/ /\ s \notin DOMAIN panes /\ RoomForPane /\ e.type # "SessionEnd"
        /\ panes' = [x \in DOMAIN panes \cup {s} |->
                      IF x = s THEN Updated(NewPane, e) ELSE panes[x]]
     \/ /\ s \notin DOMAIN panes
        /\ e.type = "SessionEnd" \/ ~RoomForPane
        /\ UNCHANGED panes
  /\ UNCHANGED <<judging, notices, met>>

\* A new connection hears everything anew.
Reconnect ==
  /\ Subscribe
  /\ heard' = {} /\ twice' = {} /\ notices' = {}
  /\ UNCHANGED <<judging, panes, met>>

Listen ==
  \/ (LoadReplay \/ OpenStream) /\ UNCHANGED client
  \/ Reconnect \/ HearPlainly \/ HearInPanes

-----------------------------------------------------------------------------
TurnsIn(events) == {events[i].turn : i \in DOMAIN events}

\* Once a persisted replay was loaded, nothing falls between it and the live
\* events: every turn of its sessions that is stored, or was published since the
\* client subscribed, was heard, is on its way or is about to be published.
\* And a turn comes twice on a connection only when it was stored before the
\* replay was read and published after the client had subscribed.
ReplayMeetsLive ==
  stage = "streaming" =>
    /\ \A t \in Stored \cup (late \ {0}) :
         turns[t] \in reach /\ Wanted(Summary(turns[t], t))
           => t \in heard \cup TurnsIn(Pending) \cup {k.turn : k \in tasks}
    /\ twice \cup (heard \cap TurnsIn(Pending)) \subseteq replayed \cap late

\* Turns of a filtered stream have a SessionStart, however long the session's
\* own has expired.  It comes before them, or with the turns that overlap with
\* the first.  Only a session that ended meanwhile, which the stream tells, or
\* one that a turn without a prompt opened, has none.
HeaderComesFirst ==
  LET Told(type, events) == \E e \in events : e.type = type /\ e.session = Watched
  IN mode = "session" /\ stage = "streaming" /\ heard # {} =>
       \/ Told("SessionStart", notices \cup ToSet(Pending))
       \/ Told("SessionEnd", notices \cup ToSet(Pending))
       \/ begun[Watched][TRUE] > 0 \/ \E k \in tasks : k.session = Watched /\ k.start
       \/ Watched \in mute

\* What a process says of a session depends on what it has heard, not on how
\* often: a reconnection or a replay raises no alarm and clears none.
RepeatsChangeNothing ==
  mode # "recent" => \A s \in Session :
    LET mine == {e \in met : e.session = s}
        Said(type, status) == \E e \in mine : e.type = type /\ e.status = status
    IN Decide(facts[s]) =
         IF Said("CodexTurnSummary", "failed") THEN "Stop"
         ELSE IF \E e \in mine : e.type \in {"SessionEnd", "PostmortemReady"} THEN "Ended"
         ELSE IF \E e \in mine : e.type = "CodexTurnSummary" THEN "Healthy" ELSE "Watching"

\* When nothing is on the way, a pane shows the last turn there is of its
\* session, whatever was replayed and in which order turns were heard; unless
\* the turn it shows was itself published after a later one.
PanesShowTheLast ==
  stage = "streaming" /\ Pending = <<>> /\ tasks = {} =>
    \A s \in DOMAIN panes \cap reach :
      \A t \in Stored \cup late : t # 0 /\ turns[t] = s =>
        t <= panes[s].turn \/ panes[s].turn \in overtaken

(* A client shows each session of the feed as one: under its header, and   *)
(* with its last state in its pane.                                        *)
SessionsAreShownWhole == HeaderComesFirst /\ PanesShowTheLast
=============================================================================
