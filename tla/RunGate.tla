------------------------------ MODULE RunGate ------------------------------
(***************************************************************************)
(* codex-blackbox run: for a child that will ask its model something, the  *)
(* wrapper notes the last request row, starts a watcher, runs the child,   *)
(* stops the watcher, and lets a successful child pass only if core shows  *)
(* a request that is newer than that row and matches what is known of the  *)
(* child.  The core stores a turn some time after the child has its answer. *)
(* The watcher of --watch is a client like any other and shares nothing    *)
(* with its wrapper.                                                       *)
(***************************************************************************)
EXTENDS WatchClient, RunPlan

CONSTANTS
  Command,       \* the words that run may be given
  Prompted,      \* the sessions whose turns have the child's prompt
  MaxPolls       \* bound: polls in the 5 s of the post-check

ASSUME PromptedAssumption == Watched \in Prompted /\ Prompted \subseteq Session
ASSUME CommandAssumption ==
  \A c \in Command : c \in Seq(Word) /\ ChildCommand(c) # <<>> /\ Head(ChildCommand(c)) \in Program

VARIABLES
  step,          \* where run_child_command is
  plan,          \* what it made of its words
  before,        \* latest_request_rowid of the pre-check
  scope,         \* what the post-check matches by
  polls, exit,   \* polls so far; the exit code
  own,           \* ghost: turns of the child's session since the pre-check
  settled        \* ghost: at the pre-check no turn of its session was on the way

gate == <<step, plan, before, scope, polls, exit, own, settled>>
runVars == <<feedVars, client, gate>>

NoPlan == [observed |-> FALSE]

RunTypeOK ==
  /\ FeedTypeOK /\ ClientTypeOK
  /\ step \in {"start", "checked", "child", "check", "done"}
  /\ plan = NoPlan \/ \E c \in Command : plan = BuildPlan(c)
  /\ before \in 0..Len(rows) /\ polls \in 0..MaxPolls /\ exit \in {0, 1, 2}
  /\ scope \in {"session", "prompt", "any"}
  /\ own \subseteq DOMAIN turns /\ settled \in BOOLEAN

RunInit ==
  /\ FeedInit /\ ClientInit
  /\ step = "start" /\ plan = NoPlan /\ before = 0 /\ scope = "any" /\ polls = 0 /\ exit = 0
  /\ own = {} /\ settled = FALSE

\* The session of the child is Watched: a resumed one may have earlier turns.
Child == Watched
Running == step \in {"child", "check"}

\* The stack is up when the pre-check comes; a failing one ends the run.
Fail == step' = "done" /\ exit' = 1

\* load_codex_observation_snapshot: the rows after a row that match.
Matching(after) ==
  {i \in (after + 1)..Len(rows) :
     LET s == turns[rows[i]] IN
     CASE scope = "session" -> s = Child
       [] scope = "prompt" -> plan.hint = "prompt" /\ s \in Prompted
       [] scope = "any" -> TRUE}

\* handle_codex_observations: whether a request counts; it may also fail.
Observed == Matching(before) # {}

\* Every turn of the child's session so far is stored, or died with the core.
Settled ==
  /\ begun[Child][TRUE] = 0 /\ begun[Child][FALSE] = 0
  /\ \A t \in DOMAIN turns : turns[t] = Child =>
       t \in Stored \/ ~\E i \in DOMAIN queue : queue[i].turn = t

\* The plan, which a dry run only prints; the stack of a proxied child; and
\* fetch_codex_observation_snapshot, if the child must be observed.
PreCheckAfter(row) ==
  /\ step = "start" /\ mode = "run"
  /\ \E c \in Command : plan' = BuildPlan(c)
  /\ \/ step' = "done" /\ UNCHANGED <<before, settled, exit>>
     \/ plan'.proxied /\ Fail /\ UNCHANGED <<before, settled>>
     \/ /\ step' = "checked"
        /\ before' = IF plan'.observed THEN row ELSE before
        /\ settled' = (plan'.observed /\ Settled)
        /\ UNCHANGED exit
  /\ UNCHANGED <<feedVars, client, scope, polls, own>>

\* Mutation: the row the observation starts after is left at 0.
PreCheckFromStart == PreCheckAfter(0)

PreCheck == PreCheckAfter(Len(rows))

\* start_watcher, and spawning the child.
Launch ==
  /\ step = "checked"
  /\ \/ step' = "child" /\ UNCHANGED exit
     \/ Fail
  /\ UNCHANGED <<feedVars, client, plan, before, scope, polls, own, settled>>

\* The answer to a request ends.  From the pre-check on, nothing but the child
\* asks in its session; an answer may end after the child has.
AnswerEnds(s, missed, prompted) ==
  /\ s = Child /\ step # "start" => Running /\ AsksModel(plan)
  /\ Enter(s, missed, prompted)
  /\ UNCHANGED <<client, gate>>

RecordAnswer(s, start) ==
  /\ Finalize(s, start)
  /\ own' = IF s = Child /\ step # "start" THEN own \cup {Len(turns')} ELSE own
  /\ UNCHANGED <<client, step, plan, before, scope, polls, exit, settled>>

\* The child exits, with or without a session id on its stderr; the watcher
\* is stopped.  Only a successful child that must be observed is.
ChildExits ==
  /\ step = "child"
  /\ \/ step' = "done" /\ exit' = 2 /\ UNCHANGED scope
     \/ ~plan.observed /\ step' = "done" /\ UNCHANGED <<scope, exit>>
     \/ /\ plan.observed /\ step' = "check"
        /\ scope' \in {"session", IF plan.hint # "none" THEN "prompt" ELSE "any"}
        /\ UNCHANGED exit
  /\ UNCHANGED <<feedVars, client, plan, before, polls, own, settled>>

Poll ==
  /\ step = "check" /\ polls < MaxPolls
  /\ \/ Observed /\ step' = "done" /\ UNCHANGED <<polls, exit>>
     \/ ~Observed /\ polls' = polls + 1 /\ UNCHANGED <<step, exit>>
     \/ Fail /\ UNCHANGED polls
  /\ UNCHANGED <<feedVars, client, plan, before, scope, own, settled>>

GiveUp ==
  /\ step = "check" /\ polls = MaxPolls
  /\ Fail
  /\ UNCHANGED <<feedVars, client, plan, before, scope, polls, own, settled>>

RunNext ==
  \/ (Commit \/ Expire \/ CoreCrash) /\ UNCHANGED <<client, gate>>
  \/ \E k \in tasks : (PublishStart(k) \/ Publish(k)) /\ UNCHANGED <<client, gate>>
  \/ \E s \in Session : (EndSession(s) \/ Timeout(s)) /\ UNCHANGED <<client, gate>>
  \/ \E s \in Session, missed, prompted \in BOOLEAN : AnswerEnds(s, missed, prompted)
  \/ \E s \in Session, start \in BOOLEAN : RecordAnswer(s, start)
  \/ Listen /\ UNCHANGED gate
  \/ Disconnect /\ UNCHANGED <<client, gate>>
  \/ PreCheck \/ Launch \/ ChildExits \/ Poll \/ GiveUp

RunSpec == RunInit /\ [][RunNext]_runVars

-----------------------------------------------------------------------------
\* What the post-check looks for is the child's: its turns are all newer than
\* the row of the pre-check; once one of them is stored the check finds it,
\* unless a word that is no prompt was taken for one; and a run that passes for
\* a known session has had a turn of its own stored, unless one of that session
\* was still on its way to the database when the run began.
GateJudgesTheChild ==
  /\ \A i \in DOMAIN rows : rows[i] \in own => i > before
  /\ step = "check" /\ own \cap Stored # {} /\ ~(scope = "prompt" /\ plan.hint # "prompt")
       => Matching(before) # {}
  /\ step = "done" /\ exit = 0 /\ scope = "session" /\ settled
       => own \cap Stored # {}
=============================================================================
