------------------------------ MODULE MCRunGate ------------------------------
(***************************************************************************)
(* Two sessions, one of them asked for, and two turns: of one session they *)
(* overlap, overtake one another, or one is stored while the other is to   *)
(* come; of two they compete for the one pane and the one place of the     *)
(* replay.                                                                 *)
(***************************************************************************)
EXTENDS RunGate

CONSTANTS s1, s2

\* A prompt after options and a watcher, a session that is resumed, an option
\* that the wrapper does not know of, a terminal session, a call for help and a
\* child that is not codex.
Commands ==
  {<<"codex", "exec", "--sandbox", "text", "--watch", "--", "prompt">>,
   <<"codex", "e", "resume", "text">>,
   <<"codex", "exec", "--json", "--new", "text", "prompt">>,
   <<"codex", "prompt">>,
   <<"codex", "exec", "--help">>,
   <<"make", "exec">>}

\* Bound: the fault is kept for where it leaves a trace.  A crash comes once a
\* turn was on its way to the database, a connection is lost once it brought one.
FaultsLeaveTraces ==
  faults' # faults => turns # <<>> /\ (UNCHANGED core => heard # {})

\* To a client that asks for no session one is as good as the other.
FirstIsWatched == mode = "recent" /\ turns # <<>> => turns[1] = Watched
=============================================================================
