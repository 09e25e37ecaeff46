------------------------------- MODULE MCStack -------------------------------
\* Two processes, a reader beside the writer, and three blocks of columns: two
\* to add, one to add and one to drop, a table to drop.
EXTENDS Stack, TLC

Model == <<"turn_snapshots", "requested_model">>
Window == <<"turn_snapshots", "context_window_tokens">>
Name == <<"sessions", "display_name">>
Ratio == <<"sessions", "cache_hit_ratio">>
Outcomes == <<"tool_outcomes", "id">>

Tables == {"sessions", "turn_snapshots"}
New == {Model, Window, Name}
Old == {Ratio}
Gone == {Outcomes}
BlockList == <<{Model, Window}, {Name, Ratio}, {Outcomes}>>
OldDatabases == {{Ratio, Outcomes}}

Good == [docker |-> TRUE, daemon |-> TRUE, plugin |-> TRUE, standalone |-> FALSE,
         busy |-> {}, bundled |-> TRUE]
Hosts == {Good,
          [Good EXCEPT !.docker = FALSE, !.standalone = TRUE, !.bundled = FALSE],
          [Good EXCEPT !.daemon = FALSE], [Good EXCEPT !.docker = FALSE],
          [Good EXCEPT !.busy = {"prometheus"}], [Good EXCEPT !.busy = {"envoy"}]}
Contents == [c \in Cli |-> 1]
\* Two processes, or one beside a reader and a session.
Scopes ==
  [mode : [Cli -> {"doctor", "up", "run"}], readers : {{}}, sessions : {{}}] \cup
  [mode : {[c \in Cli |-> IF c = d THEN "up" ELSE "none"] : d \in Cli},
   readers : {Reader}, sessions : {Session}]
Symmetry == Permutations(Cli)
=============================================================================
