------------------------------ MODULE RunPlan ------------------------------
(***************************************************************************)
(* What codex-blackbox run makes of the words after it: whether a watcher  *)
(* starts, whether the child is sent through the proxy, whether its run    *)
(* must leave evidence, and what its prompt is thought to be.  Of a text   *)
(* only this is kept: it is the "prompt" of the child or it is not.        *)
(***************************************************************************)
EXTENDS Integers, Sequences

Program == {"codex", "make"}
ExecName   == {"exec", "e"}
\* A resumed or reviewed session, and a prompt that is read from stdin.
Unprompted == {"resume", "review", "help", "-"}
HelpOption == {"--help", "-h", "--version", "-V"}
\* The options that codex_exec_option_consumes_value knows take the next word;
\* "--search" takes none, and "--new" takes one that the list does not know of.
ValueOption == {"-c", "--model", "--sandbox"}
Option == HelpOption \cup ValueOption \cup {"--search", "--new", "--model=", "--json", "--watch"}
Word == Program \cup ExecName \cup Unprompted \cup Option \cup {"--", "prompt", "text"}

Has(words, some) == \E i \in DOMAIN words : words[i] \in some

\* extract_run_watch: --watch counts wherever it stands.
WantsWatch(words) == Has(words, {"--watch"})
ChildCommand(words) == SelectSeq(words, LAMBDA w : w # "--watch")

RequiresObservation(args) == Has(args, ExecName) /\ ~Has(args, HelpOption)

ConsumesValue(w) == w \in ValueOption

\* The first word after exec that is neither an option nor the value of one.
PromptHint(args) ==
  LET at == CHOOSE i \in DOMAIN args :
              args[i] \in ExecName /\ \A j \in 1..(i - 1) : args[j] \notin ExecName
      From[i \in 1..(Len(args) + 2)] ==
        IF i > Len(args) THEN "none"
        ELSE IF ConsumesValue(args[i]) THEN From[i + 2]
        ELSE IF args[i] \in Option \cup {"--"} THEN From[i + 1]
        ELSE IF args[i] \in Unprompted THEN "none"
        ELSE args[i]
  IN IF Has(args, ExecName) THEN From[at + 1] ELSE "none"

\* The overrides follow the first exec, or come first; --json is dropped, so
\* that the session id is printed.
ChildArgs(args) ==
  LET kept == SelectSeq(args, LAMBDA w : w # "--json")
      at == IF Has(kept, ExecName)
            THEN CHOOSE i \in DOMAIN kept :
                   kept[i] \in ExecName /\ \A j \in 1..(i - 1) : kept[j] \notin ExecName
            ELSE 0
  IN SubSeq(kept, 1, at) \o <<"overrides">> \o SubSeq(kept, at + 1, Len(kept))

\* build_child_run_plan of a command that is not empty.
BuildPlan(words) ==
  LET command == ChildCommand(words)
      args == Tail(command)
      codex == Head(command) = "codex"
  IN [watch    |-> WantsWatch(words),
      proxied  |-> codex,
      args     |-> IF codex THEN ChildArgs(args) ELSE args,
      closed   |-> codex /\ Has(args, ExecName),
      observed |-> codex /\ RequiresObservation(args),
      hint     |-> IF codex /\ RequiresObservation(args) THEN PromptHint(args) ELSE "none"]

\* The child asks its model: it is codex, and is not asked for help only.
AsksModel(plan) == plan.proxied /\ ~Has(plan.args, HelpOption)
=============================================================================
