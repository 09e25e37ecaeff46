-------------------------------- MODULE Stack --------------------------------
(***************************************************************************)
(* The CLI's doctor, up and run bring up the local stack, several of them  *)
(* at once: compose, the containers of the core and of Envoy, the files    *)
(* Envoy is started from, and the ports of the host.  Starting the core    *)
(* starts the initialization of module Migration.                          *)
(*                                                                         *)
(* Docker and the containers are external: compose starts the core, Envoy  *)
(* once the core is healthy, and nothing restarts what died.  Envoy reads  *)
(* its bind-mounted file once, when it starts.  A probe does not answer for *)
(* what is not there, and may not answer for what is: it gives up after 2 s *)
(* and takes other answers for not ready.  A wait repeats it for 90 s.     *)
(***************************************************************************)
EXTENDS Migration

CONSTANTS
  Cli,          \* processes of the command line
  Scope,        \* bound: [mode, readers, sessions] to combine: what processes
                \* are called for, readers that connect, sessions that end
  Host,         \* [docker, daemon, plugin, standalone, busy, bundled] of hosts
  Build,        \* contents of the stack file a process would write
  MaxEdits,     \* bound: changes of the stack file by others
  MaxCrashes    \* bound: containers that die or are replaced

ASSUME StackBoundsAssumption == MaxEdits \in Nat /\ MaxCrashes \in Nat
ASSUME CliAssumption == "nobody" \notin Cli
ASSUME HostAssumption ==
  \A h \in Host : h.busy \subseteq {"envoy", "core", "grafana", "prometheus"}
ASSUME BuildAssumption == Build \in [Cli -> Nat]
ASSUME ScopeAssumption ==
  \A s \in Scope : s.readers \subseteq Reader /\ s.sessions \subseteq Session

VARIABLES
  host,           \* the host and its settings, which do not change
  scope,          \* what takes part in this behaviour
  core, envoy,    \* "down", "starting" (not yet listening), "up"
  file, loaded,   \* [content, serial] of Envoy's file; what Envoy has read
  step, mode,     \* per process: where it is, and what it was called for
  own,            \* serial of the file it composed with
  why,            \* what made it fail
  ahead, cutter,  \* ghost: who was starting the stack when its child began;
                  \* who restarted Envoy first under its child
  misled,         \* ghost: whose probe took what was there for not ready
  edits, crashes  \* ghost

containers == <<host, scope, core, envoy, file, loaded>>
cli == <<step, mode, own, why, ahead, cutter, misled>>
stackVars == <<containers, cli, edits, crashes>>
vars == <<migrationVars, stackVars>>

Nobody == "nobody"
Port == {"envoy", "core", "grafana", "prometheus"}
Starting == {"prerequisites", "file", "compose", "healthy", "restart", "restarting"}

Init ==
  /\ MigrationInit
  /\ host \in Host
  /\ core = "down" /\ envoy = "down"
  /\ file = [content |-> 0, serial |-> 0] /\ loaded = 0
  /\ step = [c \in Cli |-> "idle"]
  /\ scope \in Scope /\ mode = scope.mode
  /\ own = [c \in Cli |-> 0] /\ why = [c \in Cli |-> Nobody]
  /\ ahead = [c \in Cli |-> {}] /\ cutter = [c \in Cli |-> Nobody]
  /\ misled = {}
  /\ edits = 0 /\ crashes = 0

To(c, s) == step' = [step EXCEPT ![c] = s]
Fail(c, reason) == To(c, "failed") /\ why' = [why EXCEPT ![c] = reason]

-----------------------------------------------------------------------------
(* What the processes ask of the host.                                     *)

\* docker_compose_command.
ComposeFound == (host.docker /\ host.plugin) \/ host.standalone

\* start_stack asks for the daemon only if there is a docker command.
Prerequisites == ComposeFound /\ (host.docker => host.daemon)

\* port_state: nothing but the stack listens there.
Free(ports) == host.busy \cap ports = {}

\* run_doctor fails over these; a port of the stack's own is no problem.
DoctorPasses ==
  /\ host.docker /\ host.daemon /\ ComposeFound
  /\ Free({"envoy", "core", "grafana"})

-----------------------------------------------------------------------------
Doctor(c) ==
  /\ step[c] = "idle" /\ mode[c] = "doctor"
  /\ IF DoctorPasses THEN To(c, "passed") /\ UNCHANGED why ELSE Fail(c, "doctor")
  /\ UNCHANGED <<migrationVars, containers, mode, own, ahead, cutter, misled, edits, crashes>>

Launch(c) ==
  /\ To(c, "child")
  /\ ahead' = [ahead EXCEPT ![c] = {d \in Cli \ {c} : step[d] \in Starting}]
  /\ UNCHANGED <<why, own, cutter, misled>>

\* Mutation: a run also restarts an Envoy that has not read the latest file.
CheckFile(c) ==
  \/ /\ step[c] = "idle" /\ mode[c] = "run"
     /\ To(c, IF core = "up" THEN "check" ELSE "prerequisites")
     /\ UNCHANGED <<why, own, ahead, cutter, misled>>
  \/ /\ step[c] = "check"
     /\ IF envoy = "up" /\ loaded = file.serial THEN Launch(c)
        ELSE To(c, "prerequisites") /\ UNCHANGED <<why, own, ahead, cutter, misled>>

\* ensure_codex_stack_running: the core, then the route; or start_stack.
Check(c) ==
  LET there == IF step[c] = "idle" THEN core = "up" ELSE envoy = "up" IN
  /\ mode[c] = "run"
  /\ \/ /\ step[c] = "idle" /\ there /\ To(c, "check")
        /\ UNCHANGED <<why, own, ahead, cutter, misled>>
     \/ step[c] = "check" /\ there /\ Launch(c)
     \/ /\ step[c] \in {"idle", "check"} /\ To(c, "prerequisites")
        /\ misled' = IF there THEN misled \cup {c} ELSE misled
        /\ UNCHANGED <<why, own, ahead, cutter>>

\* start_stack.
Up(c) ==
  /\ step[c] = "idle" /\ mode[c] = "up"
  /\ To(c, "prerequisites")
  /\ UNCHANGED <<why, own, ahead, cutter, misled>>

CheckPrerequisites(c) ==
  /\ step[c] = "prerequisites"
  /\ IF Prerequisites THEN To(c, "file") /\ UNCHANGED why
     ELSE Fail(c, "prerequisites")
  /\ UNCHANGED <<own, ahead, cutter, misled>>

\* prepare_bundled_stack: the files are written if they differ.
Written(c) ==
  IF file.content = Build[c] THEN file
  ELSE [content |-> Build[c], serial |-> file.serial + 1]

\* resolve_compose_file: those of the repository, or the bundled ones.
ResolveFile(c) ==
  /\ step[c] = "file"
  /\ file' = IF host.bundled THEN Written(c) ELSE file
  /\ own' = [own EXCEPT ![c] = file'.serial]
  /\ To(c, "compose")
  /\ UNCHANGED <<migrationVars, host, scope, core, envoy, loaded, mode, why, ahead,
                 cutter, misled, edits, crashes>>

\* compose up, as far as the core: it starts, or is built anew and recreated.
ComposeCore(c) ==
  /\ step[c] = "compose" /\ Free(Port)
  /\ To(c, "healthy")
  /\ \/ /\ core = "down" /\ StartCore
        /\ core' = "starting"
        /\ UNCHANGED crashes
     \/ core # "down" /\ UNCHANGED <<core, crashes, migrationVars>>
     \/ /\ core # "down" /\ ~host.bundled /\ crashes < MaxCrashes /\ StartCore
        /\ core' = "starting" /\ crashes' = crashes + 1
  /\ UNCHANGED <<host, scope, envoy, file, loaded, mode, own, why, ahead, cutter,
                 misled, edits>>

\* The rest of compose up: Envoy, if it is not running.
ComposeEnvoy(c) ==
  /\ step[c] = "healthy" /\ core = "up"
  /\ To(c, "restart")
  /\ envoy' = "up"
  /\ loaded' = IF envoy = "down" THEN file.serial ELSE loaded
  /\ UNCHANGED <<migrationVars, host, scope, core, file, mode, own, why, ahead,
                 cutter, misled, edits, crashes>>

\* A port is taken, or an image or a dependency fails.
ComposeFails(c) ==
  /\ \/ step[c] = "compose" /\ Fail(c, IF ~Free(Port) THEN "ports" ELSE "compose")
     \/ step[c] \in {"healthy", "restart"} /\ Fail(c, "compose")
  /\ UNCHANGED <<own, ahead, cutter, misled>>

\* compose restart envoy: its streams end, then it reads its file again.
StopEnvoy(c) ==
  /\ step[c] = "restart" /\ envoy = "up"
  /\ To(c, "restarting")
  /\ envoy' = "down"
  /\ cutter' = [d \in Cli |-> IF step[d] = "child" /\ cutter[d] = Nobody THEN c ELSE cutter[d]]
  /\ UNCHANGED <<migrationVars, host, scope, core, file, loaded, mode, own, why, ahead,
                 misled, edits, crashes>>

\* Mutation: compose up has read the file, a running Envoy is left alone.
LeaveEnvoy(c) ==
  /\ step[c] = "restarting"
  /\ To(c, "health")
  /\ envoy' = "up"
  /\ UNCHANGED <<migrationVars, host, scope, core, file, loaded, mode, own, why, ahead,
                 cutter, misled, edits, crashes>>

StartEnvoy(c) ==
  /\ step[c] = "restarting"
  /\ To(c, "health")
  /\ envoy' = "up" /\ loaded' = file.serial
  /\ UNCHANGED <<migrationVars, host, scope, core, file, mode, own, why, ahead,
                 cutter, misled, edits, crashes>>

\* wait_for_health and wait_for_codex_proxy_route_ready.
Wait(c) ==
  \/ /\ step[c] = "health" /\ core = "up" /\ To(c, "route")
     /\ UNCHANGED <<why, own, ahead, cutter, misled>>
  \/ /\ step[c] = "route" /\ envoy = "up"
     /\ IF mode[c] = "up" THEN To(c, "up") /\ UNCHANGED <<why, own, ahead, cutter, misled>>
        ELSE Launch(c)
  \/ /\ step[c] \in {"health", "route"} /\ Fail(c, step[c])
     /\ UNCHANGED <<own, ahead, cutter, misled>>

ChildEnds(c) ==
  /\ step[c] = "child" /\ To(c, "done")
  /\ UNCHANGED <<why, own, ahead, cutter, misled>>

Process(c) ==
  \/ Doctor(c) \/ ResolveFile(c) \/ ComposeCore(c) \/ ComposeEnvoy(c)
  \/ StopEnvoy(c) \/ StartEnvoy(c)
  \/ /\ \/ Check(c) \/ Up(c) \/ CheckPrerequisites(c) \/ ComposeFails(c)
        \/ Wait(c) \/ ChildEnds(c)
     /\ UNCHANGED <<migrationVars, containers, mode, edits, crashes>>

-----------------------------------------------------------------------------
\* http_server listens, whatever the DB writer is doing.
Listen ==
  /\ core = "starting" /\ core' = "up"
  /\ UNCHANGED <<migrationVars, host, scope, envoy, file, loaded, cli, edits, crashes>>

CoreCrash ==
  /\ core # "down" /\ crashes < MaxCrashes
  /\ core' = "down" /\ crashes' = crashes + 1
  /\ StopCore
  /\ UNCHANGED <<host, scope, envoy, file, loaded, cli, edits>>

EnvoyCrash ==
  /\ envoy = "up" /\ crashes < MaxCrashes
  /\ envoy' = "down" /\ crashes' = crashes + 1
  /\ UNCHANGED <<migrationVars, host, scope, core, file, loaded, cli, edits>>

\* Another checkout of the repository, or another version of the CLI.
Edit ==
  /\ edits < MaxEdits
  /\ edits' = edits + 1
  /\ file' = [content |-> file.content + 1, serial |-> file.serial + 1]
  /\ UNCHANGED <<migrationVars, host, scope, core, envoy, loaded, cli, crashes>>

Core ==
  /\ core # "down"
  /\ \/ \E c \in Conn : Initialize(c)
     \/ \E r \in scope.readers : OpenReader(r)
     \/ \E s \in scope.sessions : EndSession(s)
     \/ WriteDiagnosis
  /\ UNCHANGED stackVars

Next == (\E c \in Cli : Process(c)) \/ Listen \/ Core \/ CoreCrash \/ EnvoyCrash \/ Edit

Spec == Init /\ [][Next]_vars

-----------------------------------------------------------------------------
(* What up says is so: Envoy has the file this process composed with or a  *)
(* later one, although a running Envoy never looks at its file and the     *)
(* route answers with the old one as well.  And what doctor passed fails   *)
(* over no prerequisite but the port of Prometheus, which it does not try. *)
UpIsTrue ==
  \A c \in Cli :
    /\ step[c] = "up" => loaded >= own[c]
    /\ why[c] \in {"prerequisites", "ports"} /\ DoctorPasses => host.busy = {"prometheus"}

(* Envoy is not restarted under the child of a run by just any other: the  *)
(* first to do so was asked to by an up, was already starting the stack    *)
(* when the child began, found something that had died or was replaced, or *)
(* probed what was there and got no answer.                                *)
OnlyEarlierStartsCut ==
  \A c \in Cli : cutter[c] # Nobody =>
    \/ mode[cutter[c]] = "up" \/ cutter[c] \in ahead[c] \/ crashes > 0
    \/ cutter[c] \in misled
=============================================================================
