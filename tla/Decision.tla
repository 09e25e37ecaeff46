------------------------------ MODULE Decision ------------------------------
(***************************************************************************)
(* decide (decision.rs): the state that status, guard, watch and the       *)
(* companion snapshot report for a session, from the facts each of them    *)
(* has.  Reasons, commands and links are left out.                         *)
(*                                                                         *)
(*   facts  block, cooldown, unavailable, observed, ended, mismatch :      *)
(*            BOOLEAN                                                      *)
(*          issues, signals : sets; a signal is [name, severity]           *)
(*          turns, failed, incomplete, unknown, anomalies : Nat            *)
(*          fill : Nat, in hundredths of a percent (no context status: 0)  *)
(*          estimate : "trusted", "untrusted" or "absent"                  *)
(***************************************************************************)
EXTENDS Integers, Sequences

CarefulContextPercent == 100 * 70
StopContextPercent == 100 * 85

NoFacts ==
  [block |-> FALSE, cooldown |-> FALSE, unavailable |-> FALSE,
   observed |-> FALSE, ended |-> FALSE, mismatch |-> FALSE, issues |-> {},
   signals |-> {}, turns |-> 0, failed |-> 0, incomplete |-> 0, unknown |-> 0,
   anomalies |-> 0, fill |-> 0, estimate |-> "absent"]

\* signal_rank, strongest first.
Severities == <<"blocked", "cooldown", "stop", "careful", "watching">>

\* signal_should_drive_decision: an ended session is not careful about money.
Drives(signal, facts) ==
  ~(facts.ended /\ signal.severity = "careful" /\ signal.name = "untrusted_pricing")

\* strongest_signal, as its severity; "none" without a driving signal.
Strongest(facts) ==
  LET present == {i \in 1..5 : \E s \in facts.signals :
                    s.severity = Severities[i] /\ Drives(s, facts)}
  IN IF present = {} THEN "none"
     ELSE Severities[CHOOSE i \in present : \A j \in present : i <= j]

\* The conditions of decide in the order of its returns, each with the state
\* it returns.
Ladder(f) ==
  LET strongest == Strongest(f) IN
  <<<<f.block, "Blocked">>,
    <<f.cooldown, "Cooldown">>,
    <<f.unavailable, "Watching">>,
    <<f.issues # {}, "Careful">>,
    <<~f.observed, "Watching">>,
    <<f.turns = 0 /\ ~f.ended, "Watching">>,
    <<strongest = "blocked", "Blocked">>,
    <<strongest = "cooldown", "Cooldown">>,
    <<strongest = "stop", "Stop">>,
    <<strongest = "careful", "Careful">>,
    <<f.failed > 0, "Stop">>,
    <<f.incomplete > 0, "Stop">>,
    <<f.anomalies > 0, "Stop">>,
    <<f.fill >= StopContextPercent, "Stop">>,
    <<f.fill >= CarefulContextPercent, "Careful">>,
    <<f.mismatch, "Careful">>,
    <<f.unknown > 0, "Careful">>,
    <<f.ended, "Ended">>,
    <<strongest = "watching", "Watching">>,
    <<f.estimate = "untrusted", "Careful">>,
    <<TRUE, "Healthy">>>>

Decide(f) ==
  LET ladder == Ladder(f)
      holds == {i \in DOMAIN ladder : ladder[i][1]}
  IN ladder[CHOOSE i \in holds : \A j \in holds : i <= j][2]
=============================================================================
