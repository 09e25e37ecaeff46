----------------------------- MODULE GuardPolicy -----------------------------
(***************************************************************************)
(* The local guard policy (guard_policy.rs): what evaluate_guard_policy    *)
(* makes of a policy and of the evidence about one session.  A limit of 0  *)
(* is a limit that is not set; percentages are counted in hundredths,      *)
(* dollars in tenths of a cent, tokens in whole numbers; messages are left  *)
(* out.                                                                    *)
(*                                                                         *)
(*   policy    [block : [Rule -> Nat], warn : [WarnRule -> Nat]]           *)
(*   source    where a policy is read: [from : {"file", "env"},            *)
(*              readable : BOOLEAN, policy : a policy of which some limits  *)
(*              may be Garbled]                                             *)
(*   evidence  [observed, priced, cooldown : BOOLEAN,                      *)
(*              measures : [Rule -> Nat]]                                  *)
(***************************************************************************)
EXTENDS Integers, Sequences

\* The rules, in the order in which they are evaluated.
RuleOrder == <<"tokens", "cost", "context", "failed", "incomplete", "unknown",
               "anomalies", "mismatch">>
Rule == {RuleOrder[i] : i \in 1..8}
WarnRule == Rule \ {"tokens", "cost"}

\* GuardPolicy::default(): nothing is configured.
NoPolicy == [block |-> [r \in Rule |-> 0], warn |-> [r \in WarnRule |-> 0]]

\* A limit that is no number, or no count, or negative.
Garbled == -1
Understood(limits) ==
  \A r \in Rule : limits.block[r] # Garbled /\ (r \in WarnRule => limits.warn[r] # Garbled)
Limit(value) == IF value > 0 THEN value ELSE 0

\* load_guard_policy_from_path: a file that cannot be read, or of which one
\* limit cannot, leaves the default policy and an issue behind; guarding fails
\* open.
LoadFromPath(source) ==
  IF source.readable /\ Understood(source.policy)
    THEN [policy |-> source.policy, issues |-> {}]
    ELSE [policy |-> NoPolicy, issues |-> {"policy_load_failed"}]

\* Each variable of the environment is read by itself; what cannot be read is
\* not set, and nothing is said of it.
LoadFromEnv(source) ==
  [policy |-> [block |-> [r \in Rule |-> Limit(source.policy.block[r])],
               warn |-> [r \in WarnRule |-> Limit(source.policy.warn[r])]],
   issues |-> {}]

\* A file, if one is named, is all that counts.
Load(source) ==
  IF source.from = "file" THEN LoadFromPath(source) ELSE LoadFromEnv(source)

\* The local estimate can enforce a dollar budget only if every turn of the
\* session was priced with trust.
Enforceable(e, r) == r = "cost" => e.priced

Reaches(limit, value) == limit > 0 /\ value >= limit

\* set_block_if_none: the first rule whose limit is reached is the block.
BlockOf(policy, e) ==
  LET reached == {i \in 1..8 : e.observed /\ Enforceable(e, RuleOrder[i])
                    /\ Reaches(policy.block[RuleOrder[i]], e.measures[RuleOrder[i]])}
  IN IF reached = {} THEN "none"
     ELSE RuleOrder[CHOOSE i \in reached : \A j \in reached : i <= j]

\* A dollar budget that cannot be enforced is an issue, whatever was
\* observed; so is every warn limit that is reached.
IssuesOf(policy, e) ==
  (IF policy.block["cost"] > 0 /\ ~e.priced THEN {"untrusted_pricing"} ELSE {})
  \cup {r \in WarnRule : e.observed /\ Reaches(policy.warn[r], e.measures[r])}

\* evaluate_guard_policy for the next request: an active cooldown is all it
\* reports.
Evaluate(policy, e) ==
  IF e.cooldown
    THEN [cooldown |-> TRUE, block |-> "none", issues |-> {}]
    ELSE [cooldown |-> FALSE, block |-> BlockOf(policy, e),
          issues |-> IssuesOf(policy, e)]
=============================================================================
