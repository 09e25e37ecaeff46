---------------------------- MODULE MCEvaluation ----------------------------
\* Turns and policies small enough for TLC.
EXTENDS Evaluation, TLC

Fine == [status |-> "completed", input |-> 500, cached |-> 0, output |-> 100,
         reasoning |-> 64, cost |-> 498, priced |-> TRUE, fill |-> 3000,
         mismatch |-> FALSE, anomalies |-> 0, tools |-> 1]
Failed == [Fine EXCEPT !.status = "failed", !.fill = 7500, !.tools = 0]
\* 89.95%, which a report rounds to 90%, for $0.504, which it rounds to $0.50.
Full == [Fine EXCEPT !.fill = 8995, !.cost = 504]
Fallback == [Fine EXCEPT !.mismatch = TRUE, !.priced = FALSE, !.cost = 0, !.fill = 5004]
Odd == [Fine EXCEPT !.status = "unknown", !.fill = 8495, !.anomalies = 2,
         !.cached = 600]
Cut == [Fine EXCEPT !.status = "incomplete", !.tools = 0]

Turns == {Fine, Full, Failed, Cut, Fallback, Odd}

Limits(block, warn) ==
  [from |-> "file", readable |-> TRUE,
   policy |-> [block |-> [r \in Rule |-> IF r \in DOMAIN block THEN block[r] ELSE 0],
               warn |-> [r \in WarnRule |-> IF r \in DOMAIN warn THEN warn[r] ELSE 0]]]
Unset == [r \in {} |-> 0]
Policies ==
  {[from |-> "file", readable |-> FALSE, policy |-> NoPolicy],
   Limits([r \in {"tokens", "context"} |-> IF r = "tokens" THEN 600 ELSE Garbled], Unset),
   [Limits([r \in {"context", "failed"} |-> IF r = "context" THEN 8500 ELSE Garbled],
           [r \in {"unknown"} |-> Garbled]) EXCEPT !.from = "env"],
   Limits([r \in {"tokens", "mismatch"} |-> IF r = "tokens" THEN 1100 ELSE 1], Unset),
   Limits([r \in {"cost"} |-> 499], Unset), Limits([r \in {"cost"} |-> 502], Unset),
   Limits([r \in {"context"} |-> 5003], Unset),
   Limits([r \in {"cost", "failed", "unknown"} |-> IF r = "cost" THEN 1000 ELSE 2],
          [r \in {"failed"} |-> 1]),
   Limits([r \in {"context", "anomalies"} |-> IF r = "context" THEN 9000 ELSE 3], Unset)}
Symmetry == Permutations(Stream)
=============================================================================
