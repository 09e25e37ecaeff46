------------------------------ MODULE MCReports ------------------------------
\* Turns small enough for TLC: one full, one cut off, one failed and one odd.
\* Full and Cut together reuse exactly a tenth of their input, Full and Full none.
EXTENDS Reports, TLC

Full == [status |-> "completed", input |-> 500, cached |-> 0, output |-> 100,
         reasoning |-> 10, cost |-> 2, priced |-> TRUE, fill |-> 8000,
         mismatch |-> FALSE, anomalies |-> 0, tools |-> 0]
Cut == [Full EXCEPT !.status = "incomplete", !.cached = 100, !.fill = 3000, !.tools = 1]
Failed == [Cut EXCEPT !.status = "failed", !.reasoning = 64, !.tools = 0]
Odd == [Cut EXCEPT !.status = "unknown", !.mismatch = TRUE, !.anomalies = 1]

Turns == {Full, Cut, Failed, Odd}
Symmetry == Permutations(Reader)
=============================================================================
