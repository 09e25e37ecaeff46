---------------------------- MODULE MCPersistence ----------------------------
(***************************************************************************)
(* Instances of Persistence for TLC.  Two turns of a session are the      *)
(* fewest for a recall to be overtaken and for retention to take one of    *)
(* two numbered turns; two sessions are the fewest for a request_id to be  *)
(* taken by a turn of another session.  The configurations differ in which *)
(* actors run: with all of them at once the instance is too large.         *)
(***************************************************************************)
EXTENDS Persistence

CONSTANTS s1, s2, t1, t2, t3, r1, r2, r3

\* t3 is of another session and has the request_id of t1.
TwoSessions == [t \in Turn |-> IF t = t3 THEN s2 ELSE s1]
Repeated == [t \in Turn |-> IF t = t2 THEN r2 ELSE r1]

\* One session, and a request_id for each turn.
OneSession == [t \in Turn |-> s1]
Own == [t \in Turn |-> IF t = t1 THEN r1 ELSE IF t = t2 THEN r2 ELSE r3]
=============================================================================
