------------------------- MODULE MCSessionLifecycle -------------------------
(***************************************************************************)
(* Instances of SessionLifecycle for TLC.  Two tasks and one session are   *)
(* the smallest race between a finalizer, a second request and the         *)
(* monitor.                                                                *)
(***************************************************************************)
EXTENDS SessionLifecycle, TLC

Symmetry == Permutations(Stream) \cup Permutations(Session)
=============================================================================
