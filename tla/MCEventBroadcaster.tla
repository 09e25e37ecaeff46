------------------------- MODULE MCEventBroadcaster -------------------------
(***************************************************************************)
(* EventBroadcaster on a small instance: two publishers, so that sends can *)
(* overtake one another; a history and a channel shorter than the number   *)
(* of events, so that both overflow.  Clients do not interact.             *)
(***************************************************************************)
EXTENDS EventBroadcaster
=============================================================================
