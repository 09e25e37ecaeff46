-------------------------- MODULE MCCircuitBreaker --------------------------
(***************************************************************************)
(* Instances of CircuitBreaker for TLC.  Four exchanges and a threshold of *)
(* two let one pair of errors open the circuit while the other two are     *)
(* stragglers admitted before it opened, or newcomers after it expired.    *)
(***************************************************************************)
EXTENDS CircuitBreaker
=============================================================================
