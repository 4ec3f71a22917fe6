-------------------------- MODULE MCRequestLifecycle --------------------------
(* Two overlapping operations: one begins a usage session, the other sends. *)
EXTENDS RequestLifecycle, TLC

CONSTANTS r1, r2

OneSends == (r1 :> 0) @@ (r2 :> 1)
=============================================================================
