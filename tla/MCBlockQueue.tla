---------------------------- MODULE MCBlockQueue ----------------------------
(* Model checking of BlockQueue. *)
EXTENDS BlockQueue
=============================================================================
