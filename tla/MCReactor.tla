----------------------------- MODULE MCReactor -----------------------------
(* Model checking of Reactor: the workers of the pool are interchangeable. *)
EXTENDS Reactor, TLC

WorkerSymmetry == Permutations(Workers)
=============================================================================
