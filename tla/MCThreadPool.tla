---------------------------- MODULE MCThreadPool ----------------------------
(* Model checking of ThreadPool: the workers are interchangeable. *)
EXTENDS ThreadPool, TLC

WorkerSymmetry == Permutations(Workers)
=============================================================================
