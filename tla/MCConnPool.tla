----------------------------- MODULE MCConnPool -----------------------------
(* Model checking of ConnPool: the workers are interchangeable. *)
EXTENDS ConnPool, TLC

WorkerSymmetry == Permutations(Threads)
=============================================================================
