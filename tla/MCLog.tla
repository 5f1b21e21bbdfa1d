------------------------------- MODULE MCLog -------------------------------
(* Model checking of Log: the writers are interchangeable. *)
EXTENDS Log, TLC

WriterSymmetry == Permutations(Writers)
=============================================================================
