---------------------------- MODULE MCUserTable ----------------------------
(* Model checking of UserTable: workers, names and passwords are each          *)
(* interchangeable.                                                            *)
EXTENDS UserTable, TLC

Symmetry ==
  Permutations(Workers) \cup Permutations(Names) \cup Permutations(Passwords)
=============================================================================
