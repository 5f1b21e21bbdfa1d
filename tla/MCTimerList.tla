---------------------------- MODULE MCTimerList ----------------------------
(* Model checking of TimerList: the timers are interchangeable. *)
EXTENDS TimerList, TLC

TimerSymmetry == Permutations(Timers)
=============================================================================
