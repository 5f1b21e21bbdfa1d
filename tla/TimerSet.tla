------------------------------ MODULE TimerSet ------------------------------
(***************************************************************************)
(* What sort_timer_lst promises to the server: a set of timers, each with  *)
(* a deadline.  A tick runs the callbacks of all the timers that are due,  *)
(* and of no other, and takes those out.                                   *)
(***************************************************************************)
EXTENDS Naturals, Functions

CONSTANTS Timers, MaxTime

VARIABLES
  deadline,  \* a function from the timers in the set to their deadlines
  now,
  fired      \* the timers whose callbacks the last step ran

vars == <<deadline, now, fired>>
Times == 0..MaxTime

Set(t, e) == [u \in DOMAIN deadline \cup {t} |-> IF u = t THEN e ELSE deadline[u]]

Add(t, e) ==
  /\ t \notin DOMAIN deadline
  /\ deadline' = Set(t, e)
  /\ fired' = {} /\ UNCHANGED now

Adjust(t, e) ==
  /\ t \in DOMAIN deadline /\ deadline[t] <= e
  /\ deadline' = Set(t, e)
  /\ fired' = {} /\ UNCHANGED now

Delete(t) ==
  /\ t \in DOMAIN deadline
  /\ deadline' = Restrict(deadline, DOMAIN deadline \ {t})
  /\ fired' = {} /\ UNCHANGED now

Due == {t \in DOMAIN deadline : deadline[t] <= now}

Tick ==
  /\ fired' = Due
  /\ deadline' = Restrict(deadline, DOMAIN deadline \ Due)
  /\ UNCHANGED now

Pass == now < MaxTime /\ now' = now + 1 /\ fired' = {} /\ UNCHANGED deadline

Init == deadline = [t \in {} |-> 0] /\ now = 0 /\ fired = {}

Next ==
  \/ \E t \in Timers, e \in Times : Add(t, e) \/ Adjust(t, e)
  \/ \E t \in Timers : Delete(t)
  \/ Tick \/ Pass

Spec == Init /\ [][Next]_vars
=============================================================================
