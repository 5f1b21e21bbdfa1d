----------------------------- MODULE TimerList -----------------------------
(***************************************************************************)
(* sort_timer_lst of lst_timer.h: a doubly linked list of timers, sorted   *)
(* by expire.  Only the main thread uses it, so a call is one step; each   *)
(* is given as the function from the pointers before to those after.       *)
(*                                                                         *)
(* The fields of a timer that is not allocated are shown as NULL and 0; it *)
(* is WellLinked that says that no pointer leads to one.                   *)
(***************************************************************************)
EXTENDS Integers, Sequences, FiniteSets

CONSTANTS
  Timers,   \* the util_timer objects
  NULL,
  MaxTime   \* bound: the clock

ASSUME TimerListAssumption == NULL \notin Timers /\ MaxTime \in Nat

Times == 0..MaxTime
Pointers == Timers \cup {NULL}

VARIABLES
  list,    \* the pointers: fields head, tail, prev[t] and next[t]
  expire,  \* expire[t]
  live,    \* the timers that are allocated
  now,     \* time(NULL)
  fired    \* the timers whose cb_func the last step called, in order

vars == <<list, expire, live, now, fired>>

-----------------------------------------------------------------------------
(* add_timer(timer, lst_head) *)

\* The last node, from p on, that goes before a timer expiring at e.
Before(l, ex, p, e) ==
  LET find[n \in Timers] ==
        IF l.next[n] = NULL \/ e < ex[l.next[n]] THEN n ELSE find[l.next[n]]
  IN find[p]

\* Mutant: tail stays where it was.
LinkLastNoTail(l, p, t) == [l EXCEPT !.next = [@ EXCEPT ![p] = t, ![t] = NULL],
                                     !.prev = [@ EXCEPT ![t] = p]]
LinkLast(l, p, t) == [l EXCEPT !.next = [@ EXCEPT ![p] = t, ![t] = NULL],
                               !.prev = [@ EXCEPT ![t] = p],
                               !.tail = t]

LinkBetween(l, p, t, n) == [l EXCEPT !.next = [@ EXCEPT ![p] = t, ![t] = n],
                                     !.prev = [@ EXCEPT ![n] = t, ![t] = p]]

InsertFrom(l, ex, p, t) ==
  LET prev == Before(l, ex, p, ex[t])
  IN IF l.next[prev] = NULL THEN LinkLast(l, prev, t)
     ELSE LinkBetween(l, prev, t, l.next[prev])

-----------------------------------------------------------------------------
(* add_timer(timer), adjust_timer(timer), del_timer(timer) *)

AddFirst(l, t) == [l EXCEPT !.next[t] = l.head, !.prev[l.head] = t, !.head = t]

Added(l, ex, t) ==
  CASE l.head = NULL -> [l EXCEPT !.head = t, !.tail = t]
    [] l.head # NULL /\ ex[t] < ex[l.head] -> AddFirst(l, t)
    [] OTHER -> InsertFrom(l, ex, l.head, t)

DropHead(l) == [l EXCEPT !.head = l.next[l.head], !.prev[l.next[l.head]] = NULL]
DropTail(l) == [l EXCEPT !.tail = l.prev[l.tail], !.next[l.prev[l.tail]] = NULL]
Unlink(l, t) == [l EXCEPT !.next[l.prev[t]] = l.next[t], !.prev[l.next[t]] = l.prev[t]]

\* expire has its new value.  A timer that still expires before the next stays.
Adjusted(l, ex, t) ==
  IF l.next[t] = NULL \/ ex[t] < ex[l.next[t]] THEN l
  ELSE IF l.head = t
    THEN LET m == DropHead(l)
         IN  InsertFrom([m EXCEPT !.next[t] = NULL], ex, m.head, t)
    ELSE InsertFrom(Unlink(l, t), ex, l.next[t], t)

Deleted(l, t) ==
  CASE t = l.head /\ t = l.tail -> [l EXCEPT !.head = NULL, !.tail = NULL]
    [] t = l.head /\ t # l.tail -> DropHead(l)
    [] t # l.head /\ t = l.tail -> DropTail(l)
    [] OTHER -> Unlink(l, t)

-----------------------------------------------------------------------------
(* tick() *)

\* Mutant: a timer that expires now waits for the next tick.
dueLate(t) == now > expire[t]
due(t) == now >= expire[t]

\* The timers at the front of the list that are due.
DueFrom(l, p) ==
  LET walk[n \in Pointers] ==
        IF n = NULL THEN <<>> ELSE IF ~due(n) THEN <<>> ELSE <<n>> \o walk[l.next[n]]
  IN walk[p]

\* tail is left alone, also when the list becomes empty.
Ticked(l, s) ==
  LET h == l.next[s[Len(s)]]
  IN IF s = <<>> THEN l
     ELSE IF h = NULL THEN [l EXCEPT !.head = h]
     ELSE [l EXCEPT !.head = h, !.prev[h] = NULL]

-----------------------------------------------------------------------------
\* delete
Free(l, gone) ==
  /\ live' = live \ gone
  /\ expire' = [t \in Timers |-> IF t \in gone THEN 0 ELSE expire[t]]
  /\ list' = [l EXCEPT !.prev = [t \in Timers |-> IF t \in gone THEN NULL ELSE @[t]],
                       !.next = [t \in Timers |-> IF t \in gone THEN NULL ELSE @[t]]]

\* new util_timer, with its expire, and add_timer().
Add(t, e) ==
  /\ t \notin live /\ live' = live \cup {t}
  /\ expire' = [expire EXCEPT ![t] = e]
  /\ list' = Added(list, expire', t)
  /\ fired' = <<>> /\ UNCHANGED now

\* The server moves expire to a later time, then calls adjust_timer().
Adjust(t, e) ==
  /\ t \in live /\ expire[t] <= e
  /\ expire' = [expire EXCEPT ![t] = e]
  /\ list' = Adjusted(list, expire', t)
  /\ fired' = <<>> /\ UNCHANGED <<live, now>>

Delete(t) ==
  /\ t \in live
  /\ Free(Deleted(list, t), {t})
  /\ fired' = <<>> /\ UNCHANGED now

Tick ==
  /\ fired' = DueFrom(list, list.head)
  /\ Free(Ticked(list, fired'), {fired'[i] : i \in DOMAIN fired'})
  /\ UNCHANGED now

\* External: the clock.
Pass ==
  /\ now < MaxTime
  /\ now' = now + 1
  /\ fired' = <<>> /\ UNCHANGED <<list, expire, live>>

Init ==
  /\ list = [head |-> NULL, tail |-> NULL,
             prev |-> [t \in Timers |-> NULL], next |-> [t \in Timers |-> NULL]]
  /\ expire = [t \in Timers |-> 0]
  /\ live = {} /\ now = 0 /\ fired = <<>>

Next ==
  \/ \E t \in Timers, e \in Times : Add(t, e) \/ Adjust(t, e)
  \/ \E t \in Timers : Delete(t)
  \/ Tick \/ Pass

Spec == Init /\ [][Next]_vars

-----------------------------------------------------------------------------
(* Properties *)

\* The pointers are NULL or timers: no operation follows a NULL.
TypeOK ==
  /\ list \in [head : Pointers, tail : Pointers,
               prev : [Timers -> Pointers], next : [Timers -> Pointers]]
  /\ expire \in [Timers -> Times] /\ live \subseteq Timers
  /\ now \in Times /\ fired \in Seq(Timers)

\* Following the pointers f in S one gets out of each part of S: they make no ring.
Ends(f, S) == \A P \in SUBSET S : P # {} => \E t \in P : f[t] \notin P

\* head, tail, prev and next make one chain of exactly the live timers: head
\* has no prev, tail no next, prev undoes next, and none is in a ring apart from
\* the chain.  (tail is stale while the list is empty, and then nothing reads it.)
WellLinked ==
  /\ (list.head = NULL) = (live = {})
  /\ live # {} =>
       /\ list.head \in live /\ list.prev[list.head] = NULL
       /\ list.tail \in live /\ list.next[list.tail] = NULL
       /\ \A t \in live \ {list.tail} :
            list.next[t] \in live /\ list.prev[list.next[t]] = t
       /\ \A t \in live \ {list.head} :
            list.prev[t] \in live /\ list.next[list.prev[t]] = t
       /\ Ends(list.next, live)

\* No timer expires before the one in front of it.
Sorted == \A t \in live :
  list.next[t] # NULL => expire[t] <= expire[list.next[t]]

\* After any calls the pointers make one chain of the live timers, in the order of
\* expire: what add, adjust, delete and tick all rely on and none of them checks.
WellFormed == TypeOK /\ WellLinked /\ Sorted

\* Seen from outside the list is a set of timers with deadlines, and a tick
\* fires exactly those that are due, although it stops at the first that is not.
Abstract == INSTANCE TimerSet
  WITH deadline <- [t \in live |-> expire[t]],
       fired <- {fired[i] : i \in DOMAIN fired}
ImplementsTimerSet == Abstract!Spec
=============================================================================
