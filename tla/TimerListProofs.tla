-------------------------- MODULE TimerListProofs --------------------------
(***************************************************************************)
(* Proofs about TimerList: after any calls the pointers make one sorted    *)
(* chain of the live timers, and the list is the set of timers that the    *)
(* server takes it for, for any number of timers and any times.            *)
(*                                                                         *)
(* Facts about all nodes of a chain are shown by its end: a set of nodes   *)
(* for which one fails has a node whose next is not in it.                 *)
(***************************************************************************)
EXTENDS TimerList, Functions, TLAPS

LEMMA Null == NULL \notin Timers /\ MaxTime \in Nat
BY TimerListAssumption

-----------------------------------------------------------------------------
(* How pointers that make no ring may change *)

LEMMA EndsPart ==
  ASSUME NEW S, NEW T \in SUBSET S, NEW f, NEW g, Ends(f, S), \A x \in T : g[x] = f[x]
  PROVE  Ends(g, T)
BY DEF Ends

\* t, which nothing points to, points anywhere else.
LEMMA EndsSource ==
  ASSUME NEW S, NEW t, t \notin S, NEW f, NEW g, Ends(f, S),
         g[t] # t, \A x \in S : g[x] = f[x] /\ f[x] # t
  PROVE  Ends(g, S \cup {t})
<1> SUFFICES ASSUME NEW P \in SUBSET (S \cup {t}), P # {}
             PROVE  \E x \in P : g[x] \notin P
  BY DEF Ends
<1>1. CASE P = {t}  BY <1>1
<1>2. CASE P # {t}
  <2>1. P \ {t} \in SUBSET S /\ P \ {t} # {}  BY <1>2
  <2> PICK x \in P \ {t} : f[x] \notin P \ {t}  BY <2>1 DEF Ends
  <2> QED  BY <2>1
<1> QED  BY <1>1, <1>2

\* t comes between p and what p points to.
LEMMA EndsInsert ==
  ASSUME NEW S, NEW t, t \notin S, NEW p \in S, NEW f, NEW g, Ends(f, S),
         \A x \in S : f[x] # t,
         g[p] = t, g[t] = f[p], \A x \in S \ {p} : g[x] = f[x]
  PROVE  Ends(g, S \cup {t})
<1> SUFFICES ASSUME NEW P \in SUBSET (S \cup {t}), P # {}
             PROVE  \E x \in P : g[x] \notin P
  BY DEF Ends
<1>1. CASE P = {t}  BY <1>1
<1>2. CASE P # {t}
  <2>1. P \ {t} \in SUBSET S /\ P \ {t} # {}  BY <1>2
  <2> PICK x \in P \ {t} : f[x] \notin P \ {t}  BY <2>1 DEF Ends
  <2>2. x \in S /\ f[x] \notin P  BY <2>1
  <2>3. CASE x # p  BY <2>2, <2>3
  <2>4. CASE x = p /\ t \in P  BY <2>2, <2>4
  <2>5. CASE x = p /\ t \notin P  BY <2>5
  <2> QED  BY <2>3, <2>4, <2>5
<1> QED  BY <1>1, <1>2

\* What pointed to t points to what t pointed to.
LEMMA EndsRemove ==
  ASSUME NEW S, NEW t \in S, NEW f, NEW g, Ends(f, S),
         \A x \in S \ {t} : g[x] = IF f[x] = t THEN f[t] ELSE f[x]
  PROVE  Ends(g, S \ {t})
<1> SUFFICES ASSUME NEW P \in SUBSET (S \ {t}), P # {}
             PROVE  \E x \in P : g[x] \notin P
  BY DEF Ends
<1>1. CASE \E x \in P : f[x] = t
  <2> PICK x \in P : f[x] = t  BY <1>1
  <2>1. CASE f[t] \notin P  BY <2>1
  <2>2. CASE f[t] \in P
    <3>1. P \cup {t} \in SUBSET S /\ P \cup {t} # {}  OBVIOUS
    <3> PICK y \in P \cup {t} : f[y] \notin P \cup {t}  BY <3>1 DEF Ends
    <3>2. y \in P /\ f[y] # t  BY <2>2
    <3>3. g[y] = f[y]  BY <3>2
    <3> QED  BY <3>2, <3>3
  <2> QED  BY <2>1, <2>2
<1>2. CASE \A x \in P : f[x] # t
  <2> PICK x \in P : f[x] \notin P  BY DEF Ends
  <2> QED  BY <1>2
<1> QED  BY <1>1, <1>2

-----------------------------------------------------------------------------
(* The loops follow next from a node until one at which they stop.  What each *)
(* computes is the solution of an equation, which is shown to have one.       *)

Find(l, ex, e) ==
  LET find[n \in Timers] ==
        IF l.next[n] = NULL \/ e < ex[l.next[n]] THEN n ELSE find[l.next[n]]
  IN find
Finds(f, l, ex, e) ==
  f = [n \in Timers |->
        IF l.next[n] = NULL \/ e < ex[l.next[n]] THEN n ELSE f[l.next[n]]]

\* The nodes that next leads to from n, up to the first one in Stop.
Closed(C, nx, Stop) == \A c \in C \ Stop : nx[c] \in C
Reach(n, nx, Stop) ==
  {x \in Timers : \A C \in SUBSET Timers : Closed(C, nx, Stop) /\ n \in C => x \in C}
SomeOf(S) == CHOOSE x : x \in S

LEMMA FindExists ==
  ASSUME NEW nx, NEW Stop \in SUBSET Timers, \A n \in Timers \ Stop : nx[n] \in Timers
  PROVE  \E f : f = [n \in Timers |-> IF n \in Stop THEN n ELSE f[nx[n]]]
<1> DEFINE R(n) == Reach(n, nx, Stop)
           f == [n \in Timers |-> SomeOf(R(n) \cap Stop)]
<1>1. ASSUME NEW n \in Stop PROVE f[n] = n
  <2>1. Closed({n}, nx, Stop)  BY <1>1 DEF Closed
  <2>2. R(n) = {n}  BY <1>1, <2>1 DEF Reach
  <2>3. R(n) \cap Stop = {n}  BY <1>1, <2>2
  <2>4. SomeOf({n}) = n  BY DEF SomeOf
  <2> QED  BY <2>3, <2>4
<1>2. ASSUME NEW n \in Timers \ Stop PROVE f[n] = f[nx[n]]
  <2>1. nx[n] \in Timers  OBVIOUS
  <2>2. ASSUME NEW x \in R(n), x # n PROVE x \in R(nx[n])
    <3> SUFFICES ASSUME NEW C \in SUBSET Timers, Closed(C, nx, Stop), nx[n] \in C
                 PROVE  x \in C
      BY DEF Reach
    <3>1. Closed(C \cup {n}, nx, Stop)  BY DEF Closed
    <3> QED  BY <2>2, <3>1 DEF Reach
  <2>3. ASSUME NEW x \in R(nx[n]) PROVE x \in R(n)
    <3> SUFFICES ASSUME NEW C \in SUBSET Timers, Closed(C, nx, Stop), n \in C
                 PROVE  x \in C
      BY DEF Reach
    <3>1. nx[n] \in C  BY DEF Closed
    <3> QED  BY <3>1 DEF Reach
  <2> HIDE DEF R
  <2>4. R(n) \cap Stop = R(nx[n]) \cap Stop  BY <2>2, <2>3
  <2> QED  BY <2>1, <2>4
<1> HIDE DEF f
<1>3. f = [n \in Timers |-> IF n \in Stop THEN n ELSE f[nx[n]]]
  <2>1. f = [n \in Timers |-> f[n]]  BY DEF f
  <2> QED  BY <1>1, <1>2, <2>1
<1> QED  BY <1>3

LEMMA FindDef ==
  ASSUME NEW l, NEW ex, NEW e, l.next \in [Timers -> Pointers]
  PROVE  Finds(Find(l, ex, e), l, ex, e)
<1> DEFINE Stop == {n \in Timers : l.next[n] = NULL \/ e < ex[l.next[n]]}
<1>1. \A n \in Timers \ Stop : l.next[n] \in Timers  BY DEF Pointers
<1>2. PICK f : f = [n \in Timers |-> IF n \in Stop THEN n ELSE f[l.next[n]]]
  <2>1. Stop \in SUBSET Timers  OBVIOUS
  <2> HIDE DEF Stop
  <2> QED  BY <1>1, <2>1, FindExists
<1>3. Finds(f, l, ex, e)
  <2>1. \A n \in Timers : n \in Stop <=> l.next[n] = NULL \/ e < ex[l.next[n]]  OBVIOUS
  <2> HIDE DEF Stop
  <2> QED  BY <1>2, <2>1 DEF Finds
<1> DEFINE g == CHOOSE h : Finds(h, l, ex, e)
<1>4. Finds(g, l, ex, e)  BY <1>3
<1>5. g = Find(l, ex, e)  BY DEF Find, Finds
<1> QED  BY <1>4, <1>5

Walk(l) ==
  LET walk[n \in Pointers] ==
        IF n = NULL THEN <<>> ELSE IF ~due(n) THEN <<>> ELSE <<n>> \o walk[l.next[n]]
  IN walk
Walks(f, l) ==
  f = [n \in Pointers |->
        IF n = NULL THEN <<>> ELSE IF ~due(n) THEN <<>> ELSE <<n>> \o f[l.next[n]]]

\* A part of the walk: g solves the equation on the nodes D.
Part(D, g, nx, Stop) ==
  /\ D \in SUBSET Pointers /\ Closed(D, nx, Stop)
  /\ g = [n \in D |-> IF n \in Stop THEN <<>> ELSE <<n>> \o g[nx[n]]]
ValueAt(v, n, nx, Stop) == \E D, g : Part(D, g, nx, Stop) /\ n \in D /\ v = g[n]

LEMMA PartsAgree ==
  ASSUME NEW nx, NEW Stop \in SUBSET Pointers, NULL \in Stop, Ends(nx, Timers),
         NEW D, NEW g, NEW E, NEW h, Part(D, g, nx, Stop), Part(E, h, nx, Stop),
         NEW n \in D \cap E
  PROVE  g[n] = h[n]
<1> DEFINE Bad == {m \in D \cap E : g[m] # h[m]}
<1>1. Bad \cap Stop = {}
  BY DEF Part
<1>2. Bad \in SUBSET Timers  BY <1>1 DEF Part, Pointers
<1> SUFFICES ASSUME Bad # {} PROVE FALSE  OBVIOUS
<1> PICK m \in Bad : nx[m] \notin Bad  BY <1>2 DEF Ends
<1>3. m \in D /\ m \in E /\ m \notin Stop /\ g[m] # h[m]  BY <1>1
<1>4. nx[m] \in D /\ nx[m] \in E  BY <1>3 DEF Part, Closed
<1>5. g[m] = <<m>> \o g[nx[m]] /\ h[m] = <<m>> \o h[nx[m]]  BY <1>3 DEF Part
<1>6. g[nx[m]] = h[nx[m]]  BY <1>4
<1> QED  BY <1>3, <1>5, <1>6

LEMMA PartsEverywhere ==
  ASSUME NEW nx, NEW Stop \in SUBSET Pointers, NULL \in Stop, Ends(nx, Timers),
         nx \in [Timers -> Pointers], NEW n \in Pointers
  PROVE  \E D, g : Part(D, g, nx, Stop) /\ n \in D
<1> DEFINE Reached(m) == \E D, g : Part(D, g, nx, Stop) /\ m \in D
           Bad == {m \in Timers : ~Reached(m)}
<1>1. ASSUME NEW m \in Stop PROVE Reached(m)
  <2> DEFINE g == [x \in {m} |-> <<>>]
  <2>1. Part({m}, g, nx, Stop)
    <3>1. \A x \in {m} : x \in Stop  BY <1>1
    <3>2. g = [x \in {m} |-> IF x \in Stop THEN <<>> ELSE <<x>> \o g[nx[x]]]  BY <3>1
    <3>3. {m} \in SUBSET Pointers /\ Closed({m}, nx, Stop)  BY <3>1 DEF Closed
    <3> QED  BY <3>2, <3>3 DEF Part
  <2> QED  BY <2>1
<1>2. ASSUME NEW m \in Timers, m \notin Stop, Reached(nx[m]) PROVE Reached(m)
  <2> PICK D, g : Part(D, g, nx, Stop) /\ nx[m] \in D  BY <1>2
  <2>1. CASE m \in D  BY <2>1
  <2>2. CASE m \notin D
    <3> DEFINE E == D \cup {m}
               h == [x \in E |-> IF x \in D THEN g[x] ELSE <<m>> \o g[nx[m]]]
    <3>1. E \in SUBSET Pointers /\ Closed(E, nx, Stop)  BY DEF Part, Closed, Pointers
    <3>2. ASSUME NEW x \in E
          PROVE  h[x] = IF x \in Stop THEN <<>> ELSE <<x>> \o h[nx[x]]
      <4>1. CASE x \in D /\ x \in Stop  BY <4>1 DEF Part
      <4>2. CASE x \in D /\ x \notin Stop
        <5>1. nx[x] \in D  BY <4>2 DEF Part, Closed
        <5>2. g[x] = <<x>> \o g[nx[x]]  BY <4>2 DEF Part
        <5> QED  BY <4>2, <5>1, <5>2
      <4>3. CASE x \notin D
        <5>1. x = m /\ h[x] = <<m>> \o g[nx[m]] /\ h[nx[m]] = g[nx[m]]  BY <3>2, <4>3
        <5> QED  BY <1>2, <5>1
      <4> QED  BY <4>1, <4>2, <4>3
    <3>3. h = [x \in E |-> h[x]]  OBVIOUS
    <3> HIDE DEF h
    <3>4. h = [x \in E |-> IF x \in Stop THEN <<>> ELSE <<x>> \o h[nx[x]]]  BY <3>2, <3>3
    <3>5. Part(E, h, nx, Stop)  BY <3>1, <3>4 DEF Part
    <3> QED  BY <3>5
  <2> QED  BY <2>1, <2>2
<1> HIDE DEF Reached
<1>3. Bad = {}
  <2> SUFFICES ASSUME Bad # {} PROVE FALSE  OBVIOUS
  <2> PICK m \in Bad : nx[m] \notin Bad  BY DEF Ends
  <2>1. nx[m] \in Timers \/ nx[m] \in Stop  BY DEF Pointers
  <2>2. Reached(nx[m])  BY <1>1, <2>1
  <2> QED  BY <1>1, <1>2, <2>2
<1>4. Reached(n)  BY <1>1, <1>3 DEF Pointers
<1> QED  BY <1>4 DEF Reached

LEMMA WalkExists ==
  ASSUME NEW nx, NEW Stop \in SUBSET Pointers, NULL \in Stop, Ends(nx, Timers),
         nx \in [Timers -> Pointers]
  PROVE  \E f : f = [n \in Pointers |-> IF n \in Stop THEN <<>> ELSE <<n>> \o f[nx[n]]]
<1> DEFINE f == [n \in Pointers |-> CHOOSE v : ValueAt(v, n, nx, Stop)]
<1>1. ASSUME NEW D, NEW g, Part(D, g, nx, Stop), NEW n \in D PROVE f[n] = g[n]
  <2>1. n \in Pointers  BY <1>1 DEF Part
  <2>2. ValueAt(g[n], n, nx, Stop)  BY <1>1 DEF ValueAt
  <2>3. ValueAt(f[n], n, nx, Stop)  BY <2>1, <2>2
  <2>4. \A v : ValueAt(v, n, nx, Stop) => v = g[n]  BY <1>1, PartsAgree DEF ValueAt
  <2> QED  BY <2>3, <2>4
<1>2. f = [n \in Pointers |-> f[n]]  OBVIOUS
<1> HIDE DEF f
<1>3. ASSUME NEW n \in Pointers
      PROVE  f[n] = IF n \in Stop THEN <<>> ELSE <<n>> \o f[nx[n]]
  <2> PICK D, g : Part(D, g, nx, Stop) /\ n \in D  BY PartsEverywhere
  <2>1. f[n] = g[n]  BY <1>1
  <2>2. g[n] = IF n \in Stop THEN <<>> ELSE <<n>> \o g[nx[n]]  BY DEF Part
  <2>3. n \notin Stop => f[nx[n]] = g[nx[n]]
    <3>1. n \notin Stop => nx[n] \in D  BY DEF Part, Closed
    <3> QED  BY <1>1, <3>1
  <2> QED  BY <2>1, <2>2, <2>3
<1>4. f = [n \in Pointers |-> IF n \in Stop THEN <<>> ELSE <<n>> \o f[nx[n]]]
  BY <1>2, <1>3
<1> QED  BY <1>4

LEMMA WalkDef ==
  ASSUME NEW l, l.next \in [Timers -> Pointers], Ends(l.next, Timers)
  PROVE  Walks(Walk(l), l)
<1> DEFINE Stop == {n \in Pointers : n = NULL \/ ~due(n)}
<1>1. Stop \in SUBSET Pointers /\ NULL \in Stop  BY DEF Pointers
<1>2. PICK f : f = [n \in Pointers |-> IF n \in Stop THEN <<>> ELSE <<n>> \o f[l.next[n]]]
  <2> HIDE DEF Stop
  <2> QED  BY <1>1, WalkExists
<1>3. Walks(f, l)
  <2>1. \A n \in Pointers : n \in Stop <=> n = NULL \/ ~due(n)  OBVIOUS
  <2> HIDE DEF Stop
  <2> QED  BY <1>2, <2>1 DEF Walks
<1> DEFINE g == CHOOSE h : Walks(h, l)
<1>4. Walks(g, l)  BY <1>3
<1>5. g = Walk(l)  BY DEF Walk, Walks
<1> QED  BY <1>4, <1>5

-----------------------------------------------------------------------------
(* Chains *)

\* The nodes S are one chain from head to tail.
Chain(l, S) ==
  /\ l.head \in S /\ l.prev[l.head] = NULL
  /\ l.tail \in S /\ l.next[l.tail] = NULL
  /\ \A t \in S \ {l.tail} : l.next[t] \in S /\ l.prev[l.next[t]] = t
  /\ \A t \in S \ {l.head} : l.prev[t] \in S /\ l.next[l.prev[t]] = t
  /\ Ends(l.next, S) /\ Ends(l.prev, S)

Ordered(l, ex, S) == \A t \in S : l.next[t] # NULL => ex[t] <= ex[l.next[t]]

\* r is l with t behind p, or in front if p is NULL.
FollowerOf(l, p) == IF p = NULL THEN l.head ELSE l.next[p]
PutBehind(l, r, S, p, t) ==
  /\ r.head = IF p = NULL THEN t ELSE l.head
  /\ r.tail = IF FollowerOf(l, p) = NULL THEN t ELSE l.tail
  /\ r.next[t] = FollowerOf(l, p) /\ r.prev[t] = p
  /\ \A x \in S : r.next[x] = IF x = p THEN t ELSE l.next[x]
  /\ \A x \in S : r.prev[x] = IF x = FollowerOf(l, p) THEN t ELSE l.prev[x]

\* r is l with t at a place that its time in ex fits.
PutInOrder(l, r, S, ex, t) == \E p \in S \cup {NULL} :
  /\ PutBehind(l, r, S, p, t)
  /\ p # NULL => ex[p] <= ex[t]
  /\ FollowerOf(l, p) # NULL => ex[t] <= ex[FollowerOf(l, p)]

\* r is l without t.
TakenOut(l, r, S, t) ==
  /\ r.head = IF t = l.head THEN l.next[t] ELSE l.head
  /\ r.tail = IF t = l.tail THEN l.prev[t] ELSE l.tail
  /\ \A x \in S \ {t} : r.next[x] = IF l.next[x] = t THEN l.next[t] ELSE l.next[x]
  /\ \A x \in S \ {t} : r.prev[x] = IF l.prev[x] = t THEN l.prev[t] ELSE l.prev[x]

LEMMA Neighbours ==
  ASSUME NEW S \in SUBSET Timers, NEW l, Chain(l, S)
  PROVE  /\ \A x \in S : l.next[x] \in S \cup {NULL} /\ (l.next[x] = NULL <=> x = l.tail)
         /\ \A x \in S : l.prev[x] \in S \cup {NULL} /\ (l.prev[x] = NULL <=> x = l.head)
         /\ \A x, y \in S : l.next[x] = y <=> l.prev[y] = x
         /\ NULL \notin S
BY Null DEF Chain

LEMMA PutChain ==
  ASSUME NEW S \in SUBSET Timers, NEW l, NEW r, Chain(l, S),
         NEW t \in Timers, t \notin S, NEW p \in S \cup {NULL}, PutBehind(l, r, S, p, t)
  PROVE  Chain(r, S \cup {t})
<1> DEFINE n == FollowerOf(l, p)
<1>1. /\ \A x \in S : l.next[x] \in S \cup {NULL} /\ (l.next[x] = NULL <=> x = l.tail)
      /\ \A x \in S : l.prev[x] \in S \cup {NULL} /\ (l.prev[x] = NULL <=> x = l.head)
      /\ \A x, y \in S : l.next[x] = y <=> l.prev[y] = x
      /\ NULL \notin S /\ t # NULL
      /\ l.head \in S /\ l.tail \in S
  BY Neighbours, Null DEF Chain
<1>2. n \in S \cup {NULL}  BY <1>1 DEF FollowerOf
<1>3. /\ p = NULL => n = l.head
      /\ p \in S => n = l.next[p]
      /\ n = NULL => p = l.tail
      /\ n \in S => l.prev[n] = p
  BY <1>1 DEF FollowerOf
<1>4. /\ r.head = IF p = NULL THEN t ELSE l.head
      /\ r.tail = IF n = NULL THEN t ELSE l.tail
      /\ r.next[t] = n /\ r.prev[t] = p
      /\ \A x \in S : r.next[x] = IF x = p THEN t ELSE l.next[x]
      /\ \A x \in S : r.prev[x] = IF x = n THEN t ELSE l.prev[x]
  BY DEF PutBehind
<1> HIDE DEF n
<1>5. /\ r.head \in S \cup {t} /\ r.prev[r.head] = NULL
      /\ r.tail \in S \cup {t} /\ r.next[r.tail] = NULL
  BY <1>1, <1>2, <1>3, <1>4
<1>6. \A x \in (S \cup {t}) \ {r.tail} : r.next[x] \in S \cup {t} /\ r.prev[r.next[x]] = x
  BY <1>1, <1>2, <1>3, <1>4
<1>7. \A x \in (S \cup {t}) \ {r.head} : r.prev[x] \in S \cup {t} /\ r.next[r.prev[x]] = x
  BY <1>1, <1>2, <1>3, <1>4
<1>8. \A x \in S : l.next[x] # t /\ l.prev[x] # t  BY <1>1
<1>9. Ends(l.next, S) /\ Ends(l.prev, S)  BY DEF Chain
<1>10. Ends(r.next, S \cup {t})
  <2>1. CASE p = NULL
    <3>1. \A x \in S : r.next[x] = l.next[x] /\ l.next[x] # t  BY <1>1, <1>4, <1>8, <2>1
    <3>2. r.next[t] # t  BY <1>1, <1>2, <1>4
    <3> QED  BY <1>9, <3>1, <3>2, EndsSource
  <2>2. CASE p \in S
    <3>1. r.next[p] = t /\ r.next[t] = l.next[p] /\ \A x \in S \ {p} : r.next[x] = l.next[x]
      BY <1>3, <1>4, <2>2
    <3> QED  BY <1>8, <1>9, <2>2, <3>1, EndsInsert
  <2> QED  BY <2>1, <2>2
<1>11. Ends(r.prev, S \cup {t})
  <2>1. CASE n = NULL
    <3>1. \A x \in S : r.prev[x] = l.prev[x] /\ l.prev[x] # t  BY <1>1, <1>4, <1>8, <2>1
    <3>2. r.prev[t] # t  BY <1>1, <1>4
    <3> QED  BY <1>9, <3>1, <3>2, EndsSource
  <2>2. CASE n \in S
    <3>1. r.prev[n] = t /\ r.prev[t] = l.prev[n] /\ \A x \in S \ {n} : r.prev[x] = l.prev[x]
      BY <1>3, <1>4, <2>2
    <3> QED  BY <1>8, <1>9, <2>2, <3>1, EndsInsert
  <2> QED  BY <1>2, <2>1, <2>2
<1> QED  BY <1>5, <1>6, <1>7, <1>10, <1>11 DEF Chain

LEMMA TakeChain ==
  ASSUME NEW S \in SUBSET Timers, NEW l, NEW r, Chain(l, S),
         NEW t \in S, S \ {t} # {}, TakenOut(l, r, S, t)
  PROVE  Chain(r, S \ {t})
<1>1. /\ \A x \in S : l.next[x] \in S \cup {NULL} /\ (l.next[x] = NULL <=> x = l.tail)
      /\ \A x \in S : l.prev[x] \in S \cup {NULL} /\ (l.prev[x] = NULL <=> x = l.head)
      /\ \A x, y \in S : l.next[x] = y <=> l.prev[y] = x
      /\ NULL \notin S
      /\ l.head \in S /\ l.tail \in S
  BY Neighbours DEF Chain
<1>2. Ends(l.next, S) /\ Ends(l.prev, S)  BY DEF Chain
<1>3. l.next[t] # t /\ l.prev[t] # t
  <2>1. {t} \in SUBSET S /\ {t} # {}  OBVIOUS
  <2> QED  BY <1>2, <2>1 DEF Ends
<1>4. ~(t = l.head /\ t = l.tail)
  <2> SUFFICES ASSUME t = l.head, t = l.tail PROVE FALSE  OBVIOUS
  <2> PICK x \in S \ {t} : l.next[x] \notin S \ {t}  BY <1>2 DEF Ends
  <2>1. l.next[x] = t  BY <1>1
  <2> QED  BY <1>1, <2>1
<1>5. /\ r.head = IF t = l.head THEN l.next[t] ELSE l.head
      /\ r.tail = IF t = l.tail THEN l.prev[t] ELSE l.tail
      /\ \A x \in S \ {t} : r.next[x] = IF l.next[x] = t THEN l.next[t] ELSE l.next[x]
      /\ \A x \in S \ {t} : r.prev[x] = IF l.prev[x] = t THEN l.prev[t] ELSE l.prev[x]
  BY DEF TakenOut
<1>6. r.head \in S \ {t} /\ r.prev[r.head] = NULL
  BY <1>1, <1>3, <1>4, <1>5
<1>7. r.tail \in S \ {t} /\ r.next[r.tail] = NULL
  BY <1>1, <1>3, <1>4, <1>5
<1>8. ASSUME NEW x \in (S \ {t}) \ {r.tail}
      PROVE  r.next[x] \in S \ {t} /\ r.prev[r.next[x]] = x
  BY <1>1, <1>3, <1>4, <1>5
<1>9. ASSUME NEW x \in (S \ {t}) \ {r.head}
      PROVE  r.prev[x] \in S \ {t} /\ r.next[r.prev[x]] = x
  BY <1>1, <1>3, <1>4, <1>5
<1>10. Ends(r.next, S \ {t}) /\ Ends(r.prev, S \ {t})
  BY <1>2, <1>5, EndsRemove
<1> QED  BY <1>6, <1>7, <1>8, <1>9, <1>10 DEF Chain

-----------------------------------------------------------------------------
(* Order *)

LEMMA PutOrdered ==
  ASSUME NEW S \in SUBSET Timers, NEW l, NEW r, Chain(l, S),
         NEW t \in Timers, t \notin S, NEW p \in S \cup {NULL}, PutBehind(l, r, S, p, t),
         NEW ex \in [Timers -> Times], Ordered(l, ex, S),
         p # NULL => ex[p] <= ex[t],
         FollowerOf(l, p) # NULL => ex[t] <= ex[FollowerOf(l, p)]
  PROVE  Ordered(r, ex, S \cup {t})
<1> SUFFICES ASSUME NEW x \in S \cup {t}, r.next[x] # NULL PROVE ex[x] <= ex[r.next[x]]
  BY DEF Ordered
<1>1. x = t => r.next[x] = FollowerOf(l, p)  BY DEF PutBehind
<1>2. x \in S => r.next[x] = IF x = p THEN t ELSE l.next[x]  BY DEF PutBehind
<1>3. CASE x = t  BY <1>1, <1>3
<1>4. CASE x \in S /\ x = p  BY <1>2, <1>4, Null
<1>5. CASE x \in S /\ x # p  BY <1>2, <1>5 DEF Ordered
<1> QED  BY <1>3, <1>4, <1>5

LEMMA TakeOrdered ==
  ASSUME NEW S \in SUBSET Timers, NEW l, NEW r, Chain(l, S),
         NEW t \in S, TakenOut(l, r, S, t),
         NEW ex \in [Timers -> Times], Ordered(l, ex, S)
  PROVE  Ordered(r, ex, S \ {t})
<1> SUFFICES ASSUME NEW x \in S \ {t}, r.next[x] # NULL PROVE ex[x] <= ex[r.next[x]]
  BY DEF Ordered
<1>1. \A y \in S : l.next[y] \in S \cup {NULL}  BY Neighbours
<1>2. r.next[x] = IF l.next[x] = t THEN l.next[t] ELSE l.next[x]  BY DEF TakenOut
<1>3. CASE l.next[x] # t  BY <1>2, <1>3 DEF Ordered
<1>4. CASE l.next[x] = t
  <2>1. l.next[t] \in S /\ t # NULL  BY <1>1, <1>2, <1>4, Null
  <2>2. ex[x] <= ex[t] /\ ex[t] <= ex[l.next[t]]  BY <1>1, <1>4, <2>1, Null DEF Ordered
  <2>3. ex[x] \in Int /\ ex[t] \in Int /\ ex[l.next[t]] \in Int
    BY <2>1, Null DEF Times
  <2> QED  BY <1>2, <1>4, <2>2, <2>3
<1> QED  BY <1>3, <1>4

-----------------------------------------------------------------------------
(* add_timer(timer, lst_head) *)

ListType == [head : Pointers, tail : Pointers,
             prev : [Timers -> Pointers], next : [Timers -> Pointers]]

\* The node it finds.
LEMMA BeforeFound ==
  ASSUME NEW S \in SUBSET Timers, NEW l \in ListType, Chain(l, S),
         NEW ex \in [Timers -> Times], NEW e \in Times, NEW q \in S, ex[q] <= e
  PROVE  /\ Before(l, ex, q, e) \in S /\ ex[Before(l, ex, q, e)] <= e
         /\ l.next[Before(l, ex, q, e)] # NULL => e < ex[l.next[Before(l, ex, q, e)]]
<1> DEFINE f == Find(l, ex, e)
           Good(n) == /\ f[n] \in S /\ ex[f[n]] <= e
                      /\ l.next[f[n]] # NULL => e < ex[l.next[f[n]]]
           Bad == {n \in S : ex[n] <= e /\ ~Good(n)}
<1>1. Before(l, ex, q, e) = f[q]  BY DEF Before, Find
<1>2. ASSUME NEW n \in Timers
      PROVE  f[n] = IF l.next[n] = NULL \/ e < ex[l.next[n]] THEN n ELSE f[l.next[n]]
  <2>1. l.next \in [Timers -> Pointers]  BY DEF ListType
  <2> HIDE DEF f
  <2>2. Finds(f, l, ex, e)  BY <2>1, FindDef DEF f
  <2> QED  BY <2>2 DEF Finds
<1> HIDE DEF f
<1>3. Bad = {}
  <2> SUFFICES ASSUME Bad # {} PROVE FALSE  OBVIOUS
  <2>1. Ends(l.next, S)  BY DEF Chain
  <2> PICK n \in Bad : l.next[n] \notin Bad  BY <2>1 DEF Ends
  <2>2. l.next[n] \in S \cup {NULL}  BY Neighbours
  <2>3. CASE l.next[n] = NULL \/ e < ex[l.next[n]]
    <3>1. f[n] = n  BY <1>2, <2>3
    <3> QED  BY <2>3, <3>1
  <2>4. CASE ~(l.next[n] = NULL \/ e < ex[l.next[n]])
    <3>1. f[n] = f[l.next[n]]  BY <1>2, <2>4
    <3>2. l.next[n] \in S /\ ex[l.next[n]] <= e  BY <2>2, <2>4, Null DEF Times
    <3>3. Good(l.next[n])  BY <3>2
    <3> QED  BY <3>1, <3>3
  <2> QED  BY <2>3, <2>4
<1> QED  BY <1>1, <1>3

LEMMA InsertPuts ==
  ASSUME NEW S \in SUBSET Timers, NEW l \in ListType, Chain(l, S),
         NEW ex \in [Timers -> Times], NEW q \in S, NEW t \in Timers, t \notin S,
         ex[q] <= ex[t],
         NEW r, r = InsertFrom(l, ex, q, t)
  PROVE  /\ r \in ListType
         /\ \A x \in Timers \ (S \cup {t}) : r.next[x] = l.next[x] /\ r.prev[x] = l.prev[x]
         /\ PutInOrder(l, r, S, ex, t)
<1> DEFINE p == Before(l, ex, q, ex[t])
<1>1. p \in S /\ ex[p] <= ex[t] /\ (l.next[p] # NULL => ex[t] < ex[l.next[p]])
  BY BeforeFound
<1>2. r = IF l.next[p] = NULL THEN LinkLast(l, p, t) ELSE LinkBetween(l, p, t, l.next[p])
  BY DEF InsertFrom
<1> HIDE DEF p
<1>3. p \in Timers /\ l.next[p] \in S \cup {NULL} /\ p # t /\ t \in Pointers /\ p \in Pointers
      /\ p # NULL /\ (l.next[p] = NULL => p = l.tail)
      /\ \A x \in S : l.next[p] = x <=> l.prev[x] = p
      /\ NULL \notin S /\ NULL \in Pointers
  BY <1>1, Neighbours, Null DEF Pointers
<1>4. l.head \in Pointers /\ l.tail \in Pointers /\ l.prev \in [Timers -> Pointers]
      /\ l.next \in [Timers -> Pointers]
      /\ l = [head |-> l.head, tail |-> l.tail, prev |-> l.prev, next |-> l.next]
  BY DEF ListType
<1>5. CASE l.next[p] = NULL
  <2>1. r = [head |-> l.head, tail |-> t, prev |-> [l.prev EXCEPT ![t] = p],
             next |-> [l.next EXCEPT ![p] = t, ![t] = NULL]]
    BY <1>2, <1>4, <1>5 DEF LinkLast
  <2>2. /\ r.head = l.head /\ r.tail = t /\ r.prev = [l.prev EXCEPT ![t] = p]
        /\ r.next = [[l.next EXCEPT ![p] = t] EXCEPT ![t] = NULL]
    BY <2>1
  <2>3. r \in ListType  BY <1>3, <1>4, <2>1 DEF ListType
  <2>4. /\ \A x \in Timers : r.next[x] = IF x = t THEN NULL ELSE IF x = p THEN t ELSE l.next[x]
        /\ \A x \in Timers : r.prev[x] = IF x = t THEN p ELSE l.prev[x]
    BY <1>3, <1>4, <2>2
  <2>5. PutBehind(l, r, S, p, t)
    BY <1>3, <1>5, <2>2, <2>4 DEF PutBehind, FollowerOf
  <2>6. PutInOrder(l, r, S, ex, t)  BY <1>1, <1>3, <1>5, <2>5 DEF PutInOrder, FollowerOf
  <2> QED  BY <1>1, <1>3, <2>3, <2>4, <2>6
<1>6. CASE l.next[p] # NULL
  <2> DEFINE n == l.next[p]
  <2>1. n \in S /\ n \in Timers /\ n # t  BY <1>3, <1>6
  <2>2. r = [head |-> l.head, tail |-> l.tail, prev |-> [l.prev EXCEPT ![n] = t, ![t] = p],
             next |-> [l.next EXCEPT ![p] = t, ![t] = n]]
    BY <1>2, <1>4, <1>6 DEF LinkBetween
  <2> HIDE DEF n
  <2>3. /\ r.head = l.head /\ r.tail = l.tail
        /\ r.prev = [[l.prev EXCEPT ![n] = t] EXCEPT ![t] = p]
        /\ r.next = [[l.next EXCEPT ![p] = t] EXCEPT ![t] = n]
    BY <2>2
  <2>4. r \in ListType  BY <1>3, <1>4, <2>1, <2>2 DEF ListType, Pointers
  <2>5. /\ \A x \in Timers : r.next[x] = IF x = t THEN n ELSE IF x = p THEN t ELSE l.next[x]
        /\ \A x \in Timers : r.prev[x] = IF x = t THEN p ELSE IF x = n THEN t ELSE l.prev[x]
    BY <1>3, <1>4, <2>1, <2>3
  <2>6. PutBehind(l, r, S, p, t)
    BY <1>3, <1>6, <2>1, <2>3, <2>5 DEF PutBehind, FollowerOf, n
  <2>7. ex[t] <= ex[l.next[p]]
    <3>1. ex[t] \in Int /\ ex[l.next[p]] \in Int  BY <2>1, Null DEF Times, n
    <3> QED  BY <1>1, <1>6, <3>1
  <2>8. PutInOrder(l, r, S, ex, t)  BY <1>1, <1>3, <2>6, <2>7 DEF PutInOrder, FollowerOf
  <2> QED  BY <1>1, <1>3, <2>1, <2>4, <2>5, <2>8
<1> QED  BY <1>5, <1>6

-----------------------------------------------------------------------------
(* The operations: from a sound list to a sound list *)

\* The fields of the timers that are not in the list are NULL.
Clear(l, S) == \A x \in Timers \ S : l.next[x] = NULL /\ l.prev[x] = NULL

Sound(l, S, ex) ==
  /\ l \in ListType /\ S \in SUBSET Timers /\ ex \in [Timers -> Times]
  /\ (l.head = NULL) = (S = {})
  /\ S # {} => Chain(l, S)
  /\ Ordered(l, ex, S)
  /\ Clear(l, S)

LEMMA ListFields ==
  ASSUME NEW l \in ListType
  PROVE  /\ l.head \in Pointers /\ l.tail \in Pointers
         /\ l.prev \in [Timers -> Pointers] /\ l.next \in [Timers -> Pointers]
         /\ l = [head |-> l.head, tail |-> l.tail, prev |-> l.prev, next |-> l.next]
BY DEF ListType

LEMMA ChainPart ==
  ASSUME NEW S, NEW l, Chain(l, S)
  PROVE  l.head \in S /\ l.tail \in S /\ Ends(l.next, S) /\ Ends(l.prev, S)
BY DEF Chain

LEMMA PutSound ==
  ASSUME NEW S \in SUBSET Timers, NEW l, Chain(l, S), NEW ex \in [Timers -> Times],
         Ordered(l, ex, S), NEW t \in Timers, t \notin S,
         NEW r \in ListType, PutInOrder(l, r, S, ex, t), Clear(r, S \cup {t})
  PROVE  Sound(r, S \cup {t}, ex)
<1> PICK p \in S \cup {NULL} :
       /\ PutBehind(l, r, S, p, t)
       /\ p # NULL => ex[p] <= ex[t]
       /\ FollowerOf(l, p) # NULL => ex[t] <= ex[FollowerOf(l, p)]
  BY DEF PutInOrder
<1>1. Chain(r, S \cup {t})  BY PutChain
<1>2. Ordered(r, ex, S \cup {t})  BY PutOrdered
<1>3. r.head # NULL  BY <1>1, Null DEF Chain
<1> QED  BY <1>1, <1>2, <1>3 DEF Sound

LEMMA InsertSound ==
  ASSUME NEW S \in SUBSET Timers, NEW l \in ListType, Chain(l, S),
         NEW ex \in [Timers -> Times], Ordered(l, ex, S),
         NEW t \in Timers, t \notin S, Clear(l, S \cup {t}),
         NEW q \in S, ex[q] <= ex[t], NEW r, r = InsertFrom(l, ex, q, t)
  PROVE  Sound(r, S \cup {t}, ex)
<1>1. /\ r \in ListType /\ PutInOrder(l, r, S, ex, t)
      /\ \A x \in Timers \ (S \cup {t}) : r.next[x] = l.next[x] /\ r.prev[x] = l.prev[x]
  BY InsertPuts
<1>2. Clear(r, S \cup {t})  BY <1>1 DEF Clear
<1> QED  BY <1>1, <1>2, PutSound

LEMMA AddSound ==
  ASSUME NEW l, NEW S, NEW ex, Sound(l, S, ex), NEW t \in Timers, t \notin S,
         NEW en \in [Timers -> Times], \A x \in S : en[x] = ex[x]
  PROVE  Sound(Added(l, en, t), S \cup {t}, en)
<1> DEFINE r == Added(l, en, t)
<1>1. /\ l \in ListType /\ S \in SUBSET Timers /\ ex \in [Timers -> Times]
      /\ (l.head = NULL) = (S = {}) /\ Ordered(l, ex, S) /\ Clear(l, S)
  BY DEF Sound
<1>2. /\ l.head \in Pointers /\ l.tail \in Pointers
      /\ l.prev \in [Timers -> Pointers] /\ l.next \in [Timers -> Pointers]
      /\ l = [head |-> l.head, tail |-> l.tail, prev |-> l.prev, next |-> l.next]
  BY <1>1, ListFields
<1>3. en \in [Timers -> Times] /\ \A x \in S : en[x] = ex[x]  OBVIOUS
<1>4. l.next[t] = NULL /\ l.prev[t] = NULL /\ t # NULL /\ t \in Pointers /\ NULL \in Pointers
  BY <1>1, Null DEF Clear, Pointers
<1> HIDE DEF r
<1>5. CASE l.head = NULL
  <2>1. S = {}  BY <1>1, <1>5
  <2>2. r = [head |-> t, tail |-> t, prev |-> l.prev, next |-> l.next]
    BY <1>2, <1>5 DEF Added, r
  <2>3. r \in ListType  BY <1>2, <1>4, <2>2 DEF ListType
  <2>4. Ends(r.next, {t}) /\ Ends(r.prev, {t})
    <3>1. r.next[t] # t /\ r.prev[t] # t  BY <1>4, <2>2
    <3>2. \A P \in SUBSET {t} : P # {} => P = {t}  OBVIOUS
    <3> QED  BY <3>1, <3>2 DEF Ends
  <2>5. Chain(r, {t})  BY <1>4, <2>2, <2>4 DEF Chain
  <2>6. Ordered(r, en, {t})  BY <1>4, <2>2 DEF Ordered
  <2>7. Clear(r, {t})  BY <1>1, <2>1, <2>2 DEF Clear
  <2> QED  BY <1>3, <1>4, <2>1, <2>2, <2>3, <2>5, <2>6, <2>7 DEF Sound, r
<1>6. CASE l.head # NULL
  <2>1. S # {} /\ Chain(l, S) /\ l.head \in S  BY <1>1, <1>6, ChainPart DEF Sound
  <2>2. Ordered(l, en, S)
    <3>1. \A x \in S : l.next[x] \in S \cup {NULL}  BY <1>1, <2>1, Neighbours
    <3> QED  BY <1>1, <1>3, <3>1 DEF Ordered
  <2>3. en[t] \in Int /\ en[l.head] \in Int  BY <1>1, <1>3, <2>1, Null DEF Times
  <2>4. CASE en[t] < en[l.head]
    <3>1. r = [head |-> t, tail |-> l.tail, prev |-> [l.prev EXCEPT ![l.head] = t],
               next |-> [l.next EXCEPT ![t] = l.head]]
      BY <1>2, <1>6, <2>4 DEF Added, AddFirst, r
    <3>2. /\ r.head = t /\ r.tail = l.tail /\ r.prev = [l.prev EXCEPT ![l.head] = t]
          /\ r.next = [l.next EXCEPT ![t] = l.head]
      BY <3>1
    <3>3. r \in ListType  BY <1>2, <1>4, <3>1 DEF ListType
    <3>4. /\ \A x \in Timers : r.next[x] = IF x = t THEN l.head ELSE l.next[x]
          /\ \A x \in Timers : r.prev[x] = IF x = l.head THEN t ELSE l.prev[x]
      BY <1>2, <3>2
    <3>5. NULL \notin S /\ l.head # t  BY <1>1, <2>1, Null
    <3>6. PutBehind(l, r, S, NULL, t)
      BY <1>1, <1>4, <1>6, <3>2, <3>4, <3>5 DEF PutBehind, FollowerOf
    <3>7. Clear(r, S \cup {t})  BY <1>1, <2>1, <3>4 DEF Clear
    <3>8. en[t] <= en[FollowerOf(l, NULL)]  BY <2>3, <2>4 DEF FollowerOf
    <3>9. PutInOrder(l, r, S, en, t)  BY <3>6, <3>8 DEF PutInOrder
    <3>10. Sound(r, S \cup {t}, en)
      BY <1>1, <1>3, <2>1, <2>2, <3>3, <3>7, <3>9, PutSound
    <3> QED  BY <3>10 DEF r
  <2>5. CASE ~(en[t] < en[l.head])
    <3>1. r = InsertFrom(l, en, l.head, t)  BY <1>6, <2>5 DEF Added, r
    <3>2. en[l.head] <= en[t]  BY <2>3, <2>5
    <3>3. Clear(l, S \cup {t})  BY <1>1 DEF Clear
    <3>4. ASSUME NEW q \in S, en[q] <= en[t], r = InsertFrom(l, en, q, t)
          PROVE  Sound(r, S \cup {t}, en)
      BY <1>1, <1>3, <2>1, <2>2, <3>3, <3>4, InsertSound
    <3>5. Sound(r, S \cup {t}, en)  BY <2>1, <3>1, <3>2, <3>4
    <3> QED  BY <3>5 DEF r
  <2> QED  BY <2>4, <2>5
<1> QED  BY <1>5, <1>6

\* The three ways to take a timer out that is not the only one.
Takes(l, r, S, t) ==
  /\ r \in ListType /\ TakenOut(l, r, S, t)
  /\ \A x \in Timers \ S : r.next[x] = l.next[x] /\ r.prev[x] = l.prev[x]

LEMMA DropHeadTakes ==
  ASSUME NEW S \in SUBSET Timers, NEW l \in ListType, Chain(l, S), l.head # l.tail,
         NEW r, r = DropHead(l)
  PROVE  Takes(l, r, S, l.head)
<1> DEFINE n == l.next[l.head]
<1>1. /\ \A x \in S : l.next[x] \in S \cup {NULL} /\ (l.next[x] = NULL <=> x = l.tail)
      /\ \A x \in S : l.prev[x] \in S \cup {NULL} /\ (l.prev[x] = NULL <=> x = l.head)
      /\ \A x, y \in S : l.next[x] = y <=> l.prev[y] = x
      /\ NULL \notin S
      /\ l.head \in S /\ l.tail \in S
  BY Neighbours, ChainPart
<1>2. /\ l.head \in Pointers /\ l.tail \in Pointers
      /\ l.prev \in [Timers -> Pointers] /\ l.next \in [Timers -> Pointers]
      /\ l = [head |-> l.head, tail |-> l.tail, prev |-> l.prev, next |-> l.next]
  BY ListFields
<1>3. n \in S /\ n \in Timers /\ n \in Pointers /\ NULL \in Pointers  BY <1>1 DEF Pointers
<1> HIDE DEF n
<1>4. r = [head |-> n, tail |-> l.tail, prev |-> [l.prev EXCEPT ![n] = NULL],
           next |-> l.next]
  <2>1. r = [l EXCEPT !.head = n, !.prev[n] = NULL]  BY DEF DropHead, n
  <2> QED  BY <1>2, <2>1
<1>5. r \in ListType  BY <1>2, <1>3, <1>4 DEF ListType
<1>6. /\ r.head = n /\ r.tail = l.tail /\ r.next = l.next
      /\ \A x \in Timers : r.prev[x] = IF x = n THEN NULL ELSE l.prev[x]
  BY <1>2, <1>3, <1>4
<1>7. TakenOut(l, r, S, l.head)
  <2>1. n = l.next[l.head] /\ l.prev[l.head] = NULL  BY <1>1 DEF n
  <2> QED  BY <1>1, <1>3, <1>6, <2>1 DEF TakenOut
<1> QED  BY <1>3, <1>5, <1>6, <1>7 DEF Takes

LEMMA DropTailTakes ==
  ASSUME NEW S \in SUBSET Timers, NEW l \in ListType, Chain(l, S), l.head # l.tail,
         NEW r, r = DropTail(l)
  PROVE  Takes(l, r, S, l.tail)
<1> DEFINE p == l.prev[l.tail]
<1>1. /\ \A x \in S : l.next[x] \in S \cup {NULL} /\ (l.next[x] = NULL <=> x = l.tail)
      /\ \A x \in S : l.prev[x] \in S \cup {NULL} /\ (l.prev[x] = NULL <=> x = l.head)
      /\ \A x, y \in S : l.next[x] = y <=> l.prev[y] = x
      /\ NULL \notin S
      /\ l.head \in S /\ l.tail \in S
  BY Neighbours, ChainPart
<1>2. /\ l.head \in Pointers /\ l.tail \in Pointers
      /\ l.prev \in [Timers -> Pointers] /\ l.next \in [Timers -> Pointers]
      /\ l = [head |-> l.head, tail |-> l.tail, prev |-> l.prev, next |-> l.next]
  BY ListFields
<1>3. p \in S /\ p \in Timers /\ p \in Pointers /\ NULL \in Pointers  BY <1>1 DEF Pointers
<1> HIDE DEF p
<1>4. r = [head |-> l.head, tail |-> p, prev |-> l.prev,
           next |-> [l.next EXCEPT ![p] = NULL]]
  <2>1. r = [l EXCEPT !.tail = p, !.next[p] = NULL]  BY DEF DropTail, p
  <2> QED  BY <1>2, <2>1
<1>5. r \in ListType  BY <1>2, <1>3, <1>4 DEF ListType
<1>6. /\ r.head = l.head /\ r.tail = p /\ r.prev = l.prev
      /\ \A x \in Timers : r.next[x] = IF x = p THEN NULL ELSE l.next[x]
  BY <1>2, <1>3, <1>4
<1>7. TakenOut(l, r, S, l.tail)
  <2>1. p = l.prev[l.tail] /\ l.next[l.tail] = NULL  BY <1>1 DEF p
  <2> QED  BY <1>1, <1>3, <1>6, <2>1 DEF TakenOut
<1> QED  BY <1>3, <1>5, <1>6, <1>7 DEF Takes

LEMMA UnlinkTakes ==
  ASSUME NEW S \in SUBSET Timers, NEW l \in ListType, Chain(l, S),
         NEW t \in S \ {l.head, l.tail},
         NEW r, r = Unlink(l, t)
  PROVE  Takes(l, r, S, t)
<1> DEFINE n == l.next[t]
           p == l.prev[t]
<1>1. /\ \A x \in S : l.next[x] \in S \cup {NULL} /\ (l.next[x] = NULL <=> x = l.tail)
      /\ \A x \in S : l.prev[x] \in S \cup {NULL} /\ (l.prev[x] = NULL <=> x = l.head)
      /\ \A x, y \in S : l.next[x] = y <=> l.prev[y] = x
      /\ NULL \notin S
      /\ l.head \in S /\ l.tail \in S
  BY Neighbours, ChainPart
<1>2. /\ l.head \in Pointers /\ l.tail \in Pointers
      /\ l.prev \in [Timers -> Pointers] /\ l.next \in [Timers -> Pointers]
      /\ l = [head |-> l.head, tail |-> l.tail, prev |-> l.prev, next |-> l.next]
  BY ListFields
<1>3. p \in S /\ n \in S /\ p \in Timers /\ n \in Timers /\ p \in Pointers /\ n \in Pointers
  BY <1>1 DEF Pointers
<1>4. n = l.next[t] /\ p = l.prev[t]  OBVIOUS
<1> HIDE DEF n, p
<1>5. r = [head |-> l.head, tail |-> l.tail, prev |-> [l.prev EXCEPT ![n] = p],
           next |-> [l.next EXCEPT ![p] = n]]
  <2>1. r = [l EXCEPT !.next[p] = n, !.prev[n] = p]  BY DEF Unlink, n, p
  <2> QED  BY <1>2, <2>1
<1>6. r \in ListType  BY <1>2, <1>3, <1>5 DEF ListType
<1>7. /\ r.head = l.head /\ r.tail = l.tail
      /\ \A x \in Timers : r.next[x] = IF x = p THEN n ELSE l.next[x]
      /\ \A x \in Timers : r.prev[x] = IF x = n THEN p ELSE l.prev[x]
  BY <1>2, <1>3, <1>5
<1>8. TakenOut(l, r, S, t)  BY <1>1, <1>3, <1>4, <1>7 DEF TakenOut
<1> QED  BY <1>3, <1>6, <1>7, <1>8 DEF Takes

LEMMA TakeOut ==
  ASSUME NEW l, NEW S, NEW ex, Sound(l, S, ex), NEW t \in S, S \ {t} # {},
         NEW m, TakenOut(l, m, S, t)
  PROVE  Chain(m, S \ {t}) /\ Ordered(m, ex, S \ {t}) /\ m.head # NULL
<1>1. S \in SUBSET Timers /\ Chain(l, S) /\ ex \in [Timers -> Times] /\ Ordered(l, ex, S)
  BY DEF Sound
<1>2. Chain(m, S \ {t})  BY <1>1, TakeChain
<1>3. Ordered(m, ex, S \ {t})  BY <1>1, TakeOrdered
<1>4. m.head # NULL  BY <1>1, <1>2, Null DEF Chain
<1> QED  BY <1>2, <1>3, <1>4

LEMMA AdjustSound ==
  ASSUME NEW l, NEW S, NEW ex, Sound(l, S, ex), NEW t \in S,
         NEW en \in [Timers -> Times], \A x \in S \ {t} : en[x] = ex[x], ex[t] <= en[t]
  PROVE  Sound(Adjusted(l, en, t), S, en)
<1> DEFINE r == Adjusted(l, en, t)
           q == l.next[t]
<1>1. /\ l \in ListType /\ S \in SUBSET Timers /\ ex \in [Timers -> Times]
      /\ l.head # NULL /\ Chain(l, S) /\ Ordered(l, ex, S) /\ Clear(l, S)
  BY DEF Sound
<1>2. /\ \A x \in S : l.next[x] \in S \cup {NULL} /\ (l.next[x] = NULL <=> x = l.tail)
      /\ \A x \in S : l.prev[x] \in S \cup {NULL} /\ (l.prev[x] = NULL <=> x = l.head)
      /\ \A x, y \in S : l.next[x] = y <=> l.prev[y] = x
      /\ NULL \notin S
  BY <1>1, Neighbours
<1>3. \A x \in S : en[x] \in Int /\ ex[x] \in Int  BY <1>1, Null DEF Times
<1> HIDE DEF r
<1>4. CASE q = NULL \/ en[t] < en[q]
  <2>1. r = l  BY <1>4 DEF Adjusted, r
  <2>2. Ordered(l, en, S)
    <3> SUFFICES ASSUME NEW x \in S, l.next[x] # NULL PROVE en[x] <= en[l.next[x]]
      BY DEF Ordered
    <3>1. l.next[x] \in S /\ ex[x] <= ex[l.next[x]]  BY <1>1, <1>2 DEF Ordered
    <3>2. CASE x = t
      <4>1. en[x] < en[l.next[x]]  BY <1>4, <3>2
      <4> QED  BY <1>3, <3>1, <4>1
    <3>3. CASE x # t /\ l.next[x] = t
      <4>1. en[x] = ex[x]  BY <3>3
      <4>2. ex[x] <= ex[t]  BY <3>1, <3>3
      <4> QED  BY <1>3, <3>3, <4>1, <4>2
    <3>4. CASE x # t /\ l.next[x] # t
      <4>1. en[x] = ex[x] /\ en[l.next[x]] = ex[l.next[x]]  BY <3>1, <3>4
      <4> QED  BY <3>1, <4>1
    <3> QED  BY <3>2, <3>3, <3>4
  <2>3. Sound(l, S, en)  BY <1>1, <2>2 DEF Sound
  <2> QED  BY <2>1, <2>3 DEF r
<1>5. CASE q # NULL /\ ~(en[t] < en[q])
  <2>1. q \in S /\ q # t
    <3>1. q \in S  BY <1>2, <1>5
    <3>2. {t} \in SUBSET S /\ {t} # {} /\ Ends(l.next, S)  BY <1>1, ChainPart
    <3>3. l.next[t] # t  BY <3>2 DEF Ends
    <3> QED  BY <3>1, <3>3
  <2>2. en[q] <= en[t]  BY <1>3, <1>5, <2>1
  <2>3. l.tail # t  BY <1>2, <1>5
  <2>4. \E m \in ListType : /\ TakenOut(l, m, S, t) /\ Clear(m, S)
                            /\ r = InsertFrom(m, en, q, t)
    <3>1. CASE l.head = t
      <4> DEFINE d == DropHead(l)
                 m == [d EXCEPT !.next[t] = NULL]
      <4>1. /\ d \in ListType /\ TakenOut(l, d, S, t)
            /\ \A x \in Timers \ S : d.next[x] = l.next[x] /\ d.prev[x] = l.prev[x]
        <5>1. Takes(l, d, S, t)  BY <1>1, <2>3, <3>1, DropHeadTakes
        <5> QED  BY <5>1 DEF Takes
      <4> HIDE DEF d
      <4>2. /\ d.head \in Pointers /\ d.tail \in Pointers
            /\ d.prev \in [Timers -> Pointers] /\ d.next \in [Timers -> Pointers]
            /\ d = [head |-> d.head, tail |-> d.tail, prev |-> d.prev, next |-> d.next]
        BY <4>1, ListFields
      <4>3. m = [head |-> d.head, tail |-> d.tail, prev |-> d.prev,
                 next |-> [d.next EXCEPT ![t] = NULL]]
        BY <4>2
      <4>4. r = InsertFrom(m, en, m.head, t)
        <5>1. r = LET mm == DropHead(l)
                  IN  InsertFrom([mm EXCEPT !.next[t] = NULL], en, mm.head, t)
          BY <1>5, <3>1 DEF Adjusted, r
        <5>2. m.head = d.head  BY <4>3
        <5> QED  BY <5>1, <5>2 DEF d
      <4> HIDE DEF m
      <4>5. m \in ListType
        <5>1. NULL \in Pointers  BY DEF Pointers
        <5> QED  BY <4>2, <4>3, <5>1 DEF ListType
      <4>6. /\ m.head = d.head /\ m.tail = d.tail /\ m.prev = d.prev
            /\ \A x \in Timers : x # t => m.next[x] = d.next[x]
        BY <4>2, <4>3
      <4>7. TakenOut(l, m, S, t)  BY <1>1, <4>1, <4>6 DEF TakenOut
      <4>8. m.head = q  BY <3>1, <4>7 DEF TakenOut
      <4>9. Clear(m, S)  BY <1>1, <4>1, <4>6 DEF Clear
      <4> QED  BY <4>4, <4>5, <4>7, <4>8, <4>9
    <3>2. CASE l.head # t
      <4> DEFINE m == Unlink(l, t)
      <4>1. /\ m \in ListType /\ TakenOut(l, m, S, t)
            /\ \A x \in Timers \ S : m.next[x] = l.next[x] /\ m.prev[x] = l.prev[x]
        <5>1. t \in S \ {l.head, l.tail}  BY <2>3, <3>2
        <5>2. m = Unlink(l, t)  OBVIOUS
        <5> HIDE DEF m
        <5>3. Takes(l, m, S, t)  BY <1>1, <5>1, <5>2, UnlinkTakes
        <5> QED  BY <5>3 DEF Takes
      <4>2. r = InsertFrom(m, en, q, t)  BY <1>5, <3>2 DEF Adjusted, r
      <4> HIDE DEF m
      <4>3. Clear(m, S)  BY <1>1, <4>1 DEF Clear
      <4> QED  BY <4>1, <4>2, <4>3
    <3> QED  BY <3>1, <3>2
  <2> PICK m \in ListType : /\ TakenOut(l, m, S, t) /\ Clear(m, S)
                            /\ r = InsertFrom(m, en, q, t)
    BY <2>4
  <2> HIDE DEF q
  <2>5. Chain(m, S \ {t}) /\ Ordered(m, ex, S \ {t})  BY <2>1, TakeOut
  <2>6. Ordered(m, en, S \ {t})
    <3>1. \A x \in S \ {t} : m.next[x] \in (S \ {t}) \cup {NULL}  BY <1>1, <2>5, Neighbours
    <3> QED  BY <2>5, <3>1 DEF Ordered
  <2>7. S \ {t} \in SUBSET Timers /\ (S \ {t}) \cup {t} = S /\ t \in Timers  BY <1>1
  <2>8. Sound(r, (S \ {t}) \cup {t}, en)
    <3> DEFINE T == S \ {t}
    <3>1. /\ T \in SUBSET Timers /\ Chain(m, T) /\ Ordered(m, en, T) /\ t \in Timers
          /\ t \notin T /\ Clear(m, T \cup {t}) /\ q \in T
      BY <2>1, <2>5, <2>6, <2>7
    <3> HIDE DEF T
    <3>2. Sound(r, T \cup {t}, en)  BY <2>2, <3>1, InsertSound
    <3> QED  BY <3>2 DEF T
  <2> QED  BY <2>7, <2>8 DEF r
<1> QED  BY <1>4, <1>5

\* delete: the fields of the timers that are gone are shown as NULL and 0.
Freed(l, gone) ==
  [l EXCEPT !.prev = [t \in Timers |-> IF t \in gone THEN NULL ELSE @[t]],
            !.next = [t \in Timers |-> IF t \in gone THEN NULL ELSE @[t]]]
Zeroed(ex, gone) == [t \in Timers |-> IF t \in gone THEN 0 ELSE ex[t]]

\* The list is sound, but for the fields of the timers to be deleted.
SoundBut(l, S, ex, gone) ==
  /\ l \in ListType /\ S \in SUBSET Timers /\ ex \in [Timers -> Times]
  /\ gone \in SUBSET Timers /\ S \cap gone = {}
  /\ (l.head = NULL) = (S = {})
  /\ S # {} => Chain(l, S)
  /\ Ordered(l, ex, S)
  /\ Clear(l, S \cup gone)

LEMMA FreeSound ==
  ASSUME NEW l, NEW S, NEW ex, NEW gone, SoundBut(l, S, ex, gone)
  PROVE  Sound(Freed(l, gone), S, Zeroed(ex, gone))
<1> DEFINE r == Freed(l, gone)
           en == Zeroed(ex, gone)
<1>0. /\ l \in ListType /\ S \in SUBSET Timers /\ ex \in [Timers -> Times]
      /\ gone \in SUBSET Timers /\ S \cap gone = {}
      /\ (l.head = NULL) = (S = {}) /\ (S # {} => Chain(l, S))
      /\ Ordered(l, ex, S) /\ Clear(l, S \cup gone)
  BY DEF SoundBut
<1>1. /\ l.head \in Pointers /\ l.tail \in Pointers
      /\ l.prev \in [Timers -> Pointers] /\ l.next \in [Timers -> Pointers]
      /\ l = [head |-> l.head, tail |-> l.tail, prev |-> l.prev, next |-> l.next]
  BY <1>0, ListFields
<1>2. r = [head |-> l.head, tail |-> l.tail,
           prev |-> [t \in Timers |-> IF t \in gone THEN NULL ELSE l.prev[t]],
           next |-> [t \in Timers |-> IF t \in gone THEN NULL ELSE l.next[t]]]
  <2> DEFINE pv == [t \in Timers |-> IF t \in gone THEN NULL ELSE l.prev[t]]
             nx == [t \in Timers |-> IF t \in gone THEN NULL ELSE l.next[t]]
  <2>1. r = [l EXCEPT !.prev = pv, !.next = nx]  BY DEF Freed
  <2> HIDE DEF pv, nx, r
  <2>2. r = [head |-> l.head, tail |-> l.tail, prev |-> pv, next |-> nx]  BY <1>1, <2>1
  <2> QED  BY <2>2 DEF pv, nx
<1>3. en \in [Timers -> Times] /\ \A x \in S : en[x] = ex[x]
  <2>1. 0 \in Times  BY Null DEF Times
  <2> QED  BY <1>0, <2>1 DEF Zeroed
<1> HIDE DEF r, en
<1>4. r \in ListType
  <2>1. NULL \in Pointers  BY DEF Pointers
  <2> QED  BY <1>1, <1>2, <2>1 DEF ListType
<1>5. /\ r.head = l.head /\ r.tail = l.tail
      /\ \A x \in Timers : r.prev[x] = IF x \in gone THEN NULL ELSE l.prev[x]
      /\ \A x \in Timers : r.next[x] = IF x \in gone THEN NULL ELSE l.next[x]
  BY <1>0, <1>2
<1>6. \A x \in S : r.next[x] = l.next[x] /\ r.prev[x] = l.prev[x]  BY <1>0, <1>5
<1>7. ASSUME S # {} PROVE Chain(r, S)
  <2>1. Chain(l, S)  BY <1>0, <1>7
  <2>2. Ends(r.next, S) /\ Ends(r.prev, S)
    <3>1. Ends(l.next, S) /\ Ends(l.prev, S)  BY <2>1, ChainPart
    <3> QED  BY <1>6, <3>1, EndsPart
  <2> QED  BY <1>0, <1>5, <1>6, <2>1, <2>2 DEF Chain
<1>8. Ordered(r, en, S)
  <2> SUFFICES ASSUME NEW x \in S, r.next[x] # NULL PROVE en[x] <= en[r.next[x]]
    BY DEF Ordered
  <2>1. l.next[x] \in S  BY <1>0, <1>6, Neighbours
  <2>2. ex[x] <= ex[l.next[x]]  BY <1>0, <1>6 DEF Ordered
  <2> QED  BY <1>3, <1>6, <2>1, <2>2
<1>9. Clear(r, S)  BY <1>0, <1>5 DEF Clear
<1> QED  BY <1>0, <1>3, <1>4, <1>5, <1>7, <1>8, <1>9 DEF Sound, r, en

LEMMA DeleteSound ==
  ASSUME NEW l, NEW S, NEW ex, Sound(l, S, ex), NEW t \in S
  PROVE  Sound(Freed(Deleted(l, t), {t}), S \ {t}, Zeroed(ex, {t}))
<1> DEFINE m == Deleted(l, t)
<1>1. /\ l \in ListType /\ S \in SUBSET Timers /\ ex \in [Timers -> Times]
      /\ l.head # NULL /\ Chain(l, S) /\ Ordered(l, ex, S) /\ Clear(l, S)
  BY DEF Sound
<1>2. S \ {t} \in SUBSET Timers /\ {t} \in SUBSET Timers /\ (S \ {t}) \cap {t} = {}
      /\ (S \ {t}) \cup {t} = S
  BY <1>1
<1> SUFFICES /\ m \in ListType /\ (m.head = NULL) = (S \ {t} = {})
             /\ S \ {t} # {} => Chain(m, S \ {t})
             /\ Ordered(m, ex, S \ {t}) /\ Clear(m, S)
  <2>1. SoundBut(m, S \ {t}, ex, {t})  BY <1>1, <1>2 DEF SoundBut
  <2> QED  BY <2>1, FreeSound
<1>3. CASE t = l.head /\ t = l.tail
  <2>1. S \ {t} = {}
    <3> SUFFICES ASSUME S \ {t} # {} PROVE FALSE  OBVIOUS
    <3> PICK x \in S \ {t} : l.next[x] \notin S \ {t}
      <4>1. S \ {t} \in SUBSET S /\ Ends(l.next, S)  BY <1>1, ChainPart
      <4> QED  BY <4>1 DEF Ends
    <3>1. l.next[x] = t /\ l.prev[t] = x /\ l.prev[t] = NULL  BY <1>1, <1>3 DEF Chain
    <3> QED  BY <1>1, <3>1, Null
  <2>2. /\ l.head \in Pointers /\ l.tail \in Pointers
        /\ l.prev \in [Timers -> Pointers] /\ l.next \in [Timers -> Pointers]
        /\ l = [head |-> l.head, tail |-> l.tail, prev |-> l.prev, next |-> l.next]
    BY <1>1, ListFields
  <2>3. m = [head |-> NULL, tail |-> NULL, prev |-> l.prev, next |-> l.next]
    BY <1>3, <2>2 DEF Deleted
  <2> HIDE DEF m
  <2>4. m \in ListType
    <3>1. NULL \in Pointers  BY DEF Pointers
    <3> QED  BY <2>2, <2>3, <3>1 DEF ListType
  <2>5. Ordered(m, ex, S \ {t})  BY <2>1 DEF Ordered
  <2>6. m.head = NULL /\ Clear(m, S)  BY <1>1, <2>3 DEF Clear
  <2> QED  BY <2>1, <2>4, <2>5, <2>6
<1>4. CASE ~(t = l.head /\ t = l.tail)
  <2>1. S \ {t} # {}  BY <1>1, <1>4, ChainPart
  <2>2. Takes(l, m, S, t)
    <3>1. CASE t = l.head
      <4>1. m = DropHead(l)  BY <1>4, <3>1 DEF Deleted
      <4> HIDE DEF m
      <4> QED  BY <1>1, <1>4, <3>1, <4>1, DropHeadTakes
    <3>2. CASE t = l.tail
      <4>1. m = DropTail(l)  BY <1>4, <3>2 DEF Deleted
      <4> HIDE DEF m
      <4> QED  BY <1>1, <1>4, <3>2, <4>1, DropTailTakes
    <3>3. CASE t # l.head /\ t # l.tail
      <4>1. m = Unlink(l, t)  BY <3>3 DEF Deleted
      <4> HIDE DEF m
      <4>2. t \in S \ {l.head, l.tail}  BY <3>3
      <4> QED  BY <1>1, <4>1, <4>2, UnlinkTakes
    <3> QED  BY <3>1, <3>2, <3>3
  <2> HIDE DEF m
  <2>3. Chain(m, S \ {t}) /\ Ordered(m, ex, S \ {t}) /\ m.head # NULL
    BY <2>1, <2>2, TakeOut DEF Takes
  <2>4. m \in ListType /\ Clear(m, S)  BY <1>1, <2>2 DEF Clear, Takes
  <2> QED  BY <2>1, <2>3, <2>4
<1> QED  BY <1>3, <1>4

-----------------------------------------------------------------------------
(* tick() *)

\* A is the front of the list up to and with k.
Front(l, S, A, k) ==
  /\ A \in SUBSET S /\ l.head \in A /\ k \in A /\ l.next[k] \notin A
  /\ \A y \in A \ {k} : l.next[y] \in A
  /\ \A y \in A \ {l.head} : l.prev[y] \in A

CutBehind(l, k) ==
  IF l.next[k] = NULL THEN [l EXCEPT !.head = NULL]
  ELSE [l EXCEPT !.head = l.next[k], !.prev[l.next[k]] = NULL]

LEMMA CutSound ==
  ASSUME NEW l, NEW S, NEW ex, Sound(l, S, ex), NEW A, NEW k, Front(l, S, A, k)
  PROVE  SoundBut(CutBehind(l, k), S \ A, ex, A)
<1> DEFINE r == CutBehind(l, k)
           h == l.next[k]
           T == S \ A
<1>1. /\ l \in ListType /\ S \in SUBSET Timers /\ ex \in [Timers -> Times]
      /\ Ordered(l, ex, S) /\ Clear(l, S) /\ S # {} /\ Chain(l, S)
  BY DEF Sound, Front
<1>2. /\ \A x \in S : l.next[x] \in S \cup {NULL} /\ (l.next[x] = NULL <=> x = l.tail)
      /\ \A x \in S : l.prev[x] \in S \cup {NULL} /\ (l.prev[x] = NULL <=> x = l.head)
      /\ \A x, y \in S : l.next[x] = y <=> l.prev[y] = x
      /\ NULL \notin S /\ l.tail \in S /\ Ends(l.next, S) /\ Ends(l.prev, S)
  BY <1>1, Neighbours, ChainPart
<1>3. /\ A \in SUBSET S /\ l.head \in A /\ k \in A /\ h \notin A
      /\ \A y \in A \ {k} : l.next[y] \in A
      /\ \A y \in A \ {l.head} : l.prev[y] \in A
  BY DEF Front
<1>4. /\ l.head \in Pointers /\ l.tail \in Pointers
      /\ l.prev \in [Timers -> Pointers] /\ l.next \in [Timers -> Pointers]
      /\ l = [head |-> l.head, tail |-> l.tail, prev |-> l.prev, next |-> l.next]
  BY <1>1, ListFields
<1>5. A \in SUBSET Timers /\ T \in SUBSET Timers /\ T \cap A = {} /\ T \cup A = S
  BY <1>1, <1>3
<1>6. NULL \in Pointers  BY DEF Pointers
<1> HIDE DEF r
<1> SUFFICES /\ r \in ListType /\ (r.head = NULL) = (T = {}) /\ (T # {} => Chain(r, T))
             /\ Ordered(r, ex, T) /\ Clear(r, S)
  <2> HIDE DEF T
  <2>1. SoundBut(r, T, ex, A)  BY <1>1, <1>5 DEF SoundBut
  <2> QED  BY <2>1 DEF r, T
<1>7. CASE h = NULL
  <2>1. r = [head |-> NULL, tail |-> l.tail, prev |-> l.prev, next |-> l.next]
    BY <1>4, <1>7 DEF CutBehind, r
  <2>2. r \in ListType  BY <1>4, <1>6, <2>1 DEF ListType
  <2>3. T = {}
    <3> SUFFICES ASSUME T # {} PROVE FALSE  OBVIOUS
    <3> PICK x \in T : l.prev[x] \notin T
      <4>1. T \in SUBSET S  OBVIOUS
      <4> HIDE DEF T
      <4> QED  BY <1>2, <4>1 DEF Ends
    <3>1. x \in S /\ x \notin A /\ x # l.head /\ x # NULL  BY <1>2, <1>3
    <3>2. l.prev[x] \in A /\ l.next[l.prev[x]] = x  BY <1>2, <1>3, <3>1
    <3> QED  BY <1>3, <1>7, <3>1, <3>2
  <2>4. r.head = NULL /\ Clear(r, S)  BY <1>1, <2>1 DEF Clear
  <2>5. Ordered(r, ex, {})  BY DEF Ordered
  <2> QED  BY <2>2, <2>3, <2>4, <2>5
<1>8. CASE h # NULL
  <2>1. h \in S /\ h \in T /\ h \in Timers /\ h \in Pointers /\ l.prev[h] = k
    BY <1>1, <1>2, <1>3, <1>8 DEF Pointers
  <2>2. r = [head |-> h, tail |-> l.tail, prev |-> [l.prev EXCEPT ![h] = NULL],
             next |-> l.next]
    <3>1. r = [l EXCEPT !.head = h, !.prev[h] = NULL]  BY <1>8 DEF CutBehind, r
    <3> HIDE DEF h
    <3> QED  BY <1>4, <3>1
  <2>3. r \in ListType  BY <1>4, <1>6, <2>1, <2>2 DEF ListType
  <2>4. /\ r.head = h /\ r.tail = l.tail /\ r.next = l.next
        /\ \A x \in Timers : r.prev[x] = IF x = h THEN NULL ELSE l.prev[x]
    BY <1>4, <2>1, <2>2
  <2>5. l.tail \in T /\ l.next[l.tail] = NULL
    <3>1. l.next[l.tail] = NULL  BY <1>2
    <3>2. l.tail \notin A  BY <1>2, <1>3, <1>8, <3>1
    <3> QED  BY <1>2, <3>1, <3>2
  <2>6. ASSUME NEW t \in T \ {l.tail}
        PROVE  l.next[t] \in T /\ r.prev[l.next[t]] = t
    <3>1. t \in S /\ t \notin A /\ l.next[t] \in S /\ l.prev[l.next[t]] = t  BY <1>2
    <3>2. l.next[t] \notin A
      <4>1. l.next[t] # l.head  BY <1>2, <3>1
      <4> QED  BY <1>3, <3>1, <4>1
    <3>3. l.next[t] # h  BY <1>3, <2>1, <3>1
    <3> QED  BY <1>1, <2>4, <3>1, <3>2, <3>3
  <2>7. ASSUME NEW t \in T \ {h}
        PROVE  r.prev[t] \in T /\ l.next[r.prev[t]] = t
    <3>1. t \in S /\ t \notin A /\ t # l.head  BY <1>3
    <3>2. l.prev[t] \in S /\ l.next[l.prev[t]] = t  BY <1>2, <3>1
    <3>3. l.prev[t] \notin A  BY <1>3, <3>1, <3>2
    <3> QED  BY <1>1, <2>4, <3>1, <3>2, <3>3
  <2>8. Ends(r.next, T) /\ Ends(r.prev, T)
    <3>1. Ends(l.next, T) /\ Ends(l.prev, T)
      <4>1. T \in SUBSET S  OBVIOUS
      <4> HIDE DEF T
      <4> QED  BY <1>2, <4>1, EndsPart
    <3>2. ASSUME NEW P \in SUBSET T, P # {} PROVE \E x \in P : r.prev[x] \notin P
      <4> PICK x \in P : l.prev[x] \notin P
        <5> HIDE DEF T
        <5> QED  BY <3>1, <3>2 DEF Ends
      <4>1. x \in Timers /\ NULL \notin P  BY <1>1, <1>2
      <4> QED  BY <2>4, <4>1
    <3> HIDE DEF T
    <3> QED  BY <2>4, <3>1, <3>2 DEF Ends
  <2>9. Chain(r, T)
    <3>1. r.prev[h] = NULL  BY <2>1, <2>4
    <3> HIDE DEF T, h
    <3> QED  BY <2>1, <2>4, <2>5, <2>6, <2>7, <2>8, <3>1 DEF Chain
  <2>10. Ordered(r, ex, T)  BY <1>1, <2>4 DEF Ordered
  <2>11. Clear(r, S)  BY <1>1, <2>1, <2>4 DEF Clear
  <2>12. r.head # NULL /\ T # {}  BY <1>8, <2>1, <2>4
  <2> QED  BY <2>3, <2>9, <2>10, <2>11, <2>12
<1> QED  BY <1>7, <1>8

\* s is what the walk from n on returns.
Walked(s, l, S, n) ==
  /\ s \in Seq(S)
  /\ s = <<>> <=> ~due(n)
  /\ s # <<>> => s[1] = n
  /\ \A i \in 1..Len(s) : due(s[i])
  /\ \A i \in 1..Len(s) - 1 : s[i + 1] = l.next[s[i]]
  /\ s # <<>> => l.next[s[Len(s)]] = NULL \/ ~due(l.next[s[Len(s)]])

LEMMA WalkedPut ==
  ASSUME NEW S, NEW l, NEW n \in S, due(n), l.next[n] \in S,
         NEW s, Walked(s, l, S, l.next[n])
  PROVE  Walked(<<n>> \o s, l, S, n)
<1> DEFINE r == <<n>> \o s
<1>1. s \in Seq(S)  BY DEF Walked
<1>2. /\ r \in Seq(S) /\ Len(r) = Len(s) + 1 /\ r[1] = n
      /\ \A i \in 2..Len(r) : r[i] = s[i - 1]
  BY <1>1
<1>3. Len(s) \in Nat  BY <1>1
<1> HIDE DEF r
<1>4. r # <<>>  BY <1>2, <1>3
<1>5. ASSUME NEW i \in 1..Len(r) PROVE due(r[i])
  <2>1. CASE i = 1  BY <1>2, <2>1
  <2>2. CASE i # 1
    <3>1. i \in 2..Len(r) /\ i - 1 \in 1..Len(s)  BY <1>2, <1>3, <2>2
    <3>2. due(s[i - 1])  BY <3>1 DEF Walked
    <3>3. r[i] = s[i - 1]  BY <1>2, <3>1
    <3> QED  BY <3>2, <3>3
  <2> QED  BY <2>1, <2>2
<1>6. ASSUME NEW i \in 1..Len(r) - 1 PROVE r[i + 1] = l.next[r[i]]
  <2>1. i + 1 \in 2..Len(r) /\ (i + 1) - 1 = i  BY <1>2, <1>3
  <2>2. r[i + 1] = s[i]  BY <1>2, <2>1
  <2>3. CASE i = 1
    <3>1. s # <<>>  BY <1>2, <1>3, <2>3
    <3>2. s[1] = l.next[n]  BY <3>1 DEF Walked
    <3> QED  BY <1>2, <2>2, <2>3, <3>2
  <2>4. CASE i # 1
    <3>1. i \in 2..Len(r) /\ i - 1 \in 1..Len(s) - 1 /\ (i - 1) + 1 = i
      BY <1>2, <1>3, <2>4
    <3>2. r[i] = s[i - 1]  BY <1>2, <3>1
    <3>3. s[(i - 1) + 1] = l.next[s[i - 1]]  BY <3>1 DEF Walked
    <3> QED  BY <2>2, <3>1, <3>2, <3>3
  <2> QED  BY <2>3, <2>4
<1>7. l.next[r[Len(r)]] = NULL \/ ~due(l.next[r[Len(r)]])
  <2>1. CASE s = <<>>
    <3>1. Len(r) = 1 /\ ~due(l.next[n])  BY <1>2, <2>1 DEF Walked
    <3> QED  BY <1>2, <3>1
  <2>2. CASE s # <<>>
    <3>1. Len(r) \in 2..Len(r) /\ Len(r) - 1 = Len(s)  BY <1>1, <1>2, <1>3, <2>2
    <3>2. r[Len(r)] = s[Len(s)]  BY <1>2, <3>1
    <3> QED  BY <2>2, <3>2 DEF Walked
  <2> QED  BY <2>1, <2>2
<1>8. Walked(r, l, S, n)  BY <1>2, <1>4, <1>5, <1>6, <1>7 DEF Walked
<1> QED  BY <1>8 DEF r

LEMMA DueFromDef ==
  ASSUME NEW l, NEW S, NEW ex, Sound(l, S, ex), NEW x \in Pointers
  PROVE  /\ DueFrom(l, x) = Walk(l)[x]
         /\ Walk(l)[x] = IF x = NULL THEN <<>>
                         ELSE IF ~due(x) THEN <<>> ELSE <<x>> \o Walk(l)[l.next[x]]
<1>1. l \in ListType /\ Clear(l, S) /\ (S # {} => Chain(l, S))  BY DEF Sound
<1>2. (S # {} => Ends(l.next, S)) /\ NULL \notin Timers  BY <1>1, ChainPart, Null
<1>3. l.next \in [Timers -> Pointers]  BY <1>1, ListFields
<1>4. Ends(l.next, Timers)
  <2> SUFFICES ASSUME NEW P \in SUBSET Timers, P # {} PROVE \E y \in P : l.next[y] \notin P
    BY DEF Ends
  <2>1. CASE P \in SUBSET S  BY <1>2, <2>1 DEF Ends
  <2>2. CASE P \notin SUBSET S
    <3> PICK y \in P : y \notin S  BY <2>2
    <3>1. l.next[y] = NULL  BY <1>1 DEF Clear
    <3> QED  BY <1>2, <3>1
  <2> QED  BY <2>1, <2>2
<1>5. Walks(Walk(l), l)  BY <1>3, <1>4, WalkDef
<1>6. DueFrom(l, x) = Walk(l)[x]  BY DEF DueFrom, Walk
<1> QED  BY <1>5, <1>6 DEF Walks

LEMMA WalkedFrom ==
  ASSUME NEW l, NEW S, NEW ex, Sound(l, S, ex), NEW n \in S
  PROVE  Walked(DueFrom(l, n), l, S, n)
<1> DEFINE f == Walk(l)
           Bad == {x \in S : ~Walked(f[x], l, S, x)}
<1>1. /\ l \in ListType /\ S \in SUBSET Timers /\ Clear(l, S) /\ Chain(l, S)
  BY DEF Sound
<1>2. /\ \A x \in S : l.next[x] \in S \cup {NULL}
      /\ Ends(l.next, S) /\ NULL \notin Timers
  BY <1>1, Neighbours, ChainPart, Null
<1>5. ASSUME NEW x \in Pointers
      PROVE  f[x] = IF x = NULL THEN <<>> ELSE IF ~due(x) THEN <<>> ELSE <<x>> \o f[l.next[x]]
  BY DueFromDef
<1>6. DueFrom(l, n) = f[n]  BY DEF DueFrom, Walk
<1> HIDE DEF f
<1> SUFFICES ASSUME Bad # {} PROVE FALSE  BY <1>6
<1> PICK x \in Bad : l.next[x] \notin Bad
  <2>1. Bad \in SUBSET S  OBVIOUS
  <2> HIDE DEF Bad
  <2> QED  BY <1>2, <2>1 DEF Ends
<1>7. x \in S /\ x \in Pointers /\ x # NULL /\ NULL \in Pointers  BY <1>1, <1>2 DEF Pointers
<1>8. Walked(f[x], l, S, x)
  <2>1. CASE ~due(x)
    <3>1. f[x] = <<>>  BY <1>5, <1>7, <2>1
    <3>2. <<>> \in Seq(S) /\ Len(<<>>) = 0  OBVIOUS
    <3> QED  BY <2>1, <3>1, <3>2 DEF Walked
  <2>2. CASE due(x) /\ l.next[x] = NULL
    <3>1. f[x] = <<x>> \o <<>>  BY <1>5, <1>7, <2>2
    <3>2. f[x] = <<x>>  BY <3>1
    <3>3. <<x>> \in Seq(S) /\ Len(<<x>>) = 1 /\ <<x>>[1] = x /\ <<x>> # <<>>  BY <1>7
    <3>4. \A i \in 1..Len(<<x>>) : i = 1  BY <3>3
    <3>5. 1..Len(<<x>>) - 1 = {}  BY <3>3
    <3> QED  BY <2>2, <3>2, <3>3, <3>4, <3>5 DEF Walked
  <2>3. CASE due(x) /\ l.next[x] # NULL
    <3>1. f[x] = <<x>> \o f[l.next[x]]  BY <1>5, <1>7, <2>3
    <3>2. l.next[x] \in S  BY <1>2, <1>7, <2>3
    <3>3. Walked(f[l.next[x]], l, S, l.next[x])  BY <3>2
    <3> QED  BY <1>7, <2>3, <3>1, <3>2, <3>3, WalkedPut
  <2> QED  BY <2>1, <2>2, <2>3
<1> QED  BY <1>8

RangeOf(s) == {s[i] : i \in DOMAIN s}

\* The walk finds the front of the list, and behind it no timer is due.
LEMMA WalkFront ==
  ASSUME NEW l, NEW S, Sound(l, S, expire), NEW s, Walked(s, l, S, l.head), S # {},
         s # <<>>
  PROVE  Front(l, S, RangeOf(s), s[Len(s)])
<1> DEFINE A == RangeOf(s)
           k == s[Len(s)]
<1>1. Chain(l, S) /\ S \in SUBSET Timers  BY DEF Sound
<1>2. s \in Seq(S) /\ Len(s) \in Nat /\ 1 \in 1..Len(s) /\ Len(s) \in 1..Len(s)
      /\ s[1] = l.head /\ DOMAIN s = 1..Len(s)
  BY DEF Walked
<1>3. A \in SUBSET S /\ \A x : x \in A <=> \E i \in 1..Len(s) : x = s[i]
  BY <1>2 DEF RangeOf
<1>4. /\ \A x, y \in S : l.next[x] = y <=> l.prev[y] = x
      /\ NULL \notin S
  BY <1>1, Neighbours
<1> HIDE DEF A
<1>5. l.head \in A /\ k \in A  BY <1>2, <1>3
<1>6. l.next[k] \notin A
  <2>1. \A y \in A : due(y)  BY <1>3 DEF Walked
  <2>2. l.next[k] = NULL \/ ~due(l.next[k])  BY DEF Walked
  <2> QED  BY <1>3, <1>4, <2>1, <2>2
<1>7. ASSUME NEW y \in A \ {k} PROVE l.next[y] \in A
  <2> PICK i \in 1..Len(s) : y = s[i]  BY <1>3
  <2>1. i \in 1..Len(s) - 1 /\ i + 1 \in 1..Len(s)  BY <1>2
  <2>2. s[i + 1] = l.next[s[i]]  BY <2>1 DEF Walked
  <2> QED  BY <1>3, <2>1, <2>2
<1>8. ASSUME NEW y \in A \ {l.head} PROVE l.prev[y] \in A
  <2> PICK i \in 1..Len(s) : y = s[i]  BY <1>3
  <2>1. i - 1 \in 1..Len(s) - 1 /\ (i - 1) + 1 = i /\ i - 1 \in 1..Len(s)  BY <1>2
  <2>2. s[(i - 1) + 1] = l.next[s[i - 1]]  BY <2>1 DEF Walked
  <2>3. s[i - 1] \in A /\ y \in S /\ s[i - 1] \in S  BY <1>3, <2>1
  <2>4. l.prev[y] = s[i - 1]  BY <1>4, <2>1, <2>2, <2>3
  <2> QED  BY <2>3, <2>4
<1> HIDE DEF k
<1>9. Front(l, S, A, k)  BY <1>3, <1>5, <1>6, <1>7, <1>8 DEF Front
<1> QED  BY <1>9 DEF A, k

\* What the walk from head finds are the due timers, all of them.
LEMMA WalkDue ==
  ASSUME NEW l, NEW S, Sound(l, S, expire), now \in Times
  PROVE  RangeOf(DueFrom(l, l.head)) = {t \in S : due(t)} /\ DueFrom(l, l.head) \in Seq(S)
<1> DEFINE s == DueFrom(l, l.head)
           A == RangeOf(s)
           Missed == {t \in S : due(t) /\ t \notin A}
<1>1. CASE S = {}
  <2>1. l.head = NULL /\ NULL \in Pointers  BY <1>1 DEF Sound, Pointers
  <2>2. s = <<>>  BY <2>1, DueFromDef
  <2> QED  BY <1>1, <2>2 DEF RangeOf
<1>2. CASE S # {}
  <2>1. /\ S \in SUBSET Timers /\ Chain(l, S) /\ Ordered(l, expire, S)
        /\ expire \in [Timers -> Times]
    BY <1>2 DEF Sound
  <2>2. /\ \A x \in S : l.next[x] \in S \cup {NULL}
        /\ \A x \in S : l.prev[x] \in S \cup {NULL} /\ (l.prev[x] = NULL <=> x = l.head)
        /\ \A x, y \in S : l.next[x] = y <=> l.prev[y] = x
        /\ NULL \notin S /\ l.head \in S /\ Ends(l.prev, S)
    BY <2>1, Neighbours, ChainPart
  <2>3. Walked(s, l, S, l.head)  BY <2>2, WalkedFrom
  <2> HIDE DEF s
  <2>4. s \in Seq(S) /\ DOMAIN s = 1..Len(s)  BY <2>3 DEF Walked
  <2>5. A \in SUBSET S /\ \A t \in A : due(t)  BY <2>3, <2>4 DEF Walked, RangeOf
  <2>6. Missed = {}
    <3> SUFFICES ASSUME Missed # {} PROVE FALSE  OBVIOUS
    <3> PICK x \in Missed : l.prev[x] \notin Missed
      <4>1. Missed \in SUBSET S  OBVIOUS
      <4> HIDE DEF Missed
      <4> QED  BY <2>2, <4>1 DEF Ends
    <3>1. x \in S /\ due(x) /\ x \notin A  OBVIOUS
    <3>2. CASE x = l.head
      <4>1. s # <<>> /\ s[1] = x  BY <2>3, <3>1, <3>2 DEF Walked
      <4>2. 1 \in DOMAIN s  BY <2>4, <4>1
      <4> QED  BY <3>1, <4>1, <4>2 DEF RangeOf
    <3>3. CASE x # l.head
      <4> DEFINE y == l.prev[x]
      <4>1. y \in S /\ l.next[y] = x  BY <2>2, <3>1, <3>3
      <4>2. due(y)
        <5>1. expire[y] <= expire[x] /\ expire[y] \in Int /\ expire[x] \in Int /\ now \in Int
          BY <2>1, <2>2, <3>1, <4>1, Null DEF Ordered, Times
        <5> QED  BY <3>1, <5>1 DEF due
      <4>3. y \in A  BY <4>1, <4>2
      <4> HIDE DEF y, A
      <4>4. s # <<>>  BY <4>3 DEF A, RangeOf
      <4>5. Front(l, S, A, s[Len(s)])  BY <1>2, <2>3, <4>4, WalkFront DEF A
      <4>6. y = s[Len(s)]  BY <3>1, <4>1, <4>3, <4>5 DEF Front
      <4>7. ~due(x)  BY <2>2, <2>3, <3>1, <4>1, <4>4, <4>6 DEF Walked
      <4> QED  BY <3>1, <4>7
    <3> QED  BY <3>2, <3>3
  <2> HIDE DEF A
  <2> QED  BY <2>4, <2>5, <2>6 DEF A, s
<1> QED  BY <1>1, <1>2

LEMMA TickSound ==
  ASSUME NEW l, NEW S, Sound(l, S, expire), NEW s, s = DueFrom(l, l.head)
  PROVE  SoundBut(Ticked(l, s), S \ RangeOf(s), expire, RangeOf(s))
<1>1. CASE s = <<>>
  <2>1. Ticked(l, s) = l /\ RangeOf(s) = {}  BY <1>1 DEF Ticked, RangeOf
  <2>2. SoundBut(l, S \ {}, expire, {})
    <3>1. S \ {} = S /\ S \cup {} = S /\ S \cap {} = {}  OBVIOUS
    <3> QED  BY <3>1 DEF Sound, SoundBut
  <2> QED  BY <2>1, <2>2
<1>2. CASE s # <<>>
  <2>1. S # {}
    <3> SUFFICES ASSUME S = {} PROVE FALSE  OBVIOUS
    <3>1. l.head = NULL /\ NULL \in Pointers  BY DEF Sound, Pointers
    <3> QED  BY <1>2, <3>1, DueFromDef
  <2>2. l.head \in S  BY <2>1, ChainPart DEF Sound
  <2>3. Walked(s, l, S, l.head)  BY <2>2, WalkedFrom
  <2>4. Front(l, S, RangeOf(s), s[Len(s)])  BY <1>2, <2>1, <2>3, WalkFront
  <2>5. Ticked(l, s) = CutBehind(l, s[Len(s)])  BY <1>2 DEF Ticked, CutBehind
  <2> QED  BY <2>4, <2>5, CutSound
<1> QED  BY <1>1, <1>2

-----------------------------------------------------------------------------
(* The invariant *)

ListInv == TypeOK /\ Sound(list, live, expire)

LEMMA ListInit == Init => ListInv
<1> SUFFICES ASSUME Init PROVE ListInv  OBVIOUS
<1>1. /\ list = [head |-> NULL, tail |-> NULL,
                 prev |-> [t \in Timers |-> NULL], next |-> [t \in Timers |-> NULL]]
      /\ expire = [t \in Timers |-> 0] /\ live = {} /\ now = 0 /\ fired = <<>>
  BY DEF Init
<1>2. 0 \in Times /\ NULL \in Pointers  BY Null DEF Times, Pointers
<1>3. /\ list \in ListType /\ expire \in [Timers -> Times] /\ now \in Times
      /\ list.head = NULL /\ fired \in Seq(Timers)
  BY <1>1, <1>2 DEF ListType
<1>4. Ordered(list, expire, live) /\ Clear(list, live)  BY <1>1 DEF Ordered, Clear
<1>5. live = {}  BY <1>1
<1> QED  BY <1>3, <1>4, <1>5 DEF ListInv, TypeOK, Sound, ListType

LEMMA FreeIsFreed ==
  ASSUME NEW l, NEW gone, Free(l, gone)
  PROVE  live' = live \ gone /\ expire' = Zeroed(expire, gone) /\ list' = Freed(l, gone)
BY DEF Free, Freed, Zeroed

LEMMA SoundType ==
  ASSUME Sound(list, live, expire)', now' \in Times, fired' \in Seq(Timers)
  PROVE  ListInv'
BY DEF Sound, ListInv, TypeOK, ListType

LEMMA ListNext == ListInv /\ [Next]_vars => ListInv'
<1> SUFFICES ASSUME ListInv, [Next]_vars PROVE ListInv'  OBVIOUS
<1>1. /\ Sound(list, live, expire) /\ now \in Times /\ fired \in Seq(Timers)
      /\ live \in SUBSET Timers /\ expire \in [Timers -> Times]
  BY DEF ListInv, TypeOK
<1>2. <<>> \in Seq(Timers)  OBVIOUS
<1>3. ASSUME NEW t \in Timers, NEW e \in Times, Add(t, e) PROVE ListInv'
  <2>1. t \notin live /\ live' = live \cup {t} /\ list' = Added(list, expire', t)
        /\ fired' = <<>> /\ now' = now
    BY <1>3 DEF Add
  <2>2. expire' \in [Timers -> Times] /\ \A x \in live : expire'[x] = expire[x]
    BY <1>1, <1>3, <2>1 DEF Add
  <2>3. Sound(Added(list, expire', t), live \cup {t}, expire')
    BY <1>1, <2>1, <2>2, AddSound
  <2> QED  BY <1>1, <1>2, <2>1, <2>3, SoundType
<1>4. ASSUME NEW t \in Timers, NEW e \in Times, Adjust(t, e) PROVE ListInv'
  <2>1. t \in live /\ live' = live /\ list' = Adjusted(list, expire', t)
        /\ fired' = <<>> /\ now' = now
    BY <1>4 DEF Adjust
  <2>2. /\ expire' \in [Timers -> Times] /\ expire[t] <= expire'[t]
        /\ \A x \in live \ {t} : expire'[x] = expire[x]
    BY <1>1, <1>4, <2>1 DEF Adjust
  <2>3. Sound(Adjusted(list, expire', t), live, expire')
    BY <1>1, <2>1, <2>2, AdjustSound
  <2> QED  BY <1>1, <1>2, <2>1, <2>3, SoundType
<1>5. ASSUME NEW t \in Timers, Delete(t) PROVE ListInv'
  <2>1. t \in live /\ Free(Deleted(list, t), {t}) /\ fired' = <<>> /\ now' = now
    BY <1>5 DEF Delete
  <2>2. Sound(Freed(Deleted(list, t), {t}), live \ {t}, Zeroed(expire, {t}))
    BY <1>1, <2>1, DeleteSound
  <2>3. Sound(list', live', expire')  BY <2>1, <2>2, FreeIsFreed
  <2> QED  BY <1>1, <1>2, <2>1, <2>3, SoundType
<1>6. ASSUME Tick PROVE ListInv'
  <2>1. /\ fired' = DueFrom(list, list.head) /\ now' = now
        /\ Free(Ticked(list, fired'), RangeOf(fired'))
    BY <1>6 DEF Tick, RangeOf
  <2>2. SoundBut(Ticked(list, fired'), live \ RangeOf(fired'), expire, RangeOf(fired'))
    BY <1>1, <2>1, TickSound
  <2>3. Sound(Freed(Ticked(list, fired'), RangeOf(fired')), live \ RangeOf(fired'),
              Zeroed(expire, RangeOf(fired')))
    BY <2>2, FreeSound
  <2>4. Sound(list', live', expire')  BY <2>1, <2>3, FreeIsFreed
  <2>5. fired' \in Seq(Timers)
    <3>1. fired' \in Seq(live)  BY <1>1, <2>1, WalkDue
    <3> QED  BY <1>1, <3>1
  <2> QED  BY <1>1, <2>1, <2>4, <2>5, SoundType
<1>7. ASSUME Pass PROVE ListInv'
  <2>1. /\ now' = now + 1 /\ now < MaxTime /\ fired' = <<>>
        /\ list' = list /\ expire' = expire /\ live' = live
    BY <1>7 DEF Pass
  <2>2. now' \in Times  BY <1>1, <2>1, Null DEF Times
  <2> QED  BY <1>1, <1>2, <2>1, <2>2, SoundType
<1>8. CASE UNCHANGED vars
  BY <1>1, <1>8, SoundType DEF vars
<1> QED  BY <1>3, <1>4, <1>5, <1>6, <1>7, <1>8 DEF Next

\* Every reachable list is sound: the pointers of the live timers make one chain
\* with no ring beside it, in the order of expire, and no other pointer is set.
THEOREM Invariant == Spec => []ListInv
<1>1. Init => ListInv  BY ListInit
<1>2. ListInv /\ [Next]_vars => ListInv'  BY ListNext
<1> QED  BY <1>1, <1>2, PTL DEF Spec

\* After any calls of add_timer, adjust_timer, del_timer and tick the list is well
\* linked and sorted, whatever their order and their arguments.
THEOREM WellFormedAlways == Spec => []WellFormed
<1>1. ListInv => WellFormed
  <2> SUFFICES ASSUME ListInv PROVE WellFormed  OBVIOUS
  <2>1. /\ TypeOK /\ (list.head = NULL) = (live = {}) /\ Ordered(list, expire, live)
        /\ live # {} => Chain(list, live)
    BY DEF ListInv, Sound
  <2>2. WellLinked  BY <2>1 DEF WellLinked, Chain
  <2>3. Sorted  BY <2>1 DEF Sorted, Ordered
  <2> QED  BY <2>1, <2>2, <2>3 DEF WellFormed
<1> QED  BY <1>1, Invariant, PTL

-----------------------------------------------------------------------------
(* The list implements the set of timers *)

LEMMA AbstractInit == Init => Abstract!Init
<1> SUFFICES ASSUME Init PROVE Abstract!Init  OBVIOUS
<1>1. live = {} /\ now = 0 /\ fired = <<>>  BY DEF Init
<1>2. {fired[i] : i \in DOMAIN fired} = {}  BY <1>1
<1>3. [t \in live |-> expire[t]] = [t \in {} |-> 0]  BY <1>1
<1> QED  BY <1>1, <1>2, <1>3 DEF Abstract!Init

LEMMA AbstractNext ==
  ASSUME ListInv, [Next]_vars
  PROVE  [Abstract!Next]_(Abstract!vars)
<1> DEFINE d == [t \in live |-> expire[t]]
           fr == {fired[i] : i \in DOMAIN fired}
<1>1. /\ Sound(list, live, expire) /\ now \in Times /\ fired \in Seq(Timers)
      /\ live \in SUBSET Timers /\ expire \in [Timers -> Times]
  BY DEF ListInv, TypeOK
<1>2. ASSUME fired' = <<>> PROVE fr' = {}  BY <1>2
<1>3. DOMAIN d = live /\ \A t \in live : d[t] = expire[t]  OBVIOUS
<1>4. ASSUME NEW t \in Timers, NEW e \in Times, Add(t, e)
      PROVE  Abstract!Add(t, e)
  <2>1. /\ t \notin live /\ live' = live \cup {t} /\ fired' = <<>> /\ now' = now
        /\ expire' = [expire EXCEPT ![t] = e]
    BY <1>4 DEF Add
  <2>2. d' = [u \in live \cup {t} |-> IF u = t THEN e ELSE d[u]]
    BY <1>1, <2>1
  <2> HIDE DEF d, fr
  <2>3. d' = Abstract!Set(t, e)  BY <1>3, <2>2 DEF Abstract!Set, d
  <2> QED  BY <1>2, <1>3, <2>1, <2>3 DEF Abstract!Add, d, fr
<1>5. ASSUME NEW t \in Timers, NEW e \in Times, Adjust(t, e)
      PROVE  Abstract!Adjust(t, e)
  <2>1. /\ t \in live /\ expire[t] <= e /\ live' = live /\ fired' = <<>> /\ now' = now
        /\ expire' = [expire EXCEPT ![t] = e]
    BY <1>5 DEF Adjust
  <2>2. d' = [u \in live \cup {t} |-> IF u = t THEN e ELSE d[u]]
    BY <1>1, <2>1
  <2> HIDE DEF d, fr
  <2>3. d' = Abstract!Set(t, e)  BY <1>3, <2>2 DEF Abstract!Set, d
  <2> QED  BY <1>2, <1>3, <2>1, <2>3 DEF Abstract!Adjust, d, fr
<1>6. ASSUME NEW gone, live' = live \ gone, expire' = Zeroed(expire, gone)
      PROVE  d' = Restrict(d, DOMAIN d \ gone)
  <2>1. \A t \in live \ gone : expire'[t] = expire[t]  BY <1>1, <1>6 DEF Zeroed
  <2> QED  BY <1>6, <2>1 DEF Restrict
<1>7. ASSUME NEW t \in Timers, Delete(t) PROVE Abstract!Delete(t)
  <2>1. /\ t \in live /\ fired' = <<>> /\ now' = now
        /\ live' = live \ {t} /\ expire' = Zeroed(expire, {t})
    BY <1>7, FreeIsFreed DEF Delete
  <2>2. d' = Restrict(d, DOMAIN d \ {t})  BY <1>6, <2>1
  <2> HIDE DEF d, fr
  <2> QED  BY <1>2, <1>3, <2>1, <2>2 DEF Abstract!Delete, Abstract!Restrict, Restrict, d, fr
<1>8. ASSUME Tick PROVE Abstract!Tick
  <2>1. /\ fired' = DueFrom(list, list.head) /\ now' = now
        /\ Free(Ticked(list, fired'), RangeOf(fired'))
    BY <1>8 DEF Tick, RangeOf
  <2>2. RangeOf(fired') = {t \in live : due(t)}  BY <1>1, <2>1, WalkDue
  <2>3. fr' = RangeOf(fired')  BY DEF RangeOf
  <2>4. {t \in live : due(t)} = {t \in live : expire[t] <= now}
    <3>1. \A t \in live : expire[t] \in Int /\ now \in Int  BY <1>1, Null DEF Times
    <3> QED  BY <3>1 DEF due
  <2>5. live' = live \ fr' /\ expire' = Zeroed(expire, fr')
    BY <2>1, <2>3, FreeIsFreed
  <2>6. d' = Restrict(d, DOMAIN d \ fr')  BY <1>6, <2>5
  <2>7. fr' = {t \in DOMAIN d : d[t] <= now}  BY <2>2, <2>3, <2>4
  <2> HIDE DEF d, fr
  <2> QED  BY <2>1, <2>6, <2>7 DEF Abstract!Tick, Abstract!Due, Abstract!Restrict, Restrict, d, fr
<1>9. ASSUME Pass PROVE Abstract!Pass
  BY <1>9 DEF Pass, Abstract!Pass
<1>10. CASE UNCHANGED vars  BY <1>10 DEF vars, Abstract!vars
<1>11. CASE Next
  <2>1. CASE \E t \in Timers, e \in Times : Add(t, e) \/ Adjust(t, e)
    BY <1>4, <1>5, <2>1 DEF Abstract!Next, Abstract!Times, Times
  <2>2. CASE \E t \in Timers : Delete(t)  BY <1>7, <2>2 DEF Abstract!Next
  <2>3. CASE Tick  BY <1>8, <2>3 DEF Abstract!Next
  <2>4. CASE Pass  BY <1>9, <2>4 DEF Abstract!Next
  <2> QED  BY <1>11, <2>1, <2>2, <2>3, <2>4 DEF Next
<1> QED  BY <1>10, <1>11

\* Seen from the server the list is a set of timers: whatever calls were made, a
\* tick fires exactly the timers that are due, and no call loses or adds another.
THEOREM TimerSetImplemented == Spec => ImplementsTimerSet
<1>1. Init => Abstract!Init  BY AbstractInit
<1>2. ListInv /\ [Next]_vars => [Abstract!Next]_(Abstract!vars)  BY AbstractNext
<1> QED  BY <1>1, <1>2, Invariant, PTL DEF Spec, ImplementsTimerSet, Abstract!Spec
====
