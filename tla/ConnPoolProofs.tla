--------------------------- MODULE ConnPoolProofs ---------------------------
(***************************************************************************)
(* Proofs about ConnPool, for any number of workers, connections and       *)
(* signals: the counters, where each connection is, and what a pool that   *)
(* is large enough promises.                                               *)
(***************************************************************************)
EXTENDS ConnPool, SequenceTheorems, FiniteSetTheorems, TLAPS

-----------------------------------------------------------------------------
(* The inductive invariant of the counters.  Only a thread in process() has *)
(* a connection.                                                            *)

OnlyInUse == \A t \in Threads : con[t] # NULL => pc[t] = "use"
Counts ==
  /\ FreeConn = Len(connList) /\ CurConn = Cardinality(Holders)
  /\ Len(connList) + Cardinality(Holders) = MaxConn
Parted == Listed \cup {con[t] : t \in Holders} = Conns
Inv == TypeOK /\ OnlyInUse /\ Counts /\ Parted /\ ReserveCovers

\* Sets of threads are finite, and one thread more or less is one more or less.
LEMMA ThreadSets ==
  ASSUME NEW S, S \subseteq Threads, NEW t \in Threads
  PROVE  /\ IsFiniteSet(S) /\ Cardinality(S) \in Nat
         /\ t \notin S => Cardinality(S \cup {t}) = Cardinality(S) + 1
         /\ t \in S => Cardinality(S \ {t}) = Cardinality(S) - 1
         /\ t \in S => Cardinality(S) > 0
<1>1. IsFiniteSet(S) /\ Cardinality(S) \in Nat
  BY ConnPoolAssumption, FS_Subset, FS_CardinalityType
<1>2. t \in S => Cardinality(S) # 0  BY <1>1, FS_EmptySet
<1>3. Cardinality(S) > 0 \/ Cardinality(S) = 0  BY <1>1
<1>4. t \notin S => Cardinality(S \cup {t}) = Cardinality(S) + 1
  BY <1>1, FS_AddElement
<1>5. t \in S => Cardinality(S \ {t}) = Cardinality(S) - 1
  BY <1>1, FS_RemoveElement
<1> QED  BY <1>1, <1>2, <1>3, <1>4, <1>5

LEMMA Constants == MaxConn \in Nat \ {0} /\ NULL \notin Conns /\ NULL = 0
BY ConnPoolAssumption DEF Conns, NULL

\* What each action does to the connections and to the places of the threads.
Keeps == UNCHANGED <<connList, counters, con>>

LEMMA KeepingActions ==
  ASSUME NEW t \in Threads,
         \/ Begin(t) \/ CheckEmpty(t) \/ CheckSome(t) \/ Wait(t) \/ WaitInterrupted(t)
         \/ PopEmpty(t) \/ ReleaseNull(t) \/ Post(t)
  PROVE  Keeps
BY DEF Begin, CheckEmpty, CheckSome, Wait, WaitInterrupted, PopEmpty,
       ReleaseNull, Post, Keeps

LEMMA PopEffect ==
  ASSUME TypeOK, NEW t \in Threads, Pop(t)
  PROVE  /\ connList # <<>> /\ Head(connList) \in Conns
         /\ connList' = Tail(connList) /\ connList' \in Seq(Conns)
         /\ Len(connList') = Len(connList) - 1 /\ Len(connList) \in Nat \ {0}
         /\ con' = [con EXCEPT ![t] = Head(connList)]
         /\ FreeConn' = FreeConn - 1 /\ CurConn' = CurConn + 1
         /\ pc[t] = "pop" /\ pc' = [pc EXCEPT ![t] = "use"]
<1>1. /\ connList # <<>> /\ connList' = Tail(connList)
      /\ con' = [con EXCEPT ![t] = Head(connList)]
      /\ FreeConn' = FreeConn - 1 /\ CurConn' = CurConn + 1
      /\ pc[t] = "pop" /\ pc' = [pc EXCEPT ![t] = "use"]
  BY DEF Pop, pop, countTaken, Goto
<1>2. connList \in Seq(Conns)  BY DEF TypeOK
<1>3. Head(connList) \in Conns /\ Tail(connList) \in Seq(Conns)
      /\ Len(Tail(connList)) = Len(connList) - 1
  BY <1>1, <1>2, HeadTailProperties
<1>4. Len(connList) \in Nat \ {0}  BY <1>1, <1>2, EmptySeq, LenProperties
<1> QED  BY <1>1, <1>3, <1>4

LEMMA ReleaseEffect ==
  ASSUME TypeOK, NEW t \in Threads, Release(t)
  PROVE  /\ con[t] \in Conns
         /\ connList' = Append(connList, con[t]) /\ connList' \in Seq(Conns)
         /\ Len(connList') = Len(connList) + 1 /\ Len(connList) \in Nat
         /\ con' = [con EXCEPT ![t] = NULL]
         /\ FreeConn' = FreeConn + 1 /\ CurConn' = CurConn - 1
         /\ pc[t] = "use" /\ pc' = [pc EXCEPT ![t] = "post"]
<1>1. /\ con[t] # NULL /\ connList' = Append(connList, con[t])
      /\ con' = [con EXCEPT ![t] = NULL]
      /\ FreeConn' = FreeConn + 1 /\ CurConn' = CurConn - 1
      /\ pc[t] = "use" /\ pc' = [pc EXCEPT ![t] = "post"]
  BY DEF Release, countReturned, Goto
<1>2. connList \in Seq(Conns) /\ con[t] \in Conns \cup {NULL}  BY DEF TypeOK
<1>3. con[t] \in Conns  BY <1>1, <1>2
<1> QED  BY <1>1, <1>2, <1>3, AppendProperties, LenProperties

-----------------------------------------------------------------------------
LEMMA InitInv == Init => Inv
<1> SUFFICES ASSUME Init PROVE Inv  OBVIOUS
<1>1. connList \in Seq(Conns) /\ Len(connList) = MaxConn
  BY Constants DEF Init, Conns
<1>2. TypeOK
  <2>1. aborted \in BOOLEAN  BY DEF Init
  <2>2. /\ reserve \in Nat /\ FreeConn \in Nat /\ CurConn \in Nat
        /\ signals \in 0..MaxSignals
    BY ConnPoolAssumption DEF Init
  <2>3. /\ pc \in [Threads -> {"idle", "check", "wait", "pop", "use", "post"}]
        /\ con \in [Threads -> Conns \cup {NULL}]
    BY DEF Init
  <2> QED  BY <1>1, <2>1, <2>2, <2>3 DEF TypeOK
<1>3. Holders = {} /\ At("pop") = {} /\ At("post") = {}
  BY DEF Init, Holders, At
<1>4. Cardinality(Holders) = 0 /\ Cardinality(Passed) = 0
  BY <1>3, FS_EmptySet DEF Passed
<1>5. OnlyInUse  BY DEF Init, OnlyInUse
<1>6. Counts  BY <1>1, <1>4, Constants DEF Init, Counts
<1>7. Parted
  <2>1. Listed = Conns  BY DEF Init, Listed
  <2> QED  BY <1>3, <2>1 DEF Parted
<1>8. ReserveCovers  BY <1>4, Constants DEF Init, ReserveCovers
<1> QED  BY <1>2, <1>5, <1>6, <1>7, <1>8 DEF Inv

LEMMA OnlyInUseStep == TypeOK /\ OnlyInUse /\ [Next]_vars => OnlyInUse'
<1> SUFFICES ASSUME TypeOK, OnlyInUse, [Next]_vars PROVE OnlyInUse'  OBVIOUS
<1>0. /\ pc \in [Threads -> {"idle", "check", "wait", "pop", "use", "post"}]
      /\ con \in [Threads -> Conns \cup {NULL}]
  BY DEF TypeOK
<1>1. ASSUME NEW t \in Threads, Pop(t) PROVE OnlyInUse'
  BY <1>0, <1>1, PopEffect DEF OnlyInUse
<1>2. ASSUME NEW t \in Threads, Release(t) PROVE OnlyInUse'
  BY <1>0, <1>2, ReleaseEffect DEF OnlyInUse
<1>3. ASSUME NEW t \in Threads, NEW to, con' = con, con[t] = NULL,
             pc' = [pc EXCEPT ![t] = to]
      PROVE  OnlyInUse'
  BY <1>0, <1>3 DEF OnlyInUse
<1>4. ASSUME NEW t \in Threads,
             \/ Begin(t) \/ CheckEmpty(t) \/ CheckSome(t) \/ Wait(t)
             \/ WaitInterrupted(t) \/ PopEmpty(t) \/ ReleaseNull(t) \/ Post(t)
      PROVE  OnlyInUse'
  <2>1. con' = con  BY <1>4, KeepingActions DEF Keeps
  <2>2. \E to : pc' = [pc EXCEPT ![t] = to]
    BY <1>4 DEF Begin, CheckEmpty, CheckSome, Wait, WaitInterrupted, PopEmpty,
                ReleaseNull, Post, Goto
  <2>3. con[t] = NULL
    BY <1>4 DEF Begin, CheckEmpty, CheckSome, Wait, WaitInterrupted, PopEmpty,
                ReleaseNull, Post, Goto, OnlyInUse
  <2> QED  BY <1>3, <2>1, <2>2, <2>3
<1>5. CASE UNCHANGED vars  BY <1>5 DEF vars, OnlyInUse
<1> QED  BY <1>1, <1>2, <1>4, <1>5 DEF Next, Serve

LEMMA HoldersMove ==
  ASSUME TypeOK, NEW t \in Threads, NEW c, con' = [con EXCEPT ![t] = c]
  PROVE  /\ c # NULL => Holders' = Holders \cup {t}
         /\ c = NULL => Holders' = Holders \ {t}
BY DEF Holders, TypeOK

LEMMA CountsStep == TypeOK /\ OnlyInUse /\ Counts /\ [Next]_vars => Counts'
<1> SUFFICES ASSUME TypeOK, OnlyInUse, Counts, [Next]_vars PROVE Counts'  OBVIOUS
<1>1. ASSUME NEW t \in Threads, Pop(t) PROVE Counts'
  <2>1. t \notin Holders  BY <1>1, PopEffect DEF Holders, OnlyInUse
  <2>2. Holders' = Holders \cup {t}  BY <1>1, PopEffect, HoldersMove, Constants
  <2>3. Cardinality(Holders') = Cardinality(Holders) + 1 /\ Cardinality(Holders) \in Nat
    BY <2>1, <2>2, ThreadSets DEF Holders
  <2> QED  BY <1>1, <2>3, PopEffect, Constants DEF Counts
<1>2. ASSUME NEW t \in Threads, Release(t) PROVE Counts'
  <2>1. t \in Holders  BY <1>2 DEF Release, Holders
  <2>2. Holders' = Holders \ {t}  BY <1>2, ReleaseEffect, HoldersMove
  <2>3. Cardinality(Holders') = Cardinality(Holders) - 1 /\ Cardinality(Holders) \in Nat
    BY <2>1, <2>2, ThreadSets DEF Holders
  <2> QED  BY <1>2, <2>3, ReleaseEffect, Constants DEF Counts
<1>3. CASE Keeps  BY <1>3 DEF Keeps, counters, Counts, Holders
<1>4. CASE UNCHANGED vars  BY <1>3, <1>4 DEF vars, Keeps
<1> QED  BY <1>1, <1>2, <1>3, <1>4, KeepingActions DEF Next, Serve

LEMMA PartedStep == TypeOK /\ OnlyInUse /\ Parted /\ [Next]_vars => Parted'
<1> SUFFICES ASSUME TypeOK, OnlyInUse, Parted, [Next]_vars PROVE Parted'  OBVIOUS
<1>0. connList \in Seq(Conns) /\ con \in [Threads -> Conns \cup {NULL}]  BY DEF TypeOK
<1>1. ASSUME NEW t \in Threads, Pop(t) PROVE Parted'
  <2>1. t \notin Holders  BY <1>1, PopEffect DEF Holders, OnlyInUse
  <2>2. Holders' = Holders \cup {t}  BY <1>1, PopEffect, HoldersMove, Constants
  <2>3. {con'[u] : u \in Holders'} = {con[u] : u \in Holders} \cup {Head(connList)}
    BY <1>0, <1>1, <2>1, <2>2, PopEffect DEF Holders
  <2>4. Listed = Listed' \cup {Head(connList)}
    <3>1. /\ connList' = Tail(connList) /\ Len(connList) \in Nat \ {0}
          /\ Len(connList') = Len(connList) - 1
      BY <1>1, PopEffect
    <3>2. \A i \in 1..Len(connList') : connList'[i] = connList[i+1]
      BY <1>0, <1>1, <3>1, PopEffect, HeadTailProperties
    <3>3. connList[1] = Head(connList)  BY <1>0, <3>1
    <3>4. DOMAIN connList = 1..Len(connList) /\ DOMAIN connList' = 1..Len(connList')
      BY <1>0, <1>1, PopEffect, LenProperties
    <3>5. ASSUME NEW x \in Listed PROVE x \in Listed' \cup {Head(connList)}
      <4>1. PICK i \in 1..Len(connList) : x = connList[i]  BY <3>4 DEF Listed
      <4>2. CASE i = 1  BY <3>3, <4>1, <4>2
      <4>3. CASE i # 1
        <5>1. i - 1 \in 1..Len(connList') /\ (i - 1) + 1 = i  BY <3>1, <4>1, <4>3
        <5>2. connList'[i - 1] = x  BY <3>2, <4>1, <5>1
        <5> QED  BY <3>4, <5>1, <5>2 DEF Listed
      <4> QED  BY <4>2, <4>3
    <3>6. ASSUME NEW x \in Listed' PROVE x \in Listed
      <4>1. PICK i \in 1..Len(connList') : x = connList'[i]  BY <3>4 DEF Listed
      <4>2. i + 1 \in 1..Len(connList)  BY <3>1, <4>1
      <4> QED  BY <3>2, <3>4, <4>1, <4>2 DEF Listed
    <3>7. Head(connList) \in Listed
      <4>1. 1 \in 1..Len(connList)  BY <3>1
      <4> QED  BY <3>3, <3>4, <4>1 DEF Listed
    <3> QED  BY <3>5, <3>6, <3>7
  <2> QED  BY <2>3, <2>4 DEF Parted
<1>2. ASSUME NEW t \in Threads, Release(t) PROVE Parted'
  <2>1. Holders' = Holders \ {t}  BY <1>2, ReleaseEffect, HoldersMove
  <2>2. t \in Holders  BY <1>2 DEF Release, Holders
  <2>3. {con[u] : u \in Holders} = {con'[u] : u \in Holders'} \cup {con[t]}
    BY <1>0, <1>2, <2>1, <2>2, ReleaseEffect DEF Holders
  <2>4. Listed' = Listed \cup {con[t]}
    <3>1. /\ connList' = Append(connList, con[t]) /\ Len(connList) \in Nat
          /\ Len(connList') = Len(connList) + 1 /\ con[t] \in Conns
      BY <1>2, ReleaseEffect
    <3>2. /\ \A i \in 1..Len(connList) : connList'[i] = connList[i]
          /\ connList'[Len(connList) + 1] = con[t]
      BY <1>0, <3>1, AppendProperties
    <3>3. DOMAIN connList = 1..Len(connList) /\ DOMAIN connList' = 1..Len(connList')
      BY <1>0, <1>2, ReleaseEffect, LenProperties
    <3>4. 1..Len(connList') = 1..Len(connList) \cup {Len(connList) + 1}  BY <3>1
    <3> QED  BY <3>2, <3>3, <3>4 DEF Listed
  <2> QED  BY <2>3, <2>4 DEF Parted
<1>3. CASE Keeps  BY <1>3 DEF Keeps, Parted, Listed, Holders
<1>4. CASE UNCHANGED vars  BY <1>3, <1>4 DEF vars, Keeps
<1> QED  BY <1>1, <1>2, <1>3, <1>4, KeepingActions DEF Next, Serve

LEMMA TypeStep == TypeOK /\ OnlyInUse /\ Counts /\ [Next]_vars => TypeOK'
<1> SUFFICES ASSUME TypeOK, OnlyInUse, Counts, [Next]_vars PROVE TypeOK'  OBVIOUS
<1> DEFINE PcType == pc \in [Threads -> {"idle", "check", "wait", "pop", "use", "post"}]
           ConType == con \in [Threads -> Conns \cup {NULL}]
           Numbers == reserve \in Nat /\ FreeConn \in Nat /\ CurConn \in Nat
                      /\ signals \in 0..MaxSignals
<1>0. PcType /\ ConType /\ Numbers /\ aborted \in BOOLEAN /\ connList \in Seq(Conns)
  BY DEF TypeOK
<1>1. aborted' \in BOOLEAN
  BY <1>0 DEF Next, Serve, Begin, CheckEmpty, CheckSome, Wait, WaitInterrupted, Pop,
              PopEmpty, ReleaseNull, Release, Post, vars
<1>2. PcType'
  BY <1>0 DEF Next, Serve, Begin, CheckEmpty, CheckSome, Wait, WaitInterrupted, Pop,
              PopEmpty, ReleaseNull, Release, Post, Goto, vars
<1>3. connList' \in Seq(Conns) /\ ConType'
  <2>1. ASSUME NEW t \in Threads, Pop(t) PROVE connList' \in Seq(Conns) /\ ConType'
    BY <1>0, <2>1, PopEffect
  <2>2. ASSUME NEW t \in Threads, Release(t) PROVE connList' \in Seq(Conns) /\ ConType'
    BY <1>0, <2>2, ReleaseEffect
  <2>3. CASE Keeps  BY <1>0, <2>3 DEF Keeps
  <2>4. CASE UNCHANGED vars  BY <1>0, <2>4 DEF vars
  <2> QED  BY <2>1, <2>2, <2>3, <2>4, KeepingActions DEF Next, Serve
<1>4. Numbers'
  <2>0. Cardinality(Holders) \in Nat
    <3>1. CASE Threads = {}
      <4>1. Holders = {}  BY <3>1 DEF Holders
      <4> QED  BY <4>1, FS_EmptySet
    <3>2. CASE Threads # {}  BY <3>2, ThreadSets DEF Holders
    <3> QED  BY <3>1, <3>2
  <2>1. ASSUME NEW t \in Threads, Pop(t) PROVE Numbers'
    <3>1. UNCHANGED <<reserve, signals>>  BY <2>1 DEF Pop
    <3> QED  BY <1>0, <2>0, <2>1, <3>1, PopEffect DEF Counts
  <2>2. ASSUME NEW t \in Threads, Release(t) PROVE Numbers'
    <3>1. UNCHANGED <<reserve, signals>>  BY <2>2 DEF Release
    <3>2. t \in Holders  BY <2>2 DEF Release, Holders
    <3>3. Cardinality(Holders) > 0  BY <3>2, ThreadSets DEF Holders
    <3> QED  BY <1>0, <2>0, <2>2, <3>1, <3>3, ReleaseEffect DEF Counts
  <2>3. ASSUME NEW t \in Threads, Wait(t) \/ WaitInterrupted(t) \/ Post(t)
        PROVE  Numbers'
    BY <1>0, <2>3, ConnPoolAssumption
    DEF Wait, WaitInterrupted, Post, down, up, counters
  <2>4. CASE UNCHANGED <<reserve, counters, signals>>  BY <1>0, <2>4 DEF counters
  <2>5. ASSUME NEW t \in Threads,
               \/ Begin(t) \/ CheckEmpty(t) \/ CheckSome(t) \/ PopEmpty(t)
               \/ ReleaseNull(t)
        PROVE  Numbers'
    <3>1. UNCHANGED <<reserve, counters, signals>>
      BY <2>5 DEF Begin, CheckEmpty, CheckSome, PopEmpty, ReleaseNull
    <3> QED  BY <2>4, <3>1
  <2>6. CASE UNCHANGED vars  BY <2>4, <2>6 DEF vars
  <2> QED  BY <2>1, <2>2, <2>3, <2>5, <2>6 DEF Next, Serve
<1> QED  BY <1>1, <1>2, <1>3, <1>4 DEF TypeOK

-----------------------------------------------------------------------------
(* The semaphore against the threads that passed wait().                     *)

LEMMA PassedIs == Passed = {t \in Threads : con[t] # NULL \/ pc[t] \in {"pop", "post"}}
BY DEF Passed, Holders, At

\* How a step moves the semaphore and the threads that passed it.
Stay == Passed' = Passed /\ reserve' = reserve
Lower(t) == t \notin Passed /\ Passed' = Passed \cup {t} /\ reserve' = reserve - 1
Interrupt(t) ==
  /\ t \notin Passed /\ Passed' = Passed \cup {t} /\ reserve' = reserve
  /\ signals' = signals + 1
Raise(t) == t \in Passed /\ Passed' = Passed \ {t} /\ reserve' = reserve + 1
Miss(t) ==
  /\ t \in Passed /\ t \notin Holders /\ connList = <<>>
  /\ Holders' = Holders /\ reserve' = reserve

LEMMA PassedMoves ==
  ASSUME TypeOK, OnlyInUse, [Next]_vars
  PROVE  \/ Stay /\ aborted' = aborted
         \/ \E t \in Threads :
              /\ Lower(t) \/ Interrupt(t) \/ Raise(t)
              /\ aborted' = aborted
         \/ \E t \in Threads : Miss(t)
<1>0. /\ pc \in [Threads -> {"idle", "check", "wait", "pop", "use", "post"}]
      /\ con \in [Threads -> Conns \cup {NULL}]
  BY DEF TypeOK
<1> DEFINE Moved == Passed' = {u \in Threads : con'[u] # NULL \/ pc'[u] \in {"pop", "post"}}
<1>m. Moved  BY DEF Passed, Holders, At
<1>1. ASSUME NEW t \in Threads, Wait(t) PROVE Lower(t) /\ aborted' = aborted
  <2>1. /\ pc[t] = "wait" /\ pc' = [pc EXCEPT ![t] = "pop"] /\ con' = con
        /\ reserve' = reserve - 1 /\ aborted' = aborted
    BY <1>1 DEF Wait, Goto, down
  <2>2. con[t] = NULL  BY <2>1 DEF OnlyInUse
  <2> QED  BY <1>0, <1>m, <2>1, <2>2, PassedIs DEF Lower
<1>2. ASSUME NEW t \in Threads, WaitInterrupted(t)
      PROVE  Interrupt(t) /\ aborted' = aborted
  <2>1. /\ pc[t] = "wait" /\ pc' = [pc EXCEPT ![t] = "pop"] /\ con' = con
        /\ reserve' = reserve /\ aborted' = aborted /\ signals' = signals + 1
    BY <1>2 DEF WaitInterrupted, Goto
  <2>2. con[t] = NULL  BY <2>1 DEF OnlyInUse
  <2> QED  BY <1>0, <1>m, <2>1, <2>2, PassedIs DEF Interrupt
<1>3. ASSUME NEW t \in Threads, Post(t) PROVE Raise(t) /\ aborted' = aborted
  <2>1. /\ pc[t] = "post" /\ pc' = [pc EXCEPT ![t] = "idle"] /\ con' = con
        /\ reserve' = reserve + 1 /\ aborted' = aborted
    BY <1>3 DEF Post, Goto, up
  <2>2. con[t] = NULL  BY <2>1 DEF OnlyInUse
  <2> QED  BY <1>0, <1>m, <2>1, <2>2, PassedIs DEF Raise
<1>4. ASSUME NEW t \in Threads, PopEmpty(t) PROVE Miss(t)
  <2>1. /\ pc[t] = "pop" /\ con' = con /\ connList = <<>> /\ reserve' = reserve
    BY <1>4 DEF PopEmpty, Goto
  <2>2. con[t] = NULL  BY <2>1 DEF OnlyInUse
  <2>3. Holders' = Holders  BY <2>1 DEF Holders
  <2> QED  BY <2>1, <2>2, <2>3, PassedIs DEF Miss, Holders
<1>5. ASSUME NEW t \in Threads, Pop(t) PROVE Stay /\ aborted' = aborted
  <2>1. reserve' = reserve /\ aborted' = aborted  BY <1>5 DEF Pop
  <2>2. /\ pc[t] = "pop" /\ pc' = [pc EXCEPT ![t] = "use"] /\ Head(connList) # NULL
        /\ con' = [con EXCEPT ![t] = Head(connList)]
    BY <1>5, PopEffect, Constants
  <2> QED  BY <1>0, <1>m, <2>1, <2>2, PassedIs DEF Stay
<1>6. ASSUME NEW t \in Threads, Release(t) PROVE Stay /\ aborted' = aborted
  <2>1. reserve' = reserve /\ aborted' = aborted /\ con[t] # NULL  BY <1>6 DEF Release
  <2>2. /\ pc[t] = "use" /\ pc' = [pc EXCEPT ![t] = "post"]
        /\ con' = [con EXCEPT ![t] = NULL]
    BY <1>6, ReleaseEffect
  <2> QED  BY <1>0, <1>m, <2>1, <2>2, PassedIs DEF Stay
<1>7. ASSUME NEW t \in Threads,
             Begin(t) \/ CheckEmpty(t) \/ CheckSome(t) \/ ReleaseNull(t)
      PROVE  Stay /\ aborted' = aborted
  <2>1. /\ reserve' = reserve /\ aborted' = aborted /\ con' = con
        /\ pc[t] \in {"idle", "check", "use"}
        /\ \E to \in {"check", "use", "wait", "idle"} : pc' = [pc EXCEPT ![t] = to]
    BY <1>7 DEF Begin, CheckEmpty, CheckSome, ReleaseNull, Goto
  <2> QED  BY <1>0, <1>m, <2>1, PassedIs DEF Stay
<1>8. CASE UNCHANGED vars  BY <1>m, <1>8, PassedIs DEF vars, Stay
<1> QED
  BY <1>1, <1>2, <1>3, <1>4, <1>5, <1>6, <1>7, <1>8 DEF Next, Serve

LEMMA PassedSubset == Passed \subseteq Threads /\ Holders \subseteq Passed
BY DEF Passed, Holders, At

LEMMA ReserveStep ==
  TypeOK /\ OnlyInUse /\ Counts /\ ReserveCovers /\ [Next]_vars => ReserveCovers'
<1> SUFFICES ASSUME TypeOK, OnlyInUse, Counts, ReserveCovers, [Next]_vars
             PROVE  ReserveCovers'
  OBVIOUS
<1>0. reserve \in Nat  BY DEF TypeOK
<1>1. CASE Stay  BY <1>1 DEF Stay, ReserveCovers
<1>2. ASSUME NEW t \in Threads, Lower(t) \/ Interrupt(t) PROVE ReserveCovers'
  <2>1. Cardinality(Passed') = Cardinality(Passed) + 1 /\ Cardinality(Passed) \in Nat
    BY <1>2, ThreadSets, PassedSubset DEF Lower, Interrupt
  <2>2. reserve' = reserve - 1 \/ reserve' = reserve  BY <1>2 DEF Lower, Interrupt
  <2> QED  BY <1>0, <2>1, <2>2, Constants DEF ReserveCovers
<1>3. ASSUME NEW t \in Threads, Raise(t) PROVE ReserveCovers'
  <2>1. Cardinality(Passed') = Cardinality(Passed) - 1 /\ Cardinality(Passed) \in Nat
    BY <1>3, ThreadSets, PassedSubset DEF Raise
  <2>2. reserve' = reserve + 1  BY <1>3 DEF Raise
  <2> QED  BY <1>0, <2>1, <2>2, Constants DEF ReserveCovers
<1>4. ASSUME NEW t \in Threads, Miss(t) PROVE ReserveCovers'
  <2>1. Cardinality(Holders) = MaxConn
    <3>1. Len(connList) = 0  BY <1>4 DEF Miss
    <3>2. Cardinality(Holders) \in Nat  BY ThreadSets DEF Holders
    <3> QED  BY <3>1, <3>2, Constants DEF Counts
  <2>2. Holders \subseteq Passed' /\ Passed' \subseteq Threads /\ reserve' = reserve
    BY <1>4 DEF Miss, Passed, Holders, At
  <2>3. Cardinality(Holders) <= Cardinality(Passed') /\ Cardinality(Passed') \in Nat
    BY <2>2, ThreadSets, FS_Subset
  <2> QED  BY <1>0, <2>1, <2>2, <2>3, Constants DEF ReserveCovers
<1> QED  BY <1>1, <1>2, <1>3, <1>4, PassedMoves

\* The inductive invariant holds in every behaviour of GetConnection() and
\* ReleaseConnection().
THEOREM Invariant == Spec => []Inv
<1>1. Inv /\ [Next]_vars => Inv'
  BY TypeStep, OnlyInUseStep, CountsStep, PartedStep, ReserveStep DEF Inv
<1> QED  BY InitInv, <1>1, PTL DEF Spec

\* Every variable keeps its type; in particular the unsigned counters FreeConn
\* and CurConn never go below zero, whatever signals interrupt reserve.wait().
THEOREM TypeCorrect == Spec => []TypeOK
<1>1. Inv => TypeOK  BY DEF Inv
<1> QED  BY <1>1, Invariant, PTL

\* FreeConn and CurConn count the free connections and the others exactly, for
\* any number of threads.
THEOREM CountersCorrect == Spec => []CountersExact
<1>1. Inv => CountersExact
  <2> SUFFICES ASSUME Inv PROVE CountersExact  OBVIOUS
  <2>1. Counts /\ CurConn \in Nat /\ FreeConn \in Nat  BY DEF Inv, TypeOK
  <2> QED  BY <2>1 DEF Counts, CountersExact
<1> QED  BY <1>1, Invariant, PTL

\* No connection is lost or given to two threads, although pop_front() is not
\* guarded by the test of connList.size().
THEOREM ConnectionsKept == Spec => []EachConnectionOnce
<1>1. Inv => EachConnectionOnce  BY DEF Inv, Counts, Parted, EachConnectionOnce
<1> QED  BY <1>1, Invariant, PTL

\* The semaphore and the threads that passed it stand for all connections.
THEOREM ReserveKept == Spec => []ReserveCovers
<1>1. Inv => ReserveCovers  BY DEF Inv
<1> QED  BY <1>1, Invariant, PTL

-----------------------------------------------------------------------------
(* No more threads than connections.                                         *)

LEMMA EnoughForAll ==
  ASSUME Inv, Cardinality(Inside) <= MaxConn, NEW t \in Threads
  PROVE  /\ pc[t] \in {"check", "pop"} => connList # <<>>
         /\ pc[t] = "wait" => reserve > 0
<1>0. Inside \subseteq Threads /\ Cardinality(Inside) \in Nat /\ IsFiniteSet(Inside)
  BY ThreadSets DEF Inside
<1>1. con[t] # NULL => pc[t] = "use"  BY DEF Inv, OnlyInUse
<1>2. ASSUME NEW S, S \subseteq Inside, t \in Inside, t \notin S
      PROVE  Cardinality(S) \in Nat /\ Cardinality(S) + 1 <= Cardinality(Inside)
  <2>1. Cardinality(S \cup {t}) = Cardinality(S) + 1 /\ Cardinality(S) \in Nat
    BY <1>0, <1>2, ThreadSets
  <2>2. Cardinality(S \cup {t}) <= Cardinality(Inside)
    BY <1>0, <1>2, FS_Subset
  <2> QED  BY <2>1, <2>2
<1>3. Passed \subseteq Inside /\ Holders \subseteq Inside
  BY DEF Inv, OnlyInUse, Passed, Holders, At, Inside
<1>4. ASSUME pc[t] \in {"check", "pop"} PROVE connList # <<>>
  <2>1. t \notin Holders /\ t \in Inside  BY <1>1, <1>4 DEF Holders, Inside
  <2>2. Cardinality(Holders) \in Nat /\ Cardinality(Holders) + 1 <= Cardinality(Inside)
    BY <1>2, <1>3, <2>1
  <2>3. Len(connList) # 0  BY <1>0, <2>2, Constants DEF Inv, Counts
  <2> QED  BY <2>3
<1>5. ASSUME pc[t] = "wait" PROVE reserve > 0
  <2>1. t \notin Passed /\ t \in Inside  BY <1>1, <1>5, PassedIs DEF Inside
  <2>2. Cardinality(Passed) \in Nat /\ Cardinality(Passed) + 1 <= Cardinality(Inside)
    BY <1>2, <1>3, <2>1
  <2>3. reserve \in Nat /\ reserve + Cardinality(Passed) >= MaxConn
    BY DEF Inv, TypeOK, ReserveCovers
  <2> QED  BY <1>0, <2>2, <2>3, Constants
<1> QED  BY <1>4, <1>5

\* While no more threads than connections are inside, nobody is refused or waits,
\* also when signals interrupt reserve.wait().
THEOREM WorkersAreServed == Spec => []WorkersServed
<1>1. Inv => WorkersServed  BY EnoughForAll DEF WorkersServed
<1> QED  BY <1>1, Invariant, PTL

\* A pool as large as the thread pool.
UsersHold ==
  Cardinality(Threads) <= MaxConn =>
    \A t \in Threads : pc[t] = "use" => con[t] # NULL

LEMMA UsersHoldStep == Inv /\ UsersHold /\ [Next]_vars => UsersHold'
<1> SUFFICES ASSUME Inv, UsersHold, [Next]_vars, Cardinality(Threads) <= MaxConn,
                    NEW u \in Threads, pc'[u] = "use"
             PROVE  con'[u] # NULL
  BY DEF UsersHold
<1>0. /\ pc \in [Threads -> {"idle", "check", "wait", "pop", "use", "post"}]
      /\ con \in [Threads -> Conns \cup {NULL}] /\ TypeOK
  BY DEF Inv, TypeOK
<1>1. pc[u] = "use" => con[u] # NULL  BY DEF UsersHold
<1>2. ASSUME NEW t \in Threads, Pop(t) PROVE con'[u] # NULL
  BY <1>0, <1>1, <1>2, PopEffect, Constants
<1>3. ASSUME NEW t \in Threads, Release(t) PROVE con'[u] # NULL
  BY <1>0, <1>1, <1>3, ReleaseEffect
<1>4. ASSUME NEW t \in Threads, CheckEmpty(t) \/ PopEmpty(t) PROVE FALSE
  <2>1. pc[t] \in {"check", "pop"} /\ connList = <<>>
    BY <1>4 DEF CheckEmpty, PopEmpty, Goto
  <2>2. Cardinality(Inside) <= Cardinality(Threads)
        /\ Cardinality(Inside) \in Nat /\ Cardinality(Threads) \in Nat
    BY ConnPoolAssumption, FS_Subset, FS_CardinalityType DEF Inside
  <2>3. Cardinality(Inside) <= MaxConn  BY <2>2, Constants
  <2> QED  BY <2>1, <2>3, EnoughForAll
<1>5. ASSUME NEW t \in Threads,
             \/ Begin(t) \/ CheckSome(t) \/ Wait(t) \/ WaitInterrupted(t)
             \/ ReleaseNull(t) \/ Post(t)
      PROVE  con'[u] # NULL
  <2>1. /\ con' = con
        /\ \E to \in {"check", "wait", "pop", "idle"} : pc' = [pc EXCEPT ![t] = to]
    BY <1>5 DEF Begin, CheckSome, Wait, WaitInterrupted, ReleaseNull, Post, Goto
  <2> QED  BY <1>0, <1>1, <2>1
<1>6. CASE UNCHANGED vars  BY <1>1, <1>6 DEF vars
<1> QED  BY <1>2, <1>3, <1>4, <1>5, <1>6 DEF Next, Serve

\* With at least as many connections as threads, GetConnection() never returns
\* NULL to anybody.
THEOREM UsersHaveConnections == Spec => []UsersHold
<1>1. Init => UsersHold  BY DEF Init, UsersHold
<1> QED  BY <1>1, UsersHoldStep, Invariant, PTL DEF Spec

-----------------------------------------------------------------------------
(* Before any signal.                                                        *)

Balanced == reserve + Cardinality(Passed) = MaxConn
QuietInv == signals = 0 => ~aborted /\ Balanced

LEMMA SignalsCome ==
  ASSUME TypeOK, [Next]_vars, signals' = 0
  PROVE  signals = 0
<1>1. CASE UNCHANGED signals  BY <1>1
<1>2. ASSUME NEW t \in Threads, WaitInterrupted(t) PROVE signals = 0
  BY <1>2 DEF WaitInterrupted, TypeOK
<1> QED
  BY <1>1, <1>2 DEF Next, Serve, Begin, CheckEmpty, CheckSome, Wait, Pop, PopEmpty,
    ReleaseNull, Release, Post, vars

LEMMA QuietStep == Inv /\ QuietInv /\ [Next]_vars => QuietInv'
<1> SUFFICES ASSUME Inv, QuietInv, [Next]_vars, signals' = 0
             PROVE  ~aborted' /\ Balanced'
  BY DEF QuietInv
<1>0. /\ TypeOK /\ OnlyInUse /\ Counts /\ reserve \in Nat /\ signals = 0
  BY SignalsCome DEF Inv, TypeOK
<1>6. ~aborted /\ Balanced  BY <1>0 DEF QuietInv
<1>1. ASSUME Stay, aborted' = aborted PROVE ~aborted' /\ Balanced'
  BY <1>6, <1>1 DEF Stay, Balanced
<1>2. ASSUME NEW t \in Threads, Lower(t), aborted' = aborted
      PROVE  ~aborted' /\ Balanced'
  <2>1. Cardinality(Passed') = Cardinality(Passed) + 1 /\ Cardinality(Passed) \in Nat
    BY <1>2, ThreadSets, PassedSubset DEF Lower
  <2>2. Balanced'
    BY <1>0, <1>6, <1>2, <2>1, Constants DEF Balanced, Lower
  <2> QED  BY <1>6, <1>2, <2>2
<1>3. ASSUME NEW t \in Threads, Raise(t), aborted' = aborted
      PROVE  ~aborted' /\ Balanced'
  <2>1. Cardinality(Passed') = Cardinality(Passed) - 1 /\ Cardinality(Passed) \in Nat
    BY <1>3, ThreadSets, PassedSubset DEF Raise
  <2>2. Balanced'
    BY <1>0, <1>6, <1>3, <2>1, Constants DEF Balanced, Raise
  <2> QED  BY <1>6, <1>3, <2>2
<1>4. ASSUME NEW t \in Threads, Interrupt(t) PROVE FALSE
  BY <1>0, <1>4 DEF Interrupt
<1>5. ASSUME NEW t \in Threads, Miss(t) PROVE FALSE
  <2>1. Cardinality(Holders) = MaxConn
    <3>1. Len(connList) = 0  BY <1>5 DEF Miss
    <3>2. Cardinality(Holders) \in Nat  BY ThreadSets DEF Holders
    <3> QED  BY <1>0, <3>1, <3>2, Constants DEF Counts
  <2>2. Cardinality(Holders \cup {t}) = Cardinality(Holders) + 1
    BY <1>5, ThreadSets DEF Miss, Holders
  <2>3. Holders \cup {t} \subseteq Passed /\ IsFiniteSet(Passed)
    BY <1>5, PassedSubset, ThreadSets DEF Miss
  <2>4. Cardinality(Holders \cup {t}) <= Cardinality(Passed) /\ Cardinality(Passed) \in Nat
    BY <2>3, FS_Subset, FS_CardinalityType
  <2> QED  BY <1>0, <1>6, <2>1, <2>2, <2>4, Constants DEF Balanced
<1> QED  BY <1>0, <1>1, <1>2, <1>3, <1>4, <1>5, PassedMoves

\* Until a signal interrupts reserve.wait(), a thread that passed it never pops
\* an empty list, for any number of threads and connections.
THEOREM NoEmptyPop == Spec => []PopFindsConnection
<1>1. Init => QuietInv
  <2> SUFFICES ASSUME Init PROVE QuietInv  OBVIOUS
  <2>1. Passed = {}  BY DEF Init, Passed, Holders, At
  <2>2. Balanced  BY <2>1, FS_EmptySet, Constants DEF Init, Balanced
  <2> QED  BY <2>2 DEF Init, QuietInv
<1>2. QuietInv => PopFindsConnection  BY DEF QuietInv, PopFindsConnection
<1> QED  BY <1>1, QuietStep, <1>2, Invariant, PTL DEF Spec
=============================================================================
