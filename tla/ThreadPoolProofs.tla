-------------------------- MODULE ThreadPoolProofs --------------------------
(***************************************************************************)
(* Proofs about ThreadPool: types, no lost wakeup, the order of requests,  *)
(* and, before any signal, that a worker past wait() finds a request.      *)
(***************************************************************************)
EXTENDS ThreadPool, SequenceTheorems, FiniteSetTheorems, TLAPS

Points == {"loop", "wait", "take", "process", "exited"}

\* The number of workers at a point, after one of them has moved.
LEMMA AtMoves ==
  ASSUME pc \in [Workers -> Points], NEW w \in Workers, NEW q,
         pc' = [pc EXCEPT ![w] = q]
  PROVE  /\ Cardinality(At("take")) \in Nat
         /\ pc[w] # "take" /\ q = "take"
              => Cardinality(At("take"))' = Cardinality(At("take")) + 1
         /\ pc[w] = "take" /\ q # "take"
              => Cardinality(At("take"))' = Cardinality(At("take")) - 1
         /\ pc[w] # "take" /\ q # "take" => At("take")' = At("take")
<1>1. IsFiniteSet(At("take")) /\ Cardinality(At("take")) \in Nat
  BY ThreadPoolAssumption, FS_Subset, FS_CardinalityType DEF At
<1>2. pc[w] # "take" /\ q = "take" => At("take")' = At("take") \cup {w} /\ w \notin At("take")
  BY DEF At
<1>3. pc[w] = "take" /\ q # "take" => At("take")' = At("take") \ {w} /\ w \in At("take")
  BY DEF At
<1>4. pc[w] # "take" /\ q # "take" => At("take")' = At("take")
  BY DEF At
<1> QED
  BY <1>1, <1>2, <1>3, <1>4, FS_AddElement, FS_RemoveElement

LEMMA AppendToConcat ==
  ASSUME NEW S, NEW s \in Seq(S), NEW t \in Seq(S), NEW x \in S,
         NEW st, st = s \o t
  PROVE  Append(st, x) = s \o Append(t, x)
<1>1. st \in Seq(S) /\ <<x>> \in Seq(S)  BY ConcatProperties
<1>2. Append(st, x) = st \o <<x>> /\ Append(t, x) = t \o <<x>>
  BY <1>1, AppendIsConcat
<1>3. (s \o t) \o <<x>> = s \o (t \o <<x>>)  BY <1>1, ConcatAssociative
<1> QED  BY <1>2, <1>3

LEMMA MoveHead ==
  ASSUME NEW S, NEW s \in Seq(S), NEW t \in Seq(S), t # <<>>
  PROVE  Append(s, Head(t)) \o Tail(t) = s \o t
<1>1. Head(t) \in S /\ Tail(t) \in Seq(S) /\ Len(Tail(t)) = Len(t) - 1
      /\ \A i \in 1..Len(Tail(t)) : Tail(t)[i] = t[i+1]
  BY HeadTailProperties
<1>2. Append(s, Head(t)) \in Seq(S)  BY <1>1
<1>3. Append(s, Head(t)) \o Tail(t) \in Seq(S) /\ s \o t \in Seq(S)
  BY <1>1, <1>2, ConcatProperties
<1>4. Len(t) \in Nat \ {0} /\ Len(s) \in Nat  BY EmptySeq, LenProperties
<1>5. Len(Append(s, Head(t))) = Len(s) + 1  OBVIOUS
<1>6. Len(Append(s, Head(t)) \o Tail(t)) = Len(s \o t)
  BY <1>1, <1>2, <1>4, <1>5, ConcatProperties
<1>7. ASSUME NEW i \in 1..Len(s \o t)
      PROVE  (Append(s, Head(t)) \o Tail(t))[i] = (s \o t)[i]
  <2>1. i \in 1..(Len(s) + Len(t))  BY ConcatProperties
  <2>2. CASE i <= Len(s)
    BY <1>1, <1>2, <1>4, <1>5, <2>1, <2>2, ConcatProperties
  <2>3. CASE i = Len(s) + 1
    BY <1>1, <1>2, <1>4, <1>5, <2>1, <2>3, ConcatProperties
  <2>4. CASE i > Len(s) + 1
    <3>1. (Append(s, Head(t)) \o Tail(t))[i] = Tail(t)[i - (Len(s) + 1)]
      BY <1>1, <1>2, <1>4, <1>5, <2>1, <2>4, ConcatProperties
    <3>2. Tail(t)[i - (Len(s) + 1)] = t[i - Len(s)]
      BY <1>1, <1>4, <2>1, <2>4
    <3>3. (s \o t)[i] = t[i - Len(s)]
      BY <1>4, <2>1, <2>4, ConcatProperties
    <3> QED  BY <3>1, <3>2, <3>3
  <2> QED  BY <1>4, <2>1, <2>2, <2>3, <2>4
<1> QED  BY <1>3, <1>6, <1>7, SeqEqual

-----------------------------------------------------------------------------
(* Types *)

\* A worker in process() has a request.
HasRequest == \A w \in Workers : pc[w] = "process" => request[w] \in Requests

LEMMA InitTypes == Init => TypeOK /\ HasRequest
<1> SUFFICES ASSUME Init PROVE TypeOK /\ HasRequest  OBVIOUS
<1> USE ThreadPoolAssumption DEF Init
<1>1. m_stop \in BOOLEAN  OBVIOUS
<1>2. /\ m_workqueue \in Seq(Requests) /\ Len(m_workqueue) <= MaxRequests + 1
      /\ pushed \in Seq(Requests) /\ taken \in Seq(Requests)
  OBVIOUS
<1>3. /\ m_queuestat \in Nat /\ main = "idle" /\ appended \in 0..MaxAppends
      /\ done \subseteq Requests /\ signals \in 0..MaxSignals
  OBVIOUS
<1>4. /\ pc \in [Workers -> {"loop", "wait", "take", "process", "exited"}]
      /\ request \in [Workers -> 0..MaxAppends]
  OBVIOUS
<1>5. HasRequest  BY DEF HasRequest
<1> QED  BY <1>1, <1>2, <1>3, <1>4, <1>5 DEF TypeOK

LEMMA TypeStep == TypeOK /\ HasRequest /\ [Next]_vars => TypeOK'
<1> SUFFICES ASSUME TypeOK, HasRequest, [Next]_vars PROVE TypeOK'  OBVIOUS
<1> USE ThreadPoolAssumption DEF TypeOK
<1>1. CASE AppendRejects
  BY <1>1 DEF AppendRejects
<1>2. CASE AppendPushes
  <2>1. appended + 1 \in Requests  BY <1>2 DEF AppendPushes, Requests
  <2>2. Len(m_workqueue) <= MaxRequests /\ Len(m_workqueue) \in Nat
    BY <1>2, LenProperties DEF AppendPushes, Full
  <2> QED  BY <1>2, <2>1, <2>2 DEF AppendPushes, Requests
<1>3. CASE AppendPosts
  BY <1>3 DEF AppendPosts, post
<1>4. CASE Destroy
  BY <1>4 DEF Destroy, Requests
<1>5. ASSUME NEW w \in Workers, Loop(w) \/ TakeNothing(w) PROVE TypeOK'
  BY <1>5 DEF Loop, TakeNothing, Goto, mainVars
<1>6. ASSUME NEW w \in Workers, Wait(w) PROVE TypeOK'
  BY <1>6 DEF Wait, Goto, mainVars
<1>7. ASSUME NEW w \in Workers, WaitInterrupted(w) PROVE TypeOK'
  BY <1>7 DEF WaitInterrupted, Goto, mainVars
<1>8. ASSUME NEW w \in Workers, Take(w) PROVE TypeOK'
  <2>1. Head(m_workqueue) \in Requests /\ Tail(m_workqueue) \in Seq(Requests)
        /\ Len(Tail(m_workqueue)) = Len(m_workqueue) - 1
    BY <1>8, HeadTailProperties DEF Take
  <2>2. Len(m_workqueue) \in Nat  BY LenProperties
  <2>3. Requests \subseteq 0..MaxAppends  BY DEF Requests
  <2>4. request' \in [Workers -> 0..MaxAppends]
    <3>1. request' = [request EXCEPT ![w] = Head(m_workqueue)]  BY <1>8 DEF Take
    <3> QED  BY <2>1, <2>3, <3>1
  <2>6. taken' \in Seq(Requests)
    <3>1. taken' = Append(taken, Head(m_workqueue))  BY <1>8 DEF Take
    <3> QED  BY <2>1, <3>1
  <2>5. /\ m_workqueue' \in Seq(Requests) /\ Len(m_workqueue') <= MaxRequests + 1
        /\ pc' \in [Workers -> {"loop", "wait", "take", "process", "exited"}]
    BY <1>8, <2>1, <2>2 DEF Take, pop, Goto
  <2>7. UNCHANGED <<m_queuestat, m_stop, main, appended, pushed, done, signals>>
    BY <1>8 DEF Take, mainVars
  <2> QED  BY <2>4, <2>5, <2>6, <2>7
<1>9. ASSUME NEW w \in Workers, Process(w) PROVE TypeOK'
  BY <1>9 DEF Process, Goto, mainVars, HasRequest
<1>10. CASE UNCHANGED vars
  BY <1>10 DEF vars, mainVars
<1> QED
  BY <1>1, <1>2, <1>3, <1>4, <1>5, <1>6, <1>7, <1>8, <1>9, <1>10 DEF Next, Worker

LEMMA HasRequestStep == TypeOK /\ HasRequest /\ [Next]_vars => HasRequest'
<1> SUFFICES ASSUME TypeOK, HasRequest, [Next]_vars PROVE HasRequest'  OBVIOUS
<1>1. ASSUME NEW w \in Workers, Take(w) PROVE HasRequest'
  <2>1. Head(m_workqueue) \in Requests
    BY <1>1, HeadTailProperties DEF Take, TypeOK
  <2> QED  BY <1>1, <2>1 DEF Take, Goto, HasRequest, TypeOK
<1>2. ASSUME NEW w \in Workers, UNCHANGED request,
             NEW to \in {"loop", "wait", "take", "exited"},
             pc' = [pc EXCEPT ![w] = to]
      PROVE  HasRequest'
  BY <1>2 DEF HasRequest, TypeOK
<1>3. CASE UNCHANGED <<pc, request>>
  BY <1>3 DEF HasRequest
<1>4. ASSUME NEW w \in Workers, Worker(w), ~Take(w) PROVE HasRequest'
  BY <1>2, <1>4 DEF Worker, Loop, Wait, WaitInterrupted, TakeNothing, Process, Goto
<1> QED
  BY <1>1, <1>3, <1>4 DEF Next, AppendRejects, AppendPushes, AppendPosts,
    Destroy, vars

-----------------------------------------------------------------------------
(* The semaphore.  balance is Len(m_workqueue) against the counts that cover *)
(* it: an action moves one unit from one count to another.                   *)

Covered == m_queuestat + Pending + Cardinality(At("take"))

LEMMA CoveredNat == TypeOK => Covered \in Nat
<1> SUFFICES ASSUME TypeOK PROVE Covered \in Nat  OBVIOUS
<1>1. Cardinality(At("take")) \in Nat
  BY ThreadPoolAssumption, FS_Subset, FS_CardinalityType DEF At
<1> QED  BY <1>1 DEF TypeOK, Covered, Pending

LEMMA CoveredNatNext == TypeOK' => Covered' \in Nat
<1> SUFFICES ASSUME TypeOK' PROVE Covered' \in Nat  OBVIOUS
<1>1. Cardinality(At("take"))' \in Nat
  BY ThreadPoolAssumption, FS_Subset, FS_CardinalityType DEF At
<1> QED  BY <1>1 DEF TypeOK, Covered, Pending

LEMMA CoverStep ==
  ASSUME TypeOK, [Next]_vars
  PROVE  /\ Len(m_workqueue) \in Nat /\ Covered \in Nat
         /\ \/ Covered' = Covered /\ Len(m_workqueue)' = Len(m_workqueue)
            \/ Covered' = Covered + 1 /\ Len(m_workqueue)' = Len(m_workqueue) + 1
            \/ Covered' = Covered - 1 /\ Len(m_workqueue)' = Len(m_workqueue) - 1
            \/ Covered' = Covered - 1 /\ Len(m_workqueue) = 0 /\ Len(m_workqueue)' = 0
            \/ signals' # 0 /\ Covered' = Covered + 1
                 /\ Len(m_workqueue)' = Len(m_workqueue)
<1> USE ThreadPoolAssumption DEF TypeOK, Points
<1>1. Len(m_workqueue) \in Nat /\ Pending \in {0, 1}  BY LenProperties DEF Pending
<1>2. Cardinality(At("take")) \in Nat
  BY FS_Subset, FS_CardinalityType DEF At
<1>3. Covered \in Nat  BY <1>1, <1>2 DEF Covered
<1>4. pc' = pc => Cardinality(At("take"))' = Cardinality(At("take"))
  BY DEF At
<1>5. CASE AppendRejects \/ Destroy \/ UNCHANGED vars
  <2>1. UNCHANGED <<m_workqueue, m_queuestat, pc, Pending>>
    <3>1. CASE AppendRejects  BY <3>1 DEF AppendRejects, Pending
    <3>2. CASE Destroy  BY <3>2 DEF Destroy, Pending
    <3>3. CASE UNCHANGED vars  BY <3>3 DEF vars, mainVars, Pending
    <3> QED  BY <1>5, <3>1, <3>2, <3>3
  <2> QED  BY <1>1, <1>3, <1>4, <2>1 DEF Covered
<1>6. CASE AppendPushes
  <2>1. Pending = 0 /\ Pending' = 1 /\ UNCHANGED <<pc, m_queuestat>>
    BY <1>6 DEF AppendPushes, Pending
  <2>2. Len(m_workqueue') = Len(m_workqueue) + 1
    BY <1>6 DEF AppendPushes
  <2> QED  BY <1>1, <1>2, <1>3, <1>4, <2>1, <2>2 DEF Covered
<1>7. CASE AppendPosts
  <2>1. Pending = 1 /\ Pending' = 0 /\ UNCHANGED <<pc, m_workqueue>>
    BY <1>7 DEF AppendPosts, post, Pending
  <2>2. m_queuestat' = m_queuestat + 1  BY <1>7 DEF AppendPosts, post
  <2> QED  BY <1>1, <1>2, <1>3, <1>4, <2>1, <2>2 DEF Covered
<1>8. ASSUME NEW w \in Workers, Loop(w) \/ Process(w)
      PROVE  Covered' = Covered /\ Len(m_workqueue)' = Len(m_workqueue)
  <2>1. /\ UNCHANGED <<m_workqueue, m_queuestat, Pending>> /\ pc[w] # "take"
        /\ \E q \in Points \ {"take"} : pc' = [pc EXCEPT ![w] = q]
    BY <1>8 DEF Loop, Process, Goto, mainVars, Pending
  <2>2. At("take")' = At("take")  BY <2>1, AtMoves
  <2> QED  BY <2>1, <2>2 DEF Covered
<1>9. ASSUME NEW w \in Workers, Wait(w)
      PROVE  Covered' = Covered /\ Len(m_workqueue)' = Len(m_workqueue)
  <2>1. /\ UNCHANGED <<m_workqueue, Pending>> /\ pc[w] # "take"
        /\ pc' = [pc EXCEPT ![w] = "take"] /\ m_queuestat' = m_queuestat - 1
    BY <1>9 DEF Wait, Goto, mainVars, Pending
  <2>2. Cardinality(At("take"))' = Cardinality(At("take")) + 1  BY <2>1, AtMoves
  <2> QED  BY <1>1, <1>2, <2>1, <2>2 DEF Covered
<1>10. ASSUME NEW w \in Workers, WaitInterrupted(w)
       PROVE  signals' # 0 /\ Covered' = Covered + 1
                /\ Len(m_workqueue)' = Len(m_workqueue)
  <2>1. /\ UNCHANGED <<m_workqueue, m_queuestat, Pending>> /\ pc[w] # "take"
        /\ pc' = [pc EXCEPT ![w] = "take"]
    BY <1>10 DEF WaitInterrupted, Goto, mainVars, Pending
  <2>2. signals' # 0  BY <1>10 DEF WaitInterrupted
  <2>3. Cardinality(At("take"))' = Cardinality(At("take")) + 1  BY <2>1, AtMoves
  <2> QED  BY <1>1, <1>2, <2>1, <2>2, <2>3 DEF Covered
<1>11. ASSUME NEW w \in Workers, TakeNothing(w) \/ Take(w)
       PROVE  /\ Covered' = Covered - 1
              /\ \/ Len(m_workqueue) = 0 /\ Len(m_workqueue)' = 0
                 \/ Len(m_workqueue)' = Len(m_workqueue) - 1
  <2>1. /\ UNCHANGED <<m_queuestat, Pending>> /\ pc[w] = "take"
        /\ \E q \in Points \ {"take"} : pc' = [pc EXCEPT ![w] = q]
    BY <1>11 DEF TakeNothing, Take, Goto, mainVars, Pending
  <2>2. Cardinality(At("take"))' = Cardinality(At("take")) - 1  BY <2>1, AtMoves
  <2>3. \/ Len(m_workqueue) = 0 /\ Len(m_workqueue)' = 0
        \/ Len(m_workqueue)' = Len(m_workqueue) - 1
    BY <1>11, HeadTailProperties DEF TakeNothing, Take, pop
  <2> QED  BY <1>1, <1>2, <2>1, <2>2, <2>3 DEF Covered
<1> QED
  BY <1>1, <1>3, <1>5, <1>6, <1>7, <1>8, <1>9, <1>10, <1>11 DEF Next, Worker

LEMMA FifoStep == TypeOK /\ FifoOnce /\ [Next]_vars => FifoOnce'
<1> SUFFICES ASSUME TypeOK, FifoOnce, [Next]_vars PROVE FifoOnce'  OBVIOUS
<1>0. m_workqueue \in Seq(Requests) /\ taken \in Seq(Requests)  BY DEF TypeOK
<1>1. CASE AppendPushes
  <2>1. appended + 1 \in Requests
    BY <1>1, ThreadPoolAssumption DEF AppendPushes, Requests, TypeOK
  <2>2. /\ pushed' = Append(pushed, appended + 1) /\ taken' = taken
        /\ m_workqueue' = Append(m_workqueue, appended + 1)
    BY <1>1 DEF AppendPushes
  <2>3. Append(pushed, appended + 1) = taken \o Append(m_workqueue, appended + 1)
    BY <1>0, <2>1, AppendToConcat DEF FifoOnce
  <2> QED  BY <2>2, <2>3 DEF FifoOnce
<1>2. ASSUME NEW w \in Workers, Take(w) PROVE FifoOnce'
  BY <1>0, <1>2, MoveHead DEF Take, pop, mainVars, FifoOnce
<1>3. CASE UNCHANGED <<pushed, taken, m_workqueue>>  BY <1>3 DEF FifoOnce
<1> QED
  BY <1>1, <1>2, <1>3 DEF Next, Worker, AppendRejects, AppendPosts, Destroy,
    Loop, Wait, WaitInterrupted, TakeNothing, Process, mainVars, vars

-----------------------------------------------------------------------------
PoolInv == TypeOK /\ HasRequest /\ SemaphoreCoversQueue /\ FifoOnce
QuietInv == PoolInv /\ (signals = 0 => Len(m_workqueue) = Covered)

LEMMA InitPoolInv == Init => QuietInv
<1> SUFFICES ASSUME Init PROVE QuietInv  OBVIOUS
<1>1. At("take") = {} /\ Pending = 0 /\ Len(m_workqueue) = 0 /\ m_queuestat = 0
  BY DEF Init, At, Pending
<1>2. Covered = 0  BY <1>1, FS_EmptySet DEF Covered
<1>3. FifoOnce
  BY ConcatEmptySeq, EmptySeq DEF Init, FifoOnce
<1> QED
  BY <1>1, <1>2, <1>3, InitTypes DEF QuietInv, PoolInv, SemaphoreCoversQueue, Covered

LEMMA PoolStep == PoolInv /\ [Next]_vars => PoolInv'
<1> SUFFICES ASSUME PoolInv, [Next]_vars PROVE PoolInv'  OBVIOUS
<1>1. TypeOK' /\ HasRequest' /\ FifoOnce'
  BY TypeStep, HasRequestStep, FifoStep DEF PoolInv
<1>2. SemaphoreCoversQueue'
  <2>1. TypeOK' => Covered' \in Nat  BY CoveredNatNext
  <2>2. Len(m_workqueue) <= Covered  BY DEF PoolInv, SemaphoreCoversQueue, Covered
  <2>3. Len(m_workqueue)' <= Covered'
    BY <1>1, <2>1, <2>2, CoverStep DEF PoolInv
  <2> QED  BY <2>3 DEF SemaphoreCoversQueue, Covered
<1> QED  BY <1>1, <1>2 DEF PoolInv

LEMMA SignalsCome == TypeOK /\ [Next]_vars => (signals' = 0 => signals = 0)
<1> SUFFICES ASSUME TypeOK, [Next]_vars, signals' = 0 PROVE signals = 0  OBVIOUS
<1>1. CASE UNCHANGED signals  BY <1>1
<1>2. ASSUME NEW w \in Workers, WaitInterrupted(w) PROVE signals = 0
  BY <1>2 DEF WaitInterrupted, TypeOK
<1> QED
  BY <1>1, <1>2 DEF Next, Worker, AppendRejects, AppendPushes, AppendPosts, Destroy,
    Loop, Wait, TakeNothing, Take, Process, vars

LEMMA QuietStep == QuietInv /\ [Next]_vars => QuietInv'
<1> SUFFICES ASSUME QuietInv, [Next]_vars PROVE QuietInv'  OBVIOUS
<1>1. PoolInv'  BY PoolStep DEF QuietInv
<1>2. ASSUME signals' = 0 PROVE Len(m_workqueue)' = Covered'
  <2>1. TypeOK' => Covered' \in Nat  BY CoveredNatNext
  <2>2. Len(m_workqueue) = Covered  BY <1>2, SignalsCome DEF QuietInv, PoolInv
  <2> QED  BY <1>1, <1>2, <2>1, <2>2, CoverStep DEF QuietInv, PoolInv
<1> QED  BY <1>1, <1>2 DEF QuietInv

LEMMA QuietTakers == QuietInv => TakersFindWork
<1> SUFFICES ASSUME QuietInv, signals = 0, NEW w \in Workers, pc[w] = "take"
             PROVE  m_workqueue # <<>>
  BY DEF TakersFindWork
<1>1. IsFiniteSet(At("take")) /\ w \in At("take")
  BY ThreadPoolAssumption, FS_Subset DEF At
<1>2. Cardinality(At("take")) \in Nat /\ Cardinality(At("take")) # 0
  BY <1>1, FS_CardinalityType, FS_EmptySet
<1>3. Len(m_workqueue) # 0
  BY <1>2 DEF QuietInv, PoolInv, Covered, TypeOK, Pending
<1> QED  BY <1>3

\* The types, and the bound of m_max_requests + 1 on the queue.
THEOREM TypeCorrect == Spec => []TypeOK
<1>1. Init => PoolInv  BY InitPoolInv DEF QuietInv
<1>2. PoolInv => TypeOK  BY DEF PoolInv
<1> QED  BY <1>1, <1>2, PoolStep, PTL DEF Spec

\* No wakeup is lost, for any number of workers, appends and signals.
THEOREM NoLostWakeup == Spec => []SemaphoreCoversQueue
<1>1. Init => PoolInv  BY InitPoolInv DEF QuietInv
<1>2. PoolInv => SemaphoreCoversQueue  BY DEF PoolInv
<1> QED  BY <1>1, <1>2, PoolStep, PTL DEF Spec

\* Requests are taken in the order of append(), none lost, none twice.
THEOREM QueueOrder == Spec => []FifoOnce
<1>1. Init => PoolInv  BY InitPoolInv DEF QuietInv
<1>2. PoolInv => FifoOnce  BY DEF PoolInv
<1> QED  BY <1>1, <1>2, PoolStep, PTL DEF Spec

\* Until a signal interrupts sem_wait, run()'s test for an empty queue never
\* succeeds.
THEOREM EmptyTestUnused == Spec => []TakersFindWork
BY InitPoolInv, QuietStep, QuietTakers, PTL DEF Spec
=============================================================================
