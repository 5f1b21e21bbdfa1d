-------------------------- MODULE BlockQueueProofs --------------------------
(***************************************************************************)
(* Proofs about BlockQueue: the ring with its indices is a bounded         *)
(* first-in first-out queue, for every capacity, whatever threads push,    *)
(* pop, wake up and clear.                                                 *)
(***************************************************************************)
EXTENDS BlockQueue, SequenceTheorems, TLAPS

Values == Items \cup {NoItem}

\* An empty ring has both indices on the same slot, or both before the first.
Meet == m_size = 0 => m_front = m_back

IInv == TypeOK /\ SleepersHaveNothing /\ IndicesAgree /\ Meet

-----------------------------------------------------------------------------
(* Slots of the ring *)

\* The remainder of a number that is less than two rounds.
LEMMA Remainder ==
  ASSUME NEW a \in Nat, a < m_max_size + m_max_size
  PROVE  /\ a % m_max_size = IF a < m_max_size THEN a ELSE a - m_max_size
         /\ a % m_max_size \in Slots
<1>1. m_max_size \in Nat /\ m_max_size > 0  BY BlockQueueAssumption
<1>2. CASE a < m_max_size
  <2>1. a % m_max_size = a  BY <1>1, <1>2
  <2> QED  BY <1>1, <1>2, <2>1 DEF Slots
<1>3. CASE a >= m_max_size
  <2>1. a % m_max_size = a - m_max_size  BY <1>1, <1>3
  <2> QED  BY <1>1, <1>3, <2>1 DEF Slots
<1> QED  BY <1>1, <1>2, <1>3

\* The i-th slot after f.
At(f, i) == (f + i) % m_max_size

LEMMA SlotAfter ==
  ASSUME NEW f \in Slots \cup {-1}, NEW i \in 0..m_max_size, f + i >= 0
  PROVE  /\ At(f, i) = IF f + i < m_max_size THEN f + i ELSE f + i - m_max_size
         /\ At(f, i) \in Slots
<1>1. f + i \in Nat /\ f + i < m_max_size + m_max_size
  BY BlockQueueAssumption DEF Slots
<1> DEFINE a == f + i
<1>2. a \in Nat /\ a < m_max_size + m_max_size  BY <1>1
<1> HIDE DEF a
<1>3. /\ a % m_max_size = IF a < m_max_size THEN a ELSE a - m_max_size
      /\ a % m_max_size \in Slots
  BY <1>2, Remainder
<1>4. At(f, i) = a % m_max_size  BY DEF a, At
<1>5. f + i = a  BY DEF a
<1>6. At(f, i) \in Slots  BY <1>3, <1>4
<1>7. At(f, i) = IF a < m_max_size THEN a ELSE a - m_max_size  BY <1>3, <1>4
<1>8. At(f, i) = IF f + i < m_max_size THEN f + i ELSE f + i - m_max_size
  <2>1. CASE a < m_max_size
    <3>1. f + i < m_max_size  BY <1>5, <2>1
    <3>2. At(f, i) = f + i  BY <1>5, <1>7, <2>1
    <3> QED  BY <3>1, <3>2
  <2>2. CASE ~(a < m_max_size)
    <3>1. ~(f + i < m_max_size)  BY <1>5, <2>2
    <3>2. At(f, i) = a - m_max_size  BY <1>7, <2>2, Zenon
    <3>3. f \in Int /\ i \in Int /\ m_max_size \in Int  BY BlockQueueAssumption DEF Slots
    <3>4. a - m_max_size = f + i - m_max_size  BY <1>5, <3>3
    <3>5. At(f, i) = f + i - m_max_size  BY <3>2, <3>4, Zenon
    <3> QED  BY <3>1, <3>5
  <2> QED  BY <2>1, <2>2
<1> QED  BY <1>6, <1>8

LEMMA NextSlot ==
  ASSUME NEW f \in Slots \cup {-1}
  PROVE  next(f) = At(f, 1) /\ next(f) \in Slots
<1>1. 1 \in 0..m_max_size /\ f + 1 >= 0  BY BlockQueueAssumption DEF Slots
<1>2. At(f, 1) \in Slots  BY <1>1, SlotAfter
<1> QED  BY <1>2 DEF next, At

\* Going one slot on, then i, is going i+1 slots on.
LEMMA SlotAfterNext ==
  ASSUME NEW f \in Slots \cup {-1}, NEW i \in 0..m_max_size - 1
  PROVE  At(next(f), i) = At(f, i + 1)
<1> DEFINE g == next(f)
<1>1. /\ i + 1 \in 0..m_max_size /\ f + (i + 1) >= 0 /\ i \in 0..m_max_size
      /\ 1 \in 0..m_max_size /\ f + 1 >= 0
  BY BlockQueueAssumption DEF Slots
<1>2. g = IF f + 1 < m_max_size THEN f + 1 ELSE f + 1 - m_max_size
  BY <1>1, SlotAfter, NextSlot
<1>3. g \in Slots /\ g + i >= 0  BY NextSlot, BlockQueueAssumption DEF Slots
<1> HIDE DEF g
<1>4. At(f, i + 1) = IF f + (i + 1) < m_max_size THEN f + (i + 1) ELSE f + (i + 1) - m_max_size
  BY <1>1, SlotAfter
<1>5. At(g, i) = IF g + i < m_max_size THEN g + i ELSE g + i - m_max_size
  BY <1>1, <1>3, SlotAfter
<1>6. At(g, i) = At(f, i + 1)
  BY <1>2, <1>3, <1>4, <1>5, BlockQueueAssumption DEF Slots
<1> QED  BY <1>6 DEF g

\* And i slots on, then one.
LEMMA NextAfterSlot ==
  ASSUME NEW f \in Slots \cup {-1}, NEW i \in 0..m_max_size - 1, f + i >= 0
  PROVE  next(At(f, i)) = At(f, i + 1)
<1> DEFINE g == At(f, i)
<1>1. /\ i + 1 \in 0..m_max_size /\ f + (i + 1) >= 0 /\ i \in 0..m_max_size
      /\ 1 \in 0..m_max_size
  BY BlockQueueAssumption DEF Slots
<1>2. /\ g = IF f + i < m_max_size THEN f + i ELSE f + i - m_max_size
      /\ g \in Slots
  BY <1>1, SlotAfter
<1>3. At(f, i + 1) = IF f + (i + 1) < m_max_size THEN f + (i + 1) ELSE f + (i + 1) - m_max_size
  BY <1>1, SlotAfter
<1> HIDE DEF g
<1>4. g + 1 >= 0  BY <1>2, BlockQueueAssumption DEF Slots
<1>5. At(g, 1) = IF g + 1 < m_max_size THEN g + 1 ELSE g + 1 - m_max_size
  BY <1>1, <1>2, <1>4, SlotAfter
<1>6. At(g, 1) = At(f, i + 1)
  BY <1>2, <1>3, <1>5, BlockQueueAssumption DEF Slots
<1>7. next(g) = At(f, i + 1)  BY <1>2, <1>6, NextSlot
<1> QED  BY <1>7 DEF g

\* The slots of one round are all different.
LEMMA SlotsDiffer ==
  ASSUME NEW f \in Slots \cup {-1}, NEW i \in 1..m_max_size, NEW j \in 1..m_max_size, i # j
  PROVE  At(f, i) # At(f, j)
<1>1. i \in 0..m_max_size /\ j \in 0..m_max_size /\ f + i >= 0 /\ f + j >= 0
  BY BlockQueueAssumption DEF Slots
<1>2. At(f, i) = IF f + i < m_max_size THEN f + i ELSE f + i - m_max_size
  BY <1>1, SlotAfter
<1>3. At(f, j) = IF f + j < m_max_size THEN f + j ELSE f + j - m_max_size
  BY <1>1, SlotAfter
<1> QED  BY <1>2, <1>3, BlockQueueAssumption DEF Slots

\* The sequence queue is what the ring reads from the slot after m_front on.
Reads(s) ==
  /\ s \in Seq(Values) /\ Len(s) = m_size
  /\ \A i \in 1..m_size : s[i] = m_array[At(m_front, i)]

LEMMA QueueType == TypeOK => Reads(queue)
<1> SUFFICES ASSUME TypeOK PROVE Reads(queue)  OBVIOUS
<1>1. m_size \in Nat /\ m_size <= m_max_size /\ m_front \in Slots \cup {-1}
  BY BlockQueueAssumption DEF TypeOK
<1>2. queue = [i \in 1..m_size |-> m_array[At(m_front, i)]]  BY DEF queue, At
<1>3. ASSUME NEW i \in 1..m_size PROVE m_array[At(m_front, i)] \in Values
  <2>1. i \in 0..m_max_size /\ m_front + i >= 0  BY <1>1, BlockQueueAssumption DEF Slots
  <2>2. At(m_front, i) \in Slots  BY <1>1, <2>1, SlotAfter
  <2> QED  BY <2>2 DEF TypeOK, Values
<1> QED  BY <1>1, <1>2, <1>3 DEF Reads

-----------------------------------------------------------------------------
LEMMA InitInv == Init => IInv
BY BlockQueueAssumption
DEF Init, IInv, TypeOK, SleepersHaveNothing, IndicesAgree, Meet, Slots

LEMMA TypeStep == TypeOK /\ [Next]_vars => TypeOK'
<1> SUFFICES ASSUME TypeOK, [Next]_vars PROVE TypeOK'  OBVIOUS
<1> USE BlockQueueAssumption DEF TypeOK
<1>1. ASSUME NEW x \in Items, Push(x) PROVE TypeOK'
  BY <1>1, NextSlot DEF Push, full, broadcast
<1>2. ASSUME NEW c \in Consumers, PopTakes(c) PROVE TypeOK'
  BY <1>2, NextSlot DEF PopTakes, available
<1>3. ASSUME NEW c \in Consumers, PopSleeps(c) \/ Wakes(c) PROVE TypeOK'
  BY <1>3 DEF PopSleeps, Wakes, ring
<1>4. CASE PushRefused \/ Clear \/ UNCHANGED vars
  BY <1>4 DEF PushRefused, Clear, rewound, broadcast, ring, vars
<1> QED  BY <1>1, <1>2, <1>3, <1>4 DEF Next, Consumer

\* A consumer goes to sleep only on an empty queue, and every push wakes all.
LEMMA SleepersStep ==
  TypeOK /\ SleepersHaveNothing /\ [Next]_vars => SleepersHaveNothing'
BY DEF TypeOK, SleepersHaveNothing, Next, Consumer, Push, PushRefused, Clear,
  PopSleeps, Wakes, PopTakes, broadcast, rewound, available, ring, vars

BackAtLast == m_size > 0 => m_back = At(m_front, m_size)

LEMMA BackIsLast == TypeOK /\ BackAtLast => IndicesAgree
<1> SUFFICES ASSUME TypeOK, BackAtLast, m_size > 0
             PROVE  m_back = At(m_front, m_size) /\ back = queue[m_size]
  BY DEF IndicesAgree, At
<1> USE DEF BackAtLast
<1>1. m_size \in 1..m_size /\ m_size \in 0..m_max_size /\ m_front + m_size >= 0
  BY BlockQueueAssumption DEF TypeOK, Slots
<1>2. At(m_front, m_size) \in Slots  BY <1>1, SlotAfter DEF TypeOK
<1>3. queue[m_size] = m_array[At(m_front, m_size)]  BY <1>1, QueueType DEF Reads
<1> QED  BY <1>2, <1>3 DEF back

LEMMA IndicesStep ==
  ASSUME TypeOK, IndicesAgree, Meet, [Next]_vars
  PROVE  IndicesAgree' /\ Meet'
<1>0. TypeOK' /\ (BackAtLast' => IndicesAgree')
  <2>1. TypeOK' /\ BackAtLast' => IndicesAgree'  BY BackIsLast, PTL
  <2> QED  BY <2>1, TypeStep
<1>1. ASSUME NEW x \in Items, Push(x) PROVE IndicesAgree' /\ Meet'
  <2>1. m_size \in 0..m_max_size - 1 /\ m_size' = m_size + 1 /\ m_front' = m_front
    BY <1>1, BlockQueueAssumption DEF Push, full, TypeOK
  <2>2. m_back' = At(m_front, m_size + 1)
    <3>1. CASE m_size = 0
      <4>1. m_back' = next(m_front)  BY <1>1, <3>1 DEF Push, Meet
      <4> QED  BY <3>1, <4>1, NextSlot DEF TypeOK
    <3>2. CASE m_size > 0
      <4>1. m_back' = next(At(m_front, m_size))
        BY <1>1, <3>2 DEF Push, IndicesAgree, At
      <4>2. m_front + m_size >= 0 /\ m_front \in Slots \cup {-1}
        BY <2>1, <3>2 DEF TypeOK, Slots
      <4> QED  BY <2>1, <4>1, <4>2, NextAfterSlot
    <3> QED  BY <2>1, <3>1, <3>2
  <2>3. BackAtLast'  BY <2>1, <2>2 DEF BackAtLast, At
  <2> QED  BY <1>0, <2>1, <2>3 DEF Meet
<1>2. ASSUME NEW c \in Consumers, PopTakes(c) PROVE IndicesAgree' /\ Meet'
  <2>1. /\ m_size \in 1..m_max_size /\ m_size' = m_size - 1 /\ m_back' = m_back
        /\ m_front' = next(m_front) /\ m_front \in Slots \cup {-1}
    BY <1>2 DEF PopTakes, available, TypeOK
  <2>2. m_size - 1 \in 0..m_max_size - 1 /\ (m_size - 1) + 1 = m_size
    BY <2>1, BlockQueueAssumption
  <2>3. m_back = At(m_front, m_size)  BY <2>1 DEF IndicesAgree, At
  <2>4. m_back' = At(m_front', m_size')
    BY <2>1, <2>2, <2>3, SlotAfterNext
  <2>5. m_size' = 0 => m_front' = m_back'
    <3> HAVE m_size' = 0
    <3>1. m_size = 1  BY <2>1
    <3> QED  BY <2>1, <2>3, <3>1, NextSlot
  <2>6. BackAtLast'  BY <2>4 DEF BackAtLast, At
  <2> QED  BY <1>0, <2>5, <2>6 DEF Meet
<1>3. CASE Clear
  BY <1>3 DEF Clear, rewound, IndicesAgree, Meet
<1>4. ASSUME UNCHANGED ring PROVE IndicesAgree' /\ Meet'
  BY <1>4 DEF ring, IndicesAgree, Meet, back, queue
<1> QED
  BY <1>1, <1>2, <1>3, <1>4 DEF Next, Consumer, PushRefused, PopSleeps, Wakes, vars

-----------------------------------------------------------------------------
LEMMA InvStep == IInv /\ [Next]_vars => IInv'
BY TypeStep, SleepersStep, IndicesStep DEF IInv

LEMMA Invariant == Spec => []IInv
BY InitInv, InvStep, PTL DEF Spec

\* The indices stay in the ring and m_size within its capacity.
THEOREM TypeCorrect == Spec => []TypeOK
<1>1. IInv => TypeOK  BY DEF IInv
<1> QED  BY <1>1, Invariant, PTL

\* No consumer sleeps while there is something in the queue: the broadcast of
\* push() reaches everyone who found it empty.
THEOREM NoSleepThroughPush == Spec => []SleepersHaveNothing
<1>1. IInv => SleepersHaveNothing  BY DEF IInv
<1> QED  BY <1>1, Invariant, PTL

\* m_front, m_back and m_size tell the same story through every wrap-around and
\* clear(), so that back() is the newest item.
THEOREM IndicesKept == Spec => []IndicesAgree
<1>1. IInv => IndicesAgree  BY DEF IInv
<1> QED  BY <1>1, Invariant, PTL

-----------------------------------------------------------------------------
(* The ring implements BoundedFifo. *)

LEMMA SameQueue ==
  ASSUME NEW s \in Seq(Values), TypeOK', Len(s) = m_size',
         \A i \in 1..m_size' : s[i] = m_array'[At(m_front', i)]
  PROVE  s = queue'
<1>1. TypeOK' => Reads(queue)'  BY QueueType, PTL
<1>2. /\ queue' \in Seq(Values) /\ Len(queue') = m_size'
      /\ \A i \in 1..m_size' : queue'[i] = m_array'[At(m_front', i)]
  BY <1>1 DEF Reads, At
<1> QED  BY <1>2, SeqEqual

SizeZero   == m_size = 0
QueueEmpty == queue = <<>>

LEMMA EmptyQueue == TypeOK /\ m_size = 0 => queue = <<>>
BY QueueType, EmptySeq DEF Reads

LEMMA EmptyAtZero == TypeOK /\ SizeZero => QueueEmpty
BY EmptyQueue DEF SizeZero, QueueEmpty

LEMMA PushImplemented ==
  ASSUME IInv, IInv', NEW x \in Items, Push(x)
  PROVE  Fifo!Push(x)
<1> USE DEF IInv
<1>1. /\ m_size \in 0..m_max_size - 1 /\ m_size' = m_size + 1 /\ m_front' = m_front
      /\ m_array' = [m_array EXCEPT ![m_back'] = x]
  BY BlockQueueAssumption DEF Push, full, TypeOK
<1>2. m_back' = At(m_front, m_size + 1)
  BY <1>1 DEF IndicesAgree, At
<1>3. m_back' \in Slots
  BY NextSlot DEF Push, TypeOK
<1>4. /\ queue \in Seq(Values) /\ Len(queue) = m_size
      /\ \A i \in 1..m_size : queue[i] = m_array[At(m_front, i)]
  BY QueueType DEF Reads
<1>5. x \in Values  BY DEF Values
<1> DEFINE s == Append(queue, x)
<1>6. s \in Seq(Values) /\ Len(s) = m_size + 1  BY <1>4, <1>5
<1>7. ASSUME NEW i \in 1..m_size + 1 PROVE s[i] = m_array'[At(m_front, i)]
  <2>1. CASE i = m_size + 1
    <3>1. s[i] = x  BY <1>4, <2>1
    <3> QED  BY <1>1, <1>2, <1>3, <2>1, <3>1 DEF TypeOK
  <2>2. CASE i # m_size + 1
    <3>1. i \in 1..m_size  BY <1>1, <2>2
    <3>2. s[i] = m_array[At(m_front, i)]  BY <1>4, <3>1
    <3>3. i \in 1..m_max_size /\ m_size + 1 \in 1..m_max_size
      BY <1>1, <3>1, BlockQueueAssumption
    <3>4. At(m_front, i) # m_back'
      BY <1>2, <2>2, <3>3, SlotsDiffer DEF TypeOK
    <3>5. i \in 0..m_max_size /\ m_front + i >= 0
      BY <3>3 DEF TypeOK, Slots
    <3>6. At(m_front, i) \in Slots  BY <3>5, SlotAfter DEF TypeOK
    <3> QED  BY <1>1, <3>2, <3>4, <3>6 DEF TypeOK
  <2> QED  BY <2>1, <2>2
<1>8. s = queue'
  BY <1>1, <1>6, <1>7, SameQueue
<1>9. Len(queue) < m_max_size  BY <1>1, <1>4, BlockQueueAssumption
<1> QED  BY <1>8, <1>9 DEF Fifo!Push, Push

LEMMA PopImplemented ==
  ASSUME IInv, IInv', NEW c \in Consumers, PopTakes(c)
  PROVE  Fifo!Pop(c)
<1> USE DEF IInv
<1>1. /\ m_size \in 1..m_max_size /\ m_size' = m_size - 1 /\ m_array' = m_array
      /\ m_front' = next(m_front) /\ m_front \in Slots \cup {-1}
      /\ item' = [item EXCEPT ![c] = m_array[m_front']]
  BY DEF PopTakes, available, TypeOK
<1>2. /\ queue \in Seq(Values) /\ Len(queue) = m_size
      /\ \A i \in 1..m_size : queue[i] = m_array[At(m_front, i)]
  BY QueueType DEF Reads
<1>3. queue # <<>>  BY <1>1, <1>2
<1>4. Head(queue) = m_array[m_front']
  <2>1. Head(queue) = queue[1]  BY <1>2, <1>3
  <2>2. m_front' = At(m_front, 1)  BY <1>1, NextSlot
  <2> QED  BY <1>1, <1>2, <2>1, <2>2
<1> DEFINE s == Tail(queue)
<1>5. /\ s \in Seq(Values) /\ Len(s) = m_size - 1
      /\ \A i \in 1..Len(s) : s[i] = queue[i + 1]
  BY <1>2, <1>3, HeadTailProperties
<1>6. ASSUME NEW i \in 1..m_size - 1 PROVE s[i] = m_array'[At(m_front', i)]
  <2>1. i \in 0..m_max_size - 1 /\ i + 1 \in 1..m_size  BY <1>1, BlockQueueAssumption
  <2>2. At(m_front', i) = At(m_front, i + 1)  BY <1>1, <2>1, SlotAfterNext
  <2> QED  BY <1>1, <1>2, <1>5, <2>1, <2>2
<1>7. s = queue'  BY <1>1, <1>5, <1>6, SameQueue
<1> QED  BY <1>1, <1>3, <1>4, <1>7 DEF Fifo!Pop

LEMMA ClearImplemented == IInv /\ IInv' /\ Clear => Fifo!Clear
<1> SUFFICES ASSUME IInv, IInv', Clear PROVE Fifo!Clear  OBVIOUS
<1>1. m_size' = 0 /\ UNCHANGED item  BY DEF Clear, rewound
<1>2. TypeOK' /\ SizeZero' => QueueEmpty'  BY EmptyAtZero, PTL
<1> QED  BY <1>1, <1>2 DEF Fifo!Clear, IInv, SizeZero, QueueEmpty

\* For every capacity the ring of block_queue is a first-in first-out queue of that
\* capacity: nothing is lost, doubled or overtaken but by clear(), whichever consumers
\* sleep, wake and take.
THEOREM FifoImplemented == Spec => ImplementsFifo
<1>1. Init => Fifo!Init
  <2> SUFFICES ASSUME Init PROVE Fifo!Init  OBVIOUS
  <2>1. m_size = 0 /\ item = [c \in Consumers |-> NoItem]  BY DEF Init
  <2>2. queue = <<>>  BY <2>1, InitInv, EmptyQueue DEF IInv
  <2> QED  BY <2>1, <2>2 DEF Fifo!Init
<1>2. IInv /\ IInv' /\ [Next]_vars => [Fifo!Next]_<<queue, item>>
  <2> SUFFICES ASSUME IInv, IInv', [Next]_vars PROVE [Fifo!Next]_<<queue, item>>  OBVIOUS
  <2>1. ASSUME NEW x \in Items, Push(x) PROVE Fifo!Next
    BY <2>1, PushImplemented DEF Fifo!Next
  <2>2. ASSUME NEW c \in Consumers, PopTakes(c) PROVE Fifo!Next
    BY <2>2, PopImplemented DEF Fifo!Next
  <2>3. CASE Clear
    BY <2>3, ClearImplemented DEF Fifo!Next
  <2>4. ASSUME UNCHANGED <<ring, item>> PROVE UNCHANGED <<queue, item>>
    BY <2>4 DEF ring, queue
  <2> QED
    BY <2>1, <2>2, <2>3, <2>4 DEF Next, Consumer, PushRefused, PopSleeps, Wakes, vars
<1> QED  BY <1>1, <1>2, Invariant, PTL DEF Spec, ImplementsFifo, Fifo!Spec
=============================================================================
