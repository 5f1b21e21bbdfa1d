----------------------------- MODULE BlockQueue -----------------------------
(***************************************************************************)
(* block_queue<T> of block_queue.h: a ring in m_array under m_mutex, with  *)
(* the condition variable m_cond for the consumers.                        *)
(*                                                                         *)
(* A critical section is one step.  m_cond.wait() ends one (the consumer   *)
(* is in "sleep") and, when it returns, begins another (it is in "lock"    *)
(* until it has the mutex).  A consumer calls pop() again as soon as it    *)
(* returns, as Log::async_write_log() does.                                *)
(***************************************************************************)
EXTENDS Integers, Sequences

CONSTANTS
  Items,       \* the values pushed
  NoItem,      \* a slot that was never written (an empty string)
  Consumers,   \* the threads that call pop()
  m_max_size

ASSUME BlockQueueAssumption == m_max_size \in Nat \ {0} /\ NoItem \notin Items

Slots == 0..m_max_size - 1

VARIABLES
  m_array, m_size, m_front, m_back,
  pc,     \* pc[c]: "lock" or "sleep"
  item    \* item[c]: the string that pop() fills in

ring == <<m_array, m_size, m_front, m_back>>
vars == <<ring, pc, item>>

-----------------------------------------------------------------------------
\* Mutant: no consumer is woken.
broadcastNot == UNCHANGED pc
broadcast == pc' = [c \in Consumers |-> "lock"]

full == m_size >= m_max_size

next(i) == (i + 1) % m_max_size

Push(x) ==
  /\ ~full
  /\ m_back' = next(m_back)
  /\ m_array' = [m_array EXCEPT ![m_back'] = x]
  /\ m_size' = m_size + 1
  /\ broadcast
  /\ UNCHANGED <<m_front, item>>

PushRefused ==
  /\ full
  /\ broadcast
  /\ UNCHANGED <<ring, item>>

\* wait() does not fail on a mutex that the consumer holds, so pop() returns true.
PopSleeps(c) ==
  /\ pc[c] = "lock" /\ m_size <= 0
  /\ pc' = [pc EXCEPT ![c] = "sleep"]
  /\ UNCHANGED <<ring, item>>

\* pthread_cond_wait may return although nobody called broadcast().
Wakes(c) ==
  /\ pc[c] = "sleep"
  /\ pc' = [pc EXCEPT ![c] = "lock"]
  /\ UNCHANGED <<ring, item>>

\* Mutant: the loop around wait() is an if, so a woken consumer takes blindly.
availableAlways == TRUE
available == m_size > 0

PopTakes(c) ==
  /\ pc[c] = "lock" /\ available
  /\ m_front' = next(m_front)
  /\ item' = [item EXCEPT ![c] = m_array[m_front']]
  /\ m_size' = m_size - 1
  /\ UNCHANGED <<m_array, m_back, pc>>

\* Mutant: m_front stays where it was.
rewoundHalf == m_size' = 0 /\ m_back' = -1 /\ UNCHANGED m_front
rewound == m_size' = 0 /\ m_front' = -1 /\ m_back' = -1

Clear ==
  /\ rewound
  /\ UNCHANGED <<m_array, pc, item>>

back == IF m_back \in Slots THEN m_array[m_back] ELSE NoItem

-----------------------------------------------------------------------------
Consumer(c) == PopSleeps(c) \/ Wakes(c) \/ PopTakes(c)

Init ==
  /\ m_array = [i \in Slots |-> NoItem]
  /\ m_size = 0 /\ m_front = -1 /\ m_back = -1
  /\ pc = [c \in Consumers |-> "lock"]
  /\ item = [c \in Consumers |-> NoItem]

Next ==
  \/ \E x \in Items : Push(x)
  \/ PushRefused \/ Clear
  \/ \E c \in Consumers : Consumer(c)

\* A consumer gets the mutex in the end.  Nothing is assumed of the producers,
\* nor that wait() ever returns by itself.
Fairness == \A c \in Consumers : WF_vars(PopSleeps(c) \/ PopTakes(c))

Spec == Init /\ [][Next]_vars
FairSpec == Spec /\ Fairness

-----------------------------------------------------------------------------
(* Properties *)

\* The indices stay in the ring and m_size within its capacity.
TypeOK ==
  /\ m_array \in [Slots -> Items \cup {NoItem}]
  /\ m_size \in 0..m_max_size
  /\ m_front \in Slots \cup {-1} /\ m_back \in Slots \cup {-1}
  /\ pc \in [Consumers -> {"lock", "sleep"}]
  /\ item \in [Consumers -> Items \cup {NoItem}]

\* The ring as a sequence: m_front is the slot before the head, so the i-th
\* item is i slots after it.
queue == [i \in 1..m_size |-> m_array[(m_front + i) % m_max_size]]

\* The ring with its two indices and its counter is a first-in first-out queue
\* with a capacity, whatever threads push, pop, wake up and clear.
Fifo == INSTANCE BoundedFifo WITH Max <- m_max_size, popped <- item
ImplementsFifo == Fifo!Spec

\* No consumer sleeps through a push: one that waits on m_cond waits for an
\* empty queue.
SleepersHaveNothing == (\E c \in Consumers : pc[c] = "sleep") => m_size = 0

\* The three redundant fields agree: m_back is m_size slots after m_front, and
\* back() is therefore the newest item.
IndicesAgree ==
  m_size > 0 => /\ m_back = (m_front + m_size) % m_max_size
                /\ back = queue[m_size]

\* A full queue does not stay full: a consumer is awake and takes an item.
FullDrains == full ~> ~full
=============================================================================
