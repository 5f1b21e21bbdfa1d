----------------------------- MODULE ThreadPool -----------------------------
(***************************************************************************)
(* threadpool<T> of threadpool.h: one thread appends requests, the workers *)
(* wait on a counting semaphore, lock the queue and take one each.         *)
(*                                                                         *)
(* Every access to m_workqueue is inside m_queuelocker, so a critical      *)
(* section is one step; post() and wait() are outside and steps of their   *)
(* own.  The i-th request appended is the number i.                        *)
(***************************************************************************)
EXTENDS Integers, Sequences, FiniteSets

CONSTANTS
  Workers,      \* the m_thread_number threads
  MaxRequests,  \* m_max_requests
  NullRequests, \* the requests that are null pointers
  MaxAppends,   \* bound: calls of append()
  MaxSignals    \* bound: SIGALRMs that interrupt a worker in sem_wait.  addsig()
                \* sets no SA_RESTART, and sem::wait()'s result is not looked at

ASSUME ThreadPoolAssumption ==
  /\ IsFiniteSet(Workers) /\ MaxRequests \in Nat \ {0}
  /\ MaxAppends \in Nat /\ MaxSignals \in Nat /\ NullRequests \subseteq Nat

Requests == 1..MaxAppends

VARIABLES
  m_workqueue,
  m_queuestat,  \* the value of the semaphore
  m_stop,
  main,         \* "idle", "post" in append() before post(), "gone" after ~threadpool()
  pc,           \* pc[w]: "loop", "wait", "take", "process" or "exited"
  request,      \* request[w]: the local of run()
  appended,     \* calls of append() so far
  pushed,       \* history: the requests append() put into the queue, in order
  taken,        \* history: the requests the workers took out, in order
  done,         \* history: the requests that process() was called on
  signals       \* SIGALRMs spent

mainVars == <<main, appended, pushed>>
vars == <<m_workqueue, m_queuestat, m_stop, mainVars, pc, request, taken, done, signals>>

At(p) == {w \in Workers : pc[w] = p}
Pending == IF main = "post" THEN 1 ELSE 0

Goto(w, from, to) == pc[w] = from /\ pc' = [pc EXCEPT ![w] = to]

-----------------------------------------------------------------------------
(* append(), called by the main thread only *)

\* Mutant: the queue is not bounded.
FullNever == FALSE
Full == Len(m_workqueue) > MaxRequests

AppendRejects ==
  /\ main = "idle" /\ appended < MaxAppends /\ Full
  /\ appended' = appended + 1
  /\ UNCHANGED <<m_workqueue, m_queuestat, m_stop, main, pushed, pc, request, taken, done, signals>>

AppendPushes ==
  /\ main = "idle" /\ appended < MaxAppends /\ ~Full
  /\ appended' = appended + 1
  /\ m_workqueue' = Append(m_workqueue, appended + 1)
  /\ pushed' = Append(pushed, appended + 1)
  /\ main' = "post"
  /\ UNCHANGED <<m_queuestat, m_stop, pc, request, taken, done, signals>>

\* Mutant: the semaphore is left alone.
postNot == main = "post" /\ main' = "idle" /\ UNCHANGED m_queuestat
\* Mutant: the semaphore is raised twice.
postTwice == main = "post" /\ main' = "idle" /\ m_queuestat' = m_queuestat + 2
post == main = "post" /\ main' = "idle" /\ m_queuestat' = m_queuestat + 1

AppendPosts ==
  /\ post
  /\ UNCHANGED <<m_workqueue, m_stop, appended, pushed, pc, request, taken, done, signals>>

\* ~threadpool(): m_stop is set, and nobody is woken.
Destroy ==
  /\ main = "idle"
  /\ main' = "gone"
  /\ m_stop' = TRUE
  /\ UNCHANGED <<m_workqueue, m_queuestat, appended, pushed, pc, request, taken, done, signals>>

-----------------------------------------------------------------------------
(* run() *)

Loop(w) ==
  /\ Goto(w, "loop", IF m_stop THEN "exited" ELSE "wait")
  /\ UNCHANGED <<m_workqueue, m_queuestat, m_stop, mainVars, request, taken, done, signals>>

Wait(w) ==
  /\ m_queuestat > 0
  /\ Goto(w, "wait", "take")
  /\ m_queuestat' = m_queuestat - 1
  /\ UNCHANGED <<m_workqueue, m_stop, mainVars, request, taken, done, signals>>

\* sem_wait fails with EINTR; run() goes on as if it had the semaphore.
WaitInterrupted(w) ==
  /\ signals < MaxSignals
  /\ Goto(w, "wait", "take")
  /\ signals' = signals + 1
  /\ UNCHANGED <<m_workqueue, m_queuestat, m_stop, mainVars, request, taken, done>>

TakeNothing(w) ==
  /\ m_workqueue = <<>>
  /\ Goto(w, "take", "loop")
  /\ UNCHANGED <<m_workqueue, m_queuestat, m_stop, mainVars, request, taken, done, signals>>

\* Mutant: front() without pop_front().
popNot == UNCHANGED m_workqueue
pop == m_workqueue' = Tail(m_workqueue)

Take(w) ==
  /\ m_workqueue # <<>>
  /\ Goto(w, "take", IF Head(m_workqueue) \in NullRequests THEN "loop" ELSE "process")
  /\ pop
  /\ request' = [request EXCEPT ![w] = Head(m_workqueue)]
  /\ taken' = Append(taken, Head(m_workqueue))
  /\ UNCHANGED <<m_queuestat, m_stop, mainVars, done, signals>>

Process(w) ==
  /\ Goto(w, "process", "loop")
  /\ done' = done \cup {request[w]}
  /\ UNCHANGED <<m_workqueue, m_queuestat, m_stop, mainVars, request, taken, signals>>

-----------------------------------------------------------------------------
Worker(w) ==
  \/ Loop(w) \/ Wait(w) \/ WaitInterrupted(w)
  \/ TakeNothing(w) \/ Take(w) \/ Process(w)

Init ==
  /\ m_workqueue = <<>> /\ m_queuestat = 0 /\ m_stop = FALSE
  /\ main = "idle" /\ appended = 0 /\ pushed = <<>>
  /\ pc = [w \in Workers |-> "loop"]
  /\ request = [w \in Workers |-> 0]
  /\ taken = <<>> /\ done = {} /\ signals = 0

Next ==
  \/ AppendRejects \/ AppendPushes \/ AppendPosts \/ Destroy
  \/ \E w \in Workers : Worker(w)

\* append() returns, and no worker that can go on is left waiting for ever.
Fairness == WF_vars(AppendPosts) /\ \A w \in Workers : WF_vars(Worker(w))

Spec == Init /\ [][Next]_vars
FairSpec == Spec /\ Fairness

-----------------------------------------------------------------------------
(* Properties *)

\* The variables keep to the values of their C++ counterparts, and the queue
\* never holds more than one request beyond m_max_requests (the test is size() >
\* m_max_requests).
TypeOK ==
  /\ m_workqueue \in Seq(Requests) /\ Len(m_workqueue) <= MaxRequests + 1
  /\ m_queuestat \in Nat /\ m_stop \in BOOLEAN
  /\ main \in {"idle", "post", "gone"}
  /\ appended \in 0..MaxAppends
  /\ pushed \in Seq(Requests) /\ taken \in Seq(Requests)
  /\ pc \in [Workers -> {"loop", "wait", "take", "process", "exited"}]
  /\ request \in [Workers -> 0..MaxAppends]
  /\ done \subseteq Requests
  /\ signals \in 0..MaxSignals

\* No wakeup is lost: every request in the queue has a count of the semaphore,
\* a post() on its way, or a worker past wait() that will take it.
SemaphoreCoversQueue ==
  Len(m_workqueue) <= m_queuestat + Pending + Cardinality(At("take"))

\* As long as no signal has come the three are in balance, so the worker that has
\* the semaphore finds a request (run()'s test for an empty queue fails).
TakersFindWork ==
  signals = 0 => \A w \in Workers : pc[w] = "take" => m_workqueue # <<>>

\* Requests leave the queue in the order append() put them in, none is lost
\* between the two and none is taken twice.
FifoOnce == pushed = taken \o m_workqueue

\* Unless the pool is destroyed, process() is called on every request that was
\* queued, whatever signals interrupt the workers.
EveryRequestProcessed ==
  \A r \in Requests \ NullRequests :
    (\E i \in DOMAIN m_workqueue : m_workqueue[i] = r) ~> (r \in done \/ m_stop)
=============================================================================
