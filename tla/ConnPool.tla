------------------------------ MODULE ConnPool ------------------------------
(***************************************************************************)
(* connection_pool of sql_connection_pool.cpp, used through connectionRALL:*)
(* each worker takes a MySQL connection before it processes a request and  *)
(* gives it back after.                                                    *)
(*                                                                         *)
(* A critical section of lock is one step.  The test of connList.size() is *)
(* outside it, and so are reserve.wait() and reserve.post().               *)
(***************************************************************************)
EXTENDS Integers, Sequences, FiniteSets

CONSTANTS
  Threads,    \* the workers of the thread pool
  MaxConn,    \* connections opened by init()
  MaxSignals  \* bound: SIGALRMs that interrupt reserve.wait(), whose result
              \* GetConnection() does not look at

ASSUME ConnPoolAssumption ==
  IsFiniteSet(Threads) /\ MaxConn \in Nat \ {0} /\ MaxSignals \in Nat

Conns == 1..MaxConn
NULL == 0

VARIABLES
  connList,  \* the free connections
  reserve,   \* the value of the semaphore
  FreeConn, CurConn,
  pc,        \* pc[t]: "idle", "check", "wait", "pop", "use", "post"
  con,       \* con[t]: conRALL, until it is back in the list
  aborted,   \* front() and pop_front() of an empty list end the process
  signals    \* SIGALRMs spent

counters == <<FreeConn, CurConn>>
vars == <<connList, reserve, counters, pc, con, aborted, signals>>

At(p) == {t \in Threads : pc[t] = p}
Holders == {t \in Threads : con[t] # NULL}
Listed == {connList[i] : i \in DOMAIN connList}

Goto(t, from, to) ==
  ~aborted /\ pc[t] = from /\ pc' = [pc EXCEPT ![t] = to]

-----------------------------------------------------------------------------
(* GetConnection() *)

Begin(t) ==
  /\ Goto(t, "idle", "check")
  /\ UNCHANGED <<connList, reserve, counters, con, aborted, signals>>

CheckEmpty(t) ==
  /\ connList = <<>>
  /\ Goto(t, "check", "use")
  /\ UNCHANGED <<connList, reserve, counters, con, aborted, signals>>

CheckSome(t) ==
  /\ connList # <<>>
  /\ Goto(t, "check", "wait")
  /\ UNCHANGED <<connList, reserve, counters, con, aborted, signals>>

\* Mutant: the semaphore is not lowered.
downNot == UNCHANGED reserve
down == reserve > 0 /\ reserve' = reserve - 1

Wait(t) ==
  /\ down
  /\ Goto(t, "wait", "pop")
  /\ UNCHANGED <<connList, counters, con, aborted, signals>>

WaitInterrupted(t) ==
  /\ signals < MaxSignals
  /\ Goto(t, "wait", "pop")
  /\ signals' = signals + 1
  /\ UNCHANGED <<connList, reserve, counters, con, aborted>>

\* Mutant: the connection stays in the list.
popNot == UNCHANGED connList
pop == connList' = Tail(connList)
countTaken == FreeConn' = FreeConn - 1 /\ CurConn' = CurConn + 1

Pop(t) ==
  /\ connList # <<>>
  /\ Goto(t, "pop", "use")
  /\ con' = [con EXCEPT ![t] = Head(connList)]
  /\ pop
  /\ countTaken
  /\ UNCHANGED <<reserve, aborted, signals>>

PopEmpty(t) ==
  /\ connList = <<>>
  /\ Goto(t, "pop", "use")
  /\ aborted' = TRUE
  /\ UNCHANGED <<connList, reserve, counters, con, signals>>

-----------------------------------------------------------------------------
(* ReleaseConnection(), by ~connectionRALL() after process() *)

ReleaseNull(t) ==
  /\ con[t] = NULL
  /\ Goto(t, "use", "idle")
  /\ UNCHANGED <<connList, reserve, counters, con, aborted, signals>>

countReturned == FreeConn' = FreeConn + 1 /\ CurConn' = CurConn - 1

Release(t) ==
  /\ con[t] # NULL
  /\ Goto(t, "use", "post")
  /\ connList' = Append(connList, con[t])
  /\ con' = [con EXCEPT ![t] = NULL]
  /\ countReturned
  /\ UNCHANGED <<reserve, aborted, signals>>

\* Mutant: the semaphore is left alone.
upNot == UNCHANGED reserve
up == reserve' = reserve + 1

Post(t) ==
  /\ Goto(t, "post", "idle")
  /\ up
  /\ UNCHANGED <<connList, counters, con, aborted, signals>>

-----------------------------------------------------------------------------
Serve(t) ==
  \/ CheckEmpty(t) \/ CheckSome(t) \/ Wait(t) \/ WaitInterrupted(t)
  \/ Pop(t) \/ PopEmpty(t) \/ ReleaseNull(t) \/ Release(t) \/ Post(t)

Init ==
  /\ connList = [i \in Conns |-> i]
  /\ reserve = MaxConn /\ FreeConn = MaxConn /\ CurConn = 0
  /\ pc = [t \in Threads |-> "idle"]
  /\ con = [t \in Threads |-> NULL]
  /\ aborted = FALSE /\ signals = 0

Next == \E t \in Threads : Begin(t) \/ Serve(t)

\* A worker that can go on does; nothing says that a request ever comes.
Fairness == \A t \in Threads : WF_vars(Serve(t))

Spec == Init /\ [][Next]_vars
FairSpec == Spec /\ Fairness

-----------------------------------------------------------------------------
(* Properties *)

\* The unsigned counters never go below zero, and the variables keep to the
\* values of their C++ counterparts.
TypeOK ==
  /\ connList \in Seq(Conns) /\ reserve \in Nat
  /\ FreeConn \in Nat /\ CurConn \in Nat
  /\ pc \in [Threads -> {"idle", "check", "wait", "pop", "use", "post"}]
  /\ con \in [Threads -> Conns \cup {NULL}]
  /\ aborted \in BOOLEAN /\ signals \in 0..MaxSignals

\* Every connection is in the list at one place or with one thread: none is
\* lost, none is used by two threads.
EachConnectionOnce ==
  /\ Listed \cup {con[t] : t \in Holders} = Conns
  /\ Len(connList) + Cardinality(Holders) = MaxConn

\* FreeConn counts the list and CurConn the rest.
CountersExact == FreeConn = Len(connList) /\ FreeConn + CurConn = MaxConn

\* A thread that passed wait() and has not posted stands for one count of the
\* semaphore, so the counts and those threads make up all connections; a
\* signal only adds to them.
Passed == Holders \cup At("pop") \cup At("post")
ReserveCovers == reserve + Cardinality(Passed) >= MaxConn

\* While no more threads than connections are inside (main.cpp and threadpool.h
\* have 8 of each) nobody is refused, waits or pops an empty list, whatever
\* happened before and whatever signals interrupted wait().
Inside == {t \in Threads : pc[t] # "idle"}
WorkersServed ==
  Cardinality(Inside) <= MaxConn =>
    /\ \A t \in Threads : pc[t] \in {"check", "pop"} => connList # <<>>
    /\ \A t \in Threads : pc[t] = "wait" => reserve > 0

\* In a pool of any size, a thread that has the semaphore finds a connection as
\* long as no signal has interrupted wait().
PopFindsConnection == signals = 0 => ~aborted

\* While a thread waits, somebody gets a connection: the threads do not all wait
\* for a post() that was forgotten.
SomebodyServed ==
  (\E t \in Threads : pc[t] = "wait") ~> (aborted \/ \E t \in Threads : con[t] # NULL)
=============================================================================
