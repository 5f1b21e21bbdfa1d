-------------------------------- MODULE Log --------------------------------
(***************************************************************************)
(* class Log of log.h and log.cpp: the threads of the server call          *)
(* write_log(), and in the asynchronous mode the flush thread takes their  *)
(* lines from a bounded queue and writes them to the file.                 *)
(*                                                                         *)
(* A critical section of m_mutex is one step, and so is a call of          *)
(* block_queue, whose abstraction BoundedFifo stands for it here.  The     *)
(* text of a line is made in m_buf under the mutex and copied before it is *)
(* released, so a line is its number, in the order of the calls.           *)
(***************************************************************************)
EXTENDS Integers, Sequences, FiniteSets

CONSTANTS
  Writers,         \* the threads that log
  m_split_lines,
  max_queue_size,  \* 0 is the synchronous mode
  file_name,       \* what init() is given
  HasSlash,        \* whether file_name has a '/'; without, log_name stays empty
  MaxLines,        \* bound: calls of write_log()
  MaxDay           \* bound: midnights

ASSUME LogAssumption ==
  /\ IsFiniteSet(Writers)
  /\ m_split_lines \in Nat \ {0} /\ max_queue_size \in Nat
  /\ HasSlash \in BOOLEAN /\ MaxLines \in Nat /\ MaxDay \in Nat
  /\ file_name # ""

Lines == 1..MaxLines
NoLine == 0
m_is_async == max_queue_size >= 1
log_name == IF HasSlash THEN file_name ELSE ""
Files == [name : {file_name, log_name}, day : 0..MaxDay, part : 0..MaxLines]

VARIABLES
  day,         \* the date that localtime() gives
  m_count, m_today,
  m_fp,        \* the open file
  file,        \* file[f]: the lines fputs() put into f, in order
  queue,       \* m_log_queue
  single_log,  \* single_log[FlushThread]: the line it popped last
  flusher,     \* the flush thread: "pop" or "write"
  pc,          \* pc[w]: "idle", "count", "full", "push" or "write"
  line,        \* line[w]: the line w is logging
  my_tm,       \* my_tm[w]: the date w read
  stamp,       \* history: stamp[l] is the date in line l
  lost         \* history: the lines that push() refused

FlushThread == "flush_log_thread"
writerVars == <<pc, line, my_tm, stamp>>
fileVars == <<m_count, m_today, m_fp>>
queueVars == <<queue, single_log>>
vars == <<day, fileVars, file, queueVars, flusher, writerVars, lost>>

Queue == INSTANCE BoundedFifo
  WITH Items <- Lines, NoItem <- NoLine, Consumers <- {FlushThread},
       Max <- max_queue_size, popped <- single_log

Goto(w, from, to) == pc[w] = from /\ pc' = [pc EXCEPT ![w] = to]

Midnight ==
  /\ day < MaxDay
  /\ day' = day + 1
  /\ UNCHANGED <<fileVars, file, queueVars, flusher, writerVars, lost>>

-----------------------------------------------------------------------------
(* write_log() *)

\* The date is read before the mutex is taken.
Call(w) ==
  /\ Len(stamp) < MaxLines
  /\ Goto(w, "idle", "count")
  /\ stamp' = Append(stamp, day)
  /\ line' = [line EXCEPT ![w] = Len(stamp')]
  /\ my_tm' = [my_tm EXCEPT ![w] = day]
  /\ UNCHANGED <<day, fileVars, file, queueVars, flusher, lost>>

\* fopen() succeeds: nobody tests its result, and fputs() on NULL ends the process.
Open(d, n) == m_fp' = [name |-> log_name, day |-> d, part |-> n]

\* Mutant: a new day opens no file.
newDayNever(d) == FALSE
newDay(d) == m_today # d
fullFile == (m_count + 1) % m_split_lines = 0

SameFile(w) ==
  /\ ~newDay(my_tm[w]) /\ ~fullFile
  /\ m_count' = m_count + 1
  /\ UNCHANGED <<m_today, m_fp>>

DayFile(w) ==
  /\ newDay(my_tm[w])
  /\ m_today' = my_tm[w]
  /\ m_count' = 0
  /\ Open(my_tm[w], 0)

\* Mutant: the lines are counted anew with each part.
NextPartResets(w) ==
  /\ ~newDay(my_tm[w]) /\ fullFile
  /\ m_count' = 0
  /\ Open(my_tm[w], (m_count + 1) \div m_split_lines)
  /\ UNCHANGED m_today
NextPart(w) ==
  /\ ~newDay(my_tm[w]) /\ fullFile
  /\ m_count' = m_count + 1
  /\ Open(my_tm[w], m_count' \div m_split_lines)
  /\ UNCHANGED m_today

Count(w) ==
  /\ Goto(w, "count", IF m_is_async THEN "full" ELSE "write")
  /\ SameFile(w) \/ DayFile(w) \/ NextPart(w)
  /\ UNCHANGED <<day, file, queueVars, flusher, line, my_tm, stamp, lost>>

\* Mutant: a full queue looks as if it had room.
queueFullLate == Len(queue) > max_queue_size
queueFull == Len(queue) >= max_queue_size

Full(w) ==
  /\ Goto(w, "full", IF queueFull THEN "write" ELSE "push")
  /\ UNCHANGED <<day, fileVars, file, queueVars, flusher, line, my_tm, stamp, lost>>

Push(w) ==
  /\ Goto(w, "push", "idle")
  /\ Queue!Push(line[w])
  /\ UNCHANGED <<day, fileVars, file, flusher, line, my_tm, stamp, lost>>

\* push() returns false; write_log() does not look.
PushRefused(w) ==
  /\ Len(queue) >= max_queue_size
  /\ Goto(w, "push", "idle")
  /\ lost' = lost \cup {line[w]}
  /\ UNCHANGED <<day, fileVars, file, queueVars, flusher, line, my_tm, stamp>>

fputs(l) == file' = [file EXCEPT ![m_fp] = Append(@, l)]

Write(w) ==
  /\ Goto(w, "write", "idle")
  /\ fputs(line[w])
  /\ UNCHANGED <<day, fileVars, queueVars, flusher, line, my_tm, stamp, lost>>

-----------------------------------------------------------------------------
(* async_write_log() *)

FlusherPops ==
  /\ flusher = "pop" /\ flusher' = "write"
  /\ Queue!Pop(FlushThread)
  /\ UNCHANGED <<day, fileVars, file, writerVars, lost>>

\* Mutants: the line is not written; the thread ends after one line.
flushedNot == UNCHANGED file
flushed == fputs(single_log[FlushThread])
loopNot == flusher' = "done"
loop == flusher' = "pop"

FlusherWrites ==
  /\ flusher = "write" /\ loop
  /\ flushed
  /\ UNCHANGED <<day, fileVars, queueVars, writerVars, lost>>

-----------------------------------------------------------------------------
Writer(w) ==
  \/ Call(w) \/ Count(w) \/ Full(w) \/ Push(w) \/ PushRefused(w) \/ Write(w)

Flusher == FlusherPops \/ FlusherWrites

Init ==
  /\ day = 0 /\ m_count = 0 /\ m_today = 0
  /\ m_fp = [name |-> file_name, day |-> 0, part |-> 0]
  /\ file = [f \in Files |-> <<>>]
  /\ Queue!Init
  /\ flusher = "pop"
  /\ pc = [w \in Writers |-> "idle"]
  /\ line = [w \in Writers |-> NoLine]
  /\ my_tm = [w \in Writers |-> 0]
  /\ stamp = <<>> /\ lost = {}

Next == Midnight \/ Flusher \/ \E w \in Writers : Writer(w)

\* The flush thread runs, and a thread inside write_log() goes on.
Fairness ==
  WF_vars(Flusher) /\ \A w \in Writers : WF_vars(pc[w] # "idle" /\ Writer(w))

Spec == Init /\ [][Next]_vars
FairSpec == Spec /\ Fairness

-----------------------------------------------------------------------------
(* Properties *)

\* The variables keep to the values of their C++ counterparts, the open file is
\* the one of m_today, and no date is read before it comes.
TypeOK ==
  /\ day \in 0..MaxDay /\ m_today \in 0..day /\ m_count \in 0..MaxLines
  /\ m_fp \in Files /\ m_fp.day = m_today
  /\ file \in [Files -> Seq(Lines)]
  /\ queue \in Seq(Lines) /\ Len(queue) <= max_queue_size
  /\ single_log \in [{FlushThread} -> Lines \cup {NoLine}]
  /\ flusher \in {"pop", "write"}
  /\ pc \in [Writers -> {"idle", "count", "full", "push", "write"}]
  /\ line \in [Writers -> Lines \cup {NoLine}]
  /\ my_tm \in [Writers -> 0..MaxDay]
  /\ stamp \in Seq(0..MaxDay) /\ Len(stamp) <= MaxLines
  /\ lost \subseteq Lines

\* The places a line can be in, with how often it is there.
Occurrences(s, l) == Cardinality({i \in DOMAIN s : s[i] = l})
InHand(l) ==
  Cardinality({w \in Writers : pc[w] # "idle" /\ line[w] = l})
    + IF flusher = "write" /\ single_log[FlushThread] = l THEN 1 ELSE 0
Written(l) ==
  {p \in Files \X Lines : p[2] \in DOMAIN file[p[1]] /\ file[p[1]][p[2]] = l}

\* A line that was logged is in exactly one place: with its writer, in the
\* queue, with the flush thread, in one file once, or refused by push().
EachLineOnce ==
  \A l \in 1..Len(stamp) :
    InHand(l) + Occurrences(queue, l) + Cardinality(Written(l))
      + (IF l \in lost THEN 1 ELSE 0) = 1

\* Lines counted before that of part f.part * m_split_lines, which opened f, and
\* not written by then: no more than were counted at all, and than the queue, the
\* writers and the flush thread can hold.  The first file was not opened by a line.
Inherited(f) ==
  LET counted == f.part * m_split_lines - 1
      held    == max_queue_size + Cardinality(Writers)
  IN  IF counted < held THEN counted ELSE held

\* The open file is the one of m_today.  Until midnight a file has no more lines
\* than m_split_lines and those it inherits.
FileBound ==
  /\ TypeOK
  /\ day = 0 => \A f \in Files : Len(file[f]) <= m_split_lines + Inherited(f)

\* As long as a single thread logs, nothing is lost between full() and push():
\* the flush thread can only make room.
Sole == Cardinality({w \in Writers : line[w] # NoLine}) <= 1
SoleWriterLosesNothing == Sole => lost = {}

\* ... and no line is in a file of a day before it was logged.
SoleWriterFilesAreDated ==
  Sole => \A f \in Files : \A i \in DOMAIN file[f] : stamp[file[f][i]] <= f.day

\* A line in the queue is written.
QueuedLineWritten ==
  \A l \in Lines : (\E i \in DOMAIN queue : queue[i] = l) ~> Written(l) # {}
=============================================================================
