------------------------------ MODULE LogProofs ------------------------------
(***************************************************************************)
(* Proofs about Log: no line is lost or written twice, and what a single   *)
(* logging thread can rely on, and how long a file gets, for any number of *)
(* threads, any queue and any m_split_lines.                               *)
(***************************************************************************)
EXTENDS Log, FiniteSetTheorems, TLAPS

Logged == 1..Len(stamp)
AtCount == {w \in Writers : pc[w] = "count"}

\* The lines counted are lines logged, and a writer before its critical section has
\* one that is not counted yet.
Counted == m_count + Cardinality(AtCount) <= Len(stamp)
\* Lines in hand, in the queue and in files have been logged.
HandLogged ==
  /\ \A w \in Writers : line[w] \in Logged \cup {NoLine}
  /\ \A w \in Writers : pc[w] # "idle" => line[w] \in Logged
  /\ flusher = "write" => single_log[FlushThread] \in Logged
QueueLogged == \A i \in DOMAIN queue : queue[i] \in Logged
FilesLogged == \A f \in Files : \A i \in DOMAIN file[f] : file[f][i] \in Logged
\* No date is read before it comes.
DatesPassed == \A w \in Writers : my_tm[w] <= day

TypeInv ==
  TypeOK /\ Counted /\ HandLogged /\ QueueLogged /\ FilesLogged /\ lost \subseteq Logged
    /\ DatesPassed

LEMMA Bounds ==
  m_split_lines \in Nat \ {0} /\ max_queue_size \in Nat /\ MaxLines \in Nat /\ MaxDay \in Nat
BY LogAssumption, Zenon
LEMMA WritersFinite == IsFiniteSet(Writers)
BY LogAssumption, Zenon

LEMMA InitType == Init => TypeInv
<1> SUFFICES ASSUME Init PROVE TypeInv  OBVIOUS
<1>1. AtCount = {} /\ Cardinality(AtCount) = 0  BY FS_EmptySet DEF Init, AtCount
<1>2. m_fp \in Files /\ m_fp.day = m_today  BY Bounds DEF Init, Files
<1>3. queue = <<>> /\ single_log = [c \in {FlushThread} |-> NoLine]
  BY DEF Init, Queue!Init
<1>4. TypeOK  BY <1>2, <1>3, Bounds DEF Init, TypeOK
<1> QED
  BY <1>1, <1>3, <1>4, Bounds DEF Init, TypeInv, Counted, HandLogged, QueueLogged,
    FilesLogged, DatesPassed, Logged

-----------------------------------------------------------------------------
(* Types *)

LEMMA Quotient ==
  ASSUME NEW n \in Nat, NEW k \in Nat \ {0}
  PROVE  n \div k \in 0..n
OBVIOUS

\* How the writers before their critical section change.
LEMMA CountMoves ==
  ASSUME TypeInv, NEW w \in Writers, NEW to, pc' = [pc EXCEPT ![w] = to]
  PROVE  /\ Cardinality(AtCount) \in Nat
         /\ pc[w] # "count" /\ to # "count" => Cardinality(AtCount)' = Cardinality(AtCount)
         /\ pc[w] # "count" /\ to = "count" =>
              Cardinality(AtCount)' = Cardinality(AtCount) + 1
         /\ pc[w] = "count" /\ to # "count" =>
              Cardinality(AtCount)' = Cardinality(AtCount) - 1
<1>1. IsFiniteSet(AtCount) /\ Cardinality(AtCount) \in Nat
  <2>1. IsFiniteSet(AtCount)  BY WritersFinite, FS_Subset DEF AtCount
  <2> QED  BY <2>1, FS_CardinalityType
<1>2. AtCount' = IF to = "count" THEN AtCount \cup {w} ELSE AtCount \ {w}
  BY DEF TypeInv, TypeOK, AtCount
<1>3. w \in AtCount <=> pc[w] = "count"  BY DEF AtCount
<1> HIDE DEF AtCount
<1>4. CASE pc[w] # "count" /\ to # "count"  BY <1>1, <1>2, <1>3, <1>4
<1>5. CASE pc[w] # "count" /\ to = "count"
  <2>1. Cardinality(AtCount \cup {w}) = Cardinality(AtCount) + 1
    BY <1>1, <1>3, <1>5, FS_AddElement
  <2> QED  BY <1>1, <1>2, <1>5, <2>1
<1>6. CASE pc[w] = "count" /\ to # "count"
  <2>1. Cardinality(AtCount \ {w}) = Cardinality(AtCount) - 1
    BY <1>1, <1>3, <1>6, FS_RemoveElement
  <2> QED  BY <1>1, <1>2, <1>6, <2>1
<1>7. CASE pc[w] = "count" /\ to = "count"  BY <1>1, <1>7
<1> QED  BY <1>1, <1>4, <1>5, <1>6, <1>7

LEMMA CallType == \A w \in Writers : TypeInv /\ Call(w) => TypeInv'
<1> SUFFICES ASSUME NEW w \in Writers, TypeInv, Call(w) PROVE TypeInv'  OBVIOUS
<1> USE DEF TypeInv
<1>1. /\ day \in 0..MaxDay /\ stamp \in Seq(0..MaxDay) /\ stamp' = Append(stamp, day)
      /\ Len(stamp) < MaxLines /\ pc[w] = "idle"
      /\ pc' = [pc EXCEPT ![w] = "count"]
      /\ line' = [line EXCEPT ![w] = Len(stamp')] /\ my_tm' = [my_tm EXCEPT ![w] = day]
      /\ UNCHANGED <<day, m_count, m_today, m_fp, file, queue, single_log, flusher, lost>>
  BY DEF Call, Goto, TypeOK, fileVars, queueVars
<1>2. /\ Len(stamp') = Len(stamp) + 1 /\ stamp' \in Seq(0..MaxDay) /\ Len(stamp) \in Nat
      /\ Len(stamp') \in Lines /\ MaxLines \in Nat
  BY <1>1, Bounds DEF Lines
<1>3. TypeOK'  BY <1>1, <1>2 DEF TypeOK, Lines
<1>4. Counted'
  <2>1. Cardinality(AtCount)' = Cardinality(AtCount) + 1 /\ Cardinality(AtCount) \in Nat
    BY <1>1, CountMoves
  <2> QED  BY <1>1, <1>2, <2>1 DEF Counted, TypeOK
<1>5. Logged \subseteq Logged' /\ Len(stamp') \in Logged'  BY <1>2 DEF Logged
<1>6. HandLogged'  BY <1>1, <1>5 DEF HandLogged, TypeOK
<1>7. QueueLogged' /\ FilesLogged' /\ lost' \subseteq Logged'
  BY <1>1, <1>5 DEF QueueLogged, FilesLogged
<1>8. DatesPassed'  BY <1>1 DEF DatesPassed, TypeOK
<1> QED  BY <1>3, <1>4, <1>6, <1>7, <1>8

LEMMA CountType == \A w \in Writers : TypeInv /\ Count(w) => TypeInv'
<1> SUFFICES ASSUME NEW w \in Writers, TypeInv, Count(w) PROVE TypeInv'  OBVIOUS
<1> USE DEF TypeInv
<1> PICK to \in {"full", "write"} : pc' = [pc EXCEPT ![w] = to]
  BY DEF Count, Goto
<1>1. /\ pc[w] = "count"
      /\ UNCHANGED <<day, file, queue, single_log, flusher, line, my_tm, stamp, lost>>
  BY DEF Count, Goto, queueVars
<1>2. /\ my_tm[w] \in 0..day /\ day \in 0..MaxDay /\ m_count \in Nat /\ Len(stamp) \in Nat
      /\ Len(stamp) <= MaxLines /\ m_today \in 0..day
      /\ log_name \in {file_name, log_name}
  BY Bounds DEF TypeOK, DatesPassed
<1>3. Cardinality(AtCount)' = Cardinality(AtCount) - 1 /\ Cardinality(AtCount) \in Nat
      /\ m_count + 1 <= Len(stamp)
  <2>1. Cardinality(AtCount)' = Cardinality(AtCount) - 1 /\ Cardinality(AtCount) \in Nat
    BY <1>1, CountMoves
  <2>2. Cardinality(AtCount) # 0
    <3>1. IsFiniteSet(AtCount)  BY WritersFinite, FS_Subset DEF AtCount
    <3>2. AtCount # {}  BY <1>1 DEF AtCount
    <3> QED  BY <3>1, <3>2, FS_EmptySet
  <2> QED  BY <1>2, <2>1, <2>2 DEF Counted
<1>4. m_count' \in 0..m_count + 1 /\ m_count' \in 0..MaxLines /\ m_today' \in 0..day
  BY <1>2, <1>3, Bounds DEF Count, SameFile, DayFile, NextPart
<1>5. m_fp' \in Files /\ m_fp'.day = m_today'
  <2>1. CASE SameFile(w)  BY <2>1 DEF SameFile, TypeOK
  <2>2. CASE DayFile(w)
    BY <1>2, <2>2, Bounds DEF DayFile, Open, Files
  <2>3. CASE NextPart(w)
    <3>1. m_count' = m_count + 1 /\ m_count' \in Nat  BY <1>2, <2>3 DEF NextPart
    <3>2. m_count' \div m_split_lines \in 0..m_count'  BY <3>1, Bounds, Quotient
    <3>3. m_count' \div m_split_lines \in 0..MaxLines  BY <1>2, <1>3, <3>1, <3>2, Bounds
    <3>4. my_tm[w] = m_today /\ m_today' = m_today  BY <2>3 DEF NextPart, newDay
    <3>5. \E n \in 0..MaxLines : Open(my_tm[w], n)  BY <2>3, <3>3 DEF NextPart
    <3> QED  BY <1>2, <3>4, <3>5, Bounds DEF Open, Files
  <2> QED  BY <2>1, <2>2, <2>3 DEF Count
<1>6. TypeOK'  BY <1>1, <1>2, <1>4, <1>5 DEF TypeOK
<1>7. Counted'  BY <1>1, <1>2, <1>3, <1>4 DEF Counted
<1>8. /\ HandLogged' /\ QueueLogged' /\ FilesLogged' /\ lost' \subseteq Logged'
      /\ DatesPassed'
  BY <1>1 DEF HandLogged, QueueLogged, FilesLogged, DatesPassed, Logged, TypeOK
<1> QED  BY <1>6, <1>7, <1>8

\* A line is put into the open file.
LEMMA FputsType ==
  ASSUME TypeInv, NEW l \in Logged, fputs(l), UNCHANGED stamp
  PROVE  file' \in [Files -> Seq(Lines)] /\ FilesLogged'
<1>1. l \in Lines  BY Bounds DEF TypeInv, TypeOK, Logged, Lines
<1>2. file' = [file EXCEPT ![m_fp] = Append(@, l)] /\ m_fp \in Files
      /\ file \in [Files -> Seq(Lines)]
  BY DEF fputs, TypeInv, TypeOK
<1>3. file' \in [Files -> Seq(Lines)]  BY <1>1, <1>2
<1>4. ASSUME NEW f \in Files, NEW i \in DOMAIN file'[f] PROVE file'[f][i] \in Logged
  <2>1. CASE f # m_fp  BY <1>2, <1>4, <2>1 DEF TypeInv, FilesLogged
  <2>2. CASE f = m_fp
    <3>1. file'[f] = Append(file[f], l) /\ file[f] \in Seq(Lines)  BY <1>2, <2>2
    <3>2. i \in DOMAIN file[f] \/ i = Len(file[f]) + 1  BY <1>1, <1>4, <3>1
    <3> QED  BY <1>1, <3>1, <3>2 DEF TypeInv, FilesLogged
  <2> QED  BY <2>1, <2>2
<1> QED  BY <1>3, <1>4 DEF FilesLogged, Logged

LEMMA WriterType ==
  \A w \in Writers : TypeInv /\ (Full(w) \/ Push(w) \/ PushRefused(w) \/ Write(w)) => TypeInv'
<1> SUFFICES ASSUME NEW w \in Writers, TypeInv,
                    Full(w) \/ Push(w) \/ PushRefused(w) \/ Write(w)
             PROVE  TypeInv'
  OBVIOUS
<1> USE DEF TypeInv
<1> PICK to \in {"push", "write", "idle"} : pc' = [pc EXCEPT ![w] = to]
  BY DEF Full, Push, PushRefused, Write, Goto
<1>1. /\ pc[w] \in {"full", "push", "write"} /\ pc[w] # "count" /\ pc[w] # "idle"
      /\ UNCHANGED <<day, m_count, m_today, m_fp, single_log, flusher, line, my_tm, stamp>>
  BY DEF Full, Push, PushRefused, Write, Goto, fileVars, queueVars, Queue!Push
<1>2. line[w] \in Logged /\ line[w] \in Lines
  BY <1>1, Bounds DEF HandLogged, TypeOK, Logged, Lines
<1>3. Logged' = Logged  BY <1>1 DEF Logged
<1>4. Counted'
  <2>1. Cardinality(AtCount)' = Cardinality(AtCount)  BY <1>1, CountMoves
  <2> QED  BY <1>1, <2>1 DEF Counted
<1>5. HandLogged' /\ DatesPassed'
  BY <1>1, <1>3 DEF HandLogged, DatesPassed, TypeOK
<1>6. queue' \in Seq(Lines) /\ Len(queue') <= max_queue_size /\ QueueLogged'
  <2>1. CASE Push(w)
    <3>1. Len(queue) < max_queue_size /\ queue' = Append(queue, line[w])
          /\ queue \in Seq(Lines)
      BY <2>1 DEF Push, Queue!Push, TypeOK
    <3> QED  BY <1>2, <1>3, <3>1, Bounds DEF QueueLogged
  <2>2. CASE UNCHANGED queue  BY <1>3, <2>2 DEF QueueLogged, TypeOK
  <2> QED  BY <2>1, <2>2 DEF Full, PushRefused, Write, queueVars
<1>7. file' \in [Files -> Seq(Lines)] /\ FilesLogged'
  <2>1. CASE Write(w)  BY <1>1, <1>2, <2>1, FputsType DEF Write
  <2>2. CASE UNCHANGED file  BY <1>3, <2>2 DEF FilesLogged, TypeOK
  <2> QED  BY <2>1, <2>2 DEF Full, PushRefused, Push
<1>8. lost' \subseteq Logged' /\ lost' \subseteq Lines
  BY <1>2, <1>3 DEF Full, Push, PushRefused, Write, TypeOK
<1>9. TypeOK'  BY <1>1, <1>6, <1>7, <1>8 DEF TypeOK
<1> QED  BY <1>4, <1>5, <1>6, <1>7, <1>8, <1>9

LEMMA FlusherType == TypeInv /\ (FlusherPops \/ FlusherWrites \/ Midnight) => TypeInv'
<1> SUFFICES ASSUME TypeInv, FlusherPops \/ FlusherWrites \/ Midnight PROVE TypeInv'
  OBVIOUS
<1> USE DEF TypeInv
<1>1. UNCHANGED <<m_count, m_today, m_fp, pc, line, my_tm, stamp, lost>>
      /\ day' \in day .. MaxDay
  BY Bounds DEF FlusherPops, FlusherWrites, Midnight, fileVars, writerVars, TypeOK
<1>2. Logged' = Logged /\ AtCount' = AtCount  BY <1>1 DEF Logged, AtCount
<1>3. Counted' /\ DatesPassed' /\ lost' \subseteq Logged'
  BY <1>1, <1>2 DEF Counted, DatesPassed, TypeOK
<1>4. CASE FlusherPops
  <2>1. /\ queue # <<>> /\ queue' = Tail(queue) /\ queue \in Seq(Lines)
        /\ single_log' = [single_log EXCEPT ![FlushThread] = Head(queue)]
        /\ flusher' = "write" /\ UNCHANGED <<day, file>>
    BY <1>4 DEF FlusherPops, Queue!Pop, TypeOK
  <2>2. /\ Head(queue) = queue[1] /\ 1 \in DOMAIN queue
        /\ \A i \in DOMAIN queue' : i+1 \in DOMAIN queue /\ queue'[i] = queue[i+1]
        /\ queue' \in Seq(Lines) /\ Len(queue') = Len(queue) - 1
    BY <2>1
  <2>3. Head(queue) \in Logged /\ Head(queue) \in Lines
    BY <2>1, <2>2 DEF QueueLogged
  <2>4. TypeOK'
    <3>1. queue' \in Seq(Lines) /\ Len(queue') <= max_queue_size
      BY <2>1, <2>2, Bounds DEF TypeOK
    <3>2. single_log' \in [{FlushThread} -> Lines \cup {NoLine}]  BY <2>1, <2>3 DEF TypeOK
    <3> QED  BY <1>1, <2>1, <3>1, <3>2 DEF TypeOK
  <2>5. HandLogged' /\ QueueLogged' /\ FilesLogged'
    BY <1>1, <1>2, <2>1, <2>2, <2>3 DEF HandLogged, QueueLogged, FilesLogged, TypeOK
  <2> QED  BY <1>3, <2>4, <2>5
<1>5. CASE FlusherWrites
  <2>1. /\ flusher = "write" /\ flusher' = "pop" /\ UNCHANGED <<day, queue, single_log>>
        /\ fputs(single_log[FlushThread]) /\ single_log[FlushThread] \in Logged
    BY <1>5 DEF FlusherWrites, loop, flushed, queueVars, HandLogged
  <2>2. file' \in [Files -> Seq(Lines)] /\ FilesLogged'  BY <1>1, <2>1, FputsType
  <2>3. TypeOK'  BY <1>1, <2>1, <2>2 DEF TypeOK
  <2>4. HandLogged' /\ QueueLogged'  BY <1>1, <1>2, <2>1 DEF HandLogged, QueueLogged
  <2> QED  BY <1>3, <2>2, <2>3, <2>4
<1>6. CASE Midnight
  <2>1. UNCHANGED <<file, queue, single_log, flusher>>  BY <1>6 DEF Midnight, queueVars
  <2>2. TypeOK'  BY <1>1, <2>1 DEF TypeOK
  <2> QED
    BY <1>1, <1>2, <1>3, <2>1, <2>2 DEF HandLogged, QueueLogged, FilesLogged
<1> QED  BY <1>4, <1>5, <1>6

LEMMA TypeStep == TypeInv /\ [Next]_vars => TypeInv'
<1>1. TypeInv /\ UNCHANGED vars => TypeInv'
  BY DEF vars, fileVars, queueVars, writerVars, TypeInv, TypeOK, Counted, AtCount, HandLogged,
    QueueLogged, FilesLogged, DatesPassed, Logged
<1> QED
  BY <1>1, CallType, CountType, WriterType, FlusherType DEF Next, Writer, Flusher

-----------------------------------------------------------------------------
(* Each line is in one place *)

HasWriter(l) == \E w \in Writers : pc[w] # "idle" /\ line[w] = l
Queued(l)    == \E i \in DOMAIN queue : queue[i] = l
Flushing(l)  == flusher = "write" /\ single_log[FlushThread] = l
InFile(l)    == \E f \in Files : \E i \in DOMAIN file[f] : file[f][i] = l

\* A line is in no place twice, in no two places, and in some place once it is logged.
OneWriter ==
  \A v, w \in Writers : pc[v] # "idle" /\ pc[w] # "idle" /\ line[v] = line[w] => v = w
OneSlot == \A i, j \in DOMAIN queue : queue[i] = queue[j] => i = j
OneFile ==
  \A f, g \in Files : \A i \in DOMAIN file[f], j \in DOMAIN file[g] :
    file[f][i] = file[g][j] => f = g /\ i = j
Apart ==
  \A l \in Lines :
    /\ HasWriter(l) => ~Queued(l) /\ ~Flushing(l) /\ ~InFile(l) /\ l \notin lost
    /\ Queued(l) => ~Flushing(l) /\ ~InFile(l) /\ l \notin lost
    /\ Flushing(l) => ~InFile(l) /\ l \notin lost
    /\ InFile(l) => l \notin lost
Kept ==
  \A l \in Logged : HasWriter(l) \/ Queued(l) \/ Flushing(l) \/ InFile(l) \/ l \in lost
PlaceInv == OneWriter /\ OneSlot /\ OneFile /\ Apart /\ Kept

LEMMA InitPlace == Init => PlaceInv
<1> SUFFICES ASSUME Init PROVE PlaceInv  OBVIOUS
<1>1. /\ queue = <<>> /\ stamp = <<>> /\ flusher = "pop" /\ lost = {}
      /\ \A w \in Writers : pc[w] = "idle"
      /\ \A f \in Files : file[f] = <<>>
  BY DEF Init, Queue!Init
<1>2. \A l : ~HasWriter(l) /\ ~Queued(l) /\ ~Flushing(l) /\ ~InFile(l) /\ l \notin lost
  BY <1>1 DEF HasWriter, Queued, Flushing, InFile
<1>3. Logged = {}  BY <1>1 DEF Logged
<1> QED
  BY <1>1, <1>2, <1>3 DEF PlaceInv, OneWriter, OneSlot, OneFile, Apart, Kept

\* A writer returns: it no longer has its line.
LEMMA WriterLeaves ==
  ASSUME TypeInv, OneWriter, NEW w \in Writers, pc[w] # "idle",
         pc' = [pc EXCEPT ![w] = "idle"], UNCHANGED line
  PROVE  /\ OneWriter'
         /\ \A l : HasWriter(l)' <=> HasWriter(l) /\ l # line[w]
<1>1. \A v \in Writers : pc'[v] = IF v = w THEN "idle" ELSE pc[v]
  BY DEF TypeInv, TypeOK
<1> QED  BY <1>1 DEF OneWriter, HasWriter

\* A line that is in no file is put into the open one.
LEMMA LineFiled ==
  ASSUME TypeInv, OneFile, NEW l \in Lines, ~InFile(l), fputs(l)
  PROVE  /\ OneFile'
         /\ \A k : InFile(k)' <=> InFile(k) \/ k = l
<1>1. m_fp \in Files /\ file \in [Files -> Seq(Lines)]  BY DEF TypeInv, TypeOK
<1>2. /\ \A f \in Files : f # m_fp => file'[f] = file[f]
      /\ file'[m_fp] = Append(file[m_fp], l)
  BY <1>1 DEF fputs
<1> DEFINE n == Len(file[m_fp])
<1>3. /\ n \in Nat /\ DOMAIN file[m_fp] = 1..n /\ DOMAIN file'[m_fp] = 1..n+1
      /\ \A i \in 1..n : file'[m_fp][i] = file[m_fp][i]
      /\ file'[m_fp][n+1] = l
  BY <1>1, <1>2
<1> HIDE DEF n
<1>4. ASSUME NEW f \in Files, NEW i \in DOMAIN file'[f]
      PROVE  \/ i \in DOMAIN file[f] /\ file'[f][i] = file[f][i]
             \/ f = m_fp /\ i = n+1 /\ file'[f][i] = l
  BY <1>2, <1>3
<1>5. ASSUME NEW f \in Files, NEW i \in DOMAIN file[f]
      PROVE  i \in DOMAIN file'[f] /\ file'[f][i] = file[f][i]
  BY <1>2, <1>3
<1>6. OneFile'
  <2> SUFFICES ASSUME NEW f \in Files, NEW g \in Files,
                      NEW i \in DOMAIN file'[f], NEW j \in DOMAIN file'[g],
                      file'[f][i] = file'[g][j]
               PROVE  f = g /\ i = j
    BY DEF OneFile, Files
  <2> QED  BY <1>4 DEF OneFile, InFile
<1>7. ASSUME NEW k PROVE InFile(k)' <=> InFile(k) \/ k = l
  <2>1. InFile(k)' => InFile(k) \/ k = l  BY <1>4 DEF InFile, Files
  <2>2. InFile(k) => InFile(k)'  BY <1>5 DEF InFile, Files
  <2>3. InFile(l)'  BY <1>1, <1>3 DEF InFile, Files
  <2> QED  BY <2>1, <2>2, <2>3
<1> QED  BY <1>6, <1>7

LEMMA CallPlace == \A w \in Writers : TypeInv /\ PlaceInv /\ Call(w) => PlaceInv'
<1> SUFFICES ASSUME NEW w \in Writers, TypeInv, PlaceInv, Call(w) PROVE PlaceInv'
  OBVIOUS
<1> USE DEF PlaceInv
<1> DEFINE new == Len(stamp) + 1
<1>1. /\ new \in Nat /\ Logged' = Logged \cup {new} /\ new \notin Logged /\ new \in Lines
  BY Bounds DEF Call, Logged, Lines, TypeInv, TypeOK
<1>2. Len(stamp') = new  BY DEF Call, TypeInv, TypeOK
<1> HIDE DEF new
<1>3. /\ pc[w] = "idle" /\ pc' = [pc EXCEPT ![w] = "count"] /\ line' = [line EXCEPT ![w] = new]
      /\ UNCHANGED <<queue, flusher, single_log, file, lost>>
  BY <1>2 DEF Call, Goto, queueVars
<1>4. \A v \in Writers : /\ pc'[v] = IF v = w THEN "count" ELSE pc[v]
                         /\ line'[v] = IF v = w THEN new ELSE line[v]
  BY <1>3 DEF TypeInv, TypeOK
<1>5. \A l : HasWriter(l)' <=> HasWriter(l) \/ l = new
  BY <1>3, <1>4 DEF HasWriter
<1>6. \A l : Queued(l)' = Queued(l) /\ Flushing(l)' = Flushing(l) /\ InFile(l)' = InFile(l)
  BY <1>3 DEF Queued, Flushing, InFile, Files
<1>7. ~HasWriter(new) /\ ~Queued(new) /\ ~Flushing(new) /\ ~InFile(new) /\ new \notin lost
  BY <1>1 DEF HasWriter, Queued, Flushing, InFile, TypeInv, HandLogged, QueueLogged, FilesLogged
<1>8. OneWriter'  BY <1>4, <1>7 DEF OneWriter, HasWriter
<1>9. OneSlot' /\ OneFile'  BY <1>3 DEF OneSlot, OneFile, Files
<1>10. Apart'  BY <1>3, <1>5, <1>6, <1>7 DEF Apart, Lines
<1>11. Kept'  BY <1>1, <1>3, <1>5, <1>6 DEF Kept
<1> QED  BY <1>8, <1>9, <1>10, <1>11

LEMMA StayPlace ==
  ASSUME TypeInv, PlaceInv,
         \/ (\E w \in Writers : Count(w) \/ Full(w)) \/ Midnight \/ UNCHANGED vars
  PROVE  PlaceInv'
<1> USE DEF PlaceInv
<1>1. /\ UNCHANGED <<line, queue, flusher, single_log, file, lost, stamp>>
      /\ \A v \in Writers : pc'[v] # "idle" <=> pc[v] # "idle"
  BY DEF Count, Full, Goto, Midnight, queueVars, writerVars, vars, TypeInv, TypeOK
<1>2. \A l : /\ HasWriter(l)' = HasWriter(l) /\ Queued(l)' = Queued(l)
             /\ Flushing(l)' = Flushing(l) /\ InFile(l)' = InFile(l)
  BY <1>1 DEF HasWriter, Queued, Flushing, InFile, Files
<1>3. OneWriter' /\ OneSlot' /\ OneFile'  BY <1>1 DEF OneWriter, OneSlot, OneFile, Files
<1>4. Apart' /\ Kept'  BY <1>1, <1>2 DEF Apart, Kept, Logged, Lines
<1> QED  BY <1>3, <1>4

LEMMA PushPlace ==
  \A w \in Writers :
    TypeInv /\ PlaceInv /\ (Push(w) \/ PushRefused(w) \/ Write(w)) => PlaceInv'
<1> SUFFICES ASSUME NEW w \in Writers, TypeInv, PlaceInv, Push(w) \/ PushRefused(w) \/ Write(w)
             PROVE  PlaceInv'
  OBVIOUS
<1> USE DEF PlaceInv
<1> DEFINE l == line[w]
<1>1. /\ pc[w] # "idle" /\ pc' = [pc EXCEPT ![w] = "idle"]
      /\ UNCHANGED <<line, flusher, single_log, stamp>>
  BY DEF Push, PushRefused, Write, Goto, queueVars, Queue!Push
<1>2. l \in Logged /\ l \in Lines /\ HasWriter(l)
  <2>1. l \in Logged  BY <1>1 DEF TypeInv, HandLogged
  <2>2. l \in Lines  BY <2>1, Bounds DEF Logged, Lines, TypeInv, TypeOK
  <2> QED  BY <1>1, <2>1, <2>2 DEF HasWriter
<1>3. /\ OneWriter' /\ Logged' = Logged
      /\ \A k : HasWriter(k)' <=> HasWriter(k) /\ k # l
      /\ \A k : Flushing(k)' = Flushing(k)
  BY <1>1, WriterLeaves DEF Logged, Flushing
<1>4. ~Queued(l) /\ ~Flushing(l) /\ ~InFile(l) /\ l \notin lost  BY <1>2 DEF Apart
<1>5. CASE Push(w)
  <2>1. queue' = Append(queue, l) /\ queue \in Seq(Lines) /\ UNCHANGED <<file, lost>>
    BY <1>5 DEF Push, Queue!Push, TypeInv, TypeOK
  <2> HIDE DEF l
  <2> DEFINE n == Len(queue)
  <2>2. /\ n \in Nat /\ DOMAIN queue = 1..n /\ DOMAIN queue' = 1..n+1
        /\ \A i \in 1..n : queue'[i] = queue[i]
        /\ queue'[n+1] = l
    BY <1>2, <2>1
  <2> HIDE DEF n
  <2>3. \A k : Queued(k)' <=> Queued(k) \/ k = l  BY <2>2 DEF Queued
  <2>4. OneSlot'  BY <1>4, <2>2 DEF OneSlot, Queued
  <2>5. OneFile' /\ \A k : InFile(k)' = InFile(k)  BY <2>1 DEF OneFile, InFile, Files
  <2>6. Apart'  BY <1>3, <1>4, <2>1, <2>3, <2>5 DEF Apart, Lines
  <2>7. Kept'  BY <1>3, <2>1, <2>3, <2>5 DEF Kept
  <2> QED  BY <1>3, <2>4, <2>5, <2>6, <2>7
<1>6. CASE PushRefused(w)
  <2>1. UNCHANGED <<queue, file>> /\ lost' = lost \cup {l}  BY <1>6 DEF PushRefused, queueVars
  <2> HIDE DEF l
  <2>2. /\ OneFile' /\ OneSlot'
        /\ \A k : InFile(k)' = InFile(k) /\ Queued(k)' = Queued(k)
    BY <2>1 DEF OneFile, OneSlot, InFile, Queued, Files
  <2>3. Apart'  BY <1>3, <1>4, <2>1, <2>2 DEF Apart, Lines
  <2>4. Kept'  BY <1>3, <2>1, <2>2 DEF Kept
  <2> QED  BY <1>3, <2>2, <2>3, <2>4
<1>7. CASE Write(w)
  <2>1. UNCHANGED <<queue, lost>> /\ fputs(l)  BY <1>7 DEF Write, queueVars
  <2> HIDE DEF l
  <2>2. OneSlot' /\ \A k : Queued(k)' = Queued(k)  BY <2>1 DEF OneSlot, Queued
  <2>3. OneFile' /\ \A k : InFile(k)' <=> InFile(k) \/ k = l
    BY <1>2, <1>4, <2>1, LineFiled
  <2>4. Apart'  BY <1>3, <1>4, <2>1, <2>2, <2>3 DEF Apart, Lines
  <2>5. Kept'  BY <1>3, <2>1, <2>2, <2>3 DEF Kept
  <2> QED  BY <1>3, <2>2, <2>3, <2>4, <2>5
<1> QED  BY <1>5, <1>6, <1>7

LEMMA FlushPlace == TypeInv /\ PlaceInv /\ Flusher => PlaceInv'
<1> SUFFICES ASSUME TypeInv, PlaceInv, Flusher PROVE PlaceInv'  OBVIOUS
<1> USE DEF PlaceInv
<1>1. UNCHANGED <<pc, line, stamp, lost>>
  BY DEF Flusher, FlusherPops, FlusherWrites, writerVars
<1>2. OneWriter' /\ Logged' = Logged /\ \A k : HasWriter(k)' = HasWriter(k)
  BY <1>1 DEF OneWriter, Logged, HasWriter
<1>3. CASE FlusherPops
  <2>1. /\ flusher = "pop" /\ flusher' = "write" /\ queue # <<>> /\ queue' = Tail(queue)
        /\ single_log' = [single_log EXCEPT ![FlushThread] = Head(queue)]
        /\ queue \in Seq(Lines) /\ UNCHANGED file
        /\ single_log \in [{FlushThread} -> Lines \cup {NoLine}]
    BY <1>3 DEF FlusherPops, Queue!Pop, TypeInv, TypeOK
  <2> SUFFICES ASSUME NEW l, l = Head(queue) PROVE PlaceInv'  OBVIOUS
  <2>2. /\ Len(queue) \in Nat /\ Len(queue) > 0 /\ queue[1] = l
        /\ DOMAIN queue = 1..Len(queue) /\ DOMAIN queue' = 1..Len(queue) - 1
        /\ \A i \in 1..Len(queue) - 1 : queue'[i] = queue[i+1]
    BY <2>1
  <2>3. OneSlot'
    <3>1. \A i, j \in DOMAIN queue' :
            queue'[i] = queue'[j] => i+1 \in DOMAIN queue /\ j+1 \in DOMAIN queue
                                      /\ queue[i+1] = queue[j+1] /\ i \in Int /\ j \in Int
      BY <2>2
    <3> QED  BY <3>1 DEF OneSlot
  <2>4. \A k : Queued(k)' <=> Queued(k) /\ k # l
    <3>1. ASSUME NEW k, NEW i \in DOMAIN queue', queue'[i] = k PROVE Queued(k) /\ k # l
      <4>1. i+1 \in DOMAIN queue /\ queue[i+1] = k /\ 1 \in DOMAIN queue /\ i+1 # 1
        BY <2>2, <3>1
      <4> QED  BY <2>2, <4>1 DEF OneSlot, Queued
    <3>2. ASSUME NEW k, NEW i \in DOMAIN queue, queue[i] = k, k # l PROVE Queued(k)'
      <4>1. i # 1  BY <2>2, <3>2
      <4>2. i-1 \in DOMAIN queue' /\ queue'[i-1] = k  BY <2>2, <3>2, <4>1
      <4> QED  BY <4>2 DEF Queued
    <3> QED  BY <3>1, <3>2 DEF Queued
  <2>5. \A k : ~Flushing(k) /\ (Flushing(k)' <=> k = l)  BY <2>1 DEF Flushing
  <2>6. OneFile' /\ \A k : InFile(k)' = InFile(k)  BY <2>1 DEF OneFile, InFile, Files
  <2>7. Queued(l)  BY <2>2 DEF Queued
  <2>8. Apart'  BY <1>1, <1>2, <2>4, <2>5, <2>6, <2>7 DEF Apart, Lines
  <2>9. Kept'  BY <1>1, <1>2, <2>4, <2>5, <2>6 DEF Kept
  <2> QED  BY <1>2, <2>3, <2>6, <2>8, <2>9
<1>4. CASE FlusherWrites
  <2>1. /\ flusher = "write" /\ flusher' = "pop" /\ UNCHANGED queue
        /\ fputs(single_log[FlushThread])
    BY <1>4 DEF FlusherWrites, loop, flushed, queueVars
  <2> SUFFICES ASSUME NEW l, l = single_log[FlushThread] PROVE PlaceInv'  OBVIOUS
  <2>2. Flushing(l) /\ l \in Lines
    <3>1. l \in Logged  BY <2>1 DEF TypeInv, HandLogged
    <3> QED  BY <2>1, <3>1, Bounds DEF Flushing, Logged, Lines, TypeInv, TypeOK
  <2>3. ~InFile(l) /\ l \notin lost  BY <2>2 DEF Apart
  <2>4. OneFile' /\ \A k : InFile(k)' <=> InFile(k) \/ k = l
    BY <2>1, <2>2, <2>3, LineFiled
  <2>5. \A k : ~Flushing(k)' /\ (Flushing(k) <=> k = l)  BY <2>1 DEF Flushing
  <2>6. OneSlot' /\ \A k : Queued(k)' = Queued(k)  BY <2>1 DEF OneSlot, Queued
  <2>7. Apart'  BY <1>1, <1>2, <2>2, <2>3, <2>4, <2>5, <2>6 DEF Apart, Lines
  <2>8. Kept'  BY <1>1, <1>2, <2>4, <2>5, <2>6 DEF Kept
  <2> QED  BY <1>2, <2>4, <2>6, <2>7, <2>8
<1> QED  BY <1>3, <1>4 DEF Flusher

LEMMA PlaceStep == TypeInv /\ PlaceInv /\ [Next]_vars => PlaceInv'
BY CallPlace, StayPlace, PushPlace, FlushPlace DEF Next, Writer

\* Counting the places.
LEMMA AtMostOne ==
  ASSUME NEW S, \A x, y \in S : x = y
  PROVE  Cardinality(S) = IF S = {} THEN 0 ELSE 1
<1>1. CASE S = {}  BY <1>1, FS_EmptySet
<1>2. CASE S # {}
  <2> PICK x \in S : TRUE  BY <1>2
  <2>1. S = {x}  OBVIOUS
  <2> QED  BY <1>2, <2>1, FS_Singleton
<1> QED  BY <1>1, <1>2

\* A file has at most as many lines as are logged.
LEMMA FileLength ==
  ASSUME TypeInv, OneFile, NEW f \in Files
  PROVE  Len(file[f]) <= MaxLines
<1>1. file[f] \in Seq(Lines) /\ Len(file[f]) \in Nat  BY DEF TypeInv, TypeOK
<1>2. file[f] \in Injection(1..Len(file[f]), Lines)
  <2>1. file[f] \in [1..Len(file[f]) -> Lines] /\ DOMAIN file[f] = 1..Len(file[f])  BY <1>1
  <2>2. IsInjective(file[f])  BY <2>1 DEF IsInjective, OneFile
  <2> QED  BY <2>1, <2>2 DEF Injection
<1>3. ASSUME NEW n \in Nat
      PROVE  IsFiniteSet(1..n) /\ Cardinality(1..n) = n
  <2>1. 1 \in Int /\ n \in Int  OBVIOUS
  <2>2. IsFiniteSet(1..n) /\ Cardinality(1..n) = IF 1 > n THEN 0 ELSE n - 1 + 1
    BY <2>1, FS_Interval
  <2> QED  BY <2>2
<1>4. IsFiniteSet(Lines) /\ Cardinality(Lines) = MaxLines  BY <1>3, Bounds DEF Lines
<1>5. Cardinality(1..Len(file[f])) <= Cardinality(Lines)
  BY <1>2, <1>4, FS_Injection, Zenon
<1> QED  BY <1>1, <1>3, <1>4, <1>5

LEMMA PlacesCounted == TypeInv /\ PlaceInv => EachLineOnce
<1> SUFFICES ASSUME TypeInv, PlaceInv, NEW l \in 1..Len(stamp)
             PROVE  InHand(l) + Occurrences(queue, l) + Cardinality(Written(l))
                      + (IF l \in lost THEN 1 ELSE 0) = 1
  BY DEF EachLineOnce
<1> USE DEF PlaceInv
<1> DEFINE H == {w \in Writers : pc[w] # "idle" /\ line[w] = l}
           Q == {i \in DOMAIN queue : queue[i] = l}
<1>1. l \in Logged /\ l \in Lines
  BY Bounds DEF Logged, Lines, TypeInv, TypeOK
<1>2. Cardinality(H) = IF HasWriter(l) THEN 1 ELSE 0
  <2>1. \A v, w \in H : v = w  BY DEF OneWriter
  <2>2. H # {} <=> HasWriter(l)  BY DEF HasWriter
  <2> QED  BY <2>1, <2>2, AtMostOne
<1>3. Cardinality(Q) = IF Queued(l) THEN 1 ELSE 0
  <2>1. \A i, j \in Q : i = j  BY DEF OneSlot
  <2>2. Q # {} <=> Queued(l)  BY DEF Queued
  <2> QED  BY <2>1, <2>2, AtMostOne
<1>4. Cardinality(Written(l)) = IF InFile(l) THEN 1 ELSE 0
  <2>1. \A p, q \in Written(l) : p = q  BY DEF Written, OneFile
  <2>2. Written(l) # {} => InFile(l)  BY DEF Written, InFile
  <2>3. ASSUME NEW f \in Files, NEW i \in DOMAIN file[f], file[f][i] = l
        PROVE  <<f, i>> \in Written(l)
    <3>1. i \in 1..Len(file[f]) /\ Len(file[f]) \in Nat  BY DEF TypeInv, TypeOK
    <3>2. i \in Lines  BY <3>1, FileLength, Bounds DEF Lines
    <3> QED  BY <2>3, <3>2 DEF Written
  <2>4. Written(l) # {} <=> InFile(l)  BY <2>2, <2>3 DEF InFile
  <2> QED  BY <2>1, <2>4, AtMostOne
<1>5. /\ InHand(l) = Cardinality(H) + (IF Flushing(l) THEN 1 ELSE 0)
      /\ Occurrences(queue, l) = Cardinality(Q)
  BY DEF InHand, Flushing, Occurrences
<1> HIDE DEF H, Q
<1>6. /\ HasWriter(l) => ~Queued(l) /\ ~Flushing(l) /\ ~InFile(l) /\ l \notin lost
      /\ Queued(l) => ~Flushing(l) /\ ~InFile(l) /\ l \notin lost
      /\ Flushing(l) => ~InFile(l) /\ l \notin lost
      /\ InFile(l) => l \notin lost
      /\ HasWriter(l) \/ Queued(l) \/ Flushing(l) \/ InFile(l) \/ l \in lost
  BY <1>1 DEF Apart, Kept
<1> QED  BY <1>2, <1>3, <1>4, <1>5, <1>6

-----------------------------------------------------------------------------
(* A single thread that logs *)

\* It finds room behind full(), and its dates do not go back: what it has in hand, in
\* the queue and in files is not younger than the file it goes to.
RoomLeft ==
  lost = {} /\ \A w \in Writers : pc[w] = "push" => Len(queue) < max_queue_size
HandDated ==
  /\ \A w \in Writers :
       /\ pc[w] = "count" => my_tm[w] = stamp[line[w]] /\ m_today <= my_tm[w]
       /\ pc[w] \in {"full", "push", "write"} => stamp[line[w]] <= m_today
  /\ flusher = "write" => stamp[single_log[FlushThread]] <= m_today
QueueDated == \A i \in DOMAIN queue : stamp[queue[i]] <= m_today
FilesDated == \A f \in Files : \A i \in DOMAIN file[f] : stamp[file[f][i]] <= f.day
SoleInv == Sole => RoomLeft /\ HandDated /\ QueueDated /\ FilesDated

LEMMA InitSole == Init => SoleInv
<1> SUFFICES ASSUME Init PROVE SoleInv  OBVIOUS
<1>1. queue = <<>>  BY DEF Init, Queue!Init
<1> QED
  BY <1>1 DEF Init, SoleInv, RoomLeft, HandDated, QueueDated, FilesDated

\* Once a thread has logged it stays the one.
LEMMA SoleStays ==
  ASSUME TypeInv, TypeInv', [Next]_vars, Sole'
  PROVE  /\ Sole
         /\ \A v, w \in Writers :
              (pc[v] # "idle" \/ pc'[v] # "idle") /\ (pc[w] # "idle" \/ pc'[w] # "idle") => v = w
<1> DEFINE S == {w \in Writers : line[w] # NoLine}
           T == {w \in Writers : line'[w] # NoLine}
<1>1. S \subseteq T
  <2>1. UNCHANGED line \/ \E w \in Writers : line' = [line EXCEPT ![w] = Len(stamp')]
    BY DEF Next, Midnight, Flusher, FlusherPops, FlusherWrites, Writer, Call, Count, Full, Push,
      PushRefused, Write, writerVars, vars
  <2>2. ASSUME NEW w \in Writers, Call(w) PROVE Len(stamp') # NoLine
    <3>1. stamp \in Seq(0..MaxDay) /\ day \in 0..MaxDay /\ stamp' = Append(stamp, day)
      BY <2>2 DEF Call, TypeInv, TypeOK
    <3> QED  BY <3>1 DEF NoLine
  <2>3. UNCHANGED line
        \/ \E w \in Writers : line' = [line EXCEPT ![w] = Len(stamp')] /\ Len(stamp') # NoLine
    BY <2>2 DEF Next, Midnight, Flusher, FlusherPops, FlusherWrites, Writer, Call, Count, Full,
      Push, PushRefused, Write, writerVars, vars
  <2> QED  BY <2>3 DEF TypeInv, TypeOK
<1>2. IsFiniteSet(T) /\ Cardinality(T) \in Nat /\ Cardinality(T) <= 1
  <2>1. IsFiniteSet(T)  BY WritersFinite, FS_Subset
  <2> QED  BY <2>1, FS_CardinalityType DEF Sole
<1>3. Sole
  <2>1. IsFiniteSet(S) /\ Cardinality(S) <= Cardinality(T) /\ Cardinality(S) \in Nat
    BY <1>1, <1>2, FS_Subset, FS_CardinalityType
  <2> QED  BY <1>2, <2>1 DEF Sole
<1> HIDE DEF S, T
<1>4. ASSUME NEW v \in T, NEW w \in T, v # w PROVE FALSE
  <2>1. IsFiniteSet({v}) /\ Cardinality({v}) = 1  BY FS_Singleton
  <2>2. Cardinality({v} \cup {w}) = 2  BY <1>4, <2>1, FS_AddElement
  <2>3. Cardinality({v} \cup {w}) <= Cardinality(T)
    <3>1. {v} \cup {w} \subseteq T  OBVIOUS
    <3> QED  BY <1>2, <3>1, FS_Subset
  <2> QED  BY <1>2, <2>2, <2>3
<1>5. ASSUME NEW w \in Writers, pc[w] # "idle" \/ pc'[w] # "idle" PROVE w \in T
  <2>1. CASE pc[w] # "idle"
    <3>1. line[w] # NoLine  BY <2>1 DEF TypeInv, HandLogged, Logged, NoLine
    <3> QED  BY <1>1, <3>1 DEF S
  <2>2. CASE pc'[w] # "idle"
    <3>1. line'[w] # NoLine  BY <2>2 DEF TypeInv, HandLogged, Logged, NoLine
    <3> QED  BY <3>1 DEF T
  <2> QED  BY <1>5, <2>1, <2>2
<1> QED  BY <1>3, <1>4, <1>5

\* A line that is not younger than the open file is put into it.
LEMMA FputsDated ==
  ASSUME TypeInv, FilesDated, NEW l \in Lines, fputs(l), UNCHANGED stamp, stamp[l] <= m_today
  PROVE  FilesDated'
<1>1. m_fp \in Files /\ file \in [Files -> Seq(Lines)] /\ m_fp.day = m_today
  BY DEF TypeInv, TypeOK
<1>2. /\ \A f \in Files : f # m_fp => file'[f] = file[f]
      /\ file'[m_fp] = Append(file[m_fp], l)
  BY <1>1 DEF fputs
<1>3. ASSUME NEW i \in DOMAIN file'[m_fp]
      PROVE  \/ i \in DOMAIN file[m_fp] /\ file'[m_fp][i] = file[m_fp][i]
             \/ file'[m_fp][i] = l
  BY <1>1, <1>2
<1> QED  BY <1>1, <1>2, <1>3 DEF FilesDated, Files

\* The actions of the only thread that logs.
LEMMA SoleWriterStep ==
  ASSUME TypeInv, TypeInv', SoleInv, NEW w \in Writers, Writer(w), Sole'
  PROVE  RoomLeft' /\ HandDated' /\ QueueDated' /\ FilesDated'
<1>1. Sole /\ \A v \in Writers : v # w => pc[v] = "idle" /\ pc'[v] = "idle"
  <2>1. pc[w] # "idle" \/ pc'[w] # "idle"
    BY DEF Writer, Call, Count, Full, Push, PushRefused, Write, Goto, TypeInv, TypeOK
  <2> QED  BY <2>1, SoleStays DEF Next
<1>2. RoomLeft /\ HandDated /\ QueueDated /\ FilesDated  BY <1>1 DEF SoleInv
<1>3. /\ stamp \in Seq(0..MaxDay) /\ day \in 0..MaxDay /\ m_today \in 0..day
      /\ queue \in Seq(Lines) /\ Len(queue) \in Nat /\ pc' \in [Writers -> {"idle", "count",
            "full", "push", "write"}]
  BY DEF TypeInv, TypeOK
<1>4. UNCHANGED <<flusher, single_log>>
  BY DEF Writer, Call, Count, Full, Push, PushRefused, Write, queueVars, Queue!Push
<1>5. CASE Call(w)
  <2>1. /\ stamp' = Append(stamp, day) /\ pc'[w] = "count" /\ line'[w] = Len(stamp) + 1
        /\ my_tm'[w] = day /\ UNCHANGED <<m_today, queue, file, lost>>
    BY <1>3, <1>5 DEF Call, Goto, fileVars, queueVars, TypeInv, TypeOK
  <2>2. stamp'[Len(stamp) + 1] = day /\ \A l \in Logged : stamp'[l] = stamp[l]
    BY <1>3, <2>1 DEF Logged
  <2>3. RoomLeft'  BY <1>1, <1>2, <2>1 DEF RoomLeft
  <2>4. HandDated'
    <3>1. my_tm'[w] = stamp'[line'[w]] /\ m_today' <= my_tm'[w]  BY <1>3, <2>1, <2>2
    <3>2. flusher' = "write" => stamp'[single_log'[FlushThread]] <= m_today'
      BY <1>2, <1>4, <2>1, <2>2 DEF HandDated, TypeInv, HandLogged
    <3> QED  BY <1>1, <2>1, <3>1, <3>2 DEF HandDated
  <2>5. QueueDated' /\ FilesDated'
    BY <1>2, <2>1, <2>2 DEF QueueDated, FilesDated, TypeInv, QueueLogged, FilesLogged, Files
  <2> QED  BY <2>3, <2>4, <2>5
<1>6. CASE Count(w)
  <2>1. /\ pc[w] = "count" /\ pc'[w] \in {"full", "write"}
        /\ UNCHANGED <<stamp, line, my_tm, queue, file, lost>>
    BY <1>6 DEF Count, Goto, queueVars, TypeInv, TypeOK
  <2>2. my_tm[w] = stamp[line[w]] /\ m_today <= my_tm[w] /\ my_tm[w] \in 0..MaxDay
    BY <1>2, <2>1 DEF HandDated, TypeInv, TypeOK
  <2>3. m_today' = my_tm[w]
    BY <1>6 DEF Count, SameFile, DayFile, NextPart, newDay
  <2>4. \A l \in Logged : stamp[l] <= m_today => stamp[l] <= m_today'
    <3>1. \A l \in Logged : stamp[l] \in Int  BY <1>3, Bounds DEF Logged
    <3>2. m_today \in Int /\ m_today' \in Int /\ m_today <= m_today'
      BY <1>3, <2>2, <2>3, Bounds
    <3> QED  BY <3>1, <3>2
  <2>5. RoomLeft'  BY <1>1, <1>2, <2>1 DEF RoomLeft
  <2>6. HandDated'
    BY <1>1, <1>2, <1>4, <2>1, <2>2, <2>3, <2>4 DEF HandDated, TypeInv, HandLogged
  <2>7. QueueDated' /\ FilesDated'
    BY <1>2, <2>1, <2>4 DEF QueueDated, FilesDated, TypeInv, QueueLogged, Files
  <2> QED  BY <2>5, <2>6, <2>7
<1>7. CASE Full(w) \/ Push(w) \/ PushRefused(w) \/ Write(w)
  <2>1. /\ UNCHANGED <<stamp, line, my_tm, m_today>>
        /\ pc[w] \in {"full", "push", "write"} /\ pc'[w] \in {"push", "write", "idle"}
    BY <1>7 DEF Full, Push, PushRefused, Write, Goto, fileVars, queueVars, TypeInv, TypeOK
  <2>2. stamp[line[w]] <= m_today  BY <1>2, <2>1 DEF HandDated
  <2>3. HandDated'  BY <1>1, <1>2, <1>4, <2>1, <2>2 DEF HandDated
  <2>4. RoomLeft'
    <3>1. CASE Full(w)
      BY <1>1, <1>2, <1>3, <3>1, Bounds DEF Full, Goto, queueFull, queueVars, RoomLeft, TypeInv, TypeOK
    <3>2. CASE Push(w) \/ Write(w)
      <4>1. lost' = lost /\ pc'[w] = "idle"
        BY <3>2 DEF Push, Write, Goto, TypeInv, TypeOK
      <4> QED  BY <1>1, <1>2, <4>1 DEF RoomLeft
    <3>3. CASE PushRefused(w)
      <4>1. Len(queue) >= max_queue_size /\ pc[w] = "push"  BY <3>3 DEF PushRefused, Goto
      <4> QED  BY <1>2, <1>3, <4>1, Bounds DEF RoomLeft
    <3> QED  BY <1>7, <3>1, <3>2, <3>3
  <2>5. QueueDated'
    <3>1. CASE Push(w)
      <4>1. queue' = Append(queue, line[w])  BY <3>1 DEF Push, Queue!Push
      <4>2. line[w] \in Lines
        BY <2>1, Bounds DEF TypeInv, TypeOK, HandLogged, Logged, Lines
      <4> QED  BY <1>2, <1>3, <2>1, <2>2, <4>1, <4>2 DEF QueueDated
    <3>2. CASE UNCHANGED queue  BY <1>2, <2>1, <3>2 DEF QueueDated
    <3> QED  BY <1>7, <3>1, <3>2 DEF Full, PushRefused, Write, queueVars
  <2>6. FilesDated'
    <3>1. CASE Write(w)
      <4>1. fputs(line[w]) /\ line[w] \in Lines
        BY <2>1, <3>1, Bounds DEF Write, TypeInv, TypeOK, HandLogged, Logged, Lines
      <4> QED  BY <1>2, <2>1, <2>2, <4>1, FputsDated
    <3>2. CASE UNCHANGED file  BY <1>2, <2>1, <3>2 DEF FilesDated, Files
    <3> QED  BY <1>7, <3>1, <3>2 DEF Full, Push, PushRefused
  <2> QED  BY <2>3, <2>4, <2>5, <2>6
<1> QED  BY <1>5, <1>6, <1>7 DEF Writer

LEMMA SoleStep == TypeInv /\ TypeInv' /\ SoleInv /\ [Next]_vars => SoleInv'
<1> SUFFICES ASSUME TypeInv, TypeInv', SoleInv, [Next]_vars, Sole'
             PROVE  RoomLeft' /\ HandDated' /\ QueueDated' /\ FilesDated'
  BY DEF SoleInv
<1>1. RoomLeft /\ HandDated /\ QueueDated /\ FilesDated  BY SoleStays DEF SoleInv
<1>2. CASE \E w \in Writers : Writer(w)  BY <1>2, SoleWriterStep
<1>3. CASE FlusherPops
  <2>1. /\ queue # <<>> /\ queue' = Tail(queue) /\ queue \in Seq(Lines)
        /\ single_log' = [single_log EXCEPT ![FlushThread] = Head(queue)]
        /\ single_log \in [{FlushThread} -> Lines \cup {NoLine}]
        /\ UNCHANGED <<pc, line, my_tm, stamp, m_today, file, lost>>
    BY <1>3 DEF FlusherPops, Queue!Pop, fileVars, writerVars, TypeInv, TypeOK
  <2>2. /\ Head(queue) = queue[1] /\ 1 \in DOMAIN queue /\ single_log'[FlushThread] = Head(queue)
        /\ \A i \in DOMAIN queue' : i+1 \in DOMAIN queue /\ queue'[i] = queue[i+1]
        /\ Len(queue') = Len(queue) - 1 /\ Len(queue) \in Nat
    BY <2>1
  <2>3. RoomLeft'  BY <1>1, <2>1, <2>2, Bounds DEF RoomLeft
  <2>4. HandDated'  BY <1>1, <2>1, <2>2 DEF HandDated, QueueDated
  <2>5. QueueDated' /\ FilesDated'  BY <1>1, <2>1, <2>2 DEF QueueDated, FilesDated, Files
  <2> QED  BY <2>3, <2>4, <2>5
<1>4. CASE FlusherWrites
  <2>1. /\ flusher = "write" /\ flusher' = "pop" /\ fputs(single_log[FlushThread])
        /\ UNCHANGED <<pc, line, my_tm, stamp, m_today, queue, lost>>
    BY <1>4 DEF FlusherWrites, loop, flushed, fileVars, queueVars, writerVars
  <2>2. single_log[FlushThread] \in Lines
    BY <2>1, Bounds DEF TypeInv, TypeOK, HandLogged, Logged, Lines
  <2>3. FilesDated'  BY <1>1, <2>1, <2>2, FputsDated DEF HandDated
  <2> QED  BY <1>1, <2>1, <2>3 DEF RoomLeft, HandDated, QueueDated
<1>5. CASE Midnight \/ UNCHANGED vars
  BY <1>1, <1>5 DEF Midnight, vars, fileVars, queueVars, writerVars, RoomLeft, HandDated,
    QueueDated, FilesDated, Files
<1> QED  BY <1>2, <1>3, <1>4, <1>5 DEF Next, Flusher

-----------------------------------------------------------------------------
(* The size of a file *)

\* The writers that have a line counted and not given away.
Hand == {w \in Writers : pc[w] \in {"full", "push", "write"}}
Has(p) == IF p \in {"full", "push", "write"} THEN 1 ELSE 0
\* The lines that may still come to the open file.
Ahead == Len(queue) + Cardinality(Hand) + IF flusher = "write" THEN 1 ELSE 0
\* Lines counted since the open file was opened, the one that opened it among them.
Own == (m_count % m_split_lines) + 1

PartCounted == m_fp.part = m_count \div m_split_lines
LaterEmpty == \A f \in Files : f.part > m_fp.part => file[f] = <<>>
OpenFill == Len(file[m_fp]) + Ahead <= Own + Inherited(m_fp)
Filled == \A f \in Files : Len(file[f]) <= m_split_lines + Inherited(f)
AheadCounted == Ahead <= m_count
FillInv == day = 0 => PartCounted /\ LaterEmpty /\ OpenFill /\ Filled /\ AheadCounted

\* The next line is in the same part, or the first one of the next part.
LEMMA NextLine ==
  ASSUME NEW n \in Nat
  PROVE  /\ n % m_split_lines \in 0 .. m_split_lines - 1 /\ n \div m_split_lines \in Nat
         /\ (n+1) % m_split_lines # 0 =>
              /\ (n+1) % m_split_lines = (n % m_split_lines) + 1
              /\ (n+1) \div m_split_lines = n \div m_split_lines
         /\ (n+1) % m_split_lines = 0 =>
              /\ (n+1) \div m_split_lines = n \div m_split_lines + 1
              /\ ((n+1) \div m_split_lines) * m_split_lines = n+1
<1> SUFFICES ASSUME NEW s \in Nat \ {0}, s = m_split_lines
             PROVE  /\ n % s \in 0 .. s-1 /\ n \div s \in Nat
                    /\ (n+1) % s # 0 => /\ (n+1) % s = (n % s) + 1
                                         /\ (n+1) \div s = n \div s
                    /\ (n+1) % s = 0 => /\ (n+1) \div s = n \div s + 1
                                         /\ ((n+1) \div s) * s = n+1
  BY Bounds
<1>1. n % s \in 0 .. s-1 /\ n \div s \in Nat  OBVIOUS
<1>2. ASSUME (n+1) % s = 0
      PROVE  (n+1) \div s = n \div s + 1 /\ ((n+1) \div s) * s = n+1
  <2>1. (n+1) \div s = n \div s + 1  BY <1>2
  <2> DEFINE q == s * ((n+1) \div s)
  <2>2. (n+1) % s = n+1 - s * ((n+1) \div s) /\ q \in Int
        /\ q = ((n+1) \div s) * s
    OBVIOUS
  <2>3. q = n+1  BY <1>2, <2>2
  <2> QED  BY <2>1, <2>2, <2>3
<1>3. ASSUME (n+1) % s # 0
      PROVE  (n+1) % s = (n % s) + 1 /\ (n+1) \div s = n \div s
  <2>1. (n+1) \div s = n \div s  BY <1>3
  <2> DEFINE q == s * (n \div s)
  <2>2. n % s = n - s * (n \div s)  OBVIOUS
  <2>3. (n+1) % s = n+1 - s * ((n+1) \div s)  OBVIOUS
  <2>4. q \in Int /\ n % s = n - q /\ (n+1) % s = n+1 - q  BY <2>1, <2>2, <2>3
  <2> QED  BY <2>1, <2>4
<1> QED  BY <1>1, <1>2, <1>3

LEMMA InheritedBound ==
  ASSUME TypeInv, NEW f \in Files
  PROVE  /\ Inherited(f) \in Int /\ Inherited(f) >= -1
         /\ f.part = 0 => Inherited(f) = -1
<1>1. max_queue_size + Cardinality(Writers) \in Nat
  BY WritersFinite, FS_CardinalityType, Bounds
<1>2. f.part \in Nat  BY Bounds DEF Files
<1>3. SUFFICES ASSUME NEW s \in Nat \ {0}, s = m_split_lines,
                      NEW h \in Nat, h = max_queue_size + Cardinality(Writers),
                      NEW k \in Nat, k = f.part, NEW c, c = k * s - 1,
                      Inherited(f) = IF c < h THEN c ELSE h
               PROVE  /\ Inherited(f) \in Int /\ Inherited(f) >= -1
                      /\ k = 0 => Inherited(f) = -1
  BY <1>1, <1>2, Bounds DEF Inherited
<1>4. k * s \in Nat /\ (k = 0 => k * s = 0)  OBVIOUS
<1>5. c \in Int /\ c >= -1 /\ (k = 0 => c = -1)  BY <1>3, <1>4
<1> QED  BY <1>3, <1>5

LEMMA HandCounts ==
  ASSUME TypeInv
  PROVE  /\ IsFiniteSet(Hand) /\ Cardinality(Hand) \in Nat
         /\ Cardinality(Writers) \in Nat
         /\ \A w \in Writers : w \notin Hand => Cardinality(Hand) + 1 <= Cardinality(Writers)
<1>1. IsFiniteSet(Hand)  BY WritersFinite, FS_Subset DEF Hand
<1>2. Cardinality(Hand) \in Nat /\ Cardinality(Writers) \in Nat
  BY <1>1, WritersFinite, FS_CardinalityType
<1>3. ASSUME NEW w \in Writers, w \notin Hand
      PROVE  Cardinality(Hand) + 1 <= Cardinality(Writers)
  <2>1. Hand \cup {w} \subseteq Writers  BY DEF Hand
  <2>2. Cardinality(Hand \cup {w}) = Cardinality(Hand) + 1  BY <1>1, <1>3, FS_AddElement
  <2>3. Cardinality(Hand \cup {w}) <= Cardinality(Writers)
    BY <2>1, WritersFinite, FS_Subset
  <2> QED  BY <2>2, <2>3
<1> QED  BY <1>1, <1>2, <1>3

LEMMA HandMoves ==
  ASSUME TypeInv, NEW w \in Writers,
         NEW to \in {"idle", "count", "full", "push", "write"}, pc' = [pc EXCEPT ![w] = to]
  PROVE  Cardinality(Hand)' = Cardinality(Hand) - Has(pc[w]) + Has(to)
<1> DEFINE H == {"full", "push", "write"}
<1> USE DEF Has
<1>1. Hand' = IF to \in H THEN Hand \cup {w} ELSE Hand \ {w}
  BY DEF TypeInv, TypeOK, Hand
<1>2. w \in Hand <=> pc[w] \in H  BY DEF Hand
<1>3. IsFiniteSet(Hand) /\ Cardinality(Hand) \in Nat  BY HandCounts
<1> HIDE DEF Hand
<1>4. CASE (w \in Hand) = (to \in H)
  <2>1. Hand' = Hand  BY <1>1, <1>4
  <2> QED  BY <1>2, <1>3, <1>4, <2>1
<1>5. CASE w \notin Hand /\ to \in H
  <2>1. Cardinality(Hand \cup {w}) = Cardinality(Hand) + 1  BY <1>3, <1>5, FS_AddElement
  <2> QED  BY <1>1, <1>2, <1>3, <1>5, <2>1
<1>6. CASE w \in Hand /\ to \notin H
  <2>1. Cardinality(Hand \ {w}) = Cardinality(Hand) - 1  BY <1>3, <1>6, FS_RemoveElement
  <2> QED  BY <1>1, <1>2, <1>3, <1>6, <2>1
<1> QED  BY <1>4, <1>5, <1>6

LEMMA InitFill == Init => FillInv
<1> SUFFICES ASSUME Init PROVE FillInv  OBVIOUS
<1>1. /\ queue = <<>> /\ flusher = "pop" /\ m_count = 0 /\ m_fp.part = 0
      /\ \A f \in Files : file[f] = <<>>
  BY DEF Init, Queue!Init
<1>2. m_fp \in Files  BY InitType DEF TypeInv, TypeOK
<1>3. Hand = {} /\ Cardinality(Hand) = 0  BY FS_EmptySet DEF Init, Hand
<1>4. TypeInv  BY InitType
<1>5. 0 % m_split_lines = 0 /\ 0 \div m_split_lines = 0  BY Bounds
<1>6. PartCounted /\ LaterEmpty /\ OpenFill
  BY <1>1, <1>2, <1>3, <1>4, <1>5, InheritedBound
  DEF PartCounted, LaterEmpty, OpenFill, Ahead, Own
<1>7. Filled
  <2> SUFFICES ASSUME NEW f \in Files PROVE Len(file[f]) <= m_split_lines + Inherited(f)
    BY DEF Filled
  <2>1. Len(file[f]) = 0  BY <1>1
  <2>2. Inherited(f) \in Int /\ Inherited(f) >= -1  BY <1>4, InheritedBound
  <2> QED  BY <2>1, <2>2, Bounds
<1>8. AheadCounted  BY <1>1, <1>3 DEF AheadCounted, Ahead
<1> QED  BY <1>6, <1>7, <1>8 DEF FillInv

\* The open file keeps to the bound of its part.
LEMMA OpenFilled ==
  ASSUME TypeInv, OpenFill, PartCounted
  PROVE  Len(file[m_fp]) <= m_split_lines + Inherited(m_fp)
<1>1. /\ m_fp \in Files /\ file[m_fp] \in Seq(Lines) /\ queue \in Seq(Lines) /\ m_count \in Nat
  BY Bounds DEF TypeInv, TypeOK
<1>2. Len(file[m_fp]) \in Nat /\ Len(queue) \in Nat  BY <1>1
<1>3. m_count % m_split_lines \in 0 .. m_split_lines - 1  BY <1>1, NextLine
<1>4. Cardinality(Hand) \in Nat  BY HandCounts
<1>5. Inherited(m_fp) \in Int  BY <1>1, InheritedBound
<1>6. Ahead \in Nat  BY <1>2, <1>4 DEF Ahead
<1>7. Own <= m_split_lines /\ Own \in Nat  BY <1>3, Bounds DEF Own
<1> HIDE DEF Ahead, Own, Inherited
<1> QED  BY <1>2, <1>5, <1>6, <1>7, Bounds DEF OpenFill

\* Steps that count no line: what is ahead does not grow faster than the file.
LEMMA FillStays ==
  ASSUME TypeInv, TypeInv', FillInv, day = 0, UNCHANGED <<m_count, m_fp>>,
         \A f \in Files : f # m_fp => file'[f] = file[f],
         Len(file'[m_fp]) + Ahead' <= Len(file[m_fp]) + Ahead, Ahead' <= Ahead
  PROVE  FillInv'
<1>1. PartCounted /\ LaterEmpty /\ OpenFill /\ Filled /\ AheadCounted  BY DEF FillInv
<1>2. m_fp \in Files /\ m_fp.part \in Nat /\ Files' = Files
  BY Bounds DEF TypeInv, TypeOK, Files
<1>3. PartCounted' /\ Own' = Own /\ Inherited(m_fp)' = Inherited(m_fp)
  BY <1>1 DEF PartCounted, Own, Inherited
<1>4. LaterEmpty'  BY <1>1, <1>2 DEF LaterEmpty
<1>7. Ahead \in Nat /\ Ahead' \in Nat
  <2>1. Cardinality(Hand) \in Nat  BY HandCounts
  <2>2. Cardinality(Hand)' \in Nat
    <3>1. IsFiniteSet(Hand')  BY WritersFinite, FS_Subset DEF Hand
    <3> QED  BY <3>1, FS_CardinalityType
  <2>3. Len(queue) \in Nat /\ Len(queue)' \in Nat  BY DEF TypeInv, TypeOK
  <2> QED  BY <2>1, <2>2, <2>3 DEF Ahead
<1>8. AheadCounted'
  <2>1. m_count \in Nat  BY Bounds DEF TypeInv, TypeOK
  <2> HIDE DEF Ahead
  <2> QED  BY <1>1, <1>7, <2>1 DEF AheadCounted
<1>5. OpenFill'
  <2>1. Len(file[m_fp]) \in Nat /\ Len(file'[m_fp]) \in Nat
    <3>1. file[m_fp] \in Seq(Lines) /\ file'[m_fp] \in Seq(Lines)
      BY <1>2 DEF TypeInv, TypeOK
    <3> QED  BY <3>1
  <2>2. Ahead \in Nat /\ Ahead' \in Nat  BY <1>7
  <2>3. Own + Inherited(m_fp) \in Int
    <3>1. Inherited(m_fp) \in Int  BY <1>2, InheritedBound
    <3>2. m_count % m_split_lines \in Nat
      <4>1. m_count \in Nat  BY Bounds DEF TypeInv, TypeOK
      <4> QED  BY <4>1, Bounds, NextLine
    <3> HIDE DEF Inherited
    <3> QED  BY <3>1, <3>2 DEF Own
  <2> HIDE DEF Ahead, Own, Inherited
  <2>4. Len(file'[m_fp]) + Ahead' <= Own + Inherited(m_fp)
    BY <1>1, <2>1, <2>2, <2>3 DEF OpenFill
  <2> QED  BY <1>3, <2>4 DEF OpenFill
<1>6. Filled'
  <2>1. Len(file'[m_fp]) <= m_split_lines + Inherited(m_fp)
    <3>1. (Len(file[m_fp]) <= m_split_lines + Inherited(m_fp))'
      BY <1>3, <1>5, OpenFilled, PTL
    <3> QED  BY <1>3, <3>1
  <2> QED  BY <1>1, <1>2, <2>1 DEF Filled, Inherited
<1> QED  BY <1>3, <1>4, <1>5, <1>6, <1>8 DEF FillInv

LEMMA CountFill ==
  ASSUME TypeInv, TypeInv', FillInv, day = 0, NEW w \in Writers, Count(w)
  PROVE  FillInv'
<1>1. PartCounted /\ LaterEmpty /\ OpenFill /\ Filled /\ AheadCounted  BY DEF FillInv
<1>2. /\ pc[w] = "count" /\ UNCHANGED <<file, queue, flusher>>
      /\ \E to \in {"full", "write"} : pc' = [pc EXCEPT ![w] = to]
  BY DEF Count, Goto, queueVars
<1>3. /\ Cardinality(Hand)' = Cardinality(Hand) + 1 /\ Cardinality(Hand) \in Nat
      /\ Cardinality(Hand) + 1 <= Cardinality(Writers) /\ Cardinality(Writers) \in Nat
  <2>1. w \notin Hand  BY <1>2 DEF Hand
  <2>2. Cardinality(Hand) \in Nat /\ Cardinality(Hand) + 1 <= Cardinality(Writers)
        /\ Cardinality(Writers) \in Nat
    BY <2>1, HandCounts
  <2>3. PICK to \in {"full", "write"} : pc' = [pc EXCEPT ![w] = to]  BY <1>2
  <2>4. Cardinality(Hand)' = Cardinality(Hand) - Has(pc[w]) + Has(to)  BY <2>3, HandMoves
  <2>5. Has(pc[w]) = 0 /\ Has(to) = 1  BY <1>2, <2>3 DEF Has
  <2> QED  BY <2>2, <2>4, <2>5
<1>4. /\ m_fp \in Files /\ m_fp.part \in Nat /\ m_fp' \in Files /\ m_count \in Nat
      /\ file \in [Files -> Seq(Lines)]
      /\ queue \in Seq(Lines) /\ Len(queue) \in Nat /\ Len(queue) <= max_queue_size
      /\ m_today = 0 /\ my_tm[w] = 0
  <2>1. m_fp \in Files /\ m_fp' \in Files /\ m_count \in Nat
    BY Bounds DEF TypeInv, TypeOK
  <2>2. m_fp.part \in Nat  BY <2>1, Bounds DEF Files
  <2>3. /\ file \in [Files -> Seq(Lines)] /\ queue \in Seq(Lines) /\ Len(queue) \in Nat
        /\ Len(queue) <= max_queue_size
    BY DEF TypeInv, TypeOK
  <2>4. m_today \in 0..0  BY DEF TypeInv, TypeOK
  <2>5. my_tm[w] \in 0..MaxDay /\ my_tm[w] <= 0  BY DEF TypeInv, TypeOK, DatesPassed
  <2> QED  BY <2>1, <2>2, <2>3, <2>4, <2>5, Bounds
<1>5. /\ m_count' = m_count + 1
      /\ IF fullFile THEN m_fp' = [name |-> log_name, day |-> 0, part |-> m_count' \div m_split_lines]
                     ELSE m_fp' = m_fp
  BY <1>4 DEF Count, SameFile, DayFile, NextPart, newDay, Open
<1>6. /\ m_count % m_split_lines \in Nat
      /\ m_count' % m_split_lines # 0 =>
           /\ m_count' % m_split_lines = (m_count % m_split_lines) + 1
           /\ m_count' \div m_split_lines = m_count \div m_split_lines
      /\ m_count' % m_split_lines = 0 =>
           /\ m_count' \div m_split_lines = (m_count \div m_split_lines) + 1
           /\ (m_count' \div m_split_lines) * m_split_lines = m_count'
  <2> SUFFICES ASSUME NEW n \in Nat, n = m_count, m_count' = n + 1
               PROVE  /\ n % m_split_lines \in Nat
                      /\ (n+1) % m_split_lines # 0 =>
                           /\ (n+1) % m_split_lines = (n % m_split_lines) + 1
                           /\ (n+1) \div m_split_lines = n \div m_split_lines
                      /\ (n+1) % m_split_lines = 0 =>
                           /\ (n+1) \div m_split_lines = (n \div m_split_lines) + 1
                           /\ ((n+1) \div m_split_lines) * m_split_lines = n+1
    BY <1>4, <1>5
  <2>1. n % m_split_lines \in Nat  BY NextLine, Bounds
  <2> QED  BY <2>1, NextLine
<1>7. /\ Ahead' = Ahead + 1 /\ Ahead \in Nat
      /\ Ahead <= max_queue_size + Cardinality(Writers) /\ Ahead <= m_count
  <2>1. Len(queue') = Len(queue) /\ flusher' = flusher  BY <1>2
  <2>2. Len(queue) \in Nat /\ Len(queue) <= max_queue_size  BY <1>4
  <2>3. Ahead' = Ahead + 1 /\ Ahead \in Nat  BY <1>3, <2>1, <2>2 DEF Ahead
  <2>4. Ahead <= max_queue_size + Cardinality(Writers)  BY <1>3, <2>2, Bounds DEF Ahead
  <2> HIDE DEF Ahead
  <2> QED  BY <1>1, <2>3, <2>4 DEF AheadCounted
<1>10. AheadCounted'
  <2> HIDE DEF Ahead
  <2> QED  BY <1>4, <1>5, <1>7 DEF AheadCounted
<1>8. CASE ~fullFile
  <2>1. m_fp' = m_fp /\ m_count' % m_split_lines # 0  BY <1>5, <1>8 DEF fullFile
  <2>2. PartCounted' /\ LaterEmpty' /\ Filled'
    BY <1>1, <1>2, <1>6, <2>1 DEF PartCounted, LaterEmpty, Filled, Inherited
  <2>3. OpenFill'
    <3>1. Own' = Own + 1 /\ Own \in Nat  BY <1>6, <2>1 DEF Own
    <3>2. Inherited(m_fp)' = Inherited(m_fp) /\ Inherited(m_fp') = Inherited(m_fp)
          /\ Inherited(m_fp) \in Int
      BY <1>4, <2>1, InheritedBound DEF Inherited
    <3>3. /\ Len(file[m_fp]) \in Nat /\ file'[m_fp'] = file[m_fp]
          /\ Len(file'[m_fp']) = Len(file[m_fp])
      BY <1>2, <1>4, <2>1
    <3>4. Ahead' = Ahead + 1 /\ Ahead \in Nat  BY <1>7
    <3> HIDE DEF Own, Inherited, Ahead
    <3>5. Len(file[m_fp]) + Ahead <= Own + Inherited(m_fp)  BY <1>1 DEF OpenFill
    <3>6. Len(file'[m_fp']) + Ahead' <= Own' + Inherited(m_fp')
      <4> DEFINE a == Own
                 b == Inherited(m_fp)
                 c == Len(file[m_fp])
                 d == Ahead
      <4>1. a \in Nat /\ b \in Int /\ c \in Nat /\ d \in Nat /\ c + d <= a + b
        BY <3>1, <3>2, <3>3, <3>4, <3>5
      <4>2. Len(file'[m_fp']) = c /\ Ahead' = d + 1 /\ Own' = a + 1 /\ Inherited(m_fp') = b
        BY <3>1, <3>2, <3>3, <3>4
      <4> HIDE DEF a, b, c, d
      <4> QED  BY <4>1, <4>2
    <3> QED  BY <3>2, <3>6 DEF OpenFill
  <2> QED  BY <1>10, <2>2, <2>3 DEF FillInv
<1>9. CASE fullFile
  <2>1. /\ m_count' % m_split_lines = 0 /\ m_fp'.part = m_count' \div m_split_lines
        /\ m_fp'.part = m_fp.part + 1 /\ m_fp'.part * m_split_lines = m_count + 1
    BY <1>1, <1>4, <1>5, <1>6, <1>9 DEF fullFile, PartCounted
  <2>2. PartCounted'  BY <2>1 DEF PartCounted
  <2>3. LaterEmpty' /\ file'[m_fp'] = <<>>
    BY <1>1, <1>2, <1>4, <2>1, Bounds DEF LaterEmpty, Files
  <2>4. Own' = 1 /\ Ahead <= Inherited(m_fp') /\ Inherited(m_fp') \in Int
    <3>1. Own' = 1  BY <2>1 DEF Own
    <3>2. m_fp'.part * m_split_lines - 1 = m_count  BY <1>4, <2>1
    <3>3. \/ Inherited(m_fp') = m_count
          \/ Inherited(m_fp') = max_queue_size + Cardinality(Writers)
      BY <3>2 DEF Inherited
    <3>4. max_queue_size + Cardinality(Writers) \in Int  BY <1>3, Bounds
    <3> HIDE DEF Ahead, Inherited
    <3> QED  BY <1>4, <1>7, <3>1, <3>3, <3>4
  <2>5. OpenFill'
    <3>1. Inherited(m_fp)' = Inherited(m_fp')  BY DEF Inherited
    <3>2. Len(file'[m_fp']) = 0  BY <2>3
    <3> HIDE DEF Ahead, Own, Inherited
    <3> QED  BY <1>7, <2>4, <3>1, <3>2 DEF OpenFill
  <2>6. Filled'  BY <1>1, <1>2 DEF Filled, Inherited
  <2> QED  BY <1>10, <2>2, <2>3, <2>5, <2>6 DEF FillInv
<1> QED  BY <1>8, <1>9

\* A line goes from hand, queue or flush thread to the file.
LEMMA MoveFill ==
  ASSUME TypeInv, TypeInv', FillInv, day = 0,
         FlusherPops \/ FlusherWrites \/ UNCHANGED vars
           \/ \E w \in Writers : Call(w) \/ Full(w) \/ Push(w) \/ PushRefused(w) \/ Write(w)
  PROVE  FillInv'
<1>1. UNCHANGED <<m_count, m_fp>>
  BY DEF FlusherPops, FlusherWrites, vars, Call, Full, Push, PushRefused, Write, fileVars
<1>2. m_fp \in Files /\ file \in [Files -> Seq(Lines)] /\ queue \in Seq(Lines)
      /\ Len(file[m_fp]) \in Nat /\ Len(queue) \in Nat
  <2>1. m_fp \in Files /\ file \in [Files -> Seq(Lines)] /\ queue \in Seq(Lines)
    BY DEF TypeInv, TypeOK
  <2>2. file[m_fp] \in Seq(Lines)  BY <2>1
  <2> QED  BY <2>1, <2>2
<1>3. Cardinality(Hand) \in Nat  BY HandCounts
<1>4. ASSUME NEW l, fputs(l)
      PROVE  /\ \A f \in Files : f # m_fp => file'[f] = file[f]
             /\ Len(file'[m_fp]) = Len(file[m_fp]) + 1
  <2>1. file' = [file EXCEPT ![m_fp] = Append(@, l)]  BY <1>4 DEF fputs
  <2>2. file[m_fp] \in Seq(Lines \cup {l}) /\ l \in Lines \cup {l}
    <3>1. file[m_fp] \in Seq(Lines)  BY <1>2
    <3> QED  BY <3>1
  <2>3. Len(Append(file[m_fp], l)) = Len(file[m_fp]) + 1  BY <2>2
  <2> QED  BY <1>2, <2>1, <2>3
<1> SUFFICES /\ \A f \in Files : f # m_fp => file'[f] = file[f]
             /\ Len(file'[m_fp]) + Ahead' <= Len(file[m_fp]) + Ahead /\ Ahead' <= Ahead
  BY <1>1, FillStays
<1>5. CASE UNCHANGED vars
  BY <1>2, <1>3, <1>5 DEF vars, queueVars, writerVars, Ahead, Hand
<1>6. CASE FlusherPops
  <2>1. /\ Len(queue') = Len(queue) - 1 /\ UNCHANGED <<file, pc>>
        /\ flusher = "pop" /\ flusher' = "write"
    BY <1>2, <1>6 DEF FlusherPops, Queue!Pop, writerVars
  <2>2. Hand' = Hand  BY <2>1 DEF Hand
  <2> HIDE DEF Hand
  <2>3. Ahead' = Ahead /\ Ahead \in Nat  BY <1>2, <1>3, <2>1, <2>2 DEF Ahead
  <2> QED  BY <1>2, <2>1, <2>3
<1>7. CASE FlusherWrites
  <2>1. /\ flusher = "write" /\ flusher' = "pop" /\ UNCHANGED <<queue, pc>>
        /\ fputs(single_log[FlushThread])
    BY <1>7 DEF FlusherWrites, loop, flushed, queueVars, writerVars
  <2>2. Hand' = Hand  BY <2>1 DEF Hand
  <2> HIDE DEF Hand
  <2>3. Ahead' = Ahead - 1 /\ Ahead \in Nat  BY <1>2, <1>3, <2>1, <2>2 DEF Ahead
  <2> QED  BY <1>2, <1>4, <2>1, <2>3
<1>8. ASSUME NEW w \in Writers, Call(w) \/ Full(w)
      PROVE  file' = file /\ Ahead' = Ahead
  <2>1. UNCHANGED <<file, queue, flusher>>  BY <1>8 DEF Call, Full, queueVars
  <2>2. Hand' = Hand
    BY <1>8 DEF Call, Full, Goto, Hand, TypeInv, TypeOK
  <2> QED  BY <2>1, <2>2 DEF Ahead
<1>9. ASSUME NEW w \in Writers, Push(w) \/ PushRefused(w) \/ Write(w)
      PROVE  Cardinality(Hand)' = Cardinality(Hand) - 1 /\ flusher' = flusher
  <2>1. pc[w] \in {"push", "write"} /\ pc' = [pc EXCEPT ![w] = "idle"] /\ flusher' = flusher
    BY <1>9 DEF Push, PushRefused, Write, Goto
  <2>2. Cardinality(Hand)' = Cardinality(Hand) - Has(pc[w]) + Has("idle")  BY <2>1, HandMoves
  <2>3. Has(pc[w]) = 1 /\ Has("idle") = 0  BY <2>1 DEF Has
  <2> QED  BY <1>3, <2>1, <2>2, <2>3
<1>10. ASSUME NEW w \in Writers, Push(w) \/ PushRefused(w)
       PROVE  /\ \A f \in Files : f # m_fp => file'[f] = file[f]
              /\ Len(file'[m_fp]) + Ahead' <= Len(file[m_fp]) + Ahead /\ Ahead' <= Ahead
  <2>1. file' = file /\ (queue' = queue \/ queue' = Append(queue, line[w]))
    BY <1>10 DEF Push, PushRefused, Queue!Push, queueVars
  <2>2. Len(queue') \in Nat /\ Len(queue') <= Len(queue) + 1
    <3>1. queue' \in Seq(Lines)  BY DEF TypeInv, TypeOK
    <3>2. queue \in Seq(Lines \cup {line[w]}) /\ line[w] \in Lines \cup {line[w]}  BY <1>2
    <3> QED  BY <2>1, <3>1, <3>2
  <2>3. Cardinality(Hand)' = Cardinality(Hand) - 1 /\ flusher' = flusher  BY <1>9, <1>10
  <2> HIDE DEF Hand
  <2>4. Ahead' <= Ahead /\ Ahead \in Int /\ Ahead' \in Int
    BY <1>2, <1>3, <2>2, <2>3 DEF Ahead
  <2> QED  BY <1>2, <2>1, <2>4
<1>11. ASSUME NEW w \in Writers, Write(w)
       PROVE  /\ \A f \in Files : f # m_fp => file'[f] = file[f]
              /\ Len(file'[m_fp]) + Ahead' <= Len(file[m_fp]) + Ahead /\ Ahead' <= Ahead
  <2>1. fputs(line[w]) /\ queue' = queue  BY <1>11 DEF Write, queueVars
  <2>2. Cardinality(Hand)' = Cardinality(Hand) - 1 /\ flusher' = flusher  BY <1>9, <1>11
  <2> HIDE DEF Hand
  <2>3. Len(queue') = Len(queue)  BY <2>1
  <2>4. Ahead' = Ahead - 1 /\ Ahead \in Int  BY <1>2, <1>3, <2>2, <2>3 DEF Ahead
  <2> QED  BY <1>2, <1>4, <2>1, <2>4
<1>12. ASSUME NEW w \in Writers, Call(w) \/ Full(w)
       PROVE  /\ \A f \in Files : f # m_fp => file'[f] = file[f]
              /\ Len(file'[m_fp]) + Ahead' <= Len(file[m_fp]) + Ahead /\ Ahead' <= Ahead
  <2>1. Ahead \in Int  BY <1>2, <1>3 DEF Ahead
  <2> QED  BY <1>2, <1>8, <1>12, <2>1
<1> QED  BY <1>5, <1>6, <1>7, <1>10, <1>11, <1>12

LEMMA FillStep == TypeInv /\ TypeInv' /\ FillInv /\ [Next]_vars => FillInv'
<1> SUFFICES ASSUME TypeInv, TypeInv', FillInv, [Next]_vars, day' = 0 PROVE FillInv'
  BY DEF FillInv
<1>1. day = 0 /\ ~Midnight
  <2>1. day \in Nat /\ (day' = day \/ (day' = day + 1 /\ Midnight))
    BY Bounds DEF TypeInv, TypeOK, Next, Midnight, Flusher, FlusherPops, FlusherWrites, Writer,
      Call, Count, Full, Push, PushRefused, Write, vars
  <2> QED  BY <2>1 DEF Midnight
<1> QED  BY <1>1, CountFill, MoveFill DEF Next, Flusher, Writer

-----------------------------------------------------------------------------
(* Theorems *)

LogInv == TypeInv /\ PlaceInv /\ SoleInv /\ FillInv

\* The inductive invariant: types, the place of each line, what holds for a single
\* thread, and what the files hold until midnight.
THEOREM Invariant == Spec => []LogInv
<1>1. Init => LogInv  BY InitType, InitPlace, InitSole, InitFill DEF LogInv
<1>2. LogInv /\ [Next]_vars => LogInv'
  BY TypeStep, PlaceStep, SoleStep, FillStep DEF LogInv
<1> QED  BY <1>1, <1>2, PTL DEF Spec

\* Counts, dates and lines keep their ranges, and the open file is always that of m_today.
THEOREM TypeCorrect == Spec => []TypeOK
<1>1. LogInv => TypeOK  BY DEF LogInv, TypeInv
<1> QED  BY <1>1, Invariant, PTL

\* A line that write_log() was called with is in exactly one place, for any number of
\* threads, any queue, in both modes: with its writer, in the queue, with the flush thread,
\* once in one file, or refused by push().
THEOREM LinesOnce == Spec => []EachLineOnce
<1>1. LogInv => EachLineOnce  BY PlacesCounted DEF LogInv
<1> QED  BY <1>1, Invariant, PTL

\* Between full() and push() of the only thread that logs the queue can only get shorter:
\* push() does not refuse.
THEOREM NothingLost == Spec => []SoleWriterLosesNothing
<1>1. LogInv => SoleWriterLosesNothing
  BY DEF LogInv, SoleInv, RoomLeft, SoleWriterLosesNothing
<1> QED  BY <1>1, Invariant, PTL

\* A line of the only thread that logs is never in the file of an earlier day, also when it
\* waits in the queue over midnight.
THEOREM FilesAreDated == Spec => []SoleWriterFilesAreDated
<1>1. LogInv => SoleWriterFilesAreDated
  BY DEF LogInv, SoleInv, FilesDated, SoleWriterFilesAreDated
<1> QED  BY <1>1, Invariant, PTL

\* Until midnight no file has more lines than m_split_lines and those counted for an
\* earlier part that were still in the queue or in hand when its own was opened.
THEOREM FilesBounded == Spec => []FileBound
<1>1. LogInv => FileBound  BY DEF LogInv, TypeInv, FillInv, Filled, FileBound
<1> QED  BY <1>1, Invariant, PTL
=============================================================================
