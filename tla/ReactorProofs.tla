--------------------------- MODULE ReactorProofs ---------------------------
(***************************************************************************)
(* Proofs about Reactor: the types and the timers of the connections; when *)
(* no request names an empty file, the count of the users; and, as long as *)
(* workers are also faster than timers, who has a slot: the slot of a      *)
(* connection has one owner, or none if the work queue was full for it,    *)
(* and what is sent to a connection answers its own request.               *)
(***************************************************************************)
EXTENDS Reactor, FunctionTheorems, FiniteSetTheorems, TLAPS

\* The parts of the inductive invariant that TimerLive needs.  A descriptor is
\* reported once in a batch: the handler of its event is the last to see it.
OneEvent ==
  \A d, e \in batch : d[1] = e[1] /\ d[1] \in Fds => d = e
\* The timer of a connection to come is not in the list yet.
TimersAccepted == timers \subseteq 1..accepted
\* A worker that runs process() runs it on a slot.
WorkersHaveSlots == \A w \in Workers : pc[w] # "idle" => job[w] \in Fds

TimerInv ==
  TypeOK /\ TimerLive /\ OneEvent /\ TimersAccepted /\ WorkersHaveSlots

LEMMA InitTimerInv == Init => TimerInv
<1> SUFFICES ASSUME Init PROVE TimerInv  OBVIOUS
<1> USE ReactorAssumption DEF Init, NoConn
<1>1. TypeOK
  <2>1. FlagTypeOK  BY DEF FlagTypeOK
  <2>2. ClientTypeOK /\ KernelTypeOK /\ MainTypeOK
    BY DEF ClientTypeOK, KernelTypeOK, MainTypeOK
  <2>3. TimerTypeOK /\ ConnTypeOK  BY DEF TimerTypeOK, ConnTypeOK
  <2>4. PoolTypeOK  BY DEF PoolTypeOK, Points
  <2> QED  BY <2>1, <2>2, <2>3, <2>4 DEF TypeOK
<1>2. TimerLive /\ OneEvent /\ TimersAccepted /\ WorkersHaveSlots
  BY DEF TimerLive, InUse, Reported, OneEvent, TimersAccepted, WorkersHaveSlots
<1> QED  BY <1>1, <1>2 DEF TimerInv

-----------------------------------------------------------------------------
(* The types, one group of variables at a time: each lemma has a step for    *)
(* the actions that change the group.                                        *)

LEMMA ExpiredFinite ==
  ASSUME TypeOK
  PROVE  Expired \subseteq 1..MaxConns /\ IsFiniteSet(Expired)
           /\ Cardinality(Expired) \in Nat
<1>1. Expired \subseteq 1..MaxConns
  BY DEF Expired, TypeOK, TimerTypeOK, Conns
<1>2. IsFiniteSet(1..MaxConns)  BY FS_Interval, ReactorAssumption
<1> QED  BY <1>1, <1>2, FS_Subset, FS_CardinalityType

LEMMA FlagTypes == TypeOK /\ WorkersHaveSlots /\ Next => FlagTypeOK'
<1> SUFFICES ASSUME TypeOK, WorkersHaveSlots, Next PROVE FlagTypeOK'  OBVIOUS
<1> USE DEF TypeOK, FlagTypeOK
<1>1. CASE Connect \/ EpollWait
  BY <1>1 DEF Connect, EpollWait, connVars, mainVars
<1>10. CASE TimeSlot \/ Signal \/ TimerHandler
  BY <1>10 DEF TimeSlot, Signal, TimerHandler, connVars, clientVars
<1>2. CASE Accept
  BY <1>2 DEF Accept, Handle, ResetSlot, clientVars
<1>3. ASSUME NEW c \in Conns, ClientSend(c) \/ ClientClose(c) PROVE FlagTypeOK'
  BY <1>3 DEF ClientSend, ClientClose, mainVars, connVars
<1>4. ASSUME NEW fd \in Fds, ReadEvent(fd) PROVE FlagTypeOK'
  BY <1>4 DEF ReadEvent, Handle
<1>5. ASSUME NEW fd \in Fds, WriteNothing(fd) \/ WriteKeeps(fd)
               \/ WriteStalls(fd) \/ WriteCloses(fd)
      PROVE  FlagTypeOK'
  BY <1>5 DEF WriteNothing, WriteKeeps, WriteStalls, WriteCloses, Handle,
    ResetSlot, clientVars, connVars
<1>6. ASSUME NEW fd \in Fds, HangUp(fd) \/ ReadFails(fd) \/ WriteFails(fd)
      PROVE  FlagTypeOK'
  BY <1>6 DEF HangUp, ReadFails, WriteFails, Handle, clientVars, connVars
<1>7. ASSUME NEW w \in Workers, ParseMore(w) \/ Parse(w) PROVE FlagTypeOK'
  <2>1. job[w] \in Fds  BY <1>7 DEF ParseMore, Parse, Goto, WorkersHaveSlots
  <2>2. m_linger' \in [Fds -> BOOLEAN]
    BY <1>7, <2>1 DEF ParseMore, Parse, Headers
  <2> QED  BY <1>7, <2>2 DEF ParseMore, Parse, Goto, mainVars, clientVars
<1>8. ASSUME NEW w \in Workers, Worker(w), UNCHANGED m_linger PROVE FlagTypeOK'
  BY <1>8 DEF Worker, Take, ParseMore, Parse, FillFile, FillError, FillEmpty,
    Remove, Unset, Load, Store, RearmIn, RearmOut, Rearm, Goto, mainVars,
    clientVars
<1>9. CASE AcceptFails \/ Refuse \/ EndOfEvents \/ Spin \/ \E fd \in Fds : WriteSpins(fd)
  BY <1>9 DEF AcceptFails, Refuse, EndOfEvents, Spin, WriteSpins, Handle,
    clientVars, mainVars, connVars, vars
<1> QED
  BY <1>1, <1>2, <1>3, <1>4, <1>5, <1>6, <1>7, <1>8, <1>9, <1>10 DEF Next, Client,
    Main, Worker, Take, FillFile, FillError, FillEmpty, Remove, Unset, Load,
    Store, RearmIn, RearmOut, Rearm, connVars

LEMMA ClientTypes == TypeOK /\ Next => ClientTypeOK'
<1> SUFFICES ASSUME TypeOK, Next PROVE ClientTypeOK'  OBVIOUS
<1> USE ReactorAssumption DEF TypeOK, ClientTypeOK
<1>1. CASE Connect \/ EpollWait
  BY <1>1 DEF Connect, EpollWait
<1>2. CASE Refuse \/ Accept
  BY <1>2 DEF Refuse, Accept, clientVars
<1>3. ASSUME NEW c \in Conns, ClientSend(c) PROVE ClientTypeOK'
  BY <1>3 DEF ClientSend
<1>4. ASSUME NEW c \in Conns, ClientClose(c) PROVE ClientTypeOK'
  BY <1>4 DEF ClientClose
<1>5. ASSUME NEW fd \in Fds, ReadEvent(fd) PROVE ClientTypeOK'
  BY <1>5 DEF ReadEvent, Readable, HasSocket, Open, NoConn, KernelTypeOK, Conns
<1>6. ASSUME NEW fd \in Fds, WriteStalls(fd) PROVE ClientTypeOK'
  BY <1>6 DEF WriteStalls, HasSocket, Open, NoConn, KernelTypeOK, Conns
<1>7. ASSUME NEW w \in Workers, Worker(w) PROVE ClientTypeOK'
  BY <1>7 DEF Worker, Take, ParseMore, Parse, FillFile, FillError, FillEmpty, Remove,
    Unset, Load, Store, RearmIn, RearmOut, Rearm, Goto, clientVars
<1> QED
  BY <1>1, <1>2, <1>3, <1>4, <1>5, <1>6, <1>7 DEF Next, Client, TimeSlot, Main, EndOfEvents,
    Signal, TimerHandler, AcceptFails, Spin, HangUp, ReadFails, WriteNothing,
    WriteKeeps, WriteCloses, WriteFails, WriteSpins, clientVars, vars

LEMMA KernelTypes == TypeOK /\ Next => KernelTypeOK'
<1> SUFFICES ASSUME TypeOK, Next PROVE KernelTypeOK'  OBVIOUS
<1> USE ReactorAssumption DEF TypeOK, KernelTypeOK, NoConn
<1>1. CASE EpollWait
  BY <1>1 DEF EpollWait, OneShot
<1>2. CASE Accept
  BY <1>2 DEF Accept, ClientTypeOK
<1>3. CASE TimerHandler
  BY <1>3 DEF TimerHandler, tick, cb_func, Unregister
<1>4. ASSUME NEW fd \in Fds,
             HangUp(fd) \/ ReadFails(fd) \/ WriteCloses(fd) \/ WriteFails(fd)
      PROVE  KernelTypeOK'
  BY <1>4 DEF HangUp, ReadFails, WriteCloses, WriteFails, CloseConnection,
    cb_func, Unregister
<1>5. ASSUME NEW fd \in Fds,
             WriteNothing(fd) \/ WriteStalls(fd) \/ WriteKeeps(fd)
      PROVE  KernelTypeOK'
  BY <1>5 DEF WriteNothing, WriteStalls, WriteKeeps, modfd
<1>6. ASSUME NEW w \in Workers, Remove(w) PROVE KernelTypeOK'
  BY <1>6 DEF Remove
<1>7. ASSUME NEW w \in Workers, RearmIn(w) \/ RearmOut(w) PROVE KernelTypeOK'
  BY <1>7 DEF RearmIn, RearmOut, Rearm, modfd
<1> QED
  BY <1>1, <1>2, <1>3, <1>4, <1>5, <1>6, <1>7 DEF Next, Client, Connect,
    ClientSend, ClientClose, TimeSlot, Main, EndOfEvents, Signal, AcceptFails,
    Refuse, Spin, ReadEvent, WriteSpins, Worker, Take, ParseMore, Parse,
    FillFile, FillError, FillEmpty, Unset, Load, Store, kernelVars, vars

LEMMA MainTypes == TypeOK /\ Next => MainTypeOK'
<1> SUFFICES ASSUME TypeOK, Next PROVE MainTypeOK'  OBVIOUS
<1> USE ReactorAssumption DEF TypeOK, MainTypeOK
<1>1. CASE EpollWait
  <2> PICK writable \in SUBSET {fd \in Open : armed[fd] = "out"} : batch' = Ready(writable)
    BY <1>1 DEF EpollWait
  <2>1. writable \subseteq Fds /\ HangUps \subseteq Fds  BY DEF HangUps, Open
  <2>2. batch' \subseteq Events  BY <2>1 DEF Ready, Events, Open
  <2> QED  BY <1>1, <2>2 DEF EpollWait
<1>2. CASE TimeSlot \/ EndOfEvents \/ Signal
  BY <1>2 DEF TimeSlot, EndOfEvents, Signal
<1>3. CASE TimerHandler
  BY <1>3, ExpiredFinite DEF TimerHandler, tick, cb_func
<1>4. CASE AcceptFails \/ Refuse \/ Accept
  BY <1>4 DEF AcceptFails, Refuse, Accept, Handle
<1>5. ASSUME NEW fd \in Fds,
             HangUp(fd) \/ ReadFails(fd) \/ WriteCloses(fd) \/ WriteFails(fd)
      PROVE  MainTypeOK'
  BY <1>5 DEF HangUp, ReadFails, WriteCloses, WriteFails, Handle,
    CloseConnection, cb_func
<1>6. ASSUME NEW fd \in Fds, ReadEvent(fd) \/ WriteNothing(fd)
               \/ WriteStalls(fd) \/ WriteKeeps(fd) \/ WriteSpins(fd)
      PROVE  MainTypeOK'
  BY <1>6 DEF ReadEvent, WriteNothing, WriteStalls, WriteKeeps, WriteSpins, Handle
<1>7. ASSUME NEW w \in Workers, Worker(w) PROVE MainTypeOK'
  BY <1>7 DEF Worker, Take, ParseMore, Parse, FillFile, FillError, FillEmpty,
    Remove, Unset, Load, Store, RearmIn, RearmOut, Rearm, Goto, mainVars, PoolTypeOK
<1> QED
  BY <1>1, <1>2, <1>3, <1>4, <1>5, <1>6, <1>7 DEF Next, Client, Connect,
    ClientSend, ClientClose, Main, Spin, mainVars, vars

LEMMA TimerTypes == TypeOK /\ Next => TimerTypeOK'
<1> SUFFICES ASSUME TypeOK, Next PROVE TimerTypeOK'  OBVIOUS
<1> USE ReactorAssumption DEF TypeOK, TimerTypeOK
<1>1. CASE TimeSlot
  BY <1>1 DEF TimeSlot
<1>2. CASE TimerHandler
  BY <1>2 DEF TimerHandler, tick
<1>3. CASE Accept
  BY <1>3 DEF Accept, AddTimer, Conns, ClientTypeOK
<1>4. ASSUME NEW fd \in Fds,
             HangUp(fd) \/ ReadFails(fd) \/ WriteCloses(fd) \/ WriteFails(fd)
      PROVE  TimerTypeOK'
  BY <1>4 DEF HangUp, ReadFails, WriteCloses, WriteFails, CloseConnection
<1>5. ASSUME NEW fd \in Fds, ReadEvent(fd) \/ WriteNothing(fd)
               \/ WriteStalls(fd) \/ WriteKeeps(fd)
      PROVE  TimerTypeOK'
  BY <1>5 DEF ReadEvent, WriteNothing, WriteStalls, WriteKeeps, AdjustTimer
<1>6. ASSUME NEW w \in Workers, Worker(w) PROVE TimerTypeOK'
  BY <1>6 DEF Worker, Take, ParseMore, Parse, FillFile, FillError, FillEmpty,
    Remove, Unset, Load, Store, RearmIn, RearmOut, Rearm, Goto, timerVars
<1> QED
  BY <1>1, <1>2, <1>3, <1>4, <1>5, <1>6 DEF Next, Client, Connect, ClientSend,
    ClientClose, Main, EpollWait, EndOfEvents, Signal, AcceptFails, Refuse,
    Spin, WriteSpins, timerVars, vars

LEMMA ConnTypes == TypeOK /\ WorkersHaveSlots /\ Next => ConnTypeOK'
<1> SUFFICES ASSUME TypeOK, WorkersHaveSlots, Next PROVE ConnTypeOK'  OBVIOUS
<1> USE ReactorAssumption DEF TypeOK, ConnTypeOK, NoConn
<1>1. CASE Accept
  BY <1>1 DEF Accept, ResetSlot
<1>2. ASSUME NEW fd \in Fds, ReadEvent(fd) PROVE ConnTypeOK'
  BY <1>2 DEF ReadEvent, Readable, HasSocket, Open, KernelTypeOK
<1>3. ASSUME NEW fd \in Fds, WriteNothing(fd) PROVE ConnTypeOK'
  BY <1>3 DEF WriteNothing, ResetSlot
<1>4. ASSUME NEW fd \in Fds, WriteKeeps(fd) \/ WriteCloses(fd) PROVE ConnTypeOK'
  BY <1>4 DEF WriteKeeps, WriteCloses, Sent, ResetSlot
<1>5. ASSUME NEW w \in Workers, ParseMore(w) \/ Parse(w) PROVE ConnTypeOK'
  BY <1>5 DEF ParseMore, Parse, Headers, Goto, WorkersHaveSlots
<1>6. ASSUME NEW w \in Workers, FillFile(w) \/ FillError(w) PROVE ConnTypeOK'
  <2>1. req[w] \in 0..MaxConns  BY DEF PoolTypeOK
  <2>2. m_iv' \in [Fds -> 0..MaxConns]  BY <1>6, <2>1 DEF FillFile, FillError
  <2>3. m_iv_count' \in [Fds -> 0..2]  BY <1>6 DEF FillFile, FillError
  <2>4. bytes_to_send' \in [Fds -> {-1, 0, 1}]  BY <1>6 DEF FillFile, FillError
  <2> QED  BY <1>6, <2>2, <2>3, <2>4 DEF FillFile, FillError
<1>8. ASSUME NEW w \in Workers, Unset(w) PROVE ConnTypeOK'
  BY <1>8 DEF Unset
<1>7. ASSUME NEW w \in Workers, Take(w) \/ FillEmpty(w) \/ Remove(w)
               \/ Load(w) \/ Store(w) \/ RearmIn(w) \/ RearmOut(w)
      PROVE  ConnTypeOK'
  BY <1>7 DEF Take, FillEmpty, Remove, Load, Store, RearmIn, RearmOut, Rearm, connVars
<1> QED
  BY <1>1, <1>2, <1>3, <1>4, <1>5, <1>6, <1>7, <1>8 DEF Next, Client, Connect,
    ClientSend, ClientClose, TimeSlot, Main, EpollWait, EndOfEvents, Signal,
    TimerHandler, AcceptFails, Refuse, Spin, HangUp, ReadFails, WriteStalls,
    WriteFails, WriteSpins, Worker, connVars, vars

LEMMA PoolTypes ==
  TypeOK /\ WorkersHaveSlots /\ Next => PoolTypeOK' /\ WorkersHaveSlots'
<1> SUFFICES ASSUME TypeOK, WorkersHaveSlots, Next
             PROVE  PoolTypeOK' /\ WorkersHaveSlots'
  OBVIOUS
<1> USE DEF TypeOK, PoolTypeOK, WorkersHaveSlots
<1>1. ASSUME NEW fd \in Fds, ReadEvent(fd) PROVE PoolTypeOK' /\ WorkersHaveSlots'
  <2>1. sock[fd] \in Conns
    BY <1>1 DEF ReadEvent, Readable, HasSocket, Open, NoConn, KernelTypeOK, Conns
  <2>2. m_workqueue' \in Seq(Fds) /\ dropped' \subseteq Conns
    <3>1. CASE queueFull  BY <1>1, <2>1, <3>1 DEF ReadEvent, append
    <3>2. CASE ~queueFull
      <4>1. m_workqueue' = Append(m_workqueue, fd) /\ dropped' = dropped
        BY <1>1, <3>2 DEF ReadEvent, append
      <4>2. m_workqueue \in Seq(Fds) /\ dropped \subseteq Conns  OBVIOUS
      <4>3. Append(m_workqueue, fd) \in Seq(Fds)  BY <4>2
      <4> QED  BY <4>1, <4>2, <4>3
    <3> QED  BY <3>1, <3>2
  <2> QED  BY <1>1, <2>2 DEF ReadEvent
<1>2. ASSUME NEW w \in Workers, Take(w) PROVE PoolTypeOK' /\ WorkersHaveSlots'
  <2>1. Head(m_workqueue) \in Fds /\ Tail(m_workqueue) \in Seq(Fds)
    BY <1>2 DEF Take
  <2> QED  BY <1>2, <2>1 DEF Take, Goto, Points
<1>3. ASSUME NEW w \in Workers, Parse(w) PROVE PoolTypeOK' /\ WorkersHaveSlots'
  BY <1>3 DEF Parse, Goto, Points, ConnTypeOK
<1>4. ASSUME NEW w \in Workers, ParseMore(w) \/ FillFile(w) \/ FillError(w)
               \/ FillEmpty(w) \/ Remove(w) \/ Unset(w) \/ Store(w)
      PROVE  PoolTypeOK' /\ WorkersHaveSlots'
  BY <1>4 DEF ParseMore, FillFile, FillError, FillEmpty, Remove, Unset, Store,
    Goto, Points
<1>5. ASSUME NEW w \in Workers, Load(w) PROVE PoolTypeOK' /\ WorkersHaveSlots'
  BY <1>5 DEF Load, Goto, Points, MainTypeOK
<1>6. ASSUME NEW w \in Workers, RearmIn(w) \/ RearmOut(w)
      PROVE  PoolTypeOK' /\ WorkersHaveSlots'
  <2>1. /\ pc' = [pc EXCEPT ![w] = "idle"] /\ job' = [job EXCEPT ![w] = 0]
        /\ req' = [req EXCEPT ![w] = 0] /\ cnt' = [cnt EXCEPT ![w] = 0]
        /\ UNCHANGED <<m_workqueue, dropped>>
    BY <1>6 DEF RearmIn, RearmOut, Rearm, Goto, NoConn
  <2>2. req' \in [Workers -> 0..MaxConns]  BY <2>1, ReactorAssumption
  <2>3. cnt' \in [Workers -> Int]  BY <2>1
  <2>4. pc' \in [Workers -> Points] /\ job' \in [Workers -> Fds \cup {0}]
    BY <2>1 DEF Points
  <2>5. WorkersHaveSlots'  BY <2>1
  <2> QED  BY <2>1, <2>2, <2>3, <2>4, <2>5
<1> QED
  BY <1>1, <1>2, <1>3, <1>4, <1>5, <1>6 DEF Next, Client, Connect, ClientSend,
    ClientClose, TimeSlot, Main, EpollWait, EndOfEvents, Signal, TimerHandler,
    AcceptFails, Refuse, Accept, Spin, HangUp, ReadFails, WriteNothing,
    WriteStalls, WriteKeeps, WriteCloses, WriteFails, WriteSpins, Worker,
    poolVars, vars

LEMMA TypeStep ==
  TypeOK /\ WorkersHaveSlots /\ [Next]_vars => TypeOK' /\ WorkersHaveSlots'
<1>1. CASE UNCHANGED vars
  BY <1>1 DEF vars, clientVars, kernelVars, mainVars, timerVars, connVars,
    poolVars, TypeOK, FlagTypeOK, ClientTypeOK, KernelTypeOK, MainTypeOK, TimerTypeOK,
    ConnTypeOK, PoolTypeOK, WorkersHaveSlots
<1> QED
  BY <1>1, ClientTypes, KernelTypes, MainTypes, TimerTypes, ConnTypes,
     FlagTypes,
     PoolTypes DEF TypeOK

-----------------------------------------------------------------------------
(* TimerLive.  An action disturbs it in one of three ways: it closes the      *)
(* descriptors of some timers and deletes these timers; it registers or       *)
(* reports a descriptor that is open; or it accepts a connection.             *)

LEMMA Frame ==
  ASSUME TimerInv, UNCHANGED <<timers, timerfd, usertimer>>,
         \A fd \in Fds : InUse(fd)' => InUse(fd)
  PROVE  TimerLive'
BY DEF TimerInv, TimerLive, HasTimer

LEMMA FewerEvents ==
  ASSUME TimerInv, batch' \subseteq batch
  PROVE  OneEvent' /\ \A fd \in Fds : Reported(fd)' => Reported(fd)
BY DEF TimerInv, OneEvent, Reported

LEMMA CloseKeepsTimers ==
  ASSUME TimerInv, NEW fd \in Fds, NEW k \in {"in", "out", "hup"},
         Handle(<<fd, k>>), CloseConnection(fd)
  PROVE  TimerLive'
<1>1. Reported(fd) /\ HasTimer(fd)
  BY DEF Handle, Reported, TimerInv, TimerLive, InUse
<1>2. ~Reported(fd)'
  <2> SUFFICES ASSUME NEW j \in {"in", "out", "hup"}, <<fd, j>> \in batch'
               PROVE  FALSE
    BY DEF Reported
  <2>1. <<fd, j>> = <<fd, k>>
    BY DEF TimerInv, OneEvent, Handle
  <2> QED  BY <2>1 DEF Handle
<1>3. sock'[fd] = NoConn /\ armed'[fd] = "off"
  BY DEF CloseConnection, cb_func, Unregister
<1>4. ASSUME NEW g \in Fds, InUse(g)' PROVE HasTimer(g)'
  <2>1. g # fd  BY <1>2, <1>3, <1>4 DEF InUse
  <2>2. sock'[g] = sock[g] /\ armed'[g] = armed[g]
    BY <2>1 DEF CloseConnection, cb_func, Unregister
  <2>3. Reported(g)' => Reported(g)  BY DEF Handle, Reported
  <2>4. HasTimer(g)  BY <1>4, <2>2, <2>3 DEF InUse, TimerInv, TimerLive
  <2>5. usertimer[g] # usertimer[fd]  BY <1>1, <2>1, <2>4 DEF HasTimer
  <2> QED  BY <2>4, <2>5 DEF HasTimer, CloseConnection
<1> QED  BY <1>4 DEF TimerLive

LEMMA modfdKeepsUse ==
  ASSUME TimerInv, NEW fd, NEW ev \in {"in", "out"}, modfd(fd, ev),
         UNCHANGED sock, NEW g \in Fds, Reported(g)' => Reported(g), InUse(g)'
  PROVE  InUse(g)
<1>1. armed' = armed \/ (fd \in Open /\ armed' = [armed EXCEPT ![fd] = ev])
  BY DEF modfd, HasSocket
<1>2. armed \in [Fds -> {"off", "in", "out"}]
  BY DEF TimerInv, TypeOK, KernelTypeOK
<1>3. armed'[g] # armed[g] => g = fd /\ g \in Open
  BY <1>1, <1>2
<1> QED  BY <1>3 DEF InUse, Open

TimerParts == TimerLive /\ OneEvent /\ TimersAccepted

LEMMA EpollWaitKeeps == TimerInv /\ EpollWait => TimerParts'
<1> SUFFICES ASSUME TimerInv, EpollWait PROVE TimerParts'  OBVIOUS
<1>1. PICK writable \in SUBSET {fd \in Open : armed[fd] = "out"} :
        batch' = Ready(writable) /\ armed' = OneShot(Ready(writable))
  BY DEF EpollWait
<1>2. ASSUME NEW e \in batch', e[1] \in Fds
      PROVE  /\ e[1] \in Open
             /\ \/ e = <<e[1], "hup">> /\ shut[sock[e[1]]]
                \/ e = <<e[1], "in">> /\ armed[e[1]] = "in" /\ ~shut[sock[e[1]]]
                \/ e = <<e[1], "out">> /\ armed[e[1]] = "out" /\ ~shut[sock[e[1]]]
  <2>1. e # <<listenfd, "in">> /\ e # <<pipefd, "in">>
    BY <1>2, ReactorAssumption DEF listenfd, pipefd
  <2> QED  BY <1>1, <1>2, <2>1 DEF Ready, HangUps
<1>3. OneEvent'  BY <1>2 DEF OneEvent
<1>4. \A fd \in Fds : Reported(fd)' => fd \in Open  BY <1>2 DEF Reported
<1>5. \A fd \in Fds : InUse(fd)' => InUse(fd)
  <2>1. \A fd \in Fds : armed'[fd] # "off" => armed[fd] # "off"
    BY <1>1 DEF OneShot
  <2> QED  BY <1>4, <2>1 DEF InUse, Open, EpollWait
<1>6. TimerLive'  BY <1>5, Frame DEF EpollWait, timerVars
<1> QED
  BY <1>3, <1>6 DEF TimerParts, TimerInv, TimersAccepted, EpollWait, timerVars

LEMMA AcceptKeeps == TimerInv /\ Accept => TimerParts'
<1> SUFFICES ASSUME TimerInv, Accept PROVE TimerParts'  OBVIOUS
<1> USE DEF TimerInv
<1>1. PICK f \in Fds \ Open :
        /\ accepted' = accepted + 1
        /\ sock' = [sock EXCEPT ![f] = accepted + 1]
        /\ armed' = [armed EXCEPT ![f] = "in"]
        /\ AddTimer(accepted + 1, f)
  BY DEF Accept
<1>2. accepted \in Nat /\ accepted + 1 \in Conns
  BY ReactorAssumption DEF Accept, TypeOK, ClientTypeOK, Conns
<1>3. accepted + 1 \notin timers  BY <1>2 DEF TimersAccepted
<1>4. OneEvent' /\ \A fd \in Fds : Reported(fd)' => Reported(fd)
  BY FewerEvents DEF Accept, Handle
<1>5. ASSUME NEW g \in Fds, InUse(g)' PROVE HasTimer(g)'
  <2>1. CASE g = f
    BY <1>1, <1>2, <2>1 DEF AddTimer, HasTimer, TypeOK, TimerTypeOK
  <2>2. CASE g # f
    <3>1. InUse(g)  BY <1>1, <1>4, <1>5, <2>2 DEF InUse
    <3>2. HasTimer(g)  BY <3>1 DEF TimerLive
    <3>3. usertimer'[g] = usertimer[g] /\ usertimer[g] # accepted + 1
      BY <1>1, <1>3, <2>2, <3>2 DEF AddTimer, HasTimer
    <3> QED  BY <1>1, <3>2, <3>3 DEF AddTimer, HasTimer
  <2> QED  BY <2>1, <2>2
<1>6. TimersAccepted'  BY <1>1, <1>2 DEF TimersAccepted, AddTimer
<1> QED  BY <1>4, <1>5, <1>6 DEF TimerParts, TimerLive

LEMMA TimerHandlerKeeps == TimerInv /\ TimerHandler => TimerParts'
<1> SUFFICES ASSUME TimerInv, TimerHandler PROVE TimerParts'  OBVIOUS
<1> USE DEF TimerInv
<1> DEFINE closed == {timerfd[c] : c \in Expired}
<1>1. /\ \A fd \in Fds : fd \in closed => sock'[fd] = NoConn /\ armed'[fd] = "off"
      /\ \A fd \in Fds : fd \notin closed => sock'[fd] = sock[fd] /\ armed'[fd] = armed[fd]
      /\ timers' = timers \ Expired
  BY DEF TimerHandler, tick, cb_func, Unregister
<1>2. \A fd \in Fds : ~Reported(fd)'  BY DEF TimerHandler, Reported
<1>3. ASSUME NEW fd \in Fds, InUse(fd)' PROVE HasTimer(fd)'
  <2>1. fd \notin closed /\ InUse(fd)  BY <1>1, <1>2, <1>3 DEF InUse
  <2>2. HasTimer(fd)  BY <2>1 DEF TimerLive
  <2>3. usertimer[fd] \notin Expired  BY <2>1, <2>2 DEF HasTimer
  <2> QED  BY <1>1, <2>2, <2>3 DEF HasTimer, TimerHandler
<1>4. OneEvent' /\ TimersAccepted'
  BY <1>1 DEF OneEvent, TimersAccepted, TimerHandler
<1> QED  BY <1>3, <1>4 DEF TimerParts, TimerLive

LEMMA EventKeeps ==
  ASSUME TimerInv, NEW fd \in Fds,
         \/ HangUp(fd) \/ ReadFails(fd) \/ WriteCloses(fd) \/ WriteFails(fd)
         \/ ReadEvent(fd) \/ WriteNothing(fd) \/ WriteStalls(fd) \/ WriteKeeps(fd)
  PROVE  TimerParts'
<1> PICK k \in {"in", "out", "hup"} : Handle(<<fd, k>>)
  BY DEF HangUp, ReadEvent, ReadFails, WriteNothing, WriteStalls, WriteKeeps,
    WriteCloses, WriteFails
<1>1. OneEvent' /\ \A g \in Fds : Reported(g)' => Reported(g)
  BY FewerEvents DEF Handle
<1>2. CASE HangUp(fd) \/ ReadFails(fd) \/ WriteCloses(fd) \/ WriteFails(fd)
  <2>1. CloseConnection(fd) /\ accepted' = accepted
    BY <1>2 DEF HangUp, ReadFails, WriteCloses, WriteFails
  <2>2. TimersAccepted'
    BY <2>1 DEF TimerInv, TimersAccepted, CloseConnection
  <2> QED  BY <1>1, <2>1, <2>2, CloseKeepsTimers DEF TimerParts
<1>3. CASE ReadEvent(fd) \/ WriteNothing(fd) \/ WriteStalls(fd) \/ WriteKeeps(fd)
  <2>1. AdjustTimer(fd) /\ UNCHANGED <<accepted, sock>>
    BY <1>3 DEF ReadEvent, WriteNothing, WriteStalls, WriteKeeps, kernelVars
  <2>2. UNCHANGED armed \/ \E ev \in {"in", "out"} : modfd(fd, ev)
    BY <1>3 DEF ReadEvent, WriteNothing, WriteStalls, WriteKeeps, kernelVars
  <2>3. \A g \in Fds : InUse(g)' => InUse(g)
    BY <1>1, <2>1, <2>2, modfdKeepsUse DEF InUse
  <2>4. TimerLive' /\ TimersAccepted'
    BY <2>1, <2>3, Frame DEF AdjustTimer, TimerInv, TimersAccepted
  <2> QED  BY <1>1, <2>4 DEF TimerParts
<1> QED  BY <1>2, <1>3

LEMMA WorkerKeeps ==
  ASSUME TimerInv, NEW w \in Workers, Worker(w)
  PROVE  TimerParts'
<1>1. UNCHANGED <<accepted, timerVars, batch>>
  BY DEF Worker, Take, ParseMore, Parse, FillFile, FillError, FillEmpty,
    Remove, Unset, Load, Store, RearmIn, RearmOut, Rearm, Goto, mainVars
<1>2. OneEvent' /\ \A fd \in Fds : Reported(fd)' => Reported(fd)
  BY <1>1, FewerEvents
<1>3. \A fd \in Fds : InUse(fd)' => InUse(fd)
  <2>1. CASE Remove(w)
    BY <1>2, <2>1 DEF Remove, InUse
  <2>2. CASE RearmIn(w) \/ RearmOut(w)
    <3>1. UNCHANGED sock /\ \E ev \in {"in", "out"} : modfd(job[w], ev)
      BY <2>2 DEF RearmIn, RearmOut, Rearm
    <3> QED  BY <1>2, <3>1, modfdKeepsUse
  <2>3. CASE UNCHANGED kernelVars
    BY <1>2, <2>3 DEF InUse, kernelVars
  <2> QED
    BY <2>1, <2>2, <2>3 DEF Worker, Take, ParseMore, Parse, FillFile, FillError, FillEmpty,
      Unset, Load, Store
<1> QED
  BY <1>1, <1>2, <1>3, Frame DEF TimerParts, TimerInv, TimersAccepted, timerVars

LEMMA OthersKeep ==
  ASSUME TimerInv,
         \/ Client \/ TimeSlot \/ EndOfEvents \/ Signal \/ AcceptFails
         \/ Refuse \/ Spin \/ (\E fd \in Fds : WriteSpins(fd)) \/ UNCHANGED vars
  PROVE  TimerParts'
<1> USE DEF Client, Connect, ClientSend, ClientClose, TimeSlot, EndOfEvents,
    Signal, AcceptFails, Refuse, Spin, WriteSpins, Handle, kernelVars, mainVars,
    timerVars, vars
<1>1. UNCHANGED <<sock, armed, timers, timerfd, usertimer>>  OBVIOUS
<1>2. batch' \subseteq batch  OBVIOUS
<1>3. accepted' = accepted \/ accepted' = accepted + 1  OBVIOUS
<1>4. TimersAccepted'
  BY <1>1, <1>3 DEF TimerInv, TimersAccepted, TypeOK, ClientTypeOK
<1> QED  BY <1>1, <1>2, <1>4, FewerEvents, Frame DEF TimerParts, InUse

LEMMA TimerStep == TimerInv /\ [Next]_vars => TimerInv'
<1> SUFFICES ASSUME TimerInv, [Next]_vars PROVE TimerInv'  OBVIOUS
<1>1. TypeOK' /\ WorkersHaveSlots'  BY TypeStep DEF TimerInv
<1>2. TimerParts'
  BY EpollWaitKeeps, AcceptKeeps, TimerHandlerKeeps, EventKeeps, WorkerKeeps,
     OthersKeep DEF Next, Main
<1> QED  BY <1>1, <1>2 DEF TimerParts, TimerInv

\* The inductive invariant of the timers: wherever the main thread and the
\* workers are, descriptors in use and timers in the list match.
THEOREM TimerInvariant == Spec => []TimerInv
BY InitTimerInv, TimerStep, PTL DEF Spec

\* Every variable of the program keeps its type, in every behaviour.
THEOREM TypeCorrect == Spec => []TypeOK
<1>1. TimerInv => TypeOK  BY DEF TimerInv
<1> QED  BY <1>1, TimerInvariant, PTL

\* No event, no tick() and no handler meets the timer of a connection that is
\* gone, and no open connection is without a timer: for any number of
\* descriptors, connections and workers, any replies and any delays.
THEOREM TimersLive == Spec => []TimerLive
<1>1. TimerInv => TimerLive  BY DEF TimerInv
<1> QED  BY <1>1, TimerInvariant, PTL

-----------------------------------------------------------------------------
(* UserCountExact and TimerOwnsConnection.  They need that no worker closes a *)
(* connection, so that no request names an empty file.                        *)

NoWorkerCloses ==
  \A w \in Workers : pc[w] \notin {"remove", "unset", "load", "store"}
TimersHaveSlots == \A c \in timers : timerfd[c] \in Fds

CountInv ==
  /\ TimerInv /\ NoWorkerCloses /\ TimersHaveSlots
  /\ UserCountExact /\ TimerOwnsConnection
Counted == TimersHaveSlots /\ UserCountExact /\ TimerOwnsConnection

LEMMA OpenFinite == IsFiniteSet(Open) /\ Cardinality(Open) \in Nat
<1>1. IsFiniteSet(Fds) /\ Open \subseteq Fds  BY ReactorAssumption DEF Open
<1> QED  BY <1>1, FS_Subset, FS_CardinalityType

LEMMA InitCountInv == Init => CountInv
<1> SUFFICES ASSUME Init PROVE CountInv  OBVIOUS
<1>1. Open = {}  BY DEF Init, Open
<1>2. UserCountExact  BY <1>1, FS_EmptySet DEF UserCountExact, Init
<1> QED
  BY <1>2, InitTimerInv DEF Init, CountInv, NoWorkerCloses, TimersHaveSlots,
    TimerOwnsConnection

\* Under CountInv a reported descriptor is open, and owns the timer of its slot.
LEMMA InUseOwns ==
  ASSUME CountInv, NEW fd \in Fds, InUse(fd)
  PROVE  /\ fd \in Open /\ usertimer[fd] \in timers
         /\ sock[fd] = usertimer[fd] /\ timerfd[usertimer[fd]] = fd
<1>1. HasTimer(fd)  BY DEF CountInv, TimerInv, TimerLive
<1>2. sock[fd] = usertimer[fd]
  BY <1>1 DEF HasTimer, CountInv, TimerOwnsConnection
<1>3. usertimer[fd] # NoConn
  BY <1>1 DEF HasTimer, CountInv, TimerInv, TypeOK, TimerTypeOK, Conns, NoConn
<1> QED  BY <1>1, <1>2, <1>3 DEF HasTimer, Open

LEMMA CloseCounts ==
  ASSUME CountInv, NEW fd \in Fds, Reported(fd), CloseConnection(fd)
  PROVE  Counted'
<1>1. /\ fd \in Open /\ usertimer[fd] \in timers
      /\ sock[fd] = usertimer[fd] /\ timerfd[usertimer[fd]] = fd
  BY InUseOwns DEF InUse
<1>2. /\ sock' = [g \in Fds |-> IF g = fd THEN NoConn ELSE sock[g]]
      /\ m_user_count' = m_user_count - 1
      /\ timers' = timers \ {usertimer[fd]}
      /\ UNCHANGED <<timerfd, usertimer>>
  BY DEF CloseConnection, cb_func
<1>3. Open' = Open \ {fd}  BY <1>2 DEF Open
<1>4. Cardinality(Open \ {fd}) = Cardinality(Open) - 1
  BY <1>1, OpenFinite, FS_RemoveElement
<1>5. UserCountExact'  BY <1>2, <1>3, <1>4 DEF UserCountExact, CountInv
<1>6. ASSUME NEW c \in timers'
      PROVE  timerfd'[c] \in Fds /\ sock'[timerfd'[c]] = c /\ usertimer'[timerfd'[c]] = c
  <2>1. timerfd[c] \in Fds /\ sock[timerfd[c]] = c /\ usertimer[timerfd[c]] = c
    BY <1>2 DEF CountInv, TimersHaveSlots, TimerOwnsConnection
  <2>2. timerfd[c] # fd  BY <1>2, <2>1
  <2> QED  BY <1>2, <2>1, <2>2
<1> QED  BY <1>5, <1>6 DEF Counted, TimersHaveSlots, TimerOwnsConnection

LEMMA AcceptCounts ==
  ASSUME CountInv, Accept
  PROVE  Counted'
<1> USE DEF CountInv, TimerInv
<1>1. PICK f \in Fds \ Open :
        /\ sock' = [sock EXCEPT ![f] = accepted + 1]
        /\ AddTimer(accepted + 1, f)
        /\ m_user_count' = m_user_count + 1
  BY DEF Accept
<1>2. accepted \in Nat /\ accepted + 1 \in Conns
  BY ReactorAssumption DEF Accept, TypeOK, ClientTypeOK, Conns
<1>3. accepted + 1 \notin timers  BY <1>2 DEF TimersAccepted
<1>4. sock \in [Fds -> 0..MaxConns]  BY DEF TypeOK, KernelTypeOK
<1>5. Open' = Open \cup {f}  BY <1>1, <1>2, <1>4 DEF Open, NoConn
<1>6. Cardinality(Open \cup {f}) = Cardinality(Open) + 1
  BY OpenFinite, FS_AddElement
<1>7. UserCountExact'  BY <1>1, <1>5, <1>6 DEF UserCountExact
<1>8. /\ timerfd \in [Conns -> Fds \cup {0}] /\ usertimer \in [Fds -> 0..MaxConns]
      /\ timers \subseteq Conns
  BY DEF TypeOK, TimerTypeOK
<1>9. ASSUME NEW c \in timers'
      PROVE  timerfd'[c] \in Fds /\ sock'[timerfd'[c]] = c /\ usertimer'[timerfd'[c]] = c
  <2>1. CASE c = accepted + 1
    BY <1>1, <1>2, <1>4, <1>8, <2>1 DEF AddTimer
  <2>2. CASE c # accepted + 1
    <3>1. c \in timers /\ timerfd'[c] = timerfd[c]
      BY <1>1, <1>8, <2>2 DEF AddTimer
    <3>2. timerfd[c] \in Fds /\ sock[timerfd[c]] = c /\ usertimer[timerfd[c]] = c
      BY <3>1 DEF TimersHaveSlots, TimerOwnsConnection
    <3>3. c # NoConn  BY <1>8, <3>1 DEF Conns, NoConn
    <3>4. timerfd[c] # f  BY <3>2, <3>3 DEF Open
    <3> QED  BY <1>1, <1>4, <1>8, <3>1, <3>2, <3>4 DEF AddTimer
  <2> QED  BY <2>1, <2>2
<1> QED  BY <1>7, <1>9 DEF Counted, TimersHaveSlots, TimerOwnsConnection

LEMMA TimerHandlerCounts ==
  ASSUME CountInv, TimerHandler
  PROVE  Counted'
<1> USE DEF CountInv, TimerInv
<1> DEFINE closed == {timerfd[c] : c \in Expired}
<1>1. /\ sock' = [fd \in Fds |-> IF fd \in closed THEN NoConn ELSE sock[fd]]
      /\ m_user_count' = m_user_count - Cardinality(Expired)
      /\ timers' = timers \ Expired
      /\ UNCHANGED <<timerfd, usertimer>>
  BY DEF TimerHandler, tick, cb_func
<1>2. \A c \in timers : timerfd[c] \in Fds /\ sock[timerfd[c]] = c /\ c # NoConn
  BY DEF TimersHaveSlots, TimerOwnsConnection, TypeOK, TimerTypeOK, Conns, NoConn
<1>3. Expired \subseteq timers  BY DEF Expired
<1>4. closed \subseteq Open  BY <1>2, <1>3 DEF Open
<1>5. Cardinality(closed) = Cardinality(Expired)
  <2>1. \A c, d \in Expired : timerfd[c] = timerfd[d] => c = d
    BY <1>2, <1>3
  <2>2. ExistsBijection(Expired, closed)
    <3> DEFINE f == [c \in Expired |-> timerfd[c]]
    <3>1. f \in Bijection(Expired, closed)
      BY <2>1, Fun_IsBij
    <3> QED  BY <3>1 DEF ExistsBijection
  <2> QED  BY <2>2, ExpiredFinite, FS_Bijection
<1>6. Open' = Open \ closed  BY <1>1 DEF Open
<1>7. Cardinality(Open \ closed) = Cardinality(Open) - Cardinality(closed)
  <2>1. Open \cap closed = closed  BY <1>4
  <2> QED  BY <2>1, OpenFinite, FS_Difference
<1>8. UserCountExact'  BY <1>1, <1>5, <1>6, <1>7 DEF UserCountExact
<1>9. ASSUME NEW c \in timers'
      PROVE  timerfd'[c] \in Fds /\ sock'[timerfd'[c]] = c /\ usertimer'[timerfd'[c]] = c
  <2>1. c \in timers /\ c \notin Expired  BY <1>1
  <2>2. timerfd[c] \notin closed
    <3> SUFFICES ASSUME NEW d \in Expired, timerfd[c] = timerfd[d] PROVE FALSE
      OBVIOUS
    <3> QED  BY <1>2, <1>3, <2>1
  <2> QED  BY <1>1, <1>2, <2>1, <2>2 DEF TimerOwnsConnection
<1> QED  BY <1>8, <1>9 DEF Counted, TimersHaveSlots, TimerOwnsConnection

\* What the other actions leave alone.
LEMMA CountFrame ==
  ASSUME CountInv, UNCHANGED <<sock, m_user_count, timers, timerfd, usertimer>>
  PROVE  Counted'
BY DEF CountInv, Counted, TimersHaveSlots, UserCountExact, TimerOwnsConnection, Open

LEMMA NoWorkerClosesStep ==
  ASSUME "empty" \notin Replies, TypeOK, NoWorkerCloses, [Next]_vars
  PROVE  NoWorkerCloses'
<1> USE DEF NoWorkerCloses
<1>1. ASSUME NEW w \in Workers, Worker(w) PROVE NoWorkerCloses'
  <2>1. PICK to \in Points \ {"remove", "unset", "load", "store"} :
          pc' = [pc EXCEPT ![w] = to]
    BY <1>1 DEF Worker, Take, ParseMore, Parse, FillFile, FillError, FillEmpty,
      Remove, Unset, Load, Store, RearmIn, RearmOut, Rearm, Goto, Points
  <2> QED  BY <2>1 DEF TypeOK, PoolTypeOK
<1>2. CASE pc' = pc  BY <1>2
<1> QED
  BY <1>1, <1>2 DEF Next, Client, Connect, ClientSend, ClientClose, TimeSlot,
    Main, EpollWait, EndOfEvents, Signal, TimerHandler, AcceptFails, Refuse,
    Accept, Spin, HangUp, ReadEvent, ReadFails, WriteNothing, WriteStalls,
    WriteKeeps, WriteCloses, WriteFails, WriteSpins, poolVars, vars

LEMMA CountStep ==
  ASSUME "empty" \notin Replies, CountInv, [Next]_vars
  PROVE  CountInv'
<1>1. TimerInv' /\ NoWorkerCloses'
  BY TimerStep, NoWorkerClosesStep DEF CountInv, TimerInv
<1>2. Accept => Counted'  BY AcceptCounts
<1>3. TimerHandler => Counted'  BY TimerHandlerCounts
<1>4. ASSUME NEW fd \in Fds,
             HangUp(fd) \/ ReadFails(fd) \/ WriteCloses(fd) \/ WriteFails(fd)
      PROVE  Counted'
  <2>1. Reported(fd) /\ CloseConnection(fd)
    BY <1>4 DEF HangUp, ReadFails, WriteCloses, WriteFails, Handle, Reported
  <2> QED  BY <2>1, CloseCounts
<1>5. ASSUME NEW fd \in Fds, ReadEvent(fd) \/ WriteNothing(fd)
               \/ WriteStalls(fd) \/ WriteKeeps(fd)
      PROVE  Counted'
  BY <1>5, CountFrame DEF ReadEvent, WriteNothing, WriteStalls, WriteKeeps,
    AdjustTimer, kernelVars
<1>6. ASSUME NEW w \in Workers, Worker(w) PROVE Counted'
  BY <1>6, CountFrame DEF CountInv, NoWorkerCloses, Worker, Take, ParseMore,
    Parse, FillFile, FillError, FillEmpty, Remove, Unset, Load, Store, RearmIn,
    RearmOut, Rearm, Goto, kernelVars, timerVars
<1>7. ASSUME \/ Client \/ TimeSlot \/ EpollWait \/ EndOfEvents \/ Signal
             \/ AcceptFails \/ Refuse \/ Spin
             \/ (\E fd \in Fds : WriteSpins(fd)) \/ UNCHANGED vars
      PROVE  Counted'
  <2>1. UNCHANGED <<sock, m_user_count, timers, timerfd, usertimer>>
    BY <1>7 DEF Client, Connect, ClientSend, ClientClose, TimeSlot, EpollWait,
      EndOfEvents, Signal, AcceptFails, Refuse, Spin, WriteSpins, kernelVars,
      timerVars, vars
  <2> QED  BY <2>1, CountFrame
<1>8. Counted'
  BY <1>2, <1>3, <1>4, <1>5, <1>6, <1>7 DEF Next, Main
<1> QED  BY <1>1, <1>8 DEF CountInv, Counted

\* As long as no request names an empty file, m_user_count counts the open
\* connections exactly and every timer in the list owns the connection it was
\* made for, whatever the workers' delays and however descriptors are reused.
THEOREM UsersCounted ==
  ASSUME "empty" \notin Replies
  PROVE  Spec => [](UserCountExact /\ TimerOwnsConnection)
<1>1. CountInv /\ [Next]_vars => CountInv'  BY CountStep
<1>2. CountInv => UserCountExact /\ TimerOwnsConnection  BY DEF CountInv
<1> QED  BY InitCountInv, <1>1, <1>2, PTL DEF Spec

\* Alone among these: no timer in the list means a later owner of its descriptor,
\* so that an expiry, or an event that takes the timer from users_timer, never
\* closes the connection of somebody else.
THEOREM TimersOwn ==
  ASSUME "empty" \notin Replies
  PROVE  Spec => []TimerOwnsConnection
<1>1. UserCountExact /\ TimerOwnsConnection => TimerOwnsConnection  OBVIOUS
<1> QED  BY <1>1, UsersCounted, PTL

-----------------------------------------------------------------------------
(* Who has a slot *)

\* The slot is in the work queue or with a worker.
InQueue(fd) == \E i \in DOMAIN m_workqueue : m_workqueue[i] = fd
InWork(fd)  == \E w \in Workers : pc[w] # "idle" /\ job[w] = fd
Busy(fd)    == InQueue(fd) \/ InWork(fd)

\* The parts of the inductive invariant: each owner excludes the others.
ArmedAlone ==
  \A fd \in Fds : armed[fd] # "off" => fd \in Open /\ ~Reported(fd) /\ ~Busy(fd)
ReportedAlone == \A fd \in Fds : Reported(fd) => ~Busy(fd)
QueuedOnce ==
  /\ \A i, j \in DOMAIN m_workqueue : m_workqueue[i] = m_workqueue[j] => i = j
  /\ \A i \in DOMAIN m_workqueue : ~InWork(m_workqueue[i])
WorkedOnce ==
  \A v, w \in Workers : pc[v] # "idle" /\ pc[w] # "idle" /\ job[v] = job[w] => v = w
BusyOpen == \A fd \in Fds : Busy(fd) => fd \in Open
\* The main thread waits with all events handled.
BatchHandled == main = "wait" => batch = {}
\* modfd() works for every open connection.
SlotsSet == \A fd \in Open : m_sockfd[fd] = fd
\* A timer that is due is that of a connection nobody works for.
DueIdle == \A c \in timers : left[c] = 0 => ~Busy(timerfd[c])

Exclusive ==
  /\ ArmedAlone /\ ReportedAlone /\ QueuedOnce /\ WorkedOnce /\ BusyOpen
  /\ BatchHandled /\ SlotsSet /\ DueIdle
OwnInv == CountInv /\ Exclusive

\* The conditions.
Quick == "empty" \notin Replies /\ ~SlowWorkers

LEMMA InitOwn == Init => OwnInv
<1> SUFFICES ASSUME Init PROVE OwnInv  OBVIOUS
<1>1. \A fd \in Fds : ~Busy(fd) /\ fd \notin Open /\ armed[fd] = "off" /\ ~Reported(fd)
  BY DEF Init, Busy, InQueue, InWork, Open, Reported
<1> QED
  BY <1>1, InitCountInv DEF Init, OwnInv, Exclusive, ArmedAlone, ReportedAlone, QueuedOnce,
    WorkedOnce, BusyOpen, BatchHandled, SlotsSet, DueIdle, Open

-----------------------------------------------------------------------------
(* Actions of the main thread *)

\* What an action does that leaves queue and workers alone.
LEMMA SameBusy ==
  ASSUME UNCHANGED <<m_workqueue, pc, job>>
  PROVE  /\ \A fd : Busy(fd)' = Busy(fd)
         /\ OwnInv => QueuedOnce' /\ WorkedOnce'
BY DEF Busy, InQueue, InWork, OwnInv, Exclusive, QueuedOnce, WorkedOnce

LEMMA EpollWaitOwn == OwnInv /\ EpollWait => Exclusive'
<1> SUFFICES ASSUME OwnInv, EpollWait PROVE Exclusive'  OBVIOUS
<1> USE DEF OwnInv, Exclusive
<1>1. PICK writable \in SUBSET {fd \in Open : armed[fd] = "out"} :
        batch' = Ready(writable) /\ armed' = OneShot(Ready(writable))
  BY DEF EpollWait
<1>2. ASSUME NEW fd \in Fds, Reported(fd)' PROVE armed[fd] # "off" /\ armed'[fd] = "off"
  <2>1. PICK k \in {"in", "out", "hup"} : <<fd, k>> \in Ready(writable)
    BY <1>1, <1>2 DEF Reported
  <2>2. armed'[fd] = "off"  BY <1>1, <2>1 DEF OneShot
  <2>3. <<fd, k>> # <<listenfd, "in">> /\ <<fd, k>> # <<pipefd, "in">>
    BY ReactorAssumption DEF listenfd, pipefd
  <2>4. armed[fd] # "off"  BY <2>1, <2>3 DEF Ready, HangUps
  <2> QED  BY <2>2, <2>4
<1>3. \A fd \in Fds : armed'[fd] # "off" => armed[fd] # "off"  BY <1>1 DEF OneShot
<1>4. /\ UNCHANGED <<m_workqueue, pc, job, sock, m_sockfd, timers, left, timerfd>>
      /\ main' = "run"
  BY DEF EpollWait, poolVars, connVars, timerVars
<1>5. /\ \A fd : Busy(fd)' = Busy(fd)
      /\ QueuedOnce' /\ WorkedOnce' /\ Open' = Open
  BY <1>4, SameBusy DEF Open
<1>6. ArmedAlone' /\ ReportedAlone'
  BY <1>2, <1>3, <1>5 DEF ArmedAlone, ReportedAlone
<1>7. BusyOpen' /\ BatchHandled' /\ SlotsSet' /\ DueIdle'
  BY <1>4, <1>5 DEF BusyOpen, BatchHandled, SlotsSet, DueIdle
<1> QED  BY <1>5, <1>6, <1>7

LEMMA AcceptOwn == OwnInv /\ Accept => Exclusive'
<1> SUFFICES ASSUME OwnInv, Accept PROVE Exclusive'  OBVIOUS
<1> USE DEF OwnInv, Exclusive
<1>1. PICK f \in Fds \ Open :
        /\ accepted' = accepted + 1
        /\ sock' = [sock EXCEPT ![f] = accepted + 1]
        /\ armed' = [armed EXCEPT ![f] = "in"]
        /\ m_sockfd' = [m_sockfd EXCEPT ![f] = f]
        /\ AddTimer(accepted + 1, f)
  BY DEF Accept
<1>2. accepted \in Nat /\ accepted + 1 \in Conns
  BY ReactorAssumption DEF Accept, CountInv, TimerInv, TypeOK, ClientTypeOK, Conns
<1>3. /\ sock \in [Fds -> 0..MaxConns] /\ armed \in [Fds -> {"off", "in", "out"}]
      /\ m_sockfd \in [Fds -> Fds \cup {-1, 0}] /\ left \in [Conns -> 0..IdleSlots]
      /\ timerfd \in [Conns -> Fds \cup {0}] /\ timers \subseteq Conns
  BY DEF CountInv, TimerInv, TypeOK, KernelTypeOK, ConnTypeOK, TimerTypeOK
<1>4. Open' = Open \cup {f}  BY <1>1, <1>2, <1>3 DEF Open, NoConn
<1>5. UNCHANGED <<m_workqueue, pc, job, main>> /\ batch' \subseteq batch
  BY DEF Accept, Handle, poolVars
<1>6. /\ \A fd : Busy(fd)' = Busy(fd)
      /\ QueuedOnce' /\ WorkedOnce'
  BY <1>5, SameBusy
<1>7. \A fd \in Fds : Reported(fd)' => Reported(fd)  BY <1>5 DEF Reported
<1>8. ~Busy(f) /\ ~Reported(f)
  <2>1. ~Busy(f)  BY DEF BusyOpen
  <2>2. ~Reported(f)  BY InUseOwns DEF InUse
  <2> QED  BY <2>1, <2>2
<1>9. ArmedAlone' /\ ReportedAlone'
  BY <1>1, <1>3, <1>4, <1>6, <1>7, <1>8 DEF ArmedAlone, ReportedAlone
<1>10. BusyOpen'  BY <1>4, <1>6 DEF BusyOpen
<1>11. BatchHandled'  BY <1>5 DEF BatchHandled
<1>12. SlotsSet'  BY <1>1, <1>3, <1>4 DEF SlotsSet, Open
<1>13. DueIdle'
  <2> SUFFICES ASSUME NEW c \in timers', left'[c] = 0 PROVE ~Busy(timerfd'[c])
    BY <1>6 DEF DueIdle
  <2>1. CASE c = accepted + 1
    <3>1. left'[c] = IdleSlots  BY <1>1, <1>2, <1>3, <2>1 DEF AddTimer
    <3> QED  BY <3>1, ReactorAssumption
  <2>2. CASE c # accepted + 1
    BY <1>1, <1>3, <2>2 DEF AddTimer, DueIdle
  <2> QED  BY <2>1, <2>2
<1> QED  BY <1>6, <1>9, <1>10, <1>11, <1>12, <1>13

\* Descriptors nobody works for are closed, the events of one of them handled.
LEMMA ClosingOwn ==
  ASSUME OwnInv, NEW closed \in SUBSET Fds, NEW calls,
         cb_func(closed, calls), UNCHANGED <<m_workqueue, pc, job, m_sockfd, left, timerfd>>,
         timers' \subseteq timers, batch' \subseteq batch, main' = main \/ batch' = {},
         \A fd \in closed : ~Busy(fd) /\ ~Reported(fd)'
  PROVE  Exclusive'
<1> USE DEF OwnInv, Exclusive
<1>1. /\ \A fd \in Fds : fd \in closed => sock'[fd] = NoConn /\ armed'[fd] = "off"
      /\ \A fd \in Fds : fd \notin closed => sock'[fd] = sock[fd] /\ armed'[fd] = armed[fd]
  BY DEF cb_func, Unregister
<1>2. Open' = Open \ closed  BY <1>1 DEF Open
<1>3. /\ \A fd : Busy(fd)' = Busy(fd)
      /\ QueuedOnce' /\ WorkedOnce'
  BY SameBusy
<1>4. \A fd \in Fds : Reported(fd)' => Reported(fd)  BY DEF Reported
<1>5. ArmedAlone' /\ ReportedAlone'
  BY <1>1, <1>2, <1>3, <1>4 DEF ArmedAlone, ReportedAlone
<1>6. BusyOpen'  BY <1>2, <1>3 DEF BusyOpen
<1>7. BatchHandled'  BY DEF BatchHandled
<1>8. SlotsSet'  BY <1>2 DEF SlotsSet
<1>9. DueIdle'  BY <1>3 DEF DueIdle
<1> QED  BY <1>3, <1>5, <1>6, <1>7, <1>8, <1>9

\* The event of a descriptor has been handled: there is no other one.
LEMMA HandledLast ==
  ASSUME TimerInv, NEW fd \in Fds, NEW k \in {"in", "out", "hup"}, Handle(<<fd, k>>)
  PROVE  /\ Reported(fd) /\ ~Reported(fd)' /\ UNCHANGED main /\ batch' \subseteq batch
         /\ \A g \in Fds : g # fd => Reported(g)' = Reported(g)
<1>1. ~Reported(fd)'
  <2> SUFFICES ASSUME NEW j \in {"in", "out", "hup"}, <<fd, j>> \in batch'
               PROVE  FALSE
    BY DEF Reported
  <2>1. <<fd, j>> = <<fd, k>>
    BY DEF TimerInv, OneEvent, Handle
  <2> QED  BY <2>1 DEF Handle
<1> QED  BY <1>1 DEF Handle, Reported

LEMMA CloseOwn ==
  ASSUME OwnInv, NEW fd \in Fds,
         HangUp(fd) \/ ReadFails(fd) \/ WriteCloses(fd) \/ WriteFails(fd)
  PROVE  Exclusive'
<1> PICK k \in {"in", "out", "hup"} : Handle(<<fd, k>>)
  BY DEF HangUp, ReadFails, WriteCloses, WriteFails
<1>1. /\ CloseConnection(fd)
      /\ UNCHANGED <<m_workqueue, pc, job, m_sockfd>>
  BY DEF HangUp, ReadFails, WriteCloses, WriteFails, connVars, poolVars
<1>2. cb_func({fd}, 1) /\ timers' \subseteq timers /\ UNCHANGED <<left, timerfd>>
  BY <1>1 DEF CloseConnection
<1>3. Reported(fd) /\ ~Reported(fd)' /\ UNCHANGED main /\ batch' \subseteq batch
  BY HandledLast DEF OwnInv, CountInv
<1>4. ~Busy(fd)  BY <1>3 DEF OwnInv, Exclusive, ReportedAlone
<1> QED  BY <1>1, <1>2, <1>3, <1>4, ClosingOwn

LEMMA TimerHandlerOwn == OwnInv /\ TimerHandler => Exclusive'
<1> SUFFICES ASSUME OwnInv, TimerHandler PROVE Exclusive'  OBVIOUS
<1> DEFINE closed == {timerfd[c] : c \in Expired}
<1>1. /\ cb_func(closed, Cardinality(Expired)) /\ timers' \subseteq timers
      /\ UNCHANGED <<m_workqueue, pc, job, m_sockfd, left, timerfd>>
      /\ batch' = {} /\ batch = {}
  BY DEF TimerHandler, tick, poolVars, connVars
<1>2. closed \in SUBSET Fds
  BY DEF OwnInv, CountInv, TimersHaveSlots, Expired
<1>3. \A fd \in closed : ~Busy(fd)
  BY DEF OwnInv, Exclusive, DueIdle, Expired
<1>4. \A fd \in closed : ~Reported(fd)'  BY <1>1 DEF Reported
<1> HIDE DEF closed
<1> QED  BY <1>1, <1>2, <1>3, <1>4, ClosingOwn

\* append() queues the slot or drops it.
LEMMA ReadEventOwn ==
  ASSUME OwnInv, NEW fd \in Fds, ReadEvent(fd)
  PROVE  Exclusive'
<1> USE DEF OwnInv, Exclusive
<1>1. /\ UNCHANGED <<sock, armed, m_sockfd, pc, job, timers, timerfd, usertimer>>
      /\ left' = [left EXCEPT ![usertimer[fd]] = IdleSlots]
      /\ Handle(<<fd, "in">>)
      /\ m_workqueue' = m_workqueue \/ m_workqueue' = Append(m_workqueue, fd)
  BY DEF ReadEvent, append, AdjustTimer, kernelVars
<1>2. /\ Reported(fd) /\ ~Reported(fd)' /\ UNCHANGED main /\ batch' \subseteq batch
      /\ \A g \in Fds : g # fd => Reported(g)' = Reported(g)
  BY <1>1, HandledLast DEF CountInv
<1>3. ~Busy(fd) /\ fd \in Open /\ armed[fd] = "off"
  BY <1>2, InUseOwns DEF InUse, ReportedAlone, ArmedAlone
<1>4. m_workqueue \in Seq(Fds)  BY DEF CountInv, TimerInv, TypeOK, PoolTypeOK
<1>5. Open' = Open /\ \A g : InWork(g)' = InWork(g)  BY <1>1 DEF Open, InWork
<1>6. \A g : g # fd => InQueue(g)' = InQueue(g)
  <2> SUFFICES ASSUME NEW g, g # fd PROVE InQueue(g)' = InQueue(g)  OBVIOUS
  <2>1. CASE m_workqueue' = m_workqueue  BY <2>1 DEF InQueue
  <2>2. CASE m_workqueue' = Append(m_workqueue, fd)
    BY <1>4, <2>2 DEF InQueue
  <2> QED  BY <1>1, <2>1, <2>2
<1>7. \A g : g # fd => Busy(g)' = Busy(g)  BY <1>5, <1>6 DEF Busy
<1>8. ArmedAlone' /\ ReportedAlone'
  BY <1>1, <1>2, <1>3, <1>5, <1>7 DEF ArmedAlone, ReportedAlone
<1>9. QueuedOnce'
  <2>1. CASE m_workqueue' = m_workqueue  BY <1>5, <2>1 DEF QueuedOnce
  <2>2. CASE m_workqueue' = Append(m_workqueue, fd)
    <3>1. \A i \in DOMAIN m_workqueue : m_workqueue[i] # fd
      BY <1>3 DEF Busy, InQueue
    <3>2. ~InWork(fd)  BY <1>3 DEF Busy
    <3> QED  BY <1>4, <1>5, <2>2, <3>1, <3>2 DEF QueuedOnce
  <2> QED  BY <1>1, <2>1, <2>2
<1>10. WorkedOnce'  BY <1>1 DEF WorkedOnce
<1>11. BusyOpen'  BY <1>3, <1>5, <1>7 DEF BusyOpen
<1>12. BatchHandled' /\ SlotsSet'  BY <1>1, <1>2, <1>5 DEF BatchHandled, SlotsSet, Handle
<1>13. DueIdle'
  <2> SUFFICES ASSUME NEW c \in timers, left'[c] = 0 PROVE ~Busy(timerfd[c])'
    BY <1>1 DEF DueIdle
  <2>1. /\ left \in [Conns -> 0..IdleSlots] /\ c \in Conns
    BY DEF CountInv, TimerInv, TypeOK, TimerTypeOK
  <2>2. c # usertimer[fd]  BY <1>1, <2>1, ReactorAssumption
  <2>3. timerfd[c] # fd  BY <2>2 DEF CountInv, TimerOwnsConnection
  <2>4. left[c] = 0  BY <1>1, <2>1, <2>2
  <2> QED  BY <1>1, <1>7, <2>3, <2>4 DEF DueIdle
<1> QED  BY <1>8, <1>9, <1>10, <1>11, <1>12, <1>13

\* write() hands the slot back to epoll.
LEMMA WriteOwn ==
  ASSUME OwnInv, NEW fd \in Fds, WriteNothing(fd) \/ WriteStalls(fd) \/ WriteKeeps(fd)
  PROVE  Exclusive'
<1> USE DEF OwnInv, Exclusive
<1>1. /\ UNCHANGED <<sock, m_sockfd, m_workqueue, pc, job, timers, timerfd>>
      /\ left' = [left EXCEPT ![usertimer[fd]] = IdleSlots]
      /\ Handle(<<fd, "out">>)
      /\ \E ev \in {"in", "out"} : modfd(fd, ev)
  BY DEF WriteNothing, WriteStalls, WriteKeeps, AdjustTimer, poolVars, connVars
<1>2. /\ Reported(fd) /\ ~Reported(fd)' /\ UNCHANGED main /\ batch' \subseteq batch
      /\ \A g \in Fds : g # fd => Reported(g)' = Reported(g)
  BY <1>1, HandledLast DEF CountInv
<1>3. ~Busy(fd) /\ fd \in Open
  BY <1>2, InUseOwns DEF InUse, ReportedAlone
<1>4. /\ \A g : Busy(g)' = Busy(g)
      /\ QueuedOnce' /\ WorkedOnce' /\ Open' = Open
  BY <1>1, SameBusy DEF Open
<1>5. \A g \in Fds : g # fd => armed'[g] = armed[g]
  BY <1>1 DEF modfd
<1>6. ArmedAlone' /\ ReportedAlone'
  BY <1>2, <1>3, <1>4, <1>5 DEF ArmedAlone, ReportedAlone
<1>7. BusyOpen' /\ BatchHandled' /\ SlotsSet'
  BY <1>1, <1>2, <1>4 DEF BusyOpen, BatchHandled, SlotsSet, Handle
<1>8. DueIdle'
  <2> SUFFICES ASSUME NEW c \in timers, left'[c] = 0 PROVE ~Busy(timerfd[c])
    BY <1>1, <1>4 DEF DueIdle
  <2>1. /\ left \in [Conns -> 0..IdleSlots] /\ c \in Conns
    BY DEF CountInv, TimerInv, TypeOK, TimerTypeOK
  <2>2. left[c] = 0  BY <1>1, <2>1, ReactorAssumption
  <2> QED  BY <2>2 DEF DueIdle
<1> QED  BY <1>4, <1>6, <1>7, <1>8

\* Time passes: a timer becomes due only while nobody works for its connection.
LEMMA TimeSlotOwn == Quick /\ OwnInv /\ TimeSlot => Exclusive'
<1> SUFFICES ASSUME Quick, OwnInv, TimeSlot PROVE Exclusive'  OBVIOUS
<1> USE DEF OwnInv, Exclusive
<1>1. UNCHANGED <<sock, armed, m_sockfd, m_workqueue, pc, job, batch, main, timers, timerfd>>
  BY DEF TimeSlot, kernelVars, connVars, poolVars
<1>2. /\ \A g : Busy(g)' = Busy(g)
      /\ QueuedOnce' /\ WorkedOnce' /\ Open' = Open
  BY <1>1, SameBusy DEF Open
<1>3. \A g : Reported(g)' = Reported(g)  BY <1>1 DEF Reported
<1>4. DueIdle'
  <2> SUFFICES ASSUME NEW c \in timers, left'[c] = 0 PROVE ~Busy(timerfd[c])
    BY <1>1, <1>2 DEF DueIdle
  <2>1. c \in Conns /\ left[c] \in 0..IdleSlots
    BY DEF CountInv, TimerInv, TypeOK, TimerTypeOK
  <2>2. left'[c] = IF left[c] > 0 THEN left[c] - 1 ELSE left[c]
    BY <2>1 DEF TimeSlot
  <2>3. left[c] = 0 \/ left[c] = 1  BY <2>1, <2>2, ReactorAssumption
  <2>4. CASE left[c] = 0  BY <2>4 DEF DueIdle
  <2>5. CASE left[c] = 1
    <3>1. Queued(timerfd[c]) = {} /\ Working(timerfd[c]) = {}
      BY <2>5 DEF TimeSlot, Quick
    <3> QED  BY <3>1 DEF Queued, Working, Busy, InQueue, InWork
  <2> QED  BY <2>3, <2>4, <2>5
<1> QED
  BY <1>1, <1>2, <1>3, <1>4 DEF ArmedAlone, ReportedAlone, BusyOpen, BatchHandled, SlotsSet

\* The actions that leave all owners alone.
LEMMA OthersOwn ==
  ASSUME OwnInv,
         \/ Client \/ EndOfEvents \/ Signal \/ AcceptFails
         \/ Refuse \/ Spin \/ (\E fd \in Fds : WriteSpins(fd)) \/ UNCHANGED vars
  PROVE  Exclusive'
<1> USE DEF OwnInv, Exclusive
<1>1. UNCHANGED <<sock, armed, m_sockfd, m_workqueue, pc, job, timers, timerfd, left>>
  BY DEF Client, Connect, ClientSend, ClientClose, EndOfEvents, Signal, AcceptFails, Refuse,
    Spin, WriteSpins, Handle, kernelVars, timerVars, connVars, poolVars, vars
<1>20. /\ batch' \subseteq batch /\ (main' = "wait" => main = "wait" \/ batch' = {})
       /\ \A e \in batch : e \in batch' \/ e = <<listenfd, "in">> \/ e = <<pipefd, "in">>
  BY ReactorAssumption DEF Client, Connect, ClientSend, ClientClose, EndOfEvents, Signal,
    AcceptFails, Refuse, Spin, WriteSpins, Handle, mainVars, vars, listenfd, pipefd
<1>2. \A g \in Fds, k \in {"in", "out", "hup"} : <<g, k>> \in batch' <=> <<g, k>> \in batch
  BY <1>20, ReactorAssumption DEF listenfd, pipefd
<1>3. /\ \A g : Busy(g)' = Busy(g)
      /\ QueuedOnce' /\ WorkedOnce' /\ Open' = Open
  BY <1>1, SameBusy DEF Open
<1>4. \A g \in Fds : Reported(g)' = Reported(g)  BY <1>2 DEF Reported
<1> QED
  BY <1>1, <1>20, <1>3, <1>4 DEF ArmedAlone, ReportedAlone, BusyOpen, BatchHandled, SlotsSet,
    DueIdle

-----------------------------------------------------------------------------
(* Actions of the workers *)

LEMMA WorkerFrame ==
  ASSUME NEW w \in Workers, Worker(w)
  PROVE  /\ UNCHANGED <<main, batch, timers, timerfd, left, usertimer>>
         /\ \A g : Reported(g)' = Reported(g)
BY DEF Worker, Take, ParseMore, Parse, FillFile, FillError, FillEmpty, Remove, Unset, Load,
  Store, RearmIn, RearmOut, Rearm, Goto, mainVars, timerVars, Reported

\* The slot at the front of the queue goes to w.
LEMMA TakeMoves ==
  ASSUME OwnInv, NEW w \in Workers, Take(w), NEW fd, fd = Head(m_workqueue)
  PROVE  /\ \A g : InQueue(g)' <=> InQueue(g) /\ g # fd
         /\ \A g : InWork(g)' <=> InWork(g) \/ g = fd
         /\ \A g : Busy(g)' <=> Busy(g)
         /\ fd \in Fds /\ ~InWork(fd)
         /\ \A i, j \in DOMAIN m_workqueue' : m_workqueue'[i] = m_workqueue'[j] => i = j
<1> USE DEF OwnInv, Exclusive
<1>2. /\ m_workqueue # <<>> /\ m_workqueue' = Tail(m_workqueue)
      /\ pc[w] = "idle" /\ pc' = [pc EXCEPT ![w] = "parse"]
      /\ job' = [job EXCEPT ![w] = fd]
  BY DEF Take, Goto
<1>3. /\ m_workqueue \in Seq(Fds) /\ pc \in [Workers -> Points]
      /\ job \in [Workers -> Fds \cup {0}]
  BY DEF CountInv, TimerInv, TypeOK, PoolTypeOK
<1>4. /\ Len(m_workqueue) \in Nat /\ Len(m_workqueue) > 0
      /\ m_workqueue[1] = fd /\ fd \in Fds
      /\ Len(m_workqueue') = Len(m_workqueue) - 1
      /\ DOMAIN m_workqueue = 1..Len(m_workqueue)
      /\ DOMAIN m_workqueue' = 1..Len(m_workqueue) - 1
      /\ \A i \in 1..Len(m_workqueue) - 1 : m_workqueue'[i] = m_workqueue[i+1]
  BY <1>2, <1>3
<1>5. \A g : InQueue(g)' <=> InQueue(g) /\ g # fd
  <2> SUFFICES ASSUME NEW g PROVE InQueue(g)' <=> InQueue(g) /\ g # fd  OBVIOUS
  <2>1. ASSUME NEW i \in DOMAIN m_workqueue', m_workqueue'[i] = g
        PROVE  InQueue(g) /\ g # fd
    <3>1. i+1 \in DOMAIN m_workqueue /\ m_workqueue[i+1] = g /\ 1 \in DOMAIN m_workqueue
          /\ i+1 # 1
      BY <1>4, <2>1
    <3>2. g # fd  BY <1>4, <3>1 DEF QueuedOnce
    <3> QED  BY <3>1, <3>2 DEF InQueue
  <2>2. ASSUME NEW i \in DOMAIN m_workqueue, m_workqueue[i] = g, g # fd
        PROVE  InQueue(g)'
    <3>1. i # 1  BY <1>4, <2>2
    <3>2. i-1 \in DOMAIN m_workqueue' /\ m_workqueue'[i-1] = g
      BY <1>4, <2>2, <3>1
    <3> QED  BY <3>2 DEF InQueue
  <2> QED  BY <2>1, <2>2 DEF InQueue
<1>6. \A g : InWork(g)' <=> InWork(g) \/ g = fd
  BY <1>2, <1>3 DEF InWork
<1>7. \A g : Busy(g)' <=> Busy(g)
  <2>1. InQueue(fd)  BY <1>4 DEF InQueue
  <2> QED  BY <1>5, <1>6, <2>1 DEF Busy
<1>8. ~InWork(fd)  BY <1>4 DEF QueuedOnce
<1>9. ASSUME NEW i \in DOMAIN m_workqueue', NEW j \in DOMAIN m_workqueue',
             m_workqueue'[i] = m_workqueue'[j]
      PROVE  i = j
  <2>1. i+1 \in DOMAIN m_workqueue /\ j+1 \in DOMAIN m_workqueue
        /\ m_workqueue[i+1] = m_workqueue[j+1]
    BY <1>4, <1>9
  <2>2. i+1 = j+1  BY <2>1 DEF QueuedOnce
  <2> QED  BY <1>4, <2>2
<1> QED  BY <1>4, <1>5, <1>6, <1>7, <1>8, <1>9

LEMMA TakeOwn ==
  ASSUME OwnInv, NEW w \in Workers, Take(w)
  PROVE  Exclusive'
<1> USE DEF OwnInv, Exclusive
<1> SUFFICES ASSUME NEW fd, fd = Head(m_workqueue) PROVE Exclusive'  OBVIOUS
<1>1. /\ UNCHANGED <<main, batch, timers, timerfd, left>>
      /\ \A g : Reported(g)' = Reported(g)
  BY WorkerFrame DEF Worker
<1>2. /\ pc[w] = "idle" /\ pc' = [pc EXCEPT ![w] = "parse"]
      /\ job' = [job EXCEPT ![w] = fd]
      /\ UNCHANGED <<sock, armed, m_sockfd>>
      /\ pc \in [Workers -> Points] /\ job \in [Workers -> Fds \cup {0}]
  BY DEF Take, Goto, kernelVars, connVars, CountInv, TimerInv, TypeOK, PoolTypeOK
<1>3. /\ \A g : InQueue(g)' <=> InQueue(g) /\ g # fd
      /\ \A g : InWork(g)' <=> InWork(g) \/ g = fd
      /\ \A g : Busy(g)' <=> Busy(g)
      /\ ~InWork(fd)
      /\ \A i, j \in DOMAIN m_workqueue' : m_workqueue'[i] = m_workqueue'[j] => i = j
  BY TakeMoves
<1>4. QueuedOnce'
  <2>1. ASSUME NEW g, InQueue(g)' PROVE ~InWork(g)'
    <3>1. InQueue(g) /\ g # fd  BY <1>3, <2>1
    <3> QED  BY <1>3, <3>1 DEF InQueue, QueuedOnce
  <2> QED  BY <1>3, <2>1 DEF QueuedOnce, InQueue
<1>5. WorkedOnce'  BY <1>2, <1>3 DEF WorkedOnce, InWork
<1>6. Open' = Open  BY <1>2 DEF Open
<1> QED
  BY <1>1, <1>2, <1>3, <1>4, <1>5, <1>6 DEF ArmedAlone, ReportedAlone, BusyOpen,
    BatchHandled, SlotsSet, DueIdle

\* A worker hands its slot back to epoll.
LEMMA RearmMoves ==
  ASSUME OwnInv, NEW w \in Workers, RearmIn(w) \/ RearmOut(w), NEW fd, fd = job[w]
  PROVE  /\ fd \in Open /\ InWork(fd) /\ ~InQueue(fd) /\ ~Reported(fd)
         /\ \A g : InWork(g)' <=> InWork(g) /\ g # fd
         /\ ~Busy(fd)' /\ \A g : g # fd => Busy(g)' = Busy(g)
         /\ armed'[fd] = IF RearmIn(w) THEN "in" ELSE "out"
         /\ \A g \in Fds : g # fd => armed'[g] = armed[g]
<1> USE DEF OwnInv, Exclusive
<1>1. /\ pc[w] # "idle" /\ pc' = [pc EXCEPT ![w] = "idle"] /\ job' = [job EXCEPT ![w] = 0]
      /\ UNCHANGED m_workqueue
  BY DEF RearmIn, RearmOut, Rearm, Goto
<1>2. /\ pc \in [Workers -> Points] /\ job \in [Workers -> Fds \cup {0}] /\ fd \in Fds
  BY <1>1 DEF CountInv, TimerInv, TypeOK, PoolTypeOK, WorkersHaveSlots
<1>3. InWork(fd) /\ ~InQueue(fd)
  <2>1. InWork(fd)  BY <1>1 DEF InWork
  <2> QED  BY <2>1 DEF InQueue, QueuedOnce
<1>4. fd \in Open /\ ~Reported(fd)
  BY <1>2, <1>3 DEF BusyOpen, ReportedAlone, Busy
<1>5. \A g : InWork(g)' <=> InWork(g) /\ g # fd
  BY <1>1, <1>2 DEF InWork, WorkedOnce
<1>6. \A g : InQueue(g)' = InQueue(g)  BY <1>1 DEF InQueue
<1>7. ~Busy(fd)' /\ \A g : g # fd => Busy(g)' = Busy(g)
  BY <1>3, <1>5, <1>6 DEF Busy
<1>8. armed' = [armed EXCEPT ![fd] = IF RearmIn(w) THEN "in" ELSE "out"]
  BY <1>4 DEF RearmIn, RearmOut, Rearm, Goto, modfd, HasSocket, SlotsSet
<1>9. armed \in [Fds -> {"off", "in", "out"}]
  BY DEF CountInv, TimerInv, TypeOK, KernelTypeOK
<1>10. /\ armed'[fd] = IF RearmIn(w) THEN "in" ELSE "out"
       /\ \A g \in Fds : g # fd => armed'[g] = armed[g]
  BY <1>2, <1>8, <1>9
<1> QED  BY <1>3, <1>4, <1>5, <1>7, <1>10

LEMMA RearmOwn ==
  ASSUME OwnInv, NEW w \in Workers, RearmIn(w) \/ RearmOut(w)
  PROVE  Exclusive'
<1> USE DEF OwnInv, Exclusive
<1> SUFFICES ASSUME NEW fd, fd = job[w] PROVE Exclusive'  OBVIOUS
<1>1. /\ UNCHANGED <<main, batch, timers, timerfd, left>>
      /\ \A g : Reported(g)' = Reported(g)
  BY WorkerFrame DEF Worker
<1>2. /\ pc' = [pc EXCEPT ![w] = "idle"] /\ job' = [job EXCEPT ![w] = 0]
      /\ UNCHANGED <<sock, m_sockfd, m_workqueue>>
      /\ pc \in [Workers -> Points] /\ job \in [Workers -> Fds \cup {0}]
  BY DEF RearmIn, RearmOut, Rearm, Goto, connVars, CountInv, TimerInv, TypeOK, PoolTypeOK
<1>3. /\ fd \in Open /\ ~Reported(fd)
      /\ \A g : InWork(g)' <=> InWork(g) /\ g # fd
      /\ ~Busy(fd)' /\ \A g : g # fd => Busy(g)' = Busy(g)
      /\ \A g \in Fds : g # fd => armed'[g] = armed[g]
  BY RearmMoves
<1>4. Open' = Open  BY <1>2 DEF Open
<1>5. ArmedAlone' /\ ReportedAlone'
  BY <1>1, <1>3, <1>4 DEF ArmedAlone, ReportedAlone
<1>6. QueuedOnce' /\ WorkedOnce'
  <2>1. QueuedOnce'
    <3>1. \A g : InWork(g)' => InWork(g)  BY <1>3
    <3> QED  BY <1>2, <3>1 DEF QueuedOnce
  <2>2. WorkedOnce'  BY <1>2 DEF WorkedOnce
  <2> QED  BY <2>1, <2>2
<1>7. BusyOpen' /\ BatchHandled' /\ SlotsSet' /\ DueIdle'
  BY <1>1, <1>2, <1>3, <1>4 DEF BusyOpen, BatchHandled, SlotsSet, DueIdle
<1> QED  BY <1>5, <1>6, <1>7

LEMMA ProcessBusy ==
  ASSUME TypeOK, NEW w \in Workers,
         ParseMore(w) \/ Parse(w) \/ FillFile(w) \/ FillError(w)
  PROVE  /\ \A v \in Workers : pc'[v] # "idle" <=> pc[v] # "idle"
         /\ \A g : InWork(g)' = InWork(g) /\ InQueue(g)' = InQueue(g) /\ Busy(g)' = Busy(g)
<1>1. PICK to \in Points \ {"idle"} :
        /\ pc[w] # "idle" /\ pc' = [pc EXCEPT ![w] = to]
        /\ UNCHANGED <<job, m_workqueue>>
  BY DEF ParseMore, Parse, FillFile, FillError, Goto, Points
<1>2. \A v \in Workers : pc'[v] # "idle" <=> pc[v] # "idle"
  BY <1>1 DEF TypeOK, PoolTypeOK
<1>3. \A g : InWork(g)' = InWork(g) /\ InQueue(g)' = InQueue(g)
  BY <1>1, <1>2 DEF InWork, InQueue
<1> QED  BY <1>2, <1>3 DEF Busy

LEMMA ProcessOwn ==
  ASSUME "empty" \notin Replies, OwnInv, NEW w \in Workers,
         ParseMore(w) \/ Parse(w) \/ FillFile(w) \/ FillError(w)
  PROVE  Exclusive'
<1> USE DEF OwnInv, Exclusive
<1>1. /\ UNCHANGED <<main, batch, timers, timerfd, left>>
      /\ \A g : Reported(g)' = Reported(g)
  BY WorkerFrame DEF Worker
<1>2. UNCHANGED <<job, m_workqueue, sock, armed, m_sockfd>>
  BY DEF ParseMore, Parse, FillFile, FillError, Goto, kernelVars
<1>3. /\ \A v \in Workers : pc'[v] # "idle" <=> pc[v] # "idle"
      /\ \A g : InWork(g)' = InWork(g) /\ InQueue(g)' = InQueue(g) /\ Busy(g)' = Busy(g)
  BY ProcessBusy DEF CountInv, TimerInv
<1>4. Open' = Open  BY <1>2 DEF Open
<1> QED
  BY <1>1, <1>2, <1>3, <1>4 DEF ArmedAlone, ReportedAlone, QueuedOnce, WorkedOnce,
    BusyOpen, BatchHandled, SlotsSet, DueIdle

LEMMA WorkerOwn ==
  ASSUME "empty" \notin Replies, OwnInv, NEW w \in Workers, Worker(w)
  PROVE  Take(w) \/ RearmIn(w) \/ RearmOut(w)
           \/ ParseMore(w) \/ Parse(w) \/ FillFile(w) \/ FillError(w)
BY DEF OwnInv, CountInv, NoWorkerCloses, Worker, FillEmpty, Remove, Unset, Load, Store, Goto

LEMMA OwnStep ==
  ASSUME Quick, OwnInv, [Next]_vars
  PROVE  OwnInv'
<1>1. CountInv'  BY CountStep DEF Quick, OwnInv
<1>2. CASE \E w \in Workers : Worker(w)
  BY <1>1, <1>2, WorkerOwn, TakeOwn, RearmOwn, ProcessOwn DEF Quick, OwnInv
<1>3. CASE \E fd \in Fds : \/ HangUp(fd) \/ ReadFails(fd) \/ WriteCloses(fd) \/ WriteFails(fd)
                           \/ ReadEvent(fd)
                           \/ WriteNothing(fd) \/ WriteStalls(fd) \/ WriteKeeps(fd)
  BY <1>1, <1>3, CloseOwn, ReadEventOwn, WriteOwn DEF OwnInv
<1>4. CASE EpollWait \/ Accept \/ TimerHandler \/ TimeSlot
  BY <1>1, <1>4, EpollWaitOwn, AcceptOwn, TimerHandlerOwn, TimeSlotOwn DEF OwnInv
<1>5. CASE \/ Client \/ EndOfEvents \/ Signal \/ AcceptFails
           \/ Refuse \/ Spin \/ (\E fd \in Fds : WriteSpins(fd)) \/ UNCHANGED vars
  BY <1>1, <1>5, OthersOwn DEF OwnInv
<1> QED  BY <1>2, <1>3, <1>4, <1>5 DEF Next, Main

-----------------------------------------------------------------------------
(* Nobody loses a slot but append(): an open connection is without an owner  *)
(* exactly when append() has refused its slot.                               *)

HasOwner(fd) == armed[fd] # "off" \/ Reported(fd) \/ Busy(fd)
Owned ==
  /\ dropped \subseteq 1..accepted
  /\ \A fd \in Open : HasOwner(fd) <=> sock[fd] \notin dropped

\* A step that neither accepts nor drops keeps Owned if it keeps the owners of the
\* connections that stay open.
LEMMA OwnedFrame ==
  ASSUME Owned, UNCHANGED <<accepted, dropped>>,
         \A fd \in Open' :
           fd \in Open /\ sock'[fd] = sock[fd] /\ (HasOwner(fd)' <=> HasOwner(fd))
  PROVE  Owned'
BY DEF Owned

LEMMA EpollWaitOwned == OwnInv /\ Owned /\ EpollWait => Owned'
<1> SUFFICES ASSUME OwnInv, Owned, EpollWait, NEW fd \in Open'
             PROVE  fd \in Open /\ sock'[fd] = sock[fd] /\ (HasOwner(fd)' <=> HasOwner(fd))
  BY OwnedFrame DEF EpollWait, poolVars
<1>1. PICK B : batch' = B /\ armed' = OneShot(B)
               /\ \E writable \in SUBSET {g \in Open : armed[g] = "out"} : B = Ready(writable)
  BY DEF EpollWait
<1>2. /\ fd \in Open /\ fd \in Fds /\ sock'[fd] = sock[fd]
      /\ UNCHANGED <<m_workqueue, pc, job>>
  BY DEF EpollWait, Open, poolVars
<1>3. Busy(fd)' = Busy(fd)  BY <1>2, SameBusy
<1>4. ~Reported(fd)  BY DEF EpollWait, OwnInv, Exclusive, BatchHandled, Reported
<1>5. ASSUME NEW e \in B, e[1] = fd PROVE Reported(fd)' /\ armed[fd] # "off"
  <2>1. e # <<listenfd, "in">> /\ e # <<pipefd, "in">>
    BY <1>2, <1>5, ReactorAssumption DEF listenfd, pipefd
  <2>2. e \in {<<fd, "in">>, <<fd, "out">>, <<fd, "hup">>} /\ armed[fd] # "off"
    BY <1>1, <1>5, <2>1 DEF Ready, HangUps
  <2> QED  BY <1>1, <1>5, <2>2 DEF Reported
<1>6. Reported(fd)' => \E e \in B : e[1] = fd  BY <1>1 DEF Reported
<1>7. armed'[fd] = IF \E e \in B : e[1] = fd THEN "off" ELSE armed[fd]
  BY <1>1, <1>2 DEF OneShot
<1> QED  BY <1>2, <1>3, <1>4, <1>5, <1>6, <1>7 DEF HasOwner

\* A new connection is none of those dropped so far.
LEMMA AcceptOwned == OwnInv /\ Owned /\ Accept => Owned'
<1> SUFFICES ASSUME OwnInv, Owned, Accept PROVE Owned'  OBVIOUS
<1>1. PICK f \in Fds \ Open :
        /\ accepted' = accepted + 1
        /\ sock' = [sock EXCEPT ![f] = accepted + 1]
        /\ armed' = [armed EXCEPT ![f] = "in"]
  BY DEF Accept
<1>2. /\ armed \in [Fds -> {"off", "in", "out"}] /\ sock \in [Fds -> 0..MaxConns]
      /\ accepted \in Nat
  BY ReactorAssumption
  DEF Open, OwnInv, CountInv, TimerInv, TypeOK, KernelTypeOK, ClientTypeOK
<1>3. dropped' = dropped /\ dropped \subseteq 1..accepted
  BY DEF Accept, poolVars, Owned
<1>4. dropped' \subseteq 1..accepted'  BY <1>1, <1>2, <1>3
<1>5. ASSUME NEW fd \in Open' PROVE HasOwner(fd)' <=> sock'[fd] \notin dropped'
  <2>1. fd \in Fds  BY DEF Open
  <2>2. Busy(fd)' = Busy(fd)  BY SameBusy DEF Accept, poolVars
  <2>3. Reported(fd)' = Reported(fd)
    BY <2>1, ReactorAssumption DEF Accept, Handle, Reported, listenfd
  <2>4. CASE fd = f
    <3>1. sock'[fd] \notin dropped'  BY <1>1, <1>2, <1>3, <2>1, <2>4
    <3> QED  BY <1>1, <1>2, <2>1, <2>4, <3>1 DEF HasOwner
  <2>5. CASE fd # f
    <3>1. fd \in Open /\ sock'[fd] = sock[fd] /\ armed'[fd] = armed[fd]
      BY <1>1, <1>2, <2>1, <2>5 DEF Open
    <3> QED  BY <1>3, <2>2, <2>3, <3>1 DEF Owned, HasOwner
  <2> QED  BY <2>4, <2>5
<1> QED  BY <1>4, <1>5 DEF Owned

LEMMA CloseOwned ==
  ASSUME OwnInv, Owned, NEW fd \in Fds,
         HangUp(fd) \/ ReadFails(fd) \/ WriteCloses(fd) \/ WriteFails(fd)
  PROVE  Owned'
<1> PICK k \in {"in", "out", "hup"} : Handle(<<fd, k>>)
  BY DEF HangUp, ReadFails, WriteCloses, WriteFails
<1>1. cb_func({fd}, 1) /\ UNCHANGED <<m_workqueue, pc, job, accepted, dropped>>
  BY DEF HangUp, ReadFails, WriteCloses, WriteFails, CloseConnection, poolVars
<1> SUFFICES ASSUME NEW g \in Open'
             PROVE  g \in Open /\ sock'[g] = sock[g] /\ (HasOwner(g)' <=> HasOwner(g))
  BY <1>1, OwnedFrame
<1>2. g \in Fds /\ g # fd /\ g \in Open /\ armed'[g] = armed[g] /\ sock'[g] = sock[g]
  BY <1>1 DEF cb_func, Unregister, Open
<1>3. Busy(g)' = Busy(g)  BY <1>1, SameBusy
<1>4. Reported(g)' = Reported(g)  BY <1>2, HandledLast DEF OwnInv, CountInv
<1> QED  BY <1>2, <1>3, <1>4 DEF HasOwner

LEMMA TimerHandlerOwned == OwnInv /\ Owned /\ TimerHandler => Owned'
<1> SUFFICES ASSUME OwnInv, Owned, TimerHandler PROVE Owned'  OBVIOUS
<1> DEFINE closed == {timerfd[c] : c \in Expired}
<1>1. /\ cb_func(closed, Cardinality(Expired))
      /\ UNCHANGED <<m_workqueue, pc, job, batch, accepted, dropped>>
  BY DEF TimerHandler, tick, poolVars
<1> HIDE DEF closed
<1> SUFFICES ASSUME NEW g \in Open'
             PROVE  g \in Open /\ sock'[g] = sock[g] /\ (HasOwner(g)' <=> HasOwner(g))
  BY <1>1, OwnedFrame
<1>2. g \in Fds /\ g \notin closed /\ g \in Open /\ armed'[g] = armed[g] /\ sock'[g] = sock[g]
  BY <1>1 DEF cb_func, Unregister, Open
<1>3. Busy(g)' = Busy(g) /\ Reported(g)' = Reported(g)  BY <1>1, SameBusy DEF Reported
<1> QED  BY <1>2, <1>3 DEF HasOwner

\* The slot that was reported goes into the queue; or its connection, which no other
\* descriptor has, is dropped.
LEMMA ReadEventOwned ==
  ASSUME OwnInv, Owned, NEW fd \in Fds, ReadEvent(fd)
  PROVE  Owned'
<1>1. Handle(<<fd, "in">>) /\ UNCHANGED <<sock, armed, pc, job, accepted>> /\ append(fd)
  BY DEF ReadEvent, kernelVars
<1>2. /\ Reported(fd) /\ ~Reported(fd)'
      /\ \A g \in Fds : g # fd => Reported(g)' = Reported(g)
  BY <1>1, HandledLast DEF OwnInv, CountInv
<1>3. ~Busy(fd) /\ armed[fd] = "off"
  BY <1>2 DEF OwnInv, Exclusive, ReportedAlone, ArmedAlone
<1>4. fd \in Open /\ sock[fd] \in timers
  BY <1>2, InUseOwns DEF OwnInv, InUse
<1>5. sock[fd] \notin dropped /\ dropped \subseteq 1..accepted
  BY <1>2, <1>4 DEF Owned, HasOwner
<1>6. Open' = Open /\ \A g : InWork(g)' = InWork(g)  BY <1>1 DEF Open, InWork
<1>7. CASE queueFull
  <2>1. dropped' = dropped \cup {sock[fd]} /\ UNCHANGED m_workqueue
    BY <1>1, <1>7 DEF append
  <2>2. dropped' \subseteq 1..accepted'
    BY <1>1, <1>4, <1>5, <2>1 DEF OwnInv, CountInv, TimerInv, TimersAccepted
  <2>3. \A g : Busy(g)' = Busy(g)  BY <1>6, <2>1 DEF Busy, InQueue
  <2>4. ASSUME NEW g \in Open, g # fd PROVE sock[g] # sock[fd]
    <3>1. g \in Fds /\ InUse(g) /\ InUse(fd)  BY <1>4 DEF Open, InUse
    <3> QED  BY <2>4, <3>1, InUseOwns DEF OwnInv
  <2>5. ASSUME NEW g \in Open, g # fd
        PROVE  HasOwner(g)' <=> sock'[g] \notin dropped'
    <3>1. g \in Fds  BY DEF Open
    <3>2. HasOwner(g)' <=> HasOwner(g)
      BY <1>1, <1>2, <2>3, <2>5, <3>1 DEF HasOwner
    <3> QED  BY <1>1, <2>1, <2>4, <2>5, <3>2 DEF Owned
  <2>6. ~HasOwner(fd)'  BY <1>1, <1>2, <1>3, <2>3 DEF HasOwner
  <2> QED  BY <1>1, <1>6, <2>1, <2>2, <2>5, <2>6 DEF Owned
<1>8. CASE ~queueFull
  <2>1. UNCHANGED dropped /\ m_workqueue' = Append(m_workqueue, fd)
    BY <1>1, <1>8 DEF append
  <2>2. m_workqueue \in Seq(Fds)
    BY DEF OwnInv, CountInv, TimerInv, TypeOK, PoolTypeOK
  <2>3. \A g : InQueue(g)' <=> InQueue(g) \/ g = fd
    BY <2>1, <2>2 DEF InQueue
  <2>4. HasOwner(fd) /\ HasOwner(fd)'
    BY <1>2, <2>3 DEF HasOwner, Busy
  <2>5. ASSUME NEW g \in Open, g # fd PROVE HasOwner(g)' <=> HasOwner(g)
    <3>1. g \in Fds  BY DEF Open
    <3>2. Busy(g)' <=> Busy(g)  BY <1>6, <2>3, <2>5 DEF Busy
    <3> QED  BY <1>1, <1>2, <2>5, <3>1, <3>2 DEF HasOwner
  <2>6. \A g \in Open : HasOwner(g)' <=> HasOwner(g)  BY <2>4, <2>5
  <2> QED  BY <1>1, <1>6, <2>1, <2>6, OwnedFrame
<1> QED  BY <1>7, <1>8

LEMMA WriteOwned ==
  ASSUME OwnInv, Owned, NEW fd \in Fds, WriteNothing(fd) \/ WriteStalls(fd) \/ WriteKeeps(fd)
  PROVE  Owned'
<1>1. /\ UNCHANGED <<sock, m_workqueue, pc, job, accepted, dropped>> /\ Handle(<<fd, "out">>)
      /\ \E ev \in {"in", "out"} : modfd(fd, ev)
  BY DEF WriteNothing, WriteStalls, WriteKeeps, poolVars
<1> SUFFICES ASSUME NEW g \in Open'
             PROVE  g \in Open /\ sock'[g] = sock[g] /\ (HasOwner(g)' <=> HasOwner(g))
  BY <1>1, OwnedFrame
<1>2. /\ g \in Open /\ g \in Fds /\ sock'[g] = sock[g]
      /\ armed \in [Fds -> {"off", "in", "out"}]
  BY <1>1 DEF Open, OwnInv, CountInv, TimerInv, TypeOK, KernelTypeOK
<1>3. Busy(g)' = Busy(g)  BY <1>1, SameBusy
<1>4. CASE g = fd
  <2>1. HasOwner(g)  BY <1>1, <1>4, HandledLast DEF HasOwner, OwnInv, CountInv
  <2>2. HasOwner(g)'
    BY <1>1, <1>2, <1>4 DEF modfd, HasSocket, OwnInv, Exclusive, SlotsSet, HasOwner
  <2> QED  BY <1>2, <2>1, <2>2
<1>5. CASE g # fd
  <2>1. Reported(g)' = Reported(g)  BY <1>1, <1>2, <1>5, HandledLast DEF OwnInv, CountInv
  <2>2. armed'[g] = armed[g]  BY <1>1, <1>2, <1>5 DEF modfd
  <2> QED  BY <1>2, <1>3, <2>1, <2>2 DEF HasOwner
<1> QED  BY <1>4, <1>5

LEMMA WorkerOwned ==
  ASSUME "empty" \notin Replies, OwnInv, Owned, NEW w \in Workers, Worker(w)
  PROVE  Owned'
<1>1. \A h : Reported(h)' = Reported(h)  BY WorkerFrame
<1>2. UNCHANGED <<sock, accepted, dropped>>
  BY WorkerOwn DEF Take, RearmIn, RearmOut, Rearm, ParseMore, Parse, FillFile, FillError,
    Goto, kernelVars
<1> SUFFICES ASSUME NEW g \in Open' PROVE HasOwner(g)' <=> HasOwner(g)
  BY <1>2, OwnedFrame DEF Open
<1>3. g \in Fds  BY DEF Open
<1>4. CASE Take(w)
  <2>1. Busy(g)' <=> Busy(g)  BY <1>4, TakeMoves
  <2> QED  BY <1>1, <1>4, <2>1 DEF HasOwner, Take, kernelVars
<1>5. CASE RearmIn(w) \/ RearmOut(w)
  <2>1. /\ armed'[job[w]] # "off" /\ Busy(job[w])
        /\ g # job[w] => Busy(g)' = Busy(g) /\ armed'[g] = armed[g]
    BY <1>3, <1>5, RearmMoves DEF Busy
  <2> QED  BY <1>1, <2>1 DEF HasOwner
<1>6. CASE ParseMore(w) \/ Parse(w) \/ FillFile(w) \/ FillError(w)
  <2>1. Busy(g)' = Busy(g)
    BY <1>6, ProcessBusy DEF OwnInv, CountInv, TimerInv
  <2> QED
    BY <1>1, <1>6, <2>1 DEF HasOwner, ParseMore, Parse, FillFile, FillError, kernelVars
<1> QED  BY <1>4, <1>5, <1>6, WorkerOwn

LEMMA OthersOwned ==
  ASSUME OwnInv, Owned,
         \/ Client \/ TimeSlot \/ EndOfEvents \/ Signal \/ AcceptFails
         \/ Refuse \/ Spin \/ (\E fd \in Fds : WriteSpins(fd)) \/ UNCHANGED vars
  PROVE  Owned'
<1>1. /\ UNCHANGED <<sock, armed, m_workqueue, pc, job, dropped>>
      /\ accepted' \in {accepted, accepted + 1}
  BY DEF Client, Connect, ClientSend, ClientClose, TimeSlot, EndOfEvents, Signal, AcceptFails,
    Refuse, Spin, WriteSpins, kernelVars, poolVars, vars
<1>2. /\ batch' \subseteq batch
      /\ \A e \in batch : e \in batch' \/ e = <<listenfd, "in">> \/ e = <<pipefd, "in">>
  BY DEF Client, Connect, ClientSend, ClientClose, TimeSlot, EndOfEvents, Signal,
    AcceptFails, Refuse, Spin, WriteSpins, Handle, mainVars, vars
<1>3. \A g \in Fds : Reported(g)' = Reported(g)
  BY <1>2, ReactorAssumption DEF Reported, listenfd, pipefd
<1>4. \A g : Busy(g)' = Busy(g)  BY <1>1, SameBusy
<1>5. dropped' \subseteq 1..accepted'
  <2>1. accepted \in Nat
    BY ReactorAssumption DEF OwnInv, CountInv, TimerInv, TypeOK, ClientTypeOK
  <2> QED  BY <1>1, <2>1 DEF Owned
<1>6. \A g \in Open' : g \in Open /\ g \in Fds /\ (HasOwner(g)' <=> HasOwner(g))
  BY <1>1, <1>3, <1>4 DEF Open, HasOwner
<1> QED  BY <1>1, <1>5, <1>6 DEF Owned

LEMMA OwnedStep ==
  ASSUME "empty" \notin Replies, OwnInv, Owned, [Next]_vars
  PROVE  Owned'
<1>1. CASE \E w \in Workers : Worker(w)  BY <1>1, WorkerOwned
<1>2. CASE \E fd \in Fds : \/ HangUp(fd) \/ ReadFails(fd) \/ WriteCloses(fd) \/ WriteFails(fd)
                           \/ ReadEvent(fd)
                           \/ WriteNothing(fd) \/ WriteStalls(fd) \/ WriteKeeps(fd)
  BY <1>2, CloseOwned, ReadEventOwned, WriteOwned
<1>3. CASE EpollWait \/ Accept \/ TimerHandler
  BY <1>3, EpollWaitOwned, AcceptOwned, TimerHandlerOwned
<1>4. CASE \/ Client \/ TimeSlot \/ EndOfEvents \/ Signal \/ AcceptFails
           \/ Refuse \/ Spin \/ (\E fd \in Fds : WriteSpins(fd)) \/ UNCHANGED vars
  BY <1>4, OthersOwned
<1> QED  BY <1>1, <1>2, <1>3, <1>4 DEF Next, Main

LEMMA AtMostOne ==
  ASSUME NEW S, \A x, y \in S : x = y
  PROVE  Cardinality(S) = IF S = {} THEN 0 ELSE 1
<1>1. CASE S = {}  BY <1>1, FS_EmptySet
<1>2. CASE S # {}
  <2>1. PICK x : S = {x}  BY <1>2
  <2> QED  BY <1>2, <2>1, FS_Singleton
<1> QED  BY <1>1, <1>2

LEMMA OwnersCounted == OwnInv /\ Owned => OneOwner
<1> SUFFICES ASSUME OwnInv, Owned, NEW fd \in Fds
             PROVE  Owners(fd) = IF sock[fd] \in {NoConn} \cup dropped THEN 0 ELSE 1
  BY DEF OneOwner
<1> USE DEF OwnInv, Exclusive
<1> DEFINE E == {e \in batch : e[1] = fd}
<1>1. Cardinality(E) = IF Reported(fd) THEN 1 ELSE 0
  <2>1. \A d, e \in E : d = e  BY DEF CountInv, TimerInv, OneEvent
  <2>2. E # {} <=> Reported(fd)
    <3>1. batch \subseteq Events  BY DEF CountInv, TimerInv, TypeOK, MainTypeOK
    <3>2. ASSUME NEW e \in E PROVE Reported(fd)
      <4>1. e = <<fd, "in">> \/ e = <<fd, "out">> \/ e = <<fd, "hup">>
        BY <3>1 DEF Events
      <4> QED  BY <4>1 DEF Reported
    <3>3. Reported(fd) => E # {}  BY DEF Reported
    <3> QED  BY <3>2, <3>3
  <2> HIDE DEF E
  <2> QED  BY <2>1, <2>2, AtMostOne
<1>2. Cardinality(Queued(fd)) = IF InQueue(fd) THEN 1 ELSE 0
  <2>1. \A i, j \in Queued(fd) : i = j  BY DEF Queued, QueuedOnce
  <2>2. Queued(fd) # {} <=> InQueue(fd)  BY DEF Queued, InQueue
  <2> QED  BY <2>1, <2>2, AtMostOne
<1>3. Cardinality(Working(fd)) = IF InWork(fd) THEN 1 ELSE 0
  <2>1. \A v, w \in Working(fd) : v = w  BY DEF Working, WorkedOnce
  <2>2. Working(fd) # {} <=> InWork(fd)  BY DEF Working, InWork
  <2> QED  BY <2>1, <2>2, AtMostOne
<1> HIDE DEF E
<1>4. fd \notin Open => armed[fd] = "off" /\ ~Reported(fd) /\ ~InQueue(fd) /\ ~InWork(fd)
  BY InUseOwns DEF InUse, BusyOpen, Busy
<1>5. InQueue(fd) => ~InWork(fd)  BY DEF QueuedOnce, InQueue
<1>6. Reported(fd) => armed[fd] = "off" /\ ~InQueue(fd) /\ ~InWork(fd)
  BY DEF ReportedAlone, ArmedAlone, Busy
<1>7. armed[fd] # "off" => ~InQueue(fd) /\ ~InWork(fd)  BY DEF ArmedAlone, Busy
<1>8. fd \in Open =>
        (sock[fd] \notin dropped
           <=> armed[fd] # "off" \/ Reported(fd) \/ InQueue(fd) \/ InWork(fd))
  BY DEF Owned, HasOwner, Busy
<1>10. fd \in Open <=> sock[fd] # NoConn  BY DEF Open
<1>9. Owners(fd) = Cardinality(E) + Cardinality(Queued(fd)) + Cardinality(Working(fd))
                     + (IF armed[fd] = "off" THEN 0 ELSE 1)
  BY DEF Owners, E
<1> QED  BY <1>1, <1>2, <1>3, <1>4, <1>5, <1>6, <1>7, <1>8, <1>9, <1>10

-----------------------------------------------------------------------------
(* What is sent to a connection answers its own request. *)

Writable(fd) == armed[fd] = "out" \/ <<fd, "out">> \in batch

\* The parts: the slot of an open connection holds the bytes of that connection, a
\* worker's request and the response it made belong to the connection it has, and so
\* does the response in a slot that waits for its socket.
ReadsOwn == \A fd \in Open : m_read_buf[fd] \in {NoConn, sock[fd]}
ParsesOwn == \A w \in Workers : pc[w] = "fill" => req[w] = sock[job[w]]
AnswersOwn == \A w \in Workers : pc[w] = "rearmOut" => m_iv[job[w]] = sock[job[w]]
SendsOwn == \A fd \in Open : Writable(fd) => m_iv[fd] = sock[fd]
AnswerInv == ReadsOwn /\ ParsesOwn /\ AnswersOwn /\ SendsOwn

\* The slot of a worker that is not idle is that of an open connection.
LEMMA WorkersSlot ==
  ASSUME OwnInv, NEW w \in Workers, pc[w] # "idle"
  PROVE  job[w] \in Open /\ job[w] \in Fds /\ Busy(job[w])
<1>1. job[w] \in Fds
  BY DEF OwnInv, CountInv, TimerInv, TypeOK, PoolTypeOK, WorkersHaveSlots
<1>2. Busy(job[w])  BY DEF Busy, InWork
<1> QED  BY <1>1, <1>2 DEF OwnInv, Exclusive, BusyOpen

\* What the actions of the main thread have in common: a descriptor changes hands only
\* while nobody works for it, and its slot is then empty and not to be sent from.
LEMMA MainAnswers ==
  ASSUME OwnInv, AnswerInv, UNCHANGED <<pc, job, req, m_iv>>,
         \A g \in Fds : Busy(g) => sock'[g] = sock[g],
         \A g \in Open' : \/ sock'[g] = sock[g] /\ (Writable(g)' => Writable(g))
                          \/ m_read_buf'[g] = NoConn /\ ~Writable(g)',
         \A g \in Open' : m_read_buf'[g] \in {NoConn, m_read_buf[g], sock'[g]}
  PROVE  AnswerInv'
<1>1. ASSUME NEW g \in Open', sock'[g] = sock[g] PROVE g \in Open
  BY <1>1 DEF Open
<1>2. ReadsOwn'  BY <1>1 DEF AnswerInv, ReadsOwn
<1>3. ParsesOwn' /\ AnswersOwn'
  <2>1. \A w \in Workers : pc[w] # "idle" => sock'[job[w]] = sock[job[w]]
    BY WorkersSlot
  <2> QED  BY <2>1 DEF AnswerInv, ParsesOwn, AnswersOwn
<1>4. SendsOwn'
  <2> SUFFICES ASSUME NEW g \in Open', Writable(g)' PROVE m_iv'[g] = sock'[g]
    BY DEF SendsOwn
  <2>1. sock'[g] = sock[g] /\ Writable(g)  OBVIOUS
  <2> QED  BY <1>1, <2>1 DEF AnswerInv, SendsOwn
<1> QED  BY <1>2, <1>3, <1>4 DEF AnswerInv

LEMMA EpollWaitAnswers == OwnInv /\ AnswerInv /\ EpollWait => AnswerInv'
<1> SUFFICES ASSUME OwnInv, AnswerInv, EpollWait PROVE AnswerInv'  OBVIOUS
<1>1. UNCHANGED <<pc, job, req, m_iv, sock, m_read_buf>>
  BY DEF EpollWait, connVars, poolVars
<1>2. PICK writable \in SUBSET {fd \in Open : armed[fd] = "out"} :
        batch' = Ready(writable) /\ armed' = OneShot(Ready(writable))
  BY DEF EpollWait
<1>3. ASSUME NEW g \in Open', Writable(g)' PROVE Writable(g)
  <2>1. g \in Fds /\ g # listenfd /\ g # pipefd
    BY ReactorAssumption DEF Open, listenfd, pipefd
  <2>2. <<g, "out">> \in Ready(writable) => armed[g] = "out"
    BY <1>2, <2>1 DEF Ready
  <2>3. armed'[g] = "out" => armed[g] = "out"  BY <1>2, <2>1 DEF OneShot
  <2> QED  BY <1>2, <1>3, <2>2, <2>3 DEF Writable
<1> QED  BY <1>1, <1>3, MainAnswers

LEMMA AcceptAnswers == OwnInv /\ AnswerInv /\ Accept => AnswerInv'
<1> SUFFICES ASSUME OwnInv, AnswerInv, Accept PROVE AnswerInv'  OBVIOUS
<1>1. PICK f \in Fds \ Open :
        /\ sock' = [sock EXCEPT ![f] = accepted + 1]
        /\ armed' = [armed EXCEPT ![f] = "in"]
        /\ m_read_buf' = [m_read_buf EXCEPT ![f] = NoConn]
  BY DEF Accept, ResetSlot
<1>2. /\ sock \in [Fds -> 0..MaxConns] /\ armed \in [Fds -> {"off", "in", "out"}]
      /\ m_read_buf \in [Fds -> 0..MaxConns]
  BY DEF OwnInv, CountInv, TimerInv, TypeOK, KernelTypeOK, ConnTypeOK
<1>3. UNCHANGED <<pc, job, req, m_iv>> /\ batch' \subseteq batch
  BY DEF Accept, Handle, poolVars
<1>4. ~Busy(f) /\ ~Reported(f)
  <2>1. ~Busy(f)  BY DEF OwnInv, Exclusive, BusyOpen
  <2>2. ~Reported(f)  BY InUseOwns DEF OwnInv, InUse
  <2> QED  BY <2>1, <2>2
<1>5. m_read_buf'[f] = NoConn /\ ~Writable(f)'
  BY <1>1, <1>2, <1>3, <1>4 DEF Writable, Reported
<1>6. ASSUME NEW g \in Fds, g # f
      PROVE  sock'[g] = sock[g] /\ m_read_buf'[g] = m_read_buf[g] /\ (Writable(g)' => Writable(g))
  BY <1>1, <1>2, <1>3, <1>6 DEF Writable
<1>7. \A g \in Open' : g \in Fds  BY DEF Open
<1> QED  BY <1>3, <1>4, <1>5, <1>6, <1>7, MainAnswers

\* Closing connections nobody works for.
LEMMA ClosingAnswers ==
  ASSUME OwnInv, AnswerInv, NEW closed \in SUBSET Fds, NEW calls, cb_func(closed, calls),
         UNCHANGED <<pc, job, req, m_iv, m_read_buf>>, batch' \subseteq batch,
         \A fd \in closed : ~Busy(fd)
  PROVE  AnswerInv'
<1>1. /\ \A g \in Fds : g \notin closed => sock'[g] = sock[g] /\ armed'[g] = armed[g]
      /\ \A g \in Open' : g \in Fds /\ g \notin closed
  BY DEF cb_func, Unregister, Open
<1>2. \A g \in Open' : Writable(g)' => Writable(g)  BY <1>1 DEF Writable
<1> QED  BY <1>1, <1>2, MainAnswers

LEMMA CloseAnswers ==
  ASSUME OwnInv, AnswerInv, NEW fd \in Fds,
         HangUp(fd) \/ ReadFails(fd) \/ WriteCloses(fd) \/ WriteFails(fd)
  PROVE  AnswerInv'
<1> PICK k \in {"in", "out", "hup"} : Handle(<<fd, k>>)
  BY DEF HangUp, ReadFails, WriteCloses, WriteFails
<1>1. cb_func({fd}, 1) /\ UNCHANGED <<pc, job, req, m_iv, m_read_buf>>
  BY DEF HangUp, ReadFails, WriteCloses, WriteFails, CloseConnection, connVars, poolVars
<1>2. Reported(fd) /\ batch' \subseteq batch
  BY HandledLast DEF OwnInv, CountInv
<1>3. ~Busy(fd)  BY <1>2 DEF OwnInv, Exclusive, ReportedAlone
<1> QED  BY <1>1, <1>2, <1>3, ClosingAnswers

LEMMA TimerHandlerAnswers == OwnInv /\ AnswerInv /\ TimerHandler => AnswerInv'
<1> SUFFICES ASSUME OwnInv, AnswerInv, TimerHandler PROVE AnswerInv'  OBVIOUS
<1> DEFINE closed == {timerfd[c] : c \in Expired}
<1>1. /\ cb_func(closed, Cardinality(Expired)) /\ UNCHANGED <<pc, job, req, m_iv, m_read_buf>>
      /\ batch' \subseteq batch
  BY DEF TimerHandler, tick, poolVars, connVars
<1>2. closed \in SUBSET Fds /\ \A fd \in closed : ~Busy(fd)
  BY DEF OwnInv, CountInv, TimersHaveSlots, Exclusive, DueIdle, Expired
<1> HIDE DEF closed
<1> QED  BY <1>1, <1>2, ClosingAnswers

\* A read fills the slot with bytes of its connection, a write empties it or keeps
\* what is still to be sent.
LEMMA ReadWriteAnswers ==
  ASSUME OwnInv, AnswerInv, NEW fd \in Fds,
         ReadEvent(fd) \/ WriteNothing(fd) \/ WriteStalls(fd) \/ WriteKeeps(fd)
  PROVE  AnswerInv'
<1>1. UNCHANGED <<pc, job, req, m_iv, sock>> /\ batch' \subseteq batch
  BY DEF ReadEvent, WriteNothing, WriteStalls, WriteKeeps, Handle, kernelVars, connVars, poolVars
<1>2. armed \in [Fds -> {"off", "in", "out"}] /\ m_read_buf \in [Fds -> 0..MaxConns]
  BY DEF OwnInv, CountInv, TimerInv, TypeOK, KernelTypeOK, ConnTypeOK
<1>3. \A g \in Open' : m_read_buf'[g] \in {NoConn, m_read_buf[g], sock'[g]}
  BY <1>1, <1>2 DEF ReadEvent, WriteNothing, WriteStalls, WriteKeeps, ResetSlot, connVars, Open
<1>4. \A g \in Fds : armed'[g] = "out" => Writable(g)
  <2>1. CASE ReadEvent(fd)  BY <2>1 DEF ReadEvent, kernelVars, Writable
  <2>2. CASE WriteStalls(fd)
    BY <1>2, <2>2 DEF WriteStalls, modfd, Handle, Writable
  <2>3. CASE WriteNothing(fd) \/ WriteKeeps(fd)
    BY <1>2, <2>3 DEF WriteNothing, WriteKeeps, modfd, Writable
  <2> QED  BY <2>1, <2>2, <2>3
<1>5. \A g \in Open' : Writable(g)' => Writable(g)
  BY <1>1, <1>4 DEF Writable, Open
<1> QED  BY <1>1, <1>3, <1>5, MainAnswers

LEMMA OthersAnswer ==
  ASSUME OwnInv, AnswerInv,
         \/ Client \/ TimeSlot \/ EndOfEvents \/ Signal \/ AcceptFails
         \/ Refuse \/ Spin \/ (\E fd \in Fds : WriteSpins(fd)) \/ UNCHANGED vars
  PROVE  AnswerInv'
<1>1. UNCHANGED <<sock, armed, m_read_buf, m_iv, pc, job, req>> /\ batch' \subseteq batch
  BY DEF Client, Connect, ClientSend, ClientClose, TimeSlot, EndOfEvents, Signal, AcceptFails,
    Refuse, Spin, WriteSpins, Handle, kernelVars, mainVars, connVars, poolVars, vars
<1>2. \A g \in Open' : Writable(g)' => Writable(g)  BY <1>1 DEF Writable
<1> QED  BY <1>1, <1>2, MainAnswers

LEMMA WorkerAnswers ==
  ASSUME "empty" \notin Replies, OwnInv, AnswerInv, NEW w \in Workers, Worker(w)
  PROVE  AnswerInv'
<1> USE DEF AnswerInv
<1>1. pc \in [Workers -> Points] /\ job \in [Workers -> Fds \cup {0}]
      /\ req \in [Workers -> 0..MaxConns] /\ m_iv \in [Fds -> 0..MaxConns]
  BY DEF OwnInv, CountInv, TimerInv, TypeOK, PoolTypeOK, ConnTypeOK
<1>2. pc[w] # "idle" => job[w] \in Open /\ job[w] \in Fds
  BY WorkersSlot
<1>3. UNCHANGED <<batch, sock, m_read_buf>> /\ Open' = Open
  BY WorkerOwn, WorkerFrame DEF Take, RearmIn, RearmOut, Rearm, ParseMore, Parse, FillFile,
    FillError, kernelVars, connVars, Open
<1>4. ReadsOwn'  BY <1>3 DEF ReadsOwn
<1>5. CASE Take(w)
  <2>1. /\ UNCHANGED <<armed, req, m_iv>> /\ pc' = [pc EXCEPT ![w] = "parse"]
        /\ \A v \in Workers : v # w => job'[v] = job[v]
    BY <1>1, <1>5 DEF Take, Goto, kernelVars, connVars
  <2>2. ParsesOwn' /\ AnswersOwn'  BY <1>1, <1>3, <2>1 DEF ParsesOwn, AnswersOwn
  <2>3. SendsOwn'  BY <1>3, <2>1 DEF SendsOwn, Writable
  <2> QED  BY <1>4, <2>2, <2>3
<1>6. CASE RearmIn(w) \/ RearmOut(w)
  <2> SUFFICES ASSUME NEW f, f = job[w] PROVE AnswerInv'  OBVIOUS
  <2>1. /\ UNCHANGED m_iv /\ pc' = [pc EXCEPT ![w] = "idle"]
        /\ \A v \in Workers : v # w => job'[v] = job[v] /\ req'[v] = req[v]
    BY <1>1, <1>6 DEF RearmIn, RearmOut, Rearm, Goto, connVars
  <2>2. ParsesOwn' /\ AnswersOwn'  BY <1>1, <1>3, <2>1 DEF ParsesOwn, AnswersOwn
  <2>3. /\ f \in Open /\ ~Reported(f)
        /\ armed'[f] = IF RearmIn(w) THEN "in" ELSE "out"
        /\ \A g \in Fds : g # f => armed'[g] = armed[g]
    BY <1>6, RearmMoves
  <2>4. RearmOut(w) => m_iv[f] = sock[f]
    BY DEF RearmOut, Rearm, Goto, AnswersOwn
  <2>5. RearmIn(w) => ~Writable(f)'  BY <1>3, <2>3 DEF Writable, Reported
  <2>6. \A g \in Open : g # f /\ Writable(g)' => Writable(g)
    BY <1>3, <2>3 DEF Writable, Open
  <2>7. SendsOwn'  BY <1>3, <1>6, <2>1, <2>4, <2>5, <2>6 DEF SendsOwn
  <2> QED  BY <1>4, <2>2, <2>7
<1>7. CASE ParseMore(w) \/ Parse(w)
  <2>1. /\ UNCHANGED <<armed, m_iv, job>> /\ pc[w] = "parse"
        /\ \A v \in Workers : v # w => pc'[v] = pc[v] /\ req'[v] = req[v]
        /\ pc'[w] # "rearmOut"
    BY <1>1, <1>7 DEF ParseMore, Parse, Goto, kernelVars
  <2>2. pc'[w] = "fill" => req'[w] = sock[job[w]]
    <3>1. ParseMore(w) => pc'[w] # "fill"  BY <1>1 DEF ParseMore, Goto
    <3>2. Parse(w) => req'[w] = sock[job[w]]
      BY <1>1, <1>2, <2>1 DEF Parse, ReadsOwn
    <3> QED  BY <1>7, <3>1, <3>2
  <2>3. ParsesOwn'  BY <1>3, <2>1, <2>2 DEF ParsesOwn
  <2>4. AnswersOwn'  BY <1>3, <2>1 DEF AnswersOwn
  <2>5. SendsOwn'  BY <1>3, <2>1 DEF SendsOwn, Writable
  <2> QED  BY <1>4, <2>3, <2>4, <2>5
<1>8. CASE FillFile(w) \/ FillError(w)
  <2> SUFFICES ASSUME NEW f, f = job[w] PROVE AnswerInv'  OBVIOUS
  <2>1. /\ UNCHANGED <<armed, job, req>> /\ pc[w] = "fill"
        /\ \A v \in Workers : v # w => pc'[v] = pc[v]
        /\ pc'[w] = "rearmOut" /\ m_iv' = [m_iv EXCEPT ![f] = req[w]]
    BY <1>1, <1>8 DEF FillFile, FillError, Goto, kernelVars
  <2>2. f \in Fds /\ f \in Open /\ req[w] = sock[f]  BY <1>2, <2>1 DEF ParsesOwn
  <2>3. m_iv'[f] = sock[f] /\ \A g \in Fds : g # f => m_iv'[g] = m_iv[g]
    BY <1>1, <2>1, <2>2
  <2>4. \A v \in Workers : v # w /\ pc[v] # "idle" => job[v] # f /\ job[v] \in Fds
    <3>1. \A v \in Workers : pc[v] # "idle" => job[v] \in Fds  BY WorkersSlot
    <3> QED  BY <2>1, <3>1 DEF OwnInv, Exclusive, WorkedOnce
  <2>5. ParsesOwn'  BY <1>3, <2>1 DEF ParsesOwn
  <2>6. AnswersOwn'  BY <1>3, <2>1, <2>3, <2>4 DEF AnswersOwn
  <2>7. SendsOwn'  BY <1>3, <2>1, <2>3 DEF SendsOwn, Writable, Open
  <2> QED  BY <1>4, <2>5, <2>6, <2>7
<1> QED  BY <1>5, <1>6, <1>7, <1>8, WorkerOwn

LEMMA AnswerStep ==
  ASSUME Quick, OwnInv, AnswerInv, [Next]_vars
  PROVE  AnswerInv'
<1>1. CASE \E w \in Workers : Worker(w)  BY <1>1, WorkerAnswers DEF Quick
<1>2. CASE \E fd \in Fds : \/ HangUp(fd) \/ ReadFails(fd) \/ WriteCloses(fd) \/ WriteFails(fd)
                           \/ ReadEvent(fd)
                           \/ WriteNothing(fd) \/ WriteStalls(fd) \/ WriteKeeps(fd)
  BY <1>2, CloseAnswers, ReadWriteAnswers
<1>3. CASE EpollWait \/ Accept \/ TimerHandler
  BY <1>3, EpollWaitAnswers, AcceptAnswers, TimerHandlerAnswers
<1>4. CASE \/ Client \/ TimeSlot \/ EndOfEvents \/ Signal \/ AcceptFails
           \/ Refuse \/ Spin \/ (\E fd \in Fds : WriteSpins(fd)) \/ UNCHANGED vars
  BY <1>4, OthersAnswer
<1> QED  BY <1>1, <1>2, <1>3, <1>4 DEF Next, Main

-----------------------------------------------------------------------------
\* Each owner of a slot excludes the others: while workers are faster than timers and
\* no request names an empty file, epoll, an event, the work queue and a worker never
\* have the slot of a descriptor at once, and none has that of a closed one.
THEOREM OwnersExclude ==
  ASSUME Quick
  PROVE  Spec => []OwnInv
<1>1. OwnInv /\ [Next]_vars => OwnInv'  BY OwnStep
<1> QED  BY InitOwn, <1>1, PTL DEF Spec

\* Every open connection has exactly one owner, which will act on it, unless append()
\* found the work queue full for it: then it has none until it is closed, and never two.
\* This holds for every bound of the queue, also one smaller than the descriptors (10000
\* slots against the 65536 of MAX_FD), and a full queue is the only way to lose a slot.
THEOREM OneOwnerEach ==
  ASSUME Quick
  PROVE  Spec => []OneOwner
<1>1. Init => Owned  BY DEF Init, Owned, Open
<1>2. OwnInv /\ OwnInv' /\ Owned /\ [Next]_vars => Owned'  BY OwnedStep DEF Quick
<1>3. OwnInv /\ Owned => OneOwner  BY OwnersCounted
<1> QED  BY <1>1, <1>2, <1>3, OwnersExclude, PTL DEF Spec

\* What write() sends to a connection is the response a worker made for a request of this
\* very connection, through every reuse of descriptor and slot, while each slot has at
\* most one owner.
THEOREM RepliesToTheRightClient ==
  ASSUME Quick
  PROVE  Spec => []WritableMeansProcessed
<1>1. Init => AnswerInv
  BY DEF Init, Open, AnswerInv, ReadsOwn, ParsesOwn, AnswersOwn, SendsOwn
<1>2. OwnInv /\ AnswerInv /\ [Next]_vars => AnswerInv'  BY AnswerStep
<1>3. AnswerInv => WritableMeansProcessed
  BY DEF AnswerInv, SendsOwn, Writable, WritableMeansProcessed
<1> QED  BY <1>1, <1>2, <1>3, OwnersExclude, PTL DEF Spec
=============================================================================
