------------------------------ MODULE Reactor ------------------------------
(***************************************************************************)
(* The server as main.cpp runs it: one main thread in an epoll loop that   *)
(* accepts, reads, writes, closes and drives the timers, worker threads    *)
(* that run http_conn::process(), and the http_conn and client_data slots  *)
(* (users[fd], users_timer[fd]) that both sides reach through the number   *)
(* of a descriptor the kernel reuses.                                      *)
(*                                                                         *)
(* A handler of the main thread is one action.  A worker is cut at every   *)
(* point where the main thread could see or change the slot it works on.   *)
(* Bytes are abstracted to the connection they belong to (0: no bytes).    *)
(***************************************************************************)
EXTENDS Integers, Sequences, FiniteSets

CONSTANTS
  Fds,          \* descriptors accept() can return: naturals, listenfd etc. excluded
  MaxFd,        \* MAX_FD
  IdleSlots,    \* 3: a timer expires 3*TIMESLOT after the last activity
  MaxRequests,  \* m_max_requests of the thread pool
  Workers,      \* the threads of the pool
  MaxConns,     \* bound: connections the clients open
  MaxSends,     \* bound: sends of one client
  MaxStalls,    \* bound: writes of one connection that end in EAGAIN
  Replies,      \* what requests lead to: "file", "error" (400, 403, 404), and
                \* "empty", a file of size 0, should one be put under root/
  SlowWorkers   \* can a timer expire while a worker has the connection

ASSUME ReactorAssumption ==
  /\ Fds \subseteq Nat /\ IsFiniteSet(Fds)
  /\ MaxFd \in Nat /\ IdleSlots \in Nat \ {0}
  /\ MaxRequests \in Nat \ {0} /\ MaxConns \in Nat
  /\ MaxSends \in Nat /\ MaxStalls \in Nat
  /\ Replies \subseteq {"file", "error", "empty"} /\ SlowWorkers \in BOOLEAN

Conns    == 1..MaxConns
NoConn   == 0
listenfd == -1
pipefd   == -2
Events   == (Fds \cup {listenfd, pipefd}) \X {"in", "out", "hup"}

VARIABLES
  \* the clients and the kernel
  born,          \* connections opened so far; connection c is the c-th of them
  accepted,      \* connections accepted: accepted+1..born wait in the backlog
  edge,          \* the listener became ready since epoll last reported it
  unread,        \* unread[c]: bytes of c wait in the socket
  shut,          \* shut[c]: the client closed its end
  sends, stalls, \* budgets spent by the clients
  sock,          \* sock[fd]: the connection that has descriptor fd
  armed,         \* armed[fd]: the EPOLLONESHOT interest, "off" once reported
  \* the main thread
  main,          \* "wait" in epoll_wait, "run" in the loop over the events,
                 \* "spin" in a loop of write() that never ends
  batch,         \* events reported and not handled yet
  timeout,       \* the local of main()
  alarm, pipe,   \* alarm(TIMESLOT) is pending; SIGALRM's byte is in the pipe
  m_user_count,
  \* sort_timer_lst and users_timer; the timer made for connection c is named c
  timers, left, timerfd, usertimer,
  \* http_conn, by slot
  m_sockfd, m_read_buf, m_linger,
  m_iv,          \* the connection whose response the blocks hold
  m_iv_count,    \* 2: headers and file, 1: an error page
  bytes_to_send, \* its sign: -1, 0 or 1
  \* threadpool<http_conn>
  m_workqueue, pc, job, req, cnt,
  dropped        \* history: connections whose slot append() refused

clientVars == <<born, edge, unread, shut, sends, stalls>>
kernelVars == <<sock, armed>>
mainVars   == <<main, batch, timeout, alarm, pipe>>
timerVars  == <<timers, left, timerfd, usertimer>>
connVars   == <<m_sockfd, m_read_buf, m_linger, m_iv, m_iv_count, bytes_to_send>>
poolVars   == <<m_workqueue, pc, job, req, cnt, dropped>>
vars == <<clientVars, accepted, kernelVars, mainVars, m_user_count,
          timerVars, connVars, poolVars>>

Open       == {fd \in Fds : sock[fd] # NoConn}
InBacklog(c) == c \in accepted+1 .. born
Connected(c) == InBacklog(c) \/ \E fd \in Fds : sock[fd] = c
Reported(fd) == \E k \in {"in", "out", "hup"} : <<fd, k>> \in batch
Working(fd)  == {w \in Workers : pc[w] # "idle" /\ job[w] = fd}
Queued(fd)   == {i \in DOMAIN m_workqueue : m_workqueue[i] = fd}

-----------------------------------------------------------------------------
(* The clients, and the time that passes. *)

Connect ==
  /\ born < MaxConns
  /\ born' = born + 1
  /\ edge' = TRUE
  /\ UNCHANGED <<unread, shut, sends, stalls, accepted, kernelVars, mainVars,
                 m_user_count, timerVars, connVars, poolVars>>

ClientSend(c) ==
  /\ Connected(c) /\ ~shut[c] /\ ~unread[c] /\ sends[c] < MaxSends
  /\ unread' = [unread EXCEPT ![c] = TRUE]
  /\ sends' = [sends EXCEPT ![c] = @ + 1]
  /\ UNCHANGED <<born, edge, shut, stalls, accepted, kernelVars, mainVars,
                 m_user_count, timerVars, connVars, poolVars>>

ClientClose(c) ==
  /\ Connected(c) /\ ~shut[c]
  /\ shut' = [shut EXCEPT ![c] = TRUE]
  /\ UNCHANGED <<born, edge, unread, sends, stalls, accepted, kernelVars,
                 mainVars, m_user_count, timerVars, connVars, poolVars>>

\* TIMESLOT seconds pass.  A pending alarm fires: sig_handler writes the byte
\* of SIGALRM into the pipe.  Without SlowWorkers no timer reaches its expiry
\* while its connection is in the work queue or with a worker.
TimeSlot ==
  /\ alarm \/ \E c \in timers : left[c] > 0
  /\ SlowWorkers \/ \A c \in timers : left[c] = 1 =>
       Queued(timerfd[c]) = {} /\ Working(timerfd[c]) = {}
  /\ left' = [c \in Conns |-> IF c \in timers /\ left[c] > 0
                              THEN left[c] - 1 ELSE left[c]]
  /\ alarm' = FALSE
  /\ pipe' = (pipe \/ alarm)
  /\ UNCHANGED <<clientVars, accepted, kernelVars, main, batch, timeout,
                 m_user_count, timers, timerfd, usertimer, connVars, poolVars>>

-----------------------------------------------------------------------------
(* epoll_wait.  EPOLL_CTL_MOD polls the descriptor again, so an armed       *)
(* descriptor with unread bytes is ready whenever they came.  EPOLLRDHUP    *)
(* outranks the other flags in the handler.  Whether an armed socket is     *)
(* writable is the client's doing.  The listener is edge-triggered.         *)

\* Mutant: RDHUP is reported also while EPOLLONESHOT has switched fd off.
HangUpsAlways == {fd \in Open : shut[sock[fd]]}
HangUps == {fd \in Open : armed[fd] # "off" /\ shut[sock[fd]]}

Ready(writable) ==
  {e \in {<<listenfd, "in">>} : edge}
    \cup {e \in {<<pipefd, "in">>} : pipe}
    \cup {<<fd, "hup">> : fd \in HangUps}
    \cup {<<fd, "in">> : fd \in {f \in Open : /\ armed[f] = "in" /\ ~shut[sock[f]]
                                              /\ unread[sock[f]]}}
    \cup {<<fd, "out">> : fd \in {f \in writable : ~shut[sock[f]]}}

\* Mutant: addfd without EPOLLONESHOT.
NoOneShot(B) == armed
\* EPOLLONESHOT: what is reported is switched off until modfd.
OneShot(B) == [fd \in Fds |-> IF \E e \in B : e[1] = fd THEN "off" ELSE armed[fd]]

EpollWait ==
  /\ main = "wait"
  /\ \E writable \in SUBSET {fd \in Open : armed[fd] = "out"} :
       LET B == Ready(writable) IN
       /\ B # {}
       /\ batch' = B
       /\ armed' = OneShot(B)
  /\ edge' = FALSE
  /\ main' = "run"
  /\ UNCHANGED <<born, unread, shut, sends, stalls, accepted, sock, timeout,
                 alarm, pipe, m_user_count, timerVars, connVars, poolVars>>

-----------------------------------------------------------------------------
(* What the handlers of the main thread share. *)

Handle(e) ==
  /\ main = "run" /\ e \in batch
  /\ batch' = batch \ {e}
  /\ UNCHANGED <<main, timeout, alarm>>

\* m_sockfd of the slot is its descriptor, and that is open.
HasSocket(fd) == m_sockfd[fd] = fd /\ fd \in Open

\* modfd: fails without effect on a closed descriptor or on -1.
modfd(fd, ev) ==
  armed' = IF HasSocket(fd)
           THEN [armed EXCEPT ![fd] = ev] ELSE armed

Unregister(closed) ==
  armed' = [fd \in Fds |-> IF fd \in closed THEN "off" ELSE armed[fd]]
\* Mutants: cb_func without close(), and without m_user_count--.
cb_funcNoClose(closed, calls) ==
  Unregister(closed) /\ UNCHANGED sock /\ m_user_count' = m_user_count - calls
cb_funcNoCount(closed, calls) ==
  /\ Unregister(closed) /\ UNCHANGED m_user_count
  /\ sock' = [fd \in Fds |-> IF fd \in closed THEN NoConn ELSE sock[fd]]
\* cb_func is called a number of times, on the descriptors in closed.
cb_func(closed, calls) ==
  /\ Unregister(closed)
  /\ sock' = [fd \in Fds |-> IF fd \in closed THEN NoConn ELSE sock[fd]]
  /\ m_user_count' = m_user_count - calls

\* Mutant: the timer of a closed connection stays in the list.
CloseConnectionOnly(fd) == cb_func({fd}, 1) /\ UNCHANGED timerVars
\* cb_func on users_timer[fd], then del_timer(users_timer[fd].timer)
CloseConnection(fd) ==
  /\ cb_func({fd}, 1)
  /\ timers' = timers \ {usertimer[fd]}
  /\ UNCHANGED <<left, timerfd, usertimer>>

\* Mutant: add_timer is not called for the new timer.
AddTimerNot(c, fd) ==
  /\ UNCHANGED <<timers, left>>
  /\ timerfd' = [timerfd EXCEPT ![c] = fd]
  /\ usertimer' = [usertimer EXCEPT ![fd] = c]
\* users_timer[fd] is filled in, and a new timer added for it.
AddTimer(c, fd) ==
  /\ timers' = timers \cup {c}
  /\ left' = [left EXCEPT ![c] = IdleSlots]
  /\ timerfd' = [timerfd EXCEPT ![c] = fd]
  /\ usertimer' = [usertimer EXCEPT ![fd] = c]

\* timer->expire = cur+3*TIMESLOT; adjust_timer(timer)
AdjustTimer(fd) ==
  /\ left' = [left EXCEPT ![usertimer[fd]] = IdleSlots]
  /\ UNCHANGED <<timers, timerfd, usertimer>>

\* http_conn::init(): the fields it resets that are modelled here
ResetSlot(fd) ==
  /\ m_read_buf' = [m_read_buf EXCEPT ![fd] = NoConn]
  /\ m_linger' = [m_linger EXCEPT ![fd] = FALSE]

-----------------------------------------------------------------------------
(* A new connection. *)

\* accept() fails; for want of a descriptor the connection stays in the backlog.
AcceptFails ==
  /\ Handle(<<listenfd, "in">>)
  /\ accepted = born \/ Open = Fds
  /\ UNCHANGED <<clientVars, accepted, kernelVars, pipe, m_user_count,
                 timerVars, connVars, poolVars>>

\* show_error: too many users, the connection is closed again.
Refuse ==
  /\ Handle(<<listenfd, "in">>)
  /\ accepted < born /\ Open # Fds /\ m_user_count >= MaxFd
  /\ accepted' = accepted + 1
  /\ UNCHANGED <<clientVars, kernelVars, pipe, m_user_count, timerVars,
                 connVars, poolVars>>

Accept ==
  /\ Handle(<<listenfd, "in">>)
  /\ m_user_count < MaxFd
  /\ accepted < born
  /\ \E fd \in Fds \ Open :
       LET c == accepted + 1 IN
       /\ \A g \in Fds \ Open : fd <= g
       /\ accepted' = c
       /\ sock' = [sock EXCEPT ![fd] = c]
       /\ armed' = [armed EXCEPT ![fd] = "in"]
       /\ m_user_count' = m_user_count + 1
       /\ m_sockfd' = [m_sockfd EXCEPT ![fd] = fd]
       /\ ResetSlot(fd)
       /\ AddTimer(c, fd)
  /\ UNCHANGED <<clientVars, pipe, m_iv, m_iv_count, bytes_to_send, poolVars>>

-----------------------------------------------------------------------------
(* Events of a connection. *)

HangUp(fd) ==
  /\ Handle(<<fd, "hup">>)
  /\ CloseConnection(fd)
  /\ UNCHANGED <<clientVars, accepted, pipe, connVars, poolVars>>

\* recv on m_sockfd gives bytes or EAGAIN: no error, no end of the stream
Readable(fd) == HasSocket(fd) /\ ~shut[sock[fd]]

\* append() refuses a slot when the queue is over its bound; nobody looks at its
\* result.
queueFull == Len(m_workqueue) > MaxRequests
append(fd) ==
  IF queueFull
    THEN dropped' = dropped \cup {sock[fd]} /\ UNCHANGED m_workqueue
    ELSE m_workqueue' = Append(m_workqueue, fd) /\ UNCHANGED dropped

\* read() takes what has come.
ReadEvent(fd) ==
  /\ Handle(<<fd, "in">>)
  /\ Readable(fd)
  /\ IF unread[sock[fd]]
       THEN /\ unread' = [unread EXCEPT ![sock[fd]] = FALSE]
            /\ m_read_buf' = [m_read_buf EXCEPT ![fd] = sock[fd]]
       ELSE UNCHANGED <<unread, m_read_buf>>
  /\ append(fd)
  /\ AdjustTimer(fd)
  /\ UNCHANGED <<born, edge, shut, sends, stalls, accepted, kernelVars, pipe,
                 m_user_count, m_sockfd, m_linger, m_iv, m_iv_count,
                 bytes_to_send, pc, job, req, cnt>>

\* read() is false: end of stream, error, or no room left in m_read_buf.
ReadFails(fd) ==
  /\ Handle(<<fd, "in">>)
  /\ Readable(fd) => unread[sock[fd]]
  /\ CloseConnection(fd)
  /\ UNCHANGED <<clientVars, accepted, pipe, connVars, poolVars>>

\* write() with nothing to send: rearm for reading and reset the slot.
WriteNothing(fd) ==
  /\ Handle(<<fd, "out">>)
  /\ bytes_to_send[fd] = 0
  /\ modfd(fd, "in")
  /\ ResetSlot(fd)
  /\ AdjustTimer(fd)
  /\ UNCHANGED <<clientVars, accepted, sock, pipe, m_user_count, m_sockfd,
                 m_iv, m_iv_count, bytes_to_send, poolVars>>

\* writev sends a part and then fails with EAGAIN: rearm for writing.  A client
\* that has closed its end does not make writev fail, until its RST comes.
WriteStalls(fd) ==
  /\ Handle(<<fd, "out">>)
  /\ bytes_to_send[fd] # 0 /\ HasSocket(fd)
  /\ stalls[sock[fd]] < MaxStalls
  /\ stalls' = [stalls EXCEPT ![sock[fd]] = @ + 1]
  /\ modfd(fd, "out")
  /\ AdjustTimer(fd)
  /\ UNCHANGED <<born, edge, unread, shut, sends, accepted, sock, pipe,
                 m_user_count, connVars, poolVars>>

\* writev until bytes_to_send <= 0.  It ends at 0 for headers and file.  An
\* error page is sent against the count an earlier response left behind: the
\* page is longer than that, or the two are equal, or the loop never ends.
Sent(fd) ==
  /\ bytes_to_send[fd] # 0 /\ HasSocket(fd)
  /\ \E rest \in IF m_iv_count[fd] = 2 THEN {0}
                ELSE IF bytes_to_send[fd] = -1 THEN {-1} ELSE {-1, 0} :
       bytes_to_send' = [bytes_to_send EXCEPT ![fd] = rest]

\* Everything is sent and the connection is to be kept.
WriteKeeps(fd) ==
  /\ Handle(<<fd, "out">>)
  /\ Sent(fd) /\ m_linger[fd]
  /\ modfd(fd, "in")
  /\ ResetSlot(fd)
  /\ AdjustTimer(fd)
  /\ UNCHANGED <<clientVars, accepted, sock, pipe, m_user_count, m_sockfd,
                 m_iv, m_iv_count, poolVars>>

\* Everything is sent and the connection is not to be kept.
WriteCloses(fd) ==
  /\ Handle(<<fd, "out">>)
  /\ Sent(fd) /\ ~m_linger[fd]
  /\ CloseConnection(fd)
  /\ UNCHANGED <<clientVars, accepted, pipe, m_sockfd, m_read_buf, m_linger,
                 m_iv, m_iv_count, poolVars>>

\* writev fails for good; bytes_to_send keeps its value.
WriteFails(fd) ==
  /\ Handle(<<fd, "out">>)
  /\ bytes_to_send[fd] # 0
  /\ HasSocket(fd) => shut[sock[fd]]
  /\ CloseConnection(fd)
  /\ UNCHANGED <<clientVars, accepted, pipe, connVars, poolVars>>

\* writev has sent the one block, bytes_to_send is still positive: from here on
\* writev returns 0 and the main thread never leaves the loop.
WriteSpins(fd) ==
  /\ main = "run" /\ <<fd, "out">> \in batch
  /\ bytes_to_send[fd] = 1 /\ m_iv_count[fd] = 1 /\ HasSocket(fd)
  /\ main' = "spin"
  /\ UNCHANGED <<clientVars, accepted, kernelVars, batch, timeout, alarm, pipe,
                 m_user_count, timerVars, connVars, poolVars>>

Spin == main = "spin" /\ UNCHANGED vars

-----------------------------------------------------------------------------
(* Signals and timers. *)

Signal ==
  /\ main = "run" /\ <<pipefd, "in">> \in batch
  /\ batch' = batch \ {<<pipefd, "in">>}
  /\ pipe' = FALSE
  /\ timeout' = TRUE
  /\ UNCHANGED <<clientVars, accepted, kernelVars, main, alarm, m_user_count,
                 timerVars, connVars, poolVars>>

Expired == {c \in timers : left[c] = 0}

\* sort_timer_lst::tick(): cb_func and delete for every expired timer
tick ==
  /\ cb_func({timerfd[c] : c \in Expired}, Cardinality(Expired))
  /\ timers' = timers \ Expired

\* timer_handler() once the events are handled, if SIGALRM was among them
TimerHandler ==
  /\ main = "run" /\ batch = {} /\ timeout
  /\ tick
  /\ alarm' = TRUE
  /\ timeout' = FALSE
  /\ main' = "wait"
  /\ UNCHANGED <<clientVars, accepted, batch, pipe, left, timerfd, usertimer,
                 connVars, poolVars>>

EndOfEvents ==
  /\ main = "run" /\ batch = {} /\ ~timeout
  /\ main' = "wait"
  /\ UNCHANGED <<clientVars, accepted, kernelVars, batch, timeout, alarm, pipe,
                 m_user_count, timerVars, connVars, poolVars>>

-----------------------------------------------------------------------------
(* The workers: threadpool::run() takes a slot and runs process() on it. *)

\* Worker w goes from one point of its code to another.
Goto(w, from, to) ==
  /\ pc[w] = from
  /\ pc' = [pc EXCEPT ![w] = to]
  /\ UNCHANGED <<clientVars, accepted, mainVars, timerVars, dropped>>

Take(w) ==
  /\ m_workqueue # <<>>
  /\ Goto(w, "idle", "parse")
  /\ job' = [job EXCEPT ![w] = Head(m_workqueue)]
  /\ m_workqueue' = Tail(m_workqueue)
  /\ UNCHANGED <<kernelVars, m_user_count, connVars, req, cnt>>

\* process_read() may find "Connection:keep-alive" among the headers.
Headers(fd) ==
  \E keep \in {m_linger[fd], TRUE} : m_linger' = [m_linger EXCEPT ![fd] = keep]

\* NO_REQUEST: no bytes, or a request that is not complete
ParseMore(w) ==
  /\ Goto(w, "parse", "rearmIn")
  /\ IF m_read_buf[job[w]] = NoConn THEN UNCHANGED m_linger ELSE Headers(job[w])
  /\ UNCHANGED <<kernelVars, m_user_count, m_sockfd, m_read_buf, m_iv,
                 m_iv_count, bytes_to_send, m_workqueue, job, req, cnt>>

\* A complete request, or a bad one
Parse(w) ==
  /\ Goto(w, "parse", "fill")
  /\ m_read_buf[job[w]] # NoConn
  /\ req' = [req EXCEPT ![w] = m_read_buf[job[w]]]
  /\ Headers(job[w])
  /\ UNCHANGED <<kernelVars, m_user_count, m_sockfd, m_read_buf, m_iv,
                 m_iv_count, bytes_to_send, m_workqueue, job, cnt>>

\* process_write() of a file: headers and file, with the count of their bytes
FillFile(w) ==
  /\ "file" \in Replies
  /\ Goto(w, "fill", "rearmOut")
  /\ m_iv' = [m_iv EXCEPT ![job[w]] = req[w]]
  /\ m_iv_count' = [m_iv_count EXCEPT ![job[w]] = 2]
  /\ bytes_to_send' = [bytes_to_send EXCEPT ![job[w]] = 1]
  /\ UNCHANGED <<kernelVars, m_user_count, m_sockfd, m_read_buf, m_linger,
                 m_workqueue, job, req, cnt>>

\* process_write() of an error page leaves bytes_to_send as it is.
FillError(w) ==
  /\ "error" \in Replies
  /\ Goto(w, "fill", "rearmOut")
  /\ m_iv' = [m_iv EXCEPT ![job[w]] = req[w]]
  /\ m_iv_count' = [m_iv_count EXCEPT ![job[w]] = 1]
  /\ UNCHANGED <<kernelVars, m_user_count, m_sockfd, m_read_buf, m_linger,
                 bytes_to_send, m_workqueue, job, req, cnt>>

\* process_write() of an empty file falls through to default and returns
\* false: process() calls close_conn(), which does nothing if m_sockfd is -1.
FillEmpty(w) ==
  /\ "empty" \in Replies
  /\ Goto(w, "fill", IF m_sockfd[job[w]] = -1 THEN "rearmOut" ELSE "remove")
  /\ UNCHANGED <<kernelVars, m_user_count, connVars, m_workqueue, job, req, cnt>>

\* close_conn(): removefd(m_epollfd,m_sockfd)
Remove(w) ==
  /\ Goto(w, "remove", "unset")
  /\ sock' = [fd \in Fds |-> IF fd = m_sockfd[job[w]] THEN NoConn ELSE sock[fd]]
  /\ armed' = [fd \in Fds |-> IF fd = m_sockfd[job[w]] THEN "off" ELSE armed[fd]]
  /\ UNCHANGED <<m_user_count, connVars, m_workqueue, job, req, cnt>>

\* close_conn(): m_sockfd = -1
Unset(w) ==
  /\ Goto(w, "unset", "load")
  /\ m_sockfd' = [m_sockfd EXCEPT ![job[w]] = -1]
  /\ UNCHANGED <<kernelVars, m_user_count, m_read_buf, m_linger, m_iv,
                 m_iv_count, bytes_to_send, m_workqueue, job, req, cnt>>

\* close_conn(): m_user_count--, a load and a store that nothing orders with
\* those of the main thread: either side's change may be lost.
Load(w) ==
  /\ Goto(w, "load", "store")
  /\ cnt' = [cnt EXCEPT ![w] = m_user_count]
  /\ UNCHANGED <<kernelVars, m_user_count, connVars, m_workqueue, job, req>>

Store(w) ==
  /\ Goto(w, "store", "rearmOut")
  /\ m_user_count' \in {cnt[w] - 1} \cup ({m_user_count} \ {cnt[w]})
  /\ UNCHANGED <<kernelVars, connVars, m_workqueue, job, req, cnt>>

\* The last step of process(): the locals of w are gone.
Rearm(w, from, ev) ==
  /\ Goto(w, from, "idle")
  /\ modfd(job[w], ev)
  /\ job' = [job EXCEPT ![w] = 0]
  /\ req' = [req EXCEPT ![w] = NoConn]
  /\ cnt' = [cnt EXCEPT ![w] = 0]
  /\ UNCHANGED <<sock, m_user_count, connVars, m_workqueue>>

RearmIn(w)  == Rearm(w, "rearmIn", "in")
RearmOut(w) == Rearm(w, "rearmOut", "out")

-----------------------------------------------------------------------------
Worker(w) ==
  \/ Take(w) \/ ParseMore(w) \/ Parse(w)
  \/ FillFile(w) \/ FillError(w) \/ FillEmpty(w)
  \/ Remove(w) \/ Unset(w) \/ Load(w) \/ Store(w)
  \/ RearmIn(w) \/ RearmOut(w)

Main ==
  \/ EpollWait \/ EndOfEvents \/ Signal \/ TimerHandler
  \/ AcceptFails \/ Refuse \/ Accept \/ Spin
  \/ \E fd \in Fds :
       \/ HangUp(fd) \/ ReadEvent(fd) \/ ReadFails(fd)
       \/ WriteNothing(fd) \/ WriteStalls(fd) \/ WriteKeeps(fd)
       \/ WriteCloses(fd) \/ WriteFails(fd) \/ WriteSpins(fd)

Client == Connect \/ \E c \in Conns : ClientSend(c) \/ ClientClose(c)

\* The slots come from new http_conn[MAX_FD], fresh zero pages of the kernel.
Init ==
  /\ born = 0 /\ accepted = 0 /\ edge = FALSE
  /\ unread = [c \in Conns |-> FALSE]
  /\ shut = [c \in Conns |-> FALSE]
  /\ sends = [c \in Conns |-> 0]
  /\ stalls = [c \in Conns |-> 0]
  /\ sock = [fd \in Fds |-> NoConn]
  /\ armed = [fd \in Fds |-> "off"]
  /\ main = "wait" /\ batch = {} /\ timeout = FALSE
  /\ alarm = TRUE /\ pipe = FALSE
  /\ m_user_count = 0
  /\ timers = {}
  /\ left = [c \in Conns |-> 0]
  /\ timerfd = [c \in Conns |-> 0]
  /\ usertimer = [fd \in Fds |-> NoConn]
  /\ m_sockfd = [fd \in Fds |-> 0]
  /\ m_read_buf = [fd \in Fds |-> NoConn]
  /\ m_linger = [fd \in Fds |-> FALSE]
  /\ m_iv = [fd \in Fds |-> NoConn]
  /\ m_iv_count = [fd \in Fds |-> 0]
  /\ bytes_to_send = [fd \in Fds |-> 0]
  /\ m_workqueue = <<>>
  /\ pc = [w \in Workers |-> "idle"]
  /\ job = [w \in Workers |-> 0]
  /\ req = [w \in Workers |-> NoConn]
  /\ cnt = [w \in Workers |-> 0]
  /\ dropped = {}

Next == Client \/ TimeSlot \/ Main \/ \E w \in Workers : Worker(w)

\* Nobody waits for ever in a thread that can go on, and time passes.
Fairness ==
  /\ WF_vars(Main)
  /\ \A w \in Workers : WF_vars(Worker(w))
  /\ WF_vars(TimeSlot)

Spec == Init /\ [][Next]_vars
FairSpec == Spec /\ Fairness

-----------------------------------------------------------------------------
(* Properties. *)

Points == {"idle", "parse", "fill", "remove", "unset", "load", "store",
           "rearmIn", "rearmOut"}

\* Every variable keeps to the values its C++ counterpart can have.
FlagTypeOK ==
  /\ edge \in BOOLEAN /\ timeout \in BOOLEAN
  /\ alarm \in BOOLEAN /\ pipe \in BOOLEAN
  /\ unread \in [Conns -> BOOLEAN] /\ shut \in [Conns -> BOOLEAN]
  /\ m_linger \in [Fds -> BOOLEAN]
ClientTypeOK ==
  /\ born \in 0..MaxConns /\ accepted \in 0..born
  /\ sends \in [Conns -> 0..MaxSends] /\ stalls \in [Conns -> 0..MaxStalls]
KernelTypeOK ==
  /\ sock \in [Fds -> 0..MaxConns]
  /\ armed \in [Fds -> {"off", "in", "out"}]
MainTypeOK ==
  /\ main \in {"wait", "run", "spin"} /\ batch \subseteq Events
  /\ m_user_count \in Int
TimerTypeOK ==
  /\ timers \subseteq Conns
  /\ left \in [Conns -> 0..IdleSlots]
  /\ timerfd \in [Conns -> Fds \cup {0}]
  /\ usertimer \in [Fds -> 0..MaxConns]
ConnTypeOK ==
  /\ m_sockfd \in [Fds -> Fds \cup {-1, 0}]
  /\ m_read_buf \in [Fds -> 0..MaxConns]
  /\ m_iv \in [Fds -> 0..MaxConns]
  /\ m_iv_count \in [Fds -> 0..2]
  /\ bytes_to_send \in [Fds -> {-1, 0, 1}]
PoolTypeOK ==
  /\ m_workqueue \in Seq(Fds)
  /\ pc \in [Workers -> Points]
  /\ job \in [Workers -> Fds \cup {0}]
  /\ req \in [Workers -> 0..MaxConns]
  /\ cnt \in [Workers -> Int]
  /\ dropped \subseteq Conns
TypeOK ==
  /\ FlagTypeOK /\ ClientTypeOK /\ KernelTypeOK /\ MainTypeOK
  /\ TimerTypeOK /\ ConnTypeOK /\ PoolTypeOK

\* A descriptor that is open, registered, or reported and not handled yet has
\* its timer in the list, and that timer points back at it.  So cb_func and
\* del_timer, which every branch of the event loop calls on users_timer[fd],
\* never meet a timer that tick() or an earlier event has deleted, and every
\* open connection will be closed by its timer in the end.
InUse(fd) == sock[fd] # NoConn \/ armed[fd] # "off" \/ Reported(fd)
HasTimer(fd) == usertimer[fd] \in timers /\ timerfd[usertimer[fd]] = fd
TimerLive == \A fd \in Fds : InUse(fd) => HasTimer(fd)

\* m_user_count is the number of open connections, which is what the admission
\* check in front of init() takes it for.
UserCountExact == m_user_count = Cardinality(Open)

\* The timers in the list and the open connections are in bijection: the timer
\* made for a connection is the one its slot names and can close nothing else,
\* also after the descriptor went through several owners.
TimerOwnsConnection ==
  \A c \in timers : sock[timerfd[c]] = c /\ usertimer[timerfd[c]] = c

\* The slot of an open connection has one owner: epoll (armed), the event loop
\* (reported), the queue, or one worker; that of a closed one has none, and none
\* has that of a connection for which append() found the queue full: it is left
\* to its timer.  This is what EPOLLONESHOT and the rearming in process() and
\* write() are for, and it has to survive the reuse of the descriptor.
Owners(fd) ==
  Cardinality({e \in batch : e[1] = fd}) + Cardinality(Queued(fd))
    + Cardinality(Working(fd)) + (IF armed[fd] = "off" THEN 0 ELSE 1)
OneOwner ==
  \A fd \in Fds : Owners(fd) = IF sock[fd] \in {NoConn} \cup dropped THEN 0 ELSE 1

\* When a socket is reported writable, what write() will send is the response
\* a worker made for the request of this very connection.
WritableMeansProcessed ==
  \A fd \in Open :
    (armed[fd] = "out" \/ <<fd, "out">> \in batch) /\ bytes_to_send[fd] # 0
      => m_iv[fd] = sock[fd]

\* Every accepted connection is closed: by the client, by an error, after a
\* response, or by its timer through SIGALRM, the pipe and tick().
EveryConnectionEnds ==
  \A c \in Conns : (\E fd \in Fds : sock[fd] = c) ~> (\A fd \in Fds : sock[fd] # c)

\* Every connection in the backlog is accepted or refused, as it would be with
\* a level-triggered listener (listenfdLT).
BacklogDrained == \A c \in Conns : InBacklog(c) ~> ~InBacklog(c)
=============================================================================
