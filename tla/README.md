# WqTinyWebServer in TLA+

TLA+ specifications of the server in `src/`, the TLC runs that check them on
small instances, and proofs that TLAPS checks for all of them.

The server is a half-sync/half-reactive HTTP server. One main thread waits in
epoll, accepts, reads and writes; a pool of worker threads parses requests and
makes responses; a sorted list of timers closes idle connections; a log thread
writes what the others log; a pool of MySQL connections and a map in memory
serve the login pages.

## 1. Inventory

| Component | State | Operations | Talks to |
|---|---|---|---|
| Reactor, `main.cpp`, with `addfd`/`modfd`/`removefd`, `init`, `read`, `write`, `process`, `close_conn` of `http/http_conn.cpp` | epoll set, pipe, `timeout`, `users[fd]`, `users_timer[fd]`, `m_user_count` | one branch of the event loop per kind of event; `sig_handler`, `timer_handler`, `cb_func` | everything |
| Thread pool, `threadpool/threadpool.h` | `m_workqueue`, `m_queuestat`, `m_stop` | `append`, `run`, `~threadpool` | main thread appends, workers take |
| MySQL pool, `CGImysql/` | `connList`, `reserve`, `FreeConn`, `CurConn` | `GetConnection`, `ReleaseConnection`, `connectionRALL` | each worker, around `process` |
| Blocking queue, `log/block_queue.h` | `m_array`, `m_size`, `m_front`, `m_back` | `push`, `pop`, `clear`, `full`, `front`, `back` | the log |
| Log, `log/log.cpp`, `log/log.h` | `m_count`, `m_today`, `m_fp`, `m_log_queue` | `init`, `write_log`, `flush_log_thread` | every thread writes, one flushes |
| Timer list, `timer/lst_timer.h` | `head`, `tail`, `prev`, `next`, `expire` | `add_timer`, `adjust_timer`, `del_timer`, `tick` | main thread only |
| Accounts, `http/http_conn.cpp` | the map `users`, the table `user`, `m_lock` | `initmysql_result`, login and registration in `do_request` | workers, MySQL |
| Request parser, `http/http_conn.cpp` | `m_read_buf`, `m_read_idx`, `m_checked_idx`, `m_start_line`, `m_check_state`, `m_url`, `m_linger`, `m_content_length`, `m_string`, `cgi` | `read`, `process_read`, `parse_line`, `parse_*`, `init` | main reads, a worker parses |
| File lookup, `do_request` in `http/http_conn.cpp` | `m_real_file`, `m_file_stat`, `m_file_address` | `do_request`, `unmap` | the parser before it, the writer after it, the accounts for the two forms |
| Response writer, `http/http_conn.cpp` | `m_write_buf`, `m_write_idx`, `m_iv`, `m_iv_count`, `bytes_to_send`, `bytes_have_send` | `process_write`, `write` | a worker fills, main sends |
| Locks, `locker/locker.h` | POSIX objects | `wait`, `post`, `lock`, `broadcast` | all of the above |
| Timing wheel, `timer/wheel_timer.h` | slots, rotations | `add_timer`, `del_timer`, `tick` | nobody: it does not compile |
| `utils/` | - | wrappers of system calls | nobody |

What is hard in it:

* **Descriptors are reused.** `users[fd]` and `users_timer[fd]` are found by a
  number the kernel gives to the next connection while an event, a queued slot,
  a worker or a timer may still mean the previous one.
* **A slot has no lock.** The main thread and a worker share an `http_conn`; only
  `EPOLLONESHOT` and the moment of rearming keep them apart.
* **Signals.** `SIGALRM` interrupts `sem_wait` in any worker, since `addsig` sets
  no `SA_RESTART` and `sem::wait()`'s result is ignored everywhere.
* **Two critical sections where one is needed.** The size test of the MySQL
  pool, `full()` then `push()` in the log, the lookup before the INSERT.
* **Dates and limits.** Rollover at midnight and by number of lines while lines
  are in flight; `-1` indices in the ring; `MAX_FD` that counts connections.
* **Pieces.** A request comes cut anywhere, also between a CR and its LF, and a
  response leaves in pieces, over two blocks.
* **Slots outlive requests.** `init()` resets part of an `http_conn`. What it
  leaves (`cgi`, `m_string`, `bytes_to_send`, `bytes_have_send`, `m_iv`) meets
  the next request, also that of another client.
* **Everything has to go on.** A lost wakeup, an alarm that is not armed again or
  a write loop that does not end stops the server.

What makes each component correct is stated in its module, under "Properties".
`PROJECT.json` lists the hazards by line with the properties that watch them.

## 2. Modules

| Module | Models | Checked by |
|---|---|---|
| `Reactor` | the event loop, the slots, the workers' side of them | `MCReactor*`, `ReactorProofs` |
| `ThreadPool` | `threadpool<T>` | `MCThreadPool`, `ThreadPoolProofs` |
| `ConnPool` | `connection_pool`, `connectionRALL` | `MCConnPool`, `ConnPoolProofs` |
| `HttpParser` | `read`, `process_read`, the parsers of lines, `init` | part of `HttpConn` |
| `ResponseWriter` | `do_request`'s files, `process_write`, `write`, `unmap` | part of `HttpConn` |
| `HttpConn` | a slot: parser, writer and its clients in turn | `MCHttpConn`, `HttpConnProofs` |
| `ResponseSlot` | what `Reactor` relies on of a slot | refined by `HttpConn` |
| `BoundedFifo` | what `block_queue` promises | refined by `BlockQueue`, used by `Log` |
| `BlockQueue` | `block_queue<T>` | `MCBlockQueue`, `BlockQueueProofs` |
| `Log` | `Log` | `MCLog`, `LogProofs` |
| `TimerSet` | what `sort_timer_lst` promises | refined by `TimerList` |
| `TimerList` | `sort_timer_lst` | `MCTimerList`, `TimerListProofs` |
| `UserTable` | the accounts | `MCUserTable`, `UserTableProofs` |

### Reactor

A handler of the main thread is one action: it runs to its end before the next
event. `EpollWait` reports any ready set (`Ready`) as a `batch`; the handlers
take its events in any order, and `TimerHandler` (if `SIGALRM` was among
them) or `EndOfEvents` closes the round. `HangUp`, `ReadEvent`, `ReadFails`,
`WriteNothing`, `WriteStalls`, `WriteKeeps`, `WriteCloses`, `WriteFails` and
`WriteSpins` are the branches of `main.cpp:211-298` with what `read()` and
`write()` return.

A worker is cut wherever the main thread could see the difference: `Take`,
`ParseMore` or `Parse`, `FillFile`/`FillError`/`FillEmpty`, the four steps of
`close_conn()` (`Remove`, `Unset`, `Load`, `Store`: the decrement of
`m_user_count` races, so either side's update may be lost), and the `modfd` at
the end (`RearmIn`, `RearmOut`).

`append()` drops a slot when the queue is over its bound, and nobody looks at its
result; `dropped` remembers the connection. A `writev` to a client that has closed
its end may succeed, until the client's RST comes, or fail: both are branches.
`HasSocket` says whether `m_sockfd` of a slot is an open descriptor, which decides
what `recv`, `writev` and `epoll_ctl` do with it.

Connections are numbered in the order they are opened. `sock[fd]` says which one
has a descriptor, and buffers hold the number of the connection their bytes
belong to. So a response sent to the wrong client is visible although no byte is
modelled. `bytes_to_send` keeps its sign: for an error page the code leaves the
count of an earlier response in place, and `Sent` and `WriteSpins` are what can
come of it. Timers are named after the connection they were made for; `left`
counts the time slots to their expiry.

Two abstractions to know of. A full `m_read_buf` and a `recv` error are one
outcome, `ReadFails`. And `m_workqueue`'s semaphore is left to `ThreadPool`: in
`Reactor` an idle worker takes the first slot as soon as there is one, which is
what `SemaphoreCoversQueue`, `FifoOnce` and `EveryRequestProcessed` justify.

`SlowWorkers` says whether a timer may expire while its connection is in the
queue or with a worker. The code does not exclude it. Properties about the slots
(`OneOwner`, `WritableMeansProcessed`) hold only without it, and
`MCReactorSlowWorker` shows what happens with it. Properties about timers, the
count and the end of connections are checked and proved with it.

### HttpParser, ResponseWriter, HttpConn

`Reactor` has many slots and no bytes; `HttpConn` has one slot and its bytes. One
thread at a time works on a slot (`OneOwner`), so `pc` is where the slot is:
`"in"` or `"out"` in epoll, `"read"` in `read()`, `"parse"`, `"do"` and `"fill"`
in a worker, `"spin"` in a loop of `write()` that does not end.

*Data.* A stream is a sequence of symbols (`Text`): the text of a line is one
symbol, its CR and its LF are two, a byte of a body is one. Requests are cut
between any two symbols, so between the lines, between CR and LF and inside the
body, which is where the state machine can be interrupted. `m_read_buf` is a
buffer of `READ_BUFFER_SIZE` symbols, the `'\0'` that the code writes over line
ends and behind a body is `NUL`, and all indices are the code's. A byte of a
response is its block and its offset in it.

*Actions.* `Recv`, `ReadDone` and `ReadFails` are the three ways through the loop
of `read()`. Each turn of the loop of `process_read()` is one action: `NoLine`,
`parse_request_line`, `RefuseRequestLine`, `parse_headers`, `EndOfHeaders`,
`parse_content`. `do_request` picks a page (which page a form leads to is
`UserTable`'s matter: both are possible), `lookup` does `stat`, its checks,
`open` and `mmap`. `FillFile`, `FillError` and `FillEmpty` are `process_write()`,
and the rest is `write()`, with any amount for each `writev`. `init` resets
exactly the fields the code resets. `Close` is a hangup or the timer.

*History.* `response` and `received` are what was prepared and what the client
got, `posted` whether the slot has served a POST, `regular` whether the count of
`write()` started from zero and its headers were not cut twice; the properties say
what holds under these conditions, and section 3 why they are needed.

*Upwards.* `ResponseSlot` is `Reactor`'s picture of a slot's response: the number
of blocks and the sign of `bytes_to_send`. `ImplementsSlot` shows that the bytes
lead to nothing else, so `Sent` and `WriteSpins` of `Reactor` are justified.

### ThreadPool, ConnPool, BlockQueue

A critical section is one action; everything outside one (`post()`, `wait()`,
the unlocked size test of `GetConnection()`) is an action of its own.
`WaitInterrupted` is `sem_wait` failing with `EINTR`. In `BlockQueue`,
`pthread_cond_wait` ends a critical section, and may return by itself (`Wakes`).
`back()` is an operator that `IndicesAgree` compares with the last item of the
queue; `clear()` may come at any time, although the program never calls it: it is an
operation of the template, and `IndicesAgree` and `ImplementsFifo` hold with it.

### Log

`write_log()` is cut into `Call` (reads the date), `Count` (under `m_mutex`:
counts the line and changes the file), `Full`, then `Push`/`PushRefused` or
`Write`. The flush thread pops and writes. A line is its number; `file[f]` is
what `fputs` put into each file. The queue is `BoundedFifo`, which
`MCBlockQueue` shows that the ring implements.

### TimerList

The pointer operations are functions from the list before to the list after, in
the code's case order. `WellLinked` makes every dangling or missing link visible.
A freed timer's fields are cleared so that a pointer to it cannot pass unnoticed.

### UserTable

A request to register goes `Find`, `Lock`, `QuerySucceeds` or `QueryFails`,
`Insert`; one to log in goes `Login`, which is `find()`, and `Compare`, which is
`users[name]`. The lookups hold no lock: while another worker is inserting, each may
miss a name. `Restart` loses the workers and rebuilds the map from the rows. The
`SELECT` names no order, so of several rows of a name any may win, where the running
server keeps the first. No file of the repository creates the table, so `unique`, whether the
database refuses a second row of a name, is either in every run and proof.
`alone` remembers whether requests have come one at a time.

Names, passwords and the SQL text are abstract values.

## 3. Runs

Each run takes less than two minutes. Where a configuration says
`CHECK_DEADLOCK FALSE` the model really stops: the budget of calls or
connections is spent, the pool was destroyed, or the process aborted.

| Run | Question | Instance |
|---|---|---|
| `MCReactorOwners` | has a slot one owner, is the response its own, are the count and the timers' owners exact | 2 descriptors, 2 workers, 2 connections of 2 sends, files and error pages, workers faster than timers |
| `MCReactorEnds` | does every handler find a live timer, is every connection closed in the end | 1 descriptor used twice, `MAX_FD` 1 (reached while a worker closes a connection), 2 workers, queue bound 1, slow workers, `EAGAIN`, fair, files and empty files |
| `MCHttpConn` | is a request understood in any pieces, does the client get its bytes, does the slot keep to `ResponseSlot` | buffer of 14 symbols, 2 connections, 2 requests out of 11, files of 0, 1 and 2 bytes, headers and error pages of 3, fair |
| `MCThreadPool` | lost wakeups, order, is every request processed | 3 workers, bound 1, 4 appends, 1 null request, 2 signals, fair |
| `MCConnPool` | are connections lost or shared, who waits, who gets NULL | 4 threads, 2 connections, 2 signals, fair |
| `MCBlockQueue` | is the ring a bounded FIFO, does a full one drain | 2 values, 2 consumers, capacity 3, spurious wakeups, fair |
| `MCLog` | where is each line, how long is the first file and a later one, what can a single writer rely on | 2 writers, 4 lines, queue 1, files of 2, 1 midnight, fair |
| `MCTimerList` | is the list sorted, linked, a timer set | 5 timers, times 0 to 3 |
| `MCUserTable` | what users are told, does the map follow the table, which names has it without a row | 3 workers, 2 names, 2 passwords, 5 requests, 1 failure, 1 restart, a unique key or none |
| `MCReactorSlowWorker` | *violated:* is what is written the response to the connection | 1 descriptor used twice, slow workers |
| `MCReactorBacklog` | *violated:* is every connection accepted | 2 descriptors, fair |
| `MCReactorSpin` | *violated:* does every connection end when error pages are sent | 1 descriptor used twice, fair |

Several properties of these runs say under which condition they hold, because the
code gives no more: until a first signal, until midnight, with a single thread
logging, while requests come one at a time, until a first INSERT fails. The same
run also has the behaviours outside the condition, for its other properties.

Why the bounds are enough. Reuse of a descriptor needs two connections on one
number; a third lets a leftover of the first meet the second's successor. A worker
and the main thread, or two workers, are what any race here is between; a third
worker lets one be overtaken. A queue of bound 1 is empty, at its bound and one
over it. A ring of three wraps around with items on both sides of the end. Five
timers have a head, a tail and three in the middle, so that a timer can be moved
over more than one. In `MCLog` four lines are logged and the second file may hold
three, two of its own and the one counted before it: `FileBound` is met exactly, and
a count that starts anew with each part breaks it. For the files after it, whose bound
is more than four, it is the theorem `FilesBounded` that says something. No run fills
the queue of `Reactor`; a full one is left to the theorems `OneOwnerEach` and
`TimersLive`. `IdleSlots` is 1: more slots only delay an expiry. In `MCHttpConn` the longest
request fills the 14 symbols to the last and is refused, the others fit; two
requests on one connection or on two in turn are what a leftover needs; headers
and error pages of 3 bytes are cut before, in and after the middle, and a file of
2 makes a response longer and a file of 1 one shorter than a leftover count. That
the bounds do not hide the hazards is what the mutants show: for each property
of each passing run the specification holds a mutated form of a definition of the
code (marked `Mutant`) that violates it within the same bounds.

### Where the code does not do what it says

Three runs check a property that a comment of the repository states, and fail.
`PROJECT.json` quotes the comments.

* `MCReactorSlowWorker`: a worker slower than the timer arms the next owner's
  descriptor, and that client gets the response to the earlier request.
* `MCReactorBacklog`: the listener is edge-triggered whatever the comment says, and
  one connection is accepted per event: the second of two waits for a third.
* `MCReactorSpin`: an error page sent against the count left by an earlier response
  keeps the main thread in the loop of `write()` for ever.

Other disagreements were met while modelling. They are behaviours of the models,
and the reason for the conditions on the properties:

| Code | What it does | Condition it forces |
|---|---|---|
| `http_conn.cpp:639`, `:107` | a request for an empty file: the worker closes the connection and counts it down, and its timer does so again | `UserCountExact`, `TimerOwnsConnection` are for replies that are not empty files |
| `main.cpp:188` | compares the number of connections, not the descriptor, with `MAX_FD`, "最大文件描述符" | none: the model's slots have no end |
| `threadpool.h:102` | a signal ends `wait()` and the worker meets an empty queue, which the comment at `:105` thinks impossible | `TakersFindWork` holds until a signal comes |
| `threadpool.h:81` | `>` lets one request more than `m_max_requests` in | `TypeOK` has the bound that holds |
| `threadpool.h:72` | `m_stop` wakes no worker in `sem_wait` | none |
| `sql_connection_pool.cpp:59` | more threads than connections: NULL, although a wait follows | `WorkersServed` counts the threads inside |
| `sql_connection_pool.cpp:63` | a signal lets a thread pop an empty list | `PopFindsConnection` holds until a signal comes |
| `block_queue.h:69` | `front()` returns the slot before the head; nothing calls it | not modelled |
| `log.cpp:140` | `full()`, then `push()` whose refusal is ignored: with two writers a line is lost | `SoleWriterLosesNothing` |
| `log.cpp:143` | a line that finds the queue full is written at once, before those in the queue | no property about the order |
| `log.cpp:98`, `log.h:50` | lines counted for one file are written to the next, which gets too long | `Inherited` in `FileBound` |
| `log.cpp:69` | the date is read before the mutex is taken: the log can go back to yesterday's file | `SoleWriterFilesAreDated` |
| `http_conn.cpp:341` | a body that comes in two pieces is never complete: `parse_line()`, called after the first look at it, moves `m_checked_idx` over the first piece, and the rest is compared with the whole length from there; the request stays unanswered, where the comment at `:291` says "判断http请求是否被完整读入" (is the request read completely) | `BodyCut` in `RequestAnswered` |
| `http_conn.cpp:266` | `Connection: keep-alive` with a space, as browsers send it, is not recognised; only tabs are skipped | `keep` in `Understood` |
| `http_conn.cpp:305` | a line that ends in a bare LF is bad, and a bad line is treated like an incomplete one: no answer, the timer ends the connection | `bareLF` in `Answerable` |
| `http_conn.cpp:498` | error pages leave `bytes_to_send` alone; on a fresh slot it is 0 and the page is not sent | `RequestAnswered` is for files |
| `http_conn.cpp:516` | `bytes_have_send` is not reset: the next response of the slot is sent wrongly as soon as one `writev` does not take it all; and a second cut inside the headers repeats the count's mistake | `regular` in `ClientGetsPrefix` |
| `http_conn.cpp:213` | `cgi` is not reset: a GET after a POST on the slot may be read as a form | `posted` in `FormReadsItsBody` |
| `http_conn.cpp:479` | a connection closed while its file is mapped leaves the mapping behind | the bound of `MappingsBounded` |
| `http_conn.cpp:487` | a mapping left behind is undone with the length of the last `stat`, of another file: pages stay mapped, or pages behind it are unmapped | `mapped` counts mappings, not pages |
| `threadpool.h:81`, `main.cpp:253` | a slot that finds the queue full is dropped, switched off by `EPOLLONESHOT`, until its timer closes it; `MAX_FD` connections are more than the 10000 of the queue | `dropped` in `OneOwner` |
| `http_conn.cpp:319` | a refused request leaves the parser in its line; what follows is parsed as a request line | none: `init()` of `write()` comes first for a client that waits |
| `sql_connection_pool.cpp:39`, `:102` | `exit(1)` with the mutex held, then `~connection_pool` locks it again; `DestroyPool()` unlocks twice | not modelled |
| `sql_connection_pool.cpp:50` | `reserve = sem(FreeConn)` copies a `sem_t`, which POSIX leaves undefined; the build's copy works | none |
| `log.cpp:44` | `log_name` is set only if the name has a `/`, and `main.cpp` passes none: later files have no name | `log_name` is part of `Files` |
| `http_conn.cpp:402` | the lookup is outside the lock: two workers register one name | `AloneNamesUnique` |
| `http_conn.cpp:406` | a failed INSERT leaves the name in the map, until a restart: its owner can log in, and nobody can register it | `CacheFollowsTable` holds until then, the bound of `UnstoredNames` |
| `http_conn.cpp:51` | of several rows of a name the map has any after a restart, and the first before | the rows of the start in `CacheFollowsTable` |

## 4. Fairness

* `Reactor`: weak fairness of the main thread as a whole, of each worker, and of
  the passing of time. The kernel schedules runnable threads. No fairness is
  assumed of clients, of particular events, nor between the actions of a thread.
* `ThreadPool`: `append()` returns, and each worker that can take a step does. A
  worker may starve others at the semaphore; some worker serves the request.
  Nothing makes the main thread append or destroy.
* `ConnPool`: each thread goes on once it is inside; none has to begin.
* `BlockQueue`: a consumer that can have the mutex gets it. Producers, `clear()`
  and spurious wakeups are not fair.
* `HttpConn`: the main thread and the workers go on (`WF` of `Server`); clients need
  not ask, send the rest of a request, or stay.
* `Log`: the flush thread runs, and a writer that is inside `write_log()` goes on.

## 5. Proofs

`ReactorProofs`, `HttpConnProofs`, `ThreadPoolProofs`, `ConnPoolProofs`,
`BlockQueueProofs`, `LogProofs`, `TimerListProofs` and `UserTableProofs` prove theorems for every
value of the constants that meets the named assumptions
(`ReactorAssumption` and so on: naturals, finite sets of threads and
descriptors, values that are not members of other sets, pages that are not empty).
Each theorem is about the specification without fairness. `TypeOK` is a theorem of each of these modules,
so only `MCThreadPool`, `MCLog` (as part of `FileBound`) and the unproved modules (as
part of `WellFormed`) run it.

* **Reactor.** `TimerLive` is not inductive by itself. `TimerInv` adds the types,
  that a batch has one event of a descriptor (`OneEvent`: else the second would
  meet the timer that the first deleted), that timers in the list belong to
  accepted connections (`TimersAccepted`: the timer of a new one is fresh), and
  that a busy worker has a slot. `TimersLive` holds for all replies, delays and
  workers. For `UsersCounted`, `CountInv` adds that no worker closes a connection,
  which is why it assumes `"empty" \notin Replies`, and `TimersOwn` reads off the
  same invariant that no timer is that of a later owner. `MCReactorOwners` checks
  both without slow workers; the theorems have them.
* **Who has a slot.** The second half of `ReactorProofs` assumes `Quick`: no slow workers and no
  empty files, as the runs that violate `OneOwner` otherwise show it must. `OwnInv`
  says of each owner that it excludes the others (`ArmedAlone`, `ReportedAlone`,
  `QueuedOnce`, `WorkedOnce`), and what keeps it so: an owner's descriptor is open
  (`BusyOpen`), `modfd` works for it (`SlotsSet`), and no timer is due whose slot
  is busy (`DueIdle`). `Owned` says that an open connection has an owner exactly if
  it is not among the `dropped`. Counting then gives `OneOwner`. Nothing is assumed
  of the queue's bound: a full queue loses slots, and nothing else does. That a
  connection so lost still has its timer is `TimersLive`. On top of `OwnInv`, `AnswerInv` follows the connection from
  the bytes read over the request parsed to the blocks that are sent.
* **HttpConn.** `ParserInv` (types, `Room`: what `process_read()` may look at is
  behind `m_start_line` and in front of the end of the buffer; `Streams`) gives
  `TerminatorSafe`. `WriterInv` adds `Blocks` and `FileBlocks` (what the two blocks
  still hold against `bytes_to_send`, in each stage of sending), `Mappings` (a
  mapping alive beyond those of closed connections is in `m_file_address`) and
  the types of the histories; `FileReplies`, `OneMappingEach` and `SlotImplemented`
  follow from it step by step. `BytesInv` says where in the response the two
  blocks begin (`Laid`) and that they hold what the client lacks (`Left`), which
  makes `PrefixReceived` inductive: for all lengths of headers and files and all
  splits.
  `FoundInv` follows a request from its first symbol. `Reads` says that from
  `m_start_line` on the buffer, then the socket, then the client hold its text;
  `AtRequestLine`, `AtHeader` and `AtBody` say in front of which line the parser
  stands and what the lines before it have set. `TextSymbols` gives the text symbol by
  symbol, and `TextLine`, `EmptyLine`, `BareLine` and `NoLineEnd` what `parse_line()`
  makes of any piece of it: the whole line, or a place from which it finds the line
  when the rest has come. Two things keep it inductive: after a response, `init()`
  finds nothing left in the socket (`Parsed`, `Idle`), and a request of an unknown
  method leaves only symbols that no later line can be accepted from (`Refusing`),
  until the client has a byte of the error page and the connection is closed.
  `RequestsUnderstood` and `FormsReadTheirBody` hold for every set of requests with a
  page that is not empty, every size of the buffer and every way to cut them.
* **BlockQueue.** `IInv` adds `Meet`: an empty ring has both indices together. The
  lemmas `Remainder`, `SlotAfter`, `SlotAfterNext` and `SlotsDiffer` are the
  arithmetic of the ring from -1 on; with them each critical section is shown to be
  the step of `BoundedFifo` of its name, or none. So what `Log` assumes of its queue
  holds for every capacity.
* **Log.** `TypeInv` needs to know that each line counted was logged (`Counted`),
  since a writer between its call and its critical section has one that was not.
  `PlaceInv` says without counting that a line is in no place twice, in no two
  places and in some place; each action moves one line, and `PlacesCounted` turns
  that into `EachLineOnce`. `SoleInv` is about the first thread as long as no second
  one has logged: behind `full()` it finds room (`RoomLeft`), and no line it has in
  hand, in the queue or in a file is younger than the file it goes to (`HandDated`,
  `QueueDated`, `FilesDated`). `SoleStays` shows that the condition, once broken,
  stays broken. `FillInv` bounds the files until midnight: the lines of the open file
  and those `Ahead` of it (in the queue, with the flush thread, counted and in hand)
  are at most its `Own`, counted since it was opened, and the `Inherited` ones, which
  were ahead when it was opened: a full queue, the flush thread's and one of each
  writer but the opener, and never more than were counted before it
  (`InheritedBound`). `NextLine` is the arithmetic of `m_count % m_split_lines`
  that makes a part's own lines `m_split_lines` at most.
* **TimerList.** The loops of `add_timer` and `tick` follow pointers, so what they
  return has no proof by induction over a number. `Ends(next, live)`, which
  `WellLinked` states, stands in for it: each set of live timers has one whose
  `next` leads out of it, so that the timers for which a claim fails, if there are
  any, have a last one. In this way `FindDef` and `WalkDef` show that the recursive
  functions of the model are defined, `BeforeFound` that a place found has smaller
  times before it and larger ones behind, and `WalkedFrom` and `WalkDue` that a
  tick, which stops at the first timer that is not due, passes all that are. The
  invariant `ListInv` adds the same of `prev`, and that timers outside the list have
  their fields cleared (`Clear`). Each operation then puts a timer at a place
  (`PutChain`, `PutOrdered`), takes one out (`TakeChain`, `TakeOrdered`) or cuts off
  the front (`CutSound`); `AddSound`, `AdjustSound`, `DeleteSound` and `TickSound`
  lead from a sound list to a sound list. `TimerSetImplemented` maps each call to
  the step of the same name of `TimerSet`.
* **ThreadPool.** `NoLostWakeup` needs to know how the number of workers past
  `wait()` changes with each step; `EmptyTestUnused` strengthens the inequality to
  an equation, which holds until a signal comes.
* **ConnPool.** `Inv` says that only a thread in `process()` has a connection, that
  the counters count the list and the holders, that together they are all
  connections, and that the semaphore and those that passed it make up for all of
  them. `WorkersAreServed`, `UsersHaveConnections` and `NoEmptyPop` count threads
  against connections from there: in the first two no more threads than
  connections are inside, in the third no signal has come, so that the balance is
  exact.
* **UserTable.** `Inv` adds that a busy worker has an account, and that what a
  worker is about to report as stored is in the table. That rows only grow makes
  the rest stable. `AloneInv` is about requests that come one at a time: one worker
  is busy, each stored name is known to the map or about to be, a name that was not
  found is not known, and each name has one row. `CacheInv` allows races: `m_lock`
  lets one worker insert (`OneInserts`), its new row is the last one (`NewIsLast`),
  and as long as no INSERT failed for want of a database a refused one means that
  the name is stored (`RefusedStored`). With them `Follows` says what the map has
  for one name, and each step disturbs one name at most. `UnstoredNames` needs to
  count also the names on their way into the map after an INSERT that failed
  (`Missing`): only such an INSERT adds one, and for one that was refused the table
  has a row.

Every invariant that a passing run checks is a theorem. Only model-checked is what
is temporal beyond invariants and refinements, for which the proof system has no
rules (fairness, `ENABLED`).

## 6. Not modelled

* **Library calls that fail.** `pthread_cond_wait` on a mutex that is held does not,
  so `pop()` does not return false. `fopen` may, when a part or a day begins; its
  result is not tested, and the process ends with the next `fputs`. A failed
  `SELECT` ends it in `mysql_num_fields(NULL)`, before any thread exists.
* **Two changes of the tree of `users` at once.** `users[name]` inserts an empty
  password if it misses a name that `find()` saw, which takes another worker's
  insertion in between; what the two leave of the tree is undefined.
* **CR and LF in a body**, where `parse_line()` could find a line.
* **The text of lines.** A line is one symbol: `strpbrk`, `strcasecmp`, the limits
  of the fixed path buffer, a malformed version or a header in an odd form are not
  in `HttpParser`. Nor are a negative `Content-Length`, a form without a body
  (which reads an old `m_string`), and clients that send a second request before
  they have the first response (`init()` throws it away).
* **`INTERNAL_ERROR`**, which no path returns, and headers that do not fit
  `m_write_buf`, whose size they are far below.
* **A file that changes between `stat` and `mmap`**, and `mmap` that fails for
  another reason than a length of 0.
* **`DestroyPool()`**, run at exit by the destructor of a static object, and the
  constructors' exceptions when a POSIX object cannot be made.
* **`http_conn`'s fields before the first `init()`**: `new http_conn[MAX_FD]` takes
  fresh zero pages of the kernel, and the models begin with zeros.
* **The timing wheel**: included nowhere, and it does not compile.
* **`utils/`**: wrappers that `main.cpp` does not use.
* **The clock going backwards.** Timers and log dates only move forward.

## 7. Plan

Done, in this order: `Reactor`; `ThreadPool`; `ConnPool`; `BoundedFifo` and
`BlockQueue`; `Log`; `TimerSet` and `TimerList`; `UserTable`; proofs of the
invariants of `Reactor`, `ThreadPool`, `ConnPool` and `UserTable`; `HttpParser`,
`ResponseWriter`, `HttpConn` and `ResponseSlot` with their proofs;
`BlockQueueProofs`; the owners of a slot in `ReactorProofs`; `LogProofs`; proofs of the map and the
unique names in `UserTableProofs`; `TimerListProofs`.

Next:

1. A composition of `Reactor`'s queue with `ThreadPool`, and of its timers with
   `TimerSet`, so that these abstractions in `Reactor`, too, are refinements that
   are checked.
2. `TimerList` with a clock that goes back.
