# A TLA+ model of the coroutine service framework

The repository is a C++ web server on top of a small coroutine library in the
style of sylar: an N:M scheduler of fibers over threads, an epoll reactor with
timers, hooks that turn blocking system calls into suspensions of the calling
fiber, and an HTTP server with a MySQL connection pool. This directory holds
TLA+ modules translated from that code, the TLC configurations that check them,
and TLAPS proofs of their safety. Paths below are relative to
`src/src/`; `CL/` stands for `CoroutineLibrary/`.

## 1. The system

| Part | State | Operations | Talks to |
|---|---|---|---|
| `Scheduler` (`CL/scheduler.*`) | `m_tasks` under `m_mutex`, `m_activeThreadCount`, `m_idleThreadCount`, `m_stopping`, the threads | `scheduleLock`, `run`, `stop`, `stopping` | resumes `Fiber`s; `tickle`, `idle` and `stopping` are overridden by `IOManager` |
| `Fiber` (`CL/fiber.*`) | `m_state`, `m_mutex`, the stack | `resume`, `yield`, `MainFunc`, `reset` (never called) | run by `Scheduler::run` under `m_mutex` |
| `Thread` (`CL/thread.*`) | a pthread, a start-up semaphore | constructor, `join` | started by `Scheduler::start`, joined by `stop` |
| `IOManager` (`CL/ioscheduler.*`) | `m_fdContexts` (events and waiters of each descriptor, each with a mutex), `m_pendingEventCount`, the epoll descriptor, the tickle pipe | `addEvent`, `delEvent` (never called), `cancelEvent`, `cancelAll`, `tickle`, `idle`, `contextResize` | wakes fibers through `scheduleLock`; polls `TimerManager` in `idle` |
| `TimerManager` (`CL/timer.*`) | `m_timers` (a `std::set` by deadline), `m_tickled`, `m_previouseTime` | `addTimer`, `cancel`, `refresh`, `reset`, `getNextTimer`, `listExpiredCb` | tickles `IOManager` when a timer becomes the first |
| Hooks (`CL/hook.*`) | `t_hook_enable` | `sleep` and relatives, `do_io` (all of read and write), `connect_with_timeout`, `socket`, `accept`, `close`, `fcntl`, `ioctl`, `setsockopt` | `FdManager`, `IOManager`, `TimerManager` |
| `FdManager` (`CL/fd_manager.*`) | a vector of `FdCtx`: flags and timeouts of a descriptor | `get`, `del`, `setTimeout`, `getTimeout` | used by the hooks |
| `Connection_pool` (`cglmysql/`) | a list under a lock, a counting semaphore | `init`, `get_connection`, `release_connection`, `destroy_pool` | held by a turn of `handleClient` |
| `TcpServer` (`server/tcp_server.*`), `Socket` (`util/socket.*`) | the listening sockets, `m_isStop` | `bind`, `start`, `startAccept`, `stop` | one fiber for each listening socket and each client, hooked system calls |
| `http_server`, `http_conn` (`server/`) | `users[fd]`: read and write buffer, parser state, iovecs, the mapped file; the cache of names | `handleClient`, `read_once`, `process`, `write` | the pool, the cache, the table `user` |
| `LRUCache` (`my_stl/`), `MemoryPool` (`memorypool/`) | list, index and nodes; blocks and free list | `push`, `get`, `clear`; `allocate`, `deallocate` | the global `users` of `http_conn.cpp` |
| Proxy, Address, Config, `main` | start-up data | | |

What is hard here:

* **Concurrency.** Every thread runs the same loop over one queue, and all idle
  threads wait on one epoll descriptor. A fiber registers its wakeup *before* it
  yields, so another thread may hold the wakeup while the fiber still runs.
* **Sleeping and waking.** `tickle()` writes a byte only if somebody is idle at
  that moment, anybody may drain the pipe, `m_tickled` suppresses further
  tickles, and descriptors are watched edge-triggered.
* **Timeouts.** The callback of a `do_io` timeout races with the event it
  guards, with a retry of the same call, and with `close()`.
* **Reuse of numbers.** Everything about a connection (`users[fd]`, `FdCtx`,
  `FdContext`) is indexed by a number the kernel gives out again at once.
* **Partial results.** A request comes in pieces, a response leaves in pieces, a
  query may fail or the process end between the table and the cache.
* **Shutdown.** `stopping()` combines three reads under three locks;
  `TcpServer::stop` closes sockets other fibers wait for.
* **Blocking the thread.** `sem_wait` in the pool blocks a thread, not a fiber.

What makes each part correct: a fiber is on one stack at a time and has exactly
one wakeup while it is suspended; no queued task is left behind by sleeping or
exiting threads; `stop()` returns, and only when nothing is left; no timer is
overslept by all threads, fired twice, or fired after its cancellation; no readiness of a descriptor is lost;
a pool connection has one user; a descriptor has one owner and no state of its
previous life; a request is taken whole, and its response arrives whole and in
order; an acknowledged name is
durable; the cache is a cache. `PROJECT.json` lists the hazards line by line,
with the properties that watch them.

## 2. The modules

Each model step is one critical section, or one access to an atomic or shared
variable, so every interleaving the locks allow is explored. What a fiber
computes is not modelled, only what it does to shared state.

### Scheduler

`Scheduler.tla` models `run()` on every thread of the pool, the caller included
(`use_caller = true`, as in `main.cpp`), with the `IOManager` versions of
`tickle`, `stopping` and `idle`. `pc[t]` is the place of a thread in `run` and in
its idle fiber; `task[t]` is the local variable `task`. `tickle()` is a step of
its own after `m_mutex` is released (`CallTickle`, `TickleStep`). A running fiber
submits callbacks (`Spawn`), sleeps (`Sleep`: a timer, then `yield`), waits for
its descriptor (`AddEvent`, then `yield`) or returns (`Finish`); it does at most
`MaxOps` such things. The callback of a sleep's timer is a task of kind
`"timer"` that reschedules the fiber. The set of timers orders them by deadline
only and may drop the timer of a `Sleep` while it has another one (`lost`,
section 4): that fiber is never woken.

Abstractions: deadlines and readiness are chosen by the environment (`TimerDue`,
`IoReady`); epoll_wait may always time out, since `MAX_TIMEOUT` bounds it; a
waiting fiber has a descriptor of its own; the tickle pipe is one bit, because
it is edge-triggered and drained completely. Only the caller pins tasks to
threads, before it calls `stop()`.

### TimerManager

`TimerManager.tla` models the `std::set` of timers with its comparator, which
looks at the deadline only: `Insert` drops a timer whose deadline is in the
set, and `Find` returns whatever timer has the deadline. Constructor, `addTimer`, the
tickle, `refresh`, both critical sections of `reset`, `cancel`, `getNextTimer`
and `listExpiredCb` (one step for each turn of its loop, which keeps the lock)
are separate steps, and so are the reads of the clock outside the lock. The
clock advances, and may be set back (`MaxSetbacks` times).

Any number of threads poll. `poll[p]` is where each of them is; one that is
`"awake"` has left `idle()` and may run a task for any time. There is one
`m_tickled` and one edge of the pipe: an edge is reported to one thread, which
may then run a task while the others sleep on, or be read from the pipe by a
thread that was woken by something else (`ListDone`). `m_tickled` is reset by the
`getNextTimer` of any thread, also by the one in `stopping()` (`Stopping`). So one
thread may well sleep past the first deadline while another one runs a task, by at
most `MAX_TIMEOUT`. What the code does provide is `NotAllOversleep`: never are all
threads asleep past a deadline without a tickle on its way.

Abstractions: `refresh` and `reset` of a timer are called by
one owner, `cancel` by anybody. A recurring timer has a period of at least one
tick: with `ms = 0` it would make `listExpiredCb` loop forever, and nobody makes
one. `fired` counts 0, 1, 2 (for a recurring timer 0, 1, 0, 1, ...) so that it
stays finite.

### IOManager

`IOManager.tla` models one descriptor: its `FdContext` with READ and WRITE, its
registration in epoll, the threads in `idle()`, fibers in `do_io` with and
without a timeout, the callbacks of the timers, and a `close()`. epoll is
modelled by what the code relies on: `epoll_ctl` looks at the descriptor again
and puts it on the ready list if a watched event is ready; a new arrival puts
it there too; `epoll_wait` takes it off. A step holding the `FdContext`'s mutex
is atomic. An assertion that fails sets `aborted` and ends the run: the makefile
does not define `NDEBUG`. Timers are not measured: an armed timer may expire at
any time, as a thread may be preempted for any time. The
queue between a trigger and the resumption of the fiber is the counter `woken`.
A call that fails for another reason than EAGAIN returns like a success, so it
is not told apart.

### TcpServer

`TcpServer.tla` is the server from `bind` to `stop` over the hooked system
calls, with many descriptors where `IOManager` has one. `ktype` and `nonblock`
are the kernel's descriptors; `Min(Free)` is the number the kernel gives out
next. `m_datas` is `FdManager`; `size`, `waiter` and `dropped` are
`m_fdContexts`, its registrations, and the registrations in contexts that a
resize has thrown out of it. Each accept fiber (`Acc...`) and each handler
(`Cli...`) is a process; `close()` is two steps (`cancelAll` and `del`, then
`close_f`), for the listening sockets three. `addEvent` is split at the gap
between its shared and its exclusive lock (`AccAdd`/`AccGrow`).

A handler waits in `do_io` for READ or for WRITE (`ev`). `CliRecv` arms the timer
of the wait before `addEvent`, as `do_io` does (`CliWaits`): the timer may be `"dropped"` by
the set of timers, its callback may come `"early"`, before `addEvent`, when
there is nothing to cancel, or end the wait (`"fired"`). `CliStall` is a `writev`
that gets EAGAIN: the server sets a receive timeout only (`tcp_server.cc:74`), so
that wait has no timer, and only the client ends it (`Drains`).

Abstractions: epoll reports a descriptor that is ready to the fiber registered
for it (the edges are `IOManager`'s business); a timer may expire at any time; what
a handler does in its turn is in `HttpConn`, and here only a choice to
go on, to wait in `writev`, or to close; the waits of one turn in `writev` are one.
`fcntl` and `ioctl` are called by an application in its turn. `raced` and `missed` are
history variables that name the two cases in which the code does lose a
registration (section 4).

### HttpConn

`HttpConn.tla` is one entry of `users` with the fiber that runs `handleClient` on
it, for one client after the other. `conn` is the record of the members;
`read_once`, every turn of the loop of `process_read`, `do_request`,
`process_write` and every turn of the loop of `write()` are steps. The read
buffer holds units (the text of a line, half a body, CR, LF) in place of bytes, so
that `parse_line` with its `\r\n` cases is the code's and texts are symbols. A
unit on the wire carries the buffer and the offset it came from: the iovecs are
really followed, and a wrong base or length is seen by the client. `m_string`
is an offset into the read buffer, since it is a pointer in the code. `maps`
counts the mappings that no `munmap` has released.

`write()` ends in four ways: the response is complete (`WriteLast`), `writev` fails
(`WriteFails`), `writev` fails with EAGAIN and the turn ends without `unmap()` and
`init()` (`WriteAgain`), or it does not end, because the client takes no more
(`ClientStops`) and no timer is armed. After `WriteAgain` the model goes on with
whatever the code leaves, buffer, parser, counters and mapping; `again` is true until
the next `init()`, and `agains` counts these returns.

Abstractions: which file a URL names, and whether it exists, is readable, a
directory or empty, is a choice in `DoRequest`; a status line with its headers
is one append. `Forget` clears members no later request reads, to keep the
state small (`process_write` sets the iovecs before `write()` reads them). `short` counts the short writes inside the header.

### Registration

`Registration.tla` EXTENDS `ConnectionPool` and composes it with the part of
`do_request` that registers and logs in: the look into the cache without the
lock, `m_lock`, the INSERT, the push, the page. The table is a sequence of rows
(it has no unique key) and survives `Restart`, which may come at any step and
sets up the pool and loads the cache again; `acked` are the names whose
registration was answered with success. A null connection from an exhausted
pool ends the process at `mysql_query` (`Down`), which is followed by a restart.

### ConnectionPool

`ConnectionPool.tla` models the threads that run `handleClient` turns. A turn
takes a connection (`CheckSize`, `SemWait`, `PopFront`), may be suspended with it
(`Park`) so that another thread resumes it (`Unpark`), and gives it back
(`PushBack`, `SemPost`, in separate steps as in the code). `DestroyPool` is the
destructor at the end of the program.

### BoundedCache, LRUCache, MemoryPool

`BoundedCache.tla` says what a user of `LRUCache` may rely on: the entries in
the order of their last use, at most `capacity` of them. `LRUCache.tla` is the
code: a list of node addresses, an index from keys to positions, and nodes in
slots of a `MemoryPool`. `MemoryPool.tla` has the code's arithmetic on
addresses: the block's header, the padding, `lastSlot_`, the free list. A list
iterator is named by the address of its node, since iterators survive `splice`.

### How the modules fit together

* `Registration` is `ConnectionPool` and the requests that use it: it takes the
  pool's own actions, or starts the pool again.
* `LRUCache` implements `BoundedCache` (the property `Implements`, `INSTANCE`
  with `entries` as the nodes in list order) and uses `MemoryPool`.
  `Registration` uses the cache as `BoundedCache` without a bound: a function
  from names to passwords.
* `HttpConn` takes the connection of a turn as a choice (the pool may be
  exhausted) and login and registration as the choice of a page.
* `TcpServer` takes a turn of `HttpConn` as one step and, if `writev` has to wait,
  a wait; `OneOwner` justifies that `HttpConn` has one fiber at a time on an
  entry of `users`.
* `Scheduler` abstracts `TimerManager` (`timers`, `lost`, `due`, `tickled`) and `IOManager`
  (`events`, `ready`: many descriptors with one event each).
  `WaiterHasWakeup` of `IOManager` and `OneWakeup` of `Scheduler` say the same of
  the two halves of a wait.

`MCIOManager`, `MCHttpConn` and `MCLRUCache` add values of constants and a
symmetry for TLC; the other modules are checked as they are. The proofs are in
`SchedulerProofs`, `TimerManagerProofs`, `IOManagerProofs`, `TcpServerProofs`,
`HttpConnProofs`, `ConnectionPoolProofs`, `RegistrationProofs` (which EXTENDS the one
before it) and `LRUCacheProofs`.

## 3. The runs

Passing runs:

| Run | Instance | What it shows |
|---|---|---|
| `scheduler` | 2 threads, 2 fibers, 2 operations each, the first callback pinned to the worker | `FiberExclusive`: no fiber on two threads, no `resume()` of a RUNNING fiber. `OneWakeup`: a suspended fiber has exactly one wakeup, wherever it is, although epoll may report an event to two threads, unless the set of timers has dropped its timer. `WorkHasATaker`: never do all threads sleep or exit over an unpinned task. `ExitOnlyWhenQuiescent`, `DestructorAssert`: the counters and the assert of the shutdown. `StopReturns`, `QueuedRuns`: `stop()` returns, and what the caller submitted, pinned to a thread or not, runs whenever it is queued |
| `timer` | 2 timers, one recurring, one-shot timers with `ms = 0`, one or two polling threads, a clock that may be set back | `OrderedSet`, `FiresAtMostOnce`, `CancelledNeverFires` with any clock. `NotAllOversleep`, `EventuallyExpires` while the clock has not been set back: the threads never all sleep past a deadline without a tickle on its way, and a timer whose deadline comes leaves the set |
| `io_wakeups` | a timed reader and a writer, 2 calls each, 2 idle threads, 1 arrival, a hangup, a close | `WaiterHasWakeup`: a waiting fiber is registered or woken, never both, never twice. `PendingCounts`. `NoLostEdge`: readiness is on epoll's list or in the hands of a thread, also when a timeout or a close changes the mask |
| `io_ready` | the same without timeouts, 2 arrivals | `ReadyWakes`: a fiber whose descriptor stays ready is woken |
| `tcp_server` | 1 listening socket, 2 clients, 3 numbers, the table too small at the start | `OneOwner`: a connection has one handler from accept to close, a listening descriptor a `Socket`, also after a failed `bind`. `FreshContext`: a handler finds nothing of the number's previous user. `NeverBlocksThread`. `ClientEnds`: every client is done with, a silent one by its timeout, unless its handler is in a wait that only the client ends (`UpToClient`). `StopsAccepting` |
| `http_conn` | 2 clients, 2 requests each out of 6 kinds, header of 3 units, files of 0 and 2, one EAGAIN | `ResponseInOrder`: over every sequence of short writes with at most one inside the header. `OwnRequest`: a file is sent only for a whole request that the parser has understood, however `recv` cuts it and whatever came before it. `MappingsReleased`: only an EAGAIN loses a mapping, and one at most. `ProxyAdmission`. `RequestEnds`: a request is answered or its connection closed, unless the client stops reading |
| `registration` | 3 threads, 2 connections, 2 names, 2 calls, 1 kill | `NeverPopsEmpty`, `OneUser`, `NotAllBlocked` for the pool in its use. `CacheCoversTable`, `AcknowledgedDurable`, `NoReRegistration`: table, cache and answers agree across failures and restarts |
| `lru_cache` | 4 keys, 2 values, capacities none, 1 and 3, blocks of 2 slots | `Implements`: a refinement of `BoundedCache`. `MapMatchesList`, and `SlotsSound`: no slot is lost, given out twice or over the end of its block |

Runs that show a disagreement between the code and what it says of itself; the
quotations are in `PROJECT.json`:

| Run | What happens |
|---|---|
| `timer_equal_deadlines` | two timers with equal deadlines: the second is dropped by the set and never fires |
| `io_trigger_assert` | a report of READ and WRITE handled after another thread triggered READ: `triggerEvent` fails its assert |
| `http_write` | a second short write inside the header: `iov_len` was already reduced, the rest of the header is taken to be sent |
| `registration_race` | two registrations of one name both find it free before either takes the lock: two rows |

Each property of a passing run has a mutant: a definition next to the one it
replaces, with a plausible bug, under which TLC finds the property violated.

### Bounds

* Two threads are enough for every race between two parties (take and yield,
  report and trigger, `stopping()` and a late task). The safety results are
  proved for every pool. Two fibers let one fiber's callback
  overtake the other, and two operations let a fiber wait again while traces of
  its first wait are around.
* Two timers are enough for every case of the comparator (equal, before,
  after), and two periods give both orders of the deadlines (a `reset` in the run
  `timer` gives the longer one: `NewPeriods`). Two threads are one that takes the
  tickle and one that sleeps; the safety of any number is proved. The clock is set
  back in the pool of one thread only (`SetbackPools`). `MaxTime` stops the
  clock; `MaxTimeout` is above the periods, so that sleeps end by
  deadline, by tickle and by the limit (with an empty set). `Rollover` is 0
  or 1 tick instead of an hour.
* In `IOManager` a reader and a writer are all that can wait on a descriptor;
  a second reader is turned away by `addEvent`. Two idle threads hold two
  reports of one descriptor. Two calls let a late callback of the first call meet
  the second; two arrivals let an edge come before and after a registration.
* In `TcpServer` three numbers are one listener and two clients, so numbers are
  reused and can run out; `InitSize = 3` makes every registration grow the table
  first, so that two fibers do so at once. `MaxTurns = 1`: each client sends once,
  the second one when the handler of the first has ended; a handler that has
  nothing to read, waits in `writev` or races with the other for the table needs no
  more.
* In `HttpConn` two clients share an entry and two requests a connection; three
  header units are the least that allow two short writes inside the header. The
  read buffer holds the longest request but one unit less than two, so it
  fills up; a short `recv` for each client cuts a request anywhere. One EAGAIN lets
  a turn, the rest of the client and a second client go on with what it leaves.
* In `Registration` there are fewer connections than threads, so the pool is
  exhausted, and more than one; two names and two calls are a race and a pair
  that does not race; one kill may come between any two steps.
* In `LRUCache` one entry makes every push of a new key an eviction, three
  entries need two blocks, and a fourth key evicts from a full list.

### Fairness

`Scheduler`: weak fairness for each thread (the kernel schedules it; no thread
spins on a lock), for the caller, for `TimerDue` (time passes) and for
`IoReady` (every awaited descriptor becomes ready or fails; without it a fiber
waits forever and `stop()` does too, as the code intends).
`TimerManager`: for the polling threads together (some thread of the pool runs when
one has something to do, and the tasks end; no single thread is sure to), the clock up
to its bound, and the tickle of a thread that has inserted a timer. Nobody must add,
reset or cancel.
`IOManager`: for each fiber, idle thread and timer callback, and for armed timers.
`TcpServer`: for each accept fiber, each handler with the timer of its `recv`, the
callback of `stop()`, and the report of descriptors that are readable; none for
`Drains`. `HttpConn`: for the handler where it goes on by itself; nobody is sure to
end its `recv` or its `writev`. Peers and clients owe nothing, and nobody has to
call `close()` or `stop()`.

Deadlock is checked everywhere with an explicit last state, except in
`TimerManager` and `IOManager`, where the system may stop: the clock reaches its
bound, or all calls are done.

## 4. Known deviations

Besides the four violation runs, the models show the following. Each is either
an excepted case of a property (named by a variable) or was seen while the
properties were written; none has a run of its own.

* `stop()` may return with a timer or an event registered: a thread whose idle
  fiber has returned takes one more task, queued after another thread's
  `stopping()` was true (`CL/ioscheduler.cpp:349`), and that task registers
  something. `ExitOnlyWhenQuiescent` speaks of the queue and the active threads.
* The run `timer_equal_deadlines` has consequences elsewhere. A `sleep` whose
  deadline (in the resolution of `system_clock`, so not often) equals another
  timer's is never woken (`Scheduler`: `lost`), and a `recv` whose timer was
  dropped has no timeout (`TcpServer`: `"dropped"`).
* A timeout's callback that runs between `addConditionTimer` and `addEvent`
  (`CL/hook.cpp:151`) cancels nothing, and the fiber then waits without a timer
  (`TcpServer`: `"early"`).
* Nobody calls `setSendTimeout`, so a `writev` that has to wait has no timer
  (`server/tcp_server.cc:74` sets the receive timeout only): a client that stops
  reading keeps its handler, the pool connection of the turn
  (`server/http_server.cpp:65`) and the mapping for as long as it likes. `ClientEnds`
  and `RequestEnds` except it, and TLC shows that nothing else keeps a handler.
* With several polling threads one of them may sleep past the first deadline: the
  thread that took the tickle runs a task, and `m_tickled` suppresses the tickles
  of further timers (`CL/timer.cpp:195`). The others wake after at most
  `MAX_TIMEOUT` (5 s).
* On EAGAIN `write()` returns true without `unmap()` and `init()`
  (`server/http_conn.cpp:626`), which happens to a descriptor an application has made
  non-blocking. The next turn reads behind the old request, finds the parser where
  it was, and a new file overwrites `m_file_address`: the old mapping is lost, and
  a header already refused may be forgotten (`again`).
* A POST without `Content-length` reaches `do_request` with the `m_string` of an
  earlier request, and takes for its body what the buffer has at that offset.
* A request that is cut before the proxy's header is answered with 404 behind
  nginx, and the connection goes on: the rest of it is read as the next request.
* A fiber that calls `addEvent` between `cancelAll` and `close_f`
  (`CL/hook.cpp:443`) stays registered for a closed descriptor. In `TcpServer` this
  is `missed`: such an accept fiber never ends.
* Two fibers that find `m_fdContexts` too small both resize it
  (`CL/ioscheduler.cpp:138`), and the second may shrink it and drop a context with
  a registered event: `raced`. `epoll` still finds the dropped context, the
  timeout does not.
* `ioctl(FIONBIO)` with 0 clears the kernel's `O_NONBLOCK` (`CL/hook.cpp:576`),
  and the next `recv` blocks the thread: `cleared`.
* A failed INSERT is pushed into the cache all the same
  (`server/http_conn.cpp:500`): until a restart the name is refused, and a login
  with it succeeds.
* The test of `S_IROTH` (`server/http_conn.cpp:577`) negates before it masks and
  never refuses a file; an unreadable one fails in `mmap` and then in `writev`.
  An empty file gets no answer, because its case falls through to the
  default (`:780`); nor does a missing one.
* In `TimerManager`, a `cancel()` between the two critical sections of `Timer::reset` succeeds, and
  `reset` then puts the cancelled timer back (its callback is null:
  `CancelledNeverFires`). After a rollover of the clock `listExpiredCb` would
  never leave its loop if a recurring timer existed (nobody makes one). After the
  clock is set back `refresh()`, which does not tickle, moves a deadline to an
  earlier time, and the pollers oversleep it by at most `MAX_TIMEOUT`.
* An exhausted pool returns `nullptr` at once instead of waiting; that is also
  what keeps the threads from blocking all together (`NotAllBlocked`).

## 5. What is proved

Every invariant and every action property of the passing runs except
`OwnRequest` is a theorem, for every value of the constants that satisfies the
`ASSUME`s of the modules. No
theorem takes a hypothesis besides these. A module `XProofs` EXTENDS the
module `X` it is about.

| Module | Theorem | Statement |
|---|---|---|
| `SchedulerProofs` | `TypeCorrect` | `Spec => []TypeOK` |
| | `FiberExclusion` | `Spec => []FiberExclusive` |
| | `NoStrandedTask` | `Spec => []WorkHasATaker` |
| | `QuiescentExit` | `Spec => ExitOnlyWhenQuiescent` |
| | `DestructorSafe` | `Spec => []DestructorAssert` |
| | `WakeupBalance` | `Spec => []OneWakeup` |
| `TimerManagerProofs` | `TypeCorrect` | `Spec => []TypeOK` |
| | `SetStaysOrdered` | `Spec => []OrderedSet` |
| | `AtMostOnce` | `Spec => []FiresAtMostOnce` |
| | `CancelIsFinal` | `Spec => CancelledNeverFires` |
| | `WakesInTime` | `Spec => []NotAllOversleep` |
| `IOManagerProofs` | `TypeCorrect` | `Spec => []TypeOK` |
| | `PendingExact` | `Spec => []PendingCounts` |
| | `OneWakeupPerWait` | `Spec => []WaiterHasWakeup` |
| | `EdgeKept` | `Spec => []NoLostEdge` |
| `TcpServerProofs` | `DescriptorOwned` | `Spec => []OneOwner` |
| | `ContextFresh` | `Spec => []FreshContext` |
| | `CallsNeverBlock` | `Spec => []NeverBlocksThread` |
| `HttpConnProofs` | `TypeCorrect` | `Spec => []TypeOK` |
| | `MappingsFreed` | `Spec => []MappingsReleased` |
| | `OnlyTheConfiguredWay` | `Spec => []ProxyAdmission` |
| | `SentInOrder` | `Spec => ResponseInOrder` |
| `ConnectionPoolProofs` | `TypeCorrect` | `Spec => []TypeOK` |
| | `NoEmptyPop` | `Spec => []NeverPopsEmpty` |
| | `NoPoolDeadlock` | `Spec => []NotAllBlocked` |
| | `ExclusiveUse` | `Spec => []OneUser` |
| `RegistrationProofs` | `CacheComplete` | `RegSpec => []CacheCoversTable` |
| | `AcknowledgedKept` | `RegSpec => []AcknowledgedDurable` |
| | `RefusedAfterAck` | `RegSpec => []NoReRegistration` |
| | `PoolSafe` | `RegSpec => [](TypeOK /\ NeverPopsEmpty /\ OneUser /\ NotAllBlocked)` |
| `LRUCacheProofs` | `IndexAgrees` | `Spec => []MapMatchesList` |
| | `SlotsStaySound` | `Spec => []SlotsSound` |
| | `ImplementsBoundedCache` | `Spec => Implements` |

### Scheduler

For every finite pool that contains the caller, every finite set of fibers and
every `MaxOps`. The argument is in layers, each proved inductive with the help
of the ones before it:

1. `Inv` = `TypeOK` and `ThreadInv`: a thread has a task exactly between taking
   and deactivating it. The lemmas `JumpMoves`, `ScheduleMoves`, `ControlFlow` and
   `CallerFlow` reduce every action to "thread `t` moves from this label to
   that one, seen through a call of `tickle()`" (`Moved`).
2. `FiberInv`: a thread inside a fiber owns the fiber's `m_mutex`, and a fiber with
   a free mutex is not RUNNING. `FiberExclusive` alone is not inductive, because
   it says nothing of the mutex.
3. `WorkHasATaker` is inductive given `Inv`: a thread turns away from the queue
   only when it finds no task it may take, and whoever adds a task is itself on
   its way to the queue. So the code does not depend on `tickle()` for
   safety here, only for the delay.
4. `CountInv`: `m_activeThreadCount` is the number of threads that have a task. It
   makes the one test of `Scheduler::stopping()` imply quiescence.
5. `ExitInv`: an idle fiber has returned only after `stop()`, and then no pinned
   task is queued. With `WorkHasATaker` it gives the assert of `~Scheduler`.
6. `WakeInv`: the wakeup of a fiber is in one place (the queue, the task of a
   thread, a list of expired callbacks, a timer, a registration), and it is there
   exactly when the fiber needs it and has not lost it to the set of timers
   (`Balanced`). `OneWakeup` counts wakeups in a
   set; the layer says in which places they can be (`PlaceInv`), so that each
   action moves, adds or removes one. It needs `FiberInv`: only the mutex
   excludes that a fiber is resumed with the wakeup of its next wait.

### TimerManager

For any pools, timers, periods, limit of the sleep and any number of setbacks of the
clock. `Inv` joins the properties with: a timer whose `m_next` is about to be written
is out of the set (`OutInv`), which is what makes the unlocked write of `reset`
harmless; a one-shot timer with a callback has not fired (`OneShotInv`); a cancelled
timer has no callback (`CancelInv`), whatever puts it back into the set; while all
threads sleep, a tickle since the last of them went to sleep is on its way
(`TickleInv`); and no deadline is further away than its timer's period while the
clock has not been set back (`DeadlineInv`). The last one is why `refresh()` may do
without a tickle, and where the exception of `NotAllOversleep` comes from. The
argument for several threads is about the last one to fall asleep: its
`getNextTimer` has reset `m_tickled` and looked at every timer in the set, and whoever
inserts an earlier one afterwards tickles, or finds a tickle that is still on its
way.

### IOManager

For any fibers, idle threads and bounds. The type of `m_pendingEventCount` (a
natural number) and `PendingCounts` need each other: one is not inductive without
the other. `WaiterHasWakeup` and `NoLostEdge` are inductive on top of that. The
cases are the handlers of reports, timeouts and `close()` that find an event
registered or not after somebody else was there first.

### TcpServer

For any numbers from 2 upwards, any addresses, clients and bounds. `Inv` says who
has each number: a `Socket` in `m_socks` (`SockOwn`), an accept fiber between
`accept` and `scheduleLock` or one handler (`FiberConn`, `FiberOwn`, `ConnOwned`),
and which of these is possible in which phase of the server (`SockPhase`,
`BindIdle`). `FreshContext` needs `CtxGone`: the `FdCtx` is gone from `del` on and
before the number is free, so the order of `del` and `close_f` in `close()` is what
the theorem rests on. `NeverBlocksThread` needs `LiveNonblock`, for handlers that
have not cleared the flag by `ioctl`. `CliGoes` says once what all steps of a handler
between its start and `del` have in common, whatever it waits for.

### HttpConn

For any sizes of the buffers, the header and the pages such that a header and an
error page fit into the write buffer, any sizes of files, any set of requests
(sequences of units) and any number of short `recv`s and of EAGAIN returns.

* The parser: `ParseLineOk` says what `parse_line` has found when it reports a line,
  and `OneMoreLine` that the lines before `m_start_line` are then one more.
  `ParseInv` says that the parser is at the start of a line and that
  `decide_proxy` tells whether `X-Forwarded-By` was among the lines before. This is
  the strengthening `ProxyAdmission` needs; the property itself is stated with
  the lines of the buffer (`HasLine`), not with the parser's variables. After an
  EAGAIN the loop starts in the middle of the buffer, so this layer and the two
  below about fresh state hold until the next `init()` again (`~again`).
* The writer: `ExactInv` says that, with at most one short write inside the
  header, the counters and the iovecs describe the same rest of the response,
  and that what is on the wire is its beginning. `ResponseInOrder` speaks of steps
  and is not inductive; `SumInv`, which holds over any short writes, keeps the
  counters from going below zero when `ExactInv` no longer applies.
* `MapInv` is `MappingsReleased` with what makes it inductive: a mapped file is one
  of the mappings counted, and it is not empty while it is answered, so that an
  empty file's lack of a page (`NoPage`) leaves no mapping. `BufInv`, `Quiet` and
  `FreshInv` say what `init()` has cleared when a request begins and what the
  parser and the writer may have filled since.

### ConnectionPool and Registration

For any finite sets of threads and connections, any names and passwords.
`Accounting` relates the value of the semaphore, the threads past `sem_wait` and
those that have pushed and not yet posted to the length of the list.
`RegistrationProofs` shows that the requests of `do_request` and a restart at any
step preserve it (`PoolSafe`). `RegInv` adds that `m_lock` is held from the INSERT
to the push (`LockInv`) and that an INSERT that did not fail is in the table
(`InsertedInv`). `UniqueNames`, which `registration_race` refutes, is not part of it.

### LRUCache, MemoryPool and the refinement

For any keys and values, any capacity but 0, any block, slot and pointer sizes with
`PtrSize + Align + SlotSize <= BlockSize` and slots that keep the alignment, and
any addresses `operator new` may return (apart and aligned). `Inv` has the list,
the nodes and the index inverse to each other (`Linked`), the capacity, and
`PoolOK`: `currentSlot_` is a whole number of slots behind the first one, every
slot in use or free has been carved from its block, no two overlap, and none is
lost. `AllocateOK` and `DeallocateOK` are about the pool alone. For the refinement,
`EntriesAre` says what the abstract entries of a linked list are, and
`TouchEntries`, `InsertEntries` and `EvictEntries` what the three changes of the list
are to them; `GetImplements` and `PushImplements` are the steps.

## 6. What is only model-checked

Liveness: `StopReturns`, `QueuedRuns`, `EventuallyExpires`, `ReadyWakes`,
`ClientEnds`, `StopsAccepting`, `RequestEnds`. They rest on fairness and `ENABLED`,
which the prover does not handle. `OwnRequest`: its proof would need what
`parse_line` and the loop over the lines compute from every request, an induction
over data. The absence of deadlock is checked by TLC for
the same reason. The four refuted claims of section 3 are shown by TLC's
counterexamples.

## 7. What is not modelled

* Stacks and `ucontext`, `Fiber::reset` and `delEvent` (no callers), the start-up
  semaphore of `Thread`.
* The `Scheduler` base class versions of `idle` and `tickle`: only `IOManager` is
  built.
* `connect_with_timeout`, `Socket::connect`, UDP and SSL sockets, certificates: the
  server does not use them. `Address`: conversions without state.
* The ET mode of `read_once` (`handleClient` asks for LT), the counter
  `m_user_count` (never read), `delete_proxy` (no caller), `FindCache` (replaced by
  `LRUCache`), `Config` and logging.
* `stop()` followed by another `start()`: `m_socks` is empty by then.
* The data race of `users.get` without `m_lock` on library containers: its outcome
  is undefined, and `Registration` takes it to be atomic.

## 8. Plan

The safety of every module is proved, but for `OwnRequest`. What is left, in this order:

1. The steps between modules that are now argued in words (section 2, "How the
   modules fit together"): that `Registration` uses the cache as `BoundedCache`
   allows, and that a turn of `HttpConn` is the step or the wait `TcpServer` takes
   it to be.
2. Safety halves of the liveness properties: measures that no step increases
   (calls and operations left), which bound how often a fiber waits again before
   `stop()` can return.
3. `connect_with_timeout`, as one more caller of the actions of `IOManager`.
