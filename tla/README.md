# megalo: models, checks and proofs

megalo is a C++ server framework: fibers scheduled over threads (N:M), timers,
an epoll event loop, hooked system calls that suspend a fiber instead of
blocking a thread, and on top of them sockets, streams, a byte array, a TCP and
an HTTP server, configuration and logging. This directory holds TLA+ models of
its concurrent core and of what is built on it, TLC configurations that check
them, and TLAPS proofs.

## Inventory

| component | state | operations | interacts through | what is hard |
|---|---|---|---|---|
| fiber (`fiber.*`) | `m_state`, `m_cb`, `m_ctx` | reset, swapIn, swapOut, call, back, YieldToHold, YieldToReady, MainFunc, destructor | context switches with the scheduler's `run`; shared pointers | `m_state` is a plain field written by several threads; published before the context is saved |
| scheduler (`scheduler.*`) | `m_fibers`, active and idle counts, stop flags; `run`'s locals | schedule, start, stop, run, idle, stopping | called by users, timers, events; runs fibers | scan, dispatch and settling race with wake-ups; termination detection |
| timer (`timer.*`) | ordered set `m_timers`, `m_tickled`, `m_previousTime`; per timer `m_ms`, `m_next`, `m_cb` | addTimer, addConditionTimer, cancel, refresh, reset, getNextTimer, listExpiredCb | IOManager's idle threads sleep until the first timer and schedule the callbacks | lost wake-ups through `m_tickled`; keys in the set versus fields; wall clock set back |
| iomanager (`iomanager.*`) | table `m_fdContexts`, per descriptor events and waiters, `m_pendingEventCount`, epoll set, tickle pipe | addEvent, delEvent, cancelEvent, cancelAll, contextResize, idle, tickle, stopping | epoll; triggerEvent calls schedule | reports that are stale when processed; table growth; the count read without a lock |
| hook (`hook.*`) and fd manager (`fd_manager.*`) | FdCtx table with flags and time-outs; per call `timer_info` | do_io, connect_with_timeout, close, socket, accept, sleep, fcntl, ioctl, setsockopt | a timer, an event and a fiber per blocking call | time-out, readiness, close and descriptor reuse racing each other |
| bytearray (`bytearray.*`, `endian.h`) | node chain, position, size, capacity, byte order | typed reads and writes, setPosition, addCapacity, iovec views | used by streams | block boundaries; zigzag and varint at the ends of the ranges |
| socket, streams (`socket*`, `stream*`) | descriptor, addresses, connected flag | bind, listen, accept, connect, send, recv, readFixSize, writeFixSize | hooked system calls | partial reads and writes |
| tcp server (`tcp_server.*`) | `m_socks`, `m_isStop` | bind, start, startAccept, stop and its closure, destructor | the accept worker's threads run one fiber per socket and the closure; the worker runs handleClient | the closure is delayed and runs beside the loops; loops that wait do not see the flag; a loop uses a number that may be another socket's by then; `m_socks` has no lock |
| http messages and sessions (`http/http*`, `http_session`, `http_server`) | request, response, parser, buffer and offset | recvRequest, sendResponse, handleClient, dump, the parsers' callbacks | a socket stream on one side, servlets on the other | a parser fed in pieces, bodies across reads, keep-alive, peers that close |
| http automata (`http11_parser.rl.cc`, `httpclient_parser.rl.cc`) | `cs`, `mark`, `field_start`, `field_len`, `query_start`, `nread`, `content_len` ... | init, execute, finish | call the callbacks | 349 and 123 states; marks that outlive their buffer; words recognised inside general headers |
| servlets (`servlet.*`) | `m_datas`, `m_globs` | add, delete and match | handleClient | order of the patterns |
| configuration (`config.*`) | value and listeners per variable, the global map | Lookup, setValue, listeners, fromString, LoadFromYaml | hook, log and http listen | notification and assignment are two critical sections; conversions that fail in the middle of a document |
| log (`log.*`) | loggers with level, formatter and appenders | getLogger, setFormatter, addLogAppender, delLogAppender, LogIniter, LogFormatter::init, log | configured through "logs" | patching loggers from the difference of two documents; inheritance of formatters |
| thread, address, utilities | none of their own worth modelling | pthread wrappers, text, backtraces | | |

For each component, what makes it correct:

* scheduler and fiber: every scheduled callback is executed once, by one thread
  at a time, where it was pinned; a fiber is only entered when its context is
  saved and only reset or destroyed when it is finished; the counters that
  `stopping()` reads are exact; `stop()` returns, and only when all is done.
* timer: nobody oversleeps the first timer; no callback early; a timer that was
  cancelled or has fired stays silent; the set's keys agree with the fields.
* iomanager: the pending count is exact; zero means nobody waits; epoll watches
  exactly what is registered; a registered event can be found again.
* hook: a suspended call is resumed by exactly its registration; it fails only
  by its own time-out; nothing it armed is left behind; it returns.
* bytearray: the chain of blocks is one sequence of bytes with a position; what
  was written is read back; no operation runs off the chain.
* http: a request is handed over as it was written, however it was cut; a
  response is read back as it was written; nothing of one message becomes part
  of the next; the session of a client that has closed ends.
* tcp server: one loop per listening socket; connections are accepted while it
  runs; after `stop()` it comes to rest. Servlets: a path is answered by whom its
  users last meant.
* configuration and log: listeners know the value; everybody who looked a name up
  has the same variable; a document takes effect as a whole; a logger is what its
  definition says; a pattern is taken for what it says.

## Modules

| module | models | state ↔ code |
|---|---|---|
| `TaskPool` | what the scheduler promises its users: the life of a callback and `stop()` | abstract |
| `Scheduler` | `scheduler.*`, `fiber.*` | variables carry the names of the fields; `pc[t]` is the place in `run()`; `ft`, `cb_fiber`, `idleTerm` its locals; `ctx` what `swapcontext` into a fiber would find |
| `MCScheduler` | instances | |
| `SchedulerProofs` | theorems about `Scheduler`; the refinement of `TaskPool` | |
| `TimerManager` | `timer.*` and the time-out part of `IOManager::idle` and `tickle` | `wpc` is the place in `idle`: getNextTimer, epoll_wait, listExpiredCb and the drain of the pipe are steps of their own; `pipe` is whether the tickle pipe is empty, has a byte epoll has not reported yet, or one it has; `m_timers` is the set of `<<key at insertion, timer>>`, so an entry whose timer's `m_next` has changed is not found, as in the code |
| `MCTimerManager`, `TimerManagerProofs` | instances, theorems | |
| `IOManager`, `MCIOManager`, `IOManagerProofs` | the event table, the four event functions, table growth, the event part of `idle` | `lock` is the mutex of each FdContext; `interest`, `target` are epoll's side; `got` is what `epoll_wait` returned |
| `Hook`, `MCHook`, `HookProofs` | `do_io`, `connect_with_timeout`, `close`, `socket`/`accept` on one descriptor number, with FdManager's entry | `waiter`, `interest` stand for the IOManager, `scheduled` for the scheduler's list; `timers`, `fired`, `locked`, `firing` are the stages of the time-out callback |
| `FlatBytes` | what a byte array promises: a sequence and a position | abstract |
| `ByteArray`, `MCByteArray`, `ByteArrayProofs` | `bytearray.*`, `endian.h`, and SocketStream's transfers | `nodes` is the chain, `m_cur` an index into it or `Null`; widths of bytes and words are parameters; `items` remembers what was written where |
| `HttpChars` | the bytes the two automata tell apart, the form of a transition table | one character per class of bytes that both automata treat alike |
| `RequestMachine`, `ResponseMachine` | the transitions of the generated automata | states have the numbers of the generated code; a definition per part of the grammar; `do` lists the actions in the order the code runs them |
| `HttpMessage` | `http.h`, `http.cc`, the callbacks of `http_parser.cc`, init, execute and finish of both parsers | a parser is a record of the fields of `http_parser` and `httpclient_parser`; `at` is `p - buffer`, `exn` a callback that throws, `crash` a call through an uninitialised pointer |
| `HttpSession`, `MCHttpSession`, `HttpSessionProofs` | `handleClient`, `recvRequest`, `readFixSize`, `sendResponse`, `writeFixSize` and a client with an `HttpResponseParser` | `data`, `offset`, `left`, `body` are recvRequest's locals; `wire` and `back` are the stream |
| `TcpServer`, `MCTcpServer`, `TcpServerProofs` | `tcp_server.*`, what it uses of `socket.cc`, `servlet.*` | `loops` are the fibers of startAccept, `tasks` the accept worker's list, `closing` the closure of stop(); `open` are the sockets with a descriptor and `Owners` who has a number now; `lost`, `late` and `hasty` record the exceptions the properties name |
| `Config` | `config.h`, `config.cc`: the registry, the listeners, setValue, LoadFromYaml, what a container makes of its elements | `s_datas`, `m_val`, `m_cbs` as in the code; `at` is the place inside setValue and LoadFromYaml; `told` is what listeners were told; `Statics` are the variables there before `main`; `Cast` and `Members` are parameters |
| `ConfigYaml` | the recursive part of the conversions and `ListAllMember`, which the configuration of TLC gives for `Cast` and `Members` | YAML nodes are records |
| `Log`, `MCLog` | loggers, formatters, appenders and `LogIniter`, composed with `Config` | `m_loggers`; a formatter is its pattern, items and `m_error` |
| `ConfigProofs` | theorems about `Config` and `Log` | |

**Atomicity.** A critical section is one step; every access to shared state outside
one is a step of its own: in `Scheduler` each access to `m_state` after a context
switch, in `TimerManager` the reading of the clock before the lock, the call of
`onTimerInsertAtFront` after it and the drain of the tickle pipe after
`listExpiredCb`, in `Hook` the registration of a call and its suspension, in
`TcpServer` `cancelAll`, the real close and the reset of `m_sock`, in `IOManager`
the look-up of a context, the lock of the context, each trigger and the decrement of
the count. The reads of `m_state` that `run()` makes one after the other in one
if-else chain are one step. A failing `MEGALO_ASSERT` ends the process: it sets
`fault`, after which nothing happens.

**What is external.** The wall clock (it advances and may be set back), the
kernel's side of epoll (it may refuse any `epoll_ctl` in `IOManager`; in `Hook`
it may refuse a registration), and the peer of a socket.

**Abstractions.** Callbacks, fibers, timers and descriptors are model values.
`Ops[c]` says what a callback may do: schedule others, wait for a wake-up, yield
READY, throw. The wake-up of a waiting fiber (`Wake`) stands for every source there
is: a timer, an event, `sleep`, another fiber. The scheduler goes through `start`
and `stop` once. In `Hook`, `addEvent`, `cancelEvent` and `cancelAll` are one step
each; `IOManager` takes them apart. Between `addEvent` and `YieldToHold` everything
can happen in `Hook`, but a fiber that was scheduled there runs again only after it
has suspended: what goes wrong otherwise is `Scheduler`'s subject. Two callbacks of
timers of one and the same call count as one in `Hook`: the second returns at once
because `cancelled` is set. HTTP text is a sequence of characters, each standing for
the bytes the automata treat alike ("9" for 3, 4 and 6 to 9, "z" for the letters in
no recognised word): the properties are about what is recognised where. The other
HTTP methods differ from GET and HEAD in their letters only. YAML nodes are trees
whose scalars are plain. In `TcpServer` the accept worker has `AcceptThreads`
threads (the tests' servers run on `IOManager iom(2)`, which makes two:
tests/test_tcp_server.cc:24, tests/test_http_server.cc:16,
examples/echo_server.cc:72), and the user's thread is another hooked thread. The
numbers of listening sockets (`Fds`) are used again; those of the accepted
connections are `Hook`'s subject. The destructor of a socket (`cancelAll`,
FdManager's `del`, the close) is one step, and so is `addEvent` with the suspension
after it. A user's program is a sequence of calls (`Programs`), stopped at any
point.

**The automata.** The transition tables were written from the generated code and
compared with it: for every state and each of the 256 bytes (and both values of
`uri_relaxed`) next state and actions were taken from the C++ by a script and
found equal to the tables, without exception. `TablesAssumption` has TLC check
that no state has two transitions for a character.

## Runs

Passing runs:

* **SchedPool** - two workers and the caller's thread, three callbacks, each pinned
  to a thread of its own; the first may schedule the others, the last is wrapped in a
  user's fiber that may yield READY, after which any thread resumes it.
  `CountersExact`, `RunsOnce`, `StartsWherePinned`, `NoFault` (no assertion of the
  fibers fails), `ImplementsPool` (refinement of `TaskPool`), and under fairness
  `EveryTaskFinishes` and `StopReturns`. `StartsWherePinned` speaks of the start: a
  fiber that comes back from a suspension is listed without its thread (see the
  deviations).
* **SchedSingle** - one worker, callbacks that hold, yield READY or throw, one of
  them in a user's fiber, the others in the thread's `cb_fiber`: `TypeOK` and
  `FaultsOnlyThrown`. An assertion fails only after a callback has thrown, or when
  the thread takes a task while its `cb_fiber` belongs to a callback that yielded
  READY; the run contains both.
* **Timers** - two idle threads, a recurring and a one-shot timer, durations 0
  and 1, a clock that moves from 5 to 6 and may be set back by 3, more than the
  tolerance: `NoOversleep`, `CbIffListed`, `RetiredStaysRetired`, `NeverEarly`.
  `NoOversleep` and `NeverEarly` speak about behaviours in which the clock was
  not set back. A tickle may be written while a thread is between epoll_wait and the
  drain of the pipe, which then swallows it; `NoOversleep` is why that does no harm:
  the thread that swallows it calls `getNextTimer` afterwards. `NeverEarly` also asks
  that no thread is held up by more than `Hour` between reading the clock and taking
  the lock (`Punctual`): an older `now_ms` looks like a rollover and expires every
  timer. With `Hour` = 1 a thread may be as late as the tolerance allows, so stale
  readings are part of the property.
* **IoEvents** - two descriptors beyond the end of the table, so that two callers may
  both decide to grow it and the second shrink it; on the larger one a reader that
  registers twice and a writer, on the smaller one a reader; two idle threads, a
  caller of `delEvent`, `cancelEvent` and `cancelAll`: `PendingExact`, `StopSafe`,
  `EpollAgrees`, `RegisteredReachable` (what is registered is found again, or its
  descriptor was cut off by a shrink, `cut`).
* **HookCalls** - a connect and then a write on one socket, which is closed, and
  a write on the next socket with the same number; all timed, signals and late
  time-outs included, and every event also between `addEvent` and `YieldToHold`:
  `ResumedOnce`, `TimeoutIsOwn`, `NoTimerLeft`, and under fairness `ReadyResumes`.
* **Bytes** - two-byte blocks, up to three of them, bytes of two bits, words of
  four and eight bits, one kind of value per behaviour (fixed, variable-length,
  zigzag of both word sizes, strings with both length codings) with values at the
  edges, one that `EncodeZigzag64` has no room for included: `CurAgrees`,
  `ViewsAgree`, `CrashesOnlyAtEnd`, `ReadsBack` (of what `Fits`), and
  `ImplementsFlat` (refinement of `FlatBytes`). It is sequential: the hard part is
  the cached block pointer over long sequences of calls.
* **Http** - one connection, both ends. `RequestsAsWritten` and `NothingLeftOver`
  (what recvRequest hands over), `FaultsOnlyIfSplit` (assertions, exceptions),
  `AnswerReadsBack` (what dump writes, the client's parser reads, with every header
  the parser has states for, empty ones and near misses included; chunk headers),
  and under fairness `SessionEnds`: once the client has closed, whatever it left
  unsent or unread, the session ends. The first two speak about headers that came in
  one read and clients that wait for their answers: for the others the code gives no
  such promise (see HttpSplit and the deviations).
* **Server** - two accept threads, two numbers for the listening sockets.
  `NoTwoWaiters`, `DispatchAgrees`, and under fairness `StopQuiesces` and
  `ConnectionsServed`. They name their exceptions, all of which the run contains: a
  `start()` that came before the loops of an earlier one had ended or before the
  closure of a `stop()` had run (`hasty`), whose loops may meet the old ones in
  addEvent's assertion; sockets a failed bind took out of `m_socks` (`lost`), which no
  closure closes; a loop that registers between the last `cancelAll` on its socket and
  the real close, and waits for ever (`late`); and accept threads that are all taken by
  loops that missed a `stop()` (`Spinning`).
* **ConfigLog** - `ListenersFollow`, `HandlesAgree`, `LoadTakesEffect`,
  `LoggersAgree`, `PatternsAsWritten`. `LoadTakesEffect` says what the last member
  of a name that can be converted does, whatever the members before, between and
  after it are, for a load that no other thread's call met. `ListenersFollow` speaks
  about changes that met no other call on the variable (`mixed`), `HandlesAgree`
  about names that were looked up with one type. `PatternsAsWritten` takes "%%" for
  what the code makes of it, a percent sign in front of an item, not for the escape
  that log.cc:398 lists; the run has it in front of items, of texts and at the end,
  where the pattern is refused.

Violation runs, each a disagreement of the code with a line of the repository
(quoted in `PROJECT.json`, "findings"):

* **SchedHoldRace** - `run()` writes HOLD into a fiber that another thread has
  already resumed; the fiber's next yield fails its assertion.
* **HookTimeout** - the time-out fires before the event is registered; the call
  then waits without one. (With `Late = FALSE` the property holds: this is the
  only way.)
* **HttpSplit** - a header in two reads fails the parser's assertion on `nread`.

### Bounds

Two threads are enough for every race found and every pairwise interleaving; the
races are between a thread that leaves a fiber and one that enters it, two idle
threads with reports of one descriptor, or a timer callback and a call. `MaxQueue`
keeps callbacks from yielding READY on a long list (each READY adds an entry).
Timers: two timers are needed for an order in the set, a time-out of 0 and 1 for
equal and different keys; with `Hour` = 1 a set-back of 3 makes
`deleteClockRollover` fire, and one tick makes a reading stale without that.
IoEvents: `FewAdds` says how often each waiter registers, twice where a report may
meet the next registration; two descriptors are what a shrink needs; `MaxGen` is the
number of FdContext objects for one descriptor number (orphaned by a shrink, or
not). HookCalls: one direction; one piece of data for it; two calls of one fiber let
the first one's late callback meet the second, two sockets let it meet the next
owner of the number. Http: reads of all there is, of 1 or 3 bytes, or of 1 or 3
fewer, so that a body is cut at its start, inside and before its end, and a header
in its first line or before its last line end; URIs of up to three characters over
one character of each kind; every combination of method, version, connection, body
and one more header; targets of every form of the grammar; two requests, waiting and
pipelined. A garbage value for each uninitialised field. Server: up to two listening
sockets at a time, more after a restart, on two numbers; two accept threads, so that
a loop, a closure and another loop meet; two connections to one address; every order
of bind, start and stop that differs in what the closure may meet; up to four
servlet calls. `MaxLoops` is the number of loops `FairSpec` is stated for, at least
as many as a program of the run starts. ConfigLog: two threads, one variable of each
kind of type, three documents in every order, patterns of up to three tokens,
conversions of nodes of every kind to every kind of type. What the bounds leave out,
the proofs cover for the properties they state.

### Fairness

`Scheduler!FairSpec`: weak fairness of each thread's `run()` and of the owner's
`start` and `stop` - operating system threads that are runnable run, and `idle` of
the scheduler polls rather than blocks - and strong fairness of a callback's return:
one that may yield READY again and again returns at last. Nothing obliges anybody to
submit work or to wake a fiber. `Hook!FairSpec`: weak fairness of each runnable
fiber, of `idle()` reporting a ready descriptor, and of the stages of a time-out.
Nobody has to call, send, or close. `HttpSession!FairSpec`: weak fairness of what
the fiber that serves the connection does without waiting for anyone (`Unblocked`):
reading what is there or the end of the stream, handling a request, failing to write
to a client that is gone. A write that waits for the client to read is not among
these: TcpServer sets a receive time-out only (tcp_server.cc:69), the send time-out
stays -1 (fd_manager.cc:17) and do_io then arms no timer (hook.cc:118). Nor is the
receive time-out itself, which do_io may lose (HookTimeout). Nothing is assumed of
the client. `TcpServer!FairSpec`: weak fairness of each accept loop, of the accept
threads taking what is listed, of the closure, of epoll reporting a connection, and
of the workers; the user may stop calling and clients need not come.

## Proofs

`SchedulerProofs`, for any finite set of workers, any callbacks, fibers, pins
and behaviours (`ThreadsAssumption`, `TasksAssumption`):

* `SchedulerTypeOK`, `SchedulerCountersExact`. The counts are not inductive: a
  decrement is right only if the thread was counted, and a thread that comes back
  from a switch must still hold a fiber. `IInv` therefore joins `Typed` (domains),
  `LocalsOK` (which of `ft` and `cb_fiber` is set at each `pc`), `OwnerOK` (no
  thread is in `run()` before `start`, nor the caller before `stop` enters it) and
  `CountersExact`. Counting lemmas (`CountMove`, `CountersStep`) turn a move of one
  `pc` into a change of the cardinality by -1, 0 or 1.
* `SchedulerRunsOnce` - a callback is in one place: the list, a thread's hands,
  or a fiber, and holds whatever the callbacks do, faults included.
* `SchedulerStartsWherePinned`, whatever the callbacks do, on any number of threads,
  yields and failed assertions included. `PinInv` carries the thread of a callback from
  the entry to the fiber that has not run yet; it rests on
  `FreeUnheld`, that nobody has a pointer to a fiber object that is created anew.
* `SchedulerFaultsOnlyThrown`: under `Supported`, callbacks yield only on a
  scheduler of one thread, and READY only in a user's fiber. Both halves are needed:
  with two threads run() writes HOLD into a fiber that another thread has resumed
  (SchedHoldRace), and a `cb_fiber` that yielded READY is in the list and kept for
  reuse. The invariant `SoundInv` speaks of states in which no assertion has failed.
  For every fiber (`FiberOK`) it relates `m_state`, the saved context, the callback
  and who will switch into it, by where the thread that is in it stands; at most one
  thing - the list, a waker, a thread's hands - leads into a fiber (`AwaitedOnce`);
  and `StopOK` says that once a thread has seen `stopping()` nothing is queued and
  no callback runs on any thread, ever again (`Quiet`).
* `SchedulerNoFault`, `SchedulerImplementsPool`: if moreover no callback throws
  (`NoThrow`). Every step of `Next` moves at most one callback of `TaskPool` and
  along the order of its life, by one lemma per action; `Close`, the return of
  stop(), finds all callbacks finished or never submitted because of `Quiet`. Two
  workers or more are covered for callbacks that run to completion.

`TimerManagerProofs`, for any timers, threads, durations and clock jumps
(`TimesAssumption`): `TimersTyped`; `TimerCbIffListed`, by induction with `LifeOK`
(a timer that is constructed but not inserted has its callback, a retired one has
none); and `TimerRetiredStaysRetired`, an action property that follows from it: what
`listExpiredCb` hands out was listed, what is listed has its callback, and a retired
timer has none. `TimerNeverEarly` needs that no `now_ms` is later than the clock
(`ReadBefore`). `TimerNoOversleep` rests on `Attended`: whenever `m_tickled`
suppresses tickles a look at the set is still to come (a thread on its way to
`getNextTimer`, the drain included, a byte that epoll has not reported, or an
announcement: `LookComes`), and while it does not, some thread's time-out covers the
first timer (`Covered`). A thread that swallows a tickle is itself on its way.

`IOManagerProofs`, for any descriptors, callers and idle threads, a kernel that may
refuse any `epoll_ctl`, and a table that may shrink (`TableAssumption`,
`ActorsAssumption`): `IOManagerTypeOK`, `IOManagerPendingExact`,
`IOManagerStopSafe` and `IOManagerEpollAgrees`. The invariant `IInv` adds where
`fd_ctx` points (`TableOK`, `LocalsOK`: a place that is looked up is filled, because
only descriptors from 2 on make the table grow), that exactly those who
trigger hold the mutex (`MutexOK`), that an event is gone between `triggerEvent` and
the decrement (`DecOK`), that whoever waits is registered (`WaitingOK`), and
`Watched`: `EpollAgrees` for locked contexts too, counting only the events their
holder will not trigger. From `Watched` follows that of the contexts a descriptor
has had one at most is watched, which is why an orphaned context does no harm to
epoll. `IOManagerReachable` holds in every behaviour, the shrinking ones included: a
waiter about to register holds the context of its place (`HoldsSlot`) unless a resize
has cut the place off, a filled place keeps its context, and only a resize to a smaller
table cuts descriptors off (`cut`), so a shrink is the only way to lose an event.

`HookProofs`, for any directions, sockets, calls and data, with late time-outs,
signals, closes and reuse of the number (`BoundsAssumption`):
`HookResumedOnce`, `HookTimeoutIsOwn`, `HookNoTimerLeft`. The invariant adds
that an event context holds a fiber of its direction (`WaiterOK`), that an armed
timer is of its fiber's present call, which is between arming and cancelling it
(`ArmedOK`), and that a callback is of a call already made and, if of the present
one, has its expiry remembered (`FiredOK`). `HookResumedOnce` spans the gap between
`addEvent` and `YieldToHold`: what triggers, cancels or closes in it schedules a fiber
that has not suspended yet.

`TcpServerProofs`, for any program of calls (`ProgramsAssumption`), any number of
addresses, accept threads, numbers, restarts and connections: `ServerNoTwoWaiters` and
`ServerDispatchAgrees`. For the first: no two loops that have not
ended use one number, as long as no `start()` was hasty (`LoopsOK`). That rests on
`SocksOK` (no two open sockets have one number, and `m_socks` names each of its
sockets once) and `QueueOK` (the worker's list holds a loop once, and only while it
does not run).
The exception is a real one: with two accept threads a loop of the second `start()` can
register before the closure of the `stop()` between them has cancelled the first.
For the second, `Mirrors`: `m_datas` and `m_globs` are what the calls made so far
leave, `m_globs` in the order of the oldest call that still stands.

`ConfigProofs`, for any threads, programs, static variables, types, conversions and
documents (`StaticsAssumption`; values have no type at all):

* `ConfigListenersFollow` and `ConfigHandlesAgree`, about `ConfigSpec`, the registry
  with threads that also make other calls (`Elsewhere`). The invariant `IInv` says, of a
  variable that is not `mixed` (`Follows`): one thread at most changes it, and each
  listener is still to be called or was told the value that thread will assign; before
  the assignment nobody is left to be called. `HandlesOK` adds that a name somebody has
  a pointer for is registered.
* `ConfigLoadTakesEffect`. A load is many steps: for each member a look-up, a
  conversion, a notification per listener and an assignment. `LInv` carries through them
  that the members already passed are in effect and that the change under way is the one
  the present member asks for (`LoadOK`); it needs `IInv`, because a variable named twice
  is changed twice. `ProgramsAssumption` says that programs and lists of members are
  sequences.
* `LogImplementsConfig`: `Log`'s specification, where the listener of "logs" patches
  loggers, implements `ConfigSpec`, so the three theorems hold of the composition.
* `LogLoggersAgree`. `LogIniter` is told the old and the new definitions and touches only
  loggers whose definition differs. That the others are right already is the invariant:
  `GInv` says that what the listener was told last (`told[1]["LogIniter"]`) is the value
  or the one about to be assigned, and that a set of definitions has one of a name;
  `HInv` that every logger nobody touched by hand agrees with what the listener was told
  last. `LogAssumption`: "logs" is the first static variable with `__log_init`'s listener,
  as in log.cc; callers of `setValue` pass a set with one definition of a name, which
  `std::set<LogDefine>` guarantees them; nobody can remove a listener whose key only
  `__log_init` has had. For documents `LogSetHasOneEach` proves what is assumed there of
  the conversion: whatever the elements are, the container keeps one of a name.

`HttpSessionProofs`, for any scripts of a client, cuts of the stream, sizes of the
buffer and responses: `HttpRequestsAsWritten`, `HttpNothingLeftOver` and
`HttpAnswerWhole` (the client's parser is given the text of one response, whole). What
the automata do with the characters is data; it enters as a contract,
`MessagesAssumption`: a new parser that has read the first n bytes of a message, its
header included, rejects it only if the script calls it malformed, and otherwise what
lies behind the header is the body the header announces. TLC evaluates the contract
with the whole automaton for every message, every n and all garbage on the Http run.
The theorems are about everything else: the buffer, its offset, what is moved to the
body, the reads after it, the new parser for the next request, the partial sends. The
invariant `SessionOK` speaks of behaviours in which every header came in one read and the
client waited: recvRequest starts with an empty buffer and nothing or one whole message on
its way (`RecvOK`); while a body is read, what was read and what is on its way make up
the body (`BodyOK`); a response comes back before the next request (`AnswerOK`). TLC has
checked it on the Http run.

`ByteArrayProofs`, for every block size, number of blocks, width of bytes and words,
set of values and sequence of calls: `ByteArrayCurAgrees`,
`ByteArrayCrashesOnlyAtEnd`, `ByteArrayBuffersAgree`, `ByteArrayViewsAgree`,
`ByteArrayReadsBack` and the refinement `ByteArrayImplementsFlat`. The assumptions
are `WidthsAssumption`, `ValuesAssumption` (a value is one of its C++ type) and
`PowersAssumption`, which says of 2^n what it means, since the prover does not know
it; TLC evaluates all three. The invariant is `CurAgrees` with
0 <= m_position <= m_size <= m_capacity (`Bounds`). Its steps rest on the arithmetic
of blocks (`SplitSum`: going on i bytes from an offset in a block gets to the block
and offset of position + i), on `GrownReady` (addCapacity makes the room it is asked
for and finds the block, at the capacity too) and on `EncodedLong` (every value has
at least one byte, so that write() never looks at a null block).

writeToFile is a loop. Its state after k turns, from the start of a block, is written
down outright (k blocks further on, their bytes written), and `LoopsAgree` shows that
the recursion computes just that: two loops that start alike and go on alike cannot
differ at a least turn. The same lemma gives the closed form of the sums that put a
number together from its bytes and groups.

`ReadsBack` needs the invariant `ItemsOK`: what the remembered items say was written
is still where they were written, as `Encoded` gives it, inside the size; `StepItems`
shows that growing, seeking, reading and writing elsewhere keep it. Then each reader
takes back what its writer wrote: `FixedBack` (bytes in either order), `SignedBack`,
`ZigzagBack` and `VarintBack`, which rest on `RemainderTwice` (the remainder by a
product is made of the remainders by its factors). `Fits` leaves out what the code
does lose (see the deviations).

Only model-checked: liveness (`EveryTaskFinishes`, `StopReturns`,
`ReadyResumes`, `SessionEnds`, `StopQuiesces`, `ConnectionsServed`) and
everything with ENABLED, which the prover does not handle; and what the
automata, the conversions and `LogFormatter::init` compute, which is
induction over data: `FaultsOnlyIfSplit` (a pipelining client lets a new parser start
in the middle of a message, so no contract about messages covers it),
`AnswerReadsBack`, `PatternsAsWritten`.

## Known deviations without a run

* A callback that throws leaves its fiber in EXCEPT; `run()` resets it
  (scheduler.cc:203), and `Fiber::reset` asserts INIT or TERM (fiber.cc:88).
* `cb_fiber` that yielded READY is put into the list and kept for reuse; the
  next callback resets it while it is still to run (scheduler.cc:201).
* A fiber that was scheduled for one thread loses the thread at its first suspension,
  when it yields READY (scheduler.cc:184) or is woken (iomanager.cc:38, hook.cc:165),
  although README.md:66 says fibers can be fixed to a thread.
* A callback that yields READY is counted out (scheduler.cc:181) before it is listed
  again (scheduler.cc:184). If `stopping()` is evaluated in between, a thread leaves;
  when the callback then schedules work pinned to that thread, `stop()` never returns.
* do_io's EINTR loop does not assign `n`: data that the repeated call delivers
  is lost (hook.cc:109-111; modelled as `RepeatTakes`).
* `connect` uses `s_connect_timeout`, -1 until the configuration changes, so the
  default of `tcp.connect.timeout`, 5000, is never used (hook.cc:17, 63).
* `ioctl(FIONBIO, 0)` makes the descriptor blocking under the hook
  (hook.cc:444-452), and `sleep` multiplies seconds by 1000 in 32 bits.
* `EncodeZigzag64` returns 32 bits (bytearray.cc:115), so writeInt64 loses the rest:
  without `Fits`, `ReadsBack` is violated by the run's Int64 value 127, where words
  have four bits. tests/test_bytearray.cc asserts it for `rand()`, whose values fit.
  In the same way writeStringF16 writes only 16 bits of the length.
* Reading an empty string whose length field ends at the capacity dereferences a
  null block (bytearray.cc:350; the `"read"` fault of `ByteArray`).
* `writeToFile` from a position inside a block computes lengths that are too
  small or negative (bytearray.cc:435); `ViewsAgree` asks for the start of a block.
* `getReadBuffers(buffers, len, position)` clips `len` with the current position
  (bytearray.cc:549); `ViewsAgree` asks for positions up to the current one.
* Events and hook: a report that waits for a descriptor's mutex may trigger an
  event that was cancelled meanwhile, which `triggerEvent` asserts against
  (iomanager.cc:341, 32); `contextResize` called by two threads may shrink the
  table (iomanager.cc:99); a call that registers between `close`'s `cancelAll` and
  the real close leaves its event to the next owner of the number, whose `addEvent`
  asserts (hook.cc:343, iomanager.cc:108). `IOManager` and `Hook` contain all three
  (in the third `ResumedOnce` and `TimeoutIsOwn` still hold).
* Timers: a thread held up for more than an hour between reading the clock and
  `listExpiredCb`'s lock takes the time for set back and expires all timers
  (timer.cc:136, 148).
* A client that does not read holds the fiber of its session for ever: no send time-out
  is set (tcp_server.cc:69, fd_manager.cc:17, hook.cc:118).
* `setRecvTimeout(0)` is a time-out of nothing: the call fails at once.
* HTTP messages: `dump` writes `content-length: N` and the body without the blank
  line between them (http.cc:164-166, 289-291; the messages of
  tests/test_http_parser.cc:10 have it), so the body becomes a header line or an
  error at the other end. `AnswerReadsBack` therefore speaks about responses without
  a body.
* HTTP sessions: besides the assertion of HttpSplit, a header in two reads may throw
  `length_error` from a callback's string or drop bytes of the body; the test for a
  full buffer (http_session.cc:34) never holds, since the automaton takes at least
  one byte;
  `handleClient` goes on after a request with `connection: close` and loses what
  a client sent ahead.
* HTTP automata: `CharsToHttpMethod` compares prefixes (GETX is GET, http.cc:21-29);
  decimal octets of an address are 0-19, 100-209 and 250 only; `6( h16 ":" )` in the
  grammar is read as the byte 6; header names may hold control characters. In the
  client's automaton state 120 is the only final one `is_finished` accepts, so an
  empty Connection, Transfer-Encoding or Content-Length as the last header is never
  finished.
* TCP server: a bind that fails while the server runs empties `m_socks`, and `stop()`
  then closes nothing (tcp_server.cc:52). After `stop()` and `start()` a loop may
  register before the closure has cancelled the earlier one on the same socket, and
  `addEvent` asserts (iomanager.cc:108). `stop()` and `start()` before the old loop looks
  leave it spinning on its closed socket, on one of the accept threads. A loop that
  registers between `cancelAll` and the real close (hook.cc:343) is never resumed.
  `m_socks` is read by the
  user's thread and emptied by the closure without a lock; `start()` after the
  closure finds nothing to listen on.
* Configuration: two setters, or `addListener` between notification and assignment,
  leave a listener told a value other than `m_val` (config.h:314); `Lookup` with
  another type replaces the variable for all who come later; an exception
  other than `bad_lexical_cast` leaves `LoadFromYaml` in the middle of a document; a
  scalar loaded into a container gives an empty one, a map loaded into a vector is
  looked up by the numbers 0, 1 and so on (config.h:71-74), and a sequence loaded into a
  map throws (config.h:206-211). (`ListAllMember`
  has rejected a name with a capital before `LoadFromYaml` lowers it.)
* Log: "%%" is no escape although log.cc:398 lists it: the first sign is copied and the
  second begins an item, so "%%m" prints a percent sign and the message and "100%%" is
  an error; `m_hasFormatter` is never set,
  so `Logger::setFormatter` overrides appenders' own formatters;
  `LogAppenderDefine::level` is uninitialised; a definition without a formatter
  keeps the one before; removing root's definition loses all output;
  `clearAppenders` takes no lock; of two definitions of one name the first stays.

## Not modelled yet, and not modelled

The plan, in order:

1. `FdManager` with `fcntl`, `ioctl`, `setsockopt`: what the user sees of the
   non-blocking flag against what the kernel has.
2. Composition of `Scheduler`, `TimerManager` and `IOManager` for
   `IOManager::stopping`: callbacks taken from the timer set but not scheduled yet.

Not to be modelled: address parsing over `getaddrinfo` and socket options (they
pass their arguments on), the pthread wrappers, backtraces, the text of log lines
and where appenders write it, and the lookup of request parameters, headers
and cookies (maps with a default).
