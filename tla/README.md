# TLA+ models of Asio_Pro

Asio_Pro is a small C++ server library, `sylar` (locks, threads, a logger), and a course of
TCP programs written with it and Boost.Asio, `example/day1` to `day7`, which end in two
asynchronous echo servers. This directory models the parts whose behaviour depends on the
order of events: the echo sessions and the servers that own them, the server with a thread for
each connection, threads, the lock the logger rests on, the registry of loggers, the logger,
its file appender and its pattern parser. TLC checks each model on a small instance;
TLAPS proves the most important facts for every value of the constants.

Paths are relative to `src/server` unless they begin otherwise. `src/client/sylar` is the same
code as `sylar`, and `src/*/boost` is Boost 1.89, of which the models use what
`asio/impl/write.hpp`, `detail/reactive_socket_*_op.hpp`, `detail/impl/epoll_reactor.ipp` and
`detail/impl/scheduler.ipp` do. `tbb::spin_rw_mutex` and pthreads are not in the repository;
they are modelled by the contract of the calls made to them.

## The system

| component | state | operations | interacts with | what is hard |
|---|---|---|---|---|
| day7 `Session` (`example/day7/Session.*`) | `data_`, `sendQueue_`, the pending read and write, the count of `shared_ptr`s | `start`, `send`, `handleRead`, `handleWrite` | Asio calls the handlers; `Server` starts it; holds itself by the handlers' `shared_ptr` | reads and writes overlap; short writes; one buffer for reads and first writes; a write error while reads go on; lifetime |
| day7 `Server` (`Server.*`, `main.cpp`) | `acceptor_`, `sessions_` (never filled) | `init`, `startAccept`, `handleAccept`, `clearSession` | one `io_context` with all Sessions | an accept that fails, exceptions out of a handler, running out of descriptors |
| day6 `Session`, `Server` (`example/day6`) | `data_`; raw pointers bound to handlers | `start`, `handle_read`, `handle_write`; `start_accept`, `handle_accept` | as above, without shared ownership | `delete this`: who owns the pointer on each path; a server that stops accepting |
| `RWSpinlock`, scoped read/write locks (`sylar/mutex.*`) | a `tbb::spin_rw_mutex` and one plain `isRead_` | `rdlock`, `wrlock`, `unlock`; scoped `lock`, `unlock` | the logger's and the manager's `mutex_` | one unprotected flag chooses how every thread unlocks |
| `LoggerManager` (`sylar/log.*`) | `loggers_`, `root_` | `getLogger`, `reopen` | `Logger` | look-up and registration under two separate locks; a copy used after unlocking |
| `Logger`, `LogAppender`, `StdoutLogAppender` | `appenders_`, `formatter_`, `root_`; an appender's `formatter_`, `hasFormatter_` | `log`, `reopen`, `addAppender`, `delAppender`, `clearAppenders`, `setFormatter` | the root logger under a held lock; appenders under a second kind of lock | iteration against changes, inherited and own formatters, lock order |
| `FileLogAppender`, `FSUtil` | `filestream_`, `lastTime_` | `log`, `reopen`, `OpenForWrite` | file system | check-then-act on `lastTime_`, a stream that stays failed |
| `LogFormatter`, events, levels | `items_`, `error_` | `init`, `format` | `Logger` | the corners of the pattern parser |
| `Thread`, `Semaphore` (`sylar/thread.*`, `mutex.*`) | `thread_`, `cb_`, `sem_` | constructor, `run`, `join`, destructor | pthreads | the hand-over of the callable, repeated joins, a thread that outlives its object |
| `Mutex`, `RWMutex`, `Spinlock`, `CASLock`, `Singleton`, the rest of `util` | one library object each | one library call each | | (`Singleton`: one instance for each translation unit) |
| day4 `Server` and its client | `threads`, one thread for each connection | `init`, `start`, `threadFunc` | blocking sockets | threads that are never joined, an accept that fails for ever |
| day5 send and receive queues | `sendQueue_`, `sendPending_` | `writeToSocket` and so on | | never runs: `main` is empty and nothing sets `sock_` |
| day1 to day3, client day1 | none | single Asio calls | | |

What makes them correct: a Session has one write under way and sends the stream in order; no
handler runs on a Session that is gone and none is left behind; a server asks for the next
client as long as it can; unlocking matches locking; a name has one logger; an event reaches
every appender it passes; and every call, message and connection is dealt with in the end.
`PROJECT.json` lists the hazards behind these properties, each at its line.

## Modules

The two servers are each modelled at two levels. A session module has the bytes, buffers and
the kernel's freedom to cut writes, for one Session; a server module has all Sessions, sockets
and clients, and of each Session only which operations are under way. What joins them is a
small abstract specification of a Session's life, which the session module implements and of
which each Session in the server module is an instance.

| module | models | abstract specification |
|---|---|---|
| `Day7Session` | one day7 Session, its composed `async_write`, the reactor and the queue of completions | `SessionLife` |
| `Day7Server` | main, Server, all Sessions, descriptors, backlog, clients | `SessionLife` for each Session |
| `Day6Session` | one day6 Session | `EchoStream`, `SessionTurns` |
| `Day6Server` | main, Server, all Sessions | `SessionTurns` for each Session |
| `RWSpinlock` | the lock, statement by statement, with scoped locks | `RWLock` |
| `LoggerManager` | `getLogger` and `reopen`, statement by statement | `LoggerRegistry`; its lock is `RWLock` |
| `Logger` | loggers and appenders | its locks follow the contract of `RWLock` |
| `LogPattern` | the pattern parser of `LogFormatter` and what it formats | `Meaning`, position by position |
| `FileAppender` | `FileLogAppender` and `FSUtil::OpenForWrite`, with formatters made by `LogPattern` | |
| `Thread` | `Thread` and `Semaphore`, statement by statement | |
| `Day4Server` | main and the threads, with blocking calls | `EchoStream` for each client |

`MC*` instantiate them for TLC, `*Proofs` hold the theorems: one module for each model, but
`EchoProofs` for `Day6Session` and `Day4Server`, which share `EchoStream`, `ThreadingProofs` for
`RWSpinlock` and `Thread`, and `FileAppenderProofs` for `LogPattern` too.

*Sessions.* `data`, `sendQueue`, `refs` are the members and the number of `shared_ptr`s;
`reading` and `writing` are the operations Asio has been given, `ready` the scheduler's queue.
An action `handleRead`, `handleWrite`, ... is the whole handler, from taking its completion off
the queue to dropping the reference it was bound with; `ReadLands`, `WriteSome`, `ReadFails`,
`WriteFails` are the reactor. The peer's stream is 1, 2, 3, ..., so that any byte lost,
repeated or overwritten shows on `wire`. A node's `maxLen`, which no constructor sets, is any
member of `HeapInts`. `mtx_` of day7 is left out: one thread runs `ctx.run()`, so it is never
contended.

*Servers.* `pending[s]` (day7) or `op[s]` (day6) says which operations' handlers have Session
`s`; the memory of a Session that is gone is used again. The root logger's level is DEBUG, so
the log statements in the accept handlers are evaluated, and `remote_endpoint()` throws for a
connection that was reset meanwhile: `AcceptThrows`. Out of descriptors an accept fails;
that is `AcceptFails`. A server that threw, failed or returned from `run()` has stopped.

*Locks and loggers.* `pc[t]` is the statement thread `t` is at; each access to shared state is
a step of its own. In `RWSpinlock` locking and writing `isRead_` are two steps, reading it and
unlocking are two more. The race on `isRead_` only ever overwrites the flag with the value it
has, which is what `FlagStable` says; it is modelled as an atomic boolean. In `LoggerManager`
`loggers_[name] = logger` is an insertion of null and an assignment. `reopen`'s copy is a set:
the order it visits the names in matters to no property. In `Logger` what an appender does under its
spinlock is one step, except for the formatting of an event, during which the spinlock is held
over a step. Loggers may share appenders, a formatter may be null, and the `reopen` of a
`FileLogAppender` may throw out of `log` (`LogThrows`, past a root logger's lock and the
caller's) and `reopen` (`ReopenThrows`). `Crashed` is the use of a null formatter: there the
behaviour ends, since the code says nothing of what follows. Two histories help to state what a
formatter may be: `nulls`, who was ever given null, and `late[t]`, the appenders that another
thread wrote after `t` had looked at them or gone past them.

*Appender and patterns.* `FileAppender` has the three states a `std::ofstream` can be in: open
and good, shut after a failed `open`, and failed while open, which `reopen` neither closes nor
can open again. The disk's state says what the next `open` meets. A thread takes the time of
its event when it logs (`LogEvent`'s constructor), reads `lastTime_` without the lock, reopens
with it, sets `lastTime_` without it and formats with it, one item a step. An exception of
`create_directories` out of `log` leaves `~LogEventWrap` and ends the process; out of
`reopen` it goes to the caller. A pattern is a sequence of characters of four kinds, and an
event's field stands as its letter in what is written; `std::endl` and buffering are left out,
so what is formatted is at once in the file.

*Threads.* The owner's calls on a `Thread` follow one another, as the class demands of it; its
pthread runs beside them. `pthread_join` and `pthread_detach` may be called once for a pthread;
a second call is what "broken" records. Each call that can fail does: `pthread_create`
(`ConstructThrows`), `pthread_join` (`JoinFails`, which leaves `thread_` set) and `sem_wait`
(`WaitThrows`, when a signal interrupts it), whose exception ends the constructor and the
object's members while the pthread still works on them. "dangling" is a pthread that has used
an object that is no more; there the behaviour ends. It gets there after `WaitThrows`, or by
`SetName` in a pthread that outlives its object: the names themselves are left out, but
`SetName` writes through `t_thread`.

*Day 4.* A blocking `read_some` or `send` is a step that waits. Threads stay in the set, and with
the system, when they have ended. A `send` within which the connection breaks reports what it
took, not the error (`SendBreaks`), and the bytes that came before the break can still be read:
the thread learns of the break with a later call.

Definitions commented as a faulty variant (`sendAlways`, `AcceptedOnce`, ...) are no part of the
specifications. Each is a plausible mistake in the operation it stands next to, and putting it
in that operation's place makes TLC find the property violated that is meant to catch it.

## Runs

| run | instance | shows |
|---|---|---|
| `day7_session` | 2-byte buffer, 4 bytes sent, `maxLen` short, exact and long, any short write | `OneWriter`, `QueueHoldsStream`, `HandlersHoldSession`; implements `SessionLife`; `MessageReleased`; `EchoExact`: only as long as the kernel has cut no write does the peer get its own bytes back |
| `day7_buffers` | as `day7_session` | counterexample: a queued message is written with a length nobody set |
| `day7_server` | 3 Sessions, 3 clients, 1 descriptor, backlog 2 | `AcceptsOne`, `OneSessionEach`, `HandlersOnce`, `SessionsLive`, `ClientAccepted`, `SocketFreed` |
| `day7_server_again` | 3 Sessions, 2 clients, 1 descriptor, backlog 1 | counterexample: one reset connection ends the server |
| `day6_session` | 3-byte buffer, 7 bytes, any short write | implements `EchoStream` and `SessionTurns`; `AllAnswered` |
| `day6_server` | 3 Sessions, 3 clients, 2 descriptors | `PointersOwned`, `SessionsTakeTurns`, `SocketFreed`, `EndsWhenUseless` |
| `day4_server` | 4 clients, two of them silent, 2 descriptors, 3 threads, up to 3 bytes, 2-byte buffer | `EndsOnlyFull`, `ClientsAnswered`; each thread implements `EchoStream` while its connection is whole |
| `rwspinlock` | 4 threads | `UnlockMatches`; implements `RWLock`; no deadlock |
| `loggermanager` | 3 threads, 3 names, one call each | `NoMapRace`, `ReopenReaches`; implements `LoggerRegistry`; `CallsReturn` |
| `logger` | 2 threads, 3 calls in all, 2 loggers, 2 appenders either may list, 2 formatters and null, 2 levels | `NullOnlyGiven`, `EventReaches`, `SomeoneGoes`, `IterationStable`, `FormattersRight`, `CallsReturn` |
| `fileappender` | 2 threads, 2 calls, every pattern up to 3 characters and those of 4 that begin `%%`, 4 states of the disk | `FreshFile`, `Heals`, `LinesWhole` |
| `thread` | 2 objects | `HandOver`, `HandleOnce`, `ConstructorReturns` |

The type invariants (`TypeOK`) are proved for every module that has theorems; no run repeats them.

*The two echo sessions compared.* day6 never reads while it writes, so its one buffer is always
intact: it is an exact echo however the kernel cuts the writes, and this is proved. day7 reads
while it writes and starts a write from the same `data_`: its queue holds the right bytes at
all times, yet what is written is right only if no write is ever short.

The day4 server reads and sends in turn like day6 and is an exact echo too, as long as the
connection is whole. When it breaks within a send the thread may read on, with bytes lost, but
sends nothing more, so that the peer never gets a stream with a gap. Its threads keep clients from each other, and what ends it
in the long run is the set of threads that only grows.

*Where the promises end.* Some properties hold but for a case that the code has, and name it.
`NullOnlyGiven`: `log` dereferences null if somebody called a `setFormatter` with null.
`FormattersRight`: `addAppender` overwrites a formatter that the appender is given between its
test and its assignment (log.cc:514 and 516), whether or not another logger lists the appender; and
a `setFormatter` that runs at the same time, with null or on another logger, has the last word
on an appender the loop has passed. `HandOver` and `ConstructorReturns`: `sem_wait` that fails
leaves a pthread with a destroyed object. None contradicts what a comment or document says, so
they are no findings.

*Findings.* `handleWrite` (Session.cpp:78) passes `maxLen`, which was never set, to
`async_write`: the buffer need not be valid, which Asio asks of the caller. `handleAccept`
(Server.cpp:51) throws for a connection that is already reset, and the server ends, although
its last statement is there to "listen for client connections again".

*Bounds, and why they are enough.* Four bytes through a two-byte buffer allow a message under
way, one queued behind it and one more read after that, each short or whole: three messages in
different states, which is all the queue's code tells apart. The three values of `maxLen` are
the three cases of a comparison with the node's size. In the servers there are more clients
than descriptors: the server is full, a client waits in the backlog, and a Session is freed and
its memory used again. With one descriptor in `day7_server` two clients wait in the backlog
together, and three Sessions let one accept, one end and one be made. `MaxUnsent` 2 distinguishes an empty queue, a single message and a queue with more, as
the code's test does. Four threads on the lock are two readers and two writers; three threads
on the manager let two race for a name while a third reopens. The logger's three calls,
two by one thread and one by the other, reach every pair of member functions at once after a
call that sets the scene, and which thread makes two is the same;
two loggers and two appenders let them share one, the other or both. `fileappender`'s interval is
2 where the code has 3, which leaves a second on either side of each comparison; two calls let
both threads find the file stale, or one write while the other reopens. Three characters hold a
directive with text before or after it, at the start and at the end, and four the pair of
percent signs before a directive. In `day4_server` two of four clients use up
the descriptors, and when one of them has left the third is served on the third thread; only the
fourth meets the limit on threads, so that being out of descriptors and out of threads are
different states. Three bytes through a two-byte buffer make two turns, and let a thread read on
after a send that broke; the silent clients show that they keep nobody waiting. Bounds that
stop something are guards on what the environment does (bytes sent, calls made, reads landing),
never on what the code does.

*Deadlock* is checked for `rwspinlock`. Elsewhere the system may rightly stop: the peer has gone
or sent its bytes, the server has ended, or the threads have made their calls.

*Symmetry* of the threads is used in `fileappender` only, which has no temporal property.

*Fairness.* The thread in `ctx.run()` takes completions while there are any (`scheduler::run`), and the
reactor performs an operation whose socket stays ready: weak fairness of each handler and each
kernel step. A peer that stays connected is taken to read, or writes could wait for ever. For
the loggers, weak fairness of each thread that is in a call: it is scheduled, and gets a lock
that stays free. Nothing obliges a peer to send, close or connect, or a thread to call.
`ClientAccepted` assumes moreover that descriptors keep becoming free, since clients may stay
for ever, and so does day4's `ClientsAnswered`; it is stated in the property. In `day4_server` main
and each thread are scheduled weakly fairly, and in `thread` the owner's waits and the pthread, whose
callable is taken to return. Nothing that fails or throws is assumed to happen or not to happen.

## Theorems

All are about the same modules as the runs, for any value of the constants that satisfies the
named `ASSUME`s (sizes are positive, thread sets finite, distinguished values distinct).

* `Day7SessionProofs`: `TypeCorrect`, `OneWriterHolds`, `HandlersHold`, `SilenceHolds` (after a
  failed write nothing is written), `LifeImplemented`, `QueueHolds` and `EchoExactUncut`. The types are not inductive alone: a
  finished write must find its message at the head of the queue and a handler a reference to
  drop. `SessionInv` adds `OneWriter`, `HandlersHoldSession`, that a read that has landed
  brought a byte, and that a write stays within its buffer's nominal length. `StreamInv` adds
  to it what the queue needs, that no message is empty and that `data_` holds a read's bytes
  until its handler has copied them; `EchoInv` adds the reason why the echo is exact while no
  write is cut (`EchoTurn`): a write is then complete when it starts, and its completion goes
  before that of the next read.
* `EchoProofs`, of the day6 Session: `EchoImplemented`, `TurnsImplemented`, `OneOwnerAlways`,
  `InvHolds`, `TypeCorrect`. The invariant says that the operation under way holds, in `data_`,
  exactly the bytes that follow those on the wire; from it each `write_some` is a `Give` of
  `EchoStream`. The heart is `StreamGrows`, that appending those bytes continues the stream.
  Of the day4 server: `EachEchoImplemented`, `EndsOnlyWhenFull`, `Day4TypeCorrect`. `Day4Inv`
  says of each client that what is on the wire is its stream, and that this and what its thread's
  `data` holds make up the stream up to what was read as long as the connection is whole
  (`Streams`); that the backlog
  has each client once and none that is being served (`Queued`); and that the set of threads
  stays within its limit (`FewThreads`).
* `Day6ServerProofs`: `PointersAlwaysOwned`, `OneSessionForEach`, `OneAcceptAlways`,
  `SessionsAlwaysTakeTurns`, `TypeCorrect`. The invariant adds that a successful accept is
  exactly one whose socket is connected, and that no connection is in the backlog twice or
  while a Session has it.
* `Day7ServerProofs`: `AcceptsOneAlways`, `HandlersOnceAlways`, `OneSessionForEach`,
  `SessionsAlwaysLive`, `TypeCorrect`. The invariant adds that a Session with an accept has no
  other operation, that a write is under way only while a message is queued, that a read in the
  queue of completions leaves room for its message, that the socket of an accept is connected
  exactly when its completion is queued as a success, and that the backlog has each client once.
  `HandlerKeeps` and `ReactorKeeps` say once for all actions what removing the head of that
  queue and appending to it preserve.
* `ThreadingProofs`, of the lock: `UnlockAlwaysMatches`, `FlagIsStable`, `RWLockImplemented`,
  `MutualExclusion`, `LockTypeCorrect`. `UnlockMatches` needs that the flag is right for each
  thread that is about to read it, which needs that a writer is alone. Of `Thread`: `HandsOver`,
  `HandlesOnce`, `ThreadTypeCorrect`. The invariant says of each object what is true before the
  constructor has returned, or after it was interrupted (`Before`), what is true from then on
  (`After`), and where the callable is (`Callable`).
* `LoggerManagerProofs`: `OneLoggerEach`, `MapNeverRaces`, `FoundLoggersRooted` (a logger that
  can be found has its `root_`), `ReopenReachesAll`, `RegistryImplemented`, `TypeCorrect`. The
  invariant says who holds the lock at each statement, what a thread knows of the map between
  its second look and its return, that a null entry belongs to a thread about to set it, and
  how far a reopen has come with what it owes.
* `LoggerProofs`: `FormatterThere`, `EveryEventReaches`, `IteratorsStayValid`,
  `FormattersAlwaysRight` (its parts are `OwnFormatterStays` and `NewFormatterReaches`),
  `SomeoneAlwaysGoes`, `TypeCorrect`, for any number of threads, loggers, appenders and calls.
  `LoggerInv` says of all threads that a writer of a logger's lock is alone (`Excludes`), that a
  logger without a formatter was given null (`NullLoggers`) and that one thread at a time formats
  with an appender (`OneFormats`); and of each thread which lock it holds at each statement (`Holds`), how far its
  loop has come and what it has done on the way (`Logs`, `Reopens`, `Adds`, `Sets`). That a thread keeps its own part is one lemma for
  each kind of step. That it keeps another's is argued once: `Leaves` is what a step may do to a
  thread that takes no part in it, in terms of the locks that one holds and of the appenders it
  has dealt with, and every step `Leaves`. That the threads in a call never
  all wait (`SomeoneAlwaysGoes`) needs to know who holds what: a thread that holds a logger's lock
  is in the part of a function that holds it or in the root logger's `log` called from there
  (`HeldBy`), and a spinlock that is held is held by a thread that formats (`SpinHeld`). A thread
  that formats can go on; if none does no spinlock is held, so that those that wait do so for a
  logger's lock; a thread in `log` of the root logger that waits there is kept from it by a
  writer; and a writer waits for no logger.
* `FileAppenderProofs`: `AlwaysFresh`, `AlwaysHeals`, `LinesAlwaysWhole`, `TypeCorrect`, for any
  number of threads, and `ParserRight`, for every pattern of any length. The reason why the
  unlocked `lastTime_` is safe: it is never later than the last reopening, and a thread that has
  gone past the test keeps an event's time that is close enough to it. A line is whole because the
  thread that formats holds the lock and what is behind the last whole line is what its items have
  said so far (`LineSoFar`). That they say in the end what the pattern means is `ParserRight`, by
  induction on the length of the pattern: a round of `init` takes the first pair and what is
  before it off the pattern (`FirstSays`), and so does its meaning (`MeaningRound`); what is
  left means the same at its new place because the character after a percent sign that begins a
  pair begins none (`MeansRound`).

The library's induction theorems take an operator as a parameter, which the provers cannot
instantiate. Where a proof needs induction it goes through the least member of a set of numbers
(`Least`), from the library's `WFMin`: `SizeInduction` states induction over the size of things
for a set, and `Recursion` that a function defined by recursion on a smaller argument exists and
obeys its equation. `matchItem`, `Upto` and `Begins` are recursive functions, and with `Recursion`
their definitions can be reasoned about.

Only model-checked: the liveness properties (`MessageReleased`, `AllAnswered`,
`ClientAccepted`, `SocketFreed`, `EndsWhenUseless`, `ClientsAnswered`, `CallsReturn`,
`ConstructorReturns`), since the prover handles neither fairness nor ENABLED. Every safety
property of a passing run is a theorem.

## Not modelled

`Logger`'s `setFormatter(string)`, which races with itself and every other call on a `shared_ptr`
and so has no outcomes to enumerate; `setLevel`, which nobody calls while threads run; the
getters. The layout of events, `LogEvent` and `LogLevel`, which hold and print values; `init` and
`toYamlString`, which do nothing. `Thread`'s names, `GetName` and `GetThis` (`SetName` is there for the object it writes to). day5 is code without a behaviour:
`main` is empty and nothing sets `sock_`. day1 to day3 and the day1 client are single calls, the
day4 client one of the clients `Day4Server` allows. The other locks of `mutex.h`, `Singleton` and
the rest of `util` are one call or one static each. Boost is outside: the models use it by what
the code relies on. With these the repository's own behaviour is covered.

`Logger` shows one more thing that no property forbids: an appender that is added again keeps the
formatter it took over the first time. And it says nothing of what a program does after it has
used a null formatter, as `Thread` says nothing of what follows the use of a destroyed object.

## Plan

Done, in this order: `Day7Session`, `RWLock` and `RWSpinlock`, `LoggerRegistry` and
`LoggerManager`, `SessionLife` and `Day7Server`, `EchoStream`, `SessionTurns`, `Day6Session` and
`Day6Server`, `Logger`, `Thread`, `LogPattern` and `FileAppender`, `Day4Server`, and the proofs
of every safety property. Left are theorems that no run needs, but which say more of the
code than its properties do:

1. The same for the other modules with more than one lock or counter: that some thread can
   always go on is proved for `Logger` only. For `RWSpinlock` TLC's deadlock check shows it, for
   the others their liveness properties (`CallsReturn`, `ConstructorReturns`).
2. `Day4Server` and `Day7Server`: that a socket is in use by one thread or Session at a time, as
   an invariant of its own.
