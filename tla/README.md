# A verification project for tiny-webserver

tiny-webserver is a small HTTP/echo server in C++: a main reactor accepts clients, sub
reactors poll them with epoll, and one thread pool runs the sub reactors' loops and the
handlers of their events. These modules model that program in TLA+, TLC checks them on
small instances, and TLAPS proves what matters most for every instance. Paths below are
relative to `src/src/`, those of webbench to `src/webbench-1.5/`; line numbers are those of the commit in `src/`.

## 1. Inventory

| Component | State it keeps | Operations | Interacts with |
|---|---|---|---|
| `Accepter` (`header/Accepter.*`) | listening socket, its channel | constructor (bind, listen, register), `AcceptConnection` loop | called by the main loop's channel; calls `NewConnection` |
| `ReactorMainServer` | `connections_map_` (fd to `shared_ptr<Connection>`) under `mutex_`, pool, sub servers | constructor, `Start`, `NewConnection`, `Hash`, accept and close callbacks | map is written by the main thread and by every pool thread |
| `ReactorSubServer` | its `EventLoop`, callbacks | `AcceptConnection` (builds a `Connection`), `Start` (loop that never returns) | runs on a pool thread, for ever |
| `EventLoop`, `Epoll` | an epoll instance | `Loop()`, `Loop(pool)`, `UpdateChannel`, `RemoveChannel`, `Start` (epoll_wait) | raw `Channel *` in the kernel, in the batch, in the task |
| `Channel` | events, ready events, four callbacks | `Reset`, `Enable*`/`Disable*`, `HandleEvent` | owned by a `Connection`; called on pool threads |
| `Connection` | socket, channel, receive buffer, two callbacks, `weak_this` | constructor, `RecvMessage`, `SendMessage`, `RemvoeFromEpoll` | built by the main thread, used by pool threads |
| `ThreadPool` | queue, threads, mutex, condition variable, stop flag | constructor, `commit`, worker loop, destructor | committed to by the main thread and by the loops |
| `Socket`, `InetAddress`, `Buffer` | a descriptor; an address; a string | close on destruction, options; append, take | used by the above |
| `HttpContext`, `HttpRequest`, `HttpResponse` (`http/`) | parser state, request, response | parse, print | called by HttpServer's message callback |
| `HttpServer`, `EchoServer` (`server/`) | a reply counter (echo) | `main`, message callback | 1 and 2 sub reactors |
| `Log` (`log/Log.h`) | queue, worker thread, file | `LogMessage`, `push`/`pop`/`shutdown`, `SetOutputFile` | every component, but its macros are disabled in this commit |
| `EchoClient` (`client/`) | a socket | connect, one `send`, one `recv`, `close` | EchoServer |
| `webbench` (`webbench-1.5/`) | counters per process, a pipe, a timer | `bench` (fork, collect), `benchcore` (requests until the alarm) | HttpServer; its children through the pipe |
| the log test, CMake's output | | | not modelled |

What is hard in this code:

* **Concurrency.** The main thread registers a Connection's channel in epoll
  (`Connection.cpp:23`) *before* the Connection is complete (callbacks, `weak_this`, entry in
  the map). A pool thread can poll, dispatch, handle and close it meanwhile. Nothing but
  `mutex_` (the map) and `cv_mtx_` (the queue) synchronises the two.
* **Ownership.** The kernel's epoll item, the loop's batch, the queue and the task all
  hold a raw `Channel *`; only `shared_ptr`s in the map, on the main thread's stack and in
  callbacks' arguments keep the Connection alive. One-shot registration, "DEL before erase"
  and the insertion into the map together have to make that safe.
* **Reuse.** Descriptors are keys of the map and are reused by the kernel at once.
* **Edge-triggered and one-shot epoll.** An event that is dropped is never reported again.
* **Limits.** The loops occupy threads of the pool they commit to; accept can meet EMFILE.
* **Swallowed failures.** A task's exception ends in a `packaged_task` nobody reads;
  SIGPIPE is not handled; partial sends are given up; what `Bind` returns is not looked at.
* **TCP.** A request ends where `recv` meets EAGAIN, wherever that is; a reply goes out in
  as many pieces as the buffers make of it; a close with unread bytes is a reset.
* **Signals.** webbench's children rely on an alarm that may come between a check and the
  call it is to interrupt.

What makes each component correct: *Accepter* - every pending client is accepted.
*Main and sub server* - a Connection is in the map from its construction to its close, and
an entry is always the live owner of its descriptor. *Epoll, Channel, EventLoop* - an event
reaches exactly one handler, and no pointer outlives its channel. *Connection* - it is
handled once, and closed and destroyed afterwards. *ThreadPool* - committed tasks start, in
order, while the pool runs. *HttpContext* - a whole request is
told from a part of one, and a client's request is understood. *Connection with a server's callback* - all that came is handed
over, and the client gets one whole reply. *Listening side* - a client in the backlog is
known to epoll. *webbench* - it ends, and its numbers are its children's. *Log* - every message accepted before shutdown is written once,
in order.

`PROJECT.json` lists the same components with their status, and the hazards line by line.

## 2. Plan

| # | Modules | What | State |
|---|---|---|---|
| 1 | `ConnService`, `Reactor`, `ReactorInv`, `MCReactor`, `ReactorProofs`, `ReactorServiceProofs` | life of connections across threads | done |
| 2 | `TaskQueue` (abstract), `ThreadPool`, `ThreadPoolProofs`, `MCThreadPool` | mutex, condition variable, worker loop, destructor; refinement of a queue whose tasks begin once, in order | done |
| 3 | `HttpContext`, `HttpContextProofs` | the parser's state machine, the spans it copies, the server's answer | done |
| 4 | `ConnectionIO`, `HttpExchange` (composes it with `HttpContext`), `HttpExchangeProofs`, `MCHttpExchange` | receive and send loops with segments, partial sends, EAGAIN, resets; both servers' callbacks | done |
| 5 | `LogStream` (abstract), `AsyncLog`, `AsyncLogProofs`, `MCAsyncLog` | queue, worker, shutdown, `SetOutputFile`; refinement of a stream that loses or doubles messages only while its file is not in place | done |
| 6 | `AcceptQueue` (abstract), `Listener`, `ListenerProofs`, `MCListener` | start-up call by call, the backlog and the edge-triggered accept loop, the descriptor limit, restarts; both it and `Reactor` refine the abstract accept loop | done |
| 7 | `Webbench`, `WebbenchProofs`, `MCWebbench` | the load generator's processes, pipe and alarms | done |

## 3. The modules

### ConnService - what the reactor promises

Per client a `phase` (`new`, `open`, `serving`, `closed`) and a `socket`. A Connection opens
on a descriptor nobody else has, its handler is started once, and only then is it closed.
It has no threads, epoll or queue.

### Reactor - the server as it runs

One action per system call, locked section, or access to memory another thread may be
writing:

| Actions | Code |
|---|---|
| `Connect`, `Send`, `PeerClose`, `PeerReset` | the clients (external) |
| `StartSub` | `ReactorMainServer::Start` committing one loop |
| `AcceptWake`, `Accept`, `AcceptStops` | the main loop and `Accepter::AcceptConnection` |
| `Register`, `RegisterFails` | `channel_->Reset`, `Epoll::UpdateChannel` |
| `AssignSlot` | read callback, `weak_this`, message and close callbacks: unset, torn, set |
| `LockForInsert`, `Insert`, `Leave` | the accept callback, and the return into the accept loop |
| `Take` | a worker pops a task and runs it |
| `Poll`, `Commit` | `Epoll::Start` and one turn of `EventLoop::Loop(ThreadPool *)` |
| `Handle` | `Channel::HandleEvent` |
| `Recv`, `CallMessage`, `Reply` | `RecvMessage`, the read callback, the server's callback |
| `CallClose`, `LockMap`, `Erase`, `Release` | the close callback, and the end of the task |

State and code:

* `mainPc`, `mainConn`: the main thread's place and the Connection it builds. `pc[t]`,
  `job[t]`, `active[t]`: a pool thread's place, the loop or channel it works on, and the
  rest of a loop's batch. `tasks`: the pool's queue; a sub reactor's number stands for the
  task that runs its loop, a client for the task that calls `HandleEvent` of its channel.
* `refs[c]`: a `shared_ptr`'s count as the set of its holders (`"main"`, `"map"`, a pool
  thread). `Drop` takes one away; the last destroys the object, whose `Socket` closes the
  descriptor, which also takes the epoll item away (Linux). A thread has no share while
  it works through the raw pointer, and has one from `shared_from_this()` on.
* `interest[c]`: the events of c's epoll item. `Disarm` is EPOLLONESHOT: a reported item
  keeps its registration and loses what it could report.
* `slot[c]`: the three callbacks and `weak_this`. They are written by the main thread
  and read by workers without synchronisation, a data race, so an assignment is two steps
  and a reader in between may see the member as unset, as set, or, for a `std::function`
  half swapped, crash. An unset read callback drops the event (`Channel.cpp:104`); an unset
  `weak_this` or other callback throws, which ends in the task's future.
* `process`: `"crashed"` after an uncaught exception on the main thread, SIGPIPE or the
  torn callback; then nothing moves.
* `overtaken`, `threw`: history variables, read by properties only. `overtaken` has the
  Connections whose event a worker took before the main thread had finished building them.

Abstractions: TCP is chunks sent and received, FIN, and a reset after the FIN (a plain
reset looks like a FIN to `recv` and to the first `send` after it); EINTR repeats the call
and is left out; the message callback is what the two servers' callbacks do to the
connection - one `SendMessage`, or an exception; `SendMessage` always ends in the close
callback, so partial sends change nothing here. A client connects once: a Connection
object is never reused, so a client that comes back is another member of `Conns`. The
pool's queue is what `commit` and the workers make of it under `cv_mtx_`: a task once, in
order, which is what `ThreadPool` is shown to do (`TaskQueue`). `UsesQueue` is the reactor's
side of that contract: seen through `TaskStatus`, its loops and the events of its channels
are `TaskQueue`'s tasks, none of which is committed again, and a loop's never ends.

`ImplementsAccepting` says the like of the main loop and `AcceptQueue`.

`ReactorInv` has the inductive invariant in named parts, `MCReactor` the constants,
symmetry and constraints of the runs; the theorems are in `ReactorProofs` (what makes it
safe) and `ReactorServiceProofs` (nothing leaks but in the known ways; both refinements;
starvation).

### TaskQueue - what the pool promises

A sequence of pending tasks and a status per task (`new`, `queued`, `running`, `ended`,
`broken`). Tasks begin in the order of their commits, each once, while the queue is open;
when the pool is destroyed none is running and those that never began are broken.
`ThreadPool` implements it (`ImplementsQueue`), and `Reactor` runs over it (`UsesQueue`, with
`open` true: the servers never destroy their pool).

### ThreadPool - the pool as it runs

| Actions | Code |
|---|---|
| `Commit(p, k)` | `ThreadPool::commit` by the owner or from inside a running task |
| `Test`, `Lock`, `Pred`, `Block`, `Wake` | `while (!stop_)`, the lock, `cv_.wait` taken apart |
| `Quit`, `Pop` | `stop_` read again: return, or move the first task out |
| `Finish` | `task()` returns and the next turn begins |
| `Stop`, `NotifyAll`, `Join` | the destructor: `store`, `notify_all`, the joins and the members' end |

`cv_mtx` is the mutex's owner; a blocked lock is a disabled step. `stop_` is an atomic the
destructor writes without the mutex, so each of a worker's three reads of it is a step of
its own. `commit`'s locked section reads and writes nothing but what the mutex guards and
is one step; `notify_one` wakes any one waiting worker, or none if none waits, and `Wake`
is the spurious wakeup. `task[w]` is the closure worker `w` runs; `Endless` are the
closures that never return, as `EventLoop::Loop` does. `future[k]` is the shared state of
the `packaged_task`: `ready` once it has returned or thrown, `broken` when the queue is
destroyed with it. `late` is a history variable: the workers that were between the
predicate and the wait when `notify_all` was called.

### HttpContext - one request, from its bytes to the answer

| Actions | Code |
|---|---|
| `Read(ch)` | a byte that ends no text: every `case` of the loop |
| `SetPart(ch)` | the byte that ends the method, the URL, a parameter, the protocol, the version |
| `SetHeaders` | the CR that ends a header |
| `EndHeaders(ch)` | the byte after the blank line's CR: `COMPLETE` or `BODY` |
| `SetBody(ch)` | one turn of the loop in `BODY` |
| `Reply` | `HttpServer`'s callback and `Repaly`: 200 or 400 |

`LineState` and `HeaderState` are the transitions. The parser asks of a byte only what
kind it is (`isupper`, `isblank`, `isdigit`, or one of eight bytes it names), so the buffer
is a size, and a byte's kind is chosen when it is read; no byte is read twice. Texts are
spans of the buffer, from which the properties tell whether they are in it and in order.
What the code asks of a text is chosen, where its span allows it: a method that begins with
a skipped byte is not GET, a one-byte URL is `"/"` (`padded`). `Lengths` is what `atoi` may
make of a Content-Length; with repeated headers any may be the one the map keeps.
`form` is a history variable: how far the bytes read are a request as
`webbench-1.5/webbench.c` builds it (`Grammar`), or `"stray"`. `build_request` copies what the
URL has after the host as it is, so any bytes may come there but white space (a URL that holds
some is `"stray"`). The places tell its kinds apart: `"absolute"` is the whole URL that goes to a
proxy; `"unfinished"` is a URL whose query ends before a parameter's value (`/?x`, `/?a=`);
`"LF0.9"` and `"sent0.9"` are the line end of an HTTP/0.9 request, which is all there is after its
URL; the others are HTTP/1.x requests, `"sent"` to their blank line.

### ConnectionIO - one Connection and its client

| Actions | Code |
|---|---|
| `Arrive(n)`, `Leaves(how)`, `Takes` | the client: segments, FIN or reset, reading; `EchoClient` is one that does each once |
| `Event`, `Recv` | the read callback and one `recv` of `RecvMessage`: data, EAGAIN, end of file or error |
| `Respond(n)`, `Throw` | the message callback: `SendMessage` of n bytes, or an exception that ends in the task |
| `Send(n)`, `SendEnds`, `SendBreaks` | one `send`, which may take a part; nothing left, EAGAIN or an error; SIGPIPE |
| `CloseSocket` | `close_callback_` down to `Socket::Close` |

A received byte is counted (`sent`, `unread` in the socket, `size` in `recv_buffer_`); a byte
of the reply is its place in the Buffer, so `stream` shows what was sent twice or left out.
`data` and `left` are `SendMessage`'s pointer and `size`. `SndBuf` is what the two sockets'
buffers hold for the client. A close with unread bytes, and bytes that come to a closed
socket, are answered by a reset, which may cut off what the client has not taken (`Cut`).
The callback is any that replies once or throws. While it computes it asks nothing of the
socket, so what the client does meanwhile is left until it is done (`Watched`); `late` is
history: the client sent after `RecvMessage` had returned.

### HttpExchange - the two servers' callbacks on a Connection

`Receive`, `Parse`, `Answer`, `Fail` compose ConnectionIO with HttpContext as HttpServer's
callback does: the buffer parsed is the one received, at whatever byte it ends, and the
reply is `GetAsString` of the status chosen (its six lines stand for its bytes). `Echo` is
EchoServer's callback: a prefix and what was received. When the reply is handed to
`SendMessage` the context is gone, so its variables go back to their first values.

### AcceptQueue - what the accept loop promises

Clients wait in a set until the loop takes them; it sleeps, and is woken by an event. When it
goes to sleep it has taken everybody, or has no descriptor left and then an event is due or it
is `short`; so a sleeping loop has an event due for whoever waits, unless it is `short`. It is
implemented twice: by `Listener`, where the main thread's system calls are steps and
Connections are descriptors, and by `Reactor`, where the backlog is a set of clients and
building a Connection takes ten steps between which threads close others. What `Reactor`
takes the listening side for is thus what `Listener` shows it to be.

### Listener - how a server comes to listen, and goes on accepting

| Actions | Code |
|---|---|
| `MainEpoll`, `SubEpoll` | the `Epoll` of the main loop and of each sub reactor; its exception leaves `main` |
| `MakeSocket`, `Bind`, `Listen`, `SetNonBlocking`, `SetReuseAddr` | the Accepter's constructor; a failure is logged at most |
| `EnableRead`, `EnableET`, `AddToLoop` | the channel's events, each with EPOLL_CTL_ADD or MOD |
| `Start`, `Wait` | `ReactorMainServer::Start`, `epoll_wait` |
| `Accept`, `AcceptDivides`, `AcceptEnds` | one turn of `AcceptConnection`: a client, `Hash` with no sub reactor, EAGAIN or EMFILE |
| `Connect(c)`, `Close(c)`, `PortChanges`, `Killed`, `Restart` | clients, other processes, the operator |

`ready` is the kernel's ready list for the listening socket: ADD and MOD look at the
backlog, a new client sets it, and an edge is reported once. `port` is who else holds the
told port; bind fails unless it is free, or in TIME_WAIT with SO_REUSEADDR already set. A
process that ends with accepted clients leaves its port in TIME_WAIT. `inherited` are the
descriptors a process is started with, `held` what the port was at `Bind`, `exhausted` that
`accept4` met EMFILE and nobody has connected since. The life of the accepted clients is
Reactor's; here they hold a descriptor.

### Webbench - the load generator

| Actions | Code |
|---|---|
| `Probe`, `Fork`, `Collect` | `bench`: one trial connection and the pipe, the fork loop, the `fscanf` loop |
| `SetAlarm`, `Top`, `Connect`, `Write`, `Check`, `Read`, `Close` | `benchcore`: each call that can fail or block, and each look at `timerexpired` |
| `Alarm` | `alarm_handler`, and EINTR for a call the child is blocked in |
| `Report`, `Die` | the line written to the pipe; a child that ends without one (killed, or `sigaction` or `fdopen` fails) |

`count[k]` are the child's `speed` and `failed`; `whole[k]` and `refused[k]` are history,
what they would be if the alarm interfered with nothing. The alarm's handler is installed
without SA_RESTART, so a blocked `connect` or `read` fails - or the alarm comes just before
the call and is lost to it: both are outcomes of `Alarm`. The children have both ends of the
pipe open (`webbench.c:308`), so a report is written also when the parent has left. Requests per child are bounded by
`MaxTries`; `bytes`, the options' parsing and the printed rates are left out.

### LogStream - what the logger promises

Messages come out in the order they were accepted, each once; one may be lost or come out
twice only while the file is not `steady`.

### AsyncLog - the logger as it runs

| Actions | Code |
|---|---|
| `LogMessage`, `push` | a thread reads the level and makes the text; the locked section of `LogQueue::push` |
| `pop`, `Wake` | the locked section of `LogQueue::pop`: take, end, or wait |
| `WriteBegins`, `WriteEnds`, `Crash` | `log_file_ << msg << std::endl` |
| `SetMinLogLevel`, `CloseFile`, `OpenFile` | the main thread: the level, `SetOutputFile` |
| `shutdown`, `Join` | the destructor |

The macros that would call the logger are disabled in this commit (`Log.h:15`), so this is
the class as its test uses it, and as the macros would. Nothing guarded by the queue's mutex
is read without it, so every locked section is one step. The file is guarded by nothing:
the stream may be closed or opened between the worker's `<<` and the end of its `endl`, a
data race; `torn` says it was, and then the stream's buffer has been flushed by neither of the
threads, by one or by both - the message is lost, in the file or in it twice - or the process
dies. A message half written is not told apart from one that is lost. A failed `open` throws to the caller and leaves the stream failed, so messages
are lost until an `open` succeeds. Nobody logs after the destructor has returned; `owed`
and `unlogged` are history. Left out: a constructor that throws, the text, `is_exit_`, which
nothing reads.

## 4. The runs

| Run | Instance | Checks |
|---|---|---|
| `reactor_safety` | 2 clients, 2 descriptors, 1 sub reactor, 3 threads, 1 chunk, callbacks may throw | `TypeOK`, `NoUseAfterFree`, `OneShotDelivery`, `DelFindsRegistration`, `ReleasedUnlessOvertaken`, `ImplementsService`, `UsesQueue` |
| `reactor_limit` | 3 clients, 1 descriptor, otherwise the same | `FdOwnership`, `ImplementsAccepting` |
| `reactor_starved` | 2 clients, 2 sub reactors, 2 threads | `PoolStarvation` |
| `reactor_live` | 2 clients, 2 descriptors, 1 sub reactor, 2 threads, fairness | `Served`, `AcceptedEventually` |
| `reactor_leak` | 1 client, 2 threads | `DeadAfterClose` is violated |
| `reactor_dropped` | 1 client, 2 threads | `EventHandled` is violated |
| `pool` | 3 workers, 4 tasks, one of them endless, fairness | `TypeOK`, `WakeupsSuffice`, `DestructorSettles`, `ImplementsQueue`, `Started`, `JoinReturns` |
| `exchange` | up to 19 bytes sent, `RecvMax` 6, `SndBuf` 7, Content-Length in -1 .. 2, both servers | `ExchangeTypeOK`, `RangesInBuffer`, `AnsweredWhole`, `CompleteBody`, `ClientUnderstood`, `PartsInOrder`, `HandsOverAll`, `WholeReply`, `ResetOnlyLate` |
| `listener` | 4 clients, backlog of 2, descriptors 0 .. 6, 0 to 2 sub reactors | `TypeOK`, `StrandedOnlyAtLimit`, `ListensUnlessHeld`, `ImplementsAccepting` |
| `listener_rebind` | the same | `ReusesTimeWait` is violated |
| `webbench` | 2 children, up to 3 requests each, fairness | `Corrected`, `Totals`, `Finishes` |
| `log` | 2 producers, 3 messages at 3 levels, fairness | `TypeOK`, `NoSleepOnWork`, `DrainedAtExit`, `ImplementsStream`, `TakenEventually`, `ExitReturns` |

**Bounds.** `MaxSend = 1`: with one chunk data may be there before the registration, after
it, while the handler receives, after the reply, or never, and that is all the properties
tell apart (more chunks only make `RecvMessage` loop). Three threads with one loop leave two
handlers, so two Connections are handled, closed and erased at once while the main thread
builds one; `OneShotDelivery` and the map's properties are about pairs. Two clients let one
be built while the other is served; three on one descriptor reuse its number twice, also
while an earlier close is still under way. Two sub reactors that both have a thread are
left to the proofs, which do not bound anything: a second loop polls a disjoint set of
channels, so it adds interleavings of `Poll` and `Commit` only.

`pool`: with three workers one can run the endless task, one be between the predicate and
the wait, and one wait; four tasks are more than the workers, so the queue gets longer than
the number of those who can come for it. 

`exchange`: the smallest head with a parameter or a header (`A / A/1` and `A: 1` with their line
ends and the blank line) has 17 bytes; 19 hold it and a body of two, the largest length. So
every state is left by every byte that leaves it, and every state is one the buffer may end
in. An HTTP/0.9 request (`A /` and its line end) has 5 bytes, and the shortest unfinished query is
refused at the fifth. 19 bytes take four `recv`s of 6, the last one partial. The 6 lines of a response fit in the
send buffer of 7, as the program's responses of about a hundred bytes do, in one piece or
several; echoes of up to 20 do not, so EAGAIN is met with the client reading and not.

`listener`: seven descriptors are few enough that each call which makes one can be the one
that fails, and enough that clients are accepted before the limit is met; four clients are
a full backlog, one accepted, and one that comes after the limit.

`webbench`: with three requests a child can have two refused and one cut off, so the
correction meets 0, 1 and 2 failures; two children report in either order, and one may
die, hang or not be forked while the other goes on.

`log`: three messages make a queue of two behind the one the worker holds, so there is a
push that notifies, one that does not, and one in the window of the shutdown.

**Deadlock** checking is off in every run: an idle server waits in epoll for clients, the
instance's clients are finitely many and act once, and a crashed process stops; a pool may
be destroyed, a request is answered once, the clients of
`listener` may all wait or all be served, and a benchmark ends.

**Symmetry** (safety runs): threads and clients are interchangeable in `Reactor`; the only
order is that of the queue, and descriptors are numbers and not permuted. The liveness run
uses two action constraints. `NoMirrorImage` breaks the same symmetry by hand - the first
client connects first, the first thread takes the loop - which removes only behaviours that
are renamings of those kept. `NoReset` leaves out the reset after a FIN, whose only effect is
the crash, and the properties hold at once when the process is gone; `reactor_safety` has it.

**Fairness.** `FairSpec` assumes weak fairness of the main thread's step and of each pool
thread's: the operating system runs threads that can run. Clients are never fair. A
blocked `lock_guard` is a disabled step; weak fairness is enough there because a thread
between `lock` and `unlock` does nothing else and there is always a last contender. `reactor_dropped`
uses `FairSpec` as well, though its counterexample is finite.

In `ThreadPool` each worker's step and the destructor's are weakly fair. Commits and `Stop`
are not: nobody has to use the pool. `Wake` is not: a waiting worker may wait for ever
unless it is notified. Weak fairness of a worker is enough for the mutex because each
closure is committed once, so a contender cannot be overtaken without end; in the program
the same is asked of the mutex. In `AsyncLog` the worker's step and the join are fair; the calls of the users are not, nor is
`Wake`. In `Webbench` the processes' steps are weakly fair and so is the alarm of a child
that has set it; `Read` is not, for the server may never answer, nor is `Die`. The parser is
one thread's loop whose termination is one byte per turn, and `HttpExchange` and `Listener`
have no fairness: what a client or a thread owes the others is the liveness of `reactor_live`.

What the properties say, in the order of the code:

* `NoUseAfterFree`, `OneShotDelivery`: the design's reason to work. The mutants show on
  what they rest: without EPOLLONESHOT a channel is handled twice and outlived by its task.
* `FdOwnership` (with `InsertFindsFree`): `erase` and `insert` by descriptor number are never
  confused by reuse, because the closer still holds a share, hence the socket, when it erases.
* `DelFindsRegistration`: the close callback does not throw out of `RemoveChannel`.
* `ReleasedUnlessOvertaken`: a handled Connection is destroyed, *unless* a worker took its
  event before the main thread had finished building it, or the callback threw. Both
  exceptions are needed: with either left out TLC finds a leaked Connection.
* `PoolStarvation`: with no more threads than sub reactors nobody is ever answered. The
  pool's size is `hardware_concurrency()`, so EchoServer on a two-core machine is dead.
* `Served`, `AcceptedEventually`: the liveness the one-shot and edge-triggered design
  owes, given enough threads and descriptors and no throwing callback.
  `Served` speaks of Connections whose construction is complete, for the others may be
  dropped (first finding); `AcceptedEventually` fails at the descriptor limit (see hazards).
* `ImplementsService`: the whole refines `ConnService`.
* `UsesQueue`: what is committed, taken and ended refines `TaskQueue`: no channel is committed
  while its event is queued or handled, nor after it, and no loop's task ends. Without
  EPOLLONESHOT (its mutant) an event handled once is committed again.
* `WakeupsSuffice`: one `notify_one` per commit is enough, because the predicate is read and
  the wait entered under the mutex that `commit` holds. Its mutant notifies for an empty
  queue only, which loses a task when two are committed before the woken worker runs.
* `DestructorSettles`: workers quit with tasks queued, and running tasks commit while the
  destructor joins; still no thread is left, and no future waits for ever.
* `ImplementsQueue`: the pool refines `TaskQueue`.
* `Started`: a committed task begins unless the pool is being destroyed, given fewer endless
  tasks than workers, the condition `reactor_starved` shows to be needed.
* `JoinReturns`: the destructor returns unless a task is endless, or `notify_all` came
  between a worker's predicate and its wait (`ThreadPool.cpp:13`: `stop_` is set and notified
  without the mutex). That second exception is a lost wakeup; TLC finds the hang when it is
  left out. No comment or test of the repository speaks of it, so it is no finding.
* `RangesInBuffer`, `PartsInOrder`: `std::string(start, cur)`, the parameter's and header's
  `colon`, and the body's `start + bodylength` never leave the buffer or run backwards.
* `AnsweredWhole`, `CompleteBody`: wherever `recv` cut the request off, a part of a head is
  not taken for a head, nor a part of a body for a body with a Content-Length.
* `ClientUnderstood`: what becomes of each request the client of the repository can send,
  however much of it has come. The parser refuses the ones for a proxy and, of HTTP/1.x, the
  ones with an unfinished parameter, and no other; it throws on none and puts no bytes in front
  of a text; 200 is answered to HTTP/1.x requests for the index by GET that are there to their
  blank line, and to no others. So HTTP/0.9 requests (webbench's `-9`) are answered 400 even if
  they ask for the index: their line ends in the middle of the URL.
  A header with nothing after its colon is no request of webbench: it throws `std::length_error`
  (`HttpContext.cpp:183`), and the Connection of a callback that throws is never closed.
* `HandsOverAll`: what was in the socket when it ran dry reaches the callback, all of it and
  nothing else; a request still under way is not waited for.
* `WholeReply`: however `send` divides it, the client gets a prefix of one reply, each byte
  once; a server that closes on a client that is still there has sent all, unless the
  reply is longer than the buffers hold.
* `ResetOnlyLate`: a reset, which may take the reply away, meets only clients that sent
  after the socket had run dry - a request in two segments whose second was late does. With
  one `recv` for an event (its mutant) everybody with more than `RecvMax` bytes would.
* `StrandedOnlyAtLimit`: no client waits in the backlog with the loop asleep and no event to
  come, whether it came before the registration, between ADD and the change to edges, during
  the accept loop or after it. The exception is needed: after EMFILE nobody looks at the
  backlog until the next client connects, though descriptors are freed.
* `ListensUnlessHeld`: a server in its loop listens non-blocking, and on its port exactly if
  that was free; if it was not, the kernel's `listen` gave it a port nobody knows.
* `ImplementsAccepting`: both models of the accept loop refine `AcceptQueue`. A loop that takes one
  client for an edge (the mutants of both) goes to sleep with others waiting and nothing due.
* `Corrected`: webbench takes one failure back for the alarm. If the alarm interrupted no
  call, a real failure is taken back (the comment of `webbench.c:419` says it corrects
  "failed by signal"), and a reply the alarm cut off counts as a page: off by one at most.
* `Totals`: the parent's sums with what lies in the pipe are the reported children's, also
  when the parent has left for want of a child.
* `Finishes`: a benchmark ends, but for a child that died - the parent holds the pipe's
  writing end open, so "Some of our childrens died" is never reached - and a child whose
  alarm fell between its check and a read that nobody answers. HttpServer is such a server
  when its callback throws or an event is dropped (second finding).
* `NoSleepOnWork`, `TakenEventually`: `push` notifies only when the size becomes 1, which is
  enough for the one worker the class has.
* `DrainedAtExit`, `ExitReturns`: what was pushed before the shutdown is taken before the
  destructor returns, and it does return. The second is checked of finitely many messages: the
  worker takes messages as long as there are any, also those pushed after the shutdown
  (`Log.h:52`), so users that log without end can keep the destructor waiting.
* `ImplementsStream`: the logger refines `LogStream`: messages are lost or doubled, or the
  process dies, only by `SetOutputFile`.

## 5. Findings

1. **A Connection closed before it is inserted leaks** (`DeadAfterClose`, against
   `Channel.h:30`). Main registers the channel and is preempted before the insert; the client
   closes or is answered; a worker closes: EPOLL_CTL_DEL, then an erase that finds nothing;
   main inserts. The Connection stays in the map, its socket is never closed, and its
   descriptor is gone for good.
2. **An event handled before the read callback is set is dropped** (`EventHandled`, against
   `Channel.h:43`). Registration is one-shot, so the client waits for ever. Setting the
   callback before `Reset`, and registering after the insert, would remove findings 1 and 2.
3. **A server started again does not get its port** (`ReusesTimeWait`, against `Socket.h:37`).
   The Accepter calls `SetReuseAddr` after `Bind`, which looks at the option. With its
   predecessor's connections in TIME_WAIT the bind fails, nobody looks, and `listen` binds
   the socket to a port of the kernel's choice: the server runs and nobody reaches it.

Behaviours the models have and no line of the repository speaks against, so no findings:
data followed at once by a FIN is discarded unanswered (`Connection.cpp:93`; webbench's
HTTP/0.9 requests shut the sending side down and can meet it); blanks that `START` and the
`BEFORE` states skip stay in the texts, so two blanks before the URL are answered 400; so are
webbench's HTTP/0.9 requests, those it sends to a proxy, and `/?x` (`ClientUnderstood`);
a body without Content-Length ends as its first byte (`CompleteBody`). In webbench: the exit
code is the last child's `speed` and not the documented 0 (`webbench.c:12,395`); a negative
`-c` makes the parent run the benchmark itself and print nothing; `Socket` leaks its
descriptor when `connect` fails (`socket.c`).

## 6. The proofs

For every value of the constants that satisfies their named assumptions. `ReactorProofs`,
with those of `Reactor` (at least one sub reactor, descriptors are numbers, names do not collide):

| Theorem | Statement |
|---|---|
| `TypeCorrect` | `Spec => []TypeOK` |
| `PointersAlive` | `Spec => []NoUseAfterFree` |
| `DeliveredOnce` | `Spec => []OneShotDelivery` |
| `DescriptorsOwned` | `Spec => []FdOwnership` |
| `RegisteredAtClose` | `Spec => []DelFindsRegistration` |

None of these is inductive alone. `NoUseAfterFree` needs to know who keeps a channel alive
while it is on its way to a handler: the map, or the main thread that is still building it
(`Alive`). That an `Erase` takes away only the eraser's own Connection needs the map to be
the inverse of live ownership of descriptors (`Mapped`, `Owned`), which needs the eraser's
own share to keep its descriptor from being reused. That nobody else is handling what is
erased is `OneShotDelivery`, which needs a handled or queued channel to be disarmed yet
registered (`Registered`). Together with `TypeOK` they are `Safe`, and `AlwaysSafe` is
`Spec => []Safe` by `InitSafe` and `StepSafe`. The step is one lemma per kind of move:

* `ClientSafe`, `MainSafe` (one case per action of the main thread);
* `TakeSafe`, `PollSafe`, `CommitSafe`: the event's way from the kernel to a thread;
* `MoveSafe`, `ReturnSafe`, `ShareSafe`, `CloseSafe`, `EraseSafe`: what a handler can do - go
  on, end and give its share back, take a share, leave epoll, erase. `WorkerSafe` maps every
  disjunct of every worker action to one of them.

`EventsTyped` to `CommitQueue` are facts about one step of the kernel's items and of the
queue (as a sequence) that the others cite. `SafeFrame` says which variables each part of
`Safe` depends on.

`ReactorServiceProofs`:

| Theorem | Statement |
|---|---|
| `Released` | `Spec => []ReleasedUnlessOvertaken` |
| `Implements` | `Spec => ImplementsService` |
| `UsesPool` | `Spec => UsesQueue` |
| `AcceptsAll` | `Spec => ImplementsAccepting` |
| `Starves` | `Spec => []PoolStarvation` (for a finite pool) |

`ReleasedUnlessOvertaken` follows from `Ends`: a live Connection waits for its event, is
being handled, was overtaken, or its callback threw. A handler ends well only if it finds
the callbacks set (`Built`), the event to be a read (`Readable`) and knows itself to have
overtaken the construction if it did (`Noted`). These are `Finished`, inductive with `Safe`.
The refinement maps a client to its phase; `PhaseIs` says what the phase is by who holds
the Connection, and each step is shown to keep every phase (`Unseen`), to serve one
Connection (`TakeService`) or to close one (`DropService`, when the last share goes).
`PoolStarvation` rests on `Loops`: the loops are committed before any client's task, the
queue is a queue, and a thread never comes back from a loop; so if a thread handled an event
the threads with loops would be too few (`ThreadToSpare`, by cardinality).
`UsesPool` needs `LoopTasks` (a loop has one place in the queue, is queued or run only after
its commit, and never both) beside `Safe`. `StatusIs` says what a task's status is by who holds it; a step
then commits one task (`StartQueue`, `CommitAsSubmit`), begins the first (`TakeAsBegin`), ends
the one a handler leaves (`ReturnAsEnd`), or changes no status: `NeverRearmed` says that a
channel once reported is not reported again, so a client's task never comes back to `new`.
`AcceptsAll` needs `Heard` (whoever comes before the loop begins leaves an edge). Every step but
those of the accept loop keeps what `AcceptQueue` sees but for one descriptor given back:
`OneSocket` reads that off the refinement of `ConnService` instead of the actions.

`ThreadPoolProofs`, for a finite set of workers and any set of tasks:

| Theorem | Statement |
|---|---|
| `TypeCorrect` | `Spec => []TypeOK` |
| `NoLostWakeup` | `Spec => []WakeupsSuffice` |
| `Settles` | `Spec => []DestructorSettles` |
| `Implements` | `Spec => ImplementsQueue` |

`Typed` adds to `TypeOK` that wait's predicate stays what it was found to be until the
mutex is given back (`Predicate`), so a worker that pops finds a task, and one that blocks
leaves an empty queue. `Tracked` says that a pending task is in one place. `WakeupsSuffice` is
then inductive, by counting: `OneMore` and `OneLess` are what a commit and a pop do to the
number of workers on their way, and a worker blocks only with the queue empty. The
refinement needs `Tracked` to know that the head of the queue is not also with a worker.

`HttpContextProofs`, for buffers of any size and any values of Content-Length:

| Theorem | Statement |
|---|---|
| `TypeCorrect` | `Spec => []TypeOK` |
| `InBuffer` | `Spec => []RangesInBuffer` |
| `InOrder` | `Spec => PartsInOrder` |
| `BodyThere` | `Spec => []CompleteBody` |
| `Answered` | `Spec => []AnsweredWhole` |
| `Understood` | `Spec => []ClientUnderstood` |

The strengthening is `Cursors` (what has been set ends before `start`, `start` is not past
`cur`, and in `BODY` nothing but the body is behind `start`) and `Passed` (the parts of the
request line a state comes after have been set). `EdgesAre` reduces the transitions to a
table from state to next states, which the lemmas, one for each action, use in the place
of the bytes. `Understood` needs to know where the parser is when a client's request is at
a given place of its grammar: `Match` is that table, `Matched` says the two keep to it,
and `GrammarTo` is the grammar's side of it, edge by edge, so each action is one row or two.

`HttpExchangeProofs`, for any numbers of bytes, sizes of the buffers and replies:

| Theorem | Statement |
|---|---|
| `IOTypeCorrect` | `IOSpec => []IOTypeOK` |
| `HandsOver` | `IOSpec => []HandsOverAll` |
| `RepliesWhole` | `IOSpec => []WholeReply` |
| `ResetsLate` | `IOSpec => []ResetOnlyLate` |
| `BothServe` | `ExchangeSpec => IOSpec` |
| `ExchangeTypeCorrect` | `ExchangeSpec => []ExchangeTypeOK` |
| `ParsedAsReceived` | `ExchangeSpec => []`(`TypeOK`, `RangesInBuffer`, `AnsweredWhole`, `CompleteBody`, `ClientUnderstood`) |
| `OrderKept` | `ExchangeSpec => PartsInOrder` |

`Phases` is the strengthening: until `RecvMessage` returns what was sent is in the socket
or in the buffer and nothing has been answered, and bytes left unread afterwards came late.
It gives the first four theorems for a callback of which nothing is known; `BothServe` then says
the servers' callbacks are such, so `exchange`'s properties hold of them. The parser's
invariants carry over because a step of the exchange is a step of the parser, or leaves
it alone, or begins a new one (`StepIsParser`).

`ListenerProofs`, for any clients, descriptors, backlog and numbers of sub reactors:

| Theorem | Statement |
|---|---|
| `TypeCorrect` | `Spec => []TypeOK` |
| `NobodyStranded` | `Spec => []StrandedOnlyAtLimit` |
| `Listens` | `Spec => []ListensUnlessHeld` |
| `Implements` | `Spec => ImplementsAccepting` |

`Noticed` generalises the second to all places after the registration: with a backlog the
item is ready, the loop is accepting, or the limit was met. `Set` says, place by place of
the constructor, what the calls so far have made of the socket and that it has a descriptor
once it is registered. The refinement adds `Queued`: a client is in the backlog once and has no
descriptor as long, so taking the head takes it out of the set; epoll reports edges by the time
the loop begins; and nobody is short of descriptors before it.

`AsyncLogProofs`, for any threads and any messages:

| Theorem | Statement |
|---|---|
| `TypeCorrect` | `Spec => []TypeOK` |
| `WorkerAwake` | `Spec => []NoSleepOnWork` |
| `Drained` | `Spec => []DrainedAtExit` |
| `Implements` | `Spec => ImplementsStream` |

`Exiting` ties the worker's end to the shutdown and to a queue without anything owed; a
push after it keeps that only because a message is pushed once (`Once`). The refinement
takes the message in the worker's hand for the first pending one (`InHand`, `Refill`).

`WebbenchProofs`, for any finite set of children and any numbers of requests:

| Theorem | Statement |
|---|---|
| `TypeCorrect` | `Spec => []TypeOK`, which no run repeats |
| `ChildrenCorrected` | `Spec => []Corrected` |
| `TotalsAdd` | `Spec => []Totals` |

`Counted` says, place by place of a child, how far its numbers may be from what they would be
without the alarm; a step of a child disturbs no other's (`ChildLocal`, `ChildCounted`).
`Balance` generalises `Totals` to all places of the parent. Its steps move one summand: a
report appends to the pipe and adds the child to those gone (`SumAppend`, `SumAdd`), a
`Collect` takes the first line out (`SumTail`). Those lemmas need that a sum over a finite set
takes one summand more, whatever the set: that is shown without an induction scheme, by
taking a smallest set of which it is not so (`Smallest`, from the library's well-founded
ordering of the finite sets by inclusion).

## 7. Limits

Model-checked only: liveness and fairness and anything with ENABLED (beyond TLAPS), and the
findings.

Not modelled: memory limits (a request may be as long as its client likes,
`Connection.cpp:74`), `EPOLL_MAX_EVENTS`, errors of `accept4` other than EAGAIN and EMFILE, a
failing `epoll_wait`, repeated use of one `HttpContext` (the server makes one per message),
operations nobody calls (`Buffer::RecvAsString`, `TryFind`, `Socket::Connect`, `Accept`,
`SetReusePort`, `Channel::Disable*`, `Log::FormatString`'s text), `InetAddress` (its
constructor takes `inet_pton`'s 0 for success; the servers pass valid constants), and
webbench's options and `bytes`. Of the lines counted as implementation two thirds (5469 of
8273) are what CMake generates to identify the compiler, three copies of two files; they
are no part of the program.
