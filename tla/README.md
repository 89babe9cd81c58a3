# gsdm 2.0: a verification project

gsdm is a C++ server framework with two execution models. The *event drive*
(`sources/gsdm/src/eventdrive`) runs one `NetWorker` thread per worker, each
with an epoll loop, timers, connections and lock-free command queues from the
other workers. The *pool drive* (`sources/gsdm/src/pooldrive`) has a master
process that forks worker processes, each with a pool of pthreads
(`sysworker.cpp`) or of state-threads coroutines (`stworker.cpp`). This
directory holds TLA+ modules that model its parts, TLC configurations that check
them on small instances, and TLAPS proofs of results for every instance. Paths
below are relative to `sources/gsdm` unless they begin with `sources/`.

## Inventory

| Component | State | Operations | What is hard | What makes it correct | Module |
|---|---|---|---|---|---|
| `CycleList` (`include/utils/container.h`) | a queue and a free list of command nodes, shared by two threads without a lock | `Insert`, `GetCycle` (sender), `GetData` (receiver), destructor | every interleaving of the two threads; nodes are deleted while the other thread has pointers into the lists | first in first out, exactly once, no use after free, no command with two holders | `CycleList`, `CmdChannel` |
| `DoublyList`, `BidirectionalList` (same file) | intrusive links, `head_`, `tail_`, `count_` | insert, remove, move the head | ends, removal and insertion of a node again | the links agree in both directions | `Lists` |
| `NetWorker`, `IOHandlerManager`, `EventManager` | `status_`, the datagram socket of announcements, `accepted_count_`, the queues | `Run`, `Pulse`, `SendCmd`, `ProcessCmd`, `Accept`, `Close`, `Stop`, `Loop` | announcements that are dropped, signal handlers on any thread, EINTR, the joins | no command waits unannounced; close is called before the end; everything ends after SIGINT | `NetWorker` |
| `EventManager`'s CPUs | load per CPU | detach, `bind_cpu`, `AddWorker` | every CPU detached, counts at `INT32_MAX` | the least loaded CPU is chosen | `Cpus` |
| `TimeoutManager` | an intrusive doubly linked list of connections | `Add`, `Remove`, `Readd`, `UpdateTimeout`, `TimeElapsedTimeout`, destructor | callbacks change the list in the middle of a scan | the list stays a list, nothing freed stays on it, who timed out is found | `TimeoutManager` |
| `TimersManager` | a multimap from due time to timer | `AddTimerEvent`, `RemoveTimerEvent`, `TimeElapsed`, `Close` | callbacks change the map under an iterator; the result is the next wait | nothing is skipped, late or run in a burst | `TimersManager` |
| Connections: `BaseProcess`, `IOHandler`, carriers, connectors | net status, `io_handler_`, buffers, `is_write_`, `with_me_` | connect, attach, read, `SendMsg`, write event, `Free`, timeout, reconnect, close | deletion from a callback, events of a handler that is gone, a partly sent message | a stream is sent in order and completely or the connection ends; no descriptor is leaked or closed twice | `Connection` |
| Accept and transfer commands | what a recycled command carries | `CreateTCPTransfer`, `TCPTransfer`, `Process` | members left from the last use | the receiver gets the descriptor and the data of this use | `Connection` (descriptor), `TransferCmd` (data) |
| `IOBuffer` | buffer, `published_`, `consumed_`, size | append, read, ignore, move, ensure | the boundaries of moves and growth | content is a queue of bytes | `IOBuffer`, `ByteQueue` |
| `WSProtocol` | handshake or open, a parsed header, fragments | `HandlerProtocol`, `SendWS`, close | frames in pieces, control frames inside a message, three ways to close | what is delivered does not depend on the cuts | `WSProtocol`, `HttpText` |
| `HTTPProtocol` | `content_length_`, the fields of the last head | `HandlerProtocol`, `HandlerProtocolRespond`, `ParseUrl` | heads in pieces, state left from the last message | each message has its own fields and body | `HTTPProtocol`, `HttpText` |
| `HttpClient` | the connection's status, the fetch, its head | `Connect`, `Process`, `DetachNet` | the answer may start the next fetch on the same object | one answer per connection, of its own page | `HttpClient`, `HttpText` |
| urlcode | none that outlives a call | encode, decode | the end of the array | inverse, in bounds | `UrlCode` |
| `SysPoolWorker` | idle and used handles, a process and a semaphore per handle, the shared flag | `Run`, `DoRun`, `MainRun`, `StartWithThread`, `SendFd` | `h->process` is touched without the lock, the master closes at any time | a started process is executed once and freed once, no handle is lost, the worker ends | `SysPoolWorker` |
| `StPoolWorker` | as `SysPoolWorker`, on condition variables | as `SysPoolWorker` | a condition variable forgets a signal nobody waits for; handles deleted one by one | a started process is executed | `StPoolWorker` |
| `PoolWorkerEx` sockets | a descriptor, an epoll instance, what is watched | connect, send, receive with a timeout | interruptions, partial sends, error paths | the deadline, the order, what is watched afterwards | `PoolSocket` |
| `PoolManager` | pids of the workers, the shared memory | fork, wait, restart, `Stop`, `Close` | death and signals between any two steps | every worker is told to close, reaped, and forked again if it died | `PoolManager` |
| `GLogger` | socket and file of the log process or thread | log, rotate, close | the order of the last messages and the close | nothing logged before the close is lost | the log process's loop in `PoolManager` |
| `GsdmConfig`, file, crypto, platform | none that outlives a call | | | | not modelled, but for `rstrstr` in `HttpText` |
| state threads (`3rdparty/st`) | | | | | third-party; its run queue is an external part of `StPoolWorker` |

Interactions. A worker sends another a command through the `CycleList` of the
pair (`SendCmd`) and announces it with a datagram (`Post`); the acceptor of a
worker hands connections to workers in turn this way. A worker's loop calls, in
this order, handlers of ready descriptors, `ProcessCmd` for every announcement
read, `TimeElapsed` (timeouts, then timers), and then looks at `status_`, which
signal handlers on any thread set through `EventManager::Stop`. Connections
(`BaseProcess`) are the events of the worker's `TimeoutManager`, and call the
protocols with their `IOBuffer`. In the pool drive the master stores a flag in
shared memory and sends `'C'` to a worker's socket; connections are accepted by
the worker, or come as `'A'` messages with descriptors; the log process is told
to end with `'c'` when all workers are gone.

## Modules and what they correspond to

### Event drive

**`CmdChannel`** says what a queue of commands promises: a command goes from the
sender to the queue, to the receiver, to the free list and back; it has one
holder at a time and is received in the order of sending, exactly once.

**`CycleList`** is `container.h` at the grain of single accesses to memory the
other thread may touch. The members keep their names; `next`, `is_free` are
those of every node, `live` the allocated nodes, and `new` may return a node
that was deleted before. `spc` and `rpc` are the threads' places, `data`, `tmp`,
`sreg` and `rreg` their registers. `GetCycleTest` ... `GetDataAdvance` are the
statements in order; `NewCmd` is the allocation after a `GetCycle` that returned
NULL; `Destroy...` the destructor, which runs when both threads are idle
(`~NetWorker`). `chain` and `cycle` are auxiliary: the two lists in order.
Memory is taken as sequentially consistent, which is what the code relies on;
the reordering a compiler may do with plain pointers is not modelled.

**`NetWorker`** is the loop of every worker, the socket of announcements, the
channels (a `CycleList` each, here the atomic queue that module implements, and
reduced to its length), the acceptor, SIGINT and the main thread's `Loop`.
`Post` drops a datagram when the socket is full or not made yet, because the
code ignores the result of `sendto`. `Pulse` returns any set of ready
descriptors; `PulseEintr` leaves a wait that is any int. A signal may arrive in
any state; its handler goes over the workers, storing CLOSE (`CloseStore`) and
posting the wake-up (`ClosePost`) as two steps. Application callbacks
(connections, `Close()`, `Clear()`, timers) may send commands. The framework's
`Clear()` of the base class sends none.

**`TimeoutManager`** holds the members of the manager and of all events in one
record `m`, transformed by `AddTo`, `RemoveFrom` and `Readd` line by line. The
scan is split at `DoTimeout()` and the destructor at `Free()`, so that the
application's operations may happen there. `Tame` says whether these callbacks
leave alone the event the loop goes on with. `Free` of a connection stands for
`BaseProcess::Free`, the deletion of the carrier that detaches it, and the
deletion of the process. `list` and `late` are auxiliary.

**`TimersManager`** has `slots_` as a sequence ordered by key, equal keys in the
order of insertion as `std::multimap` keeps them. `Process` and `Reinsert`
bracket the application's `Process()`, in which timers are added and removed and
time passes. `LoopEnd` is the value `Pulse` makes of the result, with the wrong
sum after EINTR.

**`Connection`** has the processes of one worker (`proc`: net status,
`io_handler_`, output buffer, `is_write_`), its handlers (`hand`: kind,
descriptor, process, watched events), `query` (the events `epoll_wait` returned
and `Pulse` has not handled yet) and the descriptors. An event's handler is one
action; where it calls the application (`Process()`, `DetachNet()`), the
application may send, close, free this or another connection, connect again or
do nothing. Timeouts, accept and transfer commands, and the worker's close with
its `CLEAR` phase are actions between two `Pulse`s. Instead of undefined
behaviour the variable `fault` names the memory that was used after its deletion
and the model stops; `Blame` says from where each `fault` can come. `stream` is
auxiliary: what the application gave and what went on the wire.

**`IOBuffer`** has the array with `Junk` for bytes nobody wrote, and every method
that moves a cursor; `MinChunk` is
`min_chunk_size_`, and `MaxExpected` and
`Limit` for what callers ask for and leave unread. **`ByteQueue`** is what it
implements.

**`TransferCmd`** is the part of a transfer command that recycling keeps, and
**`Cpus`** the choice of a CPU by `Initialize` and `AddWorker`, with a small
`CpIntMax` for `INT32_MAX`. **`Lists`** has the two intrusive lists, each method
an operator on the record of all links.

### Protocols

**`HttpText`** has the bytes of HTTP heads and what the parsers see of them. A
byte is known by its message, line and place; `RStrStr` is `rstrstr()` as it is
coded: needle and text are both walked backwards, so after a CR is matched the
byte before the string literal decides, which is the zero that ends the literal
laid out before it. **`WSProtocol`** decodes headers bit by bit from their bytes,
with the payload's masking, and has the handshake, fragments, ping, close and
`SendWS`. Its client sends any frame of `WsFrames` whenever it likes
(`WSClientSends`), continuing a message only while one is open. **`HTTPProtocol`** has both directions and a variable `htMode` for
which; the client of a server sends its requests when it likes (`HTPeerSends`), a
server answers those of a client. **`HttpClient`** has a fetch with `Connect`,
every way its connection can end and a `Connect` from inside `ProcessRespond`. In
all of them the peer's text is cut into chunks in every possible way. **`UrlCode`**
has the two loops, one character at a time, over an array of `UrCap` bytes.

### Pool drive

**`SysPoolWorker`** has the event loop (`LoopThread`), one thread per handle
(`HandleThread`), the thread of `MainDo()` and the master's `Stop()`. A section
under `lock_` is a step, every access without it is a step of its own. Processes
started by `Run()` on a connection, by `'A'` messages and by `MainDo()` are
modelled; a `PoolProcess` that calls `StartWithThread` itself and
`StartWithProcess` are not.

**`StPoolWorker`** is the same pool on cooperative threads: an action is what a
thread does between two blocking calls, in the order of the library's run queue
`runq` (external). `early` remembers handles signalled before their thread ran.

**`PoolManager`** has the master's `Loop`, `Stop` and `Close` one system call at a
time, the worker processes as the master sees them (their test of the flag,
`'C'`, threads parked on a semaphore, death at any time) and the log process.
`skipped` remembers that a signal interrupted a `waitpid` of `Close()`.

**`PoolSocket`** is one socket of a system pool with the calls made on it; a call
is split at each `epoll_wait`. Timeouts are unsigned words of which the largest
means none.

## Runs

The properties named here are conjunctions where a component has several that
belong together; each conjunct has a comment of its own in the module.

| Run | Checks | Bounds |
|---|---|---|
| `cyclelist` | `NoUseAfterFree`, `ExclusiveCmd`, `ListInv` (the inductive invariant), and that `CycleList` implements `CmdChannel` | five nodes: two placeholders and three commands, so that the queue and the free list can both hold more than one and a node can be deleted and allocated again |
| `networker` | `WakePending`: no command waits unannounced; `CloseBracket`: no worker ends without `Close()`; `NoAcceptAfterClose`; `Delivered`: what is announced is processed; `ShutdownCompletes` | two workers, a channel from one to the other, a socket for one datagram so that drops happen, two commands, a signal in any state. Two signals and more channels are left to the proofs, which need no bound |
| `syspool` | `ProcessesOK` (who owns processes, each runs once), `HandlesKept`, `StartedRuns`, `ClosesAfterC` | two handles, three processes: one more than there are handles |
| `timeouts` | `ScanListOK` (a list that reaches nothing freed), `ScanComplete` (a scan misses nobody but late attachments) | four connections (an inner event next to both ends), a timeout of 1 and a clock of 4 so that an event can time out, be heard of and time out again; symmetric in the connections |
| `timers` | `SlotsInv`, `NotLate` (the next wait), `Spaced` (the distance of two runs) | periods 1, 2, 3, clock to 5, a maximal wait of 2 so that both branches of the minimum occur |
| `connection` | `LinksOK`, `FdOwned`, `OutputOK`, `Blame` | a process on every kind of connection and a second one on TCP that sends nothing (`Peers`), three handlers (a connector and its carrier exist together), two descriptors, messages of up to two bytes and a kernel buffer of two, so that sends are partial and the output buffer reaches its limit; 1.2 million states, symmetric in handlers and descriptors |
| `iobuffer` | `BufferOK`, `ImplementsQueue` | two kinds of bytes, chunks of up to 2, 4 unread bytes, growth in chunks of 2: moves with and without overlap and several growths happen |
| `stpool` | `HandlesOK`, `WhatFails` (the only ways a wake-up is lost or a deleted handle used), `StartedRuns`, `ClosesAfterC` | two handles, three processes |
| `pool` | `StopOK`, `CloseOK`, `Restarted`, `ShutdownCompletes` | two workers, two signals, two deaths, one failing fork, two log messages: a signal during the handling of another and a death of a worker that was forked again |
| `protocols` | `WSCorrect`, `HTCorrect`, `HCCorrect`, `PSCorrect`, `URCorrect`, `CPBalanced`, `TCCarried`, `ListsOK` | eight components side by side, one of which runs (`which`): every sequence of up to four WebSocket frames of nine kinds that keeps to the protocol, a frame of the application counting two, after any of five handshake requests, three HTTP message sequences a side, two fetches of four pages, timeouts 0, 2 and none with waits of up to 3, texts of up to six characters for an array of six, three CPUs, two commands used four times, four list nodes |
| `syspool_close`, `timeouts_peer` | expected violations, see below | as `syspool`; three connections with `Tame = FALSE` |

Deadlock checking is off where the modelled system stops: after the shutdown,
after a `fault`, or when a clock, a script or a text has reached its end.
`iobuffer` has it on.

*Fairness.* Liveness is checked under weak fairness of every thread and process
that can take its next step and of a signal handler, since the kernel schedules
all of them. Nothing makes a signal arrive, a peer send, a worker die, the
master stop the pool or a timeout be shorter than for ever after EINTR. Strong
fairness stands for three things: an application's `Clear()` that is asked
again and again does not answer false for ever (`ClearTrue`); the state-threads
library, which polls whenever no thread can run, does not pass over a thread
whose descriptor is ready for ever (`Poll`); and a `Process()` or `MainDo()`
there, however often it blocks and runs again, returns in the end (`ProcessDone`,
`MainDone`). In `SysPoolWorker`, too, `MainDo()` and a process's
`Process()` are assumed to end.

### Where the code does not do what it says

* `syspool_close`: the master stores `is_close_` before it sends `'C'`. A worker
  between two waits leaves its loop on the flag, never calls `ex_->Close()`, and
  never posts its idle handles.
* `timeouts_peer`: during a scan the new head's `prev_` is stale. A `DoTimeout()`
  (or a destructor) that touches the next connection leaves `head_` at it and
  cuts the rest off.

### Behaviour a user of the code should know

These are in the models, as exceptions stated in a property or as an assumption
on the application; none has a run of its own.

*Workers and timers.* After EINTR `Pulse` returns a date as the next delay
(`iohandlermanager.cpp:188`), so `NotLate` is stated for the other iterations.
`AttachNet` does not set `heart_`, so a connector's process may be found late
(`late` in `ScanComplete`). A timer that removes itself in `Process()`, as
`sources/test/timer.cpp:73` does, invalidates the iterator in use: `SelfRemove`
is FALSE in the run.

*Connections.* Deleted memory is used (`Blame`) when the application frees the
connection it is called for or one that the same `epoll_wait` reported, when a
process is freed after its pipe hung up, when a connection arrives after the
timers were closed, and when a kept process is used after a connect that failed
at once. `is_write_` outlives a connection (`stale` in `WriteArmed`). A recycled
transfer command keeps `data_len_`, so that an empty buffer makes the receiver
copy from NULL (`TCCarried` says when).

*Protocols.* `rstrstr()` finds a CR and not the blank line: a request cut after
its first line is taken for a whole one, and two in one chunk for one. A control
frame between two fragments clears what was collected. A close frame with a body
of other than two bytes is not answered. `HttpClient::Process` overwrites the
last byte of an incomplete head; a page with `Content-Length: 0`, and a refused
connect, are never answered. `content_length_` is reset by `ParseUrl` only, and
`http_args_hash_` never. `encodeURIComponent` does not escape `%` and may fill
its array without a terminating zero; bytes from 0x80 on index its table with a
negative number and are outside the model.

*Pools.* After `'C'` a handle of a `SysPoolWorker` can put itself back among the
idle ones while it holds a process just stored there, and the next start stores
over it: `ProcessOwned` is stated up to that moment. A state-threads handle that
is signalled before its thread ran forgets the wake-up (`early`). A signal before
`shmat` or inside `Close()` makes `Stop()` use memory that is not there; a second
SIGINT interrupts a `waitpid` whose result is not tested; `'c'` sent before the
log process has bound its socket is lost, and the master waits for ever. A failed
connect leaves `EPOLLOUT` watched; `PoolSocket`'s receive of an empty datagram
tests an `errno` left from before. With all CPUs detached the counters overflow.

## Proofs

`CycleList_proofs` (for any set of nodes). The invariants that matter are not
inductive: which node a thread may touch depends on the shape of both lists
and on what the *other* thread is in the middle of. `ListInv` adds that shape:
the two auxiliary sequences are linked in memory and disjoint (`WellLinked`),
the four pointers are at their ends except in the named windows of `Insert` and
`GetData` (`Ends`), what a thread holds is on no list (`Ownership`), and what
each thread has read stays true until it uses it (`SenderView`, `ReceiverView`).
One lemma per action shows `IInv` is preserved; from it follow
`ListInvariant` (with `TypeOK` and `NoLeak`), `MemorySafety`, `CmdExclusion`, and
`Refinement`: every step is a step of `CmdChannel` or a stutter. Assumption: NULL
is no node and the two placeholders differ.

`NetWorker_proofs` (for any number of workers, channels, signals and any socket
capacity). `TypeCorrect` is by groups of variables; it includes that the index
into `other_` and the handlers' index into `worker_` stay in range.
`LoopInvariant` shows `LoopInv`, which relates `status_`, the place of `Run()`
and the number of calls of `Close()`: a signal may overwrite CLEAR or STOP with
CLOSE at any time, so the claim "no end without close" needs the whole history
that `closes` and `asked` count. From it follow `ClosedBeforeDone` and
`NothingAcceptedAfterClose`. `NoUnannouncedCommand` is `WakePending`, inductive
together with `LoopInv`. Assumptions: there is a worker, the socket holds at least
one datagram, an acceptor sends on channels of its own worker.

`SysPoolWorker_proofs` (any handles, any processes, any socket capacity). That a
handle is idle or in use says nothing of whether its thread will wake, so
`HandlesKept` and `ProcessesOK` are not inductive. `PoolInv` adds which threads
there are at each place of `Run()` (`Phases`), that until `PostIdle` a handle in
use has exactly one wake-up, on its way, counted by the semaphore or being
worked on, and an idle one has none (`Wakeups`), and what is left of that after
`PostIdle` posts them all (`Woken`). From it follow `ProcessesCorrect` and
`HandlesAlwaysKept`. Assumption: NULL is no handle and no process, the socket
holds a message.

`StPoolWorker_proofs` (any finite set of handles). `PoolInv` is the two checked
invariants, which handle has a coroutine left by where `Run()` is (`Joined`), and
that a handle whose coroutine has not run yet got its process early (`Early`);
the work is in the lemmas that append to, take from and join run queues without
losing or doubling a coroutine. `HandlesCorrect`, `OnlyTheseFail`. Assumption:
`Run()` and `MainDo()` have coroutines of their own.

`PoolManager`, in `Managers_proofs` (any number of workers, signals, deaths and failing forks).
Whether Stop() reaches a worker that is forked again while it runs depends on
where the master is, so `PoolInv` says which workers have a process and a pid at
each place of `Loop()` and `Close()` (`Forked`, `Deleting`), and that the flag is
stored before any 'C' is sent (`Flag`). `StopCorrect`, `CloseCorrect`. Assumption:
there is a worker.

`IOBuffer`, in `Bytes_proofs` (any bytes, any chunks, any `MinChunk`,
`MaxExpected`, `Limit`).
`BufferOK` is inductive as it stands. One lemma per private operation says that
it keeps a buffer valid and what it does to the content; `BufferCorrect` and
`BufferImplementsQueue` (each operation of `IOBuffer` is one of `ByteQueue`, moves
and growth are stutters) are read off them. Assumption: no chunk is longer
than `MaxExpected`, `MinChunk` is positive.

`UrlCode`, in `Bytes_proofs` (texts and arrays of any length). `URInv` says what the
loops have written so far by where they stand: byte `k` of the encoding of the
first `t` characters is determined by the number of blanks before it
(`EncodingOf`), and the decoder stands between two characters of that encoding.
`EncodeDecode`.

`HttpClient`, in `Bytes_proofs` (any pages whose `Content-Length` is true, any number
of fetches). `HCInv`: as long as the connection is up, the buffer and the bytes
that have not arrived are together the response of this fetch, or its body once
the head was read (`Heading`, `Bodying`), unless a byte of the head was
overwritten, after which `strstr()` finds nothing (`Broken`). What `StrStr` and
`LinesBefore` return on part of a message is in `StrStrIs` and `LinesAre`; that
the j-th CR ends line j is a count, not an induction (`CrCount`). `FetchAnswered`.

`HTTPProtocol`, in `Bytes_proofs` (any heads and bodies, any number of messages).
The client's invariant is that of `HttpClient` without the overwriting. The
server may have several requests in its buffer and on the way: `Requests` says
that they are those sent and not yet handled, with a function from each to the
place of its end. `rstrstr()` finds the last line of a whole request
(`RStrStrIs`) and nothing only in a buffer shorter than any request
(`RStrStrShort`). `MessagesHandled`. Assumption for both: what a peer sends has a
first line, and a response that has a `Content-Length` has as many bytes.

`WSProtocol_proofs` (any frames of bounded length, any number of them, any
handshake, any frames of the application). `WSInv` says of an open connection
(`WSOpenState`) that for some number g of frames handled, the unused bytes in the
buffer and those on the way are what the client has sent after g frames
(`Between`), or after the header of the next one, which is then what
`HandlerProtocol` keeps in `ws_request_frame_` (`InFrame`). Such bytes are described
by their first, their last and which follows which (`Rest`), so that no recursion
over the frames is needed and neither cutting off a frame nor adding one changes
the description. `Within` says which frame began the message that is open,
`Collected` what of it is in the fragmentation buffer, `Heard` and `Echoed` that
the messages given to the application and the pongs are those of the first g
frames; all of these have to survive that the client sends more (`Extended`). That
`DecodeHeader` of a part of a header asks for more, and of a whole one returns
the client's frame, is `DecodedIs`; that it reads back what `SendWS` writes is
arithmetic of 7, 16 and 64 bits. `FramesDelivered`. Assumption: a message and a
frame of the application have a length that fits 32 bits, as in the code.

`Connection_proofs` (any processes, handlers, descriptors, kinds and buffer
size). `ConnInv` claims the types, `Blame`, and, as long as no deleted memory was
used, `Good`: what is deleted leaves nothing behind (`Gone`), handlers and
processes point at each other and their kind goes with the status (`Pairs`),
who is in the timeout manager (`Timed`), what `Pulse` holds by where it is
(`Where`), one owner per descriptor, stated without counting (`Owned`), the bytes
in order (`InOrder`), and `is_write_` tied to epoll and to the buffer also of a
process that is disconnected (`Armed`). None of the four checked invariants holds
without the others: which memory a callback may free is in `Where`, and a
process that reconnects brings its buffer along. `LinksCorrect`,
`DescriptorsOwned`, `OutputCorrect`, `BlameCorrect`. Assumption: NULL is no object,
no handler is called "dangling".

`TimeoutManager`, in `Managers_proofs` (any events, any timeout, any clock; under `Tame`, as in
the passing run: the callbacks leave the event alone that the loop goes on
with). `ListInv` adds to the spelling of the list that no event is on it twice
and that one that is not attached has no neighbours (`Chain`), where the `prev_` of the head can
be trusted (`Places`: not during a scan, except for an event that was
attached again in its own callback, which is why `Free` of it there is right),
that attached events are live, and that the list is sorted by `heart_` but for
the late ones (`InTurn`). The lemmas `Removal`, `Addition` and `Moving` say what
`RemoveTimeoutEvent`, `AddTimeoutEvent` and `ReaddTimeoutEvent` do to a list of any
length. `ScanListCorrect`, and `ScanFindsAll` for the action property
`ScanComplete`. Without `Tame` the list loses events (the run
`timeouts_peer`).

`TimersManager`, in `NetWorker_proofs` (any timers, periods and clock). `Spaced`
looks back further than `SlotsInv` does: `Since` adds that an entry is due at
least a period after its timer last ran, except the entry that is running.
That `insert` has a place for every key in a sorted sequence of any length is an
induction, done as the choice of a least number (`LeastNumber`).
`SlotsCorrect`, `NeverLate`, `PeriodsKept`. Assumption: periods are positive.

`TransferCmd`, in `CycleList_proofs` (any commands, any lengths): `TCInv` says that
each command is in one place, and that one on its way carries the bytes of its
transfer, or NULL together with a length that an earlier transfer left.
`TransferCarries`.

`Lists`, in `CycleList_proofs` (any nodes, any shifts): `RingOK` and `LineOK` are
`DLRing` and `BLLine` with the types and with no node on a list twice. One lemma
per method says what it makes of a ring or line of any length; the shifts of
`head_` need that a walk of `k` steps ends `k` places on, modulo the length
(`WalkNext`, `WalkPrev`), and the arithmetic of remainders for that.
`ListsCorrect`. Assumption: NULL is no node.

`Cpus`, in `NetWorker_proofs` (any number of processors, any detached): `Spread`
ties the counters to the threads they count, and says what the first counter is
after it has overflowed. `ThreadsBalanced`. Assumption: INT32_MAX is more than the
number of workers and the log thread.

`PoolSocket`, in `SysPoolWorker_proofs` (any lengths; any timeouts below half of
the word they are counted in, or none): `PSInv` adds that what is left of a
timeout is what was given less what was waited, also for no timeout, where the
word counts down but stays one that `epoll_wait()` takes for ever. `SocketCallsCorrect`.
Assumption: a call without a timeout waits less than half of the word in all.

Only model-checked: liveness (`Delivered`, `ShutdownCompletes`, `StartedRuns`,
`ClosesAfterC`, `Restarted`), which is outside what the prover does, and the two
violations.

## Abstractions

Commands and processes have no content but what `TransferCmd` and the protocols
give them. Time in the two timer modules is a millisecond counter that never
goes back (`gettimeofday` may, `linuxplatform.cpp:824`). Timer periods are
positive: with 0 `TimeElapsedProcess` would not end (`timersmanager.cpp:214`). An
application adds a timer once and does not attach a connection from the
destructor of another. Allocation, sockets and threads can be made except where
a failing fork or `CreateSocket` is an action; `Run()` does not fail before its
loop. Connections count as accepted when handed out.

## Not modelled

* `GsdmConfig`, file, crypto and the rest of `linuxplatform.cpp`: sequential
  wrappers of library functions. The files of `GLogger`, their rotation and the
  change of level: input and output. State threads: third-party.
* In modelled components: command lines and process titles, listening sockets
  and multicast options, destructors of managers, `StartWithProcess`, the text
  HTTP and WebSocket send, `http_args_hash_`, the accept key.
* Hazards outside the models: `Clear()` skips the join when `thread_` is not
  stored yet (`networker.cpp:140`); a signal's `Stop()` during
  `EventManager::Close` (`eventdrive/manager.cpp:333`); `SendCmd` on a channel
  that was never set up (`networker.cpp:173`); handles of a `SysPoolWorker`
  deleted while others run (`sysworker.cpp:226`); a child of `StartWithProcess`
  reaped before its pid is stored (`sysworker.cpp:255`); a descriptor closed twice
  after a failed `SendFd` (`sysworker.cpp:309`); `ProcessFd` in state-threads mode
  with a process that is NULL (`stworker.cpp:276`); the reset option sends to a
  path without the time `Initialize` adds (`eventdrive/manager.cpp:62`, `163`);
  `DoublyList::Insert` of a node that is on the ring.

## Plan

1. An abstract pool that both pool workers implement as far as they do.
2. The hazards listed above that are within reach: the join in `NetWorker`,
   `StartWithProcess`, the deletion of handles in `SysPoolWorker`.
