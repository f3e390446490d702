# ToyServer: a TLA+ verification project

ToyServer is a small C++ game-server framework on asio: a listener, sessions, a
session manager with a heartbeat, a thread pool with timers, packets with a
four-byte header. This directory holds TLA+ modules that model it, the TLC
configurations that check them, and theorems about them that TLAPS checks.
Paths below are relative to the repository (`src/`).

Contents: [1 The system](#1-the-system) · [2 Plan and modules](#2-plan-and-modules) ·
[3 SessionLifecycle](#3-sessionlifecycle) · [4 The other modules](#4-the-other-modules) ·
[5 Runs](#5-runs) · [6 Proofs](#6-proofs) ·
[7 Disagreements found](#7-disagreements-between-code-and-comments) ·
[8 Not modelled](#8-what-is-not-modelled-and-why) · [9 Running it](#9-running-it)

## 1 The system

### 1.1 Components

| Component | State it keeps | Operations | What makes it correct |
|---|---|---|---|
| `Session` (`Framework/Network/Session.*`) | socket, `_writeQueue`, `_recvBuffer`, `_sessionId`, `_lastRecvTime`, `_disconnected` | `Start`, `DoRead`, `OnRecv`, `Send`, `DoWrite`, `ForceDisconnect`, `GracefulDisconnect` | it is registered while it can receive and not after; the application hears of its end once per cause; messages leave whole and in order |
| `SessionManager` (`SessionManager.*`) | `_sessions` by id, `_sessionIdGen`, a `shared_mutex` | `Add`, `Remove`, `Find`, `Broadcast`, `CheckHeartbeat`, `DisconnectAll` | an id leads to one session, no iterator meets an erased entry, no thread waits for itself |
| `Service` (`Service.*`) | two `io_context`s, the IO thread, pool, timers, cipher | `Start`, `Stop` | stopping ends all threads; the heartbeat runs |
| `Listener` (`Listener.*`) | acceptor, session factory | `DoAccept` | every accepted connection becomes a started session |
| `RecvBuffer` (`RecvBuffer.*`) | bytes, read and write cursor | `OnWrite`, `OnRead`, `Clean` | there is always room for the next read; no byte is lost or repeated |
| `PacketSession` (`PacketSession.h`) | dispatcher, cipher | `Send`, `OnPacket` | the handler sees the bytes that were sent |
| `GameSession` (`GameShared/Network/GameSession.h`) | none | `SendHeartbeat`, `OnRequestGracefulDisconnect` | see `Session` |
| `ThreadPool` (`Framework/Thread/*`) | `io_context`, threads | `Start`, `Post`, `Stop` | each task runs once |
| `AsioTimerManager` (`Framework/Timer/*`) | `_timers` by id, `_nextId` | `ScheduleOnce`, `ScheduleRepeat`, `Cancel` | a cancelled timer does not fire again |
| `DefaultDispatcher` (`Framework/Dispatcher/*`) | handler by packet id | `RegisterHandler`, `Dispatch` | each packet reaches its handler |
| `IPacketFactory` (`Framework/Packet/IPacketFactory.h`) | one pool of memory blocks per type | `CreatePacket`, `DestroyPacket` | a block has one owner |
| Codec (`PacketStream.h`, `ClientPacketHandler.h`) | buffer, read cursor | `<<`, `>>`, `MakeSendBuffer` | what is read is what was written |
| Cipher (`Framework/Security/*`, `XORUtils.h`) | key | `Encrypt`, `Decrypt` | decrypting undoes encrypting |
| Config (`Framework/Config/*`) | none | `Load` | a configuration that can be used, whatever the file |
| Server (`Server/Main.cpp`), database drivers, `PlayerRepository` | what was made so far | `main` | the server comes to serve whatever the file and the databases do |
| Example clients (`examples/ClientStruct`, `examples/ClientProto`), echo programs | what the framework keeps, at the other end | `OnConnected`, handlers for the answer, `S_PING` and `S_DISCONNECT`, `OnRecv` of the echo sessions | a working connection is given up only by a known race; a request is answered or its connection ends; each end learns of the other's end |

The logger, the protobuf wrapper and the build files hold no state machine of their own
(section 8).

### 1.2 How they interact

`Service` owns two `io_context`s. One is run by a single **IO thread**: the
listener's accepts and the completion handlers of every session's reads and
writes run there, one after the other. The other is run by the **workers** of
the thread pool: packet tasks posted by `PacketSession::OnPacket` and all
timers, among them the heartbeat that `Service::Start` schedules every five
seconds, run there, in parallel. The **main thread** sleeps, or stops the
service.

All three touch the same sessions. A packet handler on a worker calls `Send`,
`GracefulDisconnect` or `Broadcast`; the heartbeat walks over the registry under
a shared lock and later closes sockets; `Service::Stop` disconnects everybody;
meanwhile the IO thread runs read and write handlers that end in
`SessionManager::Remove` and the `OnDisconnected` hook. Three different paths
unregister a session and call the hook: a failed read, a failed write and
`ForceDisconnect`. Only the last is guarded by `_disconnected`, and only it sets
that flag.

The example clients are built from the same framework, so a connection has two of all
this: two IO threads, two pools and two heartbeats that know nothing of each other. Only
`GameSession` pings; a client answers, and keeps its own heartbeat quiet with the pings it
receives. What one end loses inside `Send`, or cuts because of a
race in its heartbeat, the other sees as silence or as the end of the stream. `S_DISCONNECT`
asks a client to go; it closes and ends its process from a worker,
and the server's safety timer forces the session if nothing of that arrives.

### 1.3 What is hard

- **Interleavings**: the window in `Session::Start` in which a session is
  registered and its id not yet stored; several threads forcing one session;
  senders that race for `_writeQueue` without a lock.
- **Ordering and staleness**: the heartbeat decides under the lock and acts
  after it; `now` is taken before `lastRecv` is read.
- **Failure**: a peer that vanishes, resets or half-closes; writes that fail;
  `shutdown()` that throws; data that arrives after the decision to disconnect.
- **Timeouts**: the ten-second safety timer of `GracefulDisconnect`, which races
  the client's own close; two heartbeats of which one only listens.
- **Locking**: `Remove` needs exclusively the lock that the loops hold shared.
- **Two ends**: processes that exit, are killed or vanish with their machine, and data that
  a reset throws away.
- **Limits**: the receive buffer's room, 16-bit sizes.

`PROJECT.json` lists each at its line under `hazards`, with the properties
that cover it.

## 2 Plan and modules

| Order | Module | Models | State |
|---|---|---|---|
| 1 | `SessionContract` | abstract: what the session layer promises about one connection | done |
| 1 | `SessionLifecycle` | `Session`, `SessionManager`, `Service`, `Listener`, threads, lock, heartbeat, stop | done |
| 1 | `SessionLifecycleInv`, `SessionLifecycleProofs` | inductive invariant, theorems | done |
| 2 | `PacketDelivery` | abstract: packets are handed over whole, in order, once | done |
| 2 | `PacketFraming`, `PacketFramingProofs` | `RecvBuffer` and the `OnRecv` loop; implements `PacketDelivery` | done |
| 3 | `Heartbeat`, `HeartbeatProofs` | `CheckHeartbeat` with clocks and unsigned arithmetic | done |
| 4 | `WriteQueue`, `WriteQueueProofs` | `Send`/`DoWrite` with the identity of messages and racing senders | done |
| 5 | `WorkerPool`, `WorkerPoolProofs` | `ThreadPool`, `AsioTimerManager` with `Cancel` racing `OnTimer`, order of packet tasks | done |
| 6 | `PacketCodec`, `PacketCodecProofs` | `PacketStream`, `MakeSendBuffer`, the cipher, `Dispatch` | done |
| 7 | `ServerStart` | `JsonConfigLoader::Load`, `main`, the drivers, `Service::Start` | done |
| 8 | `PacketPool`, proved in `ServerStartProofs` | `IPacketFactory` with concurrent creators and destroyers; composed into `ServerStart`, where `main` uses it | done |
| 9 | `ClientServer`, `ClientServerProofs` | one connection between an example client and its server, both ends | done |
| 10 | `ServerStartProofs` | theorems about `main` for every list of keys, and about the factory for every set of threads | done |

`SessionLifecycle` composes what interacts by shared state: the session's flags,
the registry and the lock cannot be separated without losing the interleavings
that matter. The others are components whose interface to it is narrow (a
packet task, an `async_write` in flight, a verdict on a session), and have modules of
their own. What one module leaves open another decides: `SessionLifecycle` lets the
heartbeat find anybody dead and `Heartbeat` computes whom; `SessionLifecycle`
turns arriving data into tasks and `PacketFraming`, `PacketCodec` and `WorkerPool`
say which, what they contain and in which order they run. `ClientServer` composes two
copies of the framework, each reduced to what the other end can see of it.

## 3 SessionLifecycle

### 3.1 State

| Variable | In the code |
|---|---|
| `sessions`, `sessionIdGen` | `SessionManager::_sessions`, `_sessionIdGen` |
| `readers` | the threads that own `_lock` shared; exclusive sections are single steps, so exclusive ownership needs no state |
| `sessionId`, `disconnected` | `Session::_sessionId`, `_disconnected` |
| `socket` | `_socket`: not yet accepted, open, closed |
| `peerUp` | the remote end (environment) |
| `read` | the one `async_read_some` of the read loop: none, pending, or aborted and waiting to be handled |
| `writes` | the `async_write`s outstanding, those aborted, and whether a buffer that failed is stuck at the front of `_writeQueue` |
| `reports` | how often `OnDisconnected` was called, by path: `read`, `write`, `force` |
| `tasks`, `timers`, `heartbeatArmed` | what waits on the pool's `io_context` |
| `pc`, `subject`, `ret`, `todo`, `deadSessions`, `newId` | where each thread is, and the local variables it carries from step to step |
| `ioStopped`, `poolStopped` | `io_context::stop` was called |

### 3.2 Steps

A step is what a thread does between two points at which another thread can make
a difference: a lock it may wait for, the atomic flag, an operation on a socket.
Per function of the code:

- `Session::Start`: `Accept` (the accept handler), `Add` (under the lock),
  `FinishStart` (stores the id, begins the first read). Between the last two the
  session is visible to every other thread without an id.
- `DoRead`/`OnRecv`: `ReadData` (data arrived; a complete packet may become a task;
  the next read begins), `ReadFails`, then `RemoveAndReport` when the lock is free.
- `Send`/`DoWrite`: `Send` (an operator used by all senders), `WriteCompletes`,
  `WriteFails`, then `RemoveAndReport`.
- `ForceDisconnect`: `ForceExchange`, `ForceClose`, `RemoveAndReport`, by any
  worker or by Main; `ret` is where it returns to.
- `GracefulDisconnect`: `GracefulCheck`, `GracefulHook`, `GracefulSchedule`,
  and later `TimerForces` or `TimerFindsDisconnected`.
- `CheckHeartbeat`: `HeartbeatStart`, `HeartbeatScan` per session, `HeartbeatUnlock`,
  then `HeartbeatFind` and `HeartbeatClose` per dead session, `HeartbeatDone`.
- `Broadcast`: begins in `RunPacketTask`, then `BroadcastNext`, `BroadcastDone`.
- `Service::Stop`: `StopBegins`, `DisconnectNext`, `DisconnectAllDone`, `StopIo`,
  `JoinIoStopPool`, `JoinPool`.
- `PeerCloses` is the environment.

### 3.3 Abstractions

- **Data.** A packet is the task it becomes. A write queue is the number of
  `async_write`s outstanding: a racing sender may find the queue empty and begin a
  second one, which is a behaviour the unlocked `deque` permits.
- **Operations on one socket are atomic.** Several threads use a session's socket
  without a strand; what asio does when they collide inside one call is not modelled.
- **asio.** `close()` aborts what is outstanding, and an operation that had
  already completed keeps its result. An operation started on a closed socket fails.
  A handler runs once. The IO context has one thread.
- **Time.** A timer may fire at any moment after it was set, and the heartbeat
  decides freely whom it finds dead. Every behaviour of the timed system is one of
  the model; the arithmetic that decides is the subject of `Heartbeat`.
- **Ids** do not wrap.
- **Half-closed peers.** Data may still be read after the remote end has closed.

### 3.4 The abstract specification

`SessionContract` says what an application may rely on, without threads or
sockets: a session is new, then registered, then released, and never comes back;
`OnDisconnected` is called for released sessions only, at most once for the end of
the read loop and at most once for `ForceDisconnect`. Failed writes each call the
hook again, so for that path no bound is promised. `SessionLifecycle` maps to it by
`Phase`, computed from the registry and the stored id.

## 4 The other modules

### 4.1 PacketFraming

The read loop of one session: `Receive` is a completed `async_read_some` with
`OnWrite`, `ParsePacket` one round of the loop in `OnRecv`, `ParseEnds` its end with
`OnRead` and `Clean`, `ReadFails` an error. All run on the IO thread. A byte is its offset
in the client's stream, so that a lost, repeated or moved byte shows; a stream is the
size that a header at each offset would have, which is all the loop looks at.
`Capacity` is `BufferSize * 10` as in `RecvBuffer`'s constructor. The abstract
`PacketDelivery` has one variable besides the packet, the number of bytes consumed, and one
step: the whole packet at that offset is handed over. A header whose size is below 4 is
never consumed; the theorems and properties say what still holds then.

### 4.2 Heartbeat

Clocks, with one unit for one "tick" of the model. `ReadClock` (the timer's lambda),
`TakeLock`, `ScanSession`, `Unlock`, `Reap` and `Rearm` are the timer's thread; `Receive`,
`Add`, `UpdateOnStart` and `RemoveClosed` the IO thread. The subtraction is modulo
`Modulus`. Real-time assumptions are constants: a check is finished `MaxLate` after it was
due, a client that is up answers within `MaxAnswer` (`RatesAssumption`; 5 and 10 seconds in
the code leave a wide margin). `SilentIsClosed` is tight: the bound less one is violated.
Between `Add` and `UpdateOnStart` `_lastRecvTime` is 0, and a check in that window closes
the session that has just connected; the properties are about sessions past it.

### 4.3 WriteQueue

A message is the number of its push; `_writeQueue` holds an interval of numbers.
`TestInProgress`, `Push` and `DoWrite` are the steps of `Send`; `WriteCompletes`, `PopFront`
and `WriteNext` those of the handler. With `Threads = {IO}` this is the echo server, whose
only sender is the thread of the handlers, and everything holds. With a worker
that sends too the deque is used without a lock: the steps then interleave, `undefined`
records a use that C++ does not define, and the model stops there. Real races inside
`std::deque` can be worse than these interleavings.

### 4.4 WorkerPool

One FIFO queue of ready handlers, taken by the workers: packet tasks, timers that expired
and waits that were cancelled. `Take` moves the front to a worker; `FinishPacket`,
`FinishOnce` and `Rearm` end what it runs. asio is external: `Expire` makes a
pending wait ready, and `Cancel` reaches only a pending one. A repeating timer that is
cancelled while its handler is ready or running is re-armed after it was taken
out of `_timers`, and no call can stop it any more; `CancelledInTimeStops` says what does
hold.

### 4.5 PacketCodec

One packet from `MakeSendBuffer` through `PacketSession::Send`, the cut by the header's size,
the posted task that decrypts, `Dispatch` and `operator>>`; or any packet that was not
made by this code. A byte has `Base` values and a `uint16_t` is two of them, so
that with `Base = 4` sizes wrap at 16 and strings around every limit fit into a run. The
exclusive or of two bytes is a parameter of which the proofs need only that doing it
twice gives the byte back.

### 4.6 ServerStart

`main` step by step: the test of the packet factory (4.7), `Load` key by key (`NoKey`, `ReadKey`, `BadKey`, `SkipNode`), the three
databases, `Listener`'s constructor, the accept, the timers and the threads. `found`
remembers what the file held, and `Origin` says from it where a field must have its value, so
that `ConfigFollowsFile` can compare the outcome with it. `StartsWhole` is the safety side of
`StartsOrExits`, what `main` leaves behind: a server with all its parts, or no thread and nothing
that waits. It is proved (section 6); the run checks `StartsOrExits`.
The IO thread already accepts and posts while the workers are made. Observed and
not stated as a property: without a file, or where the file does not name a database, that
database's `port` is an `int` that nobody has set, and `main` puts it into a connection string
(`ConfigLoader.h:17`, `Main.cpp:129`), although the loader says it is "Using defaults"; a
`ThreadCount` of 0 or less makes a server without workers.

### 4.7 PacketPool

Blocks of memory between the heap, the pool of one packet type, the thread that is inside
`CreatePacket` or `DestroyPacket`, and the packets in use. `Pop` and `Push` hold the lock;
`New`, `Construct` and `Destroy` run outside it, and `NewThrows` and `ConstructThrows` are
the ways in which `CreatePacket` fails. `ServerStart` instantiates the module with `main` as
its only thread and runs `TestPacketFactory` on it: that is all the use this repository makes
of the factory. `MemoryReused` is what that test looks for. The theorem covers what the test
cannot: any number of threads that create packets and drop each other's.

### 4.8 ClientServer

One connection from `async_connect` to the release of both sessions, for three pairs of
programs: the struct client and the protobuf client against the game server, the echo client
against the echo server. Each action is one handler of one end, or a part of one, and is
parameterised by the end where both have it. What other modules show to go wrong inside a
session goes wrong here too, each with the outcomes that the other end can tell apart:

- **`Send`** has three outcomes (`Session.cpp:148-171`). The packet goes out; it is lost, because
  the connection has ended or the queue is stranded; or, when a worker sends while a write is
  under way, it races with that write's handler (`WriteCompletes`), and either strands, with
  everything that this end sends later, or the deque is used in a way that C++ does not
  define, and the model stops there (`Undefined`). These are the outcomes of `WriteQueue`, whose
  steps are folded into one: `write_stranded` shows that they occur. `SentByWorkers` lists
  what the workers and the application send at both ends; the requests and the echo come from
  the IO thread, which runs the write handlers itself.
- **`CheckHeartbeat`** is three steps. `ReadClock` reads the time, `ScanSession` compares and pings,
  `Reap` finds the session again and closes it. `since` is how long ago the clock was read, so
  that `Overtaken` is the wrap of `now - lastRecv` when data came in between.
- **`Session::Start`** is two steps. After `AddSession` the session is in the registry with a
  `_lastRecvTime` of 0, so that a check in that window finds it dead, or not, as the machine
  has been running for longer than the timeout or not. `StartSession` goes on, and if the socket has
  been closed meanwhile its read fails at once (in the echo server `remote_endpoint()` throws).

`Handle` lets a worker take effect ahead of as many tasks as there are other workers,
the bound that `FewOvertaken` of `WorkerPool` gives. `CloseSocket` may lose any of what the
closing end had sent, as a reset does (`Session.cpp:44`).

Time is how long things have waited: since the last data (`silence`), since the heartbeat was
last due (`elapsed`), since a packet was written, since a safety timer was set. Nothing counts
up without end, so the run has no bound on the clock and the connection may live for ever.
`Tick` stops for what is due: timers run within `MaxLate` of their time, packets are handled
within `MaxDelay` of being written, and `Start`, once begun, ends before time passes. A packet that
strands is never written, and no delay bounds it. `DelaysAssumption` says how small
the constants must be; at 5, 10 and 10 seconds the code leaves 5 seconds for a lateness and two ways.

`Die` ends a process: its kernel closes the connection, or its machine is gone and nothing
tells the other end. `EchoStartThrows` is `remote_endpoint()` of a connection that was reset,
on the IO thread, where nobody catches. The echo programs override the `OnRecv` that notes the
time, so that both heartbeats cut their connections after the timeout, busy or not. No code in
the repository calls `GracefulDisconnect`; the model lets the server's application call it
once, at any moment after the session started.

What the properties except, because the code does it:

- `GivenUpOnlyByRace`: a heartbeat does give up a connection of which both ends work, if data
  overtook it, if it met the session inside `Start`, or if a packet of either end is stranded, so
  that a ping or a pong never left. It says that there is no fourth way: one timer that pings
  and judges, and a client that pings nobody, are enough. Echo connections are left out.
- `ForcedOnlyIfUnheard`: the safety timer does force a client that works, if `S_DISCONNECT` or
  something before it stranded. The client never heard it.
- `RequestIsSettled`: a request is not always answered. An answer can strand, or a heartbeat
  can cut the connection first. But then the connection ends, so that a client
  never waits for ever.

## 5 Runs

| Run | Instance | Checks | Shows |
|---|---|---|---|
| `lifecycle_game` | 1 GameSession, 2 workers, stop, broadcast, 2 graceful disconnects | `IInv`, `ContractSpec` | the contract is kept in every interleaving; the invariant of the proofs holds |
| `lifecycle_pair` | 2 sessions with Session's own hooks, no timer manager, 1 worker | `RegistryFaithful`, `RegisteredHasReader`, `LiveSessionRegistered`, `IteratorsValid` | ids lead to the right session; nobody stays registered without a reader or drops out while alive; no loop meets an erased entry |
| `lifecycle_live` | 1 GameSession, 1 worker, fairness | `LostPeerIsReleased`, `DeadSessionIsReleased`, `GracefulDisconnectEnds` | lost and dead sessions are unregistered eventually; a graceful disconnect ends |
| `stop_deadlock` | 1 session | `NoUpgrade` | false (section 7) |
| `framing` | streams of 44 bytes, buffer of 40, all pairs of sizes 0, 1, 3, 4, reads of every length, fairness | `ContentInOrder`, `RoomForNextRead`, `DeliverySpec`, `ParseTerminates`, `EveryPacketDelivered` | packets come out whole and in order; there is always room; the loop ends on every input |
| `heartbeat_times` | 2 sessions, timeout 6, period 3 | `SilentIsClosed`, `DeadWasPinged`, `AnsweringDiesOnlyOvertaken` | the silent are closed in time, the answering are spared |
| `write_queue` | the IO thread sends 7 messages, fairness | `IInv`, `InOrderOnce`, `EveryMessageWritten` | messages go out whole, in order, once, and none is forgotten |
| `write_stranded` | a worker sends too | `NothingStranded` | false (section 7) |
| `worker_pool` | 2 workers, 3 packets, 1 repeating and 1 single timer, fairness | `NoJobTwice`, `FewOvertaken`, `CancelledInTimeStops`, `EveryPacketHandled`, `RepeatsForever` | no job runs twice at once; packets overtake only among the workers; all are served |
| `packet_codec` | bytes of 4 values, strings of 0 to 18 bytes, 3 keys, all bodies up to 6 bytes | `IInv`, `LoginArrives`, `ReadsWhatStands`, `PacketsStayWhole` | what is read is what was written; the reader stays inside; no packet is torn |
| `server_start` | 2 keys in "Server", 2 per database, 2 blocks of memory, fairness | `MemoryReused`, `PoolInv`, `ConfigFollowsFile`, `StartsOrExits`, `EarlyPacketsHandled` | the factory's packets have memory of their own and it is used again; no file and no database keeps the server from serving; early packets are handled |
| `client_server` | 3 pairs of programs, timeout 3, period 2, safety timer and lateness 1, no delay, 2 workers at the server, fairness | `GivenUpOnlyByRace`, `FarewellComesLast`, `ForcedOnlyIfUnheard`, `RequestIsSettled`, `StrandedIsReleased`, `BothEndsLearn` | a working connection is given up by a heartbeat only through one of three races; the answer comes before the farewell; only who did not hear the farewell is forced; a client hears its answer or its session ends; a connection with a stopped queue ends; both ends learn of the end |

**Bounds.** `SessionLifecycle`: `MaxTasks` = packet tasks of a session waiting at once,
`MaxGraceful` = calls of `GracefulDisconnect`, `MaxWrites` = outstanding writes,
`MaxWriteFailures` = failed writes that still call the hook. One session is enough for what
concerns one session: sessions share only the registry and the lock, and one session with
two workers and Main already makes all of read handler, write handler, packet task, safety
timer, heartbeat and Stop meet in it. Two sessions are needed for ids, for iterators and
for loops that go on after an erase. Two graceful calls are needed for a second timer.
Two write failures allow the hook to come twice from one path.
`PacketFraming`: `StreamLength` exceeds `Capacity`, and packets of 3 in a buffer of multiples
of 4 leave partial packets at every position, so that compaction, a full buffer and a header
split between two reads all happen. `Heartbeat`: `MaxClock` gives room for a session that
falls silent, is pinged, judged and closed, twice. `WriteQueue`: 7 messages pass several
times through an empty and a longer queue. `WorkerPool`: one packet more than workers lets
overtaking show. `PacketCodec`: string lengths stand on both sides of what one size field
and what the packet's size can count. `ServerStart`: one text key stands for the four, which
the loop treats alike, and the thread counts are negative, zero, below and above the default.
`ClientServer`: the numbers are the smallest that meet `DelaysAssumption` with a late timer, with
nothing to spare between a period, a lateness and the timeout. The lateness of 1 lets
data overtake a check. `MaxDelay = 0` means that a packet which was written is handled before the
next unit of time, as it is where a unit is seconds and a delay milliseconds; packets, tasks, pings
and the end of the stream still meet in every order within a unit. TLC's search for cycles leaves no
room for longer delays: what the three safety properties owe to them is in the theorems,
which hold for all delays that `DelaysAssumption` allows. One request, one farewell and the
pings fill the wire in every order.
More of each only repeats. The theorems hold for all values.

**Symmetry** of sessions and workers is used in the safety runs of `SessionLifecycle` only.

**Deadlock** is not checked where the system may stop: runs with `MayStop`, streams, clocks
and message counts that end, a pool that is stopped, two processes that have both ended.

**Fairness.** `SessionLifecycle`, for a server that is never stopped: both contexts run ready
handlers in FIFO order, so a handler that is ready again and again is run (strong
fairness on starting a handler, weak fairness inside it). `Remove` and `Add` wait for the
`shared_mutex`, whose only shared owner in these runs is the heartbeat, which leaves it
free for seconds at a time: strong fairness. Nothing is assumed of accepts, of arriving
data and of the remote end. `PacketFraming`: the handler runs and bytes that were sent arrive;
reads may still fail. `WriteQueue`: threads run, and a write completes or
fails. `WorkerPool`: the queue is FIFO, so weak fairness of each worker is enough; handlers
return, time passes; nobody need post, cancel or stop. `ServerStart`: main and the workers run.
`ClientServer`: time passes, and each end goes on doing something it can
do, as its IO thread and workers run what is ready; what is due is done because `Tick` waits for
it. Nobody need connect, say farewell or die, and no packet need be written.

## 6 Proofs

Every theorem is for all values of the constants under the named assumptions.

| Module | Theorem | States |
|---|---|---|
| `SessionLifecycleProofs` | `Invariance`, `TypeCorrect` | `Spec => []IInv`, `Spec => []TypeOK` |
| | `RegistryIsFaithful` | `Spec => []RegistryFaithful` |
| | `NoOrphanedSession` | `Spec => []RegisteredHasReader` |
| | `NoLiveSessionLost` | `Spec => []LiveSessionRegistered` |
| | `NoInvalidIterator` | `Spec => []IteratorsValid` |
| | `Refinement` | `Spec => ContractSpec` |
| `PacketFramingProofs` | `FramingInvariance`, `FramingTypeCorrect` | the inductive invariant, `TypeOK` |
| | `BufferContent`, `SessionNeverDropped`, `RoomForRead` | `[]ContentInOrder`, `[]NeverDropped`, `[]RoomForNextRead` |
| | `FramingRefinement` | `Spec => DeliverySpec` |
| `WriteQueueProofs` | `WriteInvariance`, `WriteTypeCorrect` | `[]IInv`, `[]TypeOK`, if `Threads = {IO}` |
| | `MessagesInOrder`, `WritesDoNotOverlap`, `DequeUsedWell`, `NoMessageStranded` | `[]InOrderOnce`, `[]OneWriteAtATime`, `[]NothingUndefined`, `[]NothingStranded`, if `Threads = {IO}` (with a worker too the last is false: `write_stranded`) |
| `PacketCodecProofs` | `DecryptUndoesEncrypt` | `Crypt(Crypt(b, k), k) = b` |
| | `CodecInvariance`, `CodecTypeCorrect`, `CursorStaysInside` | `[]IInv`, `[]TypeOK`, `[]CursorInside` |
| | `LoginsArrive`, `BodiesReadAsTheyStand` | `[]LoginArrives`, `[]ReadsWhatStands` |
| | `PacketsAreCutWhole` | `Spec => PacketsStayWhole` |
| `ServerStartProofs` | `PacketsHaveTheirMemory` | `PacketPool`'s `Spec => []PoolInv`, for every set of threads |
| | `StartInvariance`, `ServesWholeOrNotAtAll` | `[]IInv`, `[]StartsWhole` |
| | `MainsPacketsHaveTheirMemory`, `TestMemoryReused` | `[]PoolInv`, `[]MemoryReused` |
| | `ConfigurationFollowsTheFile` | `[]ConfigFollowsFile` |
| `HeartbeatProofs` | `HeartbeatInvariance`, `SilentSessionsClose` | `[]IInv`, `[]SilentIsClosed` |
| | `NobodyDiesUnpinged`, `AnsweringLives` | `Spec => DeadWasPinged`, `Spec => AnsweringDiesOnlyOvertaken` |
| `WorkerPoolProofs` | `PoolInvariance`, `NoJobRunsTwice`, `WorkersBoundOvertaking` | `[]IInv`, `[]NoJobTwice`, `[]FewOvertaken` |
| | `CancelledInTimeNeverRuns` | `Spec => CancelledInTimeStops` |
| `ClientServerProofs` | `ConnectionInvariance`, `TheAnswerComesFirst` | `[]IInv`, `[]FarewellComesLast` |
| | `OnlyRacesGiveUp`, `SafetyTimerIsForTheUnheard` | `Spec => GivenUpOnlyByRace`, `Spec => ForcedOnlyIfUnheard` |

**SessionLifecycle.** Assumed: the threads are distinct, `NoSession` is no session, the flags
are Boolean and the bounds natural numbers. None of the properties is inductive.
That an id leads to the session that will unregister with it
(`RegistryFaithful`) holds across a step of `Start` only because ids are used once and
below the generator (`IdsOK`), and across a `Remove` only because no thread can call
`Remove` for a session whose id is not stored. That in turn needs to know how a thread
came by its session: from a read, a task, a timer or a write, none of which exists before
the id is stored (`UnstartedOK`, `UnwrittenOK`, `OwnersOK`); the one exception, Main's
`DisconnectAll`, holds the lock and so cannot finish (`LockOK`). That
`OnDisconnected` comes once per path needs that a read loop that goes on has not
reported (`ReadReportOK`) and that of all threads inside `ForceDisconnect` at most one
got past the exchange (`ForceReportOK`). `ControlOK` says which labels each thread can
be at. Each conjunct has a lemma `…Inductive` with one step per action; `Invariance`
combines them. **Refinement** is proved from the invariant: `Add` is `Register`, the first
`RemoveAndReport` of a session is the release and later ones report again, every other
step stutters.

**PacketFraming.** Assumed: a packet and a header fit into `BufferSize` (65535 and 4 into
65536), and a stream's sizes are at most `MaxSize`. The invariant (`FramingInv`)
adds to the properties that the data in the buffer is no more than what arrived, and that
nothing counts as parsed outside the loop. The step that matters is the end of the loop: it
ends only at a malformed header or an incomplete packet; what an incomplete packet leaves is
shorter than `BufferSize`, so that `Clean` always leaves room for its rest.
`FrontIsConsumed` ties the header that the loop looks at to the first byte of the stream that
was not handed over, which is what the refinement needs.

**WriteQueue.** Assumed: only the IO thread sends. The invariant says that a queue that is
not empty is being written, or about to be, by exactly one write of its front (`QueueInv`),
and that what went out is what was popped (`WireInv`).

**PacketCodec.** Assumed: exclusive or is an involution on bytes, a header fits into the
number that two bytes hold, and the inputs are sequences of bytes; strings and bodies may
have any length. That the cursor stays inside needs that `OnRecv` only hands over packets
with a whole header (`WholeHeader`); `ReadStringInside` keeps it there. That what was
written is read follows the packet: `OnItsWay` says what the buffer holds at each stage, and
`CryptKeepsHeader` that the encrypted packet still shows its size. The codec itself
is two lemmas: what `operator<<` wrote stands in the packet (`WriteStands`), and where a string
stands, `operator>>` reads it and goes on behind it (`StandsReads`); between them is the
arithmetic of a size in two bytes (`NumberOfBytes`).

**PacketPool.** Nothing is assumed; the theorem is about the instance `Pool(T)` for any set `T`
of threads. `PoolInv` is inductive as it stands: a block is in the pool
once, or in the hand of one thread, or a packet (`OneOwner`); packets are constructed and all
else is raw (`RightContents`); raw memory is in the pool or in a hand (`NothingLost`). Each
step passes one block from one place to another, and has a lemma.

**ServerStart.** Assumed: the keys of a section are distinct strings and the numbers integers
(`KeysAssumption`, `NumbersAssumption`). The factory's part of a step of `main` is a step of
`PacketPool` with one thread, so that `PoolInv` follows from the lemmas of the paragraph before.
`MemoryReused` needs to know where packet A's memory is until packet B has it: the packet, then
`main`'s hand, then the pool, of which it is all, then the hand again (`TestInv`). That the
fields read so far are right (`LoadInv`) is kept by a step of `Load` because no two of its keys
are the same field (`OrderDistinct`, where the distinct keys are needed), and when a section is
skipped because a whole section follows wherever one begins (`SectionFits`). `ServiceInv`
says what `main` has made at each of its steps, from which `StartsWhole` follows. An attempt at
the proof showed that `ConfigFollowsFile` had been stated with a `CASE` whose arms overlapped;
it now says with `Origin` what was meant, and TLC finds the same states.

The invariants (`IInv`) of `ServerStart` and of the next three hold on the instances of their
runs too, as does `StartsWhole`; the runs state only what follows from them.

**Heartbeat.** Assumed: the clock, with a timeout on top, stays below `Modulus`, so that a
difference wraps at most once (`SilentMeans`: a session counts as silent exactly if its data is
older than the timeout or newer than the check); the rates of `RatesAssumption`. Each property
is about two checks and what came between them, so the invariant carries the first to the
second: whoever the last check spared had sent something within a timeout
(`SparedIsRecent`) and has sent something since or has a ping to answer (`SparedIsPinged`); a
client that is up has not had that ping for longer than an answer takes (`PingIsAnswered`);
checks keep to the timer's grid (`CheckInTime`).

**WorkerPool.** Assumed: jobs are distinct and the workers finitely many. A job is waiting, in
the queue once, or with one worker, and a timer's `wait` says which (`OnePlace`); from
that follow `NoJobTwice` and that a wait that was cancelled in time can only end
(`CancelledWaitsEnd`). Packets are taken in their order (`FirstComeFirstTaken`): when one is taken, all
earlier ones that are unfinished are with other workers, and a worker has one job, so there are fewer
of them than workers. `FewOvertaken` itself is part of the invariant, as it must hold on after the
packet is finished.

**ClientServer.** Assumed: `DelaysAssumption`. The invariant speaks of what is on its way, and
what it says of the timing holds as long as the queues that it relies on are `Writable`, that is,
neither stranded nor undefined: once a packet has stranded nothing is promised of what should have
come behind it. The steps by which an end leaves (`LeavingSteps`: a failed read, a heartbeat
that closes the socket, `ForceDisconnect`, a process that ends) have in common that the other end
has the end of the stream to read, and one lemma shows that they keep the invariant; the steps
that neither send nor deliver are another family (`QuietSteps`); each other action has a lemma
of its own. `GivenUpOnlyByRace` needs that a silence is always about to be broken: either the
server's next heartbeat, with a ping and its answer, still fits into the timeout, or a ping, a
pong or something else is on its way that is old enough to arrive before it (`ServerHears`, which
needs both queues, and `ClientHears`, which needs the server's). A check compares with the
clock it has read, and `InTime` bounds how long ago that was. `ForcedOnlyIfUnheard` needs that as
long as a safety timer runs and the server's queue is written, the farewell is at least as old
as the timer, or the client has left and the end of the stream is no more than one delay
younger than it (`SafetyIsRedundant`, `EndOfStream`). `FarewellComesLast` needs that there is one
request and at most one answer (`AskedOnce`), that the farewell is behind the answer on the wire and
among the tasks (`FarewellFollows`), and that an answer which was written is somewhere until it
is heard (`AnswerIsComing`); one that strands takes a later farewell with it. Then the client's
only worker cannot reach the farewell first. The theorem is about that one worker: with two the
property is false.

**Only model-checked:** the liveness properties (fairness and ENABLED are out of the prover's
reach), and the two claims that are false.

## 7 Disagreements between code and comments

1. `stop_deadlock`: `DisconnectAll` holds the lock shared while `ForceDisconnect` calls
   `Remove`, which takes it exclusively. `SessionManager.cpp:69-70` names exactly that as
   what must not happen. `Service::Stop` waits for itself as soon as one registered
   session is not yet disconnected.
2. `write_stranded`: `SessionManager.cpp:33-35` calls `Send` safe because it "only puts into
   the writeQueue"; if the write handler empties the queue between the test and the push,
   the message and all later ones are never written. `ClientServer` carries this on to both ends:
   the other end falls silent, and the connection ends by a heartbeat (`StrandedIsReleased`).

Seen as well, without a run: the safety timer is meant for a client that "didn't close"
(`Session.cpp:70`), but the read handler that sees the close does not set `_disconnected`,
so the session is forced and reported again ten seconds later; `Session.cpp:59` means to
recognise a disconnect under way, but nothing records one until the force. The heartbeat reads
the time before the lock and the loop; data that arrives in between makes `now - lastRecv` wrap
around, and the session that has just sent is closed, though `Service.cpp:37` speaks of a timeout
of 10 seconds (`Overtaken` in `Heartbeat` and `ClientServer`).

## 8 What is not modelled, and why

`Logger` (configuration of spdlog), `ProtobufPacket` and generated code (a serialisation that
belongs to protobuf; its packets appear in `ClientServer`), build files and container images.
Of the modelled components: failed
accepts (the handler discards the session object and makes another), making a thread that
fails (`main` would destroy the `Listener` while the IO thread runs its handlers), the
drivers' `Disconnect`, structs of fixed size in `ClientPacketHandler.h`,
the timer manager's and the packet pool's destructors, what static destructors do to the IO
thread when a client's worker calls `std::exit`, packets without a handler (no program sends
one to another), ids that wrap after 2^32 sessions,
and undefined behaviour inside asio when threads use one socket at once.

## 9 Running it

    tlc -workers 2 -config lifecycle_game.cfg MCSessionLifecycle
    tlapm SessionLifecycleProofs.tla

`PROJECT.json` lists every run with its module, the map from definitions to source lines,
and for each property a mutated definition that makes it fail. A definition whose comment
begins with "Mutant" is such a one; no specification uses it.
