-------------------------- MODULE SessionLifecycle ---------------------------
(***************************************************************************)
(* The life of the sessions of one server process: the Listener that       *)
(* accepts them, Session (Start, DoRead, DoWrite, Send, ForceDisconnect,   *)
(* GracefulDisconnect), the SessionManager with its shared_mutex, the      *)
(* heartbeat that Service schedules, and Service::Stop.                    *)
(*                                                                         *)
(* Three kinds of threads take steps.  IO is the one thread that runs      *)
(* Service's io_context: it runs one completion handler at a time.  The    *)
(* Workers run the thread pool's io_context: packet tasks and timers.      *)
(* Main is the thread that destroys the Service.  A step is what a thread  *)
(* does between two points where another thread can interfere: a lock it   *)
(* may have to wait for, an atomic flag, an operation on a socket.         *)
(*                                                                         *)
(* Data is abstracted: a packet is only the task it becomes, and a write   *)
(* queue is only the async_write operations begun on it.  Time is          *)
(* abstracted: a timer may fire at any moment after it was set, and the    *)
(* heartbeat's verdict on a session is a free choice.                      *)
(***************************************************************************)
EXTENDS Naturals, FiniteSets, Functions

CONSTANTS
    Sessions,         \* the Session objects the Listener's factory makes
    Workers,          \* the threads of the ThreadPool
    IO,               \* the thread that runs Service::_ioContext
    Main,             \* the thread that calls Service::Stop
    NoSession,        \* the subject of a thread that works on no session
    IsGameSession,    \* GameSession's overrides (TRUE) or Session's own hooks
    HasTimerManager,  \* whether sessions were given a timer manager
    MayStop,          \* whether Service::Stop is ever called
    MayBroadcast,     \* whether a packet handler may call Broadcast
    MaxTasks,         \* bound: packet tasks of a session posted and not run
    MaxGraceful,      \* bound: GracefulDisconnect calls on a session
    MaxWrites,        \* bound: async_writes of a session in flight
    MaxWriteFailures  \* bound: async_writes of a session that fail

Threads == Workers \union {IO, Main}

ASSUME ThreadsAssumption ==
    /\ IO \notin Workers
    /\ Main \notin Workers
    /\ IO # Main
    /\ NoSession \notin Sessions

ASSUME FlagsAssumption ==
    {IsGameSession, HasTimerManager, MayStop, MayBroadcast} \subseteq BOOLEAN

ASSUME BoundsAssumption ==
    /\ MaxTasks \in Nat
    /\ MaxGraceful \in Nat
    /\ MaxWrites \in Nat \ {0}
    /\ MaxWriteFailures \in Nat

VARIABLES
    \* SessionManager
    sessions,      \* _sessions: a function from the registered ids to sessions
    sessionIdGen,  \* _sessionIdGen
    readers,       \* the threads that hold _lock shared
    \* Session
    sessionId,     \* _sessionId; 0 until Start has stored the id
    socket,        \* "unaccepted", "open" or "closed"
    peerUp,        \* the remote end is still connected (environment)
    disconnected,  \* _disconnected
    read,          \* the async_read_some: "none", "pending" or "aborted"
    writes,        \* the async_writes: pending, aborted, and a front that failed
    reports,       \* calls of OnDisconnected, by path
    \* what is queued on the thread pool's io_context
    tasks,         \* packet tasks posted by OnPacket
    timers,        \* ScheduleOnce timers of GracefulDisconnect
    gracefulCalls, \* GracefulDisconnect calls so far (for its bound)
    heartbeatArmed,\* Service's repeating timer waits for its next expiry
    \* threads
    pc,            \* where each thread is
    subject,       \* the session a thread works on
    ret,           \* where ForceDisconnect returns to
    todo,          \* the ids a loop over _sessions has still to visit
    deadSessions,  \* CheckHeartbeat's local list
    newId,         \* the result of Add, not yet stored in _sessionId
    ioStopped,     \* Service::_ioContext was stopped
    poolStopped    \* the thread pool's io_context was stopped

managerVars == <<sessions, sessionIdGen>>
poolVars    == <<tasks, timers, gracefulCalls, heartbeatArmed>>
sessionVars == <<sessionId, socket, peerUp, disconnected, read, writes, reports>>
stopVars    == <<ioStopped, poolStopped>>
threadVars  == <<pc, subject, ret, todo, deadSessions, newId>>
vars == <<managerVars, readers, sessionVars, poolVars, threadVars, stopVars>>

Paths == {"read", "write", "force"}

Registered(s) == \E i \in DOMAIN sessions : sessions[i] = s

------------------------------------------------------------------------------
(* Threads.                                                                *)

Goto(t, label) == pc' = [pc EXCEPT ![t] = label]

Call(t, label, s, back) ==
    /\ Goto(t, label)
    /\ subject' = [subject EXCEPT ![t] = s]
    /\ ret' = [ret EXCEPT ![t] = back]

\* A thread that goes back to its io_context, or to its loop over ids,
\* forgets the session; one that returns into GracefulDisconnect keeps it.
ReturnTo(t, label) ==
    /\ Goto(t, label)
    /\ subject' = IF label = "schedule" THEN subject
                  ELSE [subject EXCEPT ![t] = NoSession]
    /\ ret' = [ret EXCEPT ![t] = "idle"]

IoReady      == pc[IO] = "idle" /\ ~ioStopped
WorkReady(w) == pc[w] = "idle" /\ ~poolStopped

\* Mutant: Remove and Add take the lock shared.
LockIsFreeToReaders == TRUE

(* The shared_mutex.  Exclusive sections are single steps, so only shared  *)
(* ownership is state; they wait until no thread owns the lock shared.     *)
LockIsFree   == readers = {}
LockShared(t)   == readers' = readers \union {t}
UnlockShared(t) == readers' = readers \ {t}

------------------------------------------------------------------------------
(* Sockets and asynchronous operations.                                    *)

InFlight(s) == writes[s].pending + writes[s].aborted

SetWrites(s, pending, aborted, failed) ==
    writes' = [writes EXCEPT ![s] = [pending |-> pending, aborted |-> aborted,
                                     failed |-> failed]]

\* Mutant: the read loop stops without a handler when the socket is closed.
DoReadIfOpen(s) ==
    read' = [read EXCEPT ![s] = IF socket[s] = "open" THEN "pending" ELSE "none"]

\* DoRead: async_read_some; on a closed socket it fails at once.
DoRead(s) ==
    read' = [read EXCEPT ![s] = IF socket[s] = "open" THEN "pending" ELSE "aborted"]

\* async_write on the front of the queue; on a closed socket it fails at once.
DoWrite(s) ==
    /\ InFlight(s) < MaxWrites
    /\ \/ /\ socket[s] = "closed"
          /\ SetWrites(s, writes[s].pending, writes[s].aborted + 1, writes[s].failed)
       \/ /\ socket[s] # "closed"
          /\ SetWrites(s, writes[s].pending + 1, writes[s].aborted, writes[s].failed)

\* Send takes no lock.  With a write in flight, or a failed buffer at the
\* front, the message is only queued; a sender that read _writeQueue before
\* another thread's push, or after its pop, begins a write all the same.
Send(s) ==
    \/ DoWrite(s)
    \/ /\ InFlight(s) > 0 \/ writes[s].failed
       /\ UNCHANGED writes

\* close() posts every outstanding operation with operation_aborted; one that
\* had completed by then, its handler not yet run, keeps its result.
CloseSocket(s) ==
    /\ socket' = [socket EXCEPT ![s] = "closed"]
    /\ \/ read[s] = "pending" /\ read' = [read EXCEPT ![s] = "aborted"]
       \/ UNCHANGED read
    /\ \E completed \in 0..writes[s].pending :
          SetWrites(s, completed, InFlight(s) - completed, writes[s].failed)

------------------------------------------------------------------------------
Init ==
    /\ sessions = [i \in {} |-> NoSession]
    /\ sessionIdGen = 1
    /\ readers = {}
    /\ sessionId = [s \in Sessions |-> 0]
    /\ socket = [s \in Sessions |-> "unaccepted"]
    /\ peerUp = [s \in Sessions |-> TRUE]
    /\ disconnected = [s \in Sessions |-> FALSE]
    /\ read = [s \in Sessions |-> "none"]
    /\ writes = [s \in Sessions |-> [pending |-> 0, aborted |-> 0, failed |-> FALSE]]
    /\ reports = [s \in Sessions |-> [p \in Paths |-> 0]]
    /\ tasks = [s \in Sessions |-> 0]
    /\ timers = [s \in Sessions |-> 0]
    /\ gracefulCalls = [s \in Sessions |-> 0]
    /\ heartbeatArmed = TRUE
    /\ pc = [t \in Threads |-> "idle"]
    /\ subject = [t \in Threads |-> NoSession]
    /\ ret = [t \in Threads |-> "idle"]
    /\ todo = [t \in Threads |-> {}]
    /\ deadSessions = {}
    /\ newId = 0
    /\ ioStopped = FALSE
    /\ poolStopped = FALSE

(* The remote end closes, resets, or vanishes.                             *)
PeerCloses(s) ==
    /\ socket[s] # "unaccepted"
    /\ peerUp[s]
    /\ peerUp' = [peerUp EXCEPT ![s] = FALSE]
    /\ UNCHANGED <<managerVars, readers, sessionId, socket, disconnected, read,
                   writes, reports, poolVars, threadVars, stopVars>>

------------------------------------------------------------------------------
(* The IO thread: accepting, Session::Start.                               *)

\* The accept handler enters Session::Start.  Nothing compares the number of
\* sessions with the configured MaxSession.  A failed accept only makes
\* DoAccept discard this object and make another.
Accept(s) ==
    /\ IoReady
    /\ socket[s] = "unaccepted"
    /\ socket' = [socket EXCEPT ![s] = "open"]
    /\ Call(IO, "add", s, "idle")
    /\ UNCHANGED <<managerVars, readers, sessionId, peerUp, disconnected, read,
                   writes, reports, poolVars, todo, deadSessions, newId, stopVars>>

\* Mutant: the generator is read but not advanced.
AddWithoutAdvance ==
    /\ pc[IO] = "add"
    /\ LockIsFree
    /\ newId' = sessionIdGen
    /\ sessions' = [i \in DOMAIN sessions \union {sessionIdGen} |->
                        IF i \in DOMAIN sessions THEN sessions[i] ELSE subject[IO]]
    /\ Goto(IO, "started")
    /\ UNCHANGED <<sessionIdGen, readers, sessionVars, poolVars, subject, ret, todo,
                   deadSessions, stopVars>>

\* Mutant: Add returns the id after the one it inserted under.
AddReturnsNext ==
    /\ pc[IO] = "add"
    /\ LockIsFree
    /\ newId' = sessionIdGen + 1
    /\ sessionIdGen' = sessionIdGen + 1
    /\ sessions' = [i \in DOMAIN sessions \union {sessionIdGen} |->
                        IF i \in DOMAIN sessions THEN sessions[i] ELSE subject[IO]]
    /\ Goto(IO, "started")
    /\ UNCHANGED <<readers, sessionVars, poolVars, subject, ret, todo,
                   deadSessions, stopVars>>

\* SessionManager::Add, under the exclusive lock; insert keeps an entry that
\* is already there.
Add ==
    /\ pc[IO] = "add"
    /\ LockIsFree
    /\ newId' = sessionIdGen
    /\ sessionIdGen' = sessionIdGen + 1
    /\ sessions' = [i \in DOMAIN sessions \union {sessionIdGen} |->
                        IF i \in DOMAIN sessions THEN sessions[i] ELSE subject[IO]]
    /\ Goto(IO, "started")
    /\ UNCHANGED <<readers, sessionVars, poolVars, subject, ret, todo,
                   deadSessions, stopVars>>

\* The rest of Start: the id is stored, OnConnected does nothing, and DoRead
\* begins to read.  The session was visible to other threads before this.
FinishStart ==
    LET s == subject[IO] IN
    /\ pc[IO] = "started"
    /\ sessionId' = [sessionId EXCEPT ![s] = newId]
    /\ DoRead(s)
    /\ ReturnTo(IO, "idle")
    /\ UNCHANGED <<managerVars, readers, socket, peerUp, disconnected, writes,
                   reports, poolVars, todo, deadSessions, newId, stopVars>>

------------------------------------------------------------------------------
(* The IO thread: completion handlers of DoRead and DoWrite.               *)

\* A read that returns data, which may still arrive after the remote end has
\* closed.  OnRecv posts a task for a packet that is complete; then DoRead.
ReadData(s) ==
    /\ IoReady
    /\ read[s] = "pending"
    /\ \/ tasks[s] < MaxTasks /\ tasks' = [tasks EXCEPT ![s] = @ + 1]
       \/ UNCHANGED tasks
    /\ DoRead(s)
    /\ UNCHANGED <<managerVars, readers, sessionId, socket, peerUp, disconnected,
                   writes, reports, timers, gracefulCalls, heartbeatArmed,
                   threadVars, stopVars>>

\* Mutant: the loop ends without Remove.
ReadFailsSilently(s) ==
    /\ IoReady
    /\ read[s] = "aborted" \/ (read[s] = "pending" /\ ~peerUp[s])
    /\ read' = [read EXCEPT ![s] = "none"]
    /\ UNCHANGED <<managerVars, readers, sessionId, socket, peerUp, disconnected,
                   writes, reports, poolVars, threadVars, stopVars>>

\* End of file, reset or abort: the loop ends without another DoRead.
ReadFails(s) ==
    /\ IoReady
    /\ read[s] = "aborted" \/ (read[s] = "pending" /\ ~peerUp[s])
    /\ read' = [read EXCEPT ![s] = "none"]
    /\ Call(IO, "removeRead", s, "idle")
    /\ UNCHANGED <<managerVars, readers, sessionId, socket, peerUp, disconnected,
                   writes, reports, poolVars, todo, deadSessions, newId, stopVars>>

\* The front buffer went out.  Either the queue is empty, or DoWrite begins the
\* next at once, which changes nothing here unless the socket was closed.
WriteCompletes(s) ==
    /\ IoReady
    /\ writes[s].pending > 0
    /\ \/ SetWrites(s, writes[s].pending - 1, writes[s].aborted, writes[s].failed)
       \/ /\ socket[s] = "closed"
          /\ SetWrites(s, writes[s].pending - 1, writes[s].aborted + 1, writes[s].failed)
    /\ UNCHANGED <<managerVars, readers, sessionId, socket, peerUp, disconnected,
                   read, reports, poolVars, threadVars, stopVars>>

\* The handler leaves the failed buffer at the front of the queue.
WriteFails(s) ==
    /\ IoReady
    /\ reports[s]["write"] < MaxWriteFailures
    /\ \/ /\ writes[s].aborted > 0
          /\ SetWrites(s, writes[s].pending, writes[s].aborted - 1, TRUE)
       \/ /\ writes[s].pending > 0
          /\ ~peerUp[s]
          /\ SetWrites(s, writes[s].pending - 1, writes[s].aborted, TRUE)
    /\ Call(IO, "removeWrite", s, "idle")
    /\ UNCHANGED <<managerVars, readers, sessionId, socket, peerUp, disconnected,
                   read, reports, poolVars, todo, deadSessions, newId, stopVars>>

------------------------------------------------------------------------------
(* SessionManager::Remove and the OnDisconnected call after it, reached    *)
(* from the read handler, the write handler and ForceDisconnect.           *)

RemovePath == [removeRead |-> "read", removeWrite |-> "write", removeForce |-> "force"]

Removing(t) == pc[t] \in DOMAIN RemovePath

RemoveAndReport(t) ==
    LET s == subject[t] IN
    /\ Removing(t)
    /\ LockIsFree
    /\ sessions' = Restrict(sessions, DOMAIN sessions \ {sessionId[s]})
    /\ reports' = [reports EXCEPT ![s][RemovePath[pc[t]]] = @ + 1]
    /\ ReturnTo(t, ret[t])
    /\ UNCHANGED <<sessionIdGen, readers, sessionId, socket, peerUp, disconnected,
                   read, writes, poolVars, todo, deadSessions, newId, stopVars>>

------------------------------------------------------------------------------
(* ForceDisconnect.                                                        *)

\* Mutant: _disconnected is set but not tested.
ForceExchangeUntested(t) ==
    /\ pc[t] = "force"
    /\ disconnected' = [disconnected EXCEPT ![subject[t]] = TRUE]
    /\ Goto(t, "close")
    /\ UNCHANGED <<managerVars, readers, sessionId, socket, peerUp, read, writes,
                   reports, poolVars, subject, ret, todo, deadSessions, newId, stopVars>>

\* _disconnected.exchange(true)
ForceExchange(t) ==
    LET s == subject[t] IN
    /\ pc[t] = "force"
    /\ disconnected' = [disconnected EXCEPT ![s] = TRUE]
    /\ \/ disconnected[s] /\ ReturnTo(t, ret[t])
       \/ ~disconnected[s] /\ Goto(t, "close") /\ UNCHANGED <<subject, ret>>
    /\ UNCHANGED <<managerVars, readers, sessionId, socket, peerUp, read, writes,
                   reports, poolVars, todo, deadSessions, newId, stopVars>>

\* Mutant: an exception leaves ForceDisconnect before Remove.
ForceCloseReturns(t) ==
    LET s == subject[t] IN
    /\ pc[t] = "close"
    /\ \/ CloseSocket(s) /\ Goto(t, "removeForce") /\ UNCHANGED <<subject, ret>>
       \/ ~peerUp[s] /\ UNCHANGED <<socket, read, writes>> /\ ReturnTo(t, ret[t])
    /\ UNCHANGED <<managerVars, readers, sessionId, peerUp, disconnected, reports,
                   poolVars, todo, deadSessions, newId, stopVars>>

\* Closes the socket if it is open.  On a connection the remote end has reset,
\* shutdown() throws and the catch block leaves the socket open.
ForceClose(t) ==
    LET s == subject[t] IN
    /\ pc[t] = "close"
    /\ \/ CloseSocket(s)
       \/ ~peerUp[s] /\ UNCHANGED <<socket, read, writes>>
    /\ Goto(t, "removeForce")
    /\ UNCHANGED <<managerVars, readers, sessionId, peerUp, disconnected, reports,
                   poolVars, subject, ret, todo, deadSessions, newId, stopVars>>

------------------------------------------------------------------------------
(* The thread pool: packet tasks.                                          *)

\* A task hands the packet to its handler, which does not touch the session,
\* answers it, or disconnects it.
RunPacketTask(w, s) ==
    /\ WorkReady(w)
    /\ tasks[s] > 0
    /\ tasks' = [tasks EXCEPT ![s] = @ - 1]
    /\ \/ /\ UNCHANGED <<writes, gracefulCalls, readers, threadVars>>
       \/ /\ Send(s)
          /\ UNCHANGED <<gracefulCalls, readers, threadVars>>
       \/ /\ Call(w, "force", s, "idle")
          /\ UNCHANGED <<writes, gracefulCalls, readers, todo, deadSessions, newId>>
       \/ /\ gracefulCalls[s] < MaxGraceful
          /\ gracefulCalls' = [gracefulCalls EXCEPT ![s] = @ + 1]
          /\ Call(w, "graceful", s, "idle")
          /\ UNCHANGED <<writes, readers, todo, deadSessions, newId>>
       \/ /\ MayBroadcast
          /\ LockShared(w)
          /\ todo' = [todo EXCEPT ![w] = DOMAIN sessions]
          /\ Goto(w, "broadcast")
          /\ UNCHANGED <<writes, gracefulCalls, subject, ret, deadSessions, newId>>
    /\ UNCHANGED <<managerVars, sessionId, socket, peerUp, disconnected, read,
                   reports, timers, heartbeatArmed, stopVars>>

\* SessionManager::Broadcast sends to each session in turn, the lock held.
BroadcastNext(w) ==
    /\ pc[w] = "broadcast"
    /\ \E i \in todo[w] :
          /\ Send(sessions[i])
          /\ todo' = [todo EXCEPT ![w] = @ \ {i}]
    /\ UNCHANGED <<managerVars, readers, sessionId, socket, peerUp, disconnected,
                   read, reports, poolVars, pc, subject, ret, deadSessions, newId,
                   stopVars>>

BroadcastDone(w) ==
    /\ pc[w] = "broadcast"
    /\ todo[w] = {}
    /\ UnlockShared(w)
    /\ Goto(w, "idle")
    /\ UNCHANGED <<managerVars, sessionVars, poolVars, subject, ret, todo,
                   deadSessions, newId, stopVars>>

------------------------------------------------------------------------------
(* GracefulDisconnect and its safety timer.                                *)

GracefulCheck(w) ==
    /\ pc[w] = "graceful"
    /\ \/ disconnected[subject[w]] /\ ReturnTo(w, "idle")
       \/ ~disconnected[subject[w]] /\ Goto(w, "hook") /\ UNCHANGED <<subject, ret>>
    /\ UNCHANGED <<managerVars, readers, sessionVars, poolVars, todo, deadSessions,
                   newId, stopVars>>

\* OnRequestGracefulDisconnect: GameSession sends S_DISCONNECT, Session itself
\* disconnects at once and comes back.
GracefulHook(w) ==
    LET s == subject[w] IN
    /\ pc[w] = "hook"
    /\ \/ IsGameSession /\ Send(s) /\ Call(w, "schedule", s, "idle")
       \/ ~IsGameSession /\ Call(w, "force", s, "schedule") /\ UNCHANGED writes
    /\ UNCHANGED <<managerVars, readers, sessionId, socket, peerUp, disconnected,
                   read, reports, poolVars, todo, deadSessions, newId, stopVars>>

GracefulSchedule(w) ==
    LET s == subject[w] IN
    /\ pc[w] = "schedule"
    /\ \/ /\ HasTimerManager
          /\ timers' = [timers EXCEPT ![s] = @ + 1]
          /\ ReturnTo(w, "idle")
       \/ ~HasTimerManager /\ Call(w, "force", s, "idle") /\ UNCHANGED timers
    /\ UNCHANGED <<managerVars, readers, sessionVars, tasks, gracefulCalls,
                   heartbeatArmed, todo, deadSessions, newId, stopVars>>

\* The timer's task looks only at _disconnected.
TimerForces(w, s) ==
    /\ WorkReady(w)
    /\ timers[s] > 0
    /\ ~disconnected[s]
    /\ timers' = [timers EXCEPT ![s] = @ - 1]
    /\ Call(w, "force", s, "idle")
    /\ UNCHANGED <<managerVars, readers, sessionVars, tasks, gracefulCalls,
                   heartbeatArmed, todo, deadSessions, newId, stopVars>>

TimerFindsDisconnected(w, s) ==
    /\ WorkReady(w)
    /\ timers[s] > 0
    /\ disconnected[s]
    /\ timers' = [timers EXCEPT ![s] = @ - 1]
    /\ UNCHANGED <<managerVars, readers, sessionVars, tasks, gracefulCalls,
                   heartbeatArmed, threadVars, stopVars>>

------------------------------------------------------------------------------
(* CheckHeartbeat, run by Service's repeating timer.  The timer is armed   *)
(* again only when the task returns, so one check runs at a time.          *)

HeartbeatStart(w) ==
    /\ WorkReady(w)
    /\ heartbeatArmed
    /\ heartbeatArmed' = FALSE
    /\ LockShared(w)
    /\ todo' = [todo EXCEPT ![w] = DOMAIN sessions]
    /\ Goto(w, "scan")
    /\ UNCHANGED <<managerVars, sessionVars, tasks, timers, gracefulCalls, subject,
                   ret, deadSessions, newId, stopVars>>

\* A session that was silent for too long is noted down, another is pinged.
HeartbeatScan(w) ==
    /\ pc[w] = "scan"
    /\ \E i \in todo[w] :
          /\ todo' = [todo EXCEPT ![w] = @ \ {i}]
          /\ \/ deadSessions' = deadSessions \union {i} /\ UNCHANGED writes
             \/ IsGameSession /\ Send(sessions[i]) /\ UNCHANGED deadSessions
             \/ ~IsGameSession /\ UNCHANGED <<writes, deadSessions>>
    /\ UNCHANGED <<managerVars, readers, sessionId, socket, peerUp, disconnected,
                   read, reports, poolVars, pc, subject, ret, newId, stopVars>>

HeartbeatUnlock(w) ==
    /\ pc[w] = "scan"
    /\ todo[w] = {}
    /\ UnlockShared(w)
    /\ Goto(w, "reap")
    /\ UNCHANGED <<managerVars, sessionVars, poolVars, subject, ret, todo,
                   deadSessions, newId, stopVars>>

\* Mutant: the test of Find's result is inverted.
HeartbeatFindInverted(w) ==
    /\ pc[w] = "reap"
    /\ \E i \in deadSessions : deadSessions' = deadSessions \ {i}
    /\ UNCHANGED <<managerVars, readers, sessionVars, poolVars, pc, subject, ret, todo,
                   newId, stopVars>>

\* Find the next dead session again, by its id; it may be gone by now.
HeartbeatFind(w) ==
    /\ pc[w] = "reap"
    /\ \E i \in deadSessions :
          /\ deadSessions' = deadSessions \ {i}
          /\ \/ i \in DOMAIN sessions /\ Call(w, "hbClose", sessions[i], "idle")
             \/ i \notin DOMAIN sessions /\ UNCHANGED <<pc, subject, ret>>
    /\ UNCHANGED <<managerVars, readers, sessionVars, poolVars, todo, newId, stopVars>>

\* Closes the socket and nothing else; Remove is left to the read handler.
HeartbeatClose(w) ==
    /\ pc[w] = "hbClose"
    /\ CloseSocket(subject[w])
    /\ ReturnTo(w, "reap")
    /\ UNCHANGED <<managerVars, readers, sessionId, peerUp, disconnected, reports,
                   poolVars, todo, deadSessions, newId, stopVars>>

HeartbeatDone(w) ==
    /\ pc[w] = "reap"
    /\ deadSessions = {}
    /\ heartbeatArmed' = TRUE
    /\ Goto(w, "idle")
    /\ UNCHANGED <<managerVars, readers, sessionVars, tasks, timers, gracefulCalls,
                   subject, ret, todo, deadSessions, newId, stopVars>>

------------------------------------------------------------------------------
(* Service::Stop.                                                          *)

\* DisconnectAll keeps the lock shared while it walks over the sessions ...
StopBegins ==
    /\ MayStop
    /\ pc[Main] = "idle"
    /\ LockShared(Main)
    /\ todo' = [todo EXCEPT ![Main] = DOMAIN sessions]
    /\ Goto(Main, "disconnectAll")
    /\ UNCHANGED <<managerVars, sessionVars, poolVars, subject, ret, deadSessions,
                   newId, stopVars>>

\* ... and calls ForceDisconnect on each.
DisconnectNext ==
    /\ pc[Main] = "disconnectAll"
    /\ \E i \in todo[Main] :
          /\ todo' = [todo EXCEPT ![Main] = @ \ {i}]
          /\ Call(Main, "force", sessions[i], "disconnectAll")
    /\ UNCHANGED <<managerVars, readers, sessionVars, poolVars, deadSessions, newId,
                   stopVars>>

DisconnectAllDone ==
    /\ pc[Main] = "disconnectAll"
    /\ todo[Main] = {}
    /\ UnlockShared(Main)
    /\ Goto(Main, "stopIo")
    /\ UNCHANGED <<managerVars, sessionVars, poolVars, subject, ret, todo,
                   deadSessions, newId, stopVars>>

\* io_context::stop: no further handler is started; then the thread is joined.
StopIo ==
    /\ pc[Main] = "stopIo"
    /\ ioStopped' = TRUE
    /\ Goto(Main, "joinIo")
    /\ UNCHANGED <<managerVars, readers, sessionVars, poolVars, subject, ret, todo,
                   deadSessions, newId, poolStopped>>

JoinIoStopPool ==
    /\ pc[Main] = "joinIo"
    /\ pc[IO] = "idle"
    /\ poolStopped' = TRUE
    /\ Goto(Main, "joinPool")
    /\ UNCHANGED <<managerVars, readers, sessionVars, poolVars, subject, ret, todo,
                   deadSessions, newId, ioStopped>>

JoinPool ==
    /\ pc[Main] = "joinPool"
    /\ \A w \in Workers : pc[w] = "idle"
    /\ Goto(Main, "stopped")
    /\ UNCHANGED <<managerVars, readers, sessionVars, poolVars, subject, ret, todo,
                   deadSessions, newId, stopVars>>

------------------------------------------------------------------------------
IoNext ==
    \/ Add \/ FinishStart
    \/ \E s \in Sessions : \/ Accept(s) \/ ReadData(s) \/ ReadFails(s)
                           \/ WriteCompletes(s) \/ WriteFails(s)

WorkerNext(w) ==
    \/ \E s \in Sessions : \/ RunPacketTask(w, s)
                           \/ TimerForces(w, s) \/ TimerFindsDisconnected(w, s)
    \/ BroadcastNext(w) \/ BroadcastDone(w)
    \/ GracefulCheck(w) \/ GracefulHook(w) \/ GracefulSchedule(w)
    \/ HeartbeatStart(w) \/ HeartbeatScan(w) \/ HeartbeatUnlock(w)
    \/ HeartbeatFind(w) \/ HeartbeatClose(w) \/ HeartbeatDone(w)

MainNext ==
    StopBegins \/ DisconnectNext \/ DisconnectAllDone \/ StopIo \/ JoinIoStopPool \/ JoinPool

Next ==
    \/ \E s \in Sessions : PeerCloses(s)
    \/ IoNext
    \/ \E w \in Workers : WorkerNext(w)
    \/ MainNext
    \/ \E t \in Threads : ForceExchange(t) \/ ForceClose(t) \/ RemoveAndReport(t)

Spec == Init /\ [][Next]_vars

------------------------------------------------------------------------------
(* Fairness, for a server that is never stopped.  Both io_contexts run     *)
(* ready handlers in FIFO order, so a handler that is ready again and      *)
(* again is run: strong fairness for starting one, and for the timers,     *)
(* weak fairness inside it.  Remove and Add wait for the shared_mutex; the *)
(* heartbeat, its only reader here, leaves it free for seconds at a time.  *)
(* Nothing is assumed of the remote end, of accepts and of arriving data.  *)

FairSpec ==
    /\ Spec
    /\ WF_vars(FinishStart) /\ SF_vars(Add)
    /\ \A s \in Sessions :
          /\ SF_vars(ReadFails(s) \/ (socket[s] = "closed" /\ ReadData(s)))
          /\ SF_vars(WriteFails(s) \/ WriteCompletes(s))
          /\ SF_vars(\E w \in Workers : RunPacketTask(w, s))
          /\ SF_vars(\E w \in Workers : TimerForces(w, s) \/ TimerFindsDisconnected(w, s))
    /\ SF_vars(\E w \in Workers : HeartbeatStart(w))
    /\ \A w \in Workers :
          /\ WF_vars(GracefulCheck(w)) /\ WF_vars(GracefulHook(w))
          /\ WF_vars(GracefulSchedule(w))
          /\ WF_vars(HeartbeatScan(w)) /\ WF_vars(HeartbeatUnlock(w))
          /\ WF_vars(HeartbeatFind(w)) /\ WF_vars(HeartbeatClose(w))
          /\ WF_vars(HeartbeatDone(w))
    /\ \A t \in Threads :
          WF_vars(ForceExchange(t)) /\ WF_vars(ForceClose(t)) /\ SF_vars(RemoveAndReport(t))

------------------------------------------------------------------------------
Labels ==
    {"idle", "add", "started", "removeRead", "removeWrite", "removeForce",
     "force", "close", "graceful", "hook", "schedule", "broadcast",
     "scan", "reap", "hbClose", "disconnectAll", "stopIo", "joinIo", "joinPool",
     "stopped"}

Ids == Nat \ {0}

WriteStates == [pending : Nat, aborted : Nat, failed : BOOLEAN]

ManagerTypeOK ==
    /\ DOMAIN sessions \subseteq Ids
    /\ sessions \in [DOMAIN sessions -> Sessions]
    /\ sessionIdGen \in Ids
    /\ readers \subseteq Threads

SessionTypeOK ==
    /\ sessionId \in [Sessions -> Nat]
    /\ socket \in [Sessions -> {"unaccepted", "open", "closed"}]
    /\ peerUp \in [Sessions -> BOOLEAN]
    /\ disconnected \in [Sessions -> BOOLEAN]
    /\ read \in [Sessions -> {"none", "pending", "aborted"}]
    /\ writes \in [Sessions -> WriteStates]
    /\ reports \in [Sessions -> [Paths -> Nat]]

PoolTypeOK ==
    /\ tasks \in [Sessions -> Nat]
    /\ timers \in [Sessions -> Nat]
    /\ gracefulCalls \in [Sessions -> Nat]
    /\ heartbeatArmed \in BOOLEAN
    /\ ioStopped \in BOOLEAN
    /\ poolStopped \in BOOLEAN

ThreadTypeOK ==
    /\ pc \in [Threads -> Labels]
    /\ subject \in [Threads -> Sessions \union {NoSession}]
    /\ ret \in [Threads -> {"idle", "schedule", "disconnectAll"}]
    /\ todo \in [Threads -> SUBSET Ids]
    /\ deadSessions \subseteq Ids
    /\ newId \in Nat

TypeOK == ManagerTypeOK /\ SessionTypeOK /\ PoolTypeOK /\ ThreadTypeOK

\* An id in the registry is the id its session answers to (and with which it
\* will call Remove), except while Start has not yet stored Add's result.
RegistryFaithful ==
    \A i \in DOMAIN sessions :
        \/ sessionId[sessions[i]] = i
        \/ pc[IO] = "started" /\ subject[IO] = sessions[i] /\ newId = i

\* A registered session still has something that will unregister it: its read
\* is outstanding, or the IO thread is about to begin it or to call Remove.
RegisteredHasReader ==
    \A i \in DOMAIN sessions :
        \/ read[sessions[i]] # "none"
        \/ subject[IO] = sessions[i] /\ pc[IO] \in {"started", "removeRead"}

\* A session that reads and was never reported gone is registered: the heartbeat
\* watches it and Broadcast reaches it.  No other session's id can have erased
\* or displaced its entry.
LiveSessionRegistered ==
    \A s \in Sessions :
        read[s] # "none" /\ (\A p \in Paths : reports[s][p] = 0) => Registered(s)

\* Every loop over _sessions (heartbeat, Broadcast, DisconnectAll) has only
\* live map entries before it: nothing was erased under its iterator.
IteratorsValid ==
    \A t \in Threads :
        pc[t] \in {"scan", "broadcast", "disconnectAll"} => todo[t] \subseteq DOMAIN sessions

\* The session layer implements its contract: a session is registered once,
\* OnDisconnected comes only after Remove, and never twice for the end of the
\* read loop or for ForceDisconnect, whichever threads disconnect it.
Phase ==
    [s \in Sessions |->
        IF Registered(s) THEN "registered"
        ELSE IF sessionId[s] # 0 THEN "released" ELSE "new"]

Contract == INSTANCE SessionContract WITH phase <- Phase

ContractSpec == Contract!ContractSpec

\* Remove is never called by a thread that holds the registry's lock.
\* SessionManager.cpp:69-70 gives that as the reason Remove may be called
\* where it is ("the shared_lock was released above").
NoUpgrade == \A t \in Threads : Removing(t) => t \notin readers

\* A session whose remote end is gone is eventually unregistered, whatever the
\* heartbeat, timers and handlers are doing at the time.
LostPeerIsReleased ==
    \A s \in Sessions : (Registered(s) /\ ~peerUp[s]) ~> ~Registered(s)

\* CheckHeartbeat only closes the socket of a dead session, and that is enough:
\* SessionManager.cpp:61 and :68, "close socket -> error handler -> remove".
DeadSessionIsReleased ==
    \A s \in Sessions :
        (\E i \in deadSessions : i \in DOMAIN sessions /\ sessions[i] = s) ~> ~Registered(s)

\* Whatever a client does, a session asked to disconnect gracefully ends
\* disconnected, unregistered and with its application told so by the
\* ForceDisconnect of the safety timer or of whoever was first.
GracefulDisconnectEnds ==
    \A s \in Sessions :
        timers[s] > 0 ~> /\ socket[s] = "closed" \/ ~peerUp[s]
                         /\ ~Registered(s)
                         /\ reports[s]["force"] = 1
==============================================================================
