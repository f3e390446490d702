----------------------------- MODULE ClientServer -----------------------------
(***************************************************************************)
(* One connection from end to end: a program of examples/ at one end, its  *)
(* server at the other.  Both run the framework: each end has an IO thread *)
(* that reads, a pool that handles packets, and a heartbeat of its own     *)
(* that closes a session which has been silent; only GameSession pings.    *)
(*                                                                         *)
(* Sessions, framing, the codec and the steps inside Send have modules of  *)
(* their own; here a handler is one step, a packet is its id, and time is  *)
(* kept as how long things have been waiting, so that no clock has to be   *)
(* bounded.  What those modules show to go wrong can go wrong here: a Send *)
(* that races with another or with a write's handler, data that overtakes  *)
(* a heartbeat, and a heartbeat that finds a session inside Start.         *)
(***************************************************************************)
EXTENDS Naturals, Sequences, Functions

CONSTANTS
    Programs,      \* those of examples/ that are followed
    Timeout,       \* timeoutInterval of CheckHeartbeat: 10 s
    Interval,      \* period of Service's timer: 5 s
    Grace,         \* delay of the timer in GracefulDisconnect: 10 s
    MaxLate,       \* how long after its due time a timer's task has run
    MaxDelay,      \* how long after it was written a packet has been handled
    ServerThreads  \* config.server.threadCount

\* A ping and its answer fit between the periods that add up to the timeout,
\* and a client has the time to leave when it is asked to.
ASSUME DelaysAssumption ==
    /\ {Timeout, Interval, Grace, MaxLate, MaxDelay} \subseteq Nat
    /\ ServerThreads \in Nat \ {0}
    /\ Interval + MaxLate + 2 * MaxDelay <= Timeout
    /\ MaxLate < Interval
    /\ 2 * MaxDelay < Grace

ASSUME ProgramsAssumption == Programs \subseteq {"ClientStruct", "ClientProto", "Echo"}

Ends == {"client", "server"}
Other(e) == IF e = "client" THEN "server" ELSE "client"

\* Mutant: the client's pool has two workers.
WorkersTwo(e) == IF e = "client" THEN 2 ELSE ServerThreads

Workers(e) == IF e = "client" THEN 1 ELSE ServerThreads

VARIABLES
    program,   \* which of the examples the client is
    life,      \* of each process: "up", "exited" (when asked to), "killed", or
               \*   "gone" (lost with its machine)
    sock,      \* of each session: "none", "failed", "linked" (not started yet),
               \*   "added" (inside Start, with a _lastRecvTime of 0), "cut" (closed
               \*   there), "open", "closed" (still registered), "released"
    wire,      \* packets on their way to an end; "FIN" is the end of the stream
    queue,     \* an end's _writeQueue: "empty", "writing", "stranded" (not empty and
               \*   written by nobody), "undefined"
    tasks,     \* packets posted to an end's pool and not handled yet
    silence,   \* time since _lastRecvTime
    elapsed,   \* time since an end's heartbeat was last due
    check,     \* the heartbeat's task: "idle", "read" (the clock), "reap"
    since,     \* time since that task has read the clock
    safety,    \* how long each safety timer of the server's session has run
    forced,    \* the server's _disconnected
    login,     \* of the client's request: "asked", "answered", "heard"
    farewell   \* S_DISCONNECT: "none", "early", or "due" (sent after the answer)

checkVars == <<elapsed, check, since>>
timeVars == <<silence, checkVars, safety>>
dataVars == <<wire, queue, tasks>>
goalVars == <<login, farewell>>
vars == <<program, life, sock, dataVars, timeVars, forced, goalVars>>

IsEcho == program = "Echo"

Init ==
    /\ program \in Programs
    /\ life = [e \in Ends |-> "up"]
    /\ sock = [e \in Ends |-> "none"]
    /\ wire = [e \in Ends |-> <<>>]
    /\ queue = [e \in Ends |-> "empty"]
    /\ tasks = [e \in Ends |-> <<>>]
    /\ silence = [e \in Ends |-> 0]
    /\ elapsed \in [Ends -> 0..(Interval - 1)]
    /\ check = [e \in Ends |-> "idle"]
    /\ since = [e \in Ends |-> 0]
    /\ safety = {} /\ forced = FALSE
    /\ login = "asked" /\ farewell = "none"

------------------------------------------------------------------------------
(* Sending and closing.                                                    *)

Listens(e) == life[e] = "up" /\ sock[e] \in {"linked", "added", "open"}

\* The session has been started, or is over.
Started(e) == sock[e] \in {"open", "closed", "released"}

Connected == \A e \in Ends : Listens(e)

\* All but the requests and the echo, which are sent by the IO thread.
SentByWorkers == {"S_LOGIN_RES", "S_LOGIN_RES_PROTO", "S_PING", "C_PONG", "S_DISCONNECT"}

\* Session::Send.  A packet for a connection that has ended is lost, and so is
\* one behind a stranded packet.  When a worker sends while a write is under
\* way, the test, the push and the write's handler have no lock: the handler
\* can empty the queue between the two, and the packet strands, or the worker
\* and another thread both find it empty and begin two writes, after which a
\* handler pops from an empty deque (WriteQueue follows these steps one by one).
Send(e, id) ==
    \/ /\ ~Connected \/ queue[e] = "stranded"
       /\ UNCHANGED <<wire, queue>>
    \/ /\ Connected /\ queue[e] \in {"empty", "writing"}
       /\ wire' = [wire EXCEPT ![Other(e)] = Append(@, [id |-> id, age |-> 0])]
       /\ queue' = [queue EXCEPT ![e] = "writing"]
    \/ /\ Connected /\ queue[e] = "writing" /\ id \in SentByWorkers
       /\ \E outcome \in {"stranded", "undefined"} : queue' = [queue EXCEPT ![e] = outcome]
       /\ UNCHANGED wire

\* The handler of e's write pops the last packet.  (The handler of a write that
\* fails is part of SessionLifecycle; here the read fails as well.)
WriteCompletes(e) ==
    /\ Connected /\ queue[e] = "writing"
    /\ queue' = [queue EXCEPT ![e] = "empty"]
    /\ UNCHANGED <<program, life, sock, wire, tasks, timeVars, forced, goalVars>>

\* What is left of q when the connection is reset after n packets of it.
Ended(q, n) == Append(SubSeq(q, 1, n), [id |-> "FIN", age |-> 0])

\* e's socket is closed: of what it had sent some may be lost with a reset, and
\* then the other end's read fails.
CloseSocket(e) ==
    LET arriving == wire[Other(e)] IN
    \E n \in 0..Len(arriving) :
        wire' = [wire EXCEPT ![e] = <<>>,
                             ![Other(e)] = IF Listens(Other(e)) THEN Ended(arriving, n) ELSE <<>>]

\* e's process ends, and nothing that it kept is left.
Cease(e) ==
    /\ queue' = [queue EXCEPT ![e] = "empty"]
    /\ tasks' = [tasks EXCEPT ![e] = <<>>]
    /\ silence' = [silence EXCEPT ![e] = 0]
    /\ elapsed' = [elapsed EXCEPT ![e] = 0]
    /\ check' = [check EXCEPT ![e] = "idle"]
    /\ since' = [since EXCEPT ![e] = 0]
    /\ safety' = IF e = "server" THEN {} ELSE safety

------------------------------------------------------------------------------
(* Connecting.                                                             *)

\* async_connect: the two kernels are connected, or the client's handler says
\* that it failed, and the client does nothing more.
Connect ==
    /\ sock["client"] = "none" /\ life["client"] = "up"
    /\ \/ life["server"] = "up" /\ sock' = [e \in Ends |-> "linked"]
       \/ sock' = [sock EXCEPT !["client"] = "failed"]
    /\ UNCHANGED <<program, life, dataVars, timeVars, forced, goalVars>>

Request == CASE program = "ClientStruct" -> "C_LOGIN"
             [] program = "ClientProto"  -> "C_LOGIN_PROTO"
             [] program = "Echo"         -> "Hello"

\* Session::Start, in the connect handler or the accept handler, puts the session
\* into the registry, where the heartbeat finds it.
AddSession(e) ==
    /\ life[e] = "up" /\ sock[e] = "linked"
    /\ sock' = [sock EXCEPT ![e] = "added"]
    /\ UNCHANGED <<program, life, dataVars, timeVars, forced, goalVars>>

\* And goes on: UpdateLastRecvTime, OnConnected, which at the client sends the
\* request, and DoRead, which fails if the heartbeat has closed the socket.
StartSession(e) ==
    /\ life[e] = "up"
    /\ \/ sock[e] = "added" /\ sock' = [sock EXCEPT ![e] = "open"]
       \/ sock[e] = "cut" /\ ~(e = "server" /\ IsEcho) /\ sock' = [sock EXCEPT ![e] = "closed"]
    /\ silence' = [silence EXCEPT ![e] = 0]
    /\ \/ e = "client" /\ Send(e, Request)
       \/ e = "server" /\ UNCHANGED <<wire, queue>>
    /\ UNCHANGED <<program, life, tasks, checkVars, safety, forced, goalVars>>

\* EchoSession::OnConnected asks for the address of a client that has already
\* reset the connection, or of a socket that the heartbeat has closed: nobody
\* catches the exception, and the server ends.
EchoStartThrows ==
    /\ life["server"] = "up" /\ IsEcho
    /\ \/ sock["server"] = "added" /\ wire["server"] # <<>> /\ Head(wire["server"]).id = "FIN"
       \/ sock["server"] = "cut"
    /\ Cease("server") /\ life' = [life EXCEPT !["server"] = "killed"]
    /\ sock' = [sock EXCEPT !["server"] = "released"]
    /\ wire' = [wire EXCEPT !["server"] = <<>>]
    /\ UNCHANGED <<program, forced, goalVars>>

------------------------------------------------------------------------------
(* The IO threads.                                                         *)

\* Session::OnRecv notes the time and OnPacket posts the packet.
Receive(e) ==
    /\ life[e] = "up" /\ sock[e] = "open" /\ ~IsEcho
    /\ wire[e] # <<>> /\ Head(wire[e]).id # "FIN"
    /\ wire' = [wire EXCEPT ![e] = Tail(@)]
    /\ tasks' = [tasks EXCEPT ![e] = Append(@, Head(wire[e]))]
    /\ silence' = [silence EXCEPT ![e] = 0]
    /\ UNCHANGED <<program, life, sock, queue, checkVars, safety, forced, goalVars>>

\* EchoSession::OnRecv sends back what it got.  Neither it nor the client's
\* calls UpdateLastRecvTime, as the OnRecv that they override does.
ReceiveEcho(e) ==
    /\ life[e] = "up" /\ sock[e] = "open" /\ IsEcho
    /\ wire[e] # <<>> /\ Head(wire[e]).id # "FIN"
    /\ LET rest == [wire EXCEPT ![e] = Tail(@)]
           echo == [id |-> Request, age |-> 0]
       IN  \/ /\ e = "server" /\ login' = "answered"
              /\ \/ /\ Connected
                    /\ wire' = [rest EXCEPT !["client"] = Append(@, echo)]
                    /\ queue' = [queue EXCEPT !["server"] = "writing"]
                 \/ ~Connected /\ wire' = rest /\ UNCHANGED queue
           \/ e = "client" /\ login' = "heard" /\ wire' = rest /\ UNCHANGED queue
    /\ UNCHANGED <<program, life, sock, tasks, timeVars, forced, farewell>>

\* Mutant: the end of the stream is not told to anybody.
ReadFailsIfClosed(e) ==
    /\ life[e] = "up"
    /\ sock[e] = "closed"
    /\ sock' = [sock EXCEPT ![e] = "released"]
    /\ wire' = [wire EXCEPT ![e] = <<>>]
    /\ UNCHANGED <<program, life, queue, tasks, timeVars, forced, goalVars>>

\* Mutant: a read that this end has aborted is not reported.
ReadFailsUnlessAborted(e) ==
    /\ life[e] = "up" /\ sock[e] = "open"
    /\ wire[e] # <<>> /\ Head(wire[e]).id = "FIN"
    /\ sock' = [sock EXCEPT ![e] = "released"]
    /\ wire' = [wire EXCEPT ![e] = <<>>]
    /\ UNCHANGED <<program, life, queue, tasks, timeVars, forced, goalVars>>

\* The read fails, because the other end or this one has closed: Remove and
\* OnDisconnected.
ReadFails(e) ==
    /\ life[e] = "up"
    /\ \/ sock[e] = "closed"
       \/ sock[e] = "open" /\ wire[e] # <<>> /\ Head(wire[e]).id = "FIN"
    /\ sock' = [sock EXCEPT ![e] = "released"]
    /\ wire' = [wire EXCEPT ![e] = <<>>]
    /\ UNCHANGED <<program, life, queue, tasks, timeVars, forced, goalVars>>

------------------------------------------------------------------------------
(* The workers.  Any of the tasks that workers may have reached can be the   *)
(* next to take effect.                                                      *)

\* q without its packet i.
Without(q, i) == SubSeq(q, 1, i - 1) \o SubSeq(q, i + 1, Len(q))

\* The tasks of e with packet id that a worker may have reached.
Reached(e, id) == {i \in DOMAIN tasks[e] : i <= Workers(e) /\ tasks[e][i].id = id}

\* A worker of e handles packet id, which takes it off the tasks.
Handle(e, id) ==
    /\ life[e] = "up"
    /\ \E i \in Reached(e, id) : tasks' = [tasks EXCEPT ![e] = Without(@, i)]

\* Handle_C_LOGIN, reached through HandlePacket.
HandleLogin ==
    /\ Handle("server", "C_LOGIN")
    /\ Send("server", "S_LOGIN_RES")
    /\ login' = "answered"
    /\ UNCHANGED <<program, life, sock, timeVars, forced, farewell>>

\* Mutant: the request does not parse, which is only logged.
HandleLoginProtoLogs ==
    /\ Handle("server", "C_LOGIN_PROTO")
    /\ UNCHANGED <<program, life, sock, wire, queue, timeVars, forced, goalVars>>

\* Handle_C_LOGIN_PROTO of a request that parses.
HandleLoginProto ==
    /\ Handle("server", "C_LOGIN_PROTO")
    /\ Send("server", "S_LOGIN_RES_PROTO")
    /\ login' = "answered"
    /\ UNCHANGED <<program, life, sock, timeVars, forced, farewell>>

\* Handle_C_PONG does nothing: that the pong arrived is enough.
HandlePong ==
    /\ Handle("server", "C_PONG")
    /\ UNCHANGED <<program, life, sock, wire, queue, timeVars, forced, goalVars>>

\* Each client registers a handler for its own kind of answer.
HandleLoginRes ==
    /\ program = "ClientStruct" /\ Handle("client", "S_LOGIN_RES")
    /\ login' = "heard"
    /\ UNCHANGED <<program, life, sock, wire, queue, timeVars, forced, farewell>>

HandleLoginResProto ==
    /\ program = "ClientProto" /\ Handle("client", "S_LOGIN_RES_PROTO")
    /\ login' = "heard"
    /\ UNCHANGED <<program, life, sock, wire, queue, timeVars, forced, farewell>>

HandlePing ==
    /\ Handle("client", "S_PING")
    /\ Send("client", "C_PONG")
    /\ UNCHANGED <<program, life, sock, timeVars, forced, goalVars>>

\* Handle_S_DISCONNECT: ForceDisconnect, and the process exits.
HandleDisconnect ==
    /\ life["client"] = "up" /\ Reached("client", "S_DISCONNECT") # {}
    /\ Cease("client") /\ life' = [life EXCEPT !["client"] = "exited"]
    /\ sock' = [sock EXCEPT !["client"] = "released"]
    /\ \/ sock["client"] = "open" /\ CloseSocket("client")
       \/ sock["client"] # "open" /\ UNCHANGED wire
    /\ UNCHANGED <<program, forced, goalVars>>

------------------------------------------------------------------------------
(* Timers.                                                                 *)

\* e's heartbeat runs and may find the session: one whose registry is empty for
\* good is not followed.
Beats(e) == life[e] = "up" /\ sock[e] \notin {"failed", "released"}

\* The heartbeat's task reads the clock.
ReadClock(e) ==
    /\ Beats(e) /\ check[e] = "idle"
    /\ elapsed[e] >= Interval
    /\ check' = [check EXCEPT ![e] = "read"]
    /\ since' = [since EXCEPT ![e] = 0]
    /\ UNCHANGED <<program, life, sock, dataVars, silence, elapsed, safety, forced, goalVars>>

\* Data has arrived at e after its heartbeat has read the clock.
Overtaken(e) == silence[e] < since[e]

\* now - lastRecv > timeoutInterval, where the difference of unsigned numbers is
\* huge if the data is later than the clock that was read.
Silent(e) == Overtaken(e) \/ silence[e] > Timeout + since[e]

\* Mutant: the heartbeat pings nobody.
SendNoHeartbeat(e) == UNCHANGED <<wire, queue>>

\* SendHeartbeat: GameSession's S_PING; the other sessions keep the empty hook.
SendHeartbeat(e) ==
    \/ e = "server" /\ ~IsEcho /\ Send(e, "S_PING")
    \/ (e = "client" \/ IsEcho) /\ UNCHANGED <<wire, queue>>

\* OnTimer arms the timer on its grid.
Rearm(e) ==
    /\ check' = [check EXCEPT ![e] = "idle"]
    /\ since' = [since EXCEPT ![e] = 0]
    /\ elapsed' = [elapsed EXCEPT ![e] = @ - Interval]

\* The loop of CheckHeartbeat comes to the one session: it is found dead, or
\* pinged, or not in the registry.  Where _lastRecvTime is still 0, it depends
\* on how long the machine has been running.
ScanSession(e) ==
    /\ life[e] = "up" /\ check[e] = "read"
    /\ \/ /\ sock[e] = "added" \/ (sock[e] = "open" /\ Silent(e))
          /\ check' = [check EXCEPT ![e] = "reap"]
          /\ UNCHANGED <<elapsed, since, wire, queue>>
       \/ /\ sock[e] = "added" \/ (sock[e] = "open" /\ ~Silent(e))
          /\ SendHeartbeat(e) /\ Rearm(e)
       \/ /\ sock[e] \notin {"added", "open"}
          /\ Rearm(e) /\ UNCHANGED <<wire, queue>>
    /\ UNCHANGED <<program, life, sock, tasks, silence, safety, forced, goalVars>>

\* After the unlock the session is looked up again, and its socket closed.
Reap(e) ==
    /\ life[e] = "up" /\ check[e] = "reap"
    /\ Rearm(e)
    /\ \/ /\ sock[e] \in {"added", "open"} /\ CloseSocket(e)
          /\ sock' = [sock EXCEPT ![e] = IF @ = "added" THEN "cut" ELSE "closed"]
       \/ sock[e] \notin {"added", "open"} /\ UNCHANGED <<sock, wire>>
    /\ UNCHANGED <<program, life, queue, tasks, silence, safety, forced, goalVars>>

\* GracefulDisconnect of a GameSession, by the application on the server; once.
GracefulDisconnect ==
    /\ life["server"] = "up" /\ ~IsEcho
    /\ Started("server") /\ ~forced
    /\ farewell = "none"
    /\ farewell' = IF login = "asked" THEN "early" ELSE "due"
    /\ Send("server", "S_DISCONNECT")
    /\ safety' = safety \union {0}
    /\ UNCHANGED <<program, life, sock, tasks, silence, checkVars, forced, login>>

\* Mutant: the timer does not wait.
SafetyDueAtOnce == safety

\* The safety timers that have run for their delay.
SafetyDue == {a \in safety : a >= Grace}

\* The safety timer: ForceDisconnect of a session that nobody has forced yet.
SafetyTimer ==
    /\ life["server"] = "up"
    /\ \E a \in SafetyDue : safety' = safety \ {a}
    /\ forced' = TRUE
    /\ IF forced
       THEN UNCHANGED <<sock, wire>>
       ELSE /\ sock' = [sock EXCEPT !["server"] = "released"]
            /\ \/ sock["server"] = "open" /\ CloseSocket("server")
               \/ sock["server"] # "open" /\ UNCHANGED wire
    /\ UNCHANGED <<program, life, queue, tasks, silence, checkVars, goalVars>>

------------------------------------------------------------------------------
(* The environment.                                                        *)

Older(packets) == [i \in DOMAIN packets |-> [packets[i] EXCEPT !.age = @ + 1]]

\* Time passes, but what is due is in time.
Tick ==
    /\ \A e \in Ends :
          life[e] = "up" =>
             /\ sock[e] \in {"none", "failed", "open", "released"}
             /\ Beats(e) => elapsed[e] < Interval + MaxLate
             /\ \A p \in Range(wire[e]) \union Range(tasks[e]) : p.age < MaxDelay
    /\ \A a \in safety : a < Grace + MaxLate
    /\ wire' = [e \in Ends |-> Older(wire[e])]
    /\ tasks' = [e \in Ends |-> Older(tasks[e])]
    /\ silence' = [e \in Ends |-> IF Listens(e) THEN silence[e] + 1 ELSE 0]
    /\ elapsed' = [e \in Ends |-> IF Beats(e) THEN elapsed[e] + 1 ELSE 0]
    /\ check' = [e \in Ends |-> IF Beats(e) THEN check[e] ELSE "idle"]
    /\ since' = [e \in Ends |-> IF Beats(e) /\ check[e] = "read" THEN since[e] + 1 ELSE 0]
    /\ safety' = {a + 1 : a \in safety}
    /\ UNCHANGED <<program, life, sock, queue, forced, goalVars>>

\* A process ends: its kernel closes the connection, or the machine is lost
\* and the other end hears nothing.
Die(e) ==
    /\ life[e] = "up" /\ Cease(e)
    /\ \/ /\ life' = [life EXCEPT ![e] = "killed"]
          /\ Listens(e) /\ CloseSocket(e)
          /\ sock' = [sock EXCEPT ![e] = "released"]
       \/ /\ life' = [life EXCEPT ![e] = "gone"]
          /\ wire' = [wire EXCEPT ![e] = <<>>]
          /\ UNCHANGED sock
    /\ UNCHANGED <<program, forced, goalVars>>

------------------------------------------------------------------------------
Step(e) ==
    \/ AddSession(e) \/ StartSession(e)
    \/ WriteCompletes(e) \/ Receive(e) \/ ReceiveEcho(e) \/ ReadFails(e)
    \/ ReadClock(e) \/ ScanSession(e) \/ Reap(e)
    \/ e = "server" /\ (HandleLogin \/ HandleLoginProto \/ HandlePong \/ SafetyTimer \/ EchoStartThrows)
    \/ e = "client" /\ (HandleLoginRes \/ HandleLoginResProto \/ HandlePing \/ HandleDisconnect)

\* Once behaviour is undefined there is nothing left to model.
Undefined == \E e \in Ends : queue[e] = "undefined"

Next ==
    /\ ~Undefined
    /\ \/ Connect \/ GracefulDisconnect \/ Tick
       \/ \E e \in Ends : Step(e) \/ Die(e)

Spec == Init /\ [][Next]_vars

\* Time passes and threads run; nobody need connect, leave or die.
FairSpec == Spec /\ WF_vars(Tick) /\ \A e \in Ends : WF_vars(Step(e))

------------------------------------------------------------------------------
(* Properties.                                                             *)

Working(e) == life[e] = "up" /\ sock[e] = "open"

\* e's heartbeat puts the session on the list of the dead.
FoundDead(e) == check[e] = "read" /\ check'[e] = "reap"

\* A heartbeat gives up a connection whose other end works only because of one
\* of three races, though only the server pings and one timer both pings and
\* judges: data overtook it, it met the session inside Start, or a packet of
\* either end is stranded.  (Echo sessions are cut after the timeout, busy or
\* not: their OnRecv does not note the time.)
GivenUpOnlyByRace ==
    [][\A e \in Ends :
          FoundDead(e) /\ Working(Other(e)) /\ ~IsEcho =>
              \/ Overtaken(e) \/ sock[e] = "added"
              \/ \E x \in Ends : queue[x] = "stranded"]_vars

\* A client that leaves because it was asked to has first heard the answer to
\* its login, if the server sent that before: IO thread, pool and wire keep order.
FarewellComesLast ==
    life["client"] = "exited" /\ farewell = "due" => login = "heard"

\* The safety timer finds a socket still open only if the client is lost or the
\* farewell was never written: a client that has heard it has closed in time
\* (GameSession.h: wait for client to close).
ForcedOnlyIfUnheard ==
    [][sock["server"] = "open" /\ forced' # forced =>
          life["client"] = "gone" \/ queue["server"] = "stranded"]_vars

\* A connected client hears the answer to its request, or its session ends:
\* whatever is lost, stranded or cut, it does not wait for ever.
RequestIsSettled ==
    sock["client"] = "open" ~> login = "heard" \/ ~Working("client") \/ Undefined

\* An end whose write queue has stopped does not keep its session for ever: the
\* heartbeats end a connection in which one direction is silent.
StrandedIsReleased ==
    \A e \in Ends :
        queue[e] = "stranded" ~> sock[e] = "released" \/ life[e] # "up" \/ Undefined

\* When one end has ended the connection, in whatever way, the other releases
\* its session too, if it lives.
BothEndsLearn ==
    \A e \in Ends :
        sock[e] \in {"closed", "released"} \/ (sock[e] = "open" /\ life[e] # "up")
            ~> sock[Other(e)] = "released" \/ life[Other(e)] # "up" \/ Undefined

------------------------------------------------------------------------------
(* The inductive invariant of the proofs, in its parts.                    *)

Packet ==
    [id : {"C_LOGIN", "C_LOGIN_PROTO", "Hello", "C_PONG", "S_LOGIN_RES", "S_LOGIN_RES_PROTO",
           "S_PING", "S_DISCONNECT", "FIN"},
     age : Nat]

SockStates ==
    {"none", "failed", "linked", "added", "cut", "open", "closed", "released"}
QueueStates == {"empty", "writing", "stranded", "undefined"}

\* The type of every variable.
TypeOK ==
    /\ program \in {"ClientStruct", "ClientProto", "Echo"}
    /\ life \in [Ends -> {"up", "exited", "killed", "gone"}]
    /\ sock \in [Ends -> SockStates]
    /\ wire \in [Ends -> Seq(Packet)] /\ tasks \in [Ends -> Seq(Packet)]
    /\ queue \in [Ends -> QueueStates]
    /\ silence \in [Ends -> Nat] /\ elapsed \in [Ends -> Nat] /\ safety \subseteq Nat
    /\ check \in [Ends -> {"idle", "read", "reap"}] /\ since \in [Ends -> Nat]
    /\ forced \in BOOLEAN
    /\ login \in {"asked", "answered", "heard"}
    /\ farewell \in {"none", "early", "due"}

\* What e sends is written.
Writable(e) == queue[e] \in {"empty", "writing"}

Has(q, id) == \E p \in Range(q) : p.id = id

\* A packet with this id has been on its way for at least so long.
HasSince(q, id, time) == \E p \in Range(q) : p.id = id /\ p.age >= time

\* What there is before a connection, and before a session has started.
Connecting ==
    /\ sock["client"] \in {"none", "failed"} =>
          /\ sock["server"] = "none" /\ silence["client"] = 0
          /\ \A e \in Ends : wire[e] = <<>> /\ tasks[e] = <<>>
    /\ \A e \in Ends : sock[e] \in {"linked", "added", "cut"} => tasks[e] = <<>>
    /\ Listens("server") /\ sock["server"] \in {"linked", "added"} => silence["client"] = 0

\* What is due at an end that lives is in time, and a heartbeat is under way only
\* when it is due.
InTime ==
    \A e \in Ends : life[e] = "up" =>
        /\ elapsed[e] <= Interval + MaxLate
        /\ check[e] # "idle" => elapsed[e] >= Interval
        /\ \A p \in Range(wire[e]) \union Range(tasks[e]) : p.age <= MaxDelay

\* A sign of life reaches the server before its heartbeat gives up: the next
\* ping will be answered in time, or one is on its way, or a packet is.
ServerHears ==
    Listens("client") /\ Working("server") /\ ~IsEcho /\ Writable("client") /\ Writable("server") =>
        \/ silence["server"] + Interval + MaxLate + 2 * MaxDelay <= Timeout + elapsed["server"]
        \/ \E p \in Range(wire["client"]) \union Range(tasks["client"]) :
              p.id = "S_PING" /\ silence["server"] + 2 * MaxDelay <= Timeout + p.age
        \/ \E p \in Range(wire["server"]) : silence["server"] + MaxDelay <= Timeout + p.age

\* And the client before its own does: the next ping will do, or what is on its
\* way.
ClientHears ==
    Listens("server") /\ Working("client") /\ ~IsEcho /\ Writable("server") =>
        \/ silence["client"] + Interval + MaxLate + MaxDelay <= Timeout + elapsed["server"]
        \/ \E p \in Range(wire["client"]) : silence["client"] + MaxDelay <= Timeout + p.age

\* The end of the stream is behind what an end sent before it closed, and it is
\* always told to a server that listens, unless the client's machine is lost.
EndOfStream ==
    /\ \A e \in Ends : Has(wire[e], "FIN") => ~Listens(Other(e))
    /\ Listens("server") /\ ~Listens("client") /\ life["client"] # "gone" =>
          Has(wire["server"], "FIN")

\* As long as a safety timer runs and the session is open, the client is about
\* to be asked to leave, or has left, which is about to be read.
SafetyIsRedundant ==
    \A a \in safety :
        /\ ~IsEcho /\ Started("server")
        /\ Working("server") /\ life["client"] # "gone" /\ Writable("server") =>
              \/ /\ Listens("client")
                 /\ \/ HasSince(wire["client"], "S_DISCONNECT", a)
                    \/ HasSince(tasks["client"], "S_DISCONNECT", a)
              \/ /\ ~Listens("client")
                 /\ \E p \in Range(wire["server"]) : p.id = "FIN" /\ a <= p.age + MaxDelay

Response == IF program = "ClientStruct" THEN "S_LOGIN_RES" ELSE "S_LOGIN_RES_PROTO"

\* No two packets of q have this id.
Sole(q, id) == \A i, j \in DOMAIN q : q[i].id = id /\ q[j].id = id => i = j

\* The client asks once, and is answered once.
AskedOnce ==
    ~IsEcho =>
        /\ \A q \in {wire["server"], tasks["server"]} :
              /\ Sole(q, Request)
              /\ \A p \in Range(q) : p.id \in {Request, "C_PONG", "FIN"}
              /\ Has(q, Request) =>
                    login = "asked" /\ Started("client")
        /\ ~(Has(wire["server"], Request) /\ Has(tasks["server"], Request))
        /\ ~Started("client") => login = "asked"
        /\ Has(wire["client"], Response) \/ Has(tasks["client"], Response) => login # "asked"

\* An answer that was sent is on its way until it is heard.
AnswerIsComing ==
    login = "answered" /\ Connected /\ ~IsEcho /\ Writable("server") =>
        Has(wire["client"], Response) \/ Has(tasks["client"], Response)

\* Before packet i of q there is one with this id.
Precedes(id, q, i) == \E j \in DOMAIN q : j < i /\ q[j].id = id

\* S_DISCONNECT does not overtake the answer.
FarewellFollows ==
    /\ IsEcho => farewell = "none"
    /\ farewell = "none" => /\ ~Has(wire["client"], "S_DISCONNECT")
                            /\ ~Has(tasks["client"], "S_DISCONNECT")
    /\ farewell = "due" => login # "asked"
    /\ life["client"] = "exited" => farewell # "none"
    /\ life["client"] = "up" /\ farewell = "due" /\ login = "answered" =>
          /\ \A i \in DOMAIN tasks["client"] : tasks["client"][i].id = "S_DISCONNECT" =>
                Precedes(Response, tasks["client"], i)
          /\ \A i \in DOMAIN wire["client"] : wire["client"][i].id = "S_DISCONNECT" =>
                Precedes(Response, wire["client"], i) \/ Has(tasks["client"], Response)

\* The inductive invariant.
IInv ==
    /\ TypeOK /\ Connecting /\ InTime /\ ServerHears /\ ClientHears
    /\ EndOfStream /\ SafetyIsRedundant
    /\ AskedOnce /\ AnswerIsComing /\ FarewellFollows /\ FarewellComesLast
==============================================================================
