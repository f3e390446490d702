------------------------------ MODULE ServerStart -----------------------------
(***************************************************************************)
(* main: the packet factory is tested, the configuration is loaded from a  *)
(* file of which nothing is known, the databases are tried, and the        *)
(* service is put together and started.  The IO thread accepts clients     *)
(* while main is still making the workers that handle their packets.       *)
(*                                                                         *)
(* Making a thread does not fail, and no client is there before the IO     *)
(* thread runs.                                                            *)
(***************************************************************************)
EXTENDS Integers, Sequences

CONSTANTS
    ServerKeys,     \* "IP", "Port", "ThreadCount", "MaxSession", in the order of Load
    TextKeys,       \* "Host", "User", "PW", "DBName", in the order of Load
    DefaultThreads, \* config.server.threadCount before the file is read
    ThreadCounts,   \* what the file may say instead
    Blocks,         \* of memory on the heap
    MaxPackets      \* bound: packets that arrive

ASSUME KeysAssumption ==
    /\ ServerKeys \in Seq(STRING) /\ TextKeys \in Seq(STRING)
    /\ \E i \in DOMAIN ServerKeys : ServerKeys[i] = "ThreadCount"
    /\ \A i, j \in DOMAIN ServerKeys : ServerKeys[i] = ServerKeys[j] => i = j
    /\ \A i, j \in DOMAIN TextKeys : TextKeys[i] = TextKeys[j] => i = j
    /\ \A i \in DOMAIN TextKeys : TextKeys[i] # "Port"

ASSUME NumbersAssumption ==
    /\ DefaultThreads \in Nat \ {0} /\ ThreadCounts \subseteq Int
    /\ MaxPackets \in Nat

VARIABLES
    pc,          \* where main is
    pool, memory, packets, call, held, \* of the packet factory: PacketPool
    addresses,   \* of the test's packets: addrA and addrB
    found,       \* what the file held for each key that Load has reached
    config,      \* where each field's value comes from
    threadCount, \* config.server.threadCount
    bindFailed,  \* Listener's constructor threw
    accepting,   \* an async_accept is outstanding
    timers,      \* scheduled repeats
    ioRunning,   \* the IO thread runs
    workers,     \* threads of the pool that run
    arrived,     \* packets that the IO thread posted
    handled      \* packet tasks that a worker ran

mainVars == <<bindFailed, accepting, timers, ioRunning, workers>>
clientVars == <<arrived, handled>>
testVars == <<pool, memory, packets, call, held, addresses>>
vars == <<pc, found, config, threadCount, mainVars, clientVars, testVars>>

Factory == INSTANCE PacketPool WITH Threads <- {"main"}, pc <- call

------------------------------------------------------------------------------
(* JsonConfigLoader::Load.                                                 *)

\* The keys of a section, as pairs.
ServerNode == [i \in DOMAIN ServerKeys |-> <<"Server", ServerKeys[i]>>]

Node(name) == [i \in 1..(Len(TextKeys) + 1) |->
                  <<name, IF i <= Len(TextKeys) THEN TextKeys[i] ELSE "Port">>]

\* All keys in the order in which Load looks for them.
Order == ServerNode \o Node("MySQL") \o Node("Mongo") \o Node("Redis")

Items == {Order[i] : i \in DOMAIN Order}
IsDbPort(item) == item[1] # "Server" /\ item[2] = "Port"

\* Load's local config: strings are empty and the fields of "Server" are set,
\* the database ports are ints without a value.
Unread(item) == IF IsDbPort(item) THEN "undefined" ELSE "default"

Init ==
    /\ pc = "packetA"
    /\ Factory!Init /\ addresses = <<>>
    /\ found = <<>>
    /\ config = [item \in Items |-> Unread(item)]
    /\ threadCount = DefaultThreads
    /\ bindFailed = FALSE /\ accepting = FALSE /\ timers = {}
    /\ ioRunning = FALSE /\ workers = 0
    /\ arrived = 0 /\ handled = 0

------------------------------------------------------------------------------
(* TestPacketFactory: packet A is made and dropped, then packet B.         *)

After == [packetA |-> "dropA", dropA |-> "packetB", packetB |-> "dropB", dropB |-> "open"]

TestCreates ==
    /\ pc \in {"packetA", "packetB"}
    /\ \/ Factory!Pop("main") /\ UNCHANGED <<pc, addresses>>
       \/ Factory!New("main") /\ UNCHANGED <<pc, addresses>>
       \/ /\ Factory!Construct("main")
          /\ pc' = After[pc] /\ addresses' = Append(addresses, held["main"])
    /\ UNCHANGED <<found, config, threadCount, mainVars, clientVars>>

\* An exception, for want of memory or from the constructor, which puts the
\* block back first, ends main.
TestThrows ==
    /\ pc \in {"packetA", "packetB"}
    /\ \/ Factory!ConstructThrows("main") /\ UNCHANGED pc
       \/ (Factory!NewThrows("main") \/ Factory!Push("main")) /\ pc' = "aborted"
    /\ UNCHANGED <<found, config, threadCount, mainVars, clientVars, addresses>>

\* The end of a scope drops the only shared_ptr.
TestDrops ==
    /\ pc \in {"dropA", "dropB"}
    /\ \/ Factory!Destroy("main") /\ UNCHANGED pc
       \/ Factory!Push("main") /\ pc' = After[pc]
    /\ UNCHANGED <<found, config, threadCount, mainVars, clientVars, addresses>>

------------------------------------------------------------------------------
\* The file is opened and parsed; a file that is missing or no JSON leaves the
\* defaults.
OpenFile ==
    /\ pc = "open"
    /\ pc' \in {"load", "MySQL"}
    /\ UNCHANGED <<found, config, threadCount, mainVars, clientVars, testVars>>

Item == Order[Len(found) + 1]

\* A database that the file does not name is skipped with all its keys.
SkipNode ==
    /\ pc = "load" /\ Len(found) < Len(Order)
    /\ Item \in {Node(name)[1] : name \in {"MySQL", "Mongo", "Redis"}}
    /\ found' = found \o [i \in 1..(Len(TextKeys) + 1) |-> "skipped"]
    /\ UNCHANGED <<pc, config, threadCount, mainVars, clientVars, testVars>>

\* Mutant: a port is only set where the file has one.
NoKeyUnset ==
    /\ pc = "load" /\ Len(found) < Len(Order)
    /\ found' = Append(found, "absent")
    /\ UNCHANGED <<pc, config, threadCount, mainVars, clientVars, testVars>>

\* The key is not there: the field keeps its value, but a database port gets
\* its default.
NoKey ==
    /\ pc = "load" /\ Len(found) < Len(Order)
    /\ found' = Append(found, "absent")
    /\ config' = [config EXCEPT ![Item] = "default"]
    /\ UNCHANGED <<pc, threadCount, mainVars, clientVars, testVars>>

\* The key has a value of the right type.
ReadKey ==
    /\ pc = "load" /\ Len(found) < Len(Order)
    /\ found' = Append(found, "good")
    /\ config' = [config EXCEPT ![Item] = "file"]
    /\ IF Item = <<"Server", "ThreadCount">>
       THEN threadCount' \in ThreadCounts
       ELSE UNCHANGED threadCount
    /\ UNCHANGED <<pc, mainVars, clientVars, testVars>>

\* A value of another type: the exception ends Load, which returns what it has.
BadKey ==
    /\ pc = "load" /\ Len(found) < Len(Order)
    /\ found' = Append(found, "bad")
    /\ pc' = "MySQL"
    /\ UNCHANGED <<config, threadCount, mainVars, clientVars, testVars>>

Loaded ==
    /\ pc = "load" /\ Len(found) = Len(Order)
    /\ pc' = "MySQL"
    /\ UNCHANGED <<found, config, threadCount, mainVars, clientVars, testVars>>

------------------------------------------------------------------------------
(* The databases.  A connection is made or not, whatever string it is given: *)
(* an undefined port may name any server.                                  *)

loadVars == <<found, config, threadCount>>

\* main goes on at next.
GoOn(next) ==
    /\ pc' = next
    /\ UNCHANGED <<loadVars, mainVars, clientVars, testVars>>

\* MySQL is used only if Connect says so.
ConnectMySQL ==
    /\ pc = "MySQL"
    /\ \/ GoOn("Save")
       \/ GoOn("Mongo")

\* Save through Execute, of which the result is not used; Find is a mock.
UseMySQL ==
    /\ pc = "Save"
    /\ GoOn("Mongo")

\* Connect catches an exception and drops the client, InsertOne does nothing
\* without one.
ConnectMongo ==
    /\ pc = "Mongo"
    /\ \/ GoOn("InsertOne")
       \/ GoOn("Redis")

UseMongo ==
    /\ pc = "InsertOne"
    /\ GoOn("Redis")

ConnectRedis ==
    /\ pc = "Redis"
    /\ \/ GoOn("Set")
       \/ GoOn("listener")

\* Mutant: an exception is not caught.
SetRedisThrows ==
    /\ pc = "Set"
    /\ GoOn("Get") \/ GoOn("exited")

\* Set and Get catch what the client throws.
SetRedis ==
    /\ pc = "Set"
    /\ GoOn("Get")

GetRedis ==
    /\ pc = "Get"
    /\ GoOn("listener")

------------------------------------------------------------------------------
(* The service.                                                            *)

\* main goes on at next, with what the caller says changed.
Start(next) ==
    /\ pc' = next
    /\ UNCHANGED <<loadVars, clientVars, testVars>>

\* Listener's constructor: the port is taken, or bind throws, and main's catch
\* returns after Service's destructor has found no thread to join.
MakeListener ==
    /\ pc = "listener"
    /\ \/ Start("accept") /\ UNCHANGED bindFailed
       \/ Start("exited") /\ bindFailed' = TRUE
    /\ UNCHANGED <<accepting, timers, ioRunning, workers>>

StartListener ==
    /\ pc = "accept"
    /\ Start("tick")
    /\ accepting' = TRUE
    /\ UNCHANGED <<bindFailed, timers, ioRunning, workers>>

ScheduleTick ==
    /\ pc = "tick"
    /\ Start("ioThread")
    /\ timers' = timers \union {"tick"}
    /\ UNCHANGED <<bindFailed, accepting, ioRunning, workers>>

StartIoThread ==
    /\ pc = "ioThread"
    /\ Start("workers")
    /\ ioRunning' = TRUE
    /\ UNCHANGED <<bindFailed, accepting, timers, workers>>

\* Mutant: the loop over the threads begins at 1.
StartWorkerFromOne ==
    /\ pc = "workers"
    /\ \/ /\ workers + 1 < threadCount
          /\ Start("workers")
          /\ workers' = workers + 1
       \/ /\ workers + 1 >= threadCount
          /\ Start("heartbeat")
          /\ UNCHANGED workers
    /\ UNCHANGED <<bindFailed, accepting, timers, ioRunning>>

\* ThreadPool::Start; a count of 0 or less makes no worker.
StartWorker ==
    /\ pc = "workers"
    /\ \/ /\ workers < threadCount
          /\ Start("workers")
          /\ workers' = workers + 1
       \/ /\ workers >= threadCount
          /\ Start("heartbeat")
          /\ UNCHANGED workers
    /\ UNCHANGED <<bindFailed, accepting, timers, ioRunning>>

ScheduleHeartbeat ==
    /\ pc = "heartbeat"
    /\ Start("serving")
    /\ timers' = timers \union {"heartbeat"}
    /\ UNCHANGED <<bindFailed, accepting, ioRunning, workers>>

\* A client is accepted and sends a packet, which becomes a task.
PacketArrives ==
    /\ ioRunning /\ accepting
    /\ arrived < MaxPackets
    /\ arrived' = arrived + 1
    /\ UNCHANGED <<pc, loadVars, mainVars, handled, testVars>>

RunTask ==
    /\ workers > 0
    /\ handled < arrived
    /\ handled' = handled + 1
    /\ UNCHANGED <<pc, loadVars, mainVars, arrived, testVars>>

------------------------------------------------------------------------------
Main ==
    \/ TestCreates \/ TestThrows \/ TestDrops
    \/ OpenFile \/ SkipNode \/ NoKey \/ ReadKey \/ BadKey \/ Loaded
    \/ ConnectMySQL \/ UseMySQL \/ ConnectMongo \/ UseMongo
    \/ ConnectRedis \/ SetRedis \/ GetRedis
    \/ MakeListener \/ StartListener \/ ScheduleTick
    \/ StartIoThread \/ StartWorker \/ ScheduleHeartbeat

Next == Main \/ PacketArrives \/ RunTask

Spec == Init /\ [][Next]_vars

\* Threads run.
FairSpec == Spec /\ WF_vars(Main) /\ WF_vars(RunTask)

------------------------------------------------------------------------------
(* Properties.                                                             *)

\* Packet B has the memory of packet A, as the test in main says it should.
MemoryReused == Len(addresses) = 2 => addresses[1] = addresses[2]

\* While main uses the factory each packet has memory of its own, constructed
\* and destroyed once, and no memory is lost: PacketPool's PoolInv.
PoolInv == Factory!PoolInv

\* Where the value of field i must come from.
Origin(i) ==
    IF i \in DOMAIN found /\ found[i] = "good" THEN "file"
    ELSE IF i \in DOMAIN found /\ found[i] = "absent" THEN "default"
    ELSE Unread(Order[i])

\* What the file says of a field is what main uses, up to the first value of
\* a wrong type; every other field has its default, but for the port of a
\* database that was not reached or not named.
ConfigFollowsFile ==
    pc \notin {"packetA", "dropA", "packetB", "dropB", "aborted", "open", "load"} =>
        \A i \in DOMAIN Order : config[Order[i]] = Origin(i)

\* All that main makes is there.
Serving ==
    /\ pc = "serving"
    /\ ioRunning /\ accepting
    /\ timers = {"tick", "heartbeat"}
    /\ workers = IF threadCount > 0 THEN threadCount ELSE 0

\* Whatever the file holds and whatever the databases do, the server comes to
\* serve its clients, unless the port cannot be bound or the first test threw.
StartsOrExits == <>[](Serving \/ (pc = "exited" /\ bindFailed) \/ pc = "aborted")

\* A packet that arrives is handled, even one that arrived before there was a
\* worker, if the configuration asks for any.
EarlyPacketsHandled ==
    \A n \in 1..MaxPackets : arrived >= n /\ threadCount > 0 ~> handled >= n

\* What main leaves behind: a server with all its parts, or, when it returns
\* because of the port or of the first test, no thread and nothing that waits.
StartsWhole ==
    /\ pc = "serving" => Serving
    /\ pc = "exited" => bindFailed
    /\ pc \in {"exited", "aborted"} => ~ioRunning /\ ~accepting /\ timers = {} /\ workers = 0

------------------------------------------------------------------------------
(* The inductive invariant of the proofs.                                  *)

Findings == {"good", "absent", "bad", "skipped"}

TypeOK ==
    /\ addresses \in Seq(Blocks)
    /\ found \in Seq(Findings)
    /\ config \in [Items -> {"default", "file", "undefined"}]
    /\ threadCount \in Int /\ workers \in Nat

\* The memory of packet A is in the packet, in main's hand, and then all that
\* the pool has, so that packet B is given it.
TestInv ==
    /\ pc = "packetA" => addresses = <<>> /\ pool = <<>> /\ packets = {}
    /\ pc = "dropA" =>
          /\ Len(addresses) = 1 /\ pool = <<>>
          /\ \/ call["main"] = "idle" /\ packets = {addresses[1]}
             \/ call["main"] = "push" /\ held["main"] = addresses[1]
    /\ pc = "packetB" =>
          /\ Len(addresses) = 1
          /\ \/ call["main"] = "idle" /\ pool = <<addresses[1]>>
             \/ call["main"] \in {"construct", "push"} /\ held["main"] = addresses[1]

\* Load has reached no more than all keys, and the fields are right so far.
LoadInv ==
    /\ Len(found) <= Len(Order)
    /\ \A i \in DOMAIN Order : config[Order[i]] = Origin(i)

\* What is there when main has come to pc.
ServiceInv ==
    /\ accepting <=> pc \in {"tick", "ioThread", "workers", "heartbeat", "serving"}
    /\ timers = CASE pc \in {"ioThread", "workers", "heartbeat"} -> {"tick"}
                  [] pc = "serving" -> {"tick", "heartbeat"}
                  [] OTHER -> {}
    /\ ioRunning <=> pc \in {"workers", "heartbeat", "serving"}
    /\ pc \notin {"workers", "heartbeat", "serving"} => workers = 0
    /\ workers > 0 => workers <= threadCount
    /\ pc \in {"heartbeat", "serving"} => workers >= threadCount
    /\ pc = "exited" => bindFailed

IInv == TypeOK /\ PoolInv /\ TestInv /\ MemoryReused /\ LoadInv /\ ServiceInv
==============================================================================
