------------------------- MODULE SessionLifecycleInv --------------------------
(***************************************************************************)
(* The inductive invariant of SessionLifecycle: what its properties need,  *)
(* and what every step of every thread preserves.                          *)
(***************************************************************************)
EXTENDS SessionLifecycle

Forcing == {"force", "close", "removeForce"}
Looping == {"scan", "broadcast", "disconnectAll"}

IoLabels     == {"idle", "add", "started", "removeRead", "removeWrite"}
WorkerLabels == Forcing \union {"idle", "graceful", "hook", "schedule",
                                "broadcast", "scan", "reap", "hbClose"}
MainLabels   == Forcing \union {"idle", "disconnectAll", "stopIo", "joinIo",
                                "joinPool", "stopped"}

\* Labels at which a thread works on a session that it got from its reader, its
\* packet task, its timer or its write: Start had stored the id by then.
Owning == Forcing \union {"graceful", "hook", "schedule", "removeRead", "removeWrite"}

\* Each thread runs its own code, and comes back from ForceDisconnect to the
\* caller that it has.
ControlOK ==
    /\ pc[IO] \in IoLabels
    /\ pc[Main] \in MainLabels
    /\ \A w \in Workers : pc[w] \in WorkerLabels
    /\ \A t \in Threads :
          pc[t] \in Owning \union {"add", "started", "hbClose"} => subject[t] \in Sessions
    /\ ret[IO] = "idle"
    /\ \A w \in Workers : ret[w] # "disconnectAll"
    /\ \A w \in Workers : pc[w] \notin Forcing => ret[w] = "idle"
    /\ pc[Main] \in Forcing => ret[Main] = "disconnectAll"

\* The lock is held shared exactly inside the loops over _sessions, and Main
\* keeps it through ForceDisconnect; what a holder has to visit is registered.
LockOK ==
    /\ \A t \in Threads :
          t \in readers <=> \/ pc[t] \in Looping
                            \/ t = Main /\ pc[t] \in Forcing
    /\ \A t \in readers : todo[t] \subseteq DOMAIN sessions

\* Ids are used once, and lead to the session that has them.
IdsOK ==
    /\ \A i \in DOMAIN sessions : i < sessionIdGen
    /\ \A s \in Sessions : sessionId[s] < sessionIdGen
    /\ \A s, r \in Sessions : sessionId[s] = sessionId[r] /\ sessionId[s] # 0 => s = r
    /\ RegistryFaithful
    /\ pc[IO] \in {"add", "started"} => sessionId[subject[IO]] = 0
    /\ pc[IO] = "add" => ~Registered(subject[IO])
    /\ pc[IO] = "started" =>
          /\ newId \in DOMAIN sessions
          /\ sessions[newId] = subject[IO]
          /\ \A s \in Sessions : sessionId[s] # newId

\* Until its id is stored a session has nothing that could unregister it, and
\* before it is registered nobody can write to it.
UnstartedOK ==
    \A s \in Sessions :
        sessionId[s] = 0 =>
           /\ read[s] = "none"
           /\ tasks[s] = 0
           /\ timers[s] = 0
           /\ \A p \in Paths : reports[s][p] = 0

UnwrittenOK ==
    \A s \in Sessions :
        sessionId[s] = 0 /\ InFlight(s) # 0 => pc[IO] = "started" /\ subject[IO] = s

\* A session that was not accepted has no id and is not registered.
UnacceptedOK ==
    /\ \A s \in Sessions : socket[s] = "unaccepted" => sessionId[s] = 0 /\ ~Registered(s)
    /\ pc[IO] \in {"add", "started"} => socket[subject[IO]] # "unaccepted"

\* A thread other than Main works only on sessions whose id is stored.
OwnersOK ==
    \A t \in Workers \union {IO} : pc[t] \in Owning => sessionId[subject[t]] # 0

\* A read loop that goes on has not reported its end.
ReadReportOK ==
    /\ \A s \in Sessions : read[s] # "none" => reports[s]["read"] = 0
    /\ pc[IO] = "removeRead" =>
          read[subject[IO]] = "none" /\ reports[subject[IO]]["read"] = 0

\* The thread that set _disconnected is the one that reports it.
Closing(t) == pc[t] \in {"close", "removeForce"}

ForceReportOK ==
    /\ \A s \in Sessions : reports[s]["force"] # 0 => disconnected[s]
    /\ \A t \in Threads :
          Closing(t) => disconnected[subject[t]] /\ reports[subject[t]]["force"] = 0
    /\ \A t, u \in Threads :
          Closing(t) /\ Closing(u) /\ subject[t] = subject[u] => t = u

IInv ==
    /\ TypeOK
    /\ ControlOK
    /\ LockOK
    /\ IdsOK
    /\ UnstartedOK
    /\ UnwrittenOK
    /\ UnacceptedOK
    /\ OwnersOK
    /\ RegisteredHasReader
    /\ LiveSessionRegistered
    /\ ReadReportOK
    /\ ForceReportOK
==============================================================================
