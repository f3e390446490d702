------------------------ MODULE SessionLifecycleProofs ------------------------
EXTENDS SessionLifecycleInv, TLAPS

USE ThreadsAssumption, FlagsAssumption DEF Threads, Ids, Labels, Paths,
    managerVars, sessionVars, poolVars, threadVars, stopVars

------------------------------------------------------------------------------
(* What the operators that the actions are built from do.                  *)

\* A thread that goes to a label is there, and no other thread moves.
LEMMA GotoEffect ==
  ASSUME ThreadTypeOK, NEW t \in Threads, NEW label \in Labels, Goto(t, label)
  PROVE  /\ pc' \in [Threads -> Labels]
         /\ pc'[t] = label
         /\ \A u \in Threads : u # t => pc'[u] = pc[u]
BY DEF ThreadTypeOK, Goto

\* A call sets the thread's label, session and return address, and no other's.
LEMMA CallEffect ==
  ASSUME ThreadTypeOK, NEW t \in Threads, NEW label \in Labels, NEW s \in Sessions,
         NEW back \in {"idle", "schedule", "disconnectAll"}, Call(t, label, s, back)
  PROVE  /\ pc' \in [Threads -> Labels]
         /\ subject' \in [Threads -> Sessions \union {NoSession}]
         /\ ret' \in [Threads -> {"idle", "schedule", "disconnectAll"}]
         /\ pc'[t] = label /\ subject'[t] = s /\ ret'[t] = back
         /\ \A u \in Threads : u # t =>
               pc'[u] = pc[u] /\ subject'[u] = subject[u] /\ ret'[u] = ret[u]
BY DEF ThreadTypeOK, Call, Goto

\* A return keeps the session only for a caller that still works on it.
LEMMA ReturnEffect ==
  ASSUME ThreadTypeOK, NEW t \in Threads, NEW label \in Labels, ReturnTo(t, label)
  PROVE  /\ pc' \in [Threads -> Labels]
         /\ subject' \in [Threads -> Sessions \union {NoSession}]
         /\ ret' \in [Threads -> {"idle", "schedule", "disconnectAll"}]
         /\ pc'[t] = label /\ ret'[t] = "idle"
         /\ label = "schedule" => subject'[t] = subject[t]
         /\ \A u \in Threads : u # t =>
               pc'[u] = pc[u] /\ subject'[u] = subject[u] /\ ret'[u] = ret[u]
<1>1. CASE label = "schedule"
  BY <1>1 DEF ThreadTypeOK, ReturnTo, Goto
<1>2. CASE label # "schedule"
  BY <1>2 DEF ThreadTypeOK, ReturnTo, Goto
<1> QED
  BY <1>1, <1>2

\* Setting the writes of one session leaves those of the others.
LEMMA SetWritesEffect ==
  ASSUME SessionTypeOK, NEW s \in Sessions, NEW p \in Nat, NEW a \in Nat,
         NEW f \in BOOLEAN, SetWrites(s, p, a, f)
  PROVE  /\ writes' \in [Sessions -> WriteStates]
         /\ writes'[s].pending = p /\ writes'[s].aborted = a
         /\ \A r \in Sessions : r # s => writes'[r] = writes[r]
BY DEF SessionTypeOK, SetWrites, WriteStates

\* Send touches the writes of its session only.
LEMMA SendEffect ==
  ASSUME SessionTypeOK, NEW s \in Sessions, Send(s)
  PROVE  /\ writes' \in [Sessions -> WriteStates]
         /\ \A r \in Sessions : r # s => writes'[r] = writes[r]
<1>1. /\ writes[s].pending \in Nat /\ writes[s].pending + 1 \in Nat
      /\ writes[s].aborted \in Nat /\ writes[s].aborted + 1 \in Nat
      /\ writes[s].failed \in BOOLEAN
  BY DEF SessionTypeOK, WriteStates
<1>2. CASE UNCHANGED writes
  BY <1>2 DEF SessionTypeOK, WriteStates
<1>3. CASE DoWrite(s)
  BY <1>1, <1>3, SetWritesEffect DEF DoWrite
<1> QED
  BY <1>2, <1>3 DEF Send

\* close() completes no operation and begins none: it only decides which of the
\* outstanding ones will be seen to fail.
LEMMA CloseSocketEffect ==
  ASSUME SessionTypeOK, NEW s \in Sessions, CloseSocket(s)
  PROVE  /\ writes' \in [Sessions -> WriteStates]
         /\ \A r \in Sessions : InFlight(r)' = InFlight(r)
         /\ socket' \in [Sessions -> {"unaccepted", "open", "closed"}]
         /\ \A r \in Sessions : socket'[r] = "unaccepted" => socket[r] = "unaccepted"
         /\ read' \in [Sessions -> {"none", "pending", "aborted"}]
         /\ \A r \in Sessions : read'[r] = "none" <=> read[r] = "none"
<1>1. PICK completed \in 0..InFlight(s) :
         /\ completed <= writes[s].pending
         /\ SetWrites(s, completed, InFlight(s) - completed, writes[s].failed)
  BY DEF CloseSocket, SessionTypeOK, WriteStates, InFlight
<1>2. /\ InFlight(s) \in Nat /\ completed \in Nat /\ InFlight(s) - completed \in Nat
      /\ writes[s].failed \in BOOLEAN
  BY <1>1 DEF SessionTypeOK, InFlight, WriteStates
<1>3. /\ writes' \in [Sessions -> WriteStates]
      /\ \A r \in Sessions : InFlight(r)' = InFlight(r)
  BY <1>1, <1>2, SetWritesEffect DEF InFlight
<1>4. /\ socket' \in [Sessions -> {"unaccepted", "open", "closed"}]
      /\ \A r \in Sessions : socket'[r] = "unaccepted" => socket[r] = "unaccepted"
  BY DEF SessionTypeOK, CloseSocket
<1>5. /\ read' \in [Sessions -> {"none", "pending", "aborted"}]
      /\ \A r \in Sessions : read'[r] = "none" <=> read[r] = "none"
  BY DEF SessionTypeOK, CloseSocket
<1> QED
  BY <1>3, <1>4, <1>5

------------------------------------------------------------------------------
(* The inductive step, one lemma for each part of the invariant.           *)

\* Every step keeps every variable in its type.
LEMMA TypeInductive == ASSUME IInv, Next PROVE TypeOK'
<1> USE DEF TypeOK, Owning, Forcing, Looping
<1>0. /\ ManagerTypeOK /\ SessionTypeOK /\ PoolTypeOK /\ ThreadTypeOK
      /\ \A t \in Threads : pc[t] \in Owning \union {"add", "started", "hbClose"} =>
                subject[t] \in Sessions
      /\ \A t \in Threads : pc[t] \in Looping => todo[t] \subseteq DOMAIN sessions
  BY DEF IInv, TypeOK, ControlOK, LockOK
<1>1. ASSUME NEW s \in Sessions, PeerCloses(s) PROVE TypeOK'
  BY <1>0, <1>1 DEF PeerCloses, ManagerTypeOK, SessionTypeOK, PoolTypeOK,
     ThreadTypeOK
<1>2. ASSUME NEW s \in Sessions, Accept(s) PROVE TypeOK'
  BY <1>0, <1>2 DEF Accept, IoReady, Call, Goto, ManagerTypeOK,
     SessionTypeOK, PoolTypeOK, ThreadTypeOK
<1>3. ASSUME Add PROVE TypeOK'
  BY <1>0, <1>3 DEF Add, LockIsFree, Goto, ManagerTypeOK, SessionTypeOK,
     PoolTypeOK, ThreadTypeOK
<1>4. ASSUME FinishStart PROVE TypeOK'
  BY <1>0, <1>4 DEF FinishStart, DoRead, ReturnTo, Goto, ManagerTypeOK,
     SessionTypeOK, PoolTypeOK, ThreadTypeOK
<1>5. ASSUME NEW s \in Sessions, ReadData(s) PROVE TypeOK'
  BY <1>0, <1>5 DEF ReadData, IoReady, DoRead, ManagerTypeOK, SessionTypeOK,
     PoolTypeOK, ThreadTypeOK
<1>6. ASSUME NEW s \in Sessions, ReadFails(s) PROVE TypeOK'
  BY <1>0, <1>6 DEF ReadFails, IoReady, Call, Goto, ManagerTypeOK,
     SessionTypeOK, PoolTypeOK, ThreadTypeOK
<1>7. ASSUME NEW s \in Sessions, WriteCompletes(s) PROVE TypeOK'
  <2>1. ManagerTypeOK' /\ PoolTypeOK'
    BY <1>0, <1>7 DEF WriteCompletes, IoReady, ManagerTypeOK, PoolTypeOK
  <2>2. SessionTypeOK'
    BY <1>0, <1>7, SetWritesEffect DEF WriteCompletes, IoReady, WriteStates,
       SessionTypeOK
  <2>3. ThreadTypeOK'
    BY <1>0, <1>7 DEF WriteCompletes, IoReady, ThreadTypeOK
  <2> QED
    BY <2>1, <2>2, <2>3
<1>8. ASSUME NEW s \in Sessions, WriteFails(s) PROVE TypeOK'
  <2>1. ManagerTypeOK' /\ PoolTypeOK'
    BY <1>0, <1>8 DEF WriteFails, IoReady, ManagerTypeOK, PoolTypeOK
  <2>2. SessionTypeOK'
    <3>1. /\ writes[s].pending \in Nat /\ writes[s].aborted \in Nat
          /\ writes[s].pending > 0 => writes[s].pending - 1 \in Nat
          /\ writes[s].aborted > 0 => writes[s].aborted - 1 \in Nat
      BY <1>0 DEF SessionTypeOK, WriteStates
    <3>2. writes' \in [Sessions -> WriteStates]
      BY <1>0, <1>8, <3>1, SetWritesEffect DEF WriteFails
    <3> QED
      BY <1>0, <1>8, <3>2 DEF WriteFails, SessionTypeOK
  <2>3. ThreadTypeOK'
    BY <1>0, <1>8, CallEffect DEF WriteFails, IoReady, ThreadTypeOK
  <2> QED
    BY <2>1, <2>2, <2>3
<1>9. ASSUME NEW t \in Threads, RemoveAndReport(t) PROVE TypeOK'
  <2>1. ManagerTypeOK' /\ PoolTypeOK'
    BY <1>0, <1>9 DEF RemoveAndReport, Removing, RemovePath, LockIsFree,
       Restrict, ManagerTypeOK, PoolTypeOK
  <2>2. SessionTypeOK'
    BY <1>0, <1>9 DEF RemoveAndReport, Removing, RemovePath, LockIsFree,
       Restrict, SessionTypeOK
  <2>3. ThreadTypeOK'
    <3>1. ReturnTo(t, ret[t]) /\ UNCHANGED <<todo, deadSessions, newId>>
      BY <1>9 DEF RemoveAndReport
    <3>2. ret[t] \in Labels
      BY <1>0 DEF ThreadTypeOK, Labels
    <3>3. /\ pc' \in [Threads -> Labels]
          /\ subject' \in [Threads -> Sessions \union {NoSession}]
          /\ ret' \in [Threads -> {"idle", "schedule", "disconnectAll"}]
      BY <1>0, <3>1, <3>2, ReturnEffect
    <3> QED
      BY <1>0, <3>1, <3>3 DEF ThreadTypeOK
  <2> QED
    BY <2>1, <2>2, <2>3
<1>10. ASSUME NEW t \in Threads, ForceExchange(t) PROVE TypeOK'
  <2>1. ManagerTypeOK' /\ PoolTypeOK'
    BY <1>0, <1>10 DEF ForceExchange, ManagerTypeOK, PoolTypeOK
  <2>2. SessionTypeOK'
    BY <1>0, <1>10 DEF ForceExchange, SessionTypeOK
  <2>3. ThreadTypeOK'
    <3>1. \/ ReturnTo(t, ret[t])
          \/ Goto(t, "close") /\ UNCHANGED <<subject, ret>>
      BY <1>10 DEF ForceExchange
    <3>2. UNCHANGED <<todo, deadSessions, newId>>
      BY <1>10 DEF ForceExchange
    <3>3. ret[t] \in Labels /\ "close" \in Labels
      BY <1>0 DEF ThreadTypeOK, Labels
    <3>4. CASE ReturnTo(t, ret[t])
      BY <1>0, <3>2, <3>3, <3>4, ReturnEffect DEF ThreadTypeOK
    <3>5. CASE Goto(t, "close") /\ UNCHANGED <<subject, ret>>
      BY <1>0, <3>2, <3>3, <3>5, GotoEffect DEF ThreadTypeOK
    <3> QED
      BY <3>1, <3>4, <3>5
  <2> QED
    BY <2>1, <2>2, <2>3
<1>11. ASSUME NEW t \in Threads, ForceClose(t) PROVE TypeOK'
  <2>1. ManagerTypeOK' /\ PoolTypeOK'
    BY <1>0, <1>11 DEF ForceClose, ManagerTypeOK, PoolTypeOK
  <2>2. SessionTypeOK'
    BY <1>0, <1>11, CloseSocketEffect DEF ForceClose, SessionTypeOK
  <2>3. ThreadTypeOK'
    BY <1>0, <1>11, GotoEffect DEF ForceClose, ThreadTypeOK
  <2> QED
    BY <2>1, <2>2, <2>3
<1>12. ASSUME NEW w \in Workers, NEW s \in Sessions, RunPacketTask(w, s) PROVE TypeOK'
  <2>1. ManagerTypeOK' /\ PoolTypeOK'
    BY <1>0, <1>12 DEF RunPacketTask, WorkReady, LockShared, ManagerTypeOK,
       PoolTypeOK
  <2>2. SessionTypeOK'
    BY <1>0, <1>12, SendEffect DEF RunPacketTask, WorkReady, LockShared,
       SessionTypeOK
  <2>3. ThreadTypeOK'
    <3>0. todo' \in [Threads -> SUBSET Ids] /\ deadSessions' \subseteq Ids /\ newId' \in Nat
      BY <1>0, <1>12 DEF RunPacketTask, ThreadTypeOK, ManagerTypeOK
    <3>1. CASE Call(w, "force", s, "idle")
      BY <1>0, <3>0, <3>1, CallEffect DEF ThreadTypeOK
    <3>2. CASE Call(w, "graceful", s, "idle")
      BY <1>0, <3>0, <3>2, CallEffect DEF ThreadTypeOK
    <3>3. CASE ~Call(w, "force", s, "idle") /\ ~Call(w, "graceful", s, "idle")
      BY <1>0, <1>12, <3>3, GotoEffect DEF RunPacketTask, ThreadTypeOK, ManagerTypeOK
    <3> QED
      BY <3>1, <3>2, <3>3
  <2> QED
    BY <2>1, <2>2, <2>3
<1>13. ASSUME NEW w \in Workers, BroadcastNext(w) PROVE TypeOK'
  <2>1. ManagerTypeOK' /\ PoolTypeOK'
    BY <1>0, <1>13 DEF BroadcastNext, ManagerTypeOK, PoolTypeOK
  <2>2. SessionTypeOK'
    BY <1>0, <1>13, SendEffect DEF BroadcastNext, SessionTypeOK,
       ManagerTypeOK
  <2>3. ThreadTypeOK'
    BY <1>0, <1>13 DEF BroadcastNext, ThreadTypeOK
  <2> QED
    BY <2>1, <2>2, <2>3
<1>14. ASSUME NEW w \in Workers, BroadcastDone(w) PROVE TypeOK'
  BY <1>0, <1>14 DEF BroadcastDone, UnlockShared, Goto, ManagerTypeOK,
     SessionTypeOK, PoolTypeOK, ThreadTypeOK
<1>15. ASSUME NEW w \in Workers, GracefulCheck(w) PROVE TypeOK'
  <2>1. ManagerTypeOK' /\ PoolTypeOK'
    BY <1>0, <1>15 DEF GracefulCheck, ManagerTypeOK, PoolTypeOK
  <2>2. SessionTypeOK'
    BY <1>0, <1>15 DEF GracefulCheck, SessionTypeOK
  <2>3. ThreadTypeOK'
    BY <1>0, <1>15, ReturnEffect, GotoEffect DEF GracefulCheck, ThreadTypeOK
  <2> QED
    BY <2>1, <2>2, <2>3
<1>16. ASSUME NEW w \in Workers, GracefulHook(w) PROVE TypeOK'
  <2>1. ManagerTypeOK' /\ PoolTypeOK'
    BY <1>0, <1>16 DEF GracefulHook, ManagerTypeOK, PoolTypeOK
  <2>2. SessionTypeOK'
    BY <1>0, <1>16, SendEffect DEF GracefulHook, SessionTypeOK
  <2>3. ThreadTypeOK'
    BY <1>0, <1>16, CallEffect DEF GracefulHook, ThreadTypeOK
  <2> QED
    BY <2>1, <2>2, <2>3
<1>17. ASSUME NEW w \in Workers, GracefulSchedule(w) PROVE TypeOK'
  <2>1. ManagerTypeOK' /\ PoolTypeOK'
    BY <1>0, <1>17 DEF GracefulSchedule, ManagerTypeOK, PoolTypeOK
  <2>2. SessionTypeOK'
    BY <1>0, <1>17 DEF GracefulSchedule, SessionTypeOK
  <2>3. ThreadTypeOK'
    BY <1>0, <1>17, CallEffect, ReturnEffect DEF GracefulSchedule,
       ThreadTypeOK
  <2> QED
    BY <2>1, <2>2, <2>3
<1>18. ASSUME NEW w \in Workers, NEW s \in Sessions, TimerForces(w, s) PROVE TypeOK'
  BY <1>0, <1>18 DEF TimerForces, WorkReady, Call, Goto, ManagerTypeOK,
     SessionTypeOK, PoolTypeOK, ThreadTypeOK
<1>19. ASSUME NEW w \in Workers, NEW s \in Sessions, TimerFindsDisconnected(w, s) PROVE TypeOK'
  BY <1>0, <1>19 DEF TimerFindsDisconnected, WorkReady, ManagerTypeOK,
     SessionTypeOK, PoolTypeOK, ThreadTypeOK
<1>20. ASSUME NEW w \in Workers, HeartbeatStart(w) PROVE TypeOK'
  BY <1>0, <1>20 DEF HeartbeatStart, WorkReady, LockShared, Goto,
     ManagerTypeOK, SessionTypeOK, PoolTypeOK, ThreadTypeOK
<1>21. ASSUME NEW w \in Workers, HeartbeatScan(w) PROVE TypeOK'
  <2>1. ManagerTypeOK' /\ PoolTypeOK'
    BY <1>0, <1>21 DEF HeartbeatScan, ManagerTypeOK, PoolTypeOK
  <2>2. SessionTypeOK'
    BY <1>0, <1>21, SendEffect DEF HeartbeatScan, SessionTypeOK,
       ManagerTypeOK
  <2>3. ThreadTypeOK'
    <3>1. PICK i \in todo[w] :
             /\ todo' = [todo EXCEPT ![w] = @ \ {i}]
             /\ deadSessions' = deadSessions \union {i} \/ deadSessions' = deadSessions
      BY <1>21 DEF HeartbeatScan
    <3>2. pc' = pc /\ subject' = subject /\ ret' = ret /\ newId' = newId
      BY <1>21 DEF HeartbeatScan
    <3>3. todo' \in [Threads -> SUBSET Ids] /\ deadSessions' \subseteq Ids
      BY <1>0, <3>1 DEF ThreadTypeOK
    <3> QED
      BY <1>0, <3>2, <3>3 DEF ThreadTypeOK
  <2> QED
    BY <2>1, <2>2, <2>3
<1>22. ASSUME NEW w \in Workers, HeartbeatUnlock(w) PROVE TypeOK'
  BY <1>0, <1>22 DEF HeartbeatUnlock, UnlockShared, Goto, ManagerTypeOK,
     SessionTypeOK, PoolTypeOK, ThreadTypeOK
<1>23. ASSUME NEW w \in Workers, HeartbeatFind(w) PROVE TypeOK'
  <2>1. ManagerTypeOK' /\ PoolTypeOK'
    BY <1>0, <1>23 DEF HeartbeatFind, ManagerTypeOK, PoolTypeOK
  <2>2. SessionTypeOK'
    BY <1>0, <1>23 DEF HeartbeatFind, SessionTypeOK
  <2>3. ThreadTypeOK'
    BY <1>0, <1>23, CallEffect DEF HeartbeatFind, ThreadTypeOK,
       ManagerTypeOK
  <2> QED
    BY <2>1, <2>2, <2>3
<1>24. ASSUME NEW w \in Workers, HeartbeatClose(w) PROVE TypeOK'
  <2>1. ManagerTypeOK' /\ PoolTypeOK'
    BY <1>0, <1>24 DEF HeartbeatClose, ManagerTypeOK, PoolTypeOK
  <2>2. SessionTypeOK'
    BY <1>0, <1>24, CloseSocketEffect DEF HeartbeatClose, SessionTypeOK
  <2>3. ThreadTypeOK'
    BY <1>0, <1>24, ReturnEffect DEF HeartbeatClose, ThreadTypeOK
  <2> QED
    BY <2>1, <2>2, <2>3
<1>25. ASSUME NEW w \in Workers, HeartbeatDone(w) PROVE TypeOK'
  BY <1>0, <1>25 DEF HeartbeatDone, Goto, ManagerTypeOK, SessionTypeOK,
     PoolTypeOK, ThreadTypeOK
<1>26. ASSUME StopBegins PROVE TypeOK'
  BY <1>0, <1>26 DEF StopBegins, LockShared, Goto, ManagerTypeOK,
     SessionTypeOK, PoolTypeOK, ThreadTypeOK
<1>27. ASSUME DisconnectNext PROVE TypeOK'
  <2>1. ManagerTypeOK' /\ PoolTypeOK'
    BY <1>0, <1>27 DEF DisconnectNext, ManagerTypeOK, PoolTypeOK
  <2>2. SessionTypeOK'
    BY <1>0, <1>27 DEF DisconnectNext, SessionTypeOK
  <2>3. ThreadTypeOK'
    <3>1. PICK i \in todo[Main] :
             /\ todo' = [todo EXCEPT ![Main] = @ \ {i}]
             /\ Call(Main, "force", sessions[i], "disconnectAll")
      BY <1>27 DEF DisconnectNext
    <3>2. sessions[i] \in Sessions
      <4>1. todo[Main] \subseteq DOMAIN sessions
        BY <1>0, <1>27 DEF DisconnectNext
      <4> QED
        BY <1>0, <4>1 DEF ManagerTypeOK
    <3>3. /\ pc' \in [Threads -> Labels]
          /\ subject' \in [Threads -> Sessions \union {NoSession}]
          /\ ret' \in [Threads -> {"idle", "schedule", "disconnectAll"}]
      BY <1>0, <3>1, <3>2, CallEffect
    <3> QED
      BY <1>0, <1>27, <3>1, <3>3 DEF DisconnectNext, ThreadTypeOK
  <2> QED
    BY <2>1, <2>2, <2>3
<1>28. ASSUME DisconnectAllDone PROVE TypeOK'
  BY <1>0, <1>28 DEF DisconnectAllDone, UnlockShared, Goto, ManagerTypeOK,
     SessionTypeOK, PoolTypeOK, ThreadTypeOK
<1>29. ASSUME StopIo PROVE TypeOK'
  BY <1>0, <1>29 DEF StopIo, Goto, ManagerTypeOK, SessionTypeOK, PoolTypeOK,
     ThreadTypeOK
<1>30. ASSUME JoinIoStopPool PROVE TypeOK'
  BY <1>0, <1>30 DEF JoinIoStopPool, Goto, ManagerTypeOK, SessionTypeOK,
     PoolTypeOK, ThreadTypeOK
<1>31. ASSUME JoinPool PROVE TypeOK'
  BY <1>0, <1>31 DEF JoinPool, Goto, ManagerTypeOK, SessionTypeOK,
     PoolTypeOK, ThreadTypeOK
<1> QED
  BY <1>1, <1>2, <1>3, <1>4, <1>5, <1>6, <1>7, <1>8, <1>9, <1>10, <1>11,
     <1>12, <1>13, <1>14, <1>15, <1>16, <1>17, <1>18, <1>19, <1>20, <1>21,
     <1>22, <1>23, <1>24, <1>25, <1>26, <1>27, <1>28, <1>29, <1>30, <1>31
     DEF Next, IoNext, WorkerNext, MainNext

\* Every step keeps each thread in its own code.
LEMMA ControlInductive == ASSUME IInv, Next PROVE ControlOK'
<1> USE DEF TypeOK, ThreadTypeOK, ControlOK, Forcing, Owning, IoLabels, WorkerLabels, MainLabels, LockOK, Looping
<1>0. TypeOK /\ ControlOK /\ LockOK
  BY DEF IInv
<1>1. ASSUME NEW s \in Sessions, PeerCloses(s) PROVE ControlOK'
  BY <1>0, <1>1 DEF PeerCloses
<1>2. ASSUME NEW s \in Sessions, Accept(s) PROVE ControlOK'
  BY <1>0, <1>2 DEF Accept, IoReady, Call, Goto
<1>3. ASSUME Add PROVE ControlOK'
  BY <1>0, <1>3 DEF Add, LockIsFree, Goto, ManagerTypeOK
<1>4. ASSUME FinishStart PROVE ControlOK'
  BY <1>0, <1>4 DEF FinishStart, ReturnTo, Goto
<1>5. ASSUME NEW s \in Sessions, ReadData(s) PROVE ControlOK'
  BY <1>0, <1>5 DEF ReadData, IoReady
<1>6. ASSUME NEW s \in Sessions, ReadFails(s) PROVE ControlOK'
  BY <1>0, <1>6 DEF ReadFails, IoReady, Call, Goto
<1>7. ASSUME NEW s \in Sessions, WriteCompletes(s) PROVE ControlOK'
  BY <1>0, <1>7 DEF WriteCompletes, IoReady
<1>8. ASSUME NEW s \in Sessions, WriteFails(s) PROVE ControlOK'
  BY <1>0, <1>8 DEF WriteFails, IoReady, Call, Goto
<1>9. ASSUME NEW t \in Threads, RemoveAndReport(t) PROVE ControlOK'
  BY <1>0, <1>9 DEF RemoveAndReport, Removing, RemovePath, LockIsFree,
     Restrict, ReturnTo, Goto
<1>10. ASSUME NEW t \in Threads, ForceExchange(t) PROVE ControlOK'
  BY <1>0, <1>10 DEF ForceExchange, ReturnTo, Goto
<1>11. ASSUME NEW t \in Threads, ForceClose(t) PROVE ControlOK'
  BY <1>0, <1>11 DEF ForceClose, Goto
<1>12. ASSUME NEW w \in Workers, NEW s \in Sessions, RunPacketTask(w, s) PROVE ControlOK'
  BY <1>0, <1>12 DEF RunPacketTask, WorkReady, Call, LockShared, Goto,
     ManagerTypeOK
<1>13. ASSUME NEW w \in Workers, BroadcastNext(w) PROVE ControlOK'
  BY <1>0, <1>13 DEF BroadcastNext
<1>14. ASSUME NEW w \in Workers, BroadcastDone(w) PROVE ControlOK'
  BY <1>0, <1>14 DEF BroadcastDone, UnlockShared, Goto
<1>15. ASSUME NEW w \in Workers, GracefulCheck(w) PROVE ControlOK'
  BY <1>0, <1>15 DEF GracefulCheck, ReturnTo, Goto
<1>16. ASSUME NEW w \in Workers, GracefulHook(w) PROVE ControlOK'
  BY <1>0, <1>16 DEF GracefulHook, Call, Goto
<1>17. ASSUME NEW w \in Workers, GracefulSchedule(w) PROVE ControlOK'
  BY <1>0, <1>17 DEF GracefulSchedule, ReturnTo, Call, Goto
<1>18. ASSUME NEW w \in Workers, NEW s \in Sessions, TimerForces(w, s) PROVE ControlOK'
  BY <1>0, <1>18 DEF TimerForces, WorkReady, Call, Goto
<1>19. ASSUME NEW w \in Workers, NEW s \in Sessions, TimerFindsDisconnected(w, s) PROVE ControlOK'
  BY <1>0, <1>19 DEF TimerFindsDisconnected, WorkReady
<1>20. ASSUME NEW w \in Workers, HeartbeatStart(w) PROVE ControlOK'
  BY <1>0, <1>20 DEF HeartbeatStart, WorkReady, LockShared, Goto,
     ManagerTypeOK
<1>21. ASSUME NEW w \in Workers, HeartbeatScan(w) PROVE ControlOK'
  BY <1>0, <1>21 DEF HeartbeatScan
<1>22. ASSUME NEW w \in Workers, HeartbeatUnlock(w) PROVE ControlOK'
  BY <1>0, <1>22 DEF HeartbeatUnlock, UnlockShared, Goto
<1>23. ASSUME NEW w \in Workers, HeartbeatFind(w) PROVE ControlOK'
  BY <1>0, <1>23 DEF HeartbeatFind, Call, Goto, ManagerTypeOK
<1>24. ASSUME NEW w \in Workers, HeartbeatClose(w) PROVE ControlOK'
  BY <1>0, <1>24 DEF HeartbeatClose, ReturnTo, Goto
<1>25. ASSUME NEW w \in Workers, HeartbeatDone(w) PROVE ControlOK'
  BY <1>0, <1>25 DEF HeartbeatDone, Goto
<1>26. ASSUME StopBegins PROVE ControlOK'
  BY <1>0, <1>26 DEF StopBegins, LockShared, Goto, ManagerTypeOK
<1>27. ASSUME DisconnectNext PROVE ControlOK'
  BY <1>0, <1>27 DEF DisconnectNext, Call, Goto, ManagerTypeOK
<1>28. ASSUME DisconnectAllDone PROVE ControlOK'
  BY <1>0, <1>28 DEF DisconnectAllDone, UnlockShared, Goto
<1>29. ASSUME StopIo PROVE ControlOK'
  BY <1>0, <1>29 DEF StopIo, Goto
<1>30. ASSUME JoinIoStopPool PROVE ControlOK'
  BY <1>0, <1>30 DEF JoinIoStopPool, Goto
<1>31. ASSUME JoinPool PROVE ControlOK'
  BY <1>0, <1>31 DEF JoinPool, Goto
<1> QED
  BY <1>1, <1>2, <1>3, <1>4, <1>5, <1>6, <1>7, <1>8, <1>9, <1>10, <1>11,
     <1>12, <1>13, <1>14, <1>15, <1>16, <1>17, <1>18, <1>19, <1>20, <1>21,
     <1>22, <1>23, <1>24, <1>25, <1>26, <1>27, <1>28, <1>29, <1>30, <1>31
     DEF Next, IoNext, WorkerNext, MainNext

\* Every step keeps the lock with the loops over _sessions.
LEMMA LockInductive == ASSUME IInv, Next PROVE LockOK'
<1> USE DEF TypeOK, ThreadTypeOK, ControlOK, Forcing, Owning, IoLabels, WorkerLabels, MainLabels, LockOK, Looping
<1>0. TypeOK /\ ControlOK /\ LockOK
  BY DEF IInv
<1>1. ASSUME NEW s \in Sessions, PeerCloses(s) PROVE LockOK'
  BY <1>0, <1>1 DEF PeerCloses
<1>2. ASSUME NEW s \in Sessions, Accept(s) PROVE LockOK'
  BY <1>0, <1>2 DEF Accept, IoReady, Call, Goto
<1>3. ASSUME Add PROVE LockOK'
  BY <1>0, <1>3 DEF Add, LockIsFree, Goto, ManagerTypeOK
<1>4. ASSUME FinishStart PROVE LockOK'
  BY <1>0, <1>4 DEF FinishStart, ReturnTo, Goto
<1>5. ASSUME NEW s \in Sessions, ReadData(s) PROVE LockOK'
  BY <1>0, <1>5 DEF ReadData, IoReady
<1>6. ASSUME NEW s \in Sessions, ReadFails(s) PROVE LockOK'
  BY <1>0, <1>6 DEF ReadFails, IoReady, Call, Goto
<1>7. ASSUME NEW s \in Sessions, WriteCompletes(s) PROVE LockOK'
  BY <1>0, <1>7 DEF WriteCompletes, IoReady
<1>8. ASSUME NEW s \in Sessions, WriteFails(s) PROVE LockOK'
  BY <1>0, <1>8 DEF WriteFails, IoReady, Call, Goto
<1>9. ASSUME NEW t \in Threads, RemoveAndReport(t) PROVE LockOK'
  BY <1>0, <1>9 DEF RemoveAndReport, Removing, RemovePath, LockIsFree,
     Restrict, ReturnTo, Goto
<1>10. ASSUME NEW t \in Threads, ForceExchange(t) PROVE LockOK'
  BY <1>0, <1>10 DEF ForceExchange, ReturnTo, Goto
<1>11. ASSUME NEW t \in Threads, ForceClose(t) PROVE LockOK'
  BY <1>0, <1>11 DEF ForceClose, Goto
<1>12. ASSUME NEW w \in Workers, NEW s \in Sessions, RunPacketTask(w, s) PROVE LockOK'
  BY <1>0, <1>12 DEF RunPacketTask, WorkReady, Call, LockShared, Goto,
     ManagerTypeOK
<1>13. ASSUME NEW w \in Workers, BroadcastNext(w) PROVE LockOK'
  BY <1>0, <1>13 DEF BroadcastNext
<1>14. ASSUME NEW w \in Workers, BroadcastDone(w) PROVE LockOK'
  BY <1>0, <1>14 DEF BroadcastDone, UnlockShared, Goto
<1>15. ASSUME NEW w \in Workers, GracefulCheck(w) PROVE LockOK'
  BY <1>0, <1>15 DEF GracefulCheck, ReturnTo, Goto
<1>16. ASSUME NEW w \in Workers, GracefulHook(w) PROVE LockOK'
  BY <1>0, <1>16 DEF GracefulHook, Call, Goto
<1>17. ASSUME NEW w \in Workers, GracefulSchedule(w) PROVE LockOK'
  BY <1>0, <1>17 DEF GracefulSchedule, ReturnTo, Call, Goto
<1>18. ASSUME NEW w \in Workers, NEW s \in Sessions, TimerForces(w, s) PROVE LockOK'
  BY <1>0, <1>18 DEF TimerForces, WorkReady, Call, Goto
<1>19. ASSUME NEW w \in Workers, NEW s \in Sessions, TimerFindsDisconnected(w, s) PROVE LockOK'
  BY <1>0, <1>19 DEF TimerFindsDisconnected, WorkReady
<1>20. ASSUME NEW w \in Workers, HeartbeatStart(w) PROVE LockOK'
  BY <1>0, <1>20 DEF HeartbeatStart, WorkReady, LockShared, Goto,
     ManagerTypeOK
<1>21. ASSUME NEW w \in Workers, HeartbeatScan(w) PROVE LockOK'
  BY <1>0, <1>21 DEF HeartbeatScan
<1>22. ASSUME NEW w \in Workers, HeartbeatUnlock(w) PROVE LockOK'
  BY <1>0, <1>22 DEF HeartbeatUnlock, UnlockShared, Goto
<1>23. ASSUME NEW w \in Workers, HeartbeatFind(w) PROVE LockOK'
  BY <1>0, <1>23 DEF HeartbeatFind, Call, Goto, ManagerTypeOK
<1>24. ASSUME NEW w \in Workers, HeartbeatClose(w) PROVE LockOK'
  BY <1>0, <1>24 DEF HeartbeatClose, ReturnTo, Goto
<1>25. ASSUME NEW w \in Workers, HeartbeatDone(w) PROVE LockOK'
  BY <1>0, <1>25 DEF HeartbeatDone, Goto
<1>26. ASSUME StopBegins PROVE LockOK'
  BY <1>0, <1>26 DEF StopBegins, LockShared, Goto, ManagerTypeOK
<1>27. ASSUME DisconnectNext PROVE LockOK'
  BY <1>0, <1>27 DEF DisconnectNext, Call, Goto, ManagerTypeOK
<1>28. ASSUME DisconnectAllDone PROVE LockOK'
  BY <1>0, <1>28 DEF DisconnectAllDone, UnlockShared, Goto
<1>29. ASSUME StopIo PROVE LockOK'
  BY <1>0, <1>29 DEF StopIo, Goto
<1>30. ASSUME JoinIoStopPool PROVE LockOK'
  BY <1>0, <1>30 DEF JoinIoStopPool, Goto
<1>31. ASSUME JoinPool PROVE LockOK'
  BY <1>0, <1>31 DEF JoinPool, Goto
<1> QED
  BY <1>1, <1>2, <1>3, <1>4, <1>5, <1>6, <1>7, <1>8, <1>9, <1>10, <1>11,
     <1>12, <1>13, <1>14, <1>15, <1>16, <1>17, <1>18, <1>19, <1>20, <1>21,
     <1>22, <1>23, <1>24, <1>25, <1>26, <1>27, <1>28, <1>29, <1>30, <1>31
     DEF Next, IoNext, WorkerNext, MainNext

\* Every step keeps the ids unique and the registry faithful to them.
LEMMA IdsInductive == ASSUME IInv, Next PROVE IdsOK'
<1> DEFINE Kept == /\ UNCHANGED <<sessions, sessionIdGen, sessionId, newId>>
                   /\ pc'[IO] = pc[IO] /\ subject'[IO] = subject[IO]
<1> USE DEF TypeOK, ManagerTypeOK, SessionTypeOK, ThreadTypeOK, PoolTypeOK, WriteStates,
           ControlOK, IoLabels, WorkerLabels, MainLabels, Owning, Forcing
<1>0. TypeOK /\ ControlOK /\ IdsOK /\ UnacceptedOK /\ OwnersOK
  BY DEF IInv
<1>a. ASSUME Kept PROVE IdsOK'
  BY <1>0, <1>a DEF IdsOK, RegistryFaithful, Registered
<1>1. ASSUME NEW s \in Sessions, PeerCloses(s) PROVE Kept
  BY <1>0, <1>1 DEF PeerCloses
<1>2. ASSUME NEW s \in Sessions, Accept(s) PROVE IdsOK'
  BY <1>0, <1>2 DEF Accept, IoReady, Call, Goto, IdsOK, RegistryFaithful,
     Registered, UnacceptedOK, OwnersOK
<1>3. ASSUME Add PROVE IdsOK'
  BY <1>0, <1>3 DEF Add, LockIsFree, Goto, IdsOK, RegistryFaithful,
     Registered, UnacceptedOK, OwnersOK
<1>4. ASSUME FinishStart PROVE IdsOK'
  BY <1>0, <1>4 DEF FinishStart, DoRead, ReturnTo, Goto, IdsOK,
     RegistryFaithful, Registered, UnacceptedOK, OwnersOK
<1>5. ASSUME NEW s \in Sessions, ReadData(s) PROVE Kept
  BY <1>0, <1>5 DEF ReadData, IoReady, DoRead
<1>6. ASSUME NEW s \in Sessions, ReadFails(s) PROVE IdsOK'
  BY <1>0, <1>6 DEF ReadFails, IoReady, Call, Goto, IdsOK, RegistryFaithful,
     Registered, UnacceptedOK, OwnersOK
<1>7. ASSUME NEW s \in Sessions, WriteCompletes(s) PROVE Kept
  BY <1>0, <1>7 DEF WriteCompletes, IoReady
<1>8. ASSUME NEW s \in Sessions, WriteFails(s) PROVE IdsOK'
  BY <1>0, <1>8 DEF WriteFails, IoReady, Call, Goto, IdsOK,
     RegistryFaithful, Registered, UnacceptedOK, OwnersOK
<1>9. ASSUME NEW t \in Threads, RemoveAndReport(t) PROVE IdsOK'
  <2>1. subject[t] \in Sessions
    BY <1>0, <1>9 DEF RemoveAndReport, Removing, RemovePath
  <2>2. /\ \A i \in DOMAIN sessions' : i \in DOMAIN sessions /\ sessions'[i] = sessions[i]
        /\ \A i \in DOMAIN sessions : i # sessionId[subject[t]] => i \in DOMAIN sessions'
    BY <1>9 DEF RemoveAndReport, Restrict
  <2>3. /\ UNCHANGED <<sessionId, sessionIdGen, newId>>
        /\ pc'[IO] \in {"add", "started"} \/ pc[IO] \in {"add", "started"} =>
              pc'[IO] = pc[IO] /\ subject'[IO] = subject[IO]
    BY <1>0, <1>9 DEF RemoveAndReport, Removing, RemovePath, ReturnTo, Goto
  <2> QED
    BY <1>0, <2>1, <2>2, <2>3 DEF IdsOK, RegistryFaithful, Registered
<1>10. ASSUME NEW t \in Threads, ForceExchange(t) PROVE Kept
  BY <1>0, <1>10 DEF ForceExchange, ReturnTo, Goto
<1>11. ASSUME NEW t \in Threads, ForceClose(t) PROVE Kept
  BY <1>0, <1>11 DEF ForceClose, Goto
<1>12. ASSUME NEW w \in Workers, NEW s \in Sessions, RunPacketTask(w, s) PROVE Kept
  BY <1>0, <1>12 DEF RunPacketTask, WorkReady, Call, LockShared, Goto
<1>13. ASSUME NEW w \in Workers, BroadcastNext(w) PROVE Kept
  BY <1>0, <1>13 DEF BroadcastNext
<1>14. ASSUME NEW w \in Workers, BroadcastDone(w) PROVE Kept
  BY <1>0, <1>14 DEF BroadcastDone, UnlockShared, Goto
<1>15. ASSUME NEW w \in Workers, GracefulCheck(w) PROVE Kept
  BY <1>0, <1>15 DEF GracefulCheck, ReturnTo, Goto
<1>16. ASSUME NEW w \in Workers, GracefulHook(w) PROVE Kept
  BY <1>0, <1>16 DEF GracefulHook, Call, Goto
<1>17. ASSUME NEW w \in Workers, GracefulSchedule(w) PROVE Kept
  BY <1>0, <1>17 DEF GracefulSchedule, ReturnTo, Call, Goto
<1>18. ASSUME NEW w \in Workers, NEW s \in Sessions, TimerForces(w, s) PROVE Kept
  BY <1>0, <1>18 DEF TimerForces, WorkReady, Call, Goto
<1>19. ASSUME NEW w \in Workers, NEW s \in Sessions, TimerFindsDisconnected(w, s) PROVE Kept
  BY <1>0, <1>19 DEF TimerFindsDisconnected, WorkReady
<1>20. ASSUME NEW w \in Workers, HeartbeatStart(w) PROVE Kept
  BY <1>0, <1>20 DEF HeartbeatStart, WorkReady, LockShared, Goto
<1>21. ASSUME NEW w \in Workers, HeartbeatScan(w) PROVE Kept
  BY <1>0, <1>21 DEF HeartbeatScan
<1>22. ASSUME NEW w \in Workers, HeartbeatUnlock(w) PROVE Kept
  BY <1>0, <1>22 DEF HeartbeatUnlock, UnlockShared, Goto
<1>23. ASSUME NEW w \in Workers, HeartbeatFind(w) PROVE Kept
  BY <1>0, <1>23 DEF HeartbeatFind, Call, Goto
<1>24. ASSUME NEW w \in Workers, HeartbeatClose(w) PROVE Kept
  BY <1>0, <1>24 DEF HeartbeatClose, ReturnTo, Goto
<1>25. ASSUME NEW w \in Workers, HeartbeatDone(w) PROVE Kept
  BY <1>0, <1>25 DEF HeartbeatDone, Goto
<1>26. ASSUME StopBegins PROVE Kept
  BY <1>0, <1>26 DEF StopBegins, LockShared, Goto
<1>27. ASSUME DisconnectNext PROVE Kept
  BY <1>0, <1>27 DEF DisconnectNext, Call, Goto
<1>28. ASSUME DisconnectAllDone PROVE Kept
  BY <1>0, <1>28 DEF DisconnectAllDone, UnlockShared, Goto
<1>29. ASSUME StopIo PROVE Kept
  BY <1>0, <1>29 DEF StopIo, Goto
<1>30. ASSUME JoinIoStopPool PROVE Kept
  BY <1>0, <1>30 DEF JoinIoStopPool, Goto
<1>31. ASSUME JoinPool PROVE Kept
  BY <1>0, <1>31 DEF JoinPool, Goto
<1> QED
  BY <1>a, <1>1, <1>2, <1>3, <1>4, <1>5, <1>6, <1>7, <1>8, <1>9, <1>10,
     <1>11, <1>12, <1>13, <1>14, <1>15, <1>16, <1>17, <1>18, <1>19, <1>20,
     <1>21, <1>22, <1>23, <1>24, <1>25, <1>26, <1>27, <1>28, <1>29, <1>30,
     <1>31 DEF Next, IoNext, WorkerNext, MainNext

\* No step gives a reader, task, timer or report to a session without its id.
LEMMA UnstartedInductive == ASSUME IInv, Next PROVE UnstartedOK'
<1> DEFINE Kept == /\ UNCHANGED sessionId
                   /\ \A r \in Sessions :
                         /\ \A p \in Paths : reports'[r][p] = reports[r][p]
                         /\ read[r] = "none" => read'[r] = "none"
                         /\ tasks[r] = 0 => tasks'[r] = 0
                         /\ timers[r] = 0 => timers'[r] = 0
<1> USE DEF TypeOK, ManagerTypeOK, SessionTypeOK, ThreadTypeOK, PoolTypeOK, WriteStates,
           ControlOK, IoLabels, WorkerLabels, MainLabels, Owning, Forcing
<1>0. TypeOK /\ ControlOK /\ LockOK /\ UnstartedOK /\ OwnersOK /\ IdsOK
  BY DEF IInv
<1>a. ASSUME Kept PROVE UnstartedOK'
  BY <1>0, <1>a DEF UnstartedOK
<1>1. ASSUME NEW s \in Sessions, PeerCloses(s) PROVE Kept
  BY <1>0, <1>1 DEF PeerCloses
<1>2. ASSUME NEW s \in Sessions, Accept(s) PROVE Kept
  BY <1>0, <1>2 DEF Accept, IoReady, Call, Goto
<1>3. ASSUME Add PROVE Kept
  BY <1>0, <1>3 DEF Add, LockIsFree, Goto
<1>4. ASSUME FinishStart PROVE UnstartedOK'
  BY <1>0, <1>4 DEF FinishStart, DoRead, ReturnTo, Goto, UnstartedOK,
     OwnersOK, IdsOK
<1>5. ASSUME NEW s \in Sessions, ReadData(s) PROVE UnstartedOK'
  BY <1>0, <1>5 DEF ReadData, IoReady, DoRead, UnstartedOK, OwnersOK, IdsOK
<1>6. ASSUME NEW s \in Sessions, ReadFails(s) PROVE Kept
  BY <1>0, <1>6 DEF ReadFails, IoReady, Call, Goto
<1>7. ASSUME NEW s \in Sessions, WriteCompletes(s) PROVE Kept
  BY <1>0, <1>7 DEF WriteCompletes, IoReady
<1>8. ASSUME NEW s \in Sessions, WriteFails(s) PROVE Kept
  BY <1>0, <1>8 DEF WriteFails, IoReady, Call, Goto
<1>9. ASSUME NEW t \in Threads, RemoveAndReport(t) PROVE UnstartedOK'
  <2>1. subject[t] \in Sessions
    BY <1>0, <1>9 DEF RemoveAndReport, Removing, RemovePath
  <2>2. t # Main
    BY <1>0, <1>9 DEF RemoveAndReport, Removing, RemovePath, LockIsFree, LockOK
  <2>3. sessionId[subject[t]] # 0
    BY <1>0, <2>2, <1>9 DEF RemoveAndReport, Removing, RemovePath, OwnersOK
  <2>4. /\ UNCHANGED <<sessionId, read, tasks, timers>>
        /\ \A r \in Sessions : r # subject[t] => reports'[r] = reports[r]
    BY <1>0, <2>1, <1>9 DEF RemoveAndReport
  <2> HIDE DEF TypeOK, ManagerTypeOK, SessionTypeOK, ThreadTypeOK, PoolTypeOK,
              WriteStates, ControlOK
  <2> QED
    BY <1>0, <2>3, <2>4 DEF UnstartedOK
<1>10. ASSUME NEW t \in Threads, ForceExchange(t) PROVE Kept
  BY <1>0, <1>10 DEF ForceExchange, ReturnTo, Goto
<1>11. ASSUME NEW t \in Threads, ForceClose(t) PROVE Kept
  BY <1>0, <1>11, CloseSocketEffect DEF ForceClose, Goto
<1>12. ASSUME NEW w \in Workers, NEW s \in Sessions, RunPacketTask(w, s) PROVE Kept
  BY <1>0, <1>12 DEF RunPacketTask, WorkReady, Call, LockShared, Goto
<1>13. ASSUME NEW w \in Workers, BroadcastNext(w) PROVE Kept
  BY <1>0, <1>13 DEF BroadcastNext
<1>14. ASSUME NEW w \in Workers, BroadcastDone(w) PROVE Kept
  BY <1>0, <1>14 DEF BroadcastDone, UnlockShared, Goto
<1>15. ASSUME NEW w \in Workers, GracefulCheck(w) PROVE Kept
  BY <1>0, <1>15 DEF GracefulCheck, ReturnTo, Goto
<1>16. ASSUME NEW w \in Workers, GracefulHook(w) PROVE Kept
  BY <1>0, <1>16 DEF GracefulHook, Call, Goto
<1>17. ASSUME NEW w \in Workers, GracefulSchedule(w) PROVE UnstartedOK'
  BY <1>0, <1>17 DEF GracefulSchedule, ReturnTo, Call, Goto, UnstartedOK,
     OwnersOK, IdsOK
<1>18. ASSUME NEW w \in Workers, NEW s \in Sessions, TimerForces(w, s) PROVE Kept
  BY <1>0, <1>18 DEF TimerForces, WorkReady, Call, Goto
<1>19. ASSUME NEW w \in Workers, NEW s \in Sessions, TimerFindsDisconnected(w, s) PROVE Kept
  BY <1>0, <1>19 DEF TimerFindsDisconnected, WorkReady
<1>20. ASSUME NEW w \in Workers, HeartbeatStart(w) PROVE Kept
  BY <1>0, <1>20 DEF HeartbeatStart, WorkReady, LockShared, Goto
<1>21. ASSUME NEW w \in Workers, HeartbeatScan(w) PROVE Kept
  BY <1>0, <1>21 DEF HeartbeatScan
<1>22. ASSUME NEW w \in Workers, HeartbeatUnlock(w) PROVE Kept
  BY <1>0, <1>22 DEF HeartbeatUnlock, UnlockShared, Goto
<1>23. ASSUME NEW w \in Workers, HeartbeatFind(w) PROVE Kept
  BY <1>0, <1>23 DEF HeartbeatFind, Call, Goto
<1>24. ASSUME NEW w \in Workers, HeartbeatClose(w) PROVE Kept
  BY <1>0, <1>24, CloseSocketEffect DEF HeartbeatClose, ReturnTo, Goto
<1>25. ASSUME NEW w \in Workers, HeartbeatDone(w) PROVE Kept
  BY <1>0, <1>25 DEF HeartbeatDone, Goto
<1>26. ASSUME StopBegins PROVE Kept
  BY <1>0, <1>26 DEF StopBegins, LockShared, Goto
<1>27. ASSUME DisconnectNext PROVE Kept
  BY <1>0, <1>27 DEF DisconnectNext, Call, Goto
<1>28. ASSUME DisconnectAllDone PROVE Kept
  BY <1>0, <1>28 DEF DisconnectAllDone, UnlockShared, Goto
<1>29. ASSUME StopIo PROVE Kept
  BY <1>0, <1>29 DEF StopIo, Goto
<1>30. ASSUME JoinIoStopPool PROVE Kept
  BY <1>0, <1>30 DEF JoinIoStopPool, Goto
<1>31. ASSUME JoinPool PROVE Kept
  BY <1>0, <1>31 DEF JoinPool, Goto
<1> QED
  BY <1>a, <1>1, <1>2, <1>3, <1>4, <1>5, <1>6, <1>7, <1>8, <1>9, <1>10,
     <1>11, <1>12, <1>13, <1>14, <1>15, <1>16, <1>17, <1>18, <1>19, <1>20,
     <1>21, <1>22, <1>23, <1>24, <1>25, <1>26, <1>27, <1>28, <1>29, <1>30,
     <1>31 DEF Next, IoNext, WorkerNext, MainNext

\* No step writes to a session that is not registered and has no id.
LEMMA UnwrittenInductive == ASSUME IInv, Next PROVE UnwrittenOK'
<1> DEFINE Kept == /\ UNCHANGED sessionId
                   /\ \A r \in Sessions : InFlight(r) = 0 => InFlight(r)' = 0
                   /\ pc[IO] = "started" => pc'[IO] = "started" /\ subject'[IO] = subject[IO]
<1> USE DEF TypeOK, ManagerTypeOK, SessionTypeOK, ThreadTypeOK, PoolTypeOK, WriteStates,
           ControlOK, IoLabels, WorkerLabels, MainLabels, Owning, Forcing
<1>0. TypeOK /\ ControlOK /\ LockOK /\ UnwrittenOK /\ UnstartedOK /\ OwnersOK /\ IdsOK
  BY DEF IInv
<1>a. ASSUME Kept PROVE UnwrittenOK'
  BY <1>0, <1>a DEF UnwrittenOK
<1>1. ASSUME NEW s \in Sessions, PeerCloses(s) PROVE Kept
  BY <1>0, <1>1 DEF PeerCloses, InFlight
<1>2. ASSUME NEW s \in Sessions, Accept(s) PROVE Kept
  BY <1>0, <1>2 DEF Accept, IoReady, Call, Goto, InFlight
<1>3. ASSUME Add PROVE Kept
  BY <1>0, <1>3 DEF Add, LockIsFree, Goto, InFlight
<1>4. ASSUME FinishStart PROVE UnwrittenOK'
  BY <1>0, <1>4 DEF FinishStart, DoRead, ReturnTo, Goto, InFlight,
     UnwrittenOK, UnstartedOK, OwnersOK, LockOK, Looping, IdsOK,
     RegistryFaithful, Registered
<1>5. ASSUME NEW s \in Sessions, ReadData(s) PROVE Kept
  BY <1>0, <1>5 DEF ReadData, IoReady, DoRead, InFlight
<1>6. ASSUME NEW s \in Sessions, ReadFails(s) PROVE Kept
  BY <1>0, <1>6 DEF ReadFails, IoReady, Call, Goto, InFlight
<1>7. ASSUME NEW s \in Sessions, WriteCompletes(s) PROVE Kept
  <2>1. UNCHANGED <<sessionId, pc, subject>> /\ pc[IO] = "idle"
    BY <1>7 DEF WriteCompletes, IoReady
  <2>2. InFlight(s) # 0
    BY <1>0, <1>7 DEF WriteCompletes, InFlight
  <2>3. \A r \in Sessions : r # s => writes'[r] = writes[r]
    BY <1>0, <1>7 DEF WriteCompletes, SetWrites
  <2> QED
    BY <2>1, <2>2, <2>3 DEF InFlight
<1>8. ASSUME NEW s \in Sessions, WriteFails(s) PROVE UnwrittenOK'
  <2>1. InFlight(s) # 0 /\ pc[IO] = "idle"
    <3>1. writes[s].pending \in Nat /\ writes[s].aborted \in Nat
      BY <1>0
    <3>2. writes[s].pending > 0 \/ writes[s].aborted > 0
      BY <1>8 DEF WriteFails
    <3> QED
      BY <3>1, <3>2, <1>8 DEF WriteFails, IoReady, InFlight
  <2>2. \A r \in Sessions : r # s => writes'[r] = writes[r]
    BY <1>0, <1>8 DEF WriteFails, SetWrites
  <2>3. UNCHANGED sessionId
    BY <1>8 DEF WriteFails
  <2> QED
    BY <1>0, <2>1, <2>2, <2>3 DEF UnwrittenOK, InFlight
<1>9. ASSUME NEW t \in Threads, RemoveAndReport(t) PROVE Kept
  BY <1>0, <1>9 DEF RemoveAndReport, Removing, RemovePath, LockIsFree,
     Restrict, ReturnTo, Goto, InFlight
<1>10. ASSUME NEW t \in Threads, ForceExchange(t) PROVE Kept
  BY <1>0, <1>10 DEF ForceExchange, ReturnTo, Goto, InFlight
<1>11. ASSUME NEW t \in Threads, ForceClose(t) PROVE Kept
  BY <1>0, <1>11, CloseSocketEffect DEF ForceClose, Goto, InFlight
<1>12. ASSUME NEW w \in Workers, NEW s \in Sessions, RunPacketTask(w, s) PROVE UnwrittenOK'
  <2>1. sessionId[s] # 0
    BY <1>0, <1>12 DEF RunPacketTask, UnstartedOK
  <2>2. \A r \in Sessions : r # s => writes'[r] = writes[r]
    BY <1>0, <1>12, SendEffect DEF RunPacketTask
  <2>3. UNCHANGED sessionId /\ pc'[IO] = pc[IO] /\ subject'[IO] = subject[IO]
    BY <1>0, <1>12 DEF RunPacketTask, Call, Goto
  <2> QED
    BY <1>0, <2>1, <2>2, <2>3 DEF UnwrittenOK, InFlight
<1>13. ASSUME NEW w \in Workers, BroadcastNext(w) PROVE UnwrittenOK'
  BY <1>0, <1>13, SendEffect DEF BroadcastNext, InFlight, UnwrittenOK,
     UnstartedOK, OwnersOK, LockOK, Looping, IdsOK, RegistryFaithful,
     Registered
<1>14. ASSUME NEW w \in Workers, BroadcastDone(w) PROVE Kept
  BY <1>0, <1>14 DEF BroadcastDone, UnlockShared, Goto, InFlight
<1>15. ASSUME NEW w \in Workers, GracefulCheck(w) PROVE Kept
  BY <1>0, <1>15 DEF GracefulCheck, ReturnTo, Goto, InFlight
<1>16. ASSUME NEW w \in Workers, GracefulHook(w) PROVE UnwrittenOK'
  <2>1. subject[w] \in Sessions /\ sessionId[subject[w]] # 0
    BY <1>0, <1>16 DEF GracefulHook, OwnersOK
  <2>2. \A r \in Sessions : r # subject[w] => writes'[r] = writes[r]
    BY <1>0, <2>1, <1>16, SendEffect DEF GracefulHook
  <2>3. UNCHANGED sessionId /\ pc'[IO] = pc[IO] /\ subject'[IO] = subject[IO]
    BY <1>0, <1>16 DEF GracefulHook, Call, Goto
  <2> QED
    BY <1>0, <2>1, <2>2, <2>3 DEF UnwrittenOK, InFlight
<1>17. ASSUME NEW w \in Workers, GracefulSchedule(w) PROVE Kept
  BY <1>0, <1>17 DEF GracefulSchedule, ReturnTo, Call, Goto, InFlight
<1>18. ASSUME NEW w \in Workers, NEW s \in Sessions, TimerForces(w, s) PROVE Kept
  BY <1>0, <1>18 DEF TimerForces, WorkReady, Call, Goto, InFlight
<1>19. ASSUME NEW w \in Workers, NEW s \in Sessions, TimerFindsDisconnected(w, s) PROVE Kept
  BY <1>0, <1>19 DEF TimerFindsDisconnected, WorkReady, InFlight
<1>20. ASSUME NEW w \in Workers, HeartbeatStart(w) PROVE Kept
  BY <1>0, <1>20 DEF HeartbeatStart, WorkReady, LockShared, Goto, InFlight
<1>21. ASSUME NEW w \in Workers, HeartbeatScan(w) PROVE UnwrittenOK'
  <2>1. UNCHANGED <<sessionId, pc, subject>>
    BY <1>21 DEF HeartbeatScan
  <2>2. PICK i \in todo[w] :
           UNCHANGED writes \/ (i \in DOMAIN sessions /\ Send(sessions[i]))
    BY <1>0, <1>21 DEF HeartbeatScan, LockOK, Looping
  <2>3. CASE UNCHANGED writes
    BY <1>0, <2>1, <2>3 DEF UnwrittenOK, InFlight
  <2>4. CASE i \in DOMAIN sessions /\ Send(sessions[i])
    <3>1. sessions[i] \in Sessions
      BY <1>0, <2>4
    <3>2. \A r \in Sessions : r # sessions[i] => writes'[r] = writes[r]
      BY <1>0, <2>4, <3>1, SendEffect
    <3>3. \/ sessionId[sessions[i]] # 0
          \/ pc[IO] = "started" /\ subject[IO] = sessions[i]
      BY <1>0, <2>4 DEF IdsOK, RegistryFaithful
    <3> HIDE DEF TypeOK, ManagerTypeOK, SessionTypeOK, ThreadTypeOK, PoolTypeOK,
                 WriteStates, ControlOK
    <3> QED
      BY <1>0, <2>1, <3>1, <3>2, <3>3 DEF UnwrittenOK, InFlight
  <2> QED
    BY <2>2, <2>3, <2>4
<1>22. ASSUME NEW w \in Workers, HeartbeatUnlock(w) PROVE Kept
  BY <1>0, <1>22 DEF HeartbeatUnlock, UnlockShared, Goto, InFlight
<1>23. ASSUME NEW w \in Workers, HeartbeatFind(w) PROVE Kept
  BY <1>0, <1>23 DEF HeartbeatFind, Call, Goto, InFlight
<1>24. ASSUME NEW w \in Workers, HeartbeatClose(w) PROVE Kept
  BY <1>0, <1>24, CloseSocketEffect DEF HeartbeatClose, ReturnTo, Goto,
     InFlight
<1>25. ASSUME NEW w \in Workers, HeartbeatDone(w) PROVE Kept
  BY <1>0, <1>25 DEF HeartbeatDone, Goto, InFlight
<1>26. ASSUME StopBegins PROVE Kept
  BY <1>0, <1>26 DEF StopBegins, LockShared, Goto, InFlight
<1>27. ASSUME DisconnectNext PROVE Kept
  BY <1>0, <1>27 DEF DisconnectNext, Call, Goto, InFlight
<1>28. ASSUME DisconnectAllDone PROVE Kept
  BY <1>0, <1>28 DEF DisconnectAllDone, UnlockShared, Goto, InFlight
<1>29. ASSUME StopIo PROVE Kept
  BY <1>0, <1>29 DEF StopIo, Goto, InFlight
<1>30. ASSUME JoinIoStopPool PROVE Kept
  BY <1>0, <1>30 DEF JoinIoStopPool, Goto, InFlight
<1>31. ASSUME JoinPool PROVE Kept
  BY <1>0, <1>31 DEF JoinPool, Goto, InFlight
<1> QED
  BY <1>a, <1>1, <1>2, <1>3, <1>4, <1>5, <1>6, <1>7, <1>8, <1>9, <1>10,
     <1>11, <1>12, <1>13, <1>14, <1>15, <1>16, <1>17, <1>18, <1>19, <1>20,
     <1>21, <1>22, <1>23, <1>24, <1>25, <1>26, <1>27, <1>28, <1>29, <1>30,
     <1>31 DEF Next, IoNext, WorkerNext, MainNext

\* Only an accept makes a session known to anybody.
LEMMA UnacceptedInductive == ASSUME IInv, Next PROVE UnacceptedOK'
<1> DEFINE Kept == /\ UNCHANGED <<sessions, sessionId>>
                   /\ \A r \in Sessions : socket'[r] = "unaccepted" => socket[r] = "unaccepted"
                   /\ pc'[IO] \in {"add", "started"} =>
                         pc[IO] \in {"add", "started"} /\ subject'[IO] = subject[IO]
<1> USE DEF TypeOK, ManagerTypeOK, SessionTypeOK, ThreadTypeOK, PoolTypeOK, WriteStates,
           ControlOK, IoLabels, WorkerLabels, MainLabels, Owning, Forcing
<1>0. TypeOK /\ ControlOK /\ UnacceptedOK /\ IdsOK
  BY DEF IInv
<1>a. ASSUME Kept PROVE UnacceptedOK'
  BY <1>0, <1>a DEF UnacceptedOK, Registered
<1>1. ASSUME NEW s \in Sessions, PeerCloses(s) PROVE Kept
  BY <1>0, <1>1 DEF PeerCloses
<1>2. ASSUME NEW s \in Sessions, Accept(s) PROVE UnacceptedOK'
  BY <1>0, <1>2 DEF Accept, IoReady, Call, Goto, UnacceptedOK, Registered,
     IdsOK, RegistryFaithful
<1>3. ASSUME Add PROVE UnacceptedOK'
  <2>1. socket' = socket /\ sessionId' = sessionId /\ subject' = subject
    BY <1>3 DEF Add
  <2>2. pc[IO] = "add" /\ socket[subject[IO]] # "unaccepted"
    BY <1>0, <1>3 DEF Add, UnacceptedOK
  <2>3. /\ DOMAIN sessions' = DOMAIN sessions \union {sessionIdGen}
        /\ \A i \in DOMAIN sessions' :
              sessions'[i] = IF i \in DOMAIN sessions THEN sessions[i] ELSE subject[IO]
    BY <1>3 DEF Add
  <2>4. ASSUME NEW s \in Sessions, Registered(s)', ~Registered(s) PROVE s = subject[IO]
    BY <2>3, <2>4 DEF Registered
  <2>5. \A s \in Sessions : socket'[s] = "unaccepted" => sessionId'[s] = 0 /\ ~Registered(s)'
    BY <1>0, <2>1, <2>2, <2>4 DEF UnacceptedOK
  <2> QED
    BY <2>1, <2>2, <2>5 DEF UnacceptedOK
<1>4. ASSUME FinishStart PROVE UnacceptedOK'
  BY <1>0, <1>4 DEF FinishStart, DoRead, ReturnTo, Goto, UnacceptedOK,
     Registered, IdsOK, RegistryFaithful
<1>5. ASSUME NEW s \in Sessions, ReadData(s) PROVE Kept
  BY <1>0, <1>5 DEF ReadData, IoReady, DoRead
<1>6. ASSUME NEW s \in Sessions, ReadFails(s) PROVE Kept
  BY <1>0, <1>6 DEF ReadFails, IoReady, Call, Goto
<1>7. ASSUME NEW s \in Sessions, WriteCompletes(s) PROVE Kept
  BY <1>0, <1>7 DEF WriteCompletes, IoReady
<1>8. ASSUME NEW s \in Sessions, WriteFails(s) PROVE Kept
  BY <1>0, <1>8 DEF WriteFails, IoReady, Call, Goto
<1>9. ASSUME NEW t \in Threads, RemoveAndReport(t) PROVE UnacceptedOK'
  <2>1. UNCHANGED <<sessionId, socket>> /\ Removing(t) /\ ReturnTo(t, ret[t])
    BY <1>9 DEF RemoveAndReport
  <2>2. \A i \in DOMAIN sessions' : i \in DOMAIN sessions /\ sessions'[i] = sessions[i]
    BY <1>9 DEF RemoveAndReport, Restrict
  <2>3. pc'[IO] \in {"add", "started"} =>
           pc[IO] \in {"add", "started"} /\ subject'[IO] = subject[IO]
    BY <1>0, <2>1 DEF Removing, RemovePath, ReturnTo, Goto
  <2>4. \A s \in Sessions : Registered(s)' => Registered(s)
    BY <2>2 DEF Registered
  <2> HIDE DEF TypeOK, ManagerTypeOK, SessionTypeOK, ThreadTypeOK, PoolTypeOK,
              WriteStates, ControlOK
  <2> QED
    BY <1>0, <2>1, <2>3, <2>4 DEF UnacceptedOK
<1>10. ASSUME NEW t \in Threads, ForceExchange(t) PROVE Kept
  BY <1>0, <1>10 DEF ForceExchange, ReturnTo, Goto
<1>11. ASSUME NEW t \in Threads, ForceClose(t) PROVE Kept
  BY <1>0, <1>11, CloseSocketEffect DEF ForceClose, Goto
<1>12. ASSUME NEW w \in Workers, NEW s \in Sessions, RunPacketTask(w, s) PROVE Kept
  BY <1>0, <1>12 DEF RunPacketTask, WorkReady, Call, LockShared, Goto
<1>13. ASSUME NEW w \in Workers, BroadcastNext(w) PROVE Kept
  BY <1>0, <1>13 DEF BroadcastNext
<1>14. ASSUME NEW w \in Workers, BroadcastDone(w) PROVE Kept
  BY <1>0, <1>14 DEF BroadcastDone, UnlockShared, Goto
<1>15. ASSUME NEW w \in Workers, GracefulCheck(w) PROVE Kept
  BY <1>0, <1>15 DEF GracefulCheck, ReturnTo, Goto
<1>16. ASSUME NEW w \in Workers, GracefulHook(w) PROVE Kept
  BY <1>0, <1>16 DEF GracefulHook, Call, Goto
<1>17. ASSUME NEW w \in Workers, GracefulSchedule(w) PROVE Kept
  BY <1>0, <1>17 DEF GracefulSchedule, ReturnTo, Call, Goto
<1>18. ASSUME NEW w \in Workers, NEW s \in Sessions, TimerForces(w, s) PROVE Kept
  BY <1>0, <1>18 DEF TimerForces, WorkReady, Call, Goto
<1>19. ASSUME NEW w \in Workers, NEW s \in Sessions, TimerFindsDisconnected(w, s) PROVE Kept
  BY <1>0, <1>19 DEF TimerFindsDisconnected, WorkReady
<1>20. ASSUME NEW w \in Workers, HeartbeatStart(w) PROVE Kept
  BY <1>0, <1>20 DEF HeartbeatStart, WorkReady, LockShared, Goto
<1>21. ASSUME NEW w \in Workers, HeartbeatScan(w) PROVE Kept
  BY <1>0, <1>21 DEF HeartbeatScan
<1>22. ASSUME NEW w \in Workers, HeartbeatUnlock(w) PROVE Kept
  BY <1>0, <1>22 DEF HeartbeatUnlock, UnlockShared, Goto
<1>23. ASSUME NEW w \in Workers, HeartbeatFind(w) PROVE Kept
  BY <1>0, <1>23 DEF HeartbeatFind, Call, Goto
<1>24. ASSUME NEW w \in Workers, HeartbeatClose(w) PROVE Kept
  BY <1>0, <1>24, CloseSocketEffect DEF HeartbeatClose, ReturnTo, Goto
<1>25. ASSUME NEW w \in Workers, HeartbeatDone(w) PROVE Kept
  BY <1>0, <1>25 DEF HeartbeatDone, Goto
<1>26. ASSUME StopBegins PROVE Kept
  BY <1>0, <1>26 DEF StopBegins, LockShared, Goto
<1>27. ASSUME DisconnectNext PROVE Kept
  BY <1>0, <1>27 DEF DisconnectNext, Call, Goto
<1>28. ASSUME DisconnectAllDone PROVE Kept
  BY <1>0, <1>28 DEF DisconnectAllDone, UnlockShared, Goto
<1>29. ASSUME StopIo PROVE Kept
  BY <1>0, <1>29 DEF StopIo, Goto
<1>30. ASSUME JoinIoStopPool PROVE Kept
  BY <1>0, <1>30 DEF JoinIoStopPool, Goto
<1>31. ASSUME JoinPool PROVE Kept
  BY <1>0, <1>31 DEF JoinPool, Goto
<1> QED
  BY <1>a, <1>1, <1>2, <1>3, <1>4, <1>5, <1>6, <1>7, <1>8, <1>9, <1>10,
     <1>11, <1>12, <1>13, <1>14, <1>15, <1>16, <1>17, <1>18, <1>19, <1>20,
     <1>21, <1>22, <1>23, <1>24, <1>25, <1>26, <1>27, <1>28, <1>29, <1>30,
     <1>31 DEF Next, IoNext, WorkerNext, MainNext

\* A thread gets only sessions that have their id.
LEMMA OwnersInductive == ASSUME IInv, Next PROVE OwnersOK'
<1> DEFINE Kept == /\ \A r \in Sessions : sessionId[r] # 0 => sessionId'[r] # 0
                   /\ \A u \in Workers \union {IO} :
                         pc'[u] \in Owning => pc[u] \in Owning /\ subject'[u] = subject[u]
<1> USE DEF TypeOK, ManagerTypeOK, SessionTypeOK, ThreadTypeOK, PoolTypeOK, WriteStates,
           ControlOK, IoLabels, WorkerLabels, MainLabels, Owning, Forcing
<1>0. TypeOK /\ ControlOK /\ UnstartedOK /\ UnwrittenOK /\ OwnersOK /\ IdsOK
  BY DEF IInv
<1>a. ASSUME Kept PROVE OwnersOK'
  BY <1>0, <1>a DEF OwnersOK
<1>1. ASSUME NEW s \in Sessions, PeerCloses(s) PROVE Kept
  BY <1>0, <1>1 DEF PeerCloses
<1>2. ASSUME NEW s \in Sessions, Accept(s) PROVE Kept
  BY <1>0, <1>2 DEF Accept, IoReady, Call, Goto
<1>3. ASSUME Add PROVE Kept
  BY <1>0, <1>3 DEF Add, LockIsFree, Goto
<1>4. ASSUME FinishStart PROVE OwnersOK'
  <2>1. newId # 0
    BY <1>0, <1>4 DEF FinishStart, IdsOK
  <2> QED
    BY <1>0, <2>1, <1>4 DEF FinishStart, ReturnTo, Goto, OwnersOK
<1>5. ASSUME NEW s \in Sessions, ReadData(s) PROVE Kept
  BY <1>0, <1>5 DEF ReadData, IoReady, DoRead
<1>6. ASSUME NEW s \in Sessions, ReadFails(s) PROVE OwnersOK'
  BY <1>0, <1>6 DEF ReadFails, IoReady, Call, Goto, OwnersOK, UnstartedOK
<1>7. ASSUME NEW s \in Sessions, WriteCompletes(s) PROVE Kept
  BY <1>0, <1>7 DEF WriteCompletes, IoReady
<1>8. ASSUME NEW s \in Sessions, WriteFails(s) PROVE OwnersOK'
  <2>1. sessionId[s] # 0
    <3>1. writes[s].pending \in Nat /\ writes[s].aborted \in Nat
      BY <1>0
    <3>2. writes[s].pending > 0 \/ writes[s].aborted > 0
      BY <1>8 DEF WriteFails
    <3>3. InFlight(s) # 0
      BY <3>1, <3>2 DEF InFlight
    <3> QED
      BY <1>0, <3>3, <1>8 DEF WriteFails, IoReady, UnwrittenOK
  <2>2. UNCHANGED sessionId /\ Call(IO, "removeWrite", s, "idle")
    BY <1>8 DEF WriteFails
  <2> QED
    BY <1>0, <2>1, <2>2 DEF Call, Goto, OwnersOK
<1>9. ASSUME NEW t \in Threads, RemoveAndReport(t) PROVE Kept
  BY <1>0, <1>9 DEF RemoveAndReport, Removing, RemovePath, LockIsFree,
     Restrict, ReturnTo, Goto
<1>10. ASSUME NEW t \in Threads, ForceExchange(t) PROVE Kept
  BY <1>0, <1>10 DEF ForceExchange, ReturnTo, Goto
<1>11. ASSUME NEW t \in Threads, ForceClose(t) PROVE Kept
  BY <1>0, <1>11 DEF ForceClose, Goto
<1>12. ASSUME NEW w \in Workers, NEW s \in Sessions, RunPacketTask(w, s) PROVE OwnersOK'
  <2>1. sessionId[s] # 0 /\ UNCHANGED sessionId
    BY <1>0, <1>12 DEF RunPacketTask, UnstartedOK
  <2>2. ASSUME NEW label \in {"force", "graceful"}, Call(w, label, s, "idle")
        PROVE  OwnersOK'
    <3>1. /\ subject'[w] = s
          /\ \A u \in Threads : u # w => pc'[u] = pc[u] /\ subject'[u] = subject[u]
      BY <1>0, <2>2 DEF Call, Goto
    <3> HIDE DEF TypeOK, ManagerTypeOK, SessionTypeOK, ThreadTypeOK, PoolTypeOK,
                 WriteStates, ControlOK
    <3> QED
      BY <1>0, <2>1, <3>1 DEF OwnersOK, Threads
  <2>3. CASE UNCHANGED subject /\ (UNCHANGED pc \/ Goto(w, "broadcast"))
    BY <1>0, <2>1, <2>3 DEF Goto, OwnersOK
  <2> QED
    BY <1>12, <2>2, <2>3 DEF RunPacketTask
<1>13. ASSUME NEW w \in Workers, BroadcastNext(w) PROVE Kept
  BY <1>0, <1>13 DEF BroadcastNext
<1>14. ASSUME NEW w \in Workers, BroadcastDone(w) PROVE Kept
  BY <1>0, <1>14 DEF BroadcastDone, UnlockShared, Goto
<1>15. ASSUME NEW w \in Workers, GracefulCheck(w) PROVE Kept
  BY <1>0, <1>15 DEF GracefulCheck, ReturnTo, Goto
<1>16. ASSUME NEW w \in Workers, GracefulHook(w) PROVE Kept
  BY <1>0, <1>16 DEF GracefulHook, Call, Goto
<1>17. ASSUME NEW w \in Workers, GracefulSchedule(w) PROVE Kept
  BY <1>0, <1>17 DEF GracefulSchedule, ReturnTo, Call, Goto
<1>18. ASSUME NEW w \in Workers, NEW s \in Sessions, TimerForces(w, s) PROVE OwnersOK'
  BY <1>0, <1>18 DEF TimerForces, WorkReady, Call, Goto, OwnersOK,
     UnstartedOK
<1>19. ASSUME NEW w \in Workers, NEW s \in Sessions, TimerFindsDisconnected(w, s) PROVE Kept
  BY <1>0, <1>19 DEF TimerFindsDisconnected, WorkReady
<1>20. ASSUME NEW w \in Workers, HeartbeatStart(w) PROVE Kept
  BY <1>0, <1>20 DEF HeartbeatStart, WorkReady, LockShared, Goto
<1>21. ASSUME NEW w \in Workers, HeartbeatScan(w) PROVE Kept
  BY <1>0, <1>21 DEF HeartbeatScan
<1>22. ASSUME NEW w \in Workers, HeartbeatUnlock(w) PROVE Kept
  BY <1>0, <1>22 DEF HeartbeatUnlock, UnlockShared, Goto
<1>23. ASSUME NEW w \in Workers, HeartbeatFind(w) PROVE Kept
  BY <1>0, <1>23 DEF HeartbeatFind, Call, Goto
<1>24. ASSUME NEW w \in Workers, HeartbeatClose(w) PROVE Kept
  BY <1>0, <1>24 DEF HeartbeatClose, ReturnTo, Goto
<1>25. ASSUME NEW w \in Workers, HeartbeatDone(w) PROVE Kept
  BY <1>0, <1>25 DEF HeartbeatDone, Goto
<1>26. ASSUME StopBegins PROVE Kept
  BY <1>0, <1>26 DEF StopBegins, LockShared, Goto
<1>27. ASSUME DisconnectNext PROVE Kept
  BY <1>0, <1>27 DEF DisconnectNext, Call, Goto
<1>28. ASSUME DisconnectAllDone PROVE Kept
  BY <1>0, <1>28 DEF DisconnectAllDone, UnlockShared, Goto
<1>29. ASSUME StopIo PROVE Kept
  BY <1>0, <1>29 DEF StopIo, Goto
<1>30. ASSUME JoinIoStopPool PROVE Kept
  BY <1>0, <1>30 DEF JoinIoStopPool, Goto
<1>31. ASSUME JoinPool PROVE Kept
  BY <1>0, <1>31 DEF JoinPool, Goto
<1> QED
  BY <1>a, <1>1, <1>2, <1>3, <1>4, <1>5, <1>6, <1>7, <1>8, <1>9, <1>10,
     <1>11, <1>12, <1>13, <1>14, <1>15, <1>16, <1>17, <1>18, <1>19, <1>20,
     <1>21, <1>22, <1>23, <1>24, <1>25, <1>26, <1>27, <1>28, <1>29, <1>30,
     <1>31 DEF Next, IoNext, WorkerNext, MainNext

\* No step leaves a registered session without its reader.
LEMMA ReaderInductive == ASSUME IInv, Next PROVE RegisteredHasReader'
<1> DEFINE Kept == /\ UNCHANGED sessions
                   /\ \A r \in Sessions : read'[r] = "none" => read[r] = "none"
                   /\ pc'[IO] = pc[IO] /\ subject'[IO] = subject[IO]
<1> USE DEF TypeOK, ManagerTypeOK, SessionTypeOK, ThreadTypeOK, PoolTypeOK, WriteStates,
           ControlOK, IoLabels, WorkerLabels, MainLabels, Owning, Forcing
<1>0. TypeOK /\ ControlOK /\ RegisteredHasReader /\ IdsOK
  BY DEF IInv
<1>a. ASSUME Kept PROVE RegisteredHasReader'
  BY <1>0, <1>a DEF RegisteredHasReader
<1>1. ASSUME NEW s \in Sessions, PeerCloses(s) PROVE Kept
  BY <1>0, <1>1 DEF PeerCloses
<1>2. ASSUME NEW s \in Sessions, Accept(s) PROVE RegisteredHasReader'
  BY <1>0, <1>2 DEF Accept, IoReady, Call, Goto, RegisteredHasReader, IdsOK,
     RegistryFaithful, Registered
<1>3. ASSUME Add PROVE RegisteredHasReader'
  BY <1>0, <1>3 DEF Add, LockIsFree, Goto, RegisteredHasReader, IdsOK,
     RegistryFaithful, Registered
<1>4. ASSUME FinishStart PROVE RegisteredHasReader'
  BY <1>0, <1>4 DEF FinishStart, DoRead, ReturnTo, Goto,
     RegisteredHasReader, IdsOK, RegistryFaithful, Registered
<1>5. ASSUME NEW s \in Sessions, ReadData(s) PROVE Kept
  BY <1>0, <1>5 DEF ReadData, IoReady, DoRead
<1>6. ASSUME NEW s \in Sessions, ReadFails(s) PROVE RegisteredHasReader'
  BY <1>0, <1>6 DEF ReadFails, IoReady, Call, Goto, RegisteredHasReader,
     IdsOK, RegistryFaithful, Registered
<1>7. ASSUME NEW s \in Sessions, WriteCompletes(s) PROVE Kept
  BY <1>0, <1>7 DEF WriteCompletes, IoReady
<1>8. ASSUME NEW s \in Sessions, WriteFails(s) PROVE RegisteredHasReader'
  BY <1>0, <1>8 DEF WriteFails, IoReady, Call, Goto, RegisteredHasReader,
     IdsOK, RegistryFaithful, Registered
<1>9. ASSUME NEW t \in Threads, RemoveAndReport(t) PROVE RegisteredHasReader'
  BY <1>0, <1>9 DEF RemoveAndReport, Removing, RemovePath, LockIsFree,
     Restrict, ReturnTo, Goto, RegisteredHasReader, IdsOK, RegistryFaithful,
     Registered
<1>10. ASSUME NEW t \in Threads, ForceExchange(t) PROVE Kept
  BY <1>0, <1>10 DEF ForceExchange, ReturnTo, Goto
<1>11. ASSUME NEW t \in Threads, ForceClose(t) PROVE Kept
  BY <1>0, <1>11, CloseSocketEffect DEF ForceClose, Goto
<1>12. ASSUME NEW w \in Workers, NEW s \in Sessions, RunPacketTask(w, s) PROVE Kept
  BY <1>0, <1>12 DEF RunPacketTask, WorkReady, Call, LockShared, Goto
<1>13. ASSUME NEW w \in Workers, BroadcastNext(w) PROVE Kept
  BY <1>0, <1>13 DEF BroadcastNext
<1>14. ASSUME NEW w \in Workers, BroadcastDone(w) PROVE Kept
  BY <1>0, <1>14 DEF BroadcastDone, UnlockShared, Goto
<1>15. ASSUME NEW w \in Workers, GracefulCheck(w) PROVE Kept
  BY <1>0, <1>15 DEF GracefulCheck, ReturnTo, Goto
<1>16. ASSUME NEW w \in Workers, GracefulHook(w) PROVE Kept
  BY <1>0, <1>16 DEF GracefulHook, Call, Goto
<1>17. ASSUME NEW w \in Workers, GracefulSchedule(w) PROVE Kept
  BY <1>0, <1>17 DEF GracefulSchedule, ReturnTo, Call, Goto
<1>18. ASSUME NEW w \in Workers, NEW s \in Sessions, TimerForces(w, s) PROVE Kept
  BY <1>0, <1>18 DEF TimerForces, WorkReady, Call, Goto
<1>19. ASSUME NEW w \in Workers, NEW s \in Sessions, TimerFindsDisconnected(w, s) PROVE Kept
  BY <1>0, <1>19 DEF TimerFindsDisconnected, WorkReady
<1>20. ASSUME NEW w \in Workers, HeartbeatStart(w) PROVE Kept
  BY <1>0, <1>20 DEF HeartbeatStart, WorkReady, LockShared, Goto
<1>21. ASSUME NEW w \in Workers, HeartbeatScan(w) PROVE Kept
  BY <1>0, <1>21 DEF HeartbeatScan
<1>22. ASSUME NEW w \in Workers, HeartbeatUnlock(w) PROVE Kept
  BY <1>0, <1>22 DEF HeartbeatUnlock, UnlockShared, Goto
<1>23. ASSUME NEW w \in Workers, HeartbeatFind(w) PROVE Kept
  BY <1>0, <1>23 DEF HeartbeatFind, Call, Goto
<1>24. ASSUME NEW w \in Workers, HeartbeatClose(w) PROVE Kept
  BY <1>0, <1>24, CloseSocketEffect DEF HeartbeatClose, ReturnTo, Goto
<1>25. ASSUME NEW w \in Workers, HeartbeatDone(w) PROVE Kept
  BY <1>0, <1>25 DEF HeartbeatDone, Goto
<1>26. ASSUME StopBegins PROVE Kept
  BY <1>0, <1>26 DEF StopBegins, LockShared, Goto
<1>27. ASSUME DisconnectNext PROVE Kept
  BY <1>0, <1>27 DEF DisconnectNext, Call, Goto
<1>28. ASSUME DisconnectAllDone PROVE Kept
  BY <1>0, <1>28 DEF DisconnectAllDone, UnlockShared, Goto
<1>29. ASSUME StopIo PROVE Kept
  BY <1>0, <1>29 DEF StopIo, Goto
<1>30. ASSUME JoinIoStopPool PROVE Kept
  BY <1>0, <1>30 DEF JoinIoStopPool, Goto
<1>31. ASSUME JoinPool PROVE Kept
  BY <1>0, <1>31 DEF JoinPool, Goto
<1> QED
  BY <1>a, <1>1, <1>2, <1>3, <1>4, <1>5, <1>6, <1>7, <1>8, <1>9, <1>10,
     <1>11, <1>12, <1>13, <1>14, <1>15, <1>16, <1>17, <1>18, <1>19, <1>20,
     <1>21, <1>22, <1>23, <1>24, <1>25, <1>26, <1>27, <1>28, <1>29, <1>30,
     <1>31 DEF Next, IoNext, WorkerNext, MainNext

\* No step erases or displaces the entry of a session that is alive.
LEMMA LiveInductive == ASSUME IInv, Next PROVE LiveSessionRegistered'
<1> DEFINE Kept == /\ UNCHANGED <<sessions, reports>>
                   /\ \A r \in Sessions : read[r] = "none" => read'[r] = "none"
<1> USE DEF TypeOK, ManagerTypeOK, SessionTypeOK, ThreadTypeOK, PoolTypeOK, WriteStates,
           ControlOK, IoLabels, WorkerLabels, MainLabels, Owning, Forcing
<1>0. TypeOK /\ ControlOK /\ LiveSessionRegistered /\ IdsOK /\ UnstartedOK
  BY DEF IInv
<1>a. ASSUME Kept PROVE LiveSessionRegistered'
  BY <1>0, <1>a DEF LiveSessionRegistered, Registered
<1>1. ASSUME NEW s \in Sessions, PeerCloses(s) PROVE Kept
  BY <1>0, <1>1 DEF PeerCloses
<1>2. ASSUME NEW s \in Sessions, Accept(s) PROVE Kept
  BY <1>0, <1>2 DEF Accept, IoReady, Call, Goto
<1>3. ASSUME Add PROVE LiveSessionRegistered'
  BY <1>0, <1>3 DEF Add, LiveSessionRegistered, Registered
<1>4. ASSUME FinishStart PROVE LiveSessionRegistered'
  <2>1. /\ UNCHANGED <<sessions, reports>>
        /\ \A r \in Sessions : r # subject[IO] => read'[r] = read[r]
    BY <1>0, <1>4 DEF FinishStart, DoRead
  <2>2. Registered(subject[IO])
    BY <1>0, <1>4 DEF FinishStart, IdsOK, Registered
  <2> HIDE DEF TypeOK, ManagerTypeOK, SessionTypeOK, ThreadTypeOK, PoolTypeOK,
              WriteStates, ControlOK
  <2> QED
    BY <1>0, <2>1, <2>2 DEF LiveSessionRegistered, Registered
<1>5. ASSUME NEW s \in Sessions, ReadData(s) PROVE Kept
  BY <1>0, <1>5 DEF ReadData, IoReady, DoRead
<1>6. ASSUME NEW s \in Sessions, ReadFails(s) PROVE Kept
  BY <1>0, <1>6 DEF ReadFails, IoReady, Call, Goto
<1>7. ASSUME NEW s \in Sessions, WriteCompletes(s) PROVE Kept
  BY <1>0, <1>7 DEF WriteCompletes, IoReady
<1>8. ASSUME NEW s \in Sessions, WriteFails(s) PROVE Kept
  BY <1>0, <1>8 DEF WriteFails, IoReady, Call, Goto
<1>9. ASSUME NEW t \in Threads, RemoveAndReport(t) PROVE LiveSessionRegistered'
  <2>1. subject[t] \in Sessions /\ UNCHANGED read
    BY <1>0, <1>9 DEF RemoveAndReport, Removing, RemovePath
  <2>2. \E p \in Paths : reports'[subject[t]][p] # 0
    BY <1>0, <2>1, <1>9 DEF RemoveAndReport, Removing, RemovePath, Paths
  <2>3. \A r \in Sessions : r # subject[t] => reports'[r] = reports[r]
    BY <1>0, <2>1, <1>9 DEF RemoveAndReport
  <2>4. \A i \in DOMAIN sessions : i # sessionId[subject[t]] =>
           i \in DOMAIN sessions' /\ sessions'[i] = sessions[i]
    BY <1>9 DEF RemoveAndReport, Restrict
  <2>5. ASSUME NEW r \in Sessions, r # subject[t], read[r] # "none", Registered(r)
        PROVE  Registered(r)'
    <3>1. PICK i \in DOMAIN sessions : sessions[i] = r
      BY <2>5 DEF Registered
    <3>2. sessionId[r] # 0
      BY <1>0, <2>5 DEF UnstartedOK
    <3>3. sessionId[r] = i
      BY <1>0, <3>1, <3>2 DEF IdsOK, RegistryFaithful
    <3>4. i # sessionId[subject[t]]
      BY <1>0, <2>1, <2>5, <3>2, <3>3 DEF IdsOK
    <3> QED
      BY <2>4, <3>1, <3>4 DEF Registered
  <2> QED
    BY <1>0, <2>1, <2>2, <2>3, <2>5 DEF LiveSessionRegistered
<1>10. ASSUME NEW t \in Threads, ForceExchange(t) PROVE Kept
  BY <1>0, <1>10 DEF ForceExchange, ReturnTo, Goto
<1>11. ASSUME NEW t \in Threads, ForceClose(t) PROVE Kept
  BY <1>0, <1>11, CloseSocketEffect DEF ForceClose, Goto
<1>12. ASSUME NEW w \in Workers, NEW s \in Sessions, RunPacketTask(w, s) PROVE Kept
  BY <1>0, <1>12 DEF RunPacketTask, WorkReady, Call, LockShared, Goto
<1>13. ASSUME NEW w \in Workers, BroadcastNext(w) PROVE Kept
  BY <1>0, <1>13 DEF BroadcastNext
<1>14. ASSUME NEW w \in Workers, BroadcastDone(w) PROVE Kept
  BY <1>0, <1>14 DEF BroadcastDone, UnlockShared, Goto
<1>15. ASSUME NEW w \in Workers, GracefulCheck(w) PROVE Kept
  BY <1>0, <1>15 DEF GracefulCheck, ReturnTo, Goto
<1>16. ASSUME NEW w \in Workers, GracefulHook(w) PROVE Kept
  BY <1>0, <1>16 DEF GracefulHook, Call, Goto
<1>17. ASSUME NEW w \in Workers, GracefulSchedule(w) PROVE Kept
  BY <1>0, <1>17 DEF GracefulSchedule, ReturnTo, Call, Goto
<1>18. ASSUME NEW w \in Workers, NEW s \in Sessions, TimerForces(w, s) PROVE Kept
  BY <1>0, <1>18 DEF TimerForces, WorkReady, Call, Goto
<1>19. ASSUME NEW w \in Workers, NEW s \in Sessions, TimerFindsDisconnected(w, s) PROVE Kept
  BY <1>0, <1>19 DEF TimerFindsDisconnected, WorkReady
<1>20. ASSUME NEW w \in Workers, HeartbeatStart(w) PROVE Kept
  BY <1>0, <1>20 DEF HeartbeatStart, WorkReady, LockShared, Goto
<1>21. ASSUME NEW w \in Workers, HeartbeatScan(w) PROVE Kept
  BY <1>0, <1>21 DEF HeartbeatScan
<1>22. ASSUME NEW w \in Workers, HeartbeatUnlock(w) PROVE Kept
  BY <1>0, <1>22 DEF HeartbeatUnlock, UnlockShared, Goto
<1>23. ASSUME NEW w \in Workers, HeartbeatFind(w) PROVE Kept
  BY <1>0, <1>23 DEF HeartbeatFind, Call, Goto
<1>24. ASSUME NEW w \in Workers, HeartbeatClose(w) PROVE Kept
  BY <1>0, <1>24, CloseSocketEffect DEF HeartbeatClose, ReturnTo, Goto
<1>25. ASSUME NEW w \in Workers, HeartbeatDone(w) PROVE Kept
  BY <1>0, <1>25 DEF HeartbeatDone, Goto
<1>26. ASSUME StopBegins PROVE Kept
  BY <1>0, <1>26 DEF StopBegins, LockShared, Goto
<1>27. ASSUME DisconnectNext PROVE Kept
  BY <1>0, <1>27 DEF DisconnectNext, Call, Goto
<1>28. ASSUME DisconnectAllDone PROVE Kept
  BY <1>0, <1>28 DEF DisconnectAllDone, UnlockShared, Goto
<1>29. ASSUME StopIo PROVE Kept
  BY <1>0, <1>29 DEF StopIo, Goto
<1>30. ASSUME JoinIoStopPool PROVE Kept
  BY <1>0, <1>30 DEF JoinIoStopPool, Goto
<1>31. ASSUME JoinPool PROVE Kept
  BY <1>0, <1>31 DEF JoinPool, Goto
<1> QED
  BY <1>a, <1>1, <1>2, <1>3, <1>4, <1>5, <1>6, <1>7, <1>8, <1>9, <1>10,
     <1>11, <1>12, <1>13, <1>14, <1>15, <1>16, <1>17, <1>18, <1>19, <1>20,
     <1>21, <1>22, <1>23, <1>24, <1>25, <1>26, <1>27, <1>28, <1>29, <1>30,
     <1>31 DEF Next, IoNext, WorkerNext, MainNext

\* No step lets a read loop report its end twice.
LEMMA ReadReportInductive == ASSUME IInv, Next PROVE ReadReportOK'
<1> DEFINE Kept == /\ \A r \in Sessions :
                         /\ read'[r] = "none" <=> read[r] = "none"
                         /\ reports'[r]["read"] = reports[r]["read"]
                   /\ pc'[IO] = "removeRead" =>
                         pc[IO] = "removeRead" /\ subject'[IO] = subject[IO]
<1> USE DEF TypeOK, ManagerTypeOK, SessionTypeOK, ThreadTypeOK, PoolTypeOK, WriteStates,
           ControlOK, IoLabels, WorkerLabels, MainLabels, Owning, Forcing
<1>0. TypeOK /\ ControlOK /\ ReadReportOK /\ IdsOK /\ UnstartedOK
  BY DEF IInv
<1>a. ASSUME Kept PROVE ReadReportOK'
  BY <1>0, <1>a DEF ReadReportOK
<1>1. ASSUME NEW s \in Sessions, PeerCloses(s) PROVE Kept
  BY <1>0, <1>1 DEF PeerCloses
<1>2. ASSUME NEW s \in Sessions, Accept(s) PROVE Kept
  BY <1>0, <1>2 DEF Accept, IoReady, Call, Goto
<1>3. ASSUME Add PROVE Kept
  BY <1>0, <1>3 DEF Add, LockIsFree, Goto
<1>4. ASSUME FinishStart PROVE ReadReportOK'
  BY <1>0, <1>4 DEF FinishStart, DoRead, ReturnTo, Goto, ReadReportOK,
     IdsOK, UnstartedOK
<1>5. ASSUME NEW s \in Sessions, ReadData(s) PROVE Kept
  BY <1>0, <1>5 DEF ReadData, IoReady, DoRead
<1>6. ASSUME NEW s \in Sessions, ReadFails(s) PROVE ReadReportOK'
  BY <1>0, <1>6 DEF ReadFails, IoReady, Call, Goto, ReadReportOK, IdsOK,
     UnstartedOK
<1>7. ASSUME NEW s \in Sessions, WriteCompletes(s) PROVE Kept
  BY <1>0, <1>7 DEF WriteCompletes, IoReady
<1>8. ASSUME NEW s \in Sessions, WriteFails(s) PROVE Kept
  BY <1>0, <1>8 DEF WriteFails, IoReady, Call, Goto
<1>9. ASSUME NEW t \in Threads, RemoveAndReport(t) PROVE ReadReportOK'
  <2>1. subject[t] \in Sessions /\ UNCHANGED read
    BY <1>0, <1>9 DEF RemoveAndReport, Removing, RemovePath
  <2>2. \A r \in Sessions : r # subject[t] => reports'[r] = reports[r]
    BY <1>0, <2>1, <1>9 DEF RemoveAndReport
  <2>3. pc[t] # "removeRead" => reports'[subject[t]]["read"] = reports[subject[t]]["read"]
    BY <1>0, <2>1, <1>9 DEF RemoveAndReport, Removing, RemovePath
  <2>4. pc[t] = "removeRead" => t = IO /\ read[subject[t]] = "none"
    BY <1>0, <1>9 DEF ReadReportOK
  <2>5. pc'[IO] = "removeRead" =>
           pc[IO] = "removeRead" /\ subject'[IO] = subject[IO] /\ t # IO
    BY <1>0, <1>9 DEF RemoveAndReport, Removing, RemovePath, ReturnTo, Goto
  <2>6. t # IO => pc[t] # "removeRead"
    BY <1>0
  <2> HIDE DEF TypeOK, ManagerTypeOK, SessionTypeOK, ThreadTypeOK, PoolTypeOK,
              WriteStates, ControlOK
  <2>7. \A r \in Sessions : read'[r] # "none" => reports'[r]["read"] = 0
    BY <1>0, <2>1, <2>2, <2>3, <2>4 DEF ReadReportOK
  <2>8. pc'[IO] = "removeRead" =>
           read'[subject'[IO]] = "none" /\ reports'[subject'[IO]]["read"] = 0
    <3> SUFFICES ASSUME pc'[IO] = "removeRead"
                 PROVE  read'[subject[IO]] = "none" /\ reports'[subject[IO]]["read"] = 0
      BY <2>5
    <3>1. read[subject[IO]] = "none" /\ reports[subject[IO]]["read"] = 0
      BY <1>0, <2>5 DEF ReadReportOK
    <3>2. CASE subject[IO] = subject[t]
      BY <2>1, <2>3, <2>5, <2>6, <3>1, <3>2
    <3>3. CASE subject[IO] # subject[t] /\ subject[IO] \in Sessions
      BY <2>1, <2>2, <3>1, <3>3
    <3>4. subject[IO] \in Sessions
      BY <1>0, <2>5 DEF ControlOK
    <3> QED
      BY <3>2, <3>3, <3>4
  <2> QED
    BY <2>7, <2>8 DEF ReadReportOK
<1>10. ASSUME NEW t \in Threads, ForceExchange(t) PROVE Kept
  BY <1>0, <1>10 DEF ForceExchange, ReturnTo, Goto
<1>11. ASSUME NEW t \in Threads, ForceClose(t) PROVE Kept
  BY <1>0, <1>11, CloseSocketEffect DEF ForceClose, Goto
<1>12. ASSUME NEW w \in Workers, NEW s \in Sessions, RunPacketTask(w, s) PROVE Kept
  BY <1>0, <1>12 DEF RunPacketTask, WorkReady, Call, LockShared, Goto
<1>13. ASSUME NEW w \in Workers, BroadcastNext(w) PROVE Kept
  BY <1>0, <1>13 DEF BroadcastNext
<1>14. ASSUME NEW w \in Workers, BroadcastDone(w) PROVE Kept
  BY <1>0, <1>14 DEF BroadcastDone, UnlockShared, Goto
<1>15. ASSUME NEW w \in Workers, GracefulCheck(w) PROVE Kept
  BY <1>0, <1>15 DEF GracefulCheck, ReturnTo, Goto
<1>16. ASSUME NEW w \in Workers, GracefulHook(w) PROVE Kept
  BY <1>0, <1>16 DEF GracefulHook, Call, Goto
<1>17. ASSUME NEW w \in Workers, GracefulSchedule(w) PROVE Kept
  BY <1>0, <1>17 DEF GracefulSchedule, ReturnTo, Call, Goto
<1>18. ASSUME NEW w \in Workers, NEW s \in Sessions, TimerForces(w, s) PROVE Kept
  BY <1>0, <1>18 DEF TimerForces, WorkReady, Call, Goto
<1>19. ASSUME NEW w \in Workers, NEW s \in Sessions, TimerFindsDisconnected(w, s) PROVE Kept
  BY <1>0, <1>19 DEF TimerFindsDisconnected, WorkReady
<1>20. ASSUME NEW w \in Workers, HeartbeatStart(w) PROVE Kept
  BY <1>0, <1>20 DEF HeartbeatStart, WorkReady, LockShared, Goto
<1>21. ASSUME NEW w \in Workers, HeartbeatScan(w) PROVE Kept
  BY <1>0, <1>21 DEF HeartbeatScan
<1>22. ASSUME NEW w \in Workers, HeartbeatUnlock(w) PROVE Kept
  BY <1>0, <1>22 DEF HeartbeatUnlock, UnlockShared, Goto
<1>23. ASSUME NEW w \in Workers, HeartbeatFind(w) PROVE Kept
  BY <1>0, <1>23 DEF HeartbeatFind, Call, Goto
<1>24. ASSUME NEW w \in Workers, HeartbeatClose(w) PROVE Kept
  BY <1>0, <1>24, CloseSocketEffect DEF HeartbeatClose, ReturnTo, Goto
<1>25. ASSUME NEW w \in Workers, HeartbeatDone(w) PROVE Kept
  BY <1>0, <1>25 DEF HeartbeatDone, Goto
<1>26. ASSUME StopBegins PROVE Kept
  BY <1>0, <1>26 DEF StopBegins, LockShared, Goto
<1>27. ASSUME DisconnectNext PROVE Kept
  BY <1>0, <1>27 DEF DisconnectNext, Call, Goto
<1>28. ASSUME DisconnectAllDone PROVE Kept
  BY <1>0, <1>28 DEF DisconnectAllDone, UnlockShared, Goto
<1>29. ASSUME StopIo PROVE Kept
  BY <1>0, <1>29 DEF StopIo, Goto
<1>30. ASSUME JoinIoStopPool PROVE Kept
  BY <1>0, <1>30 DEF JoinIoStopPool, Goto
<1>31. ASSUME JoinPool PROVE Kept
  BY <1>0, <1>31 DEF JoinPool, Goto
<1> QED
  BY <1>a, <1>1, <1>2, <1>3, <1>4, <1>5, <1>6, <1>7, <1>8, <1>9, <1>10,
     <1>11, <1>12, <1>13, <1>14, <1>15, <1>16, <1>17, <1>18, <1>19, <1>20,
     <1>21, <1>22, <1>23, <1>24, <1>25, <1>26, <1>27, <1>28, <1>29, <1>30,
     <1>31 DEF Next, IoNext, WorkerNext, MainNext

\* No step lets a forced disconnect be reported twice.
LEMMA ForceReportInductive == ASSUME IInv, Next PROVE ForceReportOK'
<1> DEFINE Kept == /\ UNCHANGED disconnected
                   /\ \A r \in Sessions : reports'[r]["force"] = reports[r]["force"]
                   /\ \A u \in Threads : Closing(u)' => Closing(u) /\ subject'[u] = subject[u]
<1> USE DEF Closing, TypeOK, ManagerTypeOK, SessionTypeOK, ThreadTypeOK, PoolTypeOK, WriteStates,
           ControlOK, IoLabels, WorkerLabels, MainLabels, Owning, Forcing
<1>0. TypeOK /\ ControlOK /\ ForceReportOK
  BY DEF IInv
<1>a. ASSUME Kept PROVE ForceReportOK'
  BY <1>0, <1>a DEF ForceReportOK
<1>1. ASSUME NEW s \in Sessions, PeerCloses(s) PROVE Kept
  BY <1>0, <1>1 DEF PeerCloses
<1>2. ASSUME NEW s \in Sessions, Accept(s) PROVE Kept
  BY <1>0, <1>2 DEF Accept, IoReady, Call, Goto
<1>3. ASSUME Add PROVE Kept
  BY <1>0, <1>3 DEF Add, LockIsFree, Goto
<1>4. ASSUME FinishStart PROVE Kept
  BY <1>0, <1>4 DEF FinishStart, DoRead, ReturnTo, Goto
<1>5. ASSUME NEW s \in Sessions, ReadData(s) PROVE Kept
  BY <1>0, <1>5 DEF ReadData, IoReady, DoRead
<1>6. ASSUME NEW s \in Sessions, ReadFails(s) PROVE Kept
  BY <1>0, <1>6 DEF ReadFails, IoReady, Call, Goto
<1>7. ASSUME NEW s \in Sessions, WriteCompletes(s) PROVE Kept
  BY <1>0, <1>7 DEF WriteCompletes, IoReady
<1>8. ASSUME NEW s \in Sessions, WriteFails(s) PROVE Kept
  BY <1>0, <1>8 DEF WriteFails, IoReady, Call, Goto
<1>9. ASSUME NEW t \in Threads, RemoveAndReport(t) PROVE ForceReportOK'
  <2>1. subject[t] \in Sessions /\ pc[t] \in {"removeRead", "removeWrite", "removeForce"}
    BY <1>0, <1>9 DEF RemoveAndReport, Removing, RemovePath
  <2>2. /\ ~Closing(t)'
        /\ \A u \in Threads : u # t => (Closing(u)' <=> Closing(u)) /\ subject'[u] = subject[u]
    <3>1. ReturnTo(t, ret[t]) /\ ret[t] \in {"idle", "schedule", "disconnectAll"}
      BY <1>0, <1>9 DEF RemoveAndReport
    <3> QED
      BY <1>0, <3>1, ReturnEffect
  <2>3. disconnected' = disconnected
    BY <1>9 DEF RemoveAndReport
  <2>4. reports' = [reports EXCEPT ![subject[t]][RemovePath[pc[t]]] = @ + 1]
    BY <1>9 DEF RemoveAndReport
  <2>5. \A r \in Sessions : r # subject[t] => reports'[r] = reports[r]
    BY <1>0, <2>1, <2>4
  <2>6. CASE pc[t] = "removeForce"
    <3>1. disconnected[subject[t]]
      BY <1>0, <2>6 DEF ForceReportOK
    <3>2. \A u \in Threads : u # t /\ Closing(u) => subject[u] \in Sessions /\ subject[u] # subject[t]
      BY <1>0, <2>6 DEF ForceReportOK
    <3>3. \A s \in Sessions : reports'[s]["force"] # 0 => disconnected'[s]
      BY <1>0, <2>3, <2>5, <3>1 DEF ForceReportOK
    <3>4. \A u \in Threads :
             Closing(u)' => disconnected'[subject'[u]] /\ reports'[subject'[u]]["force"] = 0
      <4> SUFFICES ASSUME NEW u \in Threads, Closing(u)'
                   PROVE  disconnected'[subject'[u]] /\ reports'[subject'[u]]["force"] = 0
        OBVIOUS
      <4>1. u # t /\ Closing(u) /\ subject'[u] = subject[u]
        BY <2>2
      <4> QED
        BY <1>0, <2>3, <2>5, <3>2, <4>1 DEF ForceReportOK
    <3>5. \A u, v \in Threads :
             Closing(u)' /\ Closing(v)' /\ subject'[u] = subject'[v] => u = v
      BY <1>0, <2>2 DEF ForceReportOK
    <3> QED
      BY <3>3, <3>4, <3>5 DEF ForceReportOK
  <2>7. CASE pc[t] # "removeForce"
    <3>1. RemovePath[pc[t]] \in {"read", "write"}
      BY <2>1, <2>7 DEF RemovePath
    <3>2. reports'[subject[t]]["force"] = reports[subject[t]]["force"]
      BY <1>0, <2>1, <2>4, <3>1
    <3>3. \A s \in Sessions : reports'[s]["force"] = reports[s]["force"]
      BY <2>5, <3>2
    <3>4. \A u \in Threads :
             Closing(u)' => disconnected'[subject'[u]] /\ reports'[subject'[u]]["force"] = 0
      <4> SUFFICES ASSUME NEW u \in Threads, Closing(u)'
                   PROVE  disconnected'[subject'[u]] /\ reports'[subject'[u]]["force"] = 0
        OBVIOUS
      <4>1. u # t /\ Closing(u) /\ subject'[u] = subject[u]
        BY <2>2
      <4>2. subject[u] \in Sessions
        BY <1>0, <4>1
      <4> QED
        BY <1>0, <2>3, <3>3, <4>1, <4>2 DEF ForceReportOK
    <3>5. \A u, v \in Threads :
             Closing(u)' /\ Closing(v)' /\ subject'[u] = subject'[v] => u = v
      BY <1>0, <2>2 DEF ForceReportOK
    <3>6. \A s \in Sessions : reports'[s]["force"] # 0 => disconnected'[s]
      BY <1>0, <2>3, <3>3 DEF ForceReportOK
    <3> QED
      BY <3>4, <3>5, <3>6 DEF ForceReportOK
  <2> QED
    BY <2>6, <2>7
<1>10. ASSUME NEW t \in Threads, ForceExchange(t) PROVE ForceReportOK'
  <2>1. subject[t] \in Sessions /\ UNCHANGED reports
    BY <1>0, <1>10 DEF ForceExchange
  <2>2. CASE disconnected[subject[t]]
    <3>1. UNCHANGED disconnected
      BY <1>0, <1>10, <2>1, <2>2 DEF ForceExchange
    <3>2. \A u \in Threads : Closing(u)' => Closing(u) /\ subject'[u] = subject[u]
      BY <1>0, <1>10, <2>2 DEF ForceExchange, ReturnTo, Goto
    <3> QED
      BY <1>a, <2>1, <3>1, <3>2
  <2>3. CASE ~disconnected[subject[t]]
    <3>a. UNCHANGED subject
      BY <1>10, <2>3 DEF ForceExchange
    <3>b. disconnected' = [disconnected EXCEPT ![subject[t]] = TRUE]
      BY <1>10 DEF ForceExchange
    <3>c. disconnected \in [Sessions -> BOOLEAN]
      BY <1>0
    <3>1. /\ \A r \in Sessions : disconnected'[r] = (disconnected[r] \/ r = subject[t])
          /\ UNCHANGED subject
      BY <2>1, <3>a, <3>b, <3>c
    <3>2. \A u \in Threads : Closing(u)' => Closing(u) \/ u = t
      BY <1>0, <1>10, <2>3 DEF ForceExchange, Goto
    <3>3. /\ reports[subject[t]]["force"] = 0
          /\ \A u \in Threads : Closing(u) => subject[u] # subject[t]
      BY <1>0, <2>1, <2>3 DEF ForceReportOK
    <3>4. \A r \in Sessions : reports'[r]["force"] # 0 => disconnected'[r]
      BY <1>0, <2>1, <3>1 DEF ForceReportOK
    <3>5. \A u \in Threads : Closing(u)' =>
             disconnected'[subject'[u]] /\ reports'[subject'[u]]["force"] = 0
      <4> SUFFICES ASSUME NEW u \in Threads, Closing(u)'
                   PROVE  /\ disconnected'[subject[u]]
                          /\ reports[subject[u]]["force"] = 0
        BY <2>1, <3>1
      <4>1. CASE u = t
        BY <2>1, <3>1, <3>3, <4>1
      <4>2. CASE Closing(u)
        <5>1. disconnected[subject[u]] /\ reports[subject[u]]["force"] = 0
          BY <1>0, <4>2 DEF ForceReportOK
        <5>2. subject[u] \in Sessions
          BY <1>0, <4>2
        <5> QED
          BY <3>1, <5>1, <5>2
      <4> QED
        BY <3>2, <4>1, <4>2
    <3>6. \A u, v \in Threads :
             Closing(u)' /\ Closing(v)' /\ subject'[u] = subject'[v] => u = v
      BY <1>0, <2>1, <3>1, <3>2, <3>3 DEF ForceReportOK
    <3> QED
      BY <3>4, <3>5, <3>6 DEF ForceReportOK
  <2> QED
    BY <2>2, <2>3
<1>11. ASSUME NEW t \in Threads, ForceClose(t) PROVE Kept
  BY <1>0, <1>11 DEF ForceClose, Goto
<1>12. ASSUME NEW w \in Workers, NEW s \in Sessions, RunPacketTask(w, s) PROVE Kept
  BY <1>0, <1>12 DEF RunPacketTask, WorkReady, Call, LockShared, Goto
<1>13. ASSUME NEW w \in Workers, BroadcastNext(w) PROVE Kept
  BY <1>0, <1>13 DEF BroadcastNext
<1>14. ASSUME NEW w \in Workers, BroadcastDone(w) PROVE Kept
  BY <1>0, <1>14 DEF BroadcastDone, UnlockShared, Goto
<1>15. ASSUME NEW w \in Workers, GracefulCheck(w) PROVE Kept
  BY <1>0, <1>15 DEF GracefulCheck, ReturnTo, Goto
<1>16. ASSUME NEW w \in Workers, GracefulHook(w) PROVE Kept
  BY <1>0, <1>16 DEF GracefulHook, Call, Goto
<1>17. ASSUME NEW w \in Workers, GracefulSchedule(w) PROVE Kept
  BY <1>0, <1>17 DEF GracefulSchedule, ReturnTo, Call, Goto
<1>18. ASSUME NEW w \in Workers, NEW s \in Sessions, TimerForces(w, s) PROVE Kept
  BY <1>0, <1>18 DEF TimerForces, WorkReady, Call, Goto
<1>19. ASSUME NEW w \in Workers, NEW s \in Sessions, TimerFindsDisconnected(w, s) PROVE Kept
  BY <1>0, <1>19 DEF TimerFindsDisconnected, WorkReady
<1>20. ASSUME NEW w \in Workers, HeartbeatStart(w) PROVE Kept
  BY <1>0, <1>20 DEF HeartbeatStart, WorkReady, LockShared, Goto
<1>21. ASSUME NEW w \in Workers, HeartbeatScan(w) PROVE Kept
  BY <1>0, <1>21 DEF HeartbeatScan
<1>22. ASSUME NEW w \in Workers, HeartbeatUnlock(w) PROVE Kept
  BY <1>0, <1>22 DEF HeartbeatUnlock, UnlockShared, Goto
<1>23. ASSUME NEW w \in Workers, HeartbeatFind(w) PROVE Kept
  BY <1>0, <1>23 DEF HeartbeatFind, Call, Goto
<1>24. ASSUME NEW w \in Workers, HeartbeatClose(w) PROVE Kept
  BY <1>0, <1>24 DEF HeartbeatClose, ReturnTo, Goto
<1>25. ASSUME NEW w \in Workers, HeartbeatDone(w) PROVE Kept
  BY <1>0, <1>25 DEF HeartbeatDone, Goto
<1>26. ASSUME StopBegins PROVE Kept
  BY <1>0, <1>26 DEF StopBegins, LockShared, Goto
<1>27. ASSUME DisconnectNext PROVE Kept
  BY <1>0, <1>27 DEF DisconnectNext, Call, Goto
<1>28. ASSUME DisconnectAllDone PROVE Kept
  BY <1>0, <1>28 DEF DisconnectAllDone, UnlockShared, Goto
<1>29. ASSUME StopIo PROVE Kept
  BY <1>0, <1>29 DEF StopIo, Goto
<1>30. ASSUME JoinIoStopPool PROVE Kept
  BY <1>0, <1>30 DEF JoinIoStopPool, Goto
<1>31. ASSUME JoinPool PROVE Kept
  BY <1>0, <1>31 DEF JoinPool, Goto
<1> QED
  BY <1>a, <1>1, <1>2, <1>3, <1>4, <1>5, <1>6, <1>7, <1>8, <1>9, <1>10,
     <1>11, <1>12, <1>13, <1>14, <1>15, <1>16, <1>17, <1>18, <1>19, <1>20,
     <1>21, <1>22, <1>23, <1>24, <1>25, <1>26, <1>27, <1>28, <1>29, <1>30,
     <1>31 DEF Next, IoNext, WorkerNext, MainNext

------------------------------------------------------------------------------
(* The theorems.                                                           *)

\* The invariant holds when the process starts.
LEMMA InitInvariant == Init => IInv
<1> SUFFICES ASSUME Init PROVE IInv
  OBVIOUS
<1> USE DEF Init
<1>1. ThreadTypeOK /\ PoolTypeOK
  BY DEF PoolTypeOK, ThreadTypeOK
<1>6. SessionTypeOK
  BY DEF SessionTypeOK, WriteStates
<1>7. ManagerTypeOK
  <2>1. DOMAIN sessions = {}
    OBVIOUS
  <2> QED
    BY <2>1 DEF ManagerTypeOK
<1>2. ControlOK /\ LockOK
  BY DEF ControlOK, LockOK, IoLabels, MainLabels, WorkerLabels, Owning, Forcing, Looping
<1>3. IdsOK /\ UnacceptedOK /\ RegisteredHasReader
  BY DEF IdsOK, RegistryFaithful, UnacceptedOK, Registered, RegisteredHasReader
<1>4. UnstartedOK /\ UnwrittenOK /\ OwnersOK
  BY DEF UnstartedOK, UnwrittenOK, InFlight, OwnersOK, Owning, Forcing
<1>5. ReadReportOK /\ ForceReportOK /\ LiveSessionRegistered
  BY DEF ReadReportOK, ForceReportOK, Closing, LiveSessionRegistered
<1> QED
  BY <1>1, <1>2, <1>3, <1>4, <1>5, <1>6, <1>7 DEF IInv, TypeOK

\* A step that changes nothing keeps it.
LEMMA StutterInvariant == IInv /\ UNCHANGED vars => IInv'
<1> SUFFICES ASSUME IInv, UNCHANGED vars PROVE IInv'
  OBVIOUS
<1> USE DEF vars, threadVars, IInv
<1>1. TypeOK'
  BY DEF TypeOK, ManagerTypeOK, SessionTypeOK, PoolTypeOK, ThreadTypeOK
<1>2. ControlOK' /\ LockOK'
  BY DEF ControlOK, LockOK
<1>3. IdsOK' /\ UnacceptedOK' /\ RegisteredHasReader'
  BY DEF IdsOK, RegistryFaithful, UnacceptedOK, Registered, RegisteredHasReader
<1>4. UnstartedOK' /\ UnwrittenOK' /\ OwnersOK'
  BY DEF UnstartedOK, UnwrittenOK, InFlight, OwnersOK
<1>5. ReadReportOK' /\ ForceReportOK' /\ LiveSessionRegistered'
  BY DEF ReadReportOK, ForceReportOK, Closing, LiveSessionRegistered, Registered
<1> QED
  BY <1>1, <1>2, <1>3, <1>4, <1>5

\* The inductive invariant holds in every reachable state, for any number of
\* sessions and workers and whichever hooks, timers and stops are configured.
THEOREM Invariance == Spec => []IInv
<1>1. IInv /\ [Next]_vars => IInv'
  BY TypeInductive, ControlInductive, LockInductive, IdsInductive,
     UnstartedInductive, UnwrittenInductive, UnacceptedInductive, OwnersInductive,
     ReaderInductive, LiveInductive, ReadReportInductive, ForceReportInductive, StutterInvariant
     DEF IInv
<1> QED
  BY InitInvariant, <1>1, PTL DEF Spec

\* Every variable keeps its type.
THEOREM TypeCorrect == Spec => []TypeOK
<1>1. IInv => TypeOK
  BY DEF IInv
<1> QED
  BY Invariance, <1>1, PTL

\* The id under which a session is registered is the one with which it will
\* call SessionManager::Remove.
THEOREM RegistryIsFaithful == Spec => []RegistryFaithful
<1>1. IInv => RegistryFaithful
  BY DEF IInv, IdsOK
<1> QED
  BY Invariance, <1>1, PTL

\* A registered session always has an outstanding read, or a handler of one,
\* that will unregister it.
THEOREM NoOrphanedSession == Spec => []RegisteredHasReader
<1>1. IInv => RegisteredHasReader
  BY DEF IInv
<1> QED
  BY Invariance, <1>1, PTL

\* A session that reads and was not reported gone is in the registry, whatever
\* ids other sessions were given and have been removed by.
THEOREM NoLiveSessionLost == Spec => []LiveSessionRegistered
<1>1. IInv => LiveSessionRegistered
  BY DEF IInv
<1> QED
  BY Invariance, <1>1, PTL

\* No loop over SessionManager::_sessions meets an erased entry.
THEOREM NoInvalidIterator == Spec => []IteratorsValid
<1>1. IInv => IteratorsValid
  BY DEF IInv, LockOK, IteratorsValid, Looping
<1> QED
  BY Invariance, <1>1, PTL

------------------------------------------------------------------------------
(* Refinement of SessionContract.                                          *)

\* Each step registers a new session, or releases one with its report, or is
\* invisible to the application.
LEMMA ContractStep ==
  ASSUME IInv, Next
  PROVE  Contract!ContractNext \/ (Phase' = Phase /\ reports' = reports)
<1> DEFINE Kept == UNCHANGED <<sessions, sessionId, reports>>
<1>0. /\ TypeOK /\ ControlOK /\ LockOK /\ IdsOK /\ OwnersOK
      /\ ReadReportOK /\ ForceReportOK
  BY DEF IInv
<1>a. ASSUME Kept PROVE Phase' = Phase /\ reports' = reports
  BY <1>a DEF Phase, Registered
<1>1. ASSUME NEW s \in Sessions, PeerCloses(s) PROVE Kept
  BY <1>1 DEF PeerCloses
<1>2. ASSUME NEW s \in Sessions, Accept(s) PROVE Kept
  BY <1>2 DEF Accept
<1>3. ASSUME Add PROVE Contract!ContractNext
  <2>a. PICK s \in Sessions : s = subject[IO] /\ sessionId[s] = 0 /\ ~Registered(s)
    BY <1>0, <1>3 DEF Add, IdsOK, ControlOK, Owning
  <2>b. sessionIdGen \notin DOMAIN sessions
    BY <1>0 DEF IdsOK, TypeOK, ManagerTypeOK
  <2>1. /\ s = subject[IO] /\ sessionId[s] = 0 /\ ~Registered(s)
        /\ sessionIdGen \notin DOMAIN sessions
    BY <2>a, <2>b
  <2>2. /\ DOMAIN sessions' = DOMAIN sessions \union {sessionIdGen}
        /\ sessions'[sessionIdGen] = s
        /\ \A i \in DOMAIN sessions : sessions'[i] = sessions[i]
    BY <1>3, <2>1 DEF Add
  <2>3. UNCHANGED <<sessionId, reports>>
    BY <1>3 DEF Add
  <2>4. Registered(s)' /\ \A r \in Sessions : r # s => (Registered(r)' <=> Registered(r))
    <3>1. \A r \in Sessions : Registered(r) => Registered(r)'
      BY <2>2 DEF Registered
    <3>2. \A r \in Sessions : r # s /\ Registered(r)' => Registered(r)
      BY <2>2 DEF Registered
    <3>3. Registered(s)'
      BY <2>2 DEF Registered
    <3> QED
      BY <3>1, <3>2, <3>3
  <2>5. Phase' = [Phase EXCEPT ![s] = "registered"]
    <3>1. Phase'[s] = "registered"
      BY <2>1, <2>4 DEF Phase
    <3>2. \A r \in Sessions : r # s => Phase'[r] = Phase[r]
      BY <2>3, <2>4 DEF Phase
    <3> QED
      BY <2>1, <3>1, <3>2 DEF Phase
  <2>6. Phase[s] = "new"
    BY <2>1 DEF Phase
  <2> QED
    BY <2>1, <2>3, <2>5, <2>6 DEF Contract!ContractNext, Contract!Register
<1>4. ASSUME FinishStart PROVE Phase' = Phase /\ reports' = reports
  <2> DEFINE s == subject[IO]
  <2>1. s \in Sessions /\ Registered(s)
    BY <1>0, <1>4 DEF FinishStart, IdsOK, ControlOK, Owning, Registered
  <2>2. /\ UNCHANGED <<sessions, reports>>
        /\ \A r \in Sessions : r # s => sessionId'[r] = sessionId[r]
    BY <1>0, <1>4 DEF FinishStart, TypeOK, SessionTypeOK
  <2>3. \A r \in Sessions : Registered(r)' <=> Registered(r)
    BY <2>2 DEF Registered
  <2> QED
    BY <2>1, <2>2, <2>3 DEF Phase
<1>5. ASSUME NEW s \in Sessions, ReadData(s) PROVE Kept
  BY <1>5 DEF ReadData
<1>6. ASSUME NEW s \in Sessions, ReadFails(s) PROVE Kept
  BY <1>6 DEF ReadFails
<1>7. ASSUME NEW s \in Sessions, WriteCompletes(s) PROVE Kept
  BY <1>7 DEF WriteCompletes
<1>8. ASSUME NEW s \in Sessions, WriteFails(s) PROVE Kept
  BY <1>8 DEF WriteFails
<1>9. ASSUME NEW t \in Threads, RemoveAndReport(t) PROVE Contract!ContractNext
  <2>1. PICK s \in Sessions : s = subject[t]
    BY <1>0, <1>9 DEF RemoveAndReport, Removing, RemovePath, ControlOK, Owning, Forcing
  <2>p. PICK p \in Paths : p = RemovePath[pc[t]]
    BY <1>9 DEF RemoveAndReport, Removing, RemovePath
  <2>2. t # Main
    BY <1>0, <1>9 DEF RemoveAndReport, Removing, RemovePath, LockIsFree, LockOK, Forcing,
                     ControlOK, MainLabels
  <2>3. sessionId[s] # 0
    BY <1>0, <2>1, <2>2, <1>9 DEF RemoveAndReport, Removing, RemovePath, OwnersOK, Owning, Forcing
  <2>4. /\ \A i \in DOMAIN sessions' : i \in DOMAIN sessions /\ sessions'[i] = sessions[i]
        /\ \A i \in DOMAIN sessions : i # sessionId[s] => i \in DOMAIN sessions'
        /\ sessionId[s] \notin DOMAIN sessions'
        /\ \A i \in DOMAIN sessions : i \in DOMAIN sessions' => sessions'[i] = sessions[i]
    BY <1>9, <2>1 DEF RemoveAndReport, Restrict
  <2>5. /\ UNCHANGED sessionId
        /\ reports' = [reports EXCEPT ![s][p] = @ + 1]
    BY <1>9, <2>1, <2>p DEF RemoveAndReport
  <2>6. \A i \in DOMAIN sessions : i = sessionId[s] <=> sessions[i] = s
    BY <1>0, <2>1, <2>3 DEF IdsOK, RegistryFaithful, TypeOK, ManagerTypeOK
  <2>7. ~Registered(s)' /\ \A r \in Sessions : r # s => (Registered(r)' <=> Registered(r))
    <3>1. \A r \in Sessions : Registered(r)' => Registered(r)
      BY <2>4 DEF Registered
    <3>2. \A r \in Sessions : r # s /\ Registered(r) => Registered(r)'
      BY <2>4, <2>6 DEF Registered
    <3>3. ~Registered(s)'
      BY <2>4, <2>6 DEF Registered
    <3> QED
      BY <3>1, <3>2, <3>3
  <2>8. Phase' = [Phase EXCEPT ![s] = "released"]
    <3>1. Phase'[s] = "released"
      BY <2>1, <2>3, <2>5, <2>7 DEF Phase
    <3>2. \A r \in Sessions : r # s => Phase'[r] = Phase[r]
      BY <2>5, <2>7 DEF Phase
    <3> QED
      BY <2>1, <3>1, <3>2 DEF Phase
  <2>9. Phase[s] \in {"registered", "released"}
    BY <2>1, <2>3 DEF Phase
  <2>10. p # "write" => reports[s][p] = 0
    <3>1. CASE pc[t] = "removeRead"
      BY <1>0, <2>1, <2>p, <3>1 DEF RemovePath, ReadReportOK, ControlOK, MainLabels, WorkerLabels, Forcing
    <3>2. CASE pc[t] = "removeForce"
      BY <1>0, <2>1, <2>p, <3>2 DEF RemovePath, ForceReportOK, Closing
    <3>3. CASE pc[t] = "removeWrite"
      BY <2>p, <3>3 DEF RemovePath
    <3> QED
      BY <1>9, <3>1, <3>2, <3>3 DEF RemoveAndReport, Removing, RemovePath
  <2>11. Contract!Release(s, p)
    BY <2>5, <2>8, <2>9, <2>10 DEF Contract!Release
  <2> QED
    BY <2>1, <2>10, <2>11 DEF Contract!ContractNext, Contract!Paths
<1>10. ASSUME NEW t \in Threads, ForceExchange(t) PROVE Kept
  BY <1>10 DEF ForceExchange
<1>11. ASSUME NEW t \in Threads, ForceClose(t) PROVE Kept
  BY <1>11 DEF ForceClose
<1>12. ASSUME NEW w \in Workers, NEW s \in Sessions, RunPacketTask(w, s) PROVE Kept
  BY <1>12 DEF RunPacketTask
<1>13. ASSUME NEW w \in Workers, BroadcastNext(w) PROVE Kept
  BY <1>13 DEF BroadcastNext
<1>14. ASSUME NEW w \in Workers, BroadcastDone(w) PROVE Kept
  BY <1>14 DEF BroadcastDone
<1>15. ASSUME NEW w \in Workers, GracefulCheck(w) PROVE Kept
  BY <1>15 DEF GracefulCheck
<1>16. ASSUME NEW w \in Workers, GracefulHook(w) PROVE Kept
  BY <1>16 DEF GracefulHook
<1>17. ASSUME NEW w \in Workers, GracefulSchedule(w) PROVE Kept
  BY <1>17 DEF GracefulSchedule
<1>18. ASSUME NEW w \in Workers, NEW s \in Sessions, TimerForces(w, s) PROVE Kept
  BY <1>18 DEF TimerForces
<1>19. ASSUME NEW w \in Workers, NEW s \in Sessions, TimerFindsDisconnected(w, s) PROVE Kept
  BY <1>19 DEF TimerFindsDisconnected
<1>20. ASSUME NEW w \in Workers, HeartbeatStart(w) PROVE Kept
  BY <1>20 DEF HeartbeatStart
<1>21. ASSUME NEW w \in Workers, HeartbeatScan(w) PROVE Kept
  BY <1>21 DEF HeartbeatScan
<1>22. ASSUME NEW w \in Workers, HeartbeatUnlock(w) PROVE Kept
  BY <1>22 DEF HeartbeatUnlock
<1>23. ASSUME NEW w \in Workers, HeartbeatFind(w) PROVE Kept
  BY <1>23 DEF HeartbeatFind
<1>24. ASSUME NEW w \in Workers, HeartbeatClose(w) PROVE Kept
  BY <1>24 DEF HeartbeatClose
<1>25. ASSUME NEW w \in Workers, HeartbeatDone(w) PROVE Kept
  BY <1>25 DEF HeartbeatDone
<1>26. ASSUME StopBegins PROVE Kept
  BY <1>26 DEF StopBegins
<1>27. ASSUME DisconnectNext PROVE Kept
  BY <1>27 DEF DisconnectNext
<1>28. ASSUME DisconnectAllDone PROVE Kept
  BY <1>28 DEF DisconnectAllDone
<1>29. ASSUME StopIo PROVE Kept
  BY <1>29 DEF StopIo
<1>30. ASSUME JoinIoStopPool PROVE Kept
  BY <1>30 DEF JoinIoStopPool
<1>31. ASSUME JoinPool PROVE Kept
  BY <1>31 DEF JoinPool
<1> QED
  BY <1>a, <1>1, <1>2, <1>3, <1>4, <1>5, <1>6, <1>7, <1>8, <1>9, <1>10,
     <1>11, <1>12, <1>13, <1>14, <1>15, <1>16, <1>17, <1>18, <1>19, <1>20,
     <1>21, <1>22, <1>23, <1>24, <1>25, <1>26, <1>27, <1>28, <1>29, <1>30,
     <1>31 DEF Next, IoNext, WorkerNext, MainNext

\* The session layer implements SessionContract: a session is registered once,
\* released once, and told so at most once by its read loop and at most once
\* by ForceDisconnect, under every interleaving of the threads.
THEOREM Refinement == Spec => ContractSpec
<1>1. Init => Contract!ContractInit
  BY DEF Init, Contract!ContractInit, Contract!Paths, Phase, Registered
<1>2. IInv /\ [Next]_vars => [Contract!ContractNext]_(Contract!contractVars)
  <2>1. ASSUME IInv, Next
        PROVE  Contract!ContractNext \/ UNCHANGED Contract!contractVars
    BY <2>1, ContractStep DEF Contract!contractVars
  <2>2. ASSUME UNCHANGED vars PROVE UNCHANGED Contract!contractVars
    BY <2>2 DEF vars, Phase, Registered, Contract!contractVars
  <2> QED
    BY <2>1, <2>2
<1> QED
  BY Invariance, <1>1, <1>2, PTL DEF Spec, ContractSpec, Contract!ContractSpec
==============================================================================
