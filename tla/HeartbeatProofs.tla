---------------------------- MODULE HeartbeatProofs ----------------------------
(***************************************************************************)
(* The timing of the heartbeat, proved for any sessions, any clock and any *)
(* rates that meet TimesAssumption and RatesAssumption: IInv of Heartbeat  *)
(* is inductive, and what CheckHeartbeat decides follows from it.          *)
(***************************************************************************)
EXTENDS Heartbeat, TLAPS

\* The constants are numbers.
LEMMA Numbers ==
    /\ Timeout \in Nat /\ Interval \in Nat /\ MaxLate \in Nat /\ MaxAnswer \in Nat
    /\ Boot \in Nat /\ Boot > 0 /\ Boot <= MaxClock /\ MaxClock \in Nat /\ Modulus \in Nat
    /\ MaxClock + Timeout < Modulus
    /\ MaxLate < Interval /\ Interval + MaxLate <= Timeout /\ MaxAnswer + MaxLate < Interval
  BY TimesAssumption, RatesAssumption

------------------------------------------------------------------------------
(* Unsigned subtraction.                                                   *)

\* A number below the modulus is its own remainder.
LEMMA NoWrap ==
    ASSUME NEW M \in Nat, NEW a \in Nat, a < M
    PROVE  a % M = a
  OBVIOUS

\* A negative difference wraps around once.
LEMMA WrapsOnce ==
    ASSUME NEW M \in Nat, NEW a \in Int, a < 0, 0 < a + M
    PROVE  a % M = a + M
  OBVIOUS

\* CheckHeartbeat finds a session silent if nothing came for more than the
\* timeout, or if something came after it had read its clock.
LEMMA SilentMeans ==
    ASSUME TypeOK, NEW s \in Sessions
    PROVE  Silent(s) <=> Overtaken(s) \/ now - lastRecv[s] > Timeout
  <1>1. /\ lastRecv[s] \in Nat /\ lastRecv[s] <= MaxClock
        /\ now \in Nat /\ now <= MaxClock
    BY Numbers DEF TypeOK
  <1>2. CASE lastRecv[s] <= now
    <2>1. now - lastRecv[s] \in Nat /\ now - lastRecv[s] < Modulus
      BY <1>1, <1>2, Numbers
    <2>2. (now - lastRecv[s]) % Modulus = now - lastRecv[s]
      BY <2>1, NoWrap, Numbers
    <2> QED
      BY <1>1, <1>2, <2>2 DEF Silent, Overtaken
  <1>3. CASE lastRecv[s] > now
    <2>1. /\ now - lastRecv[s] \in Int /\ now - lastRecv[s] < 0
          /\ 0 < now - lastRecv[s] + Modulus /\ now - lastRecv[s] + Modulus > Timeout
      BY <1>1, <1>3, Numbers
    <2>2. (now - lastRecv[s]) % Modulus = now - lastRecv[s] + Modulus
      BY <2>1, WrapsOnce, Numbers
    <2> QED
      BY <1>3, <2>1, <2>2 DEF Silent, Overtaken
  <1> QED
    BY <1>1, <1>2, <1>3

------------------------------------------------------------------------------
(* IInv is inductive.                                                      *)

\* At first no session is live.
LEMMA HeartbeatInit == Init => IInv
  <1> SUFFICES ASSUME Init PROVE IInv
    OBVIOUS
  <1>1. TypeOK
    BY Numbers DEF Init, TypeOK
  <1>2. CheckInTime
    BY Numbers DEF Init, CheckInTime
  <1>3. SparedIsRecent /\ SparedIsPinged /\ PingIsAnswered
    BY Numbers DEF Init, SparedIsRecent, SparedIsPinged, PingIsAnswered
  <1> QED
    BY <1>1, <1>2, <1>3 DEF IInv

\* Time does not pass what is due.
LEMMA TickStep ==
    ASSUME IInv, Tick
    PROVE  IInv'
  <1>1. /\ clock' = clock + 1 /\ clock < MaxClock /\ clock < due + MaxLate
        /\ due' = due /\ phase' = phase /\ lastRecv' = lastRecv /\ up' = up
        /\ pingedAt' = pingedAt /\ check' = check /\ now' = now /\ todo' = todo /\ dead' = dead
    BY DEF Tick, sessionVars, checkVars
  <1>2. TypeOK'
    BY <1>1, Numbers DEF IInv, TypeOK
  <1>3. CheckInTime'
    BY <1>1, Numbers DEF IInv, TypeOK, CheckInTime
  <1>4. SparedIsRecent' /\ SparedIsPinged'
    BY <1>1 DEF IInv, SparedIsRecent, SparedIsPinged, Spared, Visited
  <1>5. PingIsAnswered'
    <2> SUFFICES ASSUME NEW s \in Sessions
                 PROVE  /\ ~Visited(s) => pingedAt[s] <= due - Interval + MaxLate
                        /\ phase[s] = "live" /\ up[s] /\ pingedAt[s] # 0 =>
                              clock + 1 <= pingedAt[s] + MaxAnswer \/ lastRecv[s] = clock + 1
      BY <1>1 DEF PingIsAnswered, Visited
    <2>1. ~Visited(s) => pingedAt[s] <= due - Interval + MaxLate
      BY DEF IInv, PingIsAnswered
    <2>2. phase[s] = "live" /\ up[s] /\ pingedAt[s] # 0 => clock < pingedAt[s] + MaxAnswer
      BY DEF Tick
    <2>3. clock \in Nat /\ pingedAt[s] \in Nat
      BY Numbers DEF IInv, TypeOK
    <2> QED
      BY <2>1, <2>2, <2>3, Numbers
  <1> QED
    BY <1>2, <1>3, <1>4, <1>5 DEF IInv

\* What the IO thread does to a session that is not live is no matter, and a
\* session that goes live, or receives, has been heard at this very time.
LEMMA SessionStep ==
    ASSUME IInv, NEW s \in Sessions,
           Add(s) \/ UpdateOnStart(s) \/ Receive(s) \/ ClientDies(s) \/ RemoveClosed(s)
    PROVE  IInv'
  <1>1. /\ clock' = clock /\ due' = due
        /\ check' = check /\ now' = now /\ todo' = todo /\ dead' = dead
    BY DEF Add, UpdateOnStart, Receive, ClientDies, RemoveClosed, timeVars, checkVars
  <1>2. TypeOK'
    <2>1. up' \in [Sessions -> BOOLEAN]
      <3>1. up \in [Sessions -> BOOLEAN]
        BY DEF IInv, TypeOK
      <3>2. up' = up \/ up' = [up EXCEPT ![s] = FALSE]
        BY DEF Add, UpdateOnStart, Receive, ClientDies, RemoveClosed
      <3> QED
        BY <3>1, <3>2, Zenon
    <2>2. clock \in Nat
      BY Numbers DEF IInv, TypeOK
    <2>3. phase' \in [Sessions -> {"new", "added", "live", "closed", "gone"}]
      BY DEF IInv, TypeOK, Add, UpdateOnStart, Receive, ClientDies, RemoveClosed
    <2>4. lastRecv' \in [Sessions -> 0..clock] /\ pingedAt' \in [Sessions -> 0..clock]
      BY <2>2 DEF IInv, TypeOK, Add, UpdateOnStart, Receive, ClientDies, RemoveClosed
    <2> QED
      BY <1>1, <2>1, <2>3, <2>4 DEF IInv, TypeOK
  <1>3. CheckInTime'
    BY <1>1 DEF IInv, CheckInTime
  <1>4. \A r \in Sessions : Visited(r)' = Visited(r) /\ Spared(r)' = Spared(r)
    BY <1>1 DEF Visited, Spared
  <1>5. \A r \in Sessions : phase'[r] = "live" =>
           \/ phase[r] = "live" /\ lastRecv'[r] = lastRecv[r] /\ pingedAt'[r] = pingedAt[r]
           \/ lastRecv'[r] = clock
    BY DEF Add, UpdateOnStart, Receive, ClientDies, RemoveClosed, IInv, TypeOK
  <1>6. /\ clock \in Nat /\ due \in Nat /\ due - Interval <= clock
        /\ \A r \in Sessions : Spared(r) => due <= clock
    BY Numbers DEF IInv, TypeOK, CheckInTime, Spared, Visited
  <1>7. SparedIsRecent'
    BY <1>1, <1>4, <1>5, <1>6, Numbers DEF IInv, SparedIsRecent
  <1>8. SparedIsPinged'
    BY <1>1, <1>4, <1>5, <1>6, Numbers DEF IInv, SparedIsPinged
  <1>9. \A r \in Sessions : /\ pingedAt'[r] = pingedAt[r] \/ pingedAt'[r] = 0
                            /\ up'[r] => up[r]
    BY DEF Add, UpdateOnStart, Receive, ClientDies, RemoveClosed, IInv, TypeOK
  <1>10. PingIsAnswered'
    BY <1>1, <1>4, <1>5, <1>6, <1>9, Numbers DEF IInv, TypeOK, PingIsAnswered
  <1> QED
    BY <1>2, <1>3, <1>7, <1>8, <1>10 DEF IInv

\* The check begins at the expiry or later, and its list has every live session.
CheckBegins == ReadClock \/ TakeLock

\* ReadClock and TakeLock begin a check, which has spared nobody yet.
LEMMA CheckBeginsStep ==
    ASSUME IInv, CheckBegins
    PROVE  IInv'
  <1>1. /\ clock' = clock /\ due' = due /\ phase' = phase /\ lastRecv' = lastRecv
        /\ up' = up /\ pingedAt' = pingedAt /\ dead' = dead
    BY DEF CheckBegins, ReadClock, TakeLock, timeVars, sessionVars
  <1>2. TypeOK'
    BY <1>1, Numbers DEF CheckBegins, ReadClock, TakeLock, Registered, IInv, TypeOK
  <1>3. CheckInTime'
    BY <1>1, Numbers DEF CheckBegins, ReadClock, TakeLock, IInv, TypeOK, CheckInTime
  <1>4. \A s \in Sessions : /\ phase[s] = "live" => ~Spared(s)'
                            /\ ~Visited(s)
    BY <1>1 DEF CheckBegins, ReadClock, TakeLock, Registered, Spared, Visited
  <1>5. SparedIsRecent' /\ SparedIsPinged'
    BY <1>1, <1>4 DEF IInv, SparedIsRecent, SparedIsPinged
  <1>6. PingIsAnswered'
    BY <1>1, <1>4 DEF IInv, PingIsAnswered
  <1> QED
    BY <1>2, <1>3, <1>5, <1>6 DEF IInv

\* The loop leaves s alive only if s was heard within the timeout, and then it
\* has a ping to answer; the ping is as old as this moment.
LEMMA ScanStep ==
    ASSUME IInv, NEW s \in Sessions, ScanSession(s)
    PROVE  IInv'
  <1>1. /\ clock' = clock /\ due' = due /\ phase' = phase /\ lastRecv' = lastRecv
        /\ up' = up /\ check' = check /\ now' = now
        /\ check = "scan" /\ s \in todo /\ todo' = todo \ {s}
    BY DEF ScanSession, timeVars
  <1>2. /\ clock \in Nat /\ clock > 0 /\ due \in Nat /\ now \in Nat
        /\ lastRecv[s] \in Nat /\ pingedAt[s] \in Nat /\ due <= now
    BY <1>1, Numbers DEF IInv, TypeOK, CheckInTime
  <1>3. \/ dead' = dead \union {s} /\ pingedAt' = pingedAt
        \/ /\ dead' = dead /\ ~Overtaken(s) /\ now - lastRecv[s] <= Timeout
           /\ SendHeartbeat(s)
    BY <1>2, SilentMeans, Numbers DEF ScanSession, IInv
  <1>4. \A r \in Sessions \ {s} : /\ pingedAt'[r] = pingedAt[r]
                                  /\ Visited(r)' = Visited(r) /\ Spared(r)' = Spared(r)
    BY <1>1, <1>3 DEF SendHeartbeat, Visited, Spared, IInv, TypeOK
  <1>5. /\ pingedAt'[s] = pingedAt[s] \/ pingedAt'[s] = clock
        /\ pingedAt[s] # 0 => pingedAt'[s] # 0
    BY <1>2, <1>3 DEF SendHeartbeat, IInv, TypeOK
  <1>6. Visited(s)' /\ ~Visited(s)
    BY <1>1 DEF Visited
  <1>7. Spared(s)' => /\ lastRecv[s] >= due - Timeout
                      /\ phase[s] = "live" => pingedAt'[s] # 0
    BY <1>1, <1>2, <1>3, Numbers DEF SendHeartbeat, Overtaken, Spared, IInv, TypeOK
  <1>8. TypeOK'
    BY <1>1, <1>2, <1>3, Numbers DEF SendHeartbeat, IInv, TypeOK
  <1>9. CheckInTime'
    BY <1>1 DEF IInv, CheckInTime
  <1>10. SparedIsRecent'
    BY <1>1, <1>4, <1>7 DEF IInv, SparedIsRecent
  <1>11. SparedIsPinged'
    BY <1>1, <1>4, <1>5, <1>7 DEF IInv, SparedIsPinged
  <1>12. PingIsAnswered'
    BY <1>1, <1>2, <1>4, <1>5, <1>6, Numbers DEF IInv, PingIsAnswered
  <1> QED
    BY <1>8, <1>9, <1>10, <1>11, <1>12 DEF IInv

\* The loop has visited every session.
LEMMA UnlockStep ==
    ASSUME IInv, Unlock
    PROVE  IInv'
  <1>1. /\ clock' = clock /\ due' = due /\ phase' = phase /\ lastRecv' = lastRecv
        /\ up' = up /\ pingedAt' = pingedAt /\ now' = now /\ todo' = todo /\ dead' = dead
        /\ check = "scan" /\ check' = "reap" /\ todo = {}
    BY DEF Unlock, timeVars, sessionVars
  <1>2. TypeOK'
    BY <1>1 DEF IInv, TypeOK
  <1>3. CheckInTime'
    BY <1>1 DEF IInv, CheckInTime
  <1>4. \A s \in Sessions : Visited(s)' = Visited(s) /\ Spared(s)' = Spared(s)
    BY <1>1 DEF Visited, Spared
  <1>5. SparedIsRecent' /\ SparedIsPinged' /\ PingIsAnswered'
    BY <1>1, <1>4 DEF IInv, SparedIsRecent, SparedIsPinged, PingIsAnswered
  <1> QED
    BY <1>2, <1>3, <1>5 DEF IInv

\* A session that is taken from the list is closed, or no longer registered.
LEMMA ReapStep ==
    ASSUME IInv, NEW s \in Sessions, Reap(s)
    PROVE  IInv'
  <1>1. /\ clock' = clock /\ due' = due /\ lastRecv' = lastRecv /\ up' = up
        /\ pingedAt' = pingedAt /\ check' = check /\ now' = now /\ todo' = todo
        /\ check = "reap" /\ dead' = dead \ {s}
    BY DEF Reap, timeVars
  <1>2. TypeOK'
    BY <1>1 DEF Reap, IInv, TypeOK
  <1>3. CheckInTime'
    BY <1>1 DEF IInv, CheckInTime
  <1>4. phase'[s] # "live" /\ \A r \in Sessions \ {s} : phase'[r] = phase[r]
    BY DEF Reap, Registered, IInv, TypeOK
  <1>5. \A r \in Sessions : Visited(r)' = Visited(r) /\ (r # s => Spared(r)' = Spared(r))
    BY <1>1 DEF Visited, Spared
  <1>6. SparedIsRecent' /\ SparedIsPinged'
    BY <1>1, <1>4, <1>5 DEF IInv, SparedIsRecent, SparedIsPinged
  <1>7. PingIsAnswered'
    BY <1>1, <1>4, <1>5 DEF IInv, PingIsAnswered
  <1> QED
    BY <1>2, <1>3, <1>6, <1>7 DEF IInv

\* The check is over: every live session is one that it spared, and what held
\* of the expiry now holds of the one before the next.
LEMMA RearmStep ==
    ASSUME IInv, Rearm
    PROVE  IInv'
  <1>1. /\ clock' = clock /\ phase' = phase /\ lastRecv' = lastRecv /\ up' = up
        /\ pingedAt' = pingedAt /\ now' = now /\ todo' = todo /\ dead' = dead
        /\ check = "reap" /\ check' = "idle" /\ dead = {} /\ due' = due + Interval
    BY DEF Rearm, sessionVars
  <1>2. /\ clock \in Nat /\ due \in Nat /\ due <= clock /\ clock <= due + MaxLate
        /\ todo = {}
    BY <1>1, Numbers DEF IInv, TypeOK, CheckInTime
  <1>3. TypeOK'
    BY <1>1, <1>2, Numbers DEF IInv, TypeOK
  <1>4. CheckInTime'
    BY <1>1, <1>2, Numbers DEF CheckInTime
  <1>5. \A s \in Sessions : Spared(s) /\ ~Spared(s)' /\ ~Visited(s)'
    BY <1>1, <1>2 DEF Spared, Visited
  <1>6. \A s \in Sessions : lastRecv[s] \in Nat /\ pingedAt[s] \in Nat /\ pingedAt[s] <= clock
    BY <1>2 DEF IInv, TypeOK
  <1>7. SparedIsRecent' /\ SparedIsPinged'
    BY <1>1, <1>2, <1>5, <1>6, Numbers DEF IInv, SparedIsRecent, SparedIsPinged
  <1>8. PingIsAnswered'
    BY <1>1, <1>2, <1>5, <1>6, Numbers DEF IInv, PingIsAnswered
  <1> QED
    BY <1>3, <1>4, <1>7, <1>8 DEF IInv

\* Every step keeps the invariant.
LEMMA HeartbeatNext == IInv /\ [Next]_vars => IInv'
  <1> SUFFICES ASSUME IInv, [Next]_vars PROVE IInv'
    OBVIOUS
  <1>1. CASE Tick
    BY <1>1, TickStep
  <1>2. CASE ReadClock \/ TakeLock
    BY <1>2, CheckBeginsStep DEF CheckBegins
  <1>3. CASE Unlock
    BY <1>3, UnlockStep
  <1>4. CASE Rearm
    BY <1>4, RearmStep
  <1>5. ASSUME NEW s \in Sessions,
               Add(s) \/ UpdateOnStart(s) \/ Receive(s) \/ ClientDies(s) \/ RemoveClosed(s)
        PROVE  IInv'
    BY <1>5, SessionStep
  <1>6. ASSUME NEW s \in Sessions, ScanSession(s)
        PROVE  IInv'
    BY <1>6, ScanStep
  <1>7. ASSUME NEW s \in Sessions, Reap(s)
        PROVE  IInv'
    BY <1>7, ReapStep
  <1>8. CASE UNCHANGED vars
    BY <1>8 DEF vars, timeVars, sessionVars, checkVars, IInv, TypeOK, CheckInTime,
       SparedIsRecent, SparedIsPinged, PingIsAnswered, Spared, Visited
  <1> QED
    BY <1>1, <1>2, <1>3, <1>4, <1>5, <1>6, <1>7, <1>8 DEF Next

------------------------------------------------------------------------------
(* The theorems.                                                           *)

\* IInv holds in every reachable state.
THEOREM HeartbeatInvariance == Spec => []IInv
  BY HeartbeatInit, HeartbeatNext, PTL DEF Spec

\* A silent session does not stay open: at no time is one live that has sent
\* nothing for longer than a timeout, a period and a delay.
THEOREM SilentSessionsClose == Spec => []SilentIsClosed
  <1>1. IInv => SilentIsClosed
    <2> SUFFICES ASSUME IInv, NEW s \in Sessions, phase[s] = "live"
                 PROVE  clock - lastRecv[s] <= Timeout + Interval + MaxLate
      BY DEF SilentIsClosed
    <2>1. lastRecv[s] >= due - Interval - Timeout /\ clock <= due + MaxLate
      BY DEF IInv, SparedIsRecent, CheckInTime
    <2>2. lastRecv[s] \in Nat /\ clock \in Nat /\ due \in Nat
      BY Numbers DEF IInv, TypeOK
    <2> QED
      BY <2>1, <2>2, Numbers
  <1> QED
    BY <1>1, HeartbeatInvariance, PTL

\* Only the loop of CheckHeartbeat adds to the dead, and only what is silent.
LEMMA OnlyScanFinds ==
    ASSUME IInv, [Next]_vars, NEW s \in Sessions, FoundDead(s)
    PROVE  /\ check = "scan" /\ s \in todo
           /\ Overtaken(s) \/ now - lastRecv[s] > Timeout
  <1>1. ScanSession(s) /\ Silent(s)
    <2>1. ~(dead' = dead)
      BY DEF FoundDead
    <2>2. \E r \in Sessions : ScanSession(r) \/ Reap(r)
      BY <2>1 DEF Next, vars, timeVars, sessionVars, checkVars, Tick, ReadClock, TakeLock, Unlock,
         Rearm, Add, UpdateOnStart, Receive, ClientDies, RemoveClosed
    <2> QED
      BY <2>2 DEF FoundDead, ScanSession, Reap
  <1> QED
    BY <1>1, SilentMeans DEF ScanSession, IInv

\* A session that is found dead, and that nothing overtook, had a ping of an
\* earlier check to answer, and was last heard before the time of that check.
LEMMA FoundDeadWasSilent ==
    ASSUME IInv, [Next]_vars, NEW s \in Sessions,
           FoundDead(s), phase[s] = "live", ~Overtaken(s)
    PROVE  /\ pingedAt[s] # 0 /\ pingedAt[s] \in Nat
           /\ pingedAt[s] + MaxAnswer < clock
           /\ lastRecv[s] # clock
  <1>1. check = "scan" /\ s \in todo /\ now - lastRecv[s] > Timeout
    BY OnlyScanFinds
  <1>2. /\ clock \in Nat /\ due \in Nat /\ now \in Nat /\ now <= clock
        /\ lastRecv[s] \in Nat /\ pingedAt[s] \in Nat
    BY Numbers DEF IInv, TypeOK
  <1>3. due <= now /\ clock <= due + MaxLate
    BY <1>1 DEF IInv, CheckInTime
  <1>4. pingedAt[s] # 0
    BY <1>1, <1>2, <1>3, Numbers DEF IInv, SparedIsPinged
  <1>5. pingedAt[s] <= due - Interval + MaxLate
    BY <1>1 DEF IInv, PingIsAnswered, Visited
  <1> QED
    BY <1>1, <1>2, <1>3, <1>4, <1>5, Numbers

\* CheckHeartbeat gives up no session before a ping that it left unanswered.
THEOREM NobodyDiesUnpinged == Spec => DeadWasPinged
  <1>1. IInv /\ [Next]_vars =>
           [\A s \in Sessions :
               FoundDead(s) /\ phase[s] = "live" /\ ~Overtaken(s) => pingedAt[s] # 0]_vars
    BY FoundDeadWasSilent
  <1> QED
    BY <1>1, HeartbeatInvariance, PTL DEF Spec, DeadWasPinged

\* CheckHeartbeat finds no client dead that answers its pings, unless the
\* answer overtakes the check.
THEOREM AnsweringLives == Spec => AnsweringDiesOnlyOvertaken
  <1>1. IInv /\ [Next]_vars =>
           [\A s \in Sessions :
               FoundDead(s) /\ phase[s] = "live" /\ up[s] => Overtaken(s)]_vars
    <2> SUFFICES ASSUME IInv, [Next]_vars, NEW s \in Sessions,
                        FoundDead(s), phase[s] = "live", up[s], ~Overtaken(s)
                 PROVE  FALSE
      OBVIOUS
    <2>1. clock <= pingedAt[s] + MaxAnswer
      BY FoundDeadWasSilent DEF IInv, PingIsAnswered
    <2>2. pingedAt[s] \in Nat /\ pingedAt[s] + MaxAnswer < clock /\ clock \in Nat
      BY FoundDeadWasSilent, Numbers DEF IInv, TypeOK
    <2> QED
      BY <2>1, <2>2, Numbers
  <1> QED
    BY <1>1, HeartbeatInvariance, PTL DEF Spec, AnsweringDiesOnlyOvertaken
==============================================================================
