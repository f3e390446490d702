------------------------------ MODULE Heartbeat -------------------------------
(***************************************************************************)
(* The clocks of the heartbeat: Service's repeating timer reads the time,  *)
(* CheckHeartbeat waits for the lock and compares that time with each      *)
(* session's _lastRecvTime, in unsigned arithmetic, while the IO thread    *)
(* goes on receiving and writing new times.  Silent sessions are closed,   *)
(* the others are pinged and their clients answer.                         *)
(*                                                                         *)
(* SessionLifecycle leaves the verdict on a session open and follows what  *)
(* happens to it; this module decides it and follows only the times.       *)
(***************************************************************************)
EXTENDS Integers

CONSTANTS
    Sessions,
    Timeout,    \* the timeoutInterval of CheckHeartbeat: 10000 ms
    Interval,   \* the period of Service's timer: 5000 ms
    Modulus,    \* one more than the largest uint64_t
    Boot,       \* the steady clock when the server starts; it counts from boot
    MaxClock,   \* bound: the clock
    MaxLate,    \* bound: how long after its due time a check is finished
    MaxAnswer   \* bound: how long a client that is up takes to answer a ping

ASSUME TimesAssumption ==
    /\ {Timeout, Interval, MaxLate, MaxAnswer} \subseteq Nat
    /\ Boot \in Nat \ {0}
    /\ MaxClock \in Nat
    /\ Modulus \in Nat
    /\ MaxClock + Timeout < Modulus
    /\ Boot <= MaxClock

\* The check is finished before the next is due, the timer expires at least
\* once within the timeout, and an answer takes less than a period.
ASSUME RatesAssumption ==
    /\ MaxLate < Interval
    /\ Interval + MaxLate <= Timeout
    /\ MaxAnswer + MaxLate < Interval

VARIABLES
    clock,     \* steady_clock, in units of the model
    phase,     \* "new", "added" (in the registry), "live", "closed", "gone"
    lastRecv,  \* _lastRecvTime
    up,        \* the client is there and answers
    pingedAt,  \* when the first ping went out that was not answered; or 0
    due,       \* the timer's expiry
    check,     \* the heartbeat: "idle", "lock", "scan", "reap"
    now,       \* the argument of CheckHeartbeat
    todo,      \* sessions the loop has still to visit
    dead       \* deadSessions

timeVars    == <<clock, due>>
sessionVars == <<phase, lastRecv, up, pingedAt>>
checkVars   == <<check, now, todo, dead>>
vars == <<timeVars, sessionVars, checkVars>>

Registered == {s \in Sessions : phase[s] \in {"added", "live", "closed"}}

Init ==
    /\ clock = Boot
    /\ phase = [s \in Sessions |-> "new"]
    /\ lastRecv = [s \in Sessions |-> 0]
    /\ up = [s \in Sessions |-> TRUE]
    /\ pingedAt = [s \in Sessions |-> 0]
    /\ due = Boot + Interval
    /\ check = "idle"
    /\ now = 0
    /\ todo = {}
    /\ dead = {}

\* Time passes, but a due check and a client that is up are in time.
Tick ==
    /\ clock < MaxClock
    /\ clock < due + MaxLate
    /\ \A s \in Sessions :
          phase[s] = "live" /\ up[s] /\ pingedAt[s] # 0 => clock < pingedAt[s] + MaxAnswer
    /\ clock' = clock + 1
    /\ UNCHANGED <<due, sessionVars, checkVars>>

------------------------------------------------------------------------------
(* The IO thread and the clients.                                          *)

\* Start registers the session before it sets _lastRecvTime.
Add(s) ==
    /\ phase[s] = "new"
    /\ phase' = [phase EXCEPT ![s] = "added"]
    /\ UNCHANGED <<timeVars, lastRecv, up, pingedAt, checkVars>>

\* UpdateLastRecvTime, later in Start.
UpdateOnStart(s) ==
    /\ phase[s] = "added"
    /\ phase' = [phase EXCEPT ![s] = "live"]
    /\ lastRecv' = [lastRecv EXCEPT ![s] = clock]
    /\ UNCHANGED <<timeVars, up, pingedAt, checkVars>>

\* OnRecv: the answer to a ping, or any other data.
Receive(s) ==
    /\ phase[s] = "live"
    /\ up[s]
    /\ lastRecv' = [lastRecv EXCEPT ![s] = clock]
    /\ pingedAt' = [pingedAt EXCEPT ![s] = 0]
    /\ UNCHANGED <<timeVars, phase, up, checkVars>>

\* The client vanishes without closing the connection.
ClientDies(s) ==
    /\ up[s]
    /\ up' = [up EXCEPT ![s] = FALSE]
    /\ UNCHANGED <<timeVars, phase, lastRecv, pingedAt, checkVars>>

\* The aborted read of a closed session calls Remove.
RemoveClosed(s) ==
    /\ phase[s] = "closed"
    /\ phase' = [phase EXCEPT ![s] = "gone"]
    /\ UNCHANGED <<timeVars, lastRecv, up, pingedAt, checkVars>>

------------------------------------------------------------------------------
(* The heartbeat, on a worker.                                             *)

\* The timer's task reads the clock before it calls CheckHeartbeat.
ReadClock ==
    /\ check = "idle"
    /\ clock >= due
    /\ now' = clock
    /\ check' = "lock"
    /\ UNCHANGED <<timeVars, sessionVars, todo, dead>>

TakeLock ==
    /\ check = "lock"
    /\ todo' = Registered
    /\ check' = "scan"
    /\ UNCHANGED <<timeVars, sessionVars, now, dead>>

\* Mutant: half the timeout.
SilentEarly(s) == (now - lastRecv[s]) % Modulus > Timeout - Interval - MaxLate

\* now - lastRecv > timeoutInterval, with uint64_t operands.
Silent(s) == (now - lastRecv[s]) % Modulus > Timeout

\* Mutant: SendHeartbeat keeps its empty default.
SendNoHeartbeat(s) == UNCHANGED pingedAt

\* SendHeartbeat sends S_PING, to a socket that is open.
SendHeartbeat(s) ==
    pingedAt' = [pingedAt EXCEPT ![s] = IF phase[s] # "closed" /\ @ = 0 THEN clock ELSE @]

ScanSession(s) ==
    /\ check = "scan"
    /\ s \in todo
    /\ todo' = todo \ {s}
    /\ \/ Silent(s) /\ dead' = dead \union {s} /\ UNCHANGED pingedAt
       \/ ~Silent(s) /\ SendHeartbeat(s) /\ UNCHANGED dead
    /\ UNCHANGED <<timeVars, phase, lastRecv, up, check, now>>

Unlock ==
    /\ check = "scan"
    /\ todo = {}
    /\ check' = "reap"
    /\ UNCHANGED <<timeVars, sessionVars, now, todo, dead>>

\* Find, and close the socket of a session that is still registered.
Reap(s) ==
    /\ check = "reap"
    /\ s \in dead
    /\ dead' = dead \ {s}
    /\ \/ s \in Registered /\ phase' = [phase EXCEPT ![s] = "closed"]
       \/ s \notin Registered /\ UNCHANGED phase
    /\ UNCHANGED <<timeVars, lastRecv, up, pingedAt, check, now, todo>>

\* Mutant: the next expiry is counted from the end of the check.
RearmFromNow ==
    /\ check = "reap"
    /\ dead = {}
    /\ check' = "idle"
    /\ due' = clock + Interval
    /\ UNCHANGED <<clock, sessionVars, now, todo, dead>>

\* OnTimer: expires_at(expiry() + interval).
Rearm ==
    /\ check = "reap"
    /\ dead = {}
    /\ check' = "idle"
    /\ due' = due + Interval
    /\ UNCHANGED <<clock, sessionVars, now, todo, dead>>

Next ==
    \/ Tick \/ ReadClock \/ TakeLock \/ Unlock \/ Rearm
    \/ \E s \in Sessions :
          \/ Add(s) \/ UpdateOnStart(s) \/ Receive(s) \/ ClientDies(s) \/ RemoveClosed(s)
          \/ ScanSession(s) \/ Reap(s)

Spec == Init /\ [][Next]_vars

------------------------------------------------------------------------------
\* The loop of CheckHeartbeat puts s on the list of dead sessions.
FoundDead(s) == s \in dead' \ dead

\* Something arrived from s after the check read its clock.
Overtaken(s) == lastRecv[s] > now

\* A session that fell silent is closed at the latest a timeout, a period and
\* a delay after the last byte: CheckHeartbeat and the timer's fixed grid.
SilentIsClosed ==
    \A s \in Sessions :
        phase[s] = "live" => clock - lastRecv[s] <= Timeout + Interval + MaxLate

\* No session is given up before a ping was sent that it left unanswered,
\* although one timer both pings and judges (unless data overtook the check).
DeadWasPinged ==
    [][\A s \in Sessions :
          FoundDead(s) /\ phase[s] = "live" /\ ~Overtaken(s) => pingedAt[s] # 0]_vars

\* A client that answers its pings is not found dead, even if it sends nothing
\* else, by any check that its data does not overtake.
AnsweringDiesOnlyOvertaken ==
    [][\A s \in Sessions :
          FoundDead(s) /\ phase[s] = "live" /\ up[s] => Overtaken(s)]_vars

------------------------------------------------------------------------------
(* The inductive invariant of the proofs.                                  *)

\* The type of every variable; no time lies in the future.
TypeOK ==
    /\ clock \in Boot..MaxClock
    /\ due \in Nat /\ due >= Interval
    /\ phase \in [Sessions -> {"new", "added", "live", "closed", "gone"}]
    /\ lastRecv \in [Sessions -> 0..clock]
    /\ up \in [Sessions -> BOOLEAN]
    /\ pingedAt \in [Sessions -> 0..clock]
    /\ check \in {"idle", "lock", "scan", "reap"}
    /\ now \in 0..clock
    /\ todo \subseteq Sessions
    /\ dead \subseteq Sessions

\* The clock is never a period before the timer's expiry nor late for it, and a
\* check has read it at the expiry or later; its lists live as long as it does.
CheckInTime ==
    /\ due - Interval <= clock /\ clock <= due + MaxLate
    /\ check # "idle" => due <= now
    /\ check # "scan" => todo = {}
    /\ check \in {"idle", "lock"} => dead = {}

\* The check under way will not visit s any more.
Visited(s) == check \in {"scan", "reap"} /\ s \notin todo

\* The check under way lets s live.
Spared(s) == Visited(s) /\ s \notin dead

\* What the last check spared had sent something within a timeout of it.
SparedIsRecent ==
    \A s \in Sessions : phase[s] = "live" =>
        /\ lastRecv[s] >= due - Interval - Timeout
        /\ Spared(s) => lastRecv[s] >= due - Timeout

\* What the last check spared has sent something since, or has a ping to answer.
SparedIsPinged ==
    \A s \in Sessions : phase[s] = "live" =>
        /\ lastRecv[s] >= due - Interval \/ pingedAt[s] # 0
        /\ Spared(s) => lastRecv[s] >= due \/ pingedAt[s] # 0

\* Before a check visits s, a ping that s left unanswered is one of an earlier
\* check; a client that is up has not had it for longer than it takes to answer.
PingIsAnswered ==
    \A s \in Sessions :
        /\ ~Visited(s) => pingedAt[s] <= due - Interval + MaxLate
        /\ phase[s] = "live" /\ up[s] /\ pingedAt[s] # 0 =>
              clock <= pingedAt[s] + MaxAnswer \/ lastRecv[s] = clock

\* The inductive invariant: with it one check tells from the last what a
\* session has sent and had to answer in the period between them.
IInv == TypeOK /\ CheckInTime /\ SparedIsRecent /\ SparedIsPinged /\ PingIsAnswered
==============================================================================
