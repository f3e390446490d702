------------------------------ MODULE WorkerPool ------------------------------
(***************************************************************************)
(* ThreadPool and AsioTimerManager, which share one io_context: the tasks  *)
(* that packets become, the timers' handlers and their cancellation wait   *)
(* in one queue, and the workers take them from its front.                 *)
(*                                                                         *)
(* asio is external and modelled as it is used: an io_context runs ready   *)
(* handlers in the order they became ready, each on one thread; cancelling *)
(* a steady_timer makes a pending wait's handler ready with an error, and  *)
(* does nothing to a handler that is ready or running.                     *)
(***************************************************************************)
EXTENDS Naturals, Sequences, FiniteSets

CONSTANTS
    Workers,     \* the threads of the pool
    Repeating,   \* timers of ScheduleRepeat, each with a TimerID of its own
    Once,        \* timers of ScheduleOnce
    NoJob,       \* what an idle worker runs
    MaxPackets   \* bound: packets that become tasks

Packets == 1..MaxPackets
Timers == Repeating \union Once
Jobs == Packets \union Timers

ASSUME JobsAssumption ==
    /\ MaxPackets \in Nat
    /\ Repeating \intersect Once = {}
    /\ Timers \intersect Packets = {}
    /\ NoJob \notin Jobs
    /\ IsFiniteSet(Workers)

VARIABLES
    pool,       \* "new", "running", "stopped" (io_context), "joined"
    queue,      \* handlers that are ready; ok is FALSE for a cancelled wait
    at,         \* at[w]: the job that worker w runs, or NoJob
    posted,     \* packets posted, in the order of their arrival
    handled,    \* packets whose handler has returned
    wait,       \* each timer: "unused", "created", "pending", "queued",
                \*   "running", "ended"
    table,      \* _timers
    cancelled   \* how Cancel found the timer: "no" call, "inTime", "late"

poolVars  == <<pool, queue, at, posted, handled>>
timerVars == <<wait, table, cancelled>>
vars == <<poolVars, timerVars>>

Handler(job, ok) == [job |-> job, ok |-> ok]

SetWait(id, state) == wait' = [wait EXCEPT ![id] = state]

Init ==
    /\ pool = "new"
    /\ queue = <<>>
    /\ at = [w \in Workers |-> NoJob]
    /\ posted = 0
    /\ handled = {}
    /\ wait = [id \in Timers |-> "unused"]
    /\ table = {}
    /\ cancelled = [id \in Repeating |-> "no"]

------------------------------------------------------------------------------
(* ThreadPool.                                                             *)

Start ==
    /\ pool = "new"
    /\ pool' = "running"
    /\ UNCHANGED <<queue, at, posted, handled, timerVars>>

\* Mutant: a task is put in front of those that wait.
PostFront ==
    /\ posted < MaxPackets
    /\ posted' = posted + 1
    /\ queue' = <<Handler(posted + 1, TRUE)>> \o queue
    /\ UNCHANGED <<pool, at, handled, timerVars>>

\* Mutant: what is posted before Start is dropped.
PostIfRunning ==
    /\ posted < MaxPackets
    /\ posted' = posted + 1
    /\ \/ pool = "new" /\ UNCHANGED queue
       \/ pool # "new" /\ queue' = Append(queue, Handler(posted + 1, TRUE))
    /\ UNCHANGED <<pool, at, handled, timerVars>>

\* OnPacket, on the IO thread, posts the packets of a session in their order.
Post ==
    /\ posted < MaxPackets
    /\ posted' = posted + 1
    /\ queue' = Append(queue, Handler(posted + 1, TRUE))
    /\ UNCHANGED <<pool, at, handled, timerVars>>

\* A worker takes what has waited longest.  OnTimer returns at once if the
\* wait was cancelled.
Take(w) ==
    /\ pool = "running"
    /\ at[w] = NoJob
    /\ queue # <<>>
    /\ queue' = Tail(queue)
    /\ LET h == Head(queue) IN
          \/ h.job \in Packets /\ at' = [at EXCEPT ![w] = h.job] /\ UNCHANGED wait
          \/ h.job \in Timers /\ h.ok /\ at' = [at EXCEPT ![w] = h.job] /\ SetWait(h.job, "running")
          \/ h.job \in Timers /\ ~h.ok /\ SetWait(h.job, "ended") /\ UNCHANGED at
    /\ UNCHANGED <<pool, posted, handled, table, cancelled>>

\* The handler that Dispatch called returns.
FinishPacket(w) ==
    /\ at[w] \in Packets
    /\ handled' = handled \union {at[w]}
    /\ at' = [at EXCEPT ![w] = NoJob]
    /\ UNCHANGED <<pool, queue, posted, timerVars>>

Stop ==
    /\ pool = "running"
    /\ pool' = "stopped"
    /\ UNCHANGED <<queue, at, posted, handled, timerVars>>

Join ==
    /\ pool = "stopped"
    /\ \A w \in Workers : at[w] = NoJob
    /\ pool' = "joined"
    /\ UNCHANGED <<queue, at, posted, handled, timerVars>>

------------------------------------------------------------------------------
(* AsioTimerManager.                                                       *)

ScheduleOnce(id) ==
    /\ wait[id] = "unused"
    /\ SetWait(id, "pending")
    /\ UNCHANGED <<poolVars, table, cancelled>>

\* ScheduleRepeat: the timer enters the table under the lock; then, without
\* it, its wait begins, and only then does the caller learn the id.
InsertRepeat(id) ==
    /\ wait[id] = "unused"
    /\ table' = table \union {id}
    /\ SetWait(id, "created")
    /\ UNCHANGED <<poolVars, cancelled>>

WaitRepeat(id) ==
    /\ wait[id] = "created"
    /\ SetWait(id, "pending")
    /\ UNCHANGED <<poolVars, table, cancelled>>

\* The timer expires: the handler of its wait becomes ready.
Expire(id) ==
    /\ wait[id] = "pending"
    /\ SetWait(id, "queued")
    /\ queue' = Append(queue, Handler(id, TRUE))
    /\ UNCHANGED <<pool, at, posted, handled, table, cancelled>>

\* Mutant: the timer leaves the table, its wait goes on.
CancelErases(id) ==
    /\ id \in table
    /\ wait[id] # "created"
    /\ table' = table \ {id}
    /\ \/ wait[id] = "pending" /\ cancelled' = [cancelled EXCEPT ![id] = "inTime"]
       \/ wait[id] # "pending" /\ cancelled' = [cancelled EXCEPT ![id] = "late"]
    /\ UNCHANGED <<poolVars, wait>>

\* Cancel, by any thread that has the id; a second call finds nothing.
Cancel(id) ==
    /\ id \in table
    /\ wait[id] # "created"
    /\ table' = table \ {id}
    /\ \/ /\ wait[id] = "pending"
          /\ SetWait(id, "queued")
          /\ queue' = Append(queue, Handler(id, FALSE))
          /\ cancelled' = [cancelled EXCEPT ![id] = "inTime"]
       \/ /\ wait[id] # "pending"
          /\ cancelled' = [cancelled EXCEPT ![id] = "late"]
          /\ UNCHANGED <<wait, queue>>
    /\ UNCHANGED <<pool, at, posted, handled>>

FinishOnce(w) ==
    /\ at[w] \in Once
    /\ SetWait(at[w], "ended")
    /\ at' = [at EXCEPT ![w] = NoJob]
    /\ UNCHANGED <<pool, queue, posted, handled, table, cancelled>>

\* Mutant: a timer that has run is not armed again.
RearmNever(w) ==
    /\ at[w] \in Repeating
    /\ SetWait(at[w], "ended")
    /\ at' = [at EXCEPT ![w] = NoJob]
    /\ UNCHANGED <<pool, queue, posted, handled, table, cancelled>>

\* Mutant: the wait begins before the task, which goes on.
RearmFirst(w) ==
    /\ at[w] \in Repeating
    /\ \/ wait[at[w]] = "running" /\ SetWait(at[w], "pending") /\ UNCHANGED at
       \/ wait[at[w]] # "running" /\ at' = [at EXCEPT ![w] = NoJob] /\ UNCHANGED wait
    /\ UNCHANGED <<pool, queue, posted, handled, table, cancelled>>

\* The rest of OnTimer: the task returns, and the timer is armed again.
Rearm(w) ==
    /\ at[w] \in Repeating
    /\ SetWait(at[w], "pending")
    /\ at' = [at EXCEPT ![w] = NoJob]
    /\ UNCHANGED <<pool, queue, posted, handled, table, cancelled>>

Next ==
    \/ Start \/ Post \/ Stop \/ Join
    \/ \E w \in Workers : Take(w) \/ FinishPacket(w) \/ FinishOnce(w) \/ Rearm(w)
    \/ \E id \in Once : ScheduleOnce(id)
    \/ \E id \in Repeating : InsertRepeat(id) \/ WaitRepeat(id) \/ Cancel(id)
    \/ \E id \in Timers : Expire(id)

Spec == Init /\ [][Next]_vars

\* Threads run, handlers return and time passes; nobody need post, cancel or
\* stop.  FIFO order makes weak fairness of each worker enough.
FairSpec ==
    /\ Spec
    /\ WF_vars(Start)
    /\ \A w \in Workers :
          WF_vars(Take(w)) /\ WF_vars(FinishPacket(w) \/ FinishOnce(w) \/ Rearm(w))
    /\ \A id \in Repeating : WF_vars(WaitRepeat(id))
    /\ \A id \in Timers : WF_vars(Expire(id))

------------------------------------------------------------------------------
Stopped == pool \in {"stopped", "joined"}

\* However slow its task, a timer never runs on two workers at once, and no
\* packet is handled by two: OnTimer re-arms only after the task.
NoJobTwice ==
    \A v, w \in Workers : at[v] = at[w] /\ at[v] # NoJob => v = w

\* A worker has, or had, packet n.
Taken(n) == n \in handled \/ \E w \in Workers : at[w] = n

\* When a packet is handled or being handled, fewer earlier ones are still
\* unfinished than there are workers; with one worker, none.
FewOvertaken ==
    \A n \in Packets :
        Taken(n) => Cardinality((1..(n - 1)) \ handled) < Cardinality(Workers)

\* A timer whose wait Cancel found pending never runs its task again.  One that
\* was ready or running when it was cancelled runs, re-arms and goes on for
\* ever: no later Cancel finds it.
CancelledInTimeStops ==
    [][\A id \in Repeating :
          cancelled[id] = "inTime" /\ wait[id] # "running" => wait'[id] # "running"]_vars

\* Every packet is handled, whatever timers are due, unless the pool is stopped.
EveryPacketHandled ==
    \A n \in Packets : posted >= n ~> n \in handled \/ Stopped

\* A repeating timer fires again and again until it is cancelled or the pool
\* is stopped.
RepeatsForever ==
    \A id \in Repeating :
        \/ []<>(wait[id] = "running")
        \/ <>[](wait[id] = "unused" \/ cancelled[id] # "no" \/ Stopped)

------------------------------------------------------------------------------
(* The inductive invariant of the proofs.                                  *)

\* The type of every variable.
TypeOK ==
    /\ pool \in {"new", "running", "stopped", "joined"}
    /\ queue \in Seq([job : Jobs, ok : BOOLEAN])
    /\ at \in [Workers -> Jobs \union {NoJob}]
    /\ posted \in 0..MaxPackets
    /\ handled \subseteq 1..posted
    /\ wait \in [Timers -> {"unused", "created", "pending", "queued", "running", "ended"}]
    /\ table \subseteq Repeating
    /\ cancelled \in [Repeating -> {"no", "inTime", "late"}]

\* A packet that was posted and not handled, a timer whose wait says so.
Waiting(job) ==
    \/ job \in (1..posted) \ handled
    \/ job \in Timers /\ wait[job] = "queued"

Running(job) ==
    \/ job \in (1..posted) \ handled
    \/ job \in Timers /\ wait[job] = "running"

\* No job is twice in the queue, with two workers, or both in the queue and with
\* a worker; and a timer's wait tells in which of them its handler is.
OnePlace ==
    /\ NoJobTwice
    /\ \A i \in DOMAIN queue :
          /\ Waiting(queue[i].job)
          /\ \A j \in DOMAIN queue : queue[i].job = queue[j].job => i = j
          /\ \A w \in Workers : at[w] # queue[i].job
    /\ \A w \in Workers : at[w] # NoJob => Running(at[w])

\* A wait that was cancelled in time is in the queue to end, or has ended, and
\* no later Cancel finds its timer.
CancelledWaitsEnd ==
    \A id \in Repeating : cancelled[id] = "inTime" =>
        /\ id \notin table
        /\ wait[id] \in {"queued", "ended"}
        /\ \A i \in DOMAIN queue : queue[i].job = id => ~queue[i].ok

\* Packets wait in the order in which they came, and were taken in it.
FirstComeFirstTaken ==
    /\ \A n \in 1..posted : Taken(n) \/ \E i \in DOMAIN queue : queue[i].job = n
    /\ \A i \in DOMAIN queue : queue[i].job \in Packets =>
          /\ \A j \in DOMAIN queue :
                i < j /\ queue[j].job \in Packets => queue[i].job < queue[j].job
          /\ \A n \in Packets : Taken(n) => n < queue[i].job

\* The inductive invariant.
IInv == TypeOK /\ OnePlace /\ CancelledWaitsEnd /\ FirstComeFirstTaken /\ FewOvertaken
==============================================================================
