------------------------------ MODULE WriteQueue ------------------------------
(***************************************************************************)
(* Session::Send and Session::DoWrite: a session's _writeQueue and the     *)
(* async_writes that empty it.  The rule is that whoever finds the queue   *)
(* empty begins a write, and that the write's handler begins the next; no  *)
(* lock guards the test, the push or the pop.                              *)
(*                                                                         *)
(* A message is the number of its push, so the queue is always an interval *)
(* of numbers, from the first not popped to the last pushed.               *)
(*                                                                         *)
(* With Threads = {IO} this is the echo server, whose OnRecv sends from    *)
(* the thread that runs the handlers; a game server's packet tasks, timers *)
(* and Broadcast send from the workers as well.                            *)
(***************************************************************************)
EXTENDS Integers

CONSTANTS
    Threads,     \* the threads that call Send
    IO,          \* the one that runs the session's handlers
    MaxMessages  \* bound: messages sent

ASSUME ThreadsAssumption == IO \in Threads /\ MaxMessages \in Nat

VARIABLES
    pushed, popped,  \* _writeQueue holds the messages popped + 1 .. pushed
    writing,         \* async_writes outstanding: an id, and the message each reads
    started,         \* async_writes begun; their ids
    completed,       \* async_writes that ended well
    lastWritten,     \* the message that the last of these put on the wire
    open,            \* the socket is open and the connection stands
    failed,          \* a write handler was given an error
    undefined,       \* front or pop_front of an empty deque, or a buffer freed in use
    pc               \* where each thread is in Send or in the handler

queueVars == <<pushed, popped>>
writeVars == <<writing, started>>
wireVars  == <<completed, lastWritten>>
vars == <<queueVars, writeVars, wireVars, open, failed, undefined, pc>>

Empty == pushed = popped

Front == popped + 1

\* Once behaviour is undefined there is nothing left to model.
At(t, label) == ~undefined /\ pc[t] = label

Goto(t, label) == pc' = [pc EXCEPT ![t] = label]

Init ==
    /\ pushed = 0
    /\ popped = 0
    /\ writing = {}
    /\ started = 0
    /\ completed = 0
    /\ lastWritten = 0
    /\ open = TRUE
    /\ failed = FALSE
    /\ undefined = FALSE
    /\ pc = [t \in Threads |-> "idle"]

------------------------------------------------------------------------------
(* Send.                                                                   *)

\* writeInProgress = !_writeQueue.empty()
TestInProgress(t) ==
    /\ At(t, "idle")
    /\ pushed < MaxMessages
    /\ \/ Empty /\ Goto(t, "pushFirst")
       \/ ~Empty /\ Goto(t, "push")
    /\ UNCHANGED <<queueVars, writeVars, wireVars, open, failed, undefined>>

Push(t) ==
    /\ \/ At(t, "push") /\ Goto(t, "idle")
       \/ At(t, "pushFirst") /\ Goto(t, "write")
    /\ pushed' = pushed + 1
    /\ UNCHANGED <<popped, writeVars, wireVars, open, failed, undefined>>

\* Mutant: the last message of the queue is written, not the first.
DoWriteBack(t) ==
    /\ At(t, "write")
    /\ Goto(t, "idle")
    /\ writing' = writing \union {[id |-> started, message |-> pushed, ok |-> open]}
    /\ started' = started + 1
    /\ UNCHANGED <<queueVars, wireVars, open, failed, undefined>>

\* The async_write is given a pointer to the front's bytes.
DoWrite(t) ==
    /\ At(t, "write")
    /\ Goto(t, "idle")
    /\ \/ /\ ~Empty
          /\ writing' = writing \union {[id |-> started, message |-> Front, ok |-> open]}
          /\ started' = started + 1
          /\ UNCHANGED undefined
       \/ Empty /\ undefined' = TRUE /\ UNCHANGED writeVars
    /\ UNCHANGED <<queueVars, wireVars, open, failed>>

------------------------------------------------------------------------------
(* The write's handler, on the IO thread.                                  *)

\* All of the message is on the wire.
WriteCompletes ==
    /\ At(IO, "idle")
    /\ \E w \in writing :
          /\ w.ok
          /\ writing' = writing \ {w}
          /\ lastWritten' = w.message
    /\ completed' = completed + 1
    /\ Goto(IO, "pop")
    /\ UNCHANGED <<queueVars, started, open, failed, undefined>>

PopFront ==
    /\ At(IO, "pop")
    /\ Goto(IO, "next")
    /\ \/ /\ ~Empty
          /\ popped' = popped + 1
          /\ undefined' = (\E w \in writing : w.message = Front)
       \/ Empty /\ undefined' = TRUE /\ UNCHANGED popped
    /\ UNCHANGED <<pushed, writeVars, wireVars, open, failed>>

\* Mutant: the next write is begun without asking whether there is one.
WriteNextAlways ==
    /\ At(IO, "next")
    /\ Goto(IO, "write")
    /\ UNCHANGED <<queueVars, writeVars, wireVars, open, failed, undefined>>

\* Mutant: the next write is left to the next Send.
WriteNextNever ==
    /\ At(IO, "next")
    /\ Goto(IO, "idle")
    /\ UNCHANGED <<queueVars, writeVars, wireVars, open, failed, undefined>>

WriteNext ==
    /\ At(IO, "next")
    /\ \/ ~Empty /\ Goto(IO, "write")
       \/ Empty /\ Goto(IO, "idle")
    /\ UNCHANGED <<queueVars, writeVars, wireVars, open, failed, undefined>>

\* The handler is given an error.  It leaves the message in the queue; that it
\* calls Remove and OnDisconnected is the subject of SessionLifecycle.
WriteFails ==
    /\ At(IO, "idle")
    /\ ~open
    /\ \E w \in writing : writing' = writing \ {w}
    /\ failed' = TRUE
    /\ UNCHANGED <<queueVars, started, wireVars, open, undefined, pc>>

\* The socket is closed, by whomever, or the connection breaks.
ConnectionEnds ==
    /\ open
    /\ open' = FALSE
    /\ UNCHANGED <<queueVars, writeVars, wireVars, failed, undefined, pc>>

Next ==
    \/ \E t \in Threads : TestInProgress(t) \/ Push(t) \/ DoWrite(t)
    \/ WriteCompletes \/ PopFront \/ WriteNext \/ WriteFails
    \/ ConnectionEnds

Spec == Init /\ [][Next]_vars

\* A call of Send and a handler run to their end; a write ends, one way or the
\* other, for the client goes on reading or the connection breaks.
FairSpec ==
    /\ Spec
    /\ \A t \in Threads : WF_vars(Push(t)) /\ WF_vars(DoWrite(t))
    /\ WF_vars(WriteCompletes \/ WriteFails)
    /\ WF_vars(PopFront) /\ WF_vars(WriteNext)

------------------------------------------------------------------------------
(* What holds when only the IO thread sends: Threads = {IO}.               *)

Labels == {"idle", "push", "pushFirst", "write", "pop", "next"}

\* The type of every variable.
TypeOK ==
    /\ pushed \in 0..MaxMessages
    /\ popped \in 0..pushed
    /\ writing \subseteq [id : 0..started, message : 1..pushed, ok : BOOLEAN]
    /\ started \in Nat
    /\ completed \in Nat
    /\ lastWritten \in 0..pushed
    /\ open \in BOOLEAN
    /\ failed \in BOOLEAN
    /\ undefined \in BOOLEAN
    /\ pc \in [Threads -> Labels]

\* The k-th message that goes out whole is the k-th that was pushed: none is
\* lost, repeated or overtaken.
InOrderOnce == completed = lastWritten

\* No two async_writes of one session are outstanding: their bytes would mix.
OneWriteAtATime == \A v, w \in writing : v = w

\* front and pop_front find a message, and no buffer is freed that a write reads.
NothingUndefined == ~undefined

\* When nobody is sending or handling and no write failed, whatever is in the
\* queue is being written.  Otherwise it never will be: every later Send would
\* find the queue not empty and leave the writing to others.
NothingStranded ==
    ~undefined /\ ~failed /\ (\A t \in Threads : pc[t] = "idle") /\ ~Empty => writing # {}

\* Every message is written, unless the connection ends.
EveryMessageWritten ==
    \A n \in 1..MaxMessages : pushed >= n ~> lastWritten >= n \/ failed

------------------------------------------------------------------------------
(* The inductive invariant of the proofs, for Threads = {IO}.              *)

\* A queue that is not empty is being written, or about to be, by one write of
\* its front; a Send about to push found the queue as it still is.
QueueInv ==
    /\ ~undefined
    /\ OneWriteAtATime
    /\ \A w \in writing : w.message = Front /\ ~Empty
    /\ writing # {} => pc[IO] \in {"idle", "push"}
    /\ pc[IO] \in {"idle", "push"} /\ ~Empty /\ ~failed => writing # {}
    /\ pc[IO] = "pushFirst" => Empty
    /\ pc[IO] \in {"push", "write", "pop"} => ~Empty
    /\ pc[IO] \in {"push", "pushFirst"} => pushed < MaxMessages

\* What went out is what was popped, but for a message just written.
WireInv ==
    /\ InOrderOnce
    /\ pc[IO] = "pop" => completed = popped + 1
    /\ pc[IO] # "pop" => completed = popped

\* The inductive invariant.
IInv == TypeOK /\ QueueInv /\ WireInv
==============================================================================
