--------------------------- MODULE WriteQueueProofs ---------------------------
(***************************************************************************)
(* Theorems about WriteQueue when only the IO thread calls Send, as in the *)
(* echo server: messages go out whole, in order and once, however many.    *)
(***************************************************************************)
EXTENDS WriteQueue, TLAPS

\* The assumption of every theorem here: no other thread sends.
Alone == Threads = {IO}

\* At first the queue is empty.
LEMMA InitInv == Alone /\ Init => IInv
<1> SUFFICES ASSUME Alone, Init PROVE IInv
  OBVIOUS
<1>1. pc[IO] = "idle"
  BY ThreadsAssumption DEF Init
<1>2. TypeOK
  <2>1. pc \in [Threads -> Labels]
    BY DEF Init, Labels
  <2>2. writing \subseteq [id : 0..started, message : 1..pushed, ok : BOOLEAN]
    BY DEF Init
  <2>3. pushed \in 0..MaxMessages /\ popped \in 0..pushed /\ lastWritten \in 0..pushed
    BY ThreadsAssumption DEF Init
  <2> QED
    BY <2>1, <2>2, <2>3 DEF Init, TypeOK
<1>3. QueueInv
  BY <1>1 DEF Init, QueueInv, OneWriteAtATime, Empty
<1>4. WireInv
  BY <1>1 DEF Init, WireInv, InOrderOnce
<1> QED
  BY <1>2, <1>3, <1>4 DEF IInv

\* In every step the type is kept, given what QueueInv says of the numbers.
LEMMA TypeInductive ==
  ASSUME Alone, IInv, [Next]_vars
  PROVE  TypeOK'
<1> USE ThreadsAssumption DEF Alone, IInv, TypeOK, QueueInv, WireInv, InOrderOnce, Empty, Front,
        Labels, At, Goto, queueVars, writeVars, wireVars
<1>1. ASSUME TestInProgress(IO) PROVE TypeOK'
  BY <1>1 DEF TestInProgress
<1>2. ASSUME Push(IO) PROVE TypeOK'
  BY <1>2 DEF Push
<1>3. ASSUME DoWrite(IO) PROVE TypeOK'
  BY <1>3 DEF DoWrite
<1>4. ASSUME WriteCompletes PROVE TypeOK'
  BY <1>4 DEF WriteCompletes
<1>5. ASSUME PopFront PROVE TypeOK'
  BY <1>5 DEF PopFront
<1>6. ASSUME WriteNext PROVE TypeOK'
  BY <1>6 DEF WriteNext
<1>7. ASSUME WriteFails PROVE TypeOK'
  BY <1>7 DEF WriteFails
<1>8. ASSUME ConnectionEnds PROVE TypeOK'
  BY <1>8 DEF ConnectionEnds
<1>9. CASE UNCHANGED vars
  BY <1>9 DEF vars
<1> QED
  BY <1>1, <1>2, <1>3, <1>4, <1>5, <1>6, <1>7, <1>8, <1>9 DEF Next

\* Every step keeps QueueInv.
LEMMA QueueInductive ==
  ASSUME Alone, IInv, [Next]_vars
  PROVE  QueueInv'
<1> USE ThreadsAssumption DEF Alone, IInv, TypeOK, QueueInv, OneWriteAtATime, Empty, Front,
        Labels, At, Goto, queueVars, writeVars, wireVars
<1>1. ASSUME TestInProgress(IO) PROVE QueueInv'
  BY <1>1 DEF TestInProgress
<1>2. ASSUME Push(IO) PROVE QueueInv'
  BY <1>2 DEF Push
<1>3. ASSUME DoWrite(IO) PROVE QueueInv'
  <2>1. ~Empty /\ writing = {}
    BY <1>3 DEF DoWrite
  <2>2. /\ pc' = [pc EXCEPT ![IO] = "idle"]
        /\ writing' = {[id |-> started, message |-> Front, ok |-> open]}
        /\ UNCHANGED <<pushed, popped, failed, undefined>>
    BY <1>3, <2>1 DEF DoWrite
  <2>3. /\ writing' # {}
        /\ \A w \in writing' : w.message = Front
        /\ \A v, w \in writing' : v = w
    BY <2>2
  <2>4. pc'[IO] = "idle"
    BY <2>2
  <2> HIDE DEF TypeOK
  <2> QED
    BY <2>1, <2>2, <2>3, <2>4
<1>4. ASSUME WriteCompletes PROVE QueueInv'
  BY <1>4 DEF WriteCompletes
<1>5. ASSUME PopFront PROVE QueueInv'
  BY <1>5 DEF PopFront
<1>6. ASSUME WriteNext PROVE QueueInv'
  BY <1>6 DEF WriteNext
<1>7. ASSUME WriteFails PROVE QueueInv'
  BY <1>7 DEF WriteFails
<1>8. ASSUME ConnectionEnds PROVE QueueInv'
  BY <1>8 DEF ConnectionEnds
<1>9. CASE UNCHANGED vars
  BY <1>9 DEF vars
<1> QED
  BY <1>1, <1>2, <1>3, <1>4, <1>5, <1>6, <1>7, <1>8, <1>9 DEF Next

\* Every step keeps WireInv.
LEMMA WireInductive ==
  ASSUME Alone, IInv, [Next]_vars
  PROVE  WireInv'
<1> USE ThreadsAssumption DEF Alone, IInv, TypeOK, QueueInv, WireInv, InOrderOnce, Empty, Front,
        Labels, At, Goto, queueVars, writeVars, wireVars
<1>1. ASSUME TestInProgress(IO) PROVE WireInv'
  BY <1>1 DEF TestInProgress
<1>2. ASSUME Push(IO) PROVE WireInv'
  BY <1>2 DEF Push
<1>3. ASSUME DoWrite(IO) PROVE WireInv'
  BY <1>3 DEF DoWrite
<1>4. ASSUME WriteCompletes PROVE WireInv'
  BY <1>4 DEF WriteCompletes
<1>5. ASSUME PopFront PROVE WireInv'
  BY <1>5 DEF PopFront
<1>6. ASSUME WriteNext PROVE WireInv'
  BY <1>6 DEF WriteNext
<1>7. ASSUME WriteFails PROVE WireInv'
  BY <1>7 DEF WriteFails
<1>8. ASSUME ConnectionEnds PROVE WireInv'
  BY <1>8 DEF ConnectionEnds
<1>9. CASE UNCHANGED vars
  BY <1>9 DEF vars
<1> QED
  BY <1>1, <1>2, <1>3, <1>4, <1>5, <1>6, <1>7, <1>8, <1>9 DEF Next

\* The inductive invariant holds in every state of a server that sends from
\* the IO thread only.
THEOREM WriteInvariance == ASSUME Alone PROVE Spec => []IInv
<1>1. IInv /\ [Next]_vars => IInv'
  BY Alone, TypeInductive, QueueInductive, WireInductive DEF IInv
<1>2. Init => IInv
  BY Alone, InitInv
<1> QED
  BY <1>1, <1>2, PTL DEF Spec

\* Every variable of the queue keeps its type.
THEOREM WriteTypeCorrect == ASSUME Alone PROVE Spec => []TypeOK
<1>1. IInv => TypeOK
  BY DEF IInv
<1> QED
  BY <1>1, WriteInvariance, Alone, PTL

\* The k-th message to go out whole is the k-th that was pushed: Send and the
\* write handler lose, repeat and reorder none.
THEOREM MessagesInOrder == ASSUME Alone PROVE Spec => []InOrderOnce
<1>1. IInv => InOrderOnce
  BY DEF IInv, WireInv
<1> QED
  BY <1>1, WriteInvariance, Alone, PTL

\* DoWrite is never called while an async_write is outstanding.
THEOREM WritesDoNotOverlap == ASSUME Alone PROVE Spec => []OneWriteAtATime
<1>1. IInv => OneWriteAtATime
  BY DEF IInv, QueueInv
<1> QED
  BY <1>1, WriteInvariance, Alone, PTL

\* The deque is never asked for the front of nothing, and no buffer is freed
\* that an async_write reads.
THEOREM DequeUsedWell == ASSUME Alone PROVE Spec => []NothingUndefined
<1>1. IInv => NothingUndefined
  BY DEF IInv, QueueInv, NothingUndefined
<1> QED
  BY <1>1, WriteInvariance, Alone, PTL

\* No message waits in the queue for a write that nobody will begin.
THEOREM NoMessageStranded == ASSUME Alone PROVE Spec => []NothingStranded
<1>1. IInv => NothingStranded
  <2> SUFFICES ASSUME IInv, ~failed, \A t \in Threads : pc[t] = "idle", ~Empty
               PROVE  writing # {}
    BY DEF NothingStranded
  <2> QED
    BY ThreadsAssumption DEF IInv, QueueInv
<1> QED
  BY <1>1, WriteInvariance, Alone, PTL
==============================================================================
