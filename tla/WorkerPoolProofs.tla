--------------------------- MODULE WorkerPoolProofs ---------------------------
(***************************************************************************)
(* What the pool and the timers keep, proved for any number of workers,    *)
(* timers and packets: IInv of WorkerPool is inductive.                    *)
(***************************************************************************)
EXTENDS WorkerPool, FiniteSetTheorems, TLAPS

\* push_back leaves what is in the queue where it is.
LEMMA BackPut ==
    ASSUME NEW S, NEW s \in Seq(S), NEW x \in S
    PROVE  /\ Append(s, x) \in Seq(S)
           /\ Len(s) \in Nat /\ DOMAIN s = 1..Len(s)
           /\ DOMAIN Append(s, x) = 1..(Len(s) + 1)
           /\ \A i \in DOMAIN s : Append(s, x)[i] = s[i]
           /\ Append(s, x)[Len(s) + 1] = x
  OBVIOUS

\* pop_front moves what is behind the front one place forward.
LEMMA FrontTaken ==
    ASSUME NEW S, NEW s \in Seq(S), s # <<>>
    PROVE  /\ Len(s) \in Nat /\ DOMAIN s = 1..Len(s) /\ 1 \in DOMAIN s
           /\ Head(s) = s[1] /\ s[1] \in S
           /\ Tail(s) \in Seq(S)
           /\ DOMAIN Tail(s) = 1..(Len(s) - 1)
           /\ \A i \in DOMAIN Tail(s) : i + 1 \in DOMAIN s /\ Tail(s)[i] = s[i + 1]
  OBVIOUS

\* Jobs that are each with another of the workers but w are fewer than the
\* workers.
LEMMA FewerThanWorkers ==
    ASSUME NEW S, NEW f, NEW w \in Workers,
           \A m \in S : \E v \in Workers \ {w} : f[v] = m
    PROVE  Cardinality(S) < Cardinality(Workers)
  <1> DEFINE Others == Workers \ {w}
             holder == [m \in S |-> CHOOSE v \in Others : f[v] = m]
  <1>1. IsFiniteSet(Workers)
    BY JobsAssumption
  <1>2. IsFiniteSet(Others) /\ Cardinality(Others) = Cardinality(Workers) - 1
    BY <1>1, FS_RemoveElement
  <1>3. \A m \in S : holder[m] \in Others /\ f[holder[m]] = m
    OBVIOUS
  <1>4. holder \in Injection(S, Others)
    BY <1>3 DEF Injection, IsInjective
  <1>5. IsFiniteSet(S) /\ Cardinality(S) <= Cardinality(Others)
    <2> HIDE DEF holder, Others
    <2> QED
      BY <1>2, <1>4, FS_Injection
  <1>6. Cardinality(S) \in Nat /\ Cardinality(Workers) \in Nat
    BY <1>1, <1>5, FS_CardinalityType
  <1> QED
    BY <1>2, <1>5, <1>6

\* The more is handled, the less is unfinished below n.
LEMMA UnfinishedShrinks ==
    ASSUME NEW n \in Nat, NEW H, NEW K, H \subseteq K
    PROVE  /\ Cardinality((1..(n - 1)) \ K) <= Cardinality((1..(n - 1)) \ H)
           /\ Cardinality((1..(n - 1)) \ K) \in Nat
           /\ Cardinality((1..(n - 1)) \ H) \in Nat
  <1>1. IsFiniteSet(1..(n - 1))
    BY FS_Interval
  <1>2. IsFiniteSet((1..(n - 1)) \ H)
    BY <1>1, FS_Difference
  <1>3. (1..(n - 1)) \ K \in SUBSET ((1..(n - 1)) \ H)
    OBVIOUS
  <1> QED
    BY <1>2, <1>3, FS_Subset, FS_CardinalityType

\* FewOvertaken stays as long as nothing that was handled is undone and no
\* packet is taken.
LEMMA FewStays ==
    ASSUME FewOvertaken, handled \subseteq handled', \A n \in Packets : Taken(n)' => Taken(n)
    PROVE  FewOvertaken'
  <1> SUFFICES ASSUME NEW n \in Packets, Taken(n)
               PROVE  Cardinality((1..(n - 1)) \ handled') < Cardinality(Workers)
    BY DEF FewOvertaken
  <1>1. n \in Nat
    BY JobsAssumption DEF Packets
  <1>2. Cardinality((1..(n - 1)) \ handled) < Cardinality(Workers)
    BY DEF FewOvertaken
  <1>3. Cardinality(Workers) \in Nat
    BY JobsAssumption, FS_CardinalityType
  <1>4. /\ Cardinality((1..(n - 1)) \ handled') <= Cardinality((1..(n - 1)) \ handled)
        /\ Cardinality((1..(n - 1)) \ handled') \in Nat
        /\ Cardinality((1..(n - 1)) \ handled) \in Nat
    BY <1>1, UnfinishedShrinks
  <1> QED
    BY <1>2, <1>3, <1>4

\* What the constants say about jobs.
LEMMA JobsAreDistinct ==
    /\ MaxPackets \in Nat /\ Packets \subseteq Nat
    /\ \A n \in Packets : n \notin Timers /\ n # NoJob
    /\ \A id \in Timers : id \notin Packets /\ id # NoJob
    /\ \A id \in Repeating : id \notin Once /\ id \in Timers
  BY JobsAssumption DEF Jobs, Timers, Packets

------------------------------------------------------------------------------
(* IInv is inductive.                                                      *)

\* At first nothing is posted and no timer is used.
LEMMA PoolInit == Init => IInv
  <1> SUFFICES ASSUME Init PROVE IInv
    OBVIOUS
  <1>1. TypeOK
    BY JobsAreDistinct DEF Init, TypeOK
  <1>2. OnePlace /\ CancelledWaitsEnd
    BY DEF Init, OnePlace, NoJobTwice, CancelledWaitsEnd
  <1>3. FirstComeFirstTaken /\ FewOvertaken
    BY JobsAreDistinct DEF Init, FirstComeFirstTaken, FewOvertaken, Taken
  <1> QED
    BY <1>1, <1>2, <1>3 DEF IInv

\* Start, Stop and Join touch no job.
LEMMA PoolStep ==
    ASSUME IInv, Start \/ Stop \/ Join
    PROVE  IInv'
  <1>1. /\ queue' = queue /\ at' = at /\ posted' = posted /\ handled' = handled
        /\ wait' = wait /\ table' = table /\ cancelled' = cancelled
        /\ pool' \in {"running", "stopped", "joined"}
    BY DEF Start, Stop, Join, timerVars
  <1>2. TypeOK'
    BY <1>1 DEF IInv, TypeOK
  <1>3. OnePlace'
    BY <1>1 DEF IInv, OnePlace, NoJobTwice, Waiting, Running
  <1>4. CancelledWaitsEnd'
    BY <1>1 DEF IInv, CancelledWaitsEnd
  <1>5. FirstComeFirstTaken'
    BY <1>1 DEF IInv, FirstComeFirstTaken, Taken
  <1>6. FewOvertaken'
    BY <1>1 DEF IInv, FewOvertaken, Taken
  <1> QED
    BY <1>2, <1>3, <1>4, <1>5, <1>6 DEF IInv

\* A packet that comes is behind all that came before it.
LEMMA PostStep ==
    ASSUME IInv, Post
    PROVE  IInv'
  <1>0. PICK new, last : new = posted + 1 /\ last = Len(queue) + 1
    OBVIOUS
  <1>1. /\ pool' = pool /\ at' = at /\ handled' = handled
        /\ wait' = wait /\ table' = table /\ cancelled' = cancelled
        /\ posted < MaxPackets /\ posted' = new
        /\ queue' = Append(queue, [job |-> new, ok |-> TRUE])
    BY <1>0 DEF Post, timerVars, Handler
  <1>2. /\ posted \in Nat /\ new \in Packets /\ new \in Nat /\ posted < new
        /\ 1..new = (1..posted) \union {new} /\ 1..posted \subseteq Packets
        /\ handled \subseteq 1..posted /\ new \notin 1..posted
    BY <1>0, <1>1, JobsAreDistinct DEF IInv, TypeOK, Packets
  <1>3. [job |-> new, ok |-> TRUE] \in [job : Jobs, ok : BOOLEAN]
    BY <1>2 DEF Jobs
  <1>4. /\ queue' \in Seq([job : Jobs, ok : BOOLEAN])
        /\ last \notin DOMAIN queue /\ DOMAIN queue' = DOMAIN queue \union {last}
        /\ \A i \in DOMAIN queue : i \in Nat /\ i < last /\ queue'[i] = queue[i]
        /\ queue'[last].job = new /\ last \in Nat
    BY <1>0, <1>1, <1>3, BackPut DEF IInv, TypeOK
  <1>5. /\ \A i \in DOMAIN queue : queue[i].job # new
        /\ \A w \in Workers : at[w] # new
    BY <1>2, JobsAreDistinct DEF IInv, OnePlace, Waiting, Running
  <1>6. TypeOK'
    BY <1>1, <1>2, <1>4, JobsAreDistinct DEF IInv, TypeOK, Packets
  <1>7. \A job : (Waiting(job) => Waiting(job)') /\ (Running(job) => Running(job)')
    BY <1>1, <1>2 DEF Waiting, Running
  <1>8. Waiting(new)'
    BY <1>1, <1>2 DEF Waiting
  <1>9. OnePlace'
    BY <1>1, <1>4, <1>5, <1>7, <1>8 DEF IInv, OnePlace, NoJobTwice
  <1>10. CancelledWaitsEnd'
    BY <1>1, <1>2, <1>4, JobsAreDistinct DEF IInv, CancelledWaitsEnd
  <1>11. \A n : Taken(n)' = Taken(n)
    BY <1>1 DEF Taken
  <1>12. FirstComeFirstTaken'
    <2>1. \A n \in 1..posted' : Taken(n)' \/ \E i \in DOMAIN queue' : queue'[i].job = n
      <3> SUFFICES ASSUME NEW n \in 1..new
                   PROVE  Taken(n)' \/ \E i \in DOMAIN queue' : queue'[i].job = n
        BY <1>1
      <3>1. CASE n \in 1..posted
        <4>1. Taken(n) \/ \E i \in DOMAIN queue : queue[i].job = n
          BY <3>1 DEF IInv, FirstComeFirstTaken
        <4> QED
          BY <1>4, <1>11, <4>1
      <3>2. CASE n = new
        <4>1. last \in DOMAIN queue' /\ queue'[last].job = n
          BY <1>4, <3>2
        <4> QED
          BY <4>1
      <3> QED
        BY <1>2, <3>1, <3>2
    <2>2. \A i \in DOMAIN queue : queue[i].job \in Packets => queue[i].job < new
      BY <1>2, JobsAreDistinct DEF IInv, OnePlace, Waiting
    <2>3. \A n \in Packets : Taken(n) => n < new
      BY <1>2, JobsAreDistinct DEF IInv, OnePlace, Running, Taken
    <2> QED
      BY <1>4, <1>11, <2>1, <2>2, <2>3 DEF IInv, FirstComeFirstTaken
  <1>13. FewOvertaken'
    BY <1>1, <1>11, FewStays DEF IInv
  <1> QED
    BY <1>6, <1>9, <1>10, <1>12, <1>13 DEF IInv

\* What every Take does to the queue: the front leaves it, and nobody else has
\* the front's job.
LEMMA TakeFront ==
    ASSUME IInv, NEW w \in Workers, Take(w)
    PROVE  /\ at[w] = NoJob
           /\ pool' = pool /\ posted' = posted /\ handled' = handled
           /\ table' = table /\ cancelled' = cancelled
           /\ queue' \in Seq([job : Jobs, ok : BOOLEAN])
           /\ 1 \in DOMAIN queue /\ Head(queue) = queue[1]
           /\ queue[1].job \in Jobs /\ Waiting(queue[1].job)
           /\ \A i \in DOMAIN queue' : /\ i \in Nat /\ i + 1 \in Nat /\ i + 1 \in DOMAIN queue
                                       /\ queue'[i] = queue[i + 1]
                                       /\ queue'[i].job # queue[1].job
           /\ \A i \in DOMAIN queue : i = 1 \/ \E j \in DOMAIN queue' : i = j + 1
           /\ \A v \in Workers : at[v] # queue[1].job
  <1>1. /\ at[w] = NoJob /\ queue # <<>> /\ queue' = Tail(queue)
        /\ pool' = pool /\ posted' = posted /\ handled' = handled
        /\ table' = table /\ cancelled' = cancelled
    BY DEF Take
  <1>2. queue \in Seq([job : Jobs, ok : BOOLEAN])
    BY DEF IInv, TypeOK
  <1>3. /\ Len(queue) \in Nat /\ DOMAIN queue = 1..Len(queue) /\ 1 \in DOMAIN queue
        /\ Head(queue) = queue[1] /\ queue[1] \in [job : Jobs, ok : BOOLEAN]
        /\ queue' \in Seq([job : Jobs, ok : BOOLEAN])
        /\ DOMAIN queue' = 1..(Len(queue) - 1)
        /\ \A i \in DOMAIN queue' : i + 1 \in DOMAIN queue /\ queue'[i] = queue[i + 1]
    BY <1>1, <1>2, FrontTaken
  <1>4. \A i \in DOMAIN queue' : i \in Nat /\ i + 1 \in Nat /\ i + 1 # 1
    BY <1>3
  <1>5. \A i \in DOMAIN queue : i = 1 \/ \E j \in DOMAIN queue' : i = j + 1
    <2> SUFFICES ASSUME NEW i \in DOMAIN queue, i # 1
                 PROVE  i - 1 \in DOMAIN queue' /\ i = (i - 1) + 1
      OBVIOUS
    <2> QED
      BY <1>3
  <1>6. /\ Waiting(queue[1].job)
        /\ \A j \in DOMAIN queue : queue[1].job = queue[j].job => 1 = j
        /\ \A v \in Workers : at[v] # queue[1].job
    BY <1>3 DEF IInv, OnePlace
  <1> QED
    BY <1>1, <1>3, <1>4, <1>5, <1>6

\* A worker takes a packet: those before it that are unfinished are with other
\* workers.
LEMMA TakePacketStep ==
    ASSUME IInv, NEW w \in Workers, Take(w), Head(queue).job \in Packets
    PROVE  IInv'
  <1>0. PICK job : job = queue[1].job
    OBVIOUS
  <1>1. /\ at[w] = NoJob
        /\ pool' = pool /\ posted' = posted /\ handled' = handled
        /\ table' = table /\ cancelled' = cancelled
        /\ queue' \in Seq([job : Jobs, ok : BOOLEAN])
        /\ 1 \in DOMAIN queue /\ Waiting(job)
        /\ \A i \in DOMAIN queue' : /\ i \in Nat /\ i + 1 \in Nat /\ i + 1 \in DOMAIN queue
                                    /\ queue'[i] = queue[i + 1]
                                    /\ queue'[i].job # job
        /\ \A i \in DOMAIN queue : i = 1 \/ \E j \in DOMAIN queue' : i = j + 1
        /\ \A v \in Workers : at[v] # job
    BY <1>0, TakeFront
  <1>2. job \in Packets
    BY <1>0, TakeFront
  <1>3. at' = [at EXCEPT ![w] = job] /\ wait' = wait
    BY <1>0, <1>2, TakeFront, JobsAreDistinct DEF Take
  <1>4. job \in Jobs /\ job \in Nat /\ job # NoJob /\ job \notin Timers
        /\ job \in (1..posted) \ handled
    BY <1>1, <1>2, JobsAreDistinct DEF Jobs, Waiting
  <1>5. TypeOK'
    BY <1>1, <1>3, <1>4 DEF IInv, TypeOK
  <1>6. at'[w] = job /\ \A v \in Workers : v # w => at'[v] = at[v]
    BY <1>3 DEF IInv, TypeOK
  <1>7. \A x : Waiting(x)' = Waiting(x) /\ Running(x)' = Running(x)
    BY <1>1, <1>3 DEF Waiting, Running
  <1>8. OnePlace'
    <2>1. NoJobTwice'
      BY <1>1, <1>6 DEF IInv, OnePlace, NoJobTwice
    <2>2. \A i \in DOMAIN queue' :
             /\ Waiting(queue'[i].job)
             /\ \A j \in DOMAIN queue' : queue'[i].job = queue'[j].job => i = j
             /\ \A v \in Workers : at'[v] # queue'[i].job
      BY <1>1, <1>6 DEF IInv, OnePlace
    <2>3. Running(job)
      BY <1>4 DEF Running
    <2>4. \A v \in Workers : at'[v] # NoJob => Running(at'[v])
      BY <1>6, <2>3 DEF IInv, OnePlace
    <2>5. \A x : Waiting(x) => Waiting(x)'
      BY <1>7
    <2> QED
      BY <1>1, <1>3, <2>1, <2>2, <2>4 DEF OnePlace, Waiting, Running
  <1>9. CancelledWaitsEnd'
    BY <1>1, <1>3 DEF IInv, CancelledWaitsEnd
  <1>10. \A n \in Packets : Taken(n)' <=> Taken(n) \/ n = job
    BY <1>1, <1>4, <1>6, JobsAreDistinct DEF Taken, IInv, TypeOK
  <1>11. FirstComeFirstTaken'
    <2>1. \A n \in 1..posted' : Taken(n)' \/ \E i \in DOMAIN queue' : queue'[i].job = n
      <3>1. 1..posted \subseteq Packets
        BY JobsAreDistinct DEF Packets, IInv, TypeOK
      <3> QED
        BY <1>0, <1>1, <1>10, <3>1 DEF IInv, FirstComeFirstTaken
    <2>2. ASSUME NEW i \in DOMAIN queue', queue'[i].job \in Packets
          PROVE  /\ \A j \in DOMAIN queue' :
                       i < j /\ queue'[j].job \in Packets => queue'[i].job < queue'[j].job
                 /\ \A n \in Packets : Taken(n) \/ n = job => n < queue'[i].job
      <3>1. /\ i + 1 \in DOMAIN queue /\ queue'[i] = queue[i + 1] /\ i \in Nat /\ 1 < i + 1
        BY <1>1, <2>2
      <3>2. job < queue[i + 1].job
        BY <1>0, <1>1, <1>2, <2>2, <3>1 DEF IInv, FirstComeFirstTaken
      <3>3. \A n \in Packets : Taken(n) => n < queue[i + 1].job
        BY <2>2, <3>1 DEF IInv, FirstComeFirstTaken
      <3>4. \A j \in DOMAIN queue' :
               i < j /\ queue'[j].job \in Packets => queue'[i].job < queue'[j].job
        <4> SUFFICES ASSUME NEW j \in DOMAIN queue', i < j, queue'[j].job \in Packets
                     PROVE  queue'[i].job < queue'[j].job
          OBVIOUS
        <4>1. j + 1 \in DOMAIN queue /\ queue'[j] = queue[j + 1] /\ i + 1 < j + 1
          BY <1>1, <3>1
        <4> QED
          BY <2>2, <3>1, <4>1 DEF IInv, FirstComeFirstTaken
      <3> QED
        BY <3>1, <3>2, <3>3, <3>4
    <2> QED
      BY <1>10, <2>1, <2>2 DEF FirstComeFirstTaken
  <1>12. FewOvertaken'
    <2>1. \A m \in (1..(job - 1)) \ handled : \E v \in Workers \ {w} : at[v] = m
      <3> SUFFICES ASSUME NEW m \in 1..(job - 1), m \notin handled
                   PROVE  \E v \in Workers : at[v] = m /\ v # w
        OBVIOUS
      <3>1. m \in 1..posted /\ m \in Nat /\ m < job /\ m \in Packets
        BY <1>4, JobsAreDistinct DEF Packets, IInv, TypeOK
      <3>2. ~ \E i \in DOMAIN queue : queue[i].job = m
        <4> SUFFICES ASSUME NEW i \in DOMAIN queue, queue[i].job = m PROVE FALSE
          OBVIOUS
        <4>1. i # 1 /\ i \in Nat /\ 1 < i
          BY <1>0, <1>1, <3>1, <1>4
        <4>2. job < m
          BY <1>0, <1>1, <1>2, <3>1, <4>1 DEF IInv, FirstComeFirstTaken
        <4> QED
          BY <1>4, <3>1, <4>2
      <3>3. Taken(m)
        BY <3>1, <3>2 DEF IInv, FirstComeFirstTaken
      <3>4. m # NoJob
        BY <3>1, JobsAreDistinct
      <3> QED
        BY <1>1, <3>3, <3>4 DEF Taken
    <2>2. Cardinality((1..(job - 1)) \ handled) < Cardinality(Workers)
      BY <2>1, FewerThanWorkers
    <2> QED
      BY <1>1, <1>10, <2>2 DEF IInv, FewOvertaken
  <1> QED
    BY <1>5, <1>8, <1>9, <1>11, <1>12 DEF IInv

\* What a step leaves of FirstComeFirstTaken if it moves no packet: it may take
\* the front, or put a timer's handler behind the others.
LEMMA OrderStays ==
    ASSUME IInv, posted' = posted, \A n \in Packets : Taken(n)' <=> Taken(n),
           \/ queue' = queue
           \/ /\ queue # <<>> /\ queue[1].job \in Timers
              /\ queue' = Tail(queue)
           \/ \E h \in [job : Timers, ok : BOOLEAN] : queue' = Append(queue, h)
    PROVE  FirstComeFirstTaken'
  <1>1. 1..posted \subseteq Packets
    BY JobsAreDistinct DEF Packets, IInv, TypeOK
  <1>2. queue \in Seq([job : Jobs, ok : BOOLEAN])
    BY DEF IInv, TypeOK
  <1>3. CASE queue' = queue
    BY <1>1, <1>3 DEF IInv, FirstComeFirstTaken
  <1>4. CASE queue # <<>> /\ queue[1].job \in Timers /\ queue' = Tail(queue)
    <2>1. /\ Len(queue) \in Nat /\ DOMAIN queue = 1..Len(queue)
          /\ DOMAIN queue' = 1..(Len(queue) - 1)
          /\ \A i \in DOMAIN queue' : i + 1 \in DOMAIN queue /\ queue'[i] = queue[i + 1]
      BY <1>2, <1>4, FrontTaken
    <2>2. ASSUME NEW i \in DOMAIN queue, queue[i].job \in Packets
          PROVE  i - 1 \in DOMAIN queue' /\ queue'[i - 1] = queue[i]
      <3>1. i # 1
        BY <1>4, <2>2, JobsAreDistinct
      <3>2. PICK n \in Nat : n = Len(queue) /\ i \in 1..n
        BY <2>1
      <3>3. i - 1 \in 1..(n - 1) /\ (i - 1) + 1 = i
        BY <3>1, <3>2
      <3> QED
        BY <2>1, <3>2, <3>3
    <2>3. \A n \in 1..posted : Taken(n) \/ \E i \in DOMAIN queue' : queue'[i].job = n
      BY <1>1, <2>2 DEF IInv, FirstComeFirstTaken
    <2>4. ASSUME NEW i \in DOMAIN queue', NEW j \in DOMAIN queue',
                 i < j, queue'[i].job \in Packets, queue'[j].job \in Packets
          PROVE  queue'[i].job < queue'[j].job
      <3>1. /\ i + 1 \in DOMAIN queue /\ queue'[i] = queue[i + 1]
            /\ j + 1 \in DOMAIN queue /\ queue'[j] = queue[j + 1]
        BY <2>1, <2>4
      <3>2. i \in Nat /\ j \in Nat /\ i + 1 < j + 1
        <4>1. PICK n \in Nat : DOMAIN queue' = 1..(n - 1)
          BY <2>1
        <4>2. i \in 1..(n - 1) /\ j \in 1..(n - 1)
          BY <4>1
        <4> QED
          BY <2>4, <4>2
      <3> QED
        BY <2>4, <3>1, <3>2 DEF IInv, FirstComeFirstTaken
    <2>5. ASSUME NEW i \in DOMAIN queue', NEW n \in Packets, Taken(n), queue'[i].job \in Packets
          PROVE  n < queue'[i].job
      BY <2>1, <2>5 DEF IInv, FirstComeFirstTaken
    <2> QED
      BY <1>1, <2>3, <2>4, <2>5 DEF FirstComeFirstTaken
  <1>5. CASE \E h \in [job : Timers, ok : BOOLEAN] : queue' = Append(queue, h)
    <2>1. PICK h \in [job : Timers, ok : BOOLEAN] : queue' = Append(queue, h)
      BY <1>5
    <2>2. h \in [job : Jobs, ok : BOOLEAN] /\ h.job \notin Packets
      BY JobsAreDistinct DEF Jobs
    <2>3. /\ Len(queue) \in Nat /\ DOMAIN queue = 1..Len(queue)
          /\ DOMAIN queue' = 1..(Len(queue) + 1)
          /\ \A i \in DOMAIN queue : queue'[i] = queue[i]
          /\ queue'[Len(queue) + 1] = h
      BY <1>2, <2>1, <2>2, BackPut
    <2>4. DOMAIN queue \subseteq DOMAIN queue' /\
          \A i \in DOMAIN queue' : i \in DOMAIN queue \/ queue'[i].job \notin Packets
      <3>1. PICK n \in Nat : n = Len(queue)
        BY <2>3
      <3>2. 1..(n + 1) = (1..n) \union {n + 1}
        OBVIOUS
      <3> QED
        BY <2>2, <2>3, <3>1, <3>2
    <2>5. \A n \in 1..posted : Taken(n) \/ \E i \in DOMAIN queue' : queue'[i].job = n
      BY <2>3, <2>4 DEF IInv, FirstComeFirstTaken
    <2> QED
      BY <1>1, <2>3, <2>4, <2>5 DEF IInv, FirstComeFirstTaken
  <1> QED
    BY <1>3, <1>4, <1>5

\* A worker takes a timer's handler: the task runs, or the wait that was
\* cancelled ends.
LEMMA TakeTimerStep ==
    ASSUME IInv, NEW w \in Workers, Take(w), Head(queue).job \in Timers
    PROVE  IInv'
  <1>0. PICK job, ok : job = queue[1].job /\ ok = queue[1].ok
    OBVIOUS
  <1>1. /\ at[w] = NoJob
        /\ pool' = pool /\ posted' = posted /\ handled' = handled
        /\ table' = table /\ cancelled' = cancelled
        /\ queue' \in Seq([job : Jobs, ok : BOOLEAN])
        /\ 1 \in DOMAIN queue /\ Waiting(job)
        /\ \A i \in DOMAIN queue' : /\ i \in Nat /\ i + 1 \in Nat /\ i + 1 \in DOMAIN queue
                                    /\ queue'[i] = queue[i + 1]
                                    /\ queue'[i].job # job
        /\ \A v \in Workers : at[v] # job
    BY <1>0, TakeFront
  <1>2. job \in Timers /\ job \notin Packets /\ job # NoJob
    BY <1>0, TakeFront, JobsAreDistinct
  <1>3. /\ queue # <<>> /\ queue' = Tail(queue)
        /\ \/ ok /\ at' = [at EXCEPT ![w] = job] /\ wait' = [wait EXCEPT ![job] = "running"]
           \/ ~ok /\ at' = at /\ wait' = [wait EXCEPT ![job] = "ended"]
    BY <1>0, <1>2, TakeFront DEF Take, SetWait
  <1>4. job \in Jobs
    BY <1>2 DEF Jobs
  <1>5. /\ \A v \in Workers : v # w => at'[v] = at[v]
        /\ at'[w] = NoJob \/ (at'[w] = job /\ wait'[job] = "running")
        /\ \A id \in Timers : id # job => wait'[id] = wait[id]
    BY <1>1, <1>2, <1>3 DEF IInv, TypeOK
  <1>5a. ok \/ wait'[job] = "ended"
    BY <1>2, <1>3, Zenon DEF IInv, TypeOK
  <1>6. TypeOK'
    BY <1>1, <1>2, <1>3, <1>4 DEF IInv, TypeOK
  <1>7. \A x : x # job => (Waiting(x) => Waiting(x)') /\ (Running(x) => Running(x)')
    BY <1>1, <1>5 DEF Waiting, Running
  <1>8. OnePlace'
    <2>1. NoJobTwice'
      BY <1>1, <1>5 DEF IInv, OnePlace, NoJobTwice
    <2>2. \A i \in DOMAIN queue' : queue'[i].job # job /\ Waiting(queue'[i].job)
      BY <1>1 DEF IInv, OnePlace
    <2>3. \A i, j \in DOMAIN queue' : queue'[i].job = queue'[j].job => i = j
      BY <1>1 DEF IInv, OnePlace
    <2>4. \A i \in DOMAIN queue', v \in Workers : at'[v] # queue'[i].job
      <3> SUFFICES ASSUME NEW i \in DOMAIN queue', NEW v \in Workers
                   PROVE  at'[v] # queue'[i].job
        OBVIOUS
      <3>1. CASE v # w
        BY <1>1, <1>5, <3>1 DEF IInv, OnePlace
      <3>2. CASE v = w
        BY <1>1, <1>5, <3>2 DEF IInv, OnePlace
      <3> QED
        BY <3>1, <3>2
    <2>5. ASSUME NEW v \in Workers, at'[v] # NoJob
          PROVE  \/ at'[v] \in (1..posted') \ handled'
                 \/ at'[v] \in Timers /\ wait'[at'[v]] = "running"
      <3>1. CASE v # w
        BY <1>1, <1>5, <2>5, <3>1 DEF IInv, OnePlace, Running
      <3>2. CASE v = w
        BY <1>2, <1>5, <2>5, <3>2
      <3> QED
        BY <3>1, <3>2
    <2>6. ASSUME NEW i \in DOMAIN queue'
          PROVE  \/ queue'[i].job \in (1..posted') \ handled'
                 \/ queue'[i].job \in Timers /\ wait'[queue'[i].job] = "queued"
      BY <1>1, <1>5, <2>2 DEF Waiting
    <2> QED
      BY <2>1, <2>3, <2>4, <2>5, <2>6 DEF OnePlace, Running, Waiting
  <1>9. CancelledWaitsEnd'
    <2>1. \A id \in Repeating : cancelled[id] = "inTime" /\ id = job => ~ok
      BY <1>0, <1>1 DEF IInv, CancelledWaitsEnd
    <2> QED
      BY <1>1, <1>5, <1>5a, <2>1, JobsAreDistinct DEF IInv, CancelledWaitsEnd
  <1>10. \A n \in Packets : Taken(n)' <=> Taken(n)
    <2> SUFFICES ASSUME NEW n \in Packets PROVE Taken(n)' <=> Taken(n)
      OBVIOUS
    <2>1. n # job /\ n # NoJob
      BY <1>2, JobsAreDistinct
    <2>2. at[w] # n /\ at'[w] # n
      BY <1>1, <1>5, <2>1
    <2>3. \A v \in Workers : at'[v] = n <=> at[v] = n
      BY <1>5, <2>2
    <2> QED
      BY <1>1, <2>3 DEF Taken
  <1>11. FirstComeFirstTaken'
    BY <1>0, <1>1, <1>2, <1>3, <1>10, OrderStays
  <1>12. FewOvertaken'
    BY <1>1, <1>10, FewStays DEF IInv
  <1> QED
    BY <1>6, <1>8, <1>9, <1>11, <1>12 DEF IInv

\* A handler returns: its packet is handled, and its worker is idle.
LEMMA FinishPacketStep ==
    ASSUME IInv, NEW w \in Workers, FinishPacket(w)
    PROVE  IInv'
  <1>0. PICK job : job = at[w]
    OBVIOUS
  <1>1. /\ job \in Packets /\ handled' = handled \union {job}
        /\ at' = [at EXCEPT ![w] = NoJob]
        /\ pool' = pool /\ queue' = queue /\ posted' = posted
        /\ wait' = wait /\ table' = table /\ cancelled' = cancelled
    BY <1>0 DEF FinishPacket, timerVars
  <1>2. /\ job # NoJob /\ job \notin Timers /\ job \in (1..posted) \ handled
        /\ \A i \in DOMAIN queue : queue[i].job # job
        /\ \A v \in Workers : v # w => at[v] # job
    BY <1>0, <1>1, JobsAreDistinct DEF IInv, OnePlace, NoJobTwice, Running
  <1>3. /\ at'[w] = NoJob
        /\ \A v \in Workers : v # w => at'[v] = at[v]
    BY <1>1 DEF IInv, TypeOK
  <1>4. TypeOK'
    BY <1>1, <1>2 DEF IInv, TypeOK
  <1>5. OnePlace'
    <2>1. NoJobTwice'
      BY <1>3 DEF IInv, OnePlace, NoJobTwice
    <2>2. \A i \in DOMAIN queue : Waiting(queue[i].job)'
      BY <1>1, <1>2 DEF IInv, OnePlace, Waiting
    <2>3. \A i \in DOMAIN queue : Waiting(queue'[i].job)
      BY <1>1 DEF IInv, OnePlace
    <2>4. ASSUME NEW v \in Workers, at'[v] # NoJob
          PROVE  Running(at'[v]) /\ at'[v] # job
      BY <1>2, <1>3, <2>4 DEF IInv, OnePlace
    <2>5. \A i, j \in DOMAIN queue : queue[i].job = queue[j].job => i = j
      BY DEF IInv, OnePlace
    <2>6. \A i \in DOMAIN queue, v \in Workers : at'[v] # queue[i].job
      <3>1. \A i \in DOMAIN queue : queue[i].job # NoJob
        BY <1>2, JobsAreDistinct DEF IInv, OnePlace, Waiting, TypeOK, Jobs, Packets
      <3> QED
        BY <1>3, <3>1 DEF IInv, OnePlace
    <2> QED
      BY <1>1, <1>2, <2>1, <2>3, <2>4, <2>5, <2>6 DEF OnePlace, Waiting, Running
  <1>6. CancelledWaitsEnd'
    BY <1>1 DEF IInv, CancelledWaitsEnd
  <1>7. \A n \in Packets : Taken(n)' <=> Taken(n)
    <2> SUFFICES ASSUME NEW n \in Packets PROVE Taken(n)' <=> Taken(n)
      OBVIOUS
    <2>1. n # NoJob
      BY JobsAreDistinct
    <2>2. CASE n = job
      BY <1>0, <1>1, <2>2 DEF Taken
    <2>3. CASE n # job
      BY <1>0, <1>1, <1>3, <2>1, <2>3 DEF Taken
    <2> QED
      BY <2>2, <2>3
  <1>8. FirstComeFirstTaken'
    BY <1>1, <1>7, OrderStays
  <1>9. FewOvertaken'
    BY <1>1, <1>7, FewStays DEF IInv
  <1> QED
    BY <1>4, <1>5, <1>6, <1>8, <1>9 DEF IInv

\* The wait of a timer that is not in the queue changes: it is scheduled, or
\* the worker that ran it is done with it.
LEMMA WaitChanges ==
    ASSUME IInv, NEW id \in Timers,
           NEW state \in {"created", "pending", "ended"},
           wait' = [wait EXCEPT ![id] = state],
           pool' = pool, queue' = queue, posted' = posted, handled' = handled,
           cancelled' = cancelled,
           table' \subseteq Repeating, table' \subseteq table \union {id},
           \/ wait[id] \in {"unused", "created"} /\ at' = at
           \/ \E w \in Workers : at[w] = id /\ at' = [at EXCEPT ![w] = NoJob]
    PROVE  IInv'
  <1>1. /\ id # NoJob /\ id \notin Packets
        /\ wait[id] \in {"unused", "created", "running"}
    BY JobsAreDistinct DEF IInv, OnePlace, Running, TypeOK, Packets
  <1>2. /\ wait'[id] = state
        /\ \A x \in Timers : x # id => wait'[x] = wait[x]
    BY DEF IInv, TypeOK
  <1>3. /\ \A v \in Workers : at'[v] = NoJob \/ (at'[v] = at[v] /\ at[v] # id)
        /\ \A v \in Workers : at[v] = at'[v] \/ at[v] = id
    <2>1. CASE wait[id] \in {"unused", "created"} /\ at' = at
      <3>1. ~(id \in 1..posted)
        BY <1>1, JobsAreDistinct DEF IInv, TypeOK, Packets
      <3> QED
        BY <1>1, <2>1, <3>1 DEF IInv, OnePlace, Running
    <2>2. CASE \E w \in Workers : at[w] = id /\ at' = [at EXCEPT ![w] = NoJob]
      BY <1>1, <2>2 DEF IInv, OnePlace, NoJobTwice, TypeOK
    <2> QED
      BY <2>1, <2>2
  <1>4. TypeOK'
    BY DEF IInv, TypeOK
  <1>5. \A i \in DOMAIN queue : queue[i].job # id
    <2>1. ~(id \in 1..posted)
      BY <1>1, JobsAreDistinct DEF IInv, TypeOK, Packets
    <2> QED
      BY <1>1, <2>1 DEF IInv, OnePlace, Waiting
  <1>6. OnePlace'
    <2>1. NoJobTwice'
      BY <1>3 DEF IInv, OnePlace, NoJobTwice
    <2>2. \A i \in DOMAIN queue : Waiting(queue'[i].job)
      BY DEF IInv, OnePlace
    <2>3. ASSUME NEW v \in Workers, at'[v] # NoJob
          PROVE  Running(at'[v]) /\ at'[v] # id
      BY <1>3, <2>3 DEF IInv, OnePlace
    <2>4. \A i, j \in DOMAIN queue : queue[i].job = queue[j].job => i = j
      BY DEF IInv, OnePlace
    <2>5. \A i \in DOMAIN queue, v \in Workers : at'[v] # queue[i].job
      <3>1. \A i \in DOMAIN queue : queue[i].job # NoJob
        BY JobsAreDistinct DEF IInv, OnePlace, Waiting, TypeOK, Packets
      <3> QED
        BY <1>3, <3>1 DEF IInv, OnePlace
    <2> QED
      BY <1>2, <1>5, <2>1, <2>2, <2>3, <2>4, <2>5 DEF OnePlace, Waiting, Running
  <1>7. CancelledWaitsEnd'
    BY <1>1, <1>2, JobsAreDistinct DEF IInv, CancelledWaitsEnd
  <1>8. \A n \in Packets : Taken(n)' <=> Taken(n)
    BY <1>1, <1>3, JobsAreDistinct DEF Taken
  <1>9. FirstComeFirstTaken'
    BY <1>8, OrderStays
  <1>10. FewOvertaken'
    BY <1>8, FewStays DEF IInv
  <1> QED
    BY <1>4, <1>6, <1>7, <1>9, <1>10 DEF IInv

\* The wait of a timer is over: its handler goes to the back of the queue, ok if
\* the timer expired, not ok if Cancel found its wait pending.
LEMMA WaitIsOver ==
    ASSUME IInv, NEW id \in Timers, NEW ok \in BOOLEAN,
           wait[id] = "pending", wait' = [wait EXCEPT ![id] = "queued"],
           queue' = Append(queue, Handler(id, ok)),
           pool' = pool, at' = at, posted' = posted, handled' = handled,
           \/ table' = table /\ cancelled' = cancelled
           \/ /\ ok = FALSE /\ id \in Repeating
              /\ table' = table \ {id}
              /\ cancelled' = [cancelled EXCEPT ![id] = "inTime"]
    PROVE  IInv'
  <1>0. PICK last : last = Len(queue) + 1
    OBVIOUS
  <1>1. /\ id # NoJob /\ id \notin Packets /\ ~(id \in 1..posted)
    BY JobsAreDistinct DEF IInv, TypeOK, Packets
  <1>2. /\ wait'[id] = "queued"
        /\ \A x \in Timers : x # id => wait'[x] = wait[x]
    BY DEF IInv, TypeOK
  <1>3. /\ Handler(id, ok) \in [job : Timers, ok : BOOLEAN]
        /\ Handler(id, ok) \in [job : Jobs, ok : BOOLEAN]
        /\ Handler(id, ok).job = id /\ Handler(id, ok).ok = ok
    BY DEF Handler, Jobs
  <1>4. /\ queue' \in Seq([job : Jobs, ok : BOOLEAN])
        /\ last \notin DOMAIN queue /\ DOMAIN queue' = DOMAIN queue \union {last}
        /\ \A i \in DOMAIN queue : queue'[i] = queue[i]
        /\ queue'[last] = Handler(id, ok)
    BY <1>0, <1>3, BackPut DEF IInv, TypeOK
  <1>5. /\ \A i \in DOMAIN queue : queue[i].job # id
        /\ \A w \in Workers : at[w] # id
    BY <1>1 DEF IInv, OnePlace, Waiting, Running
  <1>6. TypeOK'
    BY <1>4 DEF IInv, TypeOK
  <1>7. OnePlace'
    <2>1. NoJobTwice'
      BY DEF IInv, OnePlace, NoJobTwice
    <2>2. \A i \in DOMAIN queue' : i = last \/ (queue'[i].job # id /\ Waiting(queue'[i].job))
      BY <1>4, <1>5 DEF IInv, OnePlace
    <2>3. \A i, j \in DOMAIN queue' : queue'[i].job = queue'[j].job => i = j
      BY <1>3, <1>4, <1>5 DEF IInv, OnePlace
    <2>4. \A i \in DOMAIN queue', v \in Workers : at'[v] # queue'[i].job
      BY <1>3, <1>4, <1>5 DEF IInv, OnePlace
    <2>5. \A v \in Workers : at'[v] # NoJob => Running(at'[v]) /\ at'[v] # id
      BY <1>5 DEF IInv, OnePlace
    <2> QED
      BY <1>2, <1>3, <1>4, <2>1, <2>2, <2>3, <2>4, <2>5 DEF OnePlace, Waiting, Running
  <1>8. CancelledWaitsEnd'
    <2> SUFFICES ASSUME NEW x \in Repeating, cancelled'[x] = "inTime"
                 PROVE  /\ x \notin table'
                        /\ wait'[x] \in {"queued", "ended"}
                        /\ \A i \in DOMAIN queue' : queue'[i].job = x => ~queue'[i].ok
      BY DEF CancelledWaitsEnd
    <2>1. CASE x # id
      <3>1. cancelled[x] = "inTime" /\ table' \subseteq table
        BY <2>1 DEF IInv, TypeOK
      <3> QED
        BY <1>2, <1>3, <1>4, <2>1, <3>1, JobsAreDistinct DEF IInv, CancelledWaitsEnd
    <2>2. CASE x = id
      <3>1. cancelled[x] # "inTime"
        BY <2>2 DEF IInv, CancelledWaitsEnd
      <3>2. ok = FALSE /\ x \notin table'
        BY <2>2, <3>1
      <3> QED
        BY <1>2, <1>3, <1>4, <1>5, <2>2, <3>2
    <2> QED
      BY <2>1, <2>2
  <1>9. \A n \in Packets : Taken(n)' <=> Taken(n)
    BY DEF Taken
  <1>10. FirstComeFirstTaken'
    BY <1>3, <1>9, OrderStays
  <1>11. FewOvertaken'
    BY <1>9, FewStays DEF IInv
  <1> QED
    BY <1>6, <1>7, <1>8, <1>10, <1>11 DEF IInv

\* The timers' steps that put nothing in the queue.
LEMMA TimerStep ==
    ASSUME IInv,
           \/ \E w \in Workers : FinishOnce(w) \/ Rearm(w)
           \/ \E id \in Once : ScheduleOnce(id)
           \/ \E id \in Repeating : InsertRepeat(id) \/ WaitRepeat(id)
    PROVE  IInv'
  <1>1. ASSUME NEW w \in Workers, FinishOnce(w) \/ Rearm(w) PROVE IInv'
    <2>1. PICK id : id = at[w]
      OBVIOUS
    <2>2. PICK state \in {"ended", "pending"} : wait' = [wait EXCEPT ![id] = state]
      BY <1>1, <2>1 DEF FinishOnce, Rearm, SetWait
    <2>3. /\ id \in Timers /\ at' = [at EXCEPT ![w] = NoJob]
          /\ pool' = pool /\ queue' = queue /\ posted' = posted /\ handled' = handled
          /\ table' = table /\ cancelled' = cancelled
      BY <1>1, <2>1 DEF FinishOnce, Rearm, Timers
    <2>4. table' \subseteq Repeating /\ table' \subseteq table \union {id}
      BY <2>3 DEF IInv, TypeOK
    <2> QED
      BY <2>1, <2>2, <2>3, <2>4, WaitChanges
  <1>2. ASSUME NEW id \in Once, ScheduleOnce(id) PROVE IInv'
    <2>1. /\ id \in Timers /\ wait[id] = "unused"
          /\ wait' = [wait EXCEPT ![id] = "pending"]
          /\ pool' = pool /\ queue' = queue /\ at' = at
          /\ posted' = posted /\ handled' = handled
          /\ table' = table /\ cancelled' = cancelled
      BY <1>2 DEF ScheduleOnce, SetWait, poolVars, Timers
    <2>2. table' \subseteq Repeating /\ table' \subseteq table \union {id}
      BY <2>1 DEF IInv, TypeOK
    <2> QED
      BY <2>1, <2>2, WaitChanges
  <1>3. ASSUME NEW id \in Repeating, InsertRepeat(id) \/ WaitRepeat(id) PROVE IInv'
    <2>1. PICK state \in {"created", "pending"} : wait' = [wait EXCEPT ![id] = state]
      BY <1>3 DEF InsertRepeat, WaitRepeat, SetWait
    <2>2. /\ id \in Timers /\ wait[id] \in {"unused", "created"}
          /\ pool' = pool /\ queue' = queue /\ at' = at
          /\ posted' = posted /\ handled' = handled
          /\ cancelled' = cancelled
          /\ table' = table \/ table' = table \union {id}
      BY <1>3 DEF InsertRepeat, WaitRepeat, poolVars, Timers
    <2>3. table' \subseteq Repeating /\ table' \subseteq table \union {id}
      BY <2>2 DEF IInv, TypeOK
    <2> QED
      BY <2>1, <2>2, <2>3, WaitChanges
  <1> QED
    BY <1>1, <1>2, <1>3

\* The timers' steps that may put a handler in the queue.
LEMMA QueueStep ==
    ASSUME IInv,
           \/ \E id \in Timers : Expire(id)
           \/ \E id \in Repeating : Cancel(id)
    PROVE  IInv'
  <1>1. ASSUME NEW id \in Timers, Expire(id) PROVE IInv'
    BY <1>1, WaitIsOver DEF Expire, SetWait
  <1>2. ASSUME NEW id \in Repeating, Cancel(id) PROVE IInv'
    <2>1. /\ id \in Timers /\ table' = table \ {id}
          /\ pool' = pool /\ at' = at /\ posted' = posted /\ handled' = handled
      BY <1>2 DEF Cancel, Timers
    <2>2. CASE wait[id] = "pending"
      <3>1. /\ wait' = [wait EXCEPT ![id] = "queued"]
            /\ queue' = Append(queue, Handler(id, FALSE))
            /\ cancelled' = [cancelled EXCEPT ![id] = "inTime"]
        BY <1>2, <2>2 DEF Cancel, SetWait
      <3> QED
        BY <2>1, <2>2, <3>1, WaitIsOver
    <2>3. CASE wait[id] # "pending"
      <3>1. /\ wait' = wait /\ queue' = queue
            /\ cancelled' = [cancelled EXCEPT ![id] = "late"]
        BY <1>2, <2>3 DEF Cancel
      <3>2. TypeOK'
        BY <2>1, <3>1 DEF IInv, TypeOK
      <3>3. OnePlace'
        BY <2>1, <3>1 DEF IInv, OnePlace, NoJobTwice, Waiting, Running
      <3>4. \A x \in Repeating : cancelled'[x] = "inTime" => cancelled[x] = "inTime"
        BY <3>1 DEF IInv, TypeOK
      <3>5. CancelledWaitsEnd'
        BY <2>1, <3>1, <3>4 DEF IInv, CancelledWaitsEnd
      <3>6. \A n \in Packets : Taken(n)' <=> Taken(n)
        BY <2>1 DEF Taken
      <3>7. FirstComeFirstTaken'
        BY <2>1, <3>1, <3>6, OrderStays
      <3>8. FewOvertaken'
        BY <2>1, <3>6, FewStays DEF IInv
      <3> QED
        BY <3>2, <3>3, <3>5, <3>7, <3>8 DEF IInv
    <2> QED
      BY <2>2, <2>3
  <1> QED
    BY <1>1, <1>2

\* Every step keeps the invariant.
LEMMA PoolNext == IInv /\ [Next]_vars => IInv'
  <1> SUFFICES ASSUME IInv, [Next]_vars PROVE IInv'
    OBVIOUS
  <1>1. ASSUME NEW w \in Workers, Take(w) PROVE IInv'
    <2>1. Head(queue).job \in Packets \/ Head(queue).job \in Timers
      BY <1>1 DEF Take
    <2> QED
      BY <1>1, <2>1, TakePacketStep, TakeTimerStep
  <1>2. CASE UNCHANGED vars
    BY <1>2 DEF vars, poolVars, timerVars, IInv, TypeOK, OnePlace, NoJobTwice, Waiting,
                Running, CancelledWaitsEnd, FirstComeFirstTaken, Taken, FewOvertaken
  <1> QED
    BY <1>1, <1>2, PoolStep, PostStep, FinishPacketStep, TimerStep, QueueStep DEF Next

------------------------------------------------------------------------------
\* The pool keeps its invariant: what waits, what runs and what was handled
\* always agree.
THEOREM PoolInvariance == Spec => []IInv
  <1> QED
    BY PoolInit, PoolNext, PTL DEF Spec

\* However many workers there are and however slow a task is, no job is ever
\* with two of them: OnTimer arms its timer again only when the task is done.
THEOREM NoJobRunsTwice == Spec => []NoJobTwice
  <1>1. IInv => NoJobTwice
    BY DEF IInv, OnePlace
  <1> QED
    BY <1>1, PoolInvariance, PTL

\* A packet that a worker has taken is ahead of fewer unfinished packets that
\* came before it than there are workers: a pool of one keeps the order.
THEOREM WorkersBoundOvertaking == Spec => []FewOvertaken
  <1>1. IInv => FewOvertaken
    BY DEF IInv
  <1> QED
    BY <1>1, PoolInvariance, PTL

\* A timer cancelled while its wait was pending never runs its task again.
THEOREM CancelledInTimeNeverRuns == Spec => CancelledInTimeStops
  <1>1. ASSUME IInv, IInv', [Next]_vars,
               NEW id \in Repeating, cancelled[id] = "inTime", wait[id] # "running"
        PROVE  wait'[id] # "running"
    <2>1. CASE cancelled'[id] = "inTime"
      BY <1>1, <2>1 DEF IInv, CancelledWaitsEnd
    <2>2. CASE cancelled'[id] # "inTime"
      <3>1. PICK x \in Repeating : Cancel(x)
        BY <1>1, <2>2 DEF Next, vars, poolVars, timerVars, Start, Post, Stop, Join, Take,
              FinishPacket, FinishOnce, Rearm, ScheduleOnce, InsertRepeat, WaitRepeat, Expire
      <3>2. x = id
        BY <1>1, <2>2, <3>1 DEF Cancel, IInv, TypeOK
      <3> QED
        BY <1>1, <3>1, <3>2 DEF Cancel, IInv, CancelledWaitsEnd
    <2> QED
      BY <2>1, <2>2
  <1>2. IInv /\ IInv' /\ [Next]_vars =>
           [\A id \in Repeating :
               cancelled[id] = "inTime" /\ wait[id] # "running" => wait'[id] # "running"]_vars
    BY <1>1
  <1> QED
    BY <1>2, PoolInvariance, PTL DEF Spec, CancelledInTimeStops
==============================================================================
