--------------------------- MODULE ServerStartProofs ---------------------------
(***************************************************************************)
(* Theorems about main: that the packet factory keeps its promise, to any  *)
(* number of threads and so to main; that the memory of its test is used   *)
(* again; that the configuration is what the file says, whatever the keys; *)
(* and that main serves with all that it makes, or not at all.             *)
(***************************************************************************)
EXTENDS ServerStart, TLAPS

------------------------------------------------------------------------------
(* The packet factory, used by a set T of threads.  PoolInv is inductive as  *)
(* it stands.                                                                *)

Pool(T) == INSTANCE PacketPool WITH Threads <- T, pc <- call

\* Taking the back of a sequence leaves what was in front of it: the result of
\* pool.back() and pool.pop_back() in Pop.
LEMMA BackTaken ==
    ASSUME NEW S, NEW s \in Seq(S), s # <<>>
    PROVE  /\ Len(s) \in Nat \ {0} /\ s[Len(s)] \in S
           /\ SubSeq(s, 1, Len(s) - 1) \in Seq(S)
           /\ DOMAIN SubSeq(s, 1, Len(s) - 1) = 1..(Len(s) - 1)
           /\ \A i \in 1..(Len(s) - 1) : SubSeq(s, 1, Len(s) - 1)[i] = s[i]
  <1>1. Len(s) \in Nat \ {0}
    OBVIOUS
  <1> QED
    BY <1>1

\* Putting a block at the back leaves the others where they are: push_back.
LEMMA BackPut ==
    ASSUME NEW S, NEW s \in Seq(S), NEW x \in S
    PROVE  /\ Append(s, x) \in Seq(S)
           /\ DOMAIN s = 1..Len(s) /\ Len(s) \in Nat
           /\ DOMAIN Append(s, x) = 1..(Len(s) + 1)
           /\ \A i \in DOMAIN s : Append(s, x)[i] = s[i]
           /\ Append(s, x)[Len(s) + 1] = x
  OBVIOUS

\* At first the pool is empty and nobody has a packet.
LEMMA PoolInit ==
    ASSUME NEW T, Pool(T)!Init
    PROVE  Pool(T)!PoolInv
  BY DEF Pool!Init, Pool!PoolInv, Pool!TypeOK, Pool!OneOwner, Pool!RightContents,
         Pool!NothingLost, Pool!Holds

\* Pop with an empty pool only sends the thread to the heap.
LEMMA PopEmptyStep ==
    ASSUME NEW T, Pool(T)!PoolInv, NEW t \in T, Pool(T)!Pop(t), pool = <<>>
    PROVE  Pool(T)!PoolInv'
  <1>1. pool' = pool /\ memory' = memory /\ packets' = packets /\ held' = held
        /\ call[t] = "idle" /\ call' = [call EXCEPT ![t] = "new"]
    BY DEF Pool!Pop
  <1>2. \A u \in T : Pool(T)!Holds(u)' <=> Pool(T)!Holds(u)
    BY <1>1 DEF Pool!Holds, Pool!PoolInv, Pool!TypeOK
  <1>3. Pool(T)!TypeOK'
    BY <1>1 DEF Pool!PoolInv, Pool!TypeOK
  <1>4. Pool(T)!OneOwner' /\ Pool(T)!RightContents' /\ Pool(T)!NothingLost'
    BY <1>1, <1>2 DEF Pool!PoolInv, Pool!OneOwner, Pool!RightContents, Pool!NothingLost
  <1> QED
    BY <1>3, <1>4 DEF Pool!PoolInv

\* Pop with a block at the back: from the pool's hand to the thread's.
LEMMA PopBlockStep ==
    ASSUME NEW T, Pool(T)!PoolInv, NEW t \in T, Pool(T)!Pop(t), pool # <<>>
    PROVE  Pool(T)!PoolInv'
  <1> DEFINE b == pool[Len(pool)]
             n == Len(pool)
  <1>1. /\ memory' = memory /\ packets' = packets
        /\ call[t] = "idle" /\ call' = [call EXCEPT ![t] = "construct"]
        /\ held' = [held EXCEPT ![t] = b]
        /\ pool' = SubSeq(pool, 1, n - 1)
    BY DEF Pool!Pop
  <1>2. memory' = memory /\ packets' = packets
    BY <1>1
  <1>3. /\ n \in Nat \ {0} /\ b \in Blocks /\ pool' \in Seq(Blocks)
        /\ DOMAIN pool' = 1..(n - 1) /\ DOMAIN pool = 1..n
        /\ \A i \in 1..(n - 1) : pool'[i] = pool[i]
    BY <1>1, BackTaken DEF Pool!PoolInv, Pool!TypeOK
  <1> HIDE DEF b, n
  <1>4. n \in DOMAIN pool /\ \A i \in 1..(n - 1) : i \in DOMAIN pool /\ i # n
    BY <1>3
  <1>5. Pool(T)!TypeOK'
    BY <1>1, <1>3 DEF Pool!PoolInv, Pool!TypeOK
  <1>6. \A u \in T : u # t => held'[u] = held[u] /\ (Pool(T)!Holds(u)' <=> Pool(T)!Holds(u))
    BY <1>1 DEF Pool!Holds, Pool!PoolInv, Pool!TypeOK
  <1>7. held'[t] = b /\ Pool(T)!Holds(t)' /\ ~Pool(T)!Holds(t)
    BY <1>1 DEF Pool!Holds, Pool!PoolInv, Pool!TypeOK
  <1>8. \A i \in DOMAIN pool' : i \in DOMAIN pool /\ pool'[i] = pool[i] /\ pool[i] # b
    <2>1. pool[n] = b
      BY DEF b, n
    <2> QED
      BY <1>3, <1>4, <2>1 DEF Pool!PoolInv, Pool!OneOwner
  <1>9. b \notin packets /\ memory[b] = "raw" /\ \A u \in T : Pool(T)!Holds(u) => held[u] # b
    <2>1. pool[n] = b
      BY DEF b, n
    <2> QED
      BY <1>4, <2>1 DEF Pool!PoolInv, Pool!OneOwner, Pool!RightContents
  <1>10. Pool(T)!OneOwner'
    <2>1. \A i, j \in DOMAIN pool' : pool'[i] = pool'[j] => i = j
      BY <1>8 DEF Pool!PoolInv, Pool!OneOwner
    <2>2. \A i \in DOMAIN pool' : pool'[i] \notin packets'
      BY <1>1, <1>8 DEF Pool!PoolInv, Pool!OneOwner
    <2>3. \A u \in T : Pool(T)!Holds(u)' =>
             /\ held'[u] \notin packets'
             /\ \A i \in DOMAIN pool' : pool'[i] # held'[u]
      BY <1>2, <1>6, <1>7, <1>8, <1>9 DEF Pool!PoolInv, Pool!OneOwner
    <2>4. \A u, v \in T : Pool(T)!Holds(u)' /\ Pool(T)!Holds(v)' /\ held'[u] = held'[v] => u = v
      BY <1>6, <1>7, <1>9 DEF Pool!PoolInv, Pool!OneOwner
    <2> QED
      BY <2>1, <2>2, <2>3, <2>4 DEF Pool!OneOwner
  <1>11. Pool(T)!RightContents'
    <2>1. \A i \in DOMAIN pool' : memory'[pool'[i]] = "raw"
      BY <1>2, <1>8 DEF Pool!PoolInv, Pool!RightContents
    <2>2. \A u \in T : Pool(T)!Holds(u)' => memory'[held'[u]] = "raw"
      BY <1>2, <1>6, <1>7, <1>9 DEF Pool!PoolInv, Pool!RightContents
    <2> QED
      BY <1>2, <2>1, <2>2 DEF Pool!PoolInv, Pool!RightContents
  <1>12. Pool(T)!NothingLost'
    <2> SUFFICES ASSUME NEW c \in Blocks, memory[c] = "raw", c # b
                 PROVE  \/ \E i \in DOMAIN pool' : pool'[i] = c
                        \/ \E u \in T : Pool(T)!Holds(u)' /\ held'[u] = c
      BY <1>1, <1>7 DEF Pool!NothingLost
    <2>1. CASE \E i \in DOMAIN pool : pool[i] = c
      <3>1. PICK i \in DOMAIN pool : pool[i] = c
        BY <2>1
      <3>2. i \in 1..(n - 1)
        <4>1. i # n
          BY <3>1 DEF b, n
        <4> QED
          BY <4>1, <1>3, <3>1
      <3> QED
        BY <3>1, <3>2, <1>3
    <2>2. CASE \E u \in T : Pool(T)!Holds(u) /\ held[u] = c
      BY <2>2, <1>6, <1>7
    <2> QED
      BY <2>1, <2>2 DEF Pool!PoolInv, Pool!NothingLost
  <1> QED
    BY <1>5, <1>10, <1>11, <1>12 DEF Pool!PoolInv

\* A block from the heap was in nobody's hands.
LEMMA NewStep ==
    ASSUME NEW T, Pool(T)!PoolInv, NEW t \in T, Pool(T)!New(t)
    PROVE  Pool(T)!PoolInv'
  <1>1. PICK b \in Blocks : /\ memory[b] = "free"
                            /\ memory' = [memory EXCEPT ![b] = "raw"]
                            /\ held' = [held EXCEPT ![t] = b]
    BY DEF Pool!New
  <1>2. /\ call[t] = "new" /\ call' = [call EXCEPT ![t] = "construct"]
        /\ pool' = pool /\ packets' = packets
    BY DEF Pool!New
  <1>3. Pool(T)!TypeOK'
    BY <1>1, <1>2 DEF Pool!PoolInv, Pool!TypeOK
  <1>4. \A u \in T : u # t => held'[u] = held[u] /\ (Pool(T)!Holds(u)' <=> Pool(T)!Holds(u))
    BY <1>1, <1>2 DEF Pool!Holds, Pool!PoolInv, Pool!TypeOK
  <1>5. held'[t] = b /\ Pool(T)!Holds(t)' /\ ~Pool(T)!Holds(t)
    BY <1>1, <1>2 DEF Pool!Holds, Pool!PoolInv, Pool!TypeOK
  <1>6. /\ b \notin packets /\ \A i \in DOMAIN pool : pool[i] # b
        /\ \A u \in T : Pool(T)!Holds(u) => held[u] # b
    BY <1>1 DEF Pool!PoolInv, Pool!RightContents
  <1>7. memory'[b] = "raw" /\ \A c \in Blocks : c # b => memory'[c] = memory[c]
    BY <1>1 DEF Pool!PoolInv, Pool!TypeOK
  <1>8. Pool(T)!OneOwner'
    BY <1>2, <1>4, <1>5, <1>6 DEF Pool!PoolInv, Pool!OneOwner
  <1>9. Pool(T)!RightContents'
    <2>1. \A i \in DOMAIN pool : pool[i] \in Blocks
      BY DEF Pool!PoolInv, Pool!TypeOK
    <2>2. \A u \in T : held[u] \in Blocks
      BY DEF Pool!PoolInv, Pool!TypeOK
    <2> QED
      BY <1>2, <1>4, <1>5, <1>6, <1>7, <2>1, <2>2 DEF Pool!PoolInv, Pool!RightContents
  <1>10. Pool(T)!NothingLost'
    BY <1>2, <1>4, <1>5, <1>7 DEF Pool!PoolInv, Pool!NothingLost
  <1> QED
    BY <1>3, <1>8, <1>9, <1>10 DEF Pool!PoolInv

\* Nothing is held when operator new throws, nor changed when a constructor does.
LEMMA ThrowStep ==
    ASSUME NEW T, Pool(T)!PoolInv, NEW t \in T, Pool(T)!NewThrows(t) \/ Pool(T)!ConstructThrows(t)
    PROVE  Pool(T)!PoolInv'
  <1>1. pool' = pool /\ memory' = memory /\ packets' = packets /\ held' = held
    BY DEF Pool!NewThrows, Pool!ConstructThrows
  <1>2. Pool(T)!TypeOK'
    BY <1>1 DEF Pool!NewThrows, Pool!ConstructThrows, Pool!PoolInv, Pool!TypeOK
  <1>3. \A u \in T : Pool(T)!Holds(u)' <=> Pool(T)!Holds(u)
    BY DEF Pool!NewThrows, Pool!ConstructThrows, Pool!Holds, Pool!PoolInv, Pool!TypeOK
  <1>4. Pool(T)!OneOwner' /\ Pool(T)!RightContents' /\ Pool(T)!NothingLost'
    BY <1>1, <1>3 DEF Pool!PoolInv, Pool!OneOwner, Pool!RightContents, Pool!NothingLost
  <1> QED
    BY <1>2, <1>4 DEF Pool!PoolInv

\* The thread's block becomes a packet.
LEMMA ConstructStep ==
    ASSUME NEW T, Pool(T)!PoolInv, NEW t \in T, Pool(T)!Construct(t)
    PROVE  Pool(T)!PoolInv'
  <1> DEFINE b == held[t]
  <1>1. /\ call[t] = "construct" /\ call' = [call EXCEPT ![t] = "idle"]
        /\ memory' = [memory EXCEPT ![b] = "object"]
        /\ packets' = packets \union {b}
        /\ pool' = pool /\ held' = held
    BY DEF Pool!Construct
  <1>2. b \in Blocks /\ Pool(T)!Holds(t)
    BY <1>1 DEF Pool!PoolInv, Pool!TypeOK, Pool!Holds
  <1>3. Pool(T)!TypeOK'
    BY <1>1, <1>2 DEF Pool!PoolInv, Pool!TypeOK
  <1>4. ~Pool(T)!Holds(t)' /\ \A u \in T : u # t => (Pool(T)!Holds(u)' <=> Pool(T)!Holds(u))
    BY <1>1 DEF Pool!Holds, Pool!PoolInv, Pool!TypeOK
  <1>5. /\ \A i \in DOMAIN pool : pool[i] # b /\ pool[i] \in Blocks
        /\ \A u \in T : held[u] \in Blocks /\ (Pool(T)!Holds(u) /\ u # t => held[u] # b)
    BY <1>2 DEF Pool!PoolInv, Pool!OneOwner, Pool!TypeOK
  <1>6. memory'[b] = "object" /\ \A c \in Blocks : c # b => memory'[c] = memory[c]
    BY <1>1, <1>2 DEF Pool!PoolInv, Pool!TypeOK
  <1>7. Pool(T)!OneOwner'
    BY <1>1, <1>4, <1>5 DEF Pool!PoolInv, Pool!OneOwner
  <1>8. Pool(T)!RightContents'
    BY <1>1, <1>4, <1>5, <1>6 DEF Pool!PoolInv, Pool!RightContents
  <1>9. Pool(T)!NothingLost'
    BY <1>1, <1>4, <1>6 DEF Pool!PoolInv, Pool!NothingLost
  <1> QED
    BY <1>3, <1>7, <1>8, <1>9 DEF Pool!PoolInv

\* The packet's memory is in the hand of the thread that dropped it.
LEMMA DestroyStep ==
    ASSUME NEW T, Pool(T)!PoolInv, NEW t \in T, Pool(T)!Destroy(t)
    PROVE  Pool(T)!PoolInv'
  <1>1. PICK b \in packets : /\ packets' = packets \ {b}
                             /\ memory' = [memory EXCEPT ![b] = "raw"]
                             /\ held' = [held EXCEPT ![t] = b]
    BY DEF Pool!Destroy
  <1>2. call[t] = "idle" /\ call' = [call EXCEPT ![t] = "push"] /\ pool' = pool
    BY DEF Pool!Destroy
  <1>3. b \in Blocks
    BY DEF Pool!PoolInv, Pool!TypeOK
  <1>4. Pool(T)!TypeOK'
    BY <1>1, <1>2, <1>3 DEF Pool!PoolInv, Pool!TypeOK
  <1>5. \A u \in T : u # t => held'[u] = held[u] /\ (Pool(T)!Holds(u)' <=> Pool(T)!Holds(u))
    BY <1>1, <1>2 DEF Pool!Holds, Pool!PoolInv, Pool!TypeOK
  <1>6. held'[t] = b /\ Pool(T)!Holds(t)' /\ ~Pool(T)!Holds(t)
    BY <1>1, <1>2 DEF Pool!Holds, Pool!PoolInv, Pool!TypeOK
  <1>7. /\ \A i \in DOMAIN pool : pool[i] # b /\ pool[i] \in Blocks
        /\ \A u \in T : held[u] \in Blocks /\ (Pool(T)!Holds(u) => held[u] # b)
    BY DEF Pool!PoolInv, Pool!OneOwner, Pool!TypeOK
  <1>8. memory'[b] = "raw" /\ \A c \in Blocks : c # b => memory'[c] = memory[c]
    BY <1>1, <1>3 DEF Pool!PoolInv, Pool!TypeOK
  <1>9. Pool(T)!OneOwner'
    BY <1>1, <1>2, <1>5, <1>6, <1>7 DEF Pool!PoolInv, Pool!OneOwner
  <1>10. Pool(T)!RightContents'
    BY <1>1, <1>2, <1>5, <1>6, <1>7, <1>8 DEF Pool!PoolInv, Pool!RightContents
  <1>11. Pool(T)!NothingLost'
    BY <1>2, <1>5, <1>6, <1>8 DEF Pool!PoolInv, Pool!NothingLost
  <1> QED
    BY <1>4, <1>9, <1>10, <1>11 DEF Pool!PoolInv

\* The thread's block goes to the back of the pool.
LEMMA PushStep ==
    ASSUME NEW T, Pool(T)!PoolInv, NEW t \in T, Pool(T)!Push(t)
    PROVE  Pool(T)!PoolInv'
  <1> DEFINE b == held[t]
             n == Len(pool) + 1
  <1>1. /\ call[t] = "push" /\ call' = [call EXCEPT ![t] = "idle"]
        /\ pool' = Append(pool, b)
        /\ memory' = memory /\ packets' = packets /\ held' = held
    BY DEF Pool!Push
  <1>2. b \in Blocks /\ Pool(T)!Holds(t)
    BY <1>1 DEF Pool!PoolInv, Pool!TypeOK, Pool!Holds
  <1>3. Pool(T)!TypeOK'
    BY <1>1, <1>2 DEF Pool!PoolInv, Pool!TypeOK
  <1>4. ~Pool(T)!Holds(t)' /\ \A u \in T : u # t => (Pool(T)!Holds(u)' <=> Pool(T)!Holds(u))
    BY <1>1 DEF Pool!Holds, Pool!PoolInv, Pool!TypeOK
  <1>5. /\ DOMAIN pool' = DOMAIN pool \union {n}
        /\ pool'[n] = b
        /\ \A i \in DOMAIN pool : i # n /\ pool'[i] = pool[i]
    <2>1. pool \in Seq(Blocks)
      BY DEF Pool!PoolInv, Pool!TypeOK
    <2> QED
      BY <1>1, <1>2, <2>1, BackPut
  <1>6. /\ b \notin packets /\ memory[b] = "raw" /\ \A i \in DOMAIN pool : pool[i] # b
        /\ \A u \in T : Pool(T)!Holds(u) /\ u # t => held[u] # b
    BY <1>2 DEF Pool!PoolInv, Pool!OneOwner, Pool!RightContents
  <1> HIDE DEF n
  <1>7. Pool(T)!OneOwner'
    BY <1>1, <1>4, <1>5, <1>6 DEF Pool!PoolInv, Pool!OneOwner
  <1>8. Pool(T)!RightContents'
    BY <1>1, <1>4, <1>5, <1>6 DEF Pool!PoolInv, Pool!RightContents
  <1>9. Pool(T)!NothingLost'
    BY <1>1, <1>4, <1>5 DEF Pool!PoolInv, Pool!NothingLost
  <1> QED
    BY <1>3, <1>7, <1>8, <1>9 DEF Pool!PoolInv

\* Every step of a creator, and every step that leaves the factory alone.
LEMMA PoolStep ==
    ASSUME NEW T, Pool(T)!PoolInv, [Pool(T)!Next]_(Pool(T)!poolVars)
    PROVE  Pool(T)!PoolInv'
  <1>1. CASE Pool(T)!Next
    <2>1. PICK t \in T :
              \/ Pool(T)!Pop(t) \/ Pool(T)!New(t)
              \/ Pool(T)!NewThrows(t) \/ Pool(T)!ConstructThrows(t)
              \/ Pool(T)!Construct(t) \/ Pool(T)!Destroy(t) \/ Pool(T)!Push(t)
      BY <1>1 DEF Pool!Next
    <2> QED
      BY <2>1, PopEmptyStep, PopBlockStep, NewStep, ThrowStep, ConstructStep, DestroyStep,
         PushStep
  <1>2. CASE UNCHANGED Pool(T)!poolVars
    BY <1>2 DEF Pool!poolVars, Pool!PoolInv, Pool!TypeOK, Pool!OneOwner, Pool!RightContents,
                Pool!NothingLost, Pool!Holds
  <1> QED
    BY <1>1, <1>2

\* Every packet has memory of its own, constructed and destroyed once before
\* the memory is used again, and no memory is lost, for any number of threads
\* that call CreatePacket and drop packets: PacketPool's PoolInv.
THEOREM PacketsHaveTheirMemory ==
    ASSUME NEW CONSTANT T
    PROVE  Pool(T)!Spec => []Pool(T)!PoolInv
  <1>1. Pool(T)!Init => Pool(T)!PoolInv
    BY PoolInit
  <1>2. Pool(T)!PoolInv /\ [Pool(T)!Next]_(Pool(T)!poolVars) => Pool(T)!PoolInv'
    BY PoolStep
  <1> QED
    BY <1>1, <1>2, PTL DEF Pool!Spec

------------------------------------------------------------------------------
(* The keys, in the order of Load.                                           *)

\* What \o does to two lists.
LEMMA Joined ==
    ASSUME NEW S, NEW s \in Seq(S), NEW t \in Seq(S)
    PROVE  /\ s \o t \in Seq(S)
           /\ Len(s) \in Nat /\ Len(t) \in Nat /\ Len(s \o t) = Len(s) + Len(t)
           /\ \A i \in 1..Len(s) : (s \o t)[i] = s[i]
           /\ \A i \in 1..Len(t) : (s \o t)[Len(s) + i] = t[i]
  OBVIOUS

\* How many keys the server's section and each database's have.
M == Len(ServerKeys)
N == Len(TextKeys) + 1

\* A list has a place for each number up to its length.
LEMMA ListIs ==
    ASSUME NEW S, NEW s \in Seq(S)
    PROVE  Len(s) \in Nat /\ DOMAIN s = 1..Len(s) /\ \A i \in 1..Len(s) : s[i] \in S
  OBVIOUS

\* The strings that keys are made of; the provers do not know that the
\* literals are in STRING.
Words == STRING \union {"Server", "MySQL", "Mongo", "Redis", "Port"}

\* How many fields a section has, and how many keys Load reads.
LEMMA Sizes ==
    /\ M \in Nat /\ DOMAIN ServerKeys = 1..M /\ \A i \in 1..M : ServerKeys[i] \in Words
    /\ N \in Nat \ {0} /\ Len(TextKeys) = N - 1 /\ DOMAIN TextKeys = 1..(N - 1)
    /\ \A i \in 1..(N - 1) : TextKeys[i] \in Words
    /\ {"Server", "MySQL", "Mongo", "Redis", "Port"} \subseteq Words
  <1>1. ServerKeys \in Seq(STRING) /\ TextKeys \in Seq(STRING)
    BY KeysAssumption
  <1>2. /\ M \in Nat /\ DOMAIN ServerKeys = 1..M /\ \A i \in 1..M : ServerKeys[i] \in STRING
    BY <1>1, ListIs DEF M
  <1>3. /\ Len(TextKeys) \in Nat /\ DOMAIN TextKeys = 1..Len(TextKeys)
        /\ \A i \in 1..Len(TextKeys) : TextKeys[i] \in STRING
    BY <1>1, ListIs
  <1>4. N \in Nat \ {0} /\ Len(TextKeys) = N - 1
    BY <1>3 DEF N
  <1>5. STRING \subseteq Words /\ {"Server", "MySQL", "Mongo", "Redis", "Port"} \subseteq Words
    BY DEF Words
  <1> QED
    BY <1>2, <1>3, <1>4, <1>5

\* A function on the first n numbers is a list.
LEMMA FunctionIsList ==
    ASSUME NEW S, NEW n \in Nat, NEW s \in [1..n -> S]
    PROVE  s \in Seq(S) /\ Len(s) = n
  OBVIOUS

\* A section has the text keys and then the port.
LEMMA NodeIs ==
    ASSUME NEW name \in Words
    PROVE  /\ Node(name) \in Seq(Words \X Words) /\ Len(Node(name)) = N
           /\ \A i \in 1..(N - 1) : Node(name)[i] = <<name, TextKeys[i]>>
           /\ Node(name)[N] = <<name, "Port">>
  <1> DEFINE key == [i \in 1..N |-> IF i <= N - 1 THEN TextKeys[i] ELSE "Port"]
  <1>1. Node(name) = [i \in 1..N |-> <<name, key[i]>>]
    BY Sizes DEF Node, N
  <1>2. \A i \in 1..(N - 1) : i \in 1..N /\ key[i] = TextKeys[i]
    BY Sizes
  <1>3. N \in 1..N /\ key[N] = "Port"
    BY Sizes
  <1>4. \A i \in 1..N : i \in 1..(N - 1) \/ i = N
    BY Sizes
  <1> HIDE DEF key
  <1>5. \A i \in 1..N : key[i] \in Words
    BY <1>2, <1>3, <1>4, Sizes
  <1>6. \A i \in 1..N : <<name, key[i]>> \in Words \X Words
    BY <1>5
  <1>7. Node(name) \in [1..N -> Words \X Words]
    BY <1>1, <1>6
  <1>8. Node(name) \in Seq(Words \X Words) /\ Len(Node(name)) = N
    BY <1>7, Sizes, FunctionIsList
  <1>9. \A i \in 1..N : Node(name)[i] = <<name, key[i]>>
    BY <1>1
  <1> QED
    BY <1>2, <1>3, <1>8, <1>9

\* Two fields of one section are different fields.
LEMMA NodeDistinct ==
    ASSUME NEW name \in Words, NEW i \in 1..N, NEW j \in 1..N, Node(name)[i] = Node(name)[j]
    PROVE  i = j
  <1>1. \A k, l \in 1..(N - 1) : TextKeys[k] = TextKeys[l] => k = l
    BY Sizes, KeysAssumption
  <1>2. \A k \in 1..(N - 1) : TextKeys[k] # "Port"
    BY Sizes, KeysAssumption
  <1>3. \A k \in 1..N : k \in 1..(N - 1) \/ k = N
    BY Sizes
  <1> QED
    <2>1. CASE i \in 1..(N - 1) /\ j \in 1..(N - 1)
      <3>1. <<name, TextKeys[i]>> = <<name, TextKeys[j]>>
        BY <2>1, NodeIs
      <3> QED
        BY <1>1, <2>1, <3>1
    <2>2. CASE i \in 1..(N - 1) /\ j = N
      <3>1. <<name, TextKeys[i]>> = <<name, "Port">>
        BY <2>2, NodeIs
      <3> QED
        BY <1>2, <2>2, <3>1
    <2>3. CASE i = N /\ j \in 1..(N - 1)
      <3>1. <<name, "Port">> = <<name, TextKeys[j]>>
        BY <2>3, NodeIs
      <3> QED
        BY <1>2, <2>3, <3>1
    <2> QED
      BY <1>3, <2>1, <2>2, <2>3

\* The name of its section is the first half of each key.
LEMMA NodeName ==
    ASSUME NEW name \in Words, NEW i \in 1..N
    PROVE  Node(name)[i][1] = name
  <1>1. i \in 1..(N - 1) \/ i = N
    BY Sizes
  <1> QED
    BY <1>1, NodeIs

\* The server's section is such a list as well.
LEMMA ServerNodeIs ==
    /\ ServerNode \in Seq(Words \X Words) /\ Len(ServerNode) = M
    /\ \A i \in 1..M : ServerNode[i] = <<"Server", ServerKeys[i]>>
  <1>1. ServerNode = [i \in 1..M |-> <<"Server", ServerKeys[i]>>]
    BY Sizes DEF ServerNode
  <1>2. \A i \in 1..M : <<"Server", ServerKeys[i]>> \in Words \X Words
    BY Sizes
  <1>3. \A i \in 1..M : ServerNode[i] = <<"Server", ServerKeys[i]>>
    BY <1>1
  <1>4. ServerNode \in [1..M -> Words \X Words]
    BY <1>1, <1>2
  <1>5. ServerNode \in Seq(Words \X Words) /\ Len(ServerNode) = M
    BY <1>4, Sizes, FunctionIsList
  <1> QED
    BY <1>3, <1>5

\* The keys of the server come first, then the three databases in turn.
LEMMA OrderIs ==
    /\ Order \in Seq(Words \X Words)
    /\ Len(Order) = M + N + N + N /\ DOMAIN Order = 1..(M + N + N + N)
    /\ \A i \in 1..M : Order[i] = <<"Server", ServerKeys[i]>>
    /\ \A i \in 1..N : /\ Order[M + i] = Node("MySQL")[i]
                       /\ Order[M + N + i] = Node("Mongo")[i]
                       /\ Order[M + N + N + i] = Node("Redis")[i]
  <1> DEFINE Pairs == Words \X Words
             b == ServerNode \o Node("MySQL")
             c == b \o Node("Mongo")
  <1>1. /\ Node("MySQL") \in Seq(Pairs) /\ Len(Node("MySQL")) = N
        /\ Node("Mongo") \in Seq(Pairs) /\ Len(Node("Mongo")) = N
        /\ Node("Redis") \in Seq(Pairs) /\ Len(Node("Redis")) = N
    BY NodeIs, Sizes
  <1>2. ServerNode \in Seq(Pairs) /\ Len(ServerNode) = M
        /\ \A i \in 1..M : ServerNode[i] = <<"Server", ServerKeys[i]>>
    BY ServerNodeIs
  <1>3. Order = c \o Node("Redis")
    BY DEF Order
  <1> HIDE DEF Pairs
  <1>4. /\ b \in Seq(Pairs) /\ Len(b) = M + N
        /\ \A i \in 1..M : b[i] = ServerNode[i]
        /\ \A i \in 1..N : b[M + i] = Node("MySQL")[i]
    <2>1. ServerNode \in Seq(Pairs) /\ Node("MySQL") \in Seq(Pairs)
      BY <1>1, <1>2
    <2>2. /\ b \in Seq(Pairs) /\ Len(b) = Len(ServerNode) + Len(Node("MySQL"))
          /\ \A i \in 1..Len(ServerNode) : b[i] = ServerNode[i]
          /\ \A i \in 1..Len(Node("MySQL")) : b[Len(ServerNode) + i] = Node("MySQL")[i]
      BY <2>1, Joined
    <2> QED
      BY <1>1, <1>2, <2>2
  <1> HIDE DEF b
  <1>5. /\ c \in Seq(Pairs) /\ Len(c) = M + N + N
        /\ \A i \in 1..(M + N) : c[i] = b[i]
        /\ \A i \in 1..N : c[M + N + i] = Node("Mongo")[i]
    <2>1. b \in Seq(Pairs) /\ Node("Mongo") \in Seq(Pairs)
      BY <1>1, <1>4
    <2>2. /\ c \in Seq(Pairs) /\ Len(c) = Len(b) + Len(Node("Mongo"))
          /\ \A i \in 1..Len(b) : c[i] = b[i]
          /\ \A i \in 1..Len(Node("Mongo")) : c[Len(b) + i] = Node("Mongo")[i]
      BY <2>1, Joined
    <2> QED
      BY <1>1, <1>4, <2>2
  <1> HIDE DEF c
  <1>6. /\ Order \in Seq(Pairs) /\ Len(Order) = M + N + N + N
        /\ \A i \in 1..(M + N + N) : Order[i] = c[i]
        /\ \A i \in 1..N : Order[M + N + N + i] = Node("Redis")[i]
    <2>1. c \in Seq(Pairs) /\ Node("Redis") \in Seq(Pairs)
      BY <1>1, <1>5
    <2>2. /\ Order \in Seq(Pairs) /\ Len(Order) = Len(c) + Len(Node("Redis"))
          /\ \A i \in 1..Len(c) : Order[i] = c[i]
          /\ \A i \in 1..Len(Node("Redis")) : Order[Len(c) + i] = Node("Redis")[i]
      BY <1>3, <2>1, Joined
    <2> QED
      BY <1>1, <1>5, <2>2
  <1>7. \A i \in 1..M : i \in 1..(M + N) /\ i \in 1..(M + N + N)
    BY Sizes
  <1>8. \A i \in 1..N : /\ M + i \in 1..(M + N) /\ M + i \in 1..(M + N + N)
                        /\ M + N + i \in 1..(M + N + N)
    BY Sizes
  <1>9. DOMAIN Order = 1..(M + N + N + N)
    BY <1>6
  <1>10. \A i \in 1..M : Order[i] = <<"Server", ServerKeys[i]>>
    <2> SUFFICES ASSUME NEW i \in 1..M
                 PROVE  Order[i] = <<"Server", ServerKeys[i]>>
      OBVIOUS
    <2>1. Order[i] = c[i] /\ c[i] = b[i]
      BY <1>5, <1>6, <1>7
    <2>2. b[i] = <<"Server", ServerKeys[i]>>
      BY <1>2, <1>4
    <2> QED
      BY <2>1, <2>2
  <1>11. \A i \in 1..N : Order[M + i] = Node("MySQL")[i]
    <2> SUFFICES ASSUME NEW i \in 1..N
                 PROVE  Order[M + i] = Node("MySQL")[i]
      OBVIOUS
    <2>1. Order[M + i] = c[M + i] /\ c[M + i] = b[M + i]
      BY <1>5, <1>6, <1>8
    <2> QED
      BY <1>4, <2>1
  <1>12. \A i \in 1..N : Order[M + N + i] = Node("Mongo")[i]
    BY <1>5, <1>6, <1>8
  <1>13. \A i \in 1..N : Order[M + N + N + i] = Node("Redis")[i]
    BY <1>6
  <1>14. Order \in Seq(Words \X Words) /\ Len(Order) = M + N + N + N
    BY <1>6 DEF Pairs
  <1> QED
    BY <1>9, <1>10, <1>11, <1>12, <1>13, <1>14

\* A place in Order is in one section.
LEMMA Places ==
    ASSUME NEW m \in Nat, NEW n \in Nat, NEW i \in 1..(m + n + n + n)
    PROVE  \/ i \in 1..m
           \/ \E k \in 1..n : i = m + k
           \/ \E k \in 1..n : i = m + n + k
           \/ \E k \in 1..n : i = m + n + n + k
  <1>1. CASE i <= m
    BY <1>1
  <1>2. CASE i > m /\ i <= m + n
    <2>1. i - m \in 1..n /\ i = m + (i - m)
      BY <1>2
    <2> QED
      BY <2>1
  <1>3. CASE i > m + n /\ i <= m + n + n
    <2>1. i - m - n \in 1..n /\ i = m + n + (i - m - n)
      BY <1>3
    <2> QED
      BY <2>1
  <1>4. CASE i > m + n + n
    <2>1. i - m - n - n \in 1..n /\ i = m + n + n + (i - m - n - n)
      BY <1>4
    <2> QED
      BY <2>1
  <1> QED
    BY <1>1, <1>2, <1>3, <1>4

\* Which section that is, and where in the section.
LEMMA InSection ==
    ASSUME NEW i \in DOMAIN Order
    PROVE  \/ /\ i \in 1..M /\ Order[i] = <<"Server", ServerKeys[i]>>
              /\ Order[i][1] = "Server"
           \/ \E k \in 1..N : /\ i = M + k /\ Order[i] = Node("MySQL")[k]
                              /\ Order[i][1] = "MySQL"
           \/ \E k \in 1..N : /\ i = M + N + k /\ Order[i] = Node("Mongo")[k]
                              /\ Order[i][1] = "Mongo"
           \/ \E k \in 1..N : /\ i = M + N + N + k /\ Order[i] = Node("Redis")[k]
                              /\ Order[i][1] = "Redis"
  <1>1. M \in Nat /\ N \in Nat /\ i \in 1..(M + N + N + N)
    BY OrderIs, Sizes
  <1>2. ASSUME i \in 1..M
        PROVE  Order[i] = <<"Server", ServerKeys[i]>> /\ Order[i][1] = "Server"
    BY <1>2, OrderIs
  <1>3. ASSUME NEW k \in 1..N, i = M + k
        PROVE  Order[i] = Node("MySQL")[k] /\ Order[i][1] = "MySQL"
    <2>1. Order[i] = Node("MySQL")[k] /\ "MySQL" \in Words
      BY <1>3, OrderIs, Sizes
    <2> QED
      BY <2>1, NodeName
  <1>4. ASSUME NEW k \in 1..N, i = M + N + k
        PROVE  Order[i] = Node("Mongo")[k] /\ Order[i][1] = "Mongo"
    <2>1. Order[i] = Node("Mongo")[k] /\ "Mongo" \in Words
      BY <1>4, OrderIs, Sizes
    <2> QED
      BY <2>1, NodeName
  <1>5. ASSUME NEW k \in 1..N, i = M + N + N + k
        PROVE  Order[i] = Node("Redis")[k] /\ Order[i][1] = "Redis"
    <2>1. Order[i] = Node("Redis")[k] /\ "Redis" \in Words
      BY <1>5, OrderIs, Sizes
    <2> QED
      BY <2>1, NodeName
  <1>6. \/ i \in 1..M
        \/ \E k \in 1..N : i = M + k
        \/ \E k \in 1..N : i = M + N + k
        \/ \E k \in 1..N : i = M + N + N + k
    BY <1>1, Places
  <1>7. CASE i \in 1..M
    BY <1>2, <1>7
  <1>8. CASE \E k \in 1..N : i = M + k
    <2>1. PICK k \in 1..N : i = M + k
      BY <1>8
    <2> QED
      BY <1>3, <2>1
  <1>9. CASE \E k \in 1..N : i = M + N + k
    <2>1. PICK k \in 1..N : i = M + N + k
      BY <1>9
    <2> QED
      BY <1>4, <2>1
  <1>10. CASE \E k \in 1..N : i = M + N + N + k
    <2>1. PICK k \in 1..N : i = M + N + N + k
      BY <1>10
    <2> QED
      BY <1>5, <2>1
  <1> QED
    BY <1>6, <1>7, <1>8, <1>9, <1>10

\* No two keys of Load are the same field.
LEMMA OrderDistinct ==
    ASSUME NEW i \in DOMAIN Order, NEW j \in DOMAIN Order, Order[i] = Order[j]
    PROVE  i = j
  <1>1. /\ \A k, l \in 1..M : ServerKeys[k] = ServerKeys[l] => k = l
        /\ \A name \in Words : \A k, l \in 1..N : Node(name)[k] = Node(name)[l] => k = l
    <2>1. DOMAIN ServerKeys = 1..M
      BY KeysAssumption DEF M
    <2> QED
      BY <2>1, NodeDistinct, KeysAssumption, Sizes
  <1>2. ASSUME i \in 1..M, Order[i] = <<"Server", ServerKeys[i]>>, Order[i][1] = "Server"
        PROVE  i = j
    <2>1. j \in 1..M /\ Order[j] = <<"Server", ServerKeys[j]>>
      BY <1>2, InSection
    <2>2. <<"Server", ServerKeys[i]>> = <<"Server", ServerKeys[j]>>
      BY <1>2, <2>1
    <2>3. ServerKeys[i] = ServerKeys[j]
      BY <2>2
    <2> QED
      BY <1>1, <1>2, <2>1, <2>3
  <1>3. ASSUME NEW k \in 1..N, i = M + k, Order[i] = Node("MySQL")[k], Order[i][1] = "MySQL"
        PROVE  i = j
    <2>1. PICK l \in 1..N : j = M + l /\ Order[j] = Node("MySQL")[l]
      BY <1>3, InSection
    <2>2. Node("MySQL")[k] = Node("MySQL")[l] /\ "MySQL" \in Words
      BY <1>3, <2>1, Sizes
    <2>3. k = l
      BY <1>1, <2>2
    <2> QED
      BY <1>3, <2>1, <2>3
  <1>4. ASSUME NEW k \in 1..N, i = M + N + k, Order[i] = Node("Mongo")[k], Order[i][1] = "Mongo"
        PROVE  i = j
    <2>1. PICK l \in 1..N : j = M + N + l /\ Order[j] = Node("Mongo")[l]
      BY <1>4, InSection
    <2>2. Node("Mongo")[k] = Node("Mongo")[l] /\ "Mongo" \in Words
      BY <1>4, <2>1, Sizes
    <2>3. k = l
      BY <1>1, <2>2
    <2> QED
      BY <1>4, <2>1, <2>3
  <1>5. ASSUME NEW k \in 1..N, i = M + N + N + k, Order[i] = Node("Redis")[k], Order[i][1] = "Redis"
        PROVE  i = j
    <2>1. PICK l \in 1..N : j = M + N + N + l /\ Order[j] = Node("Redis")[l]
      BY <1>5, InSection
    <2>2. Node("Redis")[k] = Node("Redis")[l] /\ "Redis" \in Words
      BY <1>5, <2>1, Sizes
    <2>3. k = l
      BY <1>1, <2>2
    <2> QED
      BY <1>5, <2>1, <2>3
  <1> QED
    BY <1>2, <1>3, <1>4, <1>5, InSection

\* Where a section begins, a whole section follows.
LEMMA SectionFits ==
    ASSUME NEW i \in DOMAIN Order,
           Order[i] \in {Node(name)[1] : name \in {"MySQL", "Mongo", "Redis"}}
    PROVE  i + (N - 1) <= Len(Order)
  <1>1. /\ Len(Order) = M + N + N + N /\ DOMAIN Order = 1..(M + N + N + N)
        /\ Order[M + 1] = Node("MySQL")[1] /\ Order[M + N + 1] = Node("Mongo")[1]
        /\ Order[M + N + N + 1] = Node("Redis")[1]
    <2>1. 1 \in 1..N
      BY Sizes
    <2> QED
      BY <2>1, OrderIs
  <1>2. M + 1 \in DOMAIN Order /\ M + N + 1 \in DOMAIN Order /\ M + N + N + 1 \in DOMAIN Order
    BY <1>1, Sizes
  <1>3. i = M + 1 \/ i = M + N + 1 \/ i = M + N + N + 1
    BY <1>1, <1>2, OrderDistinct
  <1> QED
    BY <1>1, <1>3, Sizes

------------------------------------------------------------------------------
(* The inductive invariant.                                                  *)

\* main's factory is a factory with one creator.
LEMMA FactoryIsPool == PoolInv <=> Pool({"main"})!PoolInv
  BY DEF PoolInv, Factory!PoolInv, Factory!TypeOK, Factory!OneOwner, Factory!RightContents,
         Factory!NothingLost, Factory!Holds, Pool!PoolInv, Pool!TypeOK, Pool!OneOwner,
         Pool!RightContents, Pool!NothingLost, Pool!Holds

\* What main does with it are steps of a creator.
LEMMA MainCreates ==
    ASSUME TestCreates \/ TestThrows \/ TestDrops
    PROVE  Pool({"main"})!Next
  <1>1. \/ Factory!Pop("main") \/ Factory!New("main") \/ Factory!Construct("main")
        \/ Factory!ConstructThrows("main") \/ Factory!NewThrows("main")
        \/ Factory!Push("main") \/ Factory!Destroy("main")
    BY DEF TestCreates, TestThrows, TestDrops
  <1>2. \/ Pool({"main"})!Pop("main") \/ Pool({"main"})!New("main")
        \/ Pool({"main"})!Construct("main") \/ Pool({"main"})!ConstructThrows("main")
        \/ Pool({"main"})!NewThrows("main") \/ Pool({"main"})!Push("main")
        \/ Pool({"main"})!Destroy("main")
    BY <1>1 DEF Factory!Pop, Factory!New, Factory!Construct, Factory!ConstructThrows,
                Factory!NewThrows, Factory!Push, Factory!Destroy, Pool!Pop, Pool!New,
                Pool!Construct, Pool!ConstructThrows, Pool!NewThrows, Pool!Push, Pool!Destroy
  <1> QED
    BY <1>2 DEF Pool!Next

\* The labels of main from the loading on.
Later == {"open", "load", "MySQL", "Save", "Mongo", "InsertOne", "Redis", "Set", "Get",
          "listener", "accept", "tick", "ioThread", "workers", "heartbeat", "serving",
          "exited", "aborted"}

\* Steps of Load, of the databases, of the service, of the IO thread and of
\* the workers leave the test's variables alone, and main does not come back.
LEMMA AfterTheTest ==
    ASSUME [Next]_vars, ~(TestCreates \/ TestThrows \/ TestDrops)
    PROVE  UNCHANGED testVars /\ (pc' = pc \/ pc' \in Later)
  <1>1. CASE OpenFile \/ SkipNode \/ NoKey \/ ReadKey \/ BadKey \/ Loaded
    BY <1>1 DEF OpenFile, SkipNode, NoKey, ReadKey, BadKey, Loaded, Later
  <1>2. CASE \/ ConnectMySQL \/ UseMySQL \/ ConnectMongo \/ UseMongo
             \/ ConnectRedis \/ SetRedis \/ GetRedis
    BY <1>2 DEF ConnectMySQL, UseMySQL, ConnectMongo, UseMongo, ConnectRedis, SetRedis,
                GetRedis, GoOn, Later
  <1>3. CASE \/ MakeListener \/ StartListener \/ ScheduleTick
             \/ StartIoThread \/ StartWorker \/ ScheduleHeartbeat
    BY <1>3 DEF MakeListener, StartListener, ScheduleTick, StartIoThread, StartWorker,
                ScheduleHeartbeat, Start, Later
  <1>4. CASE PacketArrives \/ RunTask \/ UNCHANGED vars
    BY <1>4 DEF PacketArrives, RunTask, vars
  <1> QED
    BY <1>1, <1>2, <1>3, <1>4 DEF Next, Main

\* Every step of main leaves the factory's memory in order.
LEMMA PoolKeeps ==
    ASSUME PoolInv, [Next]_vars
    PROVE  PoolInv'
  <1>1. [Pool({"main"})!Next]_(Pool({"main"})!poolVars)
    BY MainCreates, AfterTheTest DEF testVars, Pool!poolVars
  <1>2. Pool({"main"})!PoolInv'
    BY <1>1, FactoryIsPool, PoolStep
  <1>3. PoolInv' <=> Pool({"main"})!PoolInv'
    BY DEF PoolInv, Factory!PoolInv, Factory!TypeOK, Factory!OneOwner, Factory!RightContents,
           Factory!NothingLost, Factory!Holds, Pool!PoolInv, Pool!TypeOK, Pool!OneOwner,
           Pool!RightContents, Pool!NothingLost, Pool!Holds
  <1> QED
    BY <1>2, <1>3

\* What the factory's type says of main.
LEMMA FactoryTypes ==
    ASSUME PoolInv
    PROVE  /\ DOMAIN call = {"main"} /\ DOMAIN held = {"main"} /\ held["main"] \in Blocks
           /\ call["main"] \in {"idle", "new", "construct", "push"}
           /\ \A to : [call EXCEPT !["main"] = to]["main"] = to
           /\ \A b : [held EXCEPT !["main"] = b]["main"] = b
  BY DEF PoolInv, Factory!PoolInv, Factory!TypeOK

\* Packet A's memory is on its way to packet B.
LEMMA CreatesKeeps ==
    ASSUME TypeOK, PoolInv, TestInv, MemoryReused, TestCreates
    PROVE  TestInv' /\ MemoryReused' /\ addresses' \in Seq(Blocks)
  <1>1. addresses \in Seq(Blocks)
    BY DEF TypeOK
  <1>2. pc = "packetA" \/ pc = "packetB"
    BY DEF TestCreates
  <1>3. CASE Factory!Pop("main") /\ UNCHANGED <<pc, addresses>>
    <2>1. CASE pc = "packetA"
      <3>1. pool' = <<>> /\ packets' = {} /\ addresses' = <<>>
        BY <1>3, <2>1 DEF Factory!Pop, TestInv
      <3> QED
        BY <1>3, <2>1, <3>1 DEF TestInv, MemoryReused
    <2>2. CASE pc = "packetB"
      <3>1. call["main"] = "idle" /\ pool = <<addresses[1]>> /\ Len(addresses) = 1
        BY <1>3, <2>2 DEF Factory!Pop, TestInv
      <3>2. pool # <<>> /\ pool[Len(pool)] = addresses[1]
        BY <3>1
      <3>3. call'["main"] = "construct" /\ held'["main"] = addresses[1]
        BY <1>3, <3>2, FactoryTypes DEF Factory!Pop
      <3> QED
        BY <1>1, <1>3, <2>2, <3>1, <3>3 DEF TestInv, MemoryReused
    <2> QED
      BY <1>2, <2>1, <2>2
  <1>4. CASE Factory!New("main") /\ UNCHANGED <<pc, addresses>>
    <2>1. pc = "packetA"
      BY <1>2, <1>4 DEF Factory!New, TestInv
    <2>2. pool' = <<>> /\ packets' = {} /\ addresses' = <<>>
      BY <1>4, <2>1 DEF Factory!New, TestInv
    <2> QED
      BY <1>4, <2>1, <2>2 DEF TestInv, MemoryReused
  <1>5. CASE /\ Factory!Construct("main")
             /\ pc' = After[pc] /\ addresses' = Append(addresses, held["main"])
    <2>1. held["main"] \in Blocks
      BY FactoryTypes
    <2>2. CASE pc = "packetA"
      <3>1. addresses' = <<held["main"]>> /\ pc' = "dropA"
        BY <1>5, <2>2 DEF TestInv, After
      <3>2. packets' = {held["main"]} /\ pool' = <<>> /\ call'["main"] = "idle"
        BY <1>5, <2>2, FactoryTypes DEF Factory!Construct, TestInv
      <3>3. addresses' \in Seq(Blocks) /\ Len(addresses') = 1 /\ addresses'[1] = held["main"]
        BY <2>1, <3>1
      <3> QED
        BY <3>1, <3>2, <3>3 DEF TestInv, MemoryReused
    <2>3. CASE pc = "packetB"
      <3>1. Len(addresses) = 1 /\ held["main"] = addresses[1] /\ pc' = "dropB"
        BY <1>5, <2>3 DEF Factory!Construct, TestInv, After
      <3>2. addresses' \in Seq(Blocks) /\ addresses'[1] = addresses[1] /\ addresses'[2] = held["main"]
        BY <1>1, <1>5, <2>1, <3>1, BackPut
      <3> QED
        BY <3>1, <3>2 DEF TestInv, MemoryReused
    <2> QED
      BY <1>2, <2>2, <2>3
  <1> QED
    BY <1>3, <1>4, <1>5 DEF TestCreates

\* A constructor that throws ends the test, before packet A is dropped.
LEMMA ThrowsKeeps ==
    ASSUME TypeOK, PoolInv, TestInv, MemoryReused, TestThrows
    PROVE  TestInv' /\ MemoryReused' /\ addresses' \in Seq(Blocks)
  <1>1. addresses' = addresses /\ addresses' \in Seq(Blocks)
    BY DEF TestThrows, TypeOK
  <1>2. CASE Factory!ConstructThrows("main") /\ pc' = pc
    <2>1. call'["main"] = "push" /\ UNCHANGED <<pool, packets, held>> /\ call["main"] = "construct"
      BY <1>2, FactoryTypes DEF Factory!ConstructThrows
    <2>2. pc = "packetA" \/ pc = "packetB"
      BY DEF TestThrows
    <2> QED
      BY <1>1, <1>2, <2>1, <2>2 DEF TestInv, MemoryReused
  <1>3. CASE pc' = "aborted"
    BY <1>1, <1>3 DEF TestInv, MemoryReused
  <1> QED
    BY <1>2, <1>3 DEF TestThrows

\* Dropping packet A hands its memory to the pool, where B's Pop finds it.
LEMMA DropsKeeps ==
    ASSUME TypeOK, PoolInv, TestInv, MemoryReused, TestDrops
    PROVE  TestInv' /\ MemoryReused' /\ addresses' \in Seq(Blocks)
  <1>1. addresses' = addresses /\ addresses \in Seq(Blocks)
    BY DEF TestDrops, TypeOK
  <1>2. CASE pc = "dropB"
    <2>1. pc' = "dropB" \/ pc' = "open"
      BY <1>2 DEF TestDrops, After
    <2> QED
      BY <1>1, <2>1 DEF TestInv, MemoryReused
  <1>3. CASE pc = "dropA" /\ Factory!Destroy("main") /\ pc' = pc
    <2>1. packets = {addresses[1]} /\ pool = <<>> /\ Len(addresses) = 1
      BY <1>3 DEF Factory!Destroy, TestInv
    <2>2. call'["main"] = "push" /\ held'["main"] = addresses[1] /\ pool' = <<>>
      BY <1>3, <2>1, FactoryTypes DEF Factory!Destroy
    <2> QED
      BY <1>1, <1>3, <2>1, <2>2 DEF TestInv, MemoryReused
  <1>4. CASE pc = "dropA" /\ Factory!Push("main") /\ pc' = "packetB"
    <2>1. held["main"] = addresses[1] /\ pool = <<>> /\ Len(addresses) = 1
      BY <1>4 DEF Factory!Push, TestInv
    <2>2. pool' = <<addresses[1]>> /\ call'["main"] = "idle"
      BY <1>4, <2>1, FactoryTypes DEF Factory!Push
    <2> QED
      BY <1>1, <1>4, <2>1, <2>2 DEF TestInv, MemoryReused
  <1> QED
    BY <1>2, <1>3, <1>4 DEF TestDrops, After

\* Every step of main leaves the way of packet A's memory as TestInv says.
LEMMA TestKeeps ==
    ASSUME TypeOK, PoolInv, TestInv, MemoryReused, [Next]_vars
    PROVE  TestInv' /\ MemoryReused' /\ addresses' \in Seq(Blocks)
  <1>1. CASE ~(TestCreates \/ TestThrows \/ TestDrops)
    <2>1. UNCHANGED testVars /\ (pc' = pc \/ pc' \in Later)
      BY <1>1, AfterTheTest
    <2>2. MemoryReused' /\ addresses' \in Seq(Blocks)
      BY <2>1 DEF testVars, MemoryReused, TypeOK
    <2>3. CASE pc' = pc
      BY <2>1, <2>2, <2>3 DEF testVars, TestInv
    <2>4. CASE pc' \in Later
      BY <2>2, <2>4 DEF TestInv, Later
    <2> QED
      BY <2>1, <2>2, <2>3, <2>4
  <1> QED
    BY <1>1, CreatesKeeps, ThrowsKeeps, DropsKeeps

\* The next key of the file: the others' origins stay as they are.
LEMMA KeyReached ==
    ASSUME found \in Seq(Findings), Len(found) < Len(Order), NEW v \in Findings,
           found' = Append(found, v), NEW k, k = Len(found) + 1
    PROVE  /\ found' \in Seq(Findings) /\ Len(found') <= Len(Order)
           /\ k \in DOMAIN Order /\ Item = Order[k] /\ Item \in Items
           /\ \A i \in DOMAIN Order : i # k => Origin(i)' = Origin(i)
           /\ Origin(k) = Unread(Order[k])
           /\ v = "good" => Origin(k)' = "file"
           /\ v = "absent" => Origin(k)' = "default"
           /\ v \notin {"good", "absent"} => Origin(k)' = Unread(Order[k])
  <1>1. /\ found' \in Seq(Findings) /\ k \in Nat \ {0} /\ DOMAIN found = 1..(k - 1)
        /\ DOMAIN found' = 1..k /\ Len(found') = k /\ found'[k] = v
        /\ \A i \in 1..(k - 1) : found'[i] = found[i]
    BY BackPut
  <1>2. /\ Len(Order) \in Nat /\ DOMAIN Order = 1..Len(Order)
    BY OrderIs, Sizes
  <1>3. Item = Order[k] /\ Len(found) = k - 1
    BY <1>1 DEF Item
  <1>4. k <= Len(Order)
    BY <1>1, <1>2, <1>3
  <1>5. k \in DOMAIN Order /\ k \notin DOMAIN found /\ k \in DOMAIN found'
    BY <1>1, <1>2, <1>4
  <1>6. Order[k] \in Items
    BY <1>5 DEF Items
  <1>7. \A i \in DOMAIN Order : i # k =>
           (i \in DOMAIN found <=> i \in DOMAIN found') /\ (i \in DOMAIN found => found'[i] = found[i])
    BY <1>1, <1>2
  <1>8. \A i \in DOMAIN Order : i # k => Origin(i)' = Origin(i)
    BY <1>7 DEF Origin
  <1>9. Origin(k) = Unread(Order[k])
    BY <1>5 DEF Origin
  <1>10. /\ v = "good" => Origin(k)' = "file"
         /\ v = "absent" => Origin(k)' = "default"
         /\ v \notin {"good", "absent"} => Origin(k)' = Unread(Order[k])
    <2>1. k \in DOMAIN found' /\ found'[k] = v
      BY <1>1, <1>5
    <2>2. CASE v = "good"
      BY <2>1, <2>2 DEF Origin
    <2>3. CASE v = "absent"
      BY <2>1, <2>3 DEF Origin
    <2>4. CASE v \notin {"good", "absent"}
      BY <2>1, <2>4 DEF Origin
    <2> QED
      BY <2>2, <2>3, <2>4
  <1> QED
    BY <1>1, <1>3, <1>4, <1>5, <1>6, <1>8, <1>9, <1>10

\* A key with a value, or one that is not there: the field that it names.
LEMMA SetsKeeps ==
    ASSUME TypeOK, LoadInv, NoKey \/ ReadKey
    PROVE  /\ found' \in Seq(Findings)
           /\ config' \in [Items -> {"default", "file", "undefined"}] /\ LoadInv'
  <1>1. Len(found) < Len(Order) /\ found \in Seq(Findings)
        /\ config \in [Items -> {"default", "file", "undefined"}]
    BY DEF NoKey, ReadKey, TypeOK
  <1>2. PICK v \in Findings, from \in {"default", "file"} :
           /\ found' = Append(found, v) /\ config' = [config EXCEPT ![Item] = from]
           /\ \/ v = "good" /\ from = "file"
              \/ v = "absent" /\ from = "default"
    BY DEF NoKey, ReadKey, Findings
  <1>k. PICK k : k = Len(found) + 1
    OBVIOUS
  <1>3. /\ found' \in Seq(Findings) /\ Len(found') <= Len(Order)
        /\ k \in DOMAIN Order /\ Item = Order[k] /\ Item \in Items
        /\ \A i \in DOMAIN Order : i # k => Origin(i)' = Origin(i)
        /\ Origin(k)' = from
    BY <1>1, <1>2, <1>k, KeyReached
  <1>5. config' \in [Items -> {"default", "file", "undefined"}] /\ config'[Order[k]] = from
        /\ \A f \in Items : f # Order[k] => config'[f] = config[f]
    BY <1>1, <1>2, <1>3
  <1>6. ASSUME NEW i \in DOMAIN Order
        PROVE  config'[Order[i]] = Origin(i)'
    <2>1. CASE i = k
      BY <1>3, <1>5, <2>1
    <2>2. CASE i # k
      <3>1. Order[i] # Order[k] /\ Order[i] \in Items
        BY <1>3, <2>2, OrderDistinct DEF Items
      <3>2. config[Order[i]] = Origin(i)
        BY DEF LoadInv
      <3> QED
        BY <1>3, <1>5, <2>2, <3>1, <3>2
    <2> QED
      BY <2>1, <2>2
  <1> QED
    BY <1>3, <1>5, <1>6 DEF LoadInv

\* A value of a wrong type leaves its field as it was.
LEMMA BadKeeps ==
    ASSUME TypeOK, LoadInv, BadKey
    PROVE  found' \in Seq(Findings) /\ LoadInv'
  <1>1. /\ Len(found) < Len(Order) /\ found \in Seq(Findings)
        /\ found' = Append(found, "bad") /\ config' = config
    BY DEF BadKey, TypeOK
  <1>2. PICK v \in Findings : v = "bad"
    BY DEF Findings
  <1>k. PICK k : k = Len(found) + 1
    OBVIOUS
  <1>3. /\ found' \in Seq(Findings) /\ Len(found') <= Len(Order)
        /\ \A i \in DOMAIN Order : i # k => Origin(i)' = Origin(i)
        /\ Origin(k)' = Origin(k)
    BY <1>1, <1>2, <1>k, KeyReached
  <1>4. ASSUME NEW i \in DOMAIN Order
        PROVE  Origin(i)' = Origin(i)
    <2>1. CASE i = k
      BY <1>3, <2>1
    <2> QED
      BY <1>3, <2>1
  <1> QED
    BY <1>1, <1>3, <1>4 DEF LoadInv

\* A section that is not there leaves all its fields as they were.
LEMMA SkipKeeps ==
    ASSUME TypeOK, LoadInv, SkipNode
    PROVE  found' \in Seq(Findings) /\ LoadInv'
  <1> DEFINE skipped == [i \in 1..N |-> "skipped"]
             k == Len(found)
  <1>1. /\ k < Len(Order) /\ found \in Seq(Findings) /\ config' = config
        /\ found' = found \o skipped
        /\ Order[k + 1] \in {Node(name)[1] : name \in {"MySQL", "Mongo", "Redis"}}
    BY DEF SkipNode, Item, TypeOK, N
  <1>2. skipped \in Seq(Findings) /\ Len(skipped) = N /\ \A i \in 1..N : skipped[i] = "skipped"
    <2>1. skipped \in [1..N -> Findings]
      BY DEF Findings
    <2> QED
      BY <2>1, Sizes, FunctionIsList
  <1> HIDE DEF skipped
  <1>3. /\ found' \in Seq(Findings) /\ k \in Nat /\ Len(found') = k + N
        /\ \A i \in 1..k : found'[i] = found[i]
        /\ \A i \in 1..N : found'[k + i] = "skipped"
    BY <1>1, <1>2, Joined
  <1>4. DOMAIN found = 1..k /\ DOMAIN found' = 1..(k + N)
    BY <1>1, <1>3, ListIs
  <1> HIDE DEF k
  <1>5. Len(Order) \in Nat /\ DOMAIN Order = 1..Len(Order)
    BY OrderIs, Sizes
  <1>6. Len(found') <= Len(Order)
    <2>1. k + 1 \in DOMAIN Order
      BY <1>1, <1>3, <1>5
    <2>2. k + 1 + (N - 1) <= Len(Order)
      BY <1>1, <2>1, SectionFits
    <2> QED
      BY <1>3, <1>5, <2>2, Sizes
  <1>7. ASSUME NEW i \in DOMAIN Order
        PROVE  Origin(i)' = Origin(i)
    <2>1. CASE i \in 1..k
      <3>1. i \in DOMAIN found /\ i \in DOMAIN found' /\ found'[i] = found[i]
        BY <1>3, <1>4, <2>1, Sizes
      <3> QED
        BY <3>1 DEF Origin
    <2>2. CASE i \in (k + 1)..(k + N)
      <3>1. i - k \in 1..N /\ i = k + (i - k) /\ i \notin DOMAIN found
        BY <1>3, <1>4, <2>2, Sizes
      <3>2. found'[i] = "skipped"
        BY <1>3, <3>1
      <3> QED
        BY <3>1, <3>2 DEF Origin
    <2>3. CASE i > k + N
      <3>1. i \notin DOMAIN found /\ i \notin DOMAIN found'
        BY <1>3, <1>4, <1>5, <2>3, Sizes
      <3> QED
        BY <3>1 DEF Origin
    <2>4. i \in Nat /\ i > 0
      BY <1>5
    <2> QED
      BY <1>3, <2>1, <2>2, <2>3, <2>4, Sizes
  <1> QED
    BY <1>1, <1>3, <1>6, <1>7 DEF LoadInv

\* Every step of main leaves the fields read so far as the file says.
LEMMA LoadKeeps ==
    ASSUME TypeOK, LoadInv, [Next]_vars
    PROVE  /\ found' \in Seq(Findings)
           /\ config' \in [Items -> {"default", "file", "undefined"}] /\ LoadInv'
  <1>1. CASE NoKey \/ ReadKey
    BY <1>1, SetsKeeps
  <1>2. CASE BadKey
    BY <1>2, BadKeeps DEF BadKey, TypeOK
  <1>3. CASE SkipNode
    BY <1>3, SkipKeeps DEF SkipNode, TypeOK
  <1>4. CASE UNCHANGED <<found, config>>
    BY <1>4 DEF TypeOK, LoadInv, Origin
  <1>5. CASE TestCreates \/ TestThrows \/ TestDrops
    BY <1>4, <1>5 DEF TestCreates, TestThrows, TestDrops
  <1>6. CASE OpenFile \/ Loaded
    BY <1>4, <1>6 DEF OpenFile, Loaded
  <1>7. CASE \/ ConnectMySQL \/ UseMySQL \/ ConnectMongo \/ UseMongo
             \/ ConnectRedis \/ SetRedis \/ GetRedis
    BY <1>4, <1>7 DEF ConnectMySQL, UseMySQL, ConnectMongo, UseMongo, ConnectRedis, SetRedis,
                      GetRedis, GoOn, loadVars
  <1>8. CASE \/ MakeListener \/ StartListener \/ ScheduleTick
             \/ StartIoThread \/ StartWorker \/ ScheduleHeartbeat
    BY <1>4, <1>8 DEF MakeListener, StartListener, ScheduleTick, StartIoThread, StartWorker,
                      ScheduleHeartbeat, Start, loadVars
  <1>9. CASE PacketArrives \/ RunTask \/ UNCHANGED vars
    BY <1>4, <1>9 DEF PacketArrives, RunTask, loadVars, vars
  <1> QED
    BY <1>1, <1>2, <1>3, <1>5, <1>6, <1>7, <1>8, <1>9 DEF Next, Main

\* The labels from which there is something that main has made, or a reason why not.
Parts == {"tick", "ioThread", "workers", "heartbeat", "serving", "exited"}

\* While main has made nothing yet, nothing is there.
LEMMA NothingYet ==
    ASSUME ServiceInv, pc \notin Parts, pc' \notin Parts, UNCHANGED mainVars
    PROVE  ServiceInv'
  <1>1. ~accepting /\ timers = {} /\ ~ioRunning /\ workers = 0
    BY DEF ServiceInv, Parts
  <1>2. /\ accepting' = accepting /\ timers' = timers /\ ioRunning' = ioRunning
        /\ workers' = workers
    BY DEF mainVars
  <1> QED
    BY <1>1, <1>2 DEF ServiceInv, Parts

\* Until the databases are tried nothing of the service is made.
LEMMA EarlySteps ==
    ASSUME \/ TestCreates \/ TestThrows \/ TestDrops
           \/ OpenFile \/ SkipNode \/ NoKey \/ ReadKey \/ BadKey \/ Loaded
           \/ ConnectMySQL \/ UseMySQL \/ ConnectMongo \/ UseMongo
           \/ ConnectRedis \/ SetRedis \/ GetRedis
    PROVE  pc \notin Parts /\ pc' \notin Parts /\ UNCHANGED mainVars
  <1>1. CASE TestCreates \/ TestThrows \/ TestDrops
    BY <1>1 DEF TestCreates, TestThrows, TestDrops, After, Parts
  <1>2. CASE OpenFile \/ SkipNode \/ NoKey \/ ReadKey \/ BadKey \/ Loaded
    BY <1>2 DEF OpenFile, SkipNode, NoKey, ReadKey, BadKey, Loaded, Parts
  <1>3. CASE \/ ConnectMySQL \/ UseMySQL \/ ConnectMongo \/ UseMongo
             \/ ConnectRedis \/ SetRedis \/ GetRedis
    BY <1>3 DEF ConnectMySQL, UseMySQL, ConnectMongo, UseMongo, ConnectRedis, SetRedis,
                GetRedis, GoOn, Parts
  <1> QED
    BY <1>1, <1>2, <1>3

\* Every step of main leaves the service as far as its label says.
LEMMA ServiceKeeps ==
    ASSUME TypeOK, ServiceInv, [Next]_vars
    PROVE  ServiceInv' /\ threadCount' \in Int /\ workers' \in Nat
  <1>1. threadCount \in Int /\ workers \in Nat
    BY DEF TypeOK
  <1>2. CASE \/ TestCreates \/ TestThrows \/ TestDrops
             \/ OpenFile \/ SkipNode \/ NoKey \/ ReadKey \/ BadKey \/ Loaded
             \/ ConnectMySQL \/ UseMySQL \/ ConnectMongo \/ UseMongo
             \/ ConnectRedis \/ SetRedis \/ GetRedis
    <2>1. ServiceInv' /\ workers' = workers
      BY <1>2, EarlySteps, NothingYet DEF mainVars
    <2>2. threadCount' = threadCount \/ threadCount' \in ThreadCounts
      BY <1>2 DEF TestCreates, TestThrows, TestDrops, OpenFile, SkipNode, NoKey, ReadKey, BadKey,
                  Loaded, ConnectMySQL, UseMySQL, ConnectMongo, UseMongo, ConnectRedis, SetRedis,
                  GetRedis, GoOn, loadVars
    <2> QED
      BY <1>1, <2>1, <2>2, NumbersAssumption
  <1>3. CASE MakeListener
    BY <1>1, <1>3 DEF MakeListener, Start, loadVars, ServiceInv
  <1>4. CASE StartListener
    BY <1>1, <1>4 DEF StartListener, Start, loadVars, ServiceInv
  <1>5. CASE ScheduleTick
    BY <1>1, <1>5 DEF ScheduleTick, Start, loadVars, ServiceInv
  <1>6. CASE StartIoThread
    BY <1>1, <1>6 DEF StartIoThread, Start, loadVars, ServiceInv
  <1>7. CASE StartWorker
    <2>1. threadCount' = threadCount
      BY <1>7 DEF StartWorker, Start, loadVars
    <2>2. CASE workers < threadCount /\ pc' = pc /\ workers' = workers + 1
      BY <1>1, <1>7, <2>1, <2>2 DEF StartWorker, ServiceInv
    <2>3. CASE workers >= threadCount /\ pc' = "heartbeat" /\ workers' = workers
      BY <1>1, <1>7, <2>1, <2>3 DEF StartWorker, ServiceInv
    <2> QED
      BY <1>7, <2>2, <2>3 DEF StartWorker, Start
  <1>8. CASE ScheduleHeartbeat
    BY <1>1, <1>8 DEF ScheduleHeartbeat, Start, loadVars, ServiceInv
  <1>9. CASE PacketArrives \/ RunTask \/ UNCHANGED vars
    <2>1. UNCHANGED <<pc, threadCount, mainVars>>
      BY <1>9 DEF PacketArrives, RunTask, loadVars, vars
    <2> QED
      BY <1>1, <2>1 DEF mainVars, ServiceInv
  <1> QED
    BY <1>2, <1>3, <1>4, <1>5, <1>6, <1>7, <1>8, <1>9 DEF Next, Main

\* At first main has the defaults and nothing else.
LEMMA InitHolds == Init => IInv
  <1> SUFFICES ASSUME Init PROVE IInv
    OBVIOUS
  <1>1. TypeOK
    <2>1. config \in [Items -> {"default", "file", "undefined"}]
      BY DEF Init, Unread
    <2> QED
      BY <2>1, NumbersAssumption DEF Init, TypeOK
  <1>2. PoolInv
    BY DEF Init, Factory!Init, PoolInv, Factory!PoolInv, Factory!TypeOK, Factory!OneOwner,
           Factory!RightContents, Factory!NothingLost, Factory!Holds
  <1>3. TestInv /\ MemoryReused
    BY DEF Init, Factory!Init, TestInv, MemoryReused
  <1>4. LoadInv
    <2>1. \A i \in DOMAIN Order : Order[i] \in Items
      BY DEF Items
    <2> QED
      BY <2>1, OrderIs, Sizes DEF Init, LoadInv, Origin
  <1>5. ServiceInv
    BY DEF Init, ServiceInv
  <1> QED
    BY <1>1, <1>2, <1>3, <1>4, <1>5 DEF IInv

------------------------------------------------------------------------------
(* The theorems.                                                             *)

\* What the parts of IInv say of the test, the loading and the start holds in
\* every state, whatever the file, the keys and the databases.
THEOREM StartInvariance == Spec => []IInv
  <1>1. IInv /\ [Next]_vars => IInv'
    <2> SUFFICES ASSUME IInv, [Next]_vars PROVE IInv'
      OBVIOUS
    <2>1. TypeOK /\ PoolInv /\ TestInv /\ MemoryReused /\ LoadInv /\ ServiceInv
      BY DEF IInv
    <2>2. TestInv' /\ MemoryReused' /\ addresses' \in Seq(Blocks)
      BY <2>1, TestKeeps
    <2>3. PoolInv'
      BY <2>1, PoolKeeps
    <2>4. /\ found' \in Seq(Findings)
          /\ config' \in [Items -> {"default", "file", "undefined"}] /\ LoadInv'
      BY <2>1, LoadKeeps
    <2>5. ServiceInv' /\ threadCount' \in Int /\ workers' \in Nat
      BY <2>1, ServiceKeeps
    <2> QED
      BY <2>2, <2>3, <2>4, <2>5 DEF IInv, TypeOK
  <1> QED
    BY <1>1, InitHolds, PTL DEF Spec

\* TestPacketFactory: packet B is given the memory of packet A.
THEOREM TestMemoryReused == Spec => []MemoryReused
  <1>1. IInv => MemoryReused
    BY DEF IInv
  <1> QED
    BY <1>1, StartInvariance, PTL

\* CreatePacket and DestroyPacket as main calls them: every packet has memory
\* of its own, and none is lost, not even by a constructor that throws.
THEOREM MainsPacketsHaveTheirMemory == Spec => []PoolInv
  <1>1. IInv => PoolInv
    BY DEF IInv
  <1> QED
    BY <1>1, StartInvariance, PTL

\* JsonConfigLoader::Load, for any list of keys: each field that main uses has
\* what the file says of it, up to the first value of a wrong type.
THEOREM ConfigurationFollowsTheFile == Spec => []ConfigFollowsFile
  <1>1. IInv => ConfigFollowsFile
    BY DEF IInv, LoadInv, ConfigFollowsFile
  <1> QED
    BY <1>1, StartInvariance, PTL

\* main serves with the accept, both timers, the IO thread and all its workers;
\* when it returns early, which only the port and the test make it do, no thread
\* is left that its destructors would have to join.
THEOREM ServesWholeOrNotAtAll == Spec => []StartsWhole
  <1>1. IInv => StartsWhole
    <2> SUFFICES ASSUME IInv PROVE StartsWhole
      OBVIOUS
    <2>1. threadCount \in Int /\ workers \in Nat /\ ServiceInv
      BY DEF IInv, TypeOK
    <2>2. pc = "serving" => Serving
      BY <2>1 DEF ServiceInv, Serving
    <2>3. pc \in {"exited", "aborted"} => ~ioRunning /\ ~accepting /\ timers = {} /\ workers = 0
      BY <2>1 DEF ServiceInv
    <2> QED
      BY <2>1, <2>2, <2>3 DEF ServiceInv, StartsWhole
  <1> QED
    BY <1>1, StartInvariance, PTL
==============================================================================
