------------------------------ MODULE PacketPool ------------------------------
(***************************************************************************)
(* IPacketFactory and its PacketPool<T>: memory for packets of one type,   *)
(* taken from the pool or from the heap, made into a packet, destroyed by  *)
(* whichever thread drops the last reference, and put back.  The pool is   *)
(* locked for a Pop and for a Push, and for nothing in between.            *)
(*                                                                         *)
(* A block of memory is its address.  In this program only main makes      *)
(* packets, in a test (ServerStart); the factory is for any thread.        *)
(***************************************************************************)
EXTENDS Naturals, Sequences

CONSTANTS Threads, Blocks

VARIABLES
    pool,     \* _pool, of which the back is taken first
    memory,   \* of each block: "free" (the heap's), "raw", "object"
    packets,  \* the packets that somebody has a shared_ptr to
    pc,       \* of each thread: "idle", or the call of the factory it is in
    held      \* of each thread: the block that this call works on

poolVars == <<pool, memory, packets, pc, held>>

Init ==
    /\ pool = <<>>
    /\ memory = [b \in Blocks |-> "free"]
    /\ packets = {}
    /\ pc = [t \in Threads |-> "idle"]
    /\ held \in [Threads -> Blocks]

------------------------------------------------------------------------------
(* CreatePacket.                                                           *)

\* Mutant: back() without pop_back().
PopKeeps(t) ==
    /\ pc[t] = "idle"
    /\ \/ pool = <<>> /\ pc' = [pc EXCEPT ![t] = "new"] /\ UNCHANGED held
       \/ pool # <<>> /\ pc' = [pc EXCEPT ![t] = "construct"]
                      /\ held' = [held EXCEPT ![t] = pool[Len(pool)]]
    /\ UNCHANGED <<pool, memory, packets>>

\* Pop, under the lock.
Pop(t) ==
    /\ pc[t] = "idle"
    /\ \/ /\ pool = <<>>
          /\ pc' = [pc EXCEPT ![t] = "new"]
          /\ UNCHANGED <<pool, held>>
       \/ /\ pool # <<>>
          /\ pc' = [pc EXCEPT ![t] = "construct"]
          /\ held' = [held EXCEPT ![t] = pool[Len(pool)]]
          /\ pool' = SubSeq(pool, 1, Len(pool) - 1)
    /\ UNCHANGED <<memory, packets>>

\* operator new finds a block.
New(t) ==
    /\ pc[t] = "new"
    /\ \E b \in Blocks :
          /\ memory[b] = "free"
          /\ memory' = [memory EXCEPT ![b] = "raw"]
          /\ held' = [held EXCEPT ![t] = b]
    /\ pc' = [pc EXCEPT ![t] = "construct"]
    /\ UNCHANGED <<pool, packets>>

\* operator new throws: the caller gets the exception, and nothing is held.
NewThrows(t) ==
    /\ pc[t] = "new"
    /\ pc' = [pc EXCEPT ![t] = "idle"]
    /\ UNCHANGED <<pool, memory, packets, held>>

\* The constructor of T runs in the block, and the caller has a shared_ptr.
Construct(t) ==
    /\ pc[t] = "construct"
    /\ memory' = [memory EXCEPT ![held[t]] = "object"]
    /\ packets' = packets \union {held[t]}
    /\ pc' = [pc EXCEPT ![t] = "idle"]
    /\ UNCHANGED <<pool, held>>

\* The constructor throws, and the block goes back to the pool.
ConstructThrows(t) ==
    /\ pc[t] = "construct"
    /\ pc' = [pc EXCEPT ![t] = "push"]
    /\ UNCHANGED <<pool, memory, packets, held>>

------------------------------------------------------------------------------
(* DestroyPacket, by the deleter of the last shared_ptr.                   *)

Destroy(t) ==
    /\ pc[t] = "idle"
    /\ \E b \in packets :
          /\ packets' = packets \ {b}
          /\ memory' = [memory EXCEPT ![b] = "raw"]
          /\ held' = [held EXCEPT ![t] = b]
    /\ pc' = [pc EXCEPT ![t] = "push"]
    /\ UNCHANGED pool

\* Mutant: the block is forgotten.
PushNothing(t) ==
    /\ pc[t] = "push"
    /\ pc' = [pc EXCEPT ![t] = "idle"]
    /\ UNCHANGED <<pool, memory, packets, held>>

\* Push, under the lock.
Push(t) ==
    /\ pc[t] = "push"
    /\ pool' = Append(pool, held[t])
    /\ pc' = [pc EXCEPT ![t] = "idle"]
    /\ UNCHANGED <<memory, packets, held>>

------------------------------------------------------------------------------
Next ==
    \E t \in Threads :
        \/ Pop(t) \/ New(t) \/ NewThrows(t) \/ Construct(t) \/ ConstructThrows(t)
        \/ Destroy(t) \/ Push(t)

Spec == Init /\ [][Next]_poolVars

------------------------------------------------------------------------------
(* What the factory promises.                                              *)

TypeOK ==
    /\ pool \in Seq(Blocks)
    /\ memory \in [Blocks -> {"free", "raw", "object"}]
    /\ packets \subseteq Blocks
    /\ pc \in [Threads -> {"idle", "new", "construct", "push"}]
    /\ held \in [Threads -> Blocks]

Holds(t) == pc[t] \in {"construct", "push"}

\* The pool has each block once, and no block is in two hands.
OneOwner ==
    /\ \A i, j \in DOMAIN pool : pool[i] = pool[j] => i = j
    /\ \A i \in DOMAIN pool : pool[i] \notin packets
    /\ \A t \in Threads : Holds(t) =>
          /\ held[t] \notin packets
          /\ \A i \in DOMAIN pool : pool[i] # held[t]
          /\ \A u \in Threads : Holds(u) /\ held[u] = held[t] => u = t

\* The packets in use are constructed, everything else is raw memory.
RightContents ==
    /\ \A b \in Blocks : memory[b] = "object" <=> b \in packets
    /\ \A i \in DOMAIN pool : memory[pool[i]] = "raw"
    /\ \A t \in Threads : Holds(t) => memory[held[t]] = "raw"

\* A block that was taken from the heap stays within reach.
NothingLost ==
    \A b \in Blocks : memory[b] = "raw" =>
        \/ \E i \in DOMAIN pool : pool[i] = b
        \/ \E t \in Threads : Holds(t) /\ held[t] = b

\* Every packet has memory of its own, constructed once and destroyed once
\* before the memory is used again, and none is lost: though a block passes
\* through CreatePacket and DestroyPacket without a lock between Pop and Push.
PoolInv == TypeOK /\ OneOwner /\ RightContents /\ NothingLost
==============================================================================
