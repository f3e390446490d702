-------------------------- MODULE ClientServerProofs --------------------------
(***************************************************************************)
(* What the two ends of a connection keep, proved for all times, threads   *)
(* and programs: IInv of ClientServer is inductive.                        *)
(***************************************************************************)
EXTENDS ClientServer, SequenceTheorems, TLAPS

------------------------------------------------------------------------------
(* Queues of packets.                                                      *)

\* The positions of a queue of packets, and what stands in them.
LEMMA RangeIs ==
    ASSUME NEW q \in Seq(Packet)
    PROVE  /\ Range(q) \subseteq Packet
           /\ \A i \in DOMAIN q : q[i] \in Range(q)
           /\ \A p \in Range(q) : \E i \in DOMAIN q : q[i] = p
           /\ Len(q) \in Nat /\ DOMAIN q = 1..Len(q)
  BY DEF Range

\* The empty queue.
LEMMA EmptyQueue == <<>> \in Seq(Packet) /\ Range(<<>>) = {} /\ DOMAIN <<>> = {}
  BY DEF Range

\* A queue without packets is the empty queue.
LEMMA NothingIn ==
    ASSUME NEW q \in Seq(Packet), Range(q) = {}
    PROVE  q = <<>>
  <1>1. PICK n \in Nat : n = Len(q) /\ 1..n = {}
    BY RangeIs
  <1>2. n >= 1 => 1 \in 1..n
    OBVIOUS
  <1> QED
    BY <1>1, <1>2, EmptySeq

\* What a queue holds after a packet was sent or posted behind it.
LEMMA AppendIs ==
    ASSUME NEW q \in Seq(Packet), NEW x \in Packet
    PROVE  /\ Append(q, x) \in Seq(Packet)
           /\ DOMAIN Append(q, x) = DOMAIN q \union {Len(q) + 1}
           /\ \A i \in DOMAIN q : i < Len(q) + 1 /\ Append(q, x)[i] = q[i]
           /\ Append(q, x)[Len(q) + 1] = x
           /\ Range(Append(q, x)) = Range(q) \union {x}
  <1>1. PICK n \in Nat : n = Len(q) /\ DOMAIN q = 1..n
    BY RangeIs
  <1>2. PICK r : r = Append(q, x)
    OBVIOUS
  <1>3. r \in Seq(Packet) /\ DOMAIN r = 1..(n + 1)
    BY <1>1, <1>2
  <1>4. \A i \in 1..n : r[i] = q[i]
    BY <1>1, <1>2
  <1>5. r[n + 1] = x
    BY <1>1, <1>2
  <1>6. 1..(n + 1) = (1..n) \union {n + 1} /\ \A i \in 1..n : i < n + 1
    OBVIOUS
  <1>7. Range(r) = Range(q) \union {x}
    BY <1>1, <1>3, <1>4, <1>5, <1>6 DEF Range
  <1> QED
    BY <1>1, <1>2, <1>3, <1>4, <1>5, <1>6, <1>7

\* What the read loop leaves of a queue when it takes its front.
LEMMA TailIs ==
    ASSUME NEW q \in Seq(Packet), q # <<>>
    PROVE  /\ Tail(q) \in Seq(Packet)
           /\ Len(Tail(q)) = Len(q) - 1 /\ DOMAIN Tail(q) = 1..(Len(q) - 1)
           /\ Head(q) = q[1] /\ 1 \in DOMAIN q /\ Head(q) \in Packet
           /\ \A i \in DOMAIN Tail(q) : i + 1 \in DOMAIN q /\ Tail(q)[i] = q[i + 1]
           /\ \A i \in DOMAIN q : i = 1 \/ (i - 1 \in DOMAIN Tail(q) /\ Tail(q)[i - 1] = q[i])
           /\ Range(q) = Range(Tail(q)) \union {Head(q)}
  <1>1. PICK n \in Nat : n = Len(q) /\ DOMAIN q = 1..n
    BY RangeIs
  <1>2. PICK r : r = Tail(q)
    OBVIOUS
  <1>3. n >= 1 /\ Head(q) = q[1] /\ r \in Seq(Packet) /\ Len(r) = n - 1
    BY <1>1, <1>2
  <1>4. \A i \in 1..(n - 1) : r[i] = q[i + 1]
    BY <1>1, <1>2
  <1>5. DOMAIN r = 1..(n - 1)
    BY <1>3
  <1>6. \A i \in 1..(n - 1) : i + 1 \in 1..n
    OBVIOUS
  <1>7. \A i \in 1..n : i = 1 \/ (i - 1 \in 1..(n - 1) /\ r[i - 1] = q[i])
    <2> SUFFICES ASSUME NEW i \in 1..n, i # 1
                 PROVE  i - 1 \in 1..(n - 1) /\ r[i - 1] = q[i]
      OBVIOUS
    <2>1. PICK j \in 1..(n - 1) : j = i - 1 /\ i = j + 1
      OBVIOUS
    <2> QED
      BY <1>4, <2>1
  <1>8. Range(q) = Range(r) \union {q[1]}
    <2>1. ASSUME NEW i \in 1..n PROVE q[i] \in Range(r) \/ q[i] = q[1]
      BY <1>5, <1>7 DEF Range
    <2>2. ASSUME NEW i \in 1..(n - 1) PROVE r[i] \in Range(q)
      BY <1>1, <1>4, <1>6 DEF Range
    <2>3. q[1] \in Range(q)
      BY <1>1, <1>3 DEF Range
    <2> QED
      BY <1>1, <1>5, <2>1, <2>2, <2>3 DEF Range
  <1>9. 1 \in 1..n /\ q[1] \in Packet
    BY <1>1, <1>3
  <1> QED
    BY <1>1, <1>2, <1>3, <1>4, <1>5, <1>6, <1>7, <1>8, <1>9

\* A place k behind the gap at i, in the front part of i - 1 and the back part
\* of n - i elements.
LEMMA BehindTheGap ==
    ASSUME NEW n \in Nat, NEW i \in 1..n, NEW k \in 1..(n - 1), k >= i
    PROVE  /\ k \in 1..((i - 1) + (n - i)) /\ ~(k <= i - 1)
           /\ k - (i - 1) \in 1..(n - i) /\ (k - (i - 1)) + i = k + 1
  OBVIOUS

\* What a worker leaves of the tasks when it takes one of them: all others, in
\* their order, each where it was or one place further to the front.
LEMMA WithoutIs ==
    ASSUME NEW q \in Seq(Packet), NEW i \in DOMAIN q
    PROVE  /\ Without(q, i) \in Seq(Packet)
           /\ Range(q) = Range(Without(q, i)) \union {q[i]}
           /\ \A k \in DOMAIN Without(q, i) : \E m \in DOMAIN q :
                 /\ Without(q, i)[k] = q[m]
                 /\ (k < i /\ m = k) \/ (k >= i /\ m = k + 1)
           /\ \A m \in DOMAIN q : m = i \/ \E k \in DOMAIN Without(q, i) :
                 /\ Without(q, i)[k] = q[m]
                 /\ (m < i /\ k = m) \/ (m > i /\ k >= i /\ m = k + 1)
           /\ i = 1 => Without(q, i) = Tail(q)
  <1>1. PICK n \in Nat : n = Len(q) /\ DOMAIN q = 1..n
    BY RangeIs
  <1>2. PICK a, b : a = SubSeq(q, 1, i - 1) /\ b = SubSeq(q, i + 1, n)
    OBVIOUS
  <1>3. i \in Nat /\ 1 <= i /\ i <= n
    BY <1>1
  <1>4. /\ a \in Seq(Packet) /\ Len(a) = i - 1
        /\ \A k \in 1..(i - 1) : a[k] = q[k]
    BY <1>1, <1>2, <1>3
  <1>5. /\ b \in Seq(Packet) /\ Len(b) = n - i
    BY <1>1, <1>2, <1>3
  <1>6. \A k \in 1..(n - i) : b[k] = q[k + i]
    BY <1>1, <1>2, <1>3
  <1>7. PICK r : r = a \o b
    OBVIOUS
  <1>8. /\ r \in Seq(Packet) /\ Len(r) = Len(a) + Len(b)
    BY <1>4, <1>5, <1>7, ConcatProperties
  <1>9. DOMAIN r = 1..(n - 1)
    <2>1. r \in Seq(Packet) /\ Len(r) = (i - 1) + (n - i)
      BY <1>4, <1>5, <1>8
    <2>2. (i - 1) + (n - i) = n - 1
      BY <1>3
    <2> QED
      BY <2>1, <2>2
  <1>10. \A k \in 1..(n - 1) : k < i => r[k] = q[k]
    <2> SUFFICES ASSUME NEW k \in 1..(n - 1), k < i PROVE r[k] = q[k]
      OBVIOUS
    <2>1. k \in 1..(i - 1)
      BY <1>3
    <2>2. k \in 1..Len(a)
      BY <1>4, <2>1
    <2>3. r[k] = a[k]
      BY <1>4, <1>5, <1>7, <2>2, ConcatProperties
    <2> QED
      BY <1>4, <2>1, <2>3
  <1>11. \A k \in 1..(n - 1) : k >= i => r[k] = q[k + 1]
    <2> SUFFICES ASSUME NEW k \in 1..(n - 1), k >= i PROVE r[k] = q[k + 1]
      OBVIOUS
    <2>1. PICK h \in Nat, m \in Nat : h = Len(a) /\ m = Len(b)
      BY <1>4, <1>5
    <2>2. h = i - 1 /\ m = n - i
      BY <1>4, <1>5, <2>1
    <2>3. /\ k \in 1..(h + m) /\ ~(k <= h) /\ k - h \in 1..(n - i)
          /\ (k - h) + i = k + 1
      <3>1. i \in 1..n
        BY <1>3
      <3> QED
        BY <2>2, <3>1, BehindTheGap
    <2>4. \A l \in 1..(h + m) : (a \o b)[l] = IF l <= h THEN a[l] ELSE b[l - h]
      BY <1>4, <1>5, <2>1, ConcatProperties
    <2>5. r[k] = b[k - h]
      BY <1>7, <2>3, <2>4
    <2>6. b[k - h] = q[(k - h) + i]
      BY <1>6, <2>3
    <2> QED
      BY <2>3, <2>5, <2>6
  <1>12. \A k \in 1..(n - 1) : k \in 1..n /\ k + 1 \in 1..n /\ (k < i \/ k >= i)
    BY <1>3
  <1>13. \A m \in 1..n : m = i \/ (m < i /\ m \in 1..(n - 1)) \/ (m > i /\ m - 1 \in 1..(n - 1) /\ m - 1 >= i /\ (m - 1) + 1 = m)
    BY <1>3
  <1>14. Range(q) = Range(r) \union {q[i]}
    <2>1. ASSUME NEW m \in 1..n PROVE q[m] \in Range(r) \/ q[m] = q[i]
      <3>1. CASE m = i
        BY <3>1
      <3>2. CASE m < i /\ m \in 1..(n - 1)
        BY <1>9, <1>10, <3>2 DEF Range
      <3>3. CASE m > i /\ m - 1 \in 1..(n - 1) /\ m - 1 >= i /\ (m - 1) + 1 = m
        <4>1. PICK k \in 1..(n - 1) : k = m - 1 /\ k >= i /\ k + 1 = m
          BY <3>3
        <4> QED
          BY <1>9, <1>11, <4>1 DEF Range
      <3> QED
        BY <1>13, <3>1, <3>2, <3>3
    <2>2. ASSUME NEW k \in 1..(n - 1) PROVE r[k] \in Range(q)
      BY <1>1, <1>10, <1>11, <1>12 DEF Range
    <2>3. q[i] \in Range(q)
      BY <1>1 DEF Range
    <2> QED
      BY <1>1, <1>9, <2>1, <2>2, <2>3 DEF Range
  <1>15. ASSUME i = 1 PROVE r = Tail(q)
    <2>1. PICK t : t = Tail(q)
      OBVIOUS
    <2>2. q # <<>>
      BY <1>1, <1>3
    <2>3. t \in Seq(Packet) /\ Len(t) = n - 1 /\ \A k \in 1..(n - 1) : t[k] = q[k + 1]
      BY <1>1, <2>1, <2>2, TailIs
    <2>4. Len(r) = n - 1
      BY <1>4, <1>5, <1>8, <1>15
    <2>5. \A k \in 1..(n - 1) : r[k] = t[k]
      BY <1>11, <1>15, <2>3
    <2>6. r = t
      BY <1>8, <2>3, <2>4, <2>5, SeqEqual
    <2> QED
      BY <2>1, <2>6
  <1>16. Without(q, i) = r
    BY <1>1, <1>2, <1>7 DEF Without
  <1>17. ASSUME NEW m \in 1..n, m # i
         PROVE  \E k \in 1..(n - 1) : r[k] = q[m] /\ ((m < i /\ k = m) \/ (m > i /\ k >= i /\ m = k + 1))
    <2>1. CASE m < i /\ m \in 1..(n - 1)
      BY <1>10, <2>1
    <2>2. CASE m > i /\ m - 1 \in 1..(n - 1) /\ m - 1 >= i /\ (m - 1) + 1 = m
      <3>1. PICK k \in 1..(n - 1) : k = m - 1 /\ k >= i /\ k + 1 = m
        BY <2>2
      <3> QED
        BY <1>11, <2>2, <3>1
    <2> QED
      BY <1>13, <1>17, <2>1, <2>2
  <1>18. \A m \in DOMAIN q : m = i \/ \E k \in DOMAIN r :
            r[k] = q[m] /\ ((m < i /\ k = m) \/ (m > i /\ k >= i /\ m = k + 1))
    BY <1>1, <1>9, <1>17
  <1>19. \A k \in DOMAIN r : \E m \in DOMAIN q :
            r[k] = q[m] /\ ((k < i /\ m = k) \/ (k >= i /\ m = k + 1))
    BY <1>1, <1>9, <1>10, <1>11, <1>12
  <1> QED
    BY <1>8, <1>14, <1>15, <1>16, <1>18, <1>19

\* What a reset leaves of a queue: some of what was in front, and then the end of
\* the stream.
LEMMA EndedIs ==
    ASSUME NEW q \in Seq(Packet), NEW n \in 0..Len(q)
    PROVE  /\ Ended(q, n) \in Seq(Packet)
           /\ \A i \in DOMAIN Ended(q, n) :
                 \/ Ended(q, n)[i] = [id |-> "FIN", age |-> 0]
                 \/ i \in DOMAIN q /\ Ended(q, n)[i] = q[i] /\ \A j \in 1..i : j \in DOMAIN Ended(q, n) /\ Ended(q, n)[j] = q[j]
           /\ [id |-> "FIN", age |-> 0] \in Range(Ended(q, n))
           /\ Range(Ended(q, n)) \subseteq Range(q) \union {[id |-> "FIN", age |-> 0]}
  <1>1. PICK fin \in Packet : fin = [id |-> "FIN", age |-> 0]
    BY DEF Packet
  <1>2. PICK a : a = SubSeq(q, 1, n)
    OBVIOUS
  <1>3. n \in Nat /\ n <= Len(q)
    BY RangeIs
  <1>4. a \in Seq(Packet) /\ Len(a) = n /\ \A i \in 1..n : a[i] = q[i]
    BY <1>2, <1>3
  <1>5. PICK r : r = Append(a, fin)
    OBVIOUS
  <1>6. /\ r \in Seq(Packet) /\ DOMAIN r = DOMAIN a \union {n + 1}
        /\ \A i \in DOMAIN a : r[i] = a[i]
        /\ r[n + 1] = fin
        /\ Range(r) = Range(a) \union {fin}
    BY <1>4, <1>5, AppendIs
  <1>7. DOMAIN a = 1..n /\ 1..n \subseteq DOMAIN q
    BY <1>3, <1>4, RangeIs
  <1>8. Range(a) \subseteq Range(q)
    BY <1>4, <1>7 DEF Range
  <1>9. \A i \in 1..n : 1..i \subseteq 1..n
    OBVIOUS
  <1>10. ASSUME NEW i \in DOMAIN r
         PROVE  r[i] = fin \/ (i \in DOMAIN q /\ r[i] = q[i] /\ \A j \in 1..i : j \in DOMAIN r /\ r[j] = q[j])
    BY <1>4, <1>6, <1>7, <1>9
  <1>11. Ended(q, n) = r
    BY <1>1, <1>2, <1>5 DEF Ended
  <1> QED
    BY <1>1, <1>6, <1>8, <1>10, <1>11

\* A packet one tick later.
Aged(p) == [p EXCEPT !.age = @ + 1]

\* Time passes for all packets of a queue and moves none.
LEMMA OlderIs ==
    ASSUME NEW q \in Seq(Packet)
    PROVE  /\ Older(q) \in Seq(Packet)
           /\ DOMAIN Older(q) = DOMAIN q
           /\ \A i \in DOMAIN q : Older(q)[i].id = q[i].id
           /\ \A p \in Range(q) : Aged(p) \in Range(Older(q)) /\ Aged(p).id = p.id /\ Aged(p).age = p.age + 1
           /\ \A p \in Range(Older(q)) : \E o \in Range(q) : p = Aged(o)
  <1>1. \A p \in Packet : Aged(p) \in Packet /\ Aged(p).id = p.id /\ Aged(p).age = p.age + 1
    BY DEF Packet, Aged
  <1>2. PICK n \in Nat : n = Len(q) /\ DOMAIN q = 1..n
    BY RangeIs
  <1>3. Older(q) = [i \in 1..n |-> Aged(q[i])]
    BY <1>2 DEF Older, Aged
  <1>4. \A i \in 1..n : q[i] \in Packet
    BY <1>2
  <1>5. Older(q) \in [1..n -> Packet]
    BY <1>1, <1>3, <1>4
  <1>6. Older(q) \in Seq(Packet)
    BY <1>5, SeqDef
  <1>7. DOMAIN Older(q) = DOMAIN q /\ \A i \in DOMAIN q : Older(q)[i] = Aged(q[i])
    BY <1>2, <1>3
  <1>8. Range(q) \subseteq Packet
    BY RangeIs
  <1> QED
    BY <1>1, <1>2, <1>4, <1>6, <1>7, <1>8 DEF Range

------------------------------------------------------------------------------
(* What the model's operators do to the wires and the tasks.               *)

\* There are two ends, each the other's other.
LEMMA TheEnds ==
    /\ Ends = {"client", "server"}
    /\ Other("client") = "server" /\ Other("server") = "client"
    /\ \A e \in Ends : Other(e) \in Ends /\ Other(e) # e /\ Other(Other(e)) = e
  BY DEF Ends, Other

\* The constants are numbers.
LEMMA Times ==
    /\ Timeout \in Nat /\ Interval \in Nat /\ Grace \in Nat /\ MaxLate \in Nat /\ MaxDelay \in Nat
    /\ Interval + MaxLate + 2 * MaxDelay <= Timeout
    /\ MaxLate < Interval /\ 2 * MaxDelay < Grace
  BY DelaysAssumption

Fin == [id |-> "FIN", age |-> 0]

Fresh(id) == [id |-> id, age |-> 0]

\* The state of a queue that is written.
Flows(state) == state \in {"empty", "writing"}

\* Sending adds one fresh packet to the other end's wire, or none; where the queue
\* is still written afterwards, it has been added to a connection that is one.
LEMMA SendIs ==
    ASSUME TypeOK, NEW e \in Ends, NEW id, Fresh(id) \in Packet, Send(e, id)
    PROVE  /\ wire' \in [Ends -> Seq(Packet)] /\ queue' \in [Ends -> QueueStates]
           /\ wire'[e] = wire[e]
           /\ \/ wire'[Other(e)] = wire[Other(e)]
              \/ wire'[Other(e)] = Append(wire[Other(e)], Fresh(id))
           /\ Connected /\ Writable(e)' =>
                 /\ wire'[Other(e)] = Append(wire[Other(e)], Fresh(id))
                 /\ Fresh(id) \in Range(wire'[Other(e)])
           /\ (Connected /\ Writable(e)') \/ wire' = wire
           /\ \A x \in Ends : /\ Flows(queue'[x]) => Flows(queue[x])
                              /\ wire[x] \in Seq(Packet)
                              /\ Range(wire[x]) \subseteq Range(wire'[x])
                              /\ Range(wire'[x]) \subseteq Range(wire[x]) \union {Fresh(id)}
  <1>1. PICK o \in Ends : o = Other(e) /\ o # e /\ \A x \in Ends : x = e \/ x = o
    BY TheEnds
  <1>2. wire \in [Ends -> Seq(Packet)] /\ wire[o] \in Seq(Packet) /\ queue \in [Ends -> QueueStates]
    BY DEF TypeOK
  <1>3. CASE (~Connected \/ queue[e] = "stranded") /\ UNCHANGED <<wire, queue>>
    BY <1>1, <1>2, <1>3 DEF Writable, Flows
  <1>4. CASE /\ Connected /\ queue[e] \in {"empty", "writing"}
             /\ wire' = [wire EXCEPT ![Other(e)] = Append(@, Fresh(id))]
             /\ queue' = [queue EXCEPT ![e] = "writing"]
    <2>1. PICK new : new = Append(wire[o], Fresh(id))
      OBVIOUS
    <2>2. /\ new \in Seq(Packet)
          /\ Range(new) = Range(wire[o]) \union {Fresh(id)}
      BY <1>2, <2>1, AppendIs
    <2>3. wire' = [wire EXCEPT ![o] = new]
      BY <1>1, <1>4, <2>1
    <2>4. wire'[o] = new /\ wire'[e] = wire[e]
      BY <1>1, <1>2, <2>3
    <2>5. wire' \in [Ends -> Seq(Packet)]
      BY <1>1, <1>2, <2>2, <2>3
    <2>6. /\ queue' \in [Ends -> QueueStates] /\ Writable(e)'
          /\ \A x \in Ends : Flows(queue'[x]) => Flows(queue[x])
      BY <1>2, <1>4 DEF QueueStates, Writable, Flows
    <2> QED
      BY <1>1, <1>2, <1>4, <2>1, <2>2, <2>4, <2>5, <2>6
  <1>5. CASE /\ Connected /\ wire' = wire /\ queue[e] = "writing"
             /\ \E outcome \in {"stranded", "undefined"} : queue' = [queue EXCEPT ![e] = outcome]
    <2>1. queue' \in [Ends -> QueueStates] /\ ~Writable(e)' /\ \A x \in Ends : Flows(queue'[x]) => Flows(queue[x])
      BY <1>1, <1>2, <1>5 DEF QueueStates, Writable, Flows
    <2> QED
      BY <1>1, <1>2, <1>5, <2>1
  <1> QED
    BY <1>3, <1>4, <1>5 DEF Send, Fresh

\* Closing empties the wire to the end that closes, and puts the end of the stream
\* behind what the other end may still read.
LEMMA CloseSocketIs ==
    ASSUME TypeOK, NEW e \in Ends, CloseSocket(e)
    PROVE  /\ wire' \in [Ends -> Seq(Packet)]
           /\ wire'[e] = <<>>
           /\ Listens(Other(e)) =>
                 /\ Fin \in Range(wire'[Other(e)])
                 /\ \E n \in 0..Len(wire[Other(e)]) : wire'[Other(e)] = Ended(wire[Other(e)], n)
           /\ ~Listens(Other(e)) => wire'[Other(e)] = <<>>
           /\ Range(wire'[Other(e)]) \subseteq Range(wire[Other(e)]) \union {Fin}
  <1>1. PICK o \in Ends : o = Other(e) /\ o # e /\ \A x \in Ends : x = e \/ x = o
    BY TheEnds
  <1>2. wire \in [Ends -> Seq(Packet)] /\ wire[o] \in Seq(Packet)
    BY DEF TypeOK
  <1>3. PICK n \in 0..Len(wire[o]) :
          wire' = [wire EXCEPT ![e] = <<>>,
                               ![o] = IF Listens(o) THEN Ended(wire[o], n) ELSE <<>>]
    BY <1>1 DEF CloseSocket
  <1>4. wire'[e] = <<>> /\ wire'[o] = IF Listens(o) THEN Ended(wire[o], n) ELSE <<>>
    BY <1>1, <1>2, <1>3
  <1>5. /\ Ended(wire[o], n) \in Seq(Packet)
        /\ Fin \in Range(Ended(wire[o], n))
        /\ Range(Ended(wire[o], n)) \subseteq Range(wire[o]) \union {Fin}
    BY <1>2, EndedIs DEF Fin
  <1>6. wire' \in [Ends -> Seq(Packet)]
    BY <1>1, <1>2, <1>3, <1>4, <1>5, EmptyQueue
  <1>7. CASE Listens(o)
    BY <1>1, <1>4, <1>5, <1>6, <1>7
  <1>8. CASE ~Listens(o)
    BY <1>1, <1>4, <1>6, <1>8, EmptyQueue
  <1> QED
    BY <1>7, <1>8

\* Handling a packet takes it off the tasks of a living end and nothing else.
LEMMA HandleIs ==
    ASSUME TypeOK, NEW e \in Ends, NEW id, Handle(e, id)
    PROVE  /\ life[e] = "up"
           /\ tasks' \in [Ends -> Seq(Packet)]
           /\ tasks'[Other(e)] = tasks[Other(e)]
           /\ \E i \in DOMAIN tasks[e] :
                 i <= Workers(e) /\ tasks[e][i].id = id /\ tasks'[e] = Without(tasks[e], i)
           /\ Range(tasks'[e]) \subseteq Range(tasks[e])
           /\ \A p \in Range(tasks[e]) : p \in Range(tasks'[e]) \/ p.id = id
           /\ Has(tasks[e], id)
  <1>1. PICK o \in Ends : o = Other(e) /\ o # e
    BY TheEnds
  <1>2. tasks \in [Ends -> Seq(Packet)] /\ tasks[e] \in Seq(Packet)
    BY DEF TypeOK
  <1>3. PICK i \in DOMAIN tasks[e] :
          /\ i <= Workers(e) /\ tasks[e][i].id = id
          /\ tasks' = [tasks EXCEPT ![e] = Without(tasks[e], i)]
    BY DEF Handle, Reached
  <1>4. /\ Without(tasks[e], i) \in Seq(Packet)
        /\ Range(tasks[e]) = Range(Without(tasks[e], i)) \union {tasks[e][i]}
    BY <1>2, WithoutIs
  <1>5. tasks'[e] = Without(tasks[e], i) /\ tasks'[o] = tasks[o]
    BY <1>1, <1>2, <1>3
  <1>6. tasks' \in [Ends -> Seq(Packet)]
    BY <1>2, <1>3, <1>4
  <1> QED
    BY <1>1, <1>3, <1>4, <1>5, <1>6 DEF Handle, Has

\* What a worker has reached is among the tasks.
LEMMA ReachedIs ==
    ASSUME TypeOK, NEW e \in Ends, NEW id, Reached(e, id) # {}
    PROVE  Has(tasks[e], id) /\ tasks[e] # <<>>
  <1>1. PICK i \in DOMAIN tasks[e] : tasks[e][i].id = id
    BY DEF Reached
  <1>2. tasks[e][i] \in Range(tasks[e])
    BY RangeIs DEF TypeOK
  <1> QED
    BY <1>1, <1>2, EmptyQueue DEF Has

\* A process that ends keeps nothing, and the other end keeps what it has.
LEMMA CeaseIs ==
    ASSUME TypeOK, NEW e \in Ends, Cease(e)
    PROVE  /\ queue' \in [Ends -> QueueStates] /\ tasks' \in [Ends -> Seq(Packet)]
           /\ silence' \in [Ends -> Nat] /\ elapsed' \in [Ends -> Nat]
           /\ check' \in [Ends -> {"idle", "read", "reap"}] /\ since' \in [Ends -> Nat]
           /\ tasks'[e] = <<>> /\ silence'[e] = 0 /\ elapsed'[e] = 0 /\ check'[e] = "idle"
           /\ safety' \subseteq safety
           /\ \A x \in Ends : x # e => /\ queue'[x] = queue[x] /\ tasks'[x] = tasks[x]
                                       /\ silence'[x] = silence[x] /\ elapsed'[x] = elapsed[x]
                                       /\ check'[x] = check[x]
  <1>1. /\ queue' \in [Ends -> QueueStates] /\ check' \in [Ends -> {"idle", "read", "reap"}]
        /\ silence' \in [Ends -> Nat] /\ elapsed' \in [Ends -> Nat] /\ since' \in [Ends -> Nat]
    BY DEF Cease, TypeOK, QueueStates
  <1>2. tasks' \in [Ends -> Seq(Packet)]
    BY EmptyQueue DEF Cease, TypeOK
  <1> QED
    BY <1>1, <1>2 DEF Cease, TypeOK

------------------------------------------------------------------------------
(* The types.                                                              *)

\* Every packet that a handler sends is a packet.
LEMMA PacketIds ==
    /\ \A id \in {"C_LOGIN", "C_LOGIN_PROTO", "Hello", "C_PONG", "S_LOGIN_RES",
                  "S_LOGIN_RES_PROTO", "S_PING", "S_DISCONNECT", "FIN"} : Fresh(id) \in Packet
    /\ TypeOK => Fresh(Request) \in Packet
    /\ Fin \in Packet
  BY DEF Fresh, Packet, Fin, Request, TypeOK

\* Every step keeps the type of every variable.
LEMMA TypeStep == TypeOK /\ InTime /\ [Next]_vars => TypeOK'
  <1> SUFFICES ASSUME TypeOK, InTime, [Next]_vars PROVE TypeOK'
    OBVIOUS
  <1>a. /\ program \in {"ClientStruct", "ClientProto", "Echo"}
        /\ life \in [Ends -> {"up", "exited", "killed", "gone"}]
        /\ sock \in [Ends -> SockStates] /\ queue \in [Ends -> QueueStates]
        /\ wire \in [Ends -> Seq(Packet)] /\ tasks \in [Ends -> Seq(Packet)]
        /\ silence \in [Ends -> Nat] /\ elapsed \in [Ends -> Nat] /\ safety \subseteq Nat
        /\ check \in [Ends -> {"idle", "read", "reap"}] /\ since \in [Ends -> Nat]
        /\ forced \in BOOLEAN /\ login \in {"asked", "answered", "heard"}
        /\ farewell \in {"none", "early", "due"}
    BY DEF TypeOK
  <1>b. [x \in Ends |-> <<>>] \in [Ends -> Seq(Packet)] /\ <<>> \in Seq(Packet)
    BY EmptyQueue
  <1>c. \A e \in Ends : [wire EXCEPT ![e] = <<>>] \in [Ends -> Seq(Packet)]
    BY <1>a, <1>b
  <1>d. \A e \in Ends, to \in SockStates : [sock EXCEPT ![e] = to] \in [Ends -> SockStates]
    BY <1>a
  <1>e. \A e \in Ends, id \in {"S_LOGIN_RES", "S_LOGIN_RES_PROTO", "C_PONG", "S_PING", "S_DISCONNECT"} :
           Send(e, id) => wire' \in [Ends -> Seq(Packet)] /\ queue' \in [Ends -> QueueStates]
    BY PacketIds, SendIs
  <1>f. ASSUME NEW e \in Ends, Rearm(e), elapsed[e] >= Interval
        PROVE  /\ elapsed' \in [Ends -> Nat] /\ since' \in [Ends -> Nat]
               /\ check' \in [Ends -> {"idle", "read", "reap"}]
    <2>1. elapsed[e] - Interval \in Nat
      BY <1>a, <1>f, Times
    <2> QED
      BY <1>a, <1>f, <2>1 DEF Rearm
  <1>1. CASE Connect
    <2>1. sock' \in [Ends -> SockStates]
      BY <1>a, <1>1 DEF Connect, SockStates
    <2> QED
      BY <1>a, <1>1, <2>1 DEF Connect, TypeOK, dataVars, timeVars, checkVars, goalVars
  <1>2. ASSUME NEW e \in Ends, AddSession(e) \/ StartSession(e) PROVE TypeOK'
    <2>1. sock' \in [Ends -> SockStates]
      BY <1>a, <1>2 DEF AddSession, StartSession, SockStates
    <2>2. CASE AddSession(e)
      BY <1>a, <2>1, <2>2 DEF AddSession, TypeOK, dataVars, timeVars, checkVars, goalVars
    <2>3. CASE StartSession(e)
      <3>1. wire' \in [Ends -> Seq(Packet)] /\ queue' \in [Ends -> QueueStates]
        BY <1>a, <2>3, PacketIds, SendIs DEF StartSession
      <3>2. silence' \in [Ends -> Nat]
        BY <1>a, <2>3 DEF StartSession
      <3> QED
        BY <1>a, <2>1, <2>3, <3>1, <3>2 DEF StartSession, TypeOK, checkVars, goalVars
    <2> QED
      BY <1>2, <2>2, <2>3
  <1>3. ASSUME NEW e \in Ends, Receive(e) PROVE TypeOK'
    <2>1. wire[e] \in Seq(Packet) /\ wire[e] # <<>> /\ tasks[e] \in Seq(Packet)
      BY <1>a, <1>3 DEF Receive
    <2>2. Tail(wire[e]) \in Seq(Packet) /\ Head(wire[e]) \in Packet
      BY <2>1, TailIs
    <2>3. Append(tasks[e], Head(wire[e])) \in Seq(Packet)
      BY <2>1, <2>2, AppendIs
    <2>4. wire' \in [Ends -> Seq(Packet)] /\ tasks' \in [Ends -> Seq(Packet)] /\ silence' \in [Ends -> Nat]
      BY <1>a, <1>3, <2>2, <2>3 DEF Receive
    <2> QED
      BY <1>a, <1>3, <2>4 DEF Receive, TypeOK, checkVars, goalVars
  <1>4. ASSUME NEW e \in Ends, ReceiveEcho(e) PROVE TypeOK'
    <2>1. wire[e] \in Seq(Packet) /\ wire[e] # <<>>
      BY <1>a, <1>4 DEF ReceiveEcho
    <2>2. Tail(wire[e]) \in Seq(Packet)
      BY <2>1, TailIs
    <2>3. PICK rest : rest = [wire EXCEPT ![e] = Tail(@)]
      OBVIOUS
    <2>4. rest \in [Ends -> Seq(Packet)] /\ rest["client"] \in Seq(Packet)
      BY <1>a, <2>2, <2>3, TheEnds
    <2>5. Append(rest["client"], Fresh(Request)) \in Seq(Packet)
      BY <2>4, PacketIds, AppendIs
    <2>6. \/ wire' = [rest EXCEPT !["client"] = Append(@, Fresh(Request))] \/ wire' = rest
      BY <1>4, <2>3 DEF ReceiveEcho, Fresh
    <2>7. wire' \in [Ends -> Seq(Packet)]
      BY <2>4, <2>5, <2>6
    <2>8. queue' \in [Ends -> QueueStates]
      BY <1>a, <1>4 DEF ReceiveEcho, QueueStates
    <2> QED
      BY <1>a, <1>4, <2>7, <2>8 DEF ReceiveEcho, TypeOK, timeVars, checkVars
  <1>5. ASSUME NEW e \in Ends, ReadFails(e) PROVE TypeOK'
    <2>1. sock' \in [Ends -> SockStates]
      BY <1>a, <1>5 DEF ReadFails, SockStates
    <2> QED
      BY <1>a, <1>c, <1>5, <2>1 DEF ReadFails, TypeOK, timeVars, checkVars, goalVars
  <1>6. ASSUME NEW e \in Ends, WriteCompletes(e) PROVE TypeOK'
    <2>1. queue' \in [Ends -> QueueStates]
      BY <1>a, <1>6 DEF WriteCompletes, QueueStates
    <2> QED
      BY <1>a, <1>6, <2>1 DEF WriteCompletes, TypeOK, timeVars, checkVars, goalVars
  <1>7. ASSUME NEW e \in Ends, ReadClock(e) PROVE TypeOK'
    BY <1>a, <1>7 DEF ReadClock, TypeOK, dataVars, goalVars
  <1>8. ASSUME NEW e \in Ends, ScanSession(e) PROVE TypeOK'
    <2>0. elapsed[e] >= Interval
      BY <1>8 DEF ScanSession, InTime
    <2>1. wire' \in [Ends -> Seq(Packet)] /\ queue' \in [Ends -> QueueStates]
      BY <1>a, <1>e, <1>8 DEF ScanSession, SendHeartbeat
    <2>2. /\ elapsed' \in [Ends -> Nat] /\ since' \in [Ends -> Nat]
          /\ check' \in [Ends -> {"idle", "read", "reap"}]
      BY <1>a, <1>f, <1>8, <2>0 DEF ScanSession
    <2> QED
      BY <1>a, <1>8, <2>1, <2>2 DEF ScanSession, TypeOK, goalVars
  <1>9. ASSUME NEW e \in Ends, Reap(e) PROVE TypeOK'
    <2>0. elapsed[e] >= Interval
      BY <1>9 DEF Reap, InTime
    <2>1. wire' \in [Ends -> Seq(Packet)]
      BY <1>a, <1>9, CloseSocketIs DEF Reap
    <2>2. /\ elapsed' \in [Ends -> Nat] /\ since' \in [Ends -> Nat]
          /\ check' \in [Ends -> {"idle", "read", "reap"}]
      BY <1>f, <1>9, <2>0 DEF Reap
    <2>3. sock' \in [Ends -> SockStates]
      BY <1>a, <1>9 DEF Reap, SockStates
    <2> QED
      BY <1>a, <1>9, <2>1, <2>2, <2>3 DEF Reap, TypeOK, goalVars
  <1>10. ASSUME HandleLogin \/ HandleLoginProto \/ HandlePong PROVE TypeOK'
    <2>1. tasks' \in [Ends -> Seq(Packet)]
      BY <1>10, HandleIs, TheEnds DEF HandleLogin, HandleLoginProto, HandlePong
    <2>2. wire' \in [Ends -> Seq(Packet)] /\ queue' \in [Ends -> QueueStates]
      BY <1>a, <1>e, <1>10, TheEnds DEF HandleLogin, HandleLoginProto, HandlePong
    <2> QED
      BY <1>a, <1>10, <2>1, <2>2
      DEF HandleLogin, HandleLoginProto, HandlePong, TypeOK, timeVars, checkVars, goalVars
  <1>11. ASSUME HandleLoginRes \/ HandleLoginResProto \/ HandlePing PROVE TypeOK'
    <2>1. tasks' \in [Ends -> Seq(Packet)]
      BY <1>11, HandleIs, TheEnds DEF HandleLoginRes, HandleLoginResProto, HandlePing
    <2>2. wire' \in [Ends -> Seq(Packet)] /\ queue' \in [Ends -> QueueStates]
      BY <1>a, <1>e, <1>11, TheEnds DEF HandleLoginRes, HandleLoginResProto, HandlePing
    <2> QED
      BY <1>a, <1>11, <2>1, <2>2
      DEF HandleLoginRes, HandleLoginResProto, HandlePing, TypeOK, timeVars, checkVars, goalVars
  <1>12. CASE HandleDisconnect \/ EchoStartThrows \/ \E e \in Ends : Die(e)
    <2>1. PICK e \in Ends : Cease(e)
      BY <1>12, TheEnds DEF HandleDisconnect, EchoStartThrows, Die
    <2>2. wire' \in [Ends -> Seq(Packet)]
      <3>1. PICK x \in Ends : CloseSocket(x) \/ wire' = wire \/ wire' = [wire EXCEPT ![x] = <<>>]
        BY <1>12, TheEnds DEF HandleDisconnect, EchoStartThrows, Die
      <3> QED
        BY <1>a, <1>c, <3>1, CloseSocketIs
    <2>3. sock' \in [Ends -> SockStates]
      BY <1>a, <1>d, <1>12, TheEnds DEF HandleDisconnect, EchoStartThrows, Die, SockStates
    <2>4. life' \in [Ends -> {"up", "exited", "killed", "gone"}]
      BY <1>a, <1>12, TheEnds DEF HandleDisconnect, EchoStartThrows, Die
    <2>5. /\ queue' \in [Ends -> QueueStates] /\ tasks' \in [Ends -> Seq(Packet)]
          /\ silence' \in [Ends -> Nat] /\ elapsed' \in [Ends -> Nat]
          /\ check' \in [Ends -> {"idle", "read", "reap"}] /\ since' \in [Ends -> Nat]
          /\ safety' \subseteq Nat
      BY <1>a, <2>1, CeaseIs
    <2>6. UNCHANGED <<program, forced, goalVars>>
      BY <1>12 DEF HandleDisconnect, EchoStartThrows, Die
    <2> QED
      BY <1>a, <2>2, <2>3, <2>4, <2>5, <2>6 DEF TypeOK, goalVars
  <1>13. CASE SafetyTimer
    <2>1. wire' \in [Ends -> Seq(Packet)]
      BY <1>a, <1>13, CloseSocketIs, TheEnds DEF SafetyTimer
    <2>2. sock' \in [Ends -> SockStates]
      BY <1>a, <1>13 DEF SafetyTimer, SockStates
    <2>3. safety' \subseteq Nat
      BY <1>a, <1>13 DEF SafetyTimer
    <2> QED
      BY <1>a, <1>13, <2>1, <2>2, <2>3 DEF SafetyTimer, TypeOK, checkVars, goalVars
  <1>14. CASE GracefulDisconnect
    <2>1. wire' \in [Ends -> Seq(Packet)] /\ queue' \in [Ends -> QueueStates]
      BY <1>e, <1>14, TheEnds DEF GracefulDisconnect
    <2> QED
      BY <1>a, <1>14, <2>1 DEF GracefulDisconnect, TypeOK, checkVars
  <1>15. CASE Tick
    <2>1. \A e \in Ends : Older(wire[e]) \in Seq(Packet) /\ Older(tasks[e]) \in Seq(Packet)
      BY <1>a, OlderIs
    <2>2. wire' \in [Ends -> Seq(Packet)] /\ tasks' \in [Ends -> Seq(Packet)]
      BY <1>15, <2>1 DEF Tick
    <2>3. /\ silence' \in [Ends -> Nat] /\ elapsed' \in [Ends -> Nat] /\ safety' \subseteq Nat
          /\ check' \in [Ends -> {"idle", "read", "reap"}] /\ since' \in [Ends -> Nat]
      BY <1>a, <1>15 DEF Tick
    <2> QED
      BY <1>a, <1>15, <2>2, <2>3 DEF Tick, TypeOK, goalVars
  <1>16. CASE UNCHANGED vars
    BY <1>a, <1>16 DEF TypeOK, vars, dataVars, timeVars, checkVars, goalVars
  <1> QED
    BY <1>1, <1>2, <1>3, <1>4, <1>5, <1>6, <1>7, <1>8, <1>9, <1>10, <1>11, <1>12, <1>13, <1>14, <1>15, <1>16
    DEF Next, Step

------------------------------------------------------------------------------
(* The steps with which an end leaves the connection.                      *)

\* What they have in common: e does not listen afterwards, what it has not read
\* is lost, and if it listened the other end is told, unless e's machine is lost.
Leaves(e) ==
    LET o == Other(e) IN
    /\ life[e] = "up" /\ life'[o] = life[o] /\ sock'[o] = sock[o] /\ queue'[o] = queue[o]
    /\ ~(life'[e] = "up" /\ sock'[e] \in {"linked", "added", "open"})
    /\ \/ sock'[e] = sock[e]
       \/ /\ sock'[e] \in {"closed", "released"} /\ sock[e] # "none"
          /\ e = "client" => sock[e] # "failed"
       \/ sock'[e] = "cut" /\ sock[e] = "added"
    /\ \/ Listens(e) /\ CloseSocket(e)
       \/ /\ wire' = wire \/ wire' = [wire EXCEPT ![e] = <<>>]
          /\ ~Listens(e) \/ life'[e] = "gone" \/ ~Listens(o)
    /\ tasks'[o] = tasks[o]
    /\ tasks'[e] = tasks[e] \/ (tasks'[e] = <<>> /\ life'[e] # "up")
    /\ life'[e] = "exited" => e = "client" /\ Reached("client", "S_DISCONNECT") # {}
    /\ UNCHANGED <<program, login, farewell>>
    /\ safety' \subseteq safety
    /\ silence'[o] = silence[o] /\ silence'[e] \in {silence[e], 0}
    /\ check'[o] = check[o] /\ (check'[e] = "idle" \/ (check'[e] = check[e] /\ elapsed'[e] = elapsed[e]))
    /\ elapsed'[o] = elapsed[o] /\ elapsed'[e] <= elapsed[e]

\* A heartbeat that closes the socket.
GivesUp(e) == Reap(e) /\ sock[e] \in {"added", "open"}

\* The packet that a read finds at the front is on the wire.
LEMMA HeadIsIn ==
    ASSUME TypeOK, NEW e \in Ends, wire[e] # <<>>
    PROVE  /\ wire[e] \in Seq(Packet) /\ Head(wire[e]) \in Range(wire[e]) /\ Head(wire[e]) \in Packet
           /\ Has(wire[e], Head(wire[e]).id)
  BY TailIs DEF TypeOK, Has

\* Each way of ending a session, from either end, is a way of leaving.
LEMMA LeavingSteps ==
    ASSUME IInv, NEW e \in Ends,
           \/ ReadFails(e) \/ GivesUp(e) \/ Die(e)
           \/ e = "client" /\ HandleDisconnect
           \/ e = "server" /\ (EchoStartThrows \/ (SafetyTimer /\ ~forced))
    PROVE  Leaves(e)
  <1>a. PICK o \in Ends : o = Other(e) /\ o # e /\ \A x \in Ends : x = e \/ x = o
    BY TheEnds
  <1>b. /\ life \in [Ends -> {"up", "exited", "killed", "gone"}] /\ sock \in [Ends -> SockStates]
        /\ elapsed \in [Ends -> Nat] /\ check \in [Ends -> {"idle", "read", "reap"}]
        /\ Interval \in Nat /\ TypeOK
    BY Times DEF IInv, TypeOK
  <1>c. ASSUME Has(wire[e], "FIN") PROVE ~Listens(o)
    BY <1>a, <1>c DEF IInv, EndOfStream
  <1>d. ASSUME Cease(e)
        PROVE  /\ queue'[o] = queue[o] /\ tasks'[o] = tasks[o] /\ tasks'[e] = <<>>
               /\ safety' \subseteq safety
               /\ silence'[o] = silence[o] /\ silence'[e] \in {silence[e], 0}
               /\ check'[o] = check[o] /\ check'[e] = "idle"
               /\ elapsed'[o] = elapsed[o] /\ elapsed'[e] <= elapsed[e]
    <2>1. elapsed'[e] = 0 /\ elapsed[e] \in Nat
      BY <1>b, <1>d, CeaseIs
    <2> QED
      BY <1>a, <1>b, <1>d, <2>1, CeaseIs
  <1>1. CASE ReadFails(e)
    <2>1. sock[e] = "closed" \/ (sock[e] = "open" /\ Has(wire[e], "FIN"))
      BY <1>1, HeadIsIn DEF ReadFails, IInv
    <2>2. ~Listens(e) \/ ~Listens(o)
      BY <1>c, <2>1 DEF Listens
    <2> QED
      BY <1>a, <1>b, <1>1, <2>1, <2>2 DEF ReadFails, Leaves, timeVars, checkVars, goalVars
  <1>2. CASE GivesUp(e)
    <2>1. CloseSocket(e) /\ sock' = [sock EXCEPT ![e] = IF @ = "added" THEN "cut" ELSE "closed"]
      BY <1>2 DEF GivesUp, Reap
    <2>2. /\ elapsed'[o] = elapsed[o] /\ elapsed'[e] <= elapsed[e]
          /\ check'[o] = check[o] /\ check'[e] = "idle"
      BY <1>a, <1>b, <1>2 DEF GivesUp, Reap, Rearm
    <2>3. /\ life' = life /\ life[e] = "up" /\ queue' = queue /\ tasks' = tasks /\ silence' = silence
          /\ safety' = safety /\ UNCHANGED <<program, login, farewell>> /\ sock[e] \in {"added", "open"}
      BY <1>2 DEF GivesUp, Reap, goalVars
    <2>4. sock'[o] = sock[o] /\ sock'[e] = IF sock[e] = "added" THEN "cut" ELSE "closed"
      BY <1>a, <1>b, <2>1
    <2> QED
      BY <1>a, <2>1, <2>2, <2>3, <2>4 DEF Leaves, Listens
  <1>3. CASE Die(e)
    <2>1. /\ Cease(e) /\ life[e] = "up" /\ UNCHANGED <<program, login, farewell>>
      BY <1>3 DEF Die, goalVars
    <2>2. CASE /\ life' = [life EXCEPT ![e] = "killed"] /\ Listens(e) /\ CloseSocket(e)
               /\ sock' = [sock EXCEPT ![e] = "released"]
      BY <1>a, <1>b, <1>d, <2>1, <2>2 DEF Leaves, Listens
    <2>3. CASE /\ life' = [life EXCEPT ![e] = "gone"] /\ wire' = [wire EXCEPT ![e] = <<>>]
               /\ UNCHANGED sock
      BY <1>a, <1>b, <1>d, <2>1, <2>3 DEF Leaves, Listens
    <2> QED
      BY <1>3, <2>2, <2>3 DEF Die
  <1>4. CASE e = "client" /\ HandleDisconnect
    <2>1. Reached(e, "S_DISCONNECT") # {} /\ life[e] = "up" /\ Cease(e)
      BY <1>4 DEF HandleDisconnect
    <2>2. tasks[e] # <<>>
      BY <1>b, <2>1, ReachedIs
    <2>3. sock[e] \notin {"none", "failed", "linked", "added", "cut"}
      BY <1>4, <2>2 DEF IInv, Connecting
    <2>4. /\ life' = [life EXCEPT ![e] = "exited"] /\ sock' = [sock EXCEPT ![e] = "released"]
          /\ (sock[e] = "open" /\ CloseSocket(e)) \/ (sock[e] # "open" /\ wire' = wire)
          /\ UNCHANGED <<program, login, farewell>>
      BY <1>4 DEF HandleDisconnect, goalVars
    <2> QED
      BY <1>a, <1>b, <1>d, <1>4, <2>1, <2>3, <2>4 DEF Leaves, Listens
  <1>5. CASE e = "server" /\ EchoStartThrows
    <2>1. Has(wire[e], "FIN") \/ ~Listens(e)
      BY <1>5, HeadIsIn DEF EchoStartThrows, IInv, Listens
    <2>2. /\ Cease(e) /\ life[e] = "up" /\ sock[e] \in {"added", "cut"}
          /\ life' = [life EXCEPT ![e] = "killed"] /\ sock' = [sock EXCEPT ![e] = "released"]
          /\ wire' = [wire EXCEPT ![e] = <<>>] /\ UNCHANGED <<program, login, farewell>>
      BY <1>5 DEF EchoStartThrows, goalVars
    <2> QED
      BY <1>a, <1>b, <1>c, <1>d, <1>5, <2>1, <2>2 DEF Leaves
  <1>6. CASE e = "server" /\ SafetyTimer /\ ~forced
    <2>1. PICK a \in safety : safety' = safety \ {a}
      BY <1>6 DEF SafetyTimer, SafetyDue
    <2>2. sock[e] \in {"open", "closed", "released"}
      BY <1>6, <2>1 DEF IInv, SafetyIsRedundant, Started
    <2>3. /\ life' = life /\ life[e] = "up" /\ queue' = queue /\ tasks' = tasks /\ silence' = silence
          /\ check' = check /\ elapsed' = elapsed /\ UNCHANGED <<program, login, farewell>>
      BY <1>6 DEF SafetyTimer, checkVars, goalVars
    <2>4. /\ sock' = [sock EXCEPT ![e] = "released"]
          /\ (sock[e] = "open" /\ CloseSocket(e)) \/ (sock[e] # "open" /\ wire' = wire)
      BY <1>6 DEF SafetyTimer
    <2>5. sock'[e] = "released" /\ sock'[o] = sock[o]
      BY <1>a, <1>b, <2>4
    <2>6. (Listens(e) /\ CloseSocket(e)) \/ (wire' = wire /\ ~Listens(e))
      BY <2>2, <2>3, <2>4 DEF Listens
    <2>7. safety' \subseteq safety /\ elapsed'[e] <= elapsed[e]
      BY <1>b, <2>1, <2>3
    <2> QED
      BY <1>a, <1>6, <2>2, <2>3, <2>5, <2>6, <2>7 DEF Leaves
  <1> QED
    BY <1>1, <1>2, <1>3, <1>4, <1>5, <1>6

\* When an end leaves, the invariant holds on: what it says of working ends no
\* longer concerns it, and the other end has the end of the stream to read.
LEMMA LeavingKeeps ==
    ASSUME IInv, TypeOK', NEW e \in Ends, Leaves(e)
    PROVE  IInv'
  <1>a. PICK o \in Ends : o = Other(e) /\ o # e /\ Other(o) = e /\ \A x \in Ends : x = e \/ x = o
    BY TheEnds
  <1>b. /\ life[e] = "up" /\ life'[o] = life[o] /\ sock'[o] = sock[o] /\ queue'[o] = queue[o]
        /\ ~(life'[e] = "up" /\ sock'[e] \in {"linked", "added", "open"})
        /\ \/ sock'[e] = sock[e]
           \/ sock'[e] \in {"closed", "released"} /\ sock[e] # "none" /\ (e = "client" => sock[e] # "failed")
           \/ sock'[e] = "cut" /\ sock[e] = "added"
        /\ program' = program /\ login' = login /\ farewell' = farewell
        /\ silence'[o] = silence[o] /\ silence'[e] \in {silence[e], 0}
        /\ check'[o] = check[o] /\ (check'[e] = "idle" \/ (check'[e] = check[e] /\ elapsed'[e] = elapsed[e]))
        /\ safety' \subseteq safety
        /\ elapsed'[o] = elapsed[o] /\ elapsed'[e] <= elapsed[e]
    BY <1>a DEF Leaves
  <1>c. TypeOK /\ wire \in [Ends -> Seq(Packet)] /\ tasks \in [Ends -> Seq(Packet)] /\ safety \subseteq Nat
    BY DEF IInv, TypeOK
  <1>d. /\ MaxDelay \in Nat /\ MaxLate \in Nat /\ Interval \in Nat
        /\ elapsed \in [Ends -> Nat] /\ elapsed' \in [Ends -> Nat]
    BY Times DEF IInv, TypeOK
  <1>e. (IsEcho <=> IsEcho') /\ Request' = Request /\ Response' = Response
    BY <1>b DEF IsEcho, Request, Response
  \* What becomes of the tasks and the wires.
  <1>f. \A x \in Ends : Range(tasks'[x]) \subseteq Range(tasks[x]) /\ (tasks'[x] = tasks[x] \/ tasks'[x] = <<>>)
    BY <1>a, EmptyQueue DEF Leaves
  <1>h. life'["client"] = "up" => tasks'["client"] = tasks["client"]
    BY <1>a, TheEnds DEF Leaves
  <1>i. \/ /\ Listens(e) /\ wire'[e] = <<>>
           /\ Listens(o) => /\ Fin \in Range(wire'[o])
                            /\ \E n \in 0..Len(wire[o]) : wire'[o] = Ended(wire[o], n)
           /\ ~Listens(o) => wire'[o] = <<>>
        \/ /\ wire'[o] = wire[o] /\ (wire'[e] = wire[e] \/ wire'[e] = <<>>)
           /\ ~Listens(e) \/ life'[e] = "gone" \/ ~Listens(o)
    BY <1>a, <1>c, CloseSocketIs DEF Leaves
  <1>j. \A x \in Ends : Range(wire'[x]) \subseteq Range(wire[x]) \union {Fin}
    BY <1>a, <1>c, EmptyQueue, CloseSocketIs DEF Leaves
  <1>k. Fin.id = "FIN" /\ Fin.age = 0 /\ Fin \in Packet
    BY PacketIds DEF Fin
  <1>1. Connecting'
    <2>1. ASSUME sock'["client"] \in {"none", "failed"}
          PROVE  /\ sock'["server"] = "none" /\ silence'["client"] = 0
                 /\ \A x \in Ends : wire'[x] = <<>> /\ tasks'[x] = <<>>
      <3>1. sock["client"] = sock'["client"] /\ sock["client"] \in {"none", "failed"}
        BY <1>a, <1>b, <2>1, TheEnds
      <3>2. /\ sock["server"] = "none" /\ silence["client"] = 0
            /\ \A x \in Ends : wire[x] = <<>> /\ tasks[x] = <<>>
        BY <3>1 DEF IInv, Connecting
      <3>3. sock'["server"] = "none"
        BY <1>a, <1>b, <3>2, TheEnds
      <3>4. ~Listens(e)
        BY <1>a, <3>1, <3>2, TheEnds DEF Listens
      <3>5. silence'["client"] = 0
        BY <1>a, <1>b, <3>2, TheEnds
      <3> QED
        BY <1>a, <1>b, <1>f, <1>i, <3>2, <3>3, <3>4, <3>5
    <2>2. ASSUME NEW x \in Ends, sock'[x] \in {"linked", "added", "cut"} PROVE tasks'[x] = <<>>
      <3>1. sock[x] \in {"linked", "added", "cut"}
        BY <1>a, <1>b, <2>2
      <3>2. tasks[x] = <<>>
        BY <3>1 DEF IInv, Connecting
      <3> QED
        BY <1>f, <3>2
    <2>3. ASSUME Listens("server")', sock'["server"] \in {"linked", "added"} PROVE silence'["client"] = 0
      <3>1. Listens("server") /\ sock["server"] \in {"linked", "added"}
        BY <1>a, <1>b, <2>3, TheEnds DEF Listens
      <3>2. silence["client"] = 0
        BY <3>1 DEF IInv, Connecting
      <3> QED
        BY <1>a, <1>b, <3>2, TheEnds
    <2> QED
      BY <2>1, <2>2, <2>3 DEF Connecting
  <1>2. InTime'
    <2> SUFFICES ASSUME NEW x \in Ends, life'[x] = "up"
                 PROVE  /\ elapsed'[x] <= Interval + MaxLate
                        /\ check'[x] # "idle" => elapsed'[x] >= Interval
                        /\ \A p \in Range(wire'[x]) \union Range(tasks'[x]) : p.age <= MaxDelay
      BY DEF InTime
    <2>1. life[x] = "up"
      BY <1>a, <1>b
    <2>2. /\ elapsed[x] <= Interval + MaxLate
          /\ check[x] # "idle" => elapsed[x] >= Interval
          /\ \A p \in Range(wire[x]) \union Range(tasks[x]) : p.age <= MaxDelay
      BY <2>1 DEF IInv, InTime
    <2>3. elapsed'[x] <= elapsed[x]
      BY <1>a, <1>b, <1>d
    <2>4. elapsed'[x] <= Interval + MaxLate
      BY <1>d, <2>2, <2>3
    <2>5. \A p \in Range(wire'[x]) \union Range(tasks'[x]) : p.age <= MaxDelay
      <3>1. \A p \in Range(tasks'[x]) : p.age <= MaxDelay
        BY <1>f, <2>2
      <3>2. \A p \in Range(wire'[x]) : p \in Range(wire[x]) \/ p = Fin
        BY <1>j
      <3>3. Fin.age <= MaxDelay
        BY <1>d, <1>k
      <3> QED
        BY <2>2, <3>1, <3>2, <3>3
    <2>6. check'[x] # "idle" => elapsed'[x] >= Interval
      BY <1>a, <1>b, <2>2
    <2> QED
      BY <2>4, <2>5, <2>6
  <1>3. ServerHears' /\ ClientHears'
    BY <1>a, <1>b, TheEnds DEF ServerHears, ClientHears, Listens, Working
  <1>4. EndOfStream'
    <2>1. ASSUME NEW x \in Ends, Has(wire'[x], "FIN") PROVE ~Listens(Other(x))'
      <3>1. CASE x = o
        BY <1>a, <1>b, <3>1 DEF Listens
      <3>2. CASE x = e
        <4>1. wire'[e] = wire[e]
          BY <1>i, <2>1, <3>2, EmptyQueue DEF Has
        <4>2. ~Listens(o)
          BY <1>a, <2>1, <3>2, <4>1 DEF IInv, EndOfStream
        <4> QED
          BY <1>a, <1>b, <3>2, <4>2 DEF Listens
      <3> QED
        BY <1>a, <3>1, <3>2
    <2>2. ASSUME Listens("server")', ~Listens("client")', life'["client"] # "gone"
          PROVE  Has(wire'["server"], "FIN")
      <3>1. e = "client" /\ o = "server" /\ Listens(o)
        BY <1>a, <1>b, <2>2, TheEnds DEF Listens
      <3>2. CASE Listens(e)
        BY <1>i, <1>k, <2>2, <3>1, <3>2 DEF Has
      <3>3. CASE ~Listens(e)
        <4>1. Has(wire["server"], "FIN")
          BY <1>b, <3>1, <3>3 DEF IInv, EndOfStream
        <4> QED
          BY <1>i, <3>1, <3>3, <4>1
      <3> QED
        BY <3>2, <3>3
    <2> QED
      BY <2>1, <2>2 DEF EndOfStream
  <1>5. SafetyIsRedundant'
    <2> SUFFICES ASSUME NEW a \in safety', a \in safety
                 PROVE  /\ ~IsEcho' /\ Started("server")'
                        /\ Working("server")' /\ life'["client"] # "gone" /\ Writable("server")' =>
                              /\ ~Listens("client")'
                              /\ \E p \in Range(wire'["server"]) : p.id = "FIN" /\ a <= p.age + MaxDelay
      BY <1>b DEF SafetyIsRedundant
    <2>1. /\ ~IsEcho /\ Started("server")
          /\ Working("server") /\ life["client"] # "gone" /\ Writable("server") =>
                \/ /\ Listens("client")
                   /\ \/ HasSince(wire["client"], "S_DISCONNECT", a)
                      \/ HasSince(tasks["client"], "S_DISCONNECT", a)
                \/ /\ ~Listens("client")
                   /\ \E p \in Range(wire["server"]) : p.id = "FIN" /\ a <= p.age + MaxDelay
      BY DEF IInv, SafetyIsRedundant
    <2>2. Started("server")'
      BY <1>a, <1>b, <2>1, TheEnds DEF Started
    <2>3. ASSUME Working("server")', life'["client"] # "gone", Writable("server")'
          PROVE  /\ ~Listens("client")'
                 /\ \E p \in Range(wire'["server"]) : p.id = "FIN" /\ a <= p.age + MaxDelay
      <3>1. /\ e = "client" /\ o = "server" /\ Working("server") /\ Listens(o) /\ life["client"] = "up"
            /\ Writable("server")
        BY <1>a, <1>b, <2>3, TheEnds DEF Listens, Working, Writable
      <3>2. ~Listens("client")'
        BY <1>b, <3>1 DEF Listens
      <3>3. CASE Listens("client")
        <4>1. PICK p \in Range(wire["client"]) \union Range(tasks["client"]) : p.age >= a
          BY <2>1, <3>1, <3>3 DEF HasSince
        <4>2. p.age <= MaxDelay
          BY <3>1, <4>1, TheEnds DEF IInv, InTime
        <4>3. p.age \in Nat /\ a \in Nat
          BY <1>c, <4>1, RangeIs, TheEnds DEF Packet
        <4>4. a <= 0 + MaxDelay
          BY <1>d, <4>1, <4>2, <4>3
        <4>5. Fin \in Range(wire'["server"])
          BY <1>i, <2>3, <3>1, <3>3
        <4> QED
          BY <1>k, <3>2, <4>4, <4>5
      <3>4. CASE ~Listens("client")
        BY <1>i, <2>1, <3>1, <3>2, <3>4
      <3> QED
        BY <3>3, <3>4
    <2> QED
      BY <1>e, <2>1, <2>2, <2>3
  <1>6. AskedOnce'
    <2> SUFFICES ASSUME ~IsEcho
                 PROVE  /\ \A q \in {wire'["server"], tasks'["server"]} :
                              /\ Sole(q, Request)
                              /\ \A p \in Range(q) : p.id \in {Request, "C_PONG", "FIN"}
                              /\ Has(q, Request) =>
                                    login' = "asked" /\ Started("client")'
                        /\ ~(Has(wire'["server"], Request) /\ Has(tasks'["server"], Request))
                        /\ ~Started("client")' => login' = "asked"
                        /\ Has(wire'["client"], Response) \/ Has(tasks'["client"], Response) => login' # "asked"
      BY <1>e DEF AskedOnce
    <2>1. /\ \A q \in {wire["server"], tasks["server"]} :
                /\ Sole(q, Request)
                /\ \A p \in Range(q) : p.id \in {Request, "C_PONG", "FIN"}
                /\ Has(q, Request) =>
                      login = "asked" /\ Started("client")
          /\ ~(Has(wire["server"], Request) /\ Has(tasks["server"], Request))
          /\ ~Started("client") => login = "asked"
          /\ Has(wire["client"], Response) \/ Has(tasks["client"], Response) => login # "asked"
      BY DEF IInv, AskedOnce
    <2>2. Request # "FIN" /\ Response # "FIN"
      BY DEF Request, Response, IInv, TypeOK
    <2>3. Started("client") => Started("client")'
      BY <1>a, <1>b, TheEnds DEF Started
    <2>4. Has(wire'["server"], Request) => Has(wire["server"], Request)
      BY <1>j, <1>k, <2>2, TheEnds DEF Has
    <2>5. \A p \in Range(wire'["server"]) : p.id \in {Request, "C_PONG", "FIN"}
      BY <1>j, <1>k, <2>1, TheEnds
    <2>6. Sole(wire'["server"], Request)
      <3>1. Sole(<<>>, Request)
        BY EmptyQueue DEF Sole
      <3>2. ASSUME NEW n \in 0..Len(wire["server"]) PROVE Sole(Ended(wire["server"], n), Request)
        <4>1. PICK q \in Seq(Packet) : q = wire["server"] /\ Sole(q, Request) /\ n \in 0..Len(q)
          BY <1>c, <2>1, TheEnds
        <4>2. ASSUME NEW i \in DOMAIN Ended(q, n), Ended(q, n)[i].id = Request
              PROVE  i \in DOMAIN q /\ q[i].id = Request
          <5>1. \/ Ended(q, n)[i] = Fin
                \/ i \in DOMAIN q /\ Ended(q, n)[i] = q[i]
            BY <4>1, EndedIs DEF Fin
          <5> QED
            BY <1>k, <2>2, <4>2, <5>1
        <4>3. Sole(Ended(q, n), Request)
          BY <4>1, <4>2 DEF Sole
        <4> QED
          BY <4>1, <4>3
      <3> QED
        BY <1>a, <1>i, <2>1, <3>1, <3>2, TheEnds
    <2>7. Has(wire'["client"], Response) \/ Has(tasks'["client"], Response) => login' # "asked"
      BY <1>b, <1>f, <1>j, <1>k, <2>1, <2>2, TheEnds DEF Has
    <2>8. /\ Sole(tasks'["server"], Request)
          /\ \A p \in Range(tasks'["server"]) : p.id \in {Request, "C_PONG", "FIN"}
          /\ Has(tasks'["server"], Request) => Has(tasks["server"], Request)
      BY <1>f, <2>1, EmptyQueue, TheEnds DEF Sole, Has
    <2> QED
      BY <1>b, <2>1, <2>3, <2>4, <2>5, <2>6, <2>7, <2>8
  <1>7. AnswerIsComing'
    BY <1>a, <1>b, TheEnds DEF AnswerIsComing, Connected, Listens
  <1>8. FarewellFollows'
    <2>1. /\ IsEcho => farewell = "none"
          /\ farewell = "none" => /\ ~Has(wire["client"], "S_DISCONNECT")
                                  /\ ~Has(tasks["client"], "S_DISCONNECT")
          /\ farewell = "due" => login # "asked"
      BY DEF IInv, FarewellFollows
    <2>2. farewell = "none" => /\ ~Has(wire'["client"], "S_DISCONNECT")
                               /\ ~Has(tasks'["client"], "S_DISCONNECT")
      BY <1>f, <1>j, <1>k, <2>1, TheEnds DEF Has
    <2>3. ASSUME life'["client"] = "up", farewell' = "due", login' = "answered"
          PROVE  /\ \A i \in DOMAIN tasks'["client"] : tasks'["client"][i].id = "S_DISCONNECT" =>
                       Precedes(Response, tasks'["client"], i)
                 /\ \A i \in DOMAIN wire'["client"] : wire'["client"][i].id = "S_DISCONNECT" =>
                       Precedes(Response, wire'["client"], i) \/ Has(tasks'["client"], Response)
      <3>1. life["client"] = "up" /\ tasks'["client"] = tasks["client"]
        BY <1>a, <1>b, <1>h, <2>3, TheEnds
      <3>2. /\ \A i \in DOMAIN tasks["client"] : tasks["client"][i].id = "S_DISCONNECT" =>
                  Precedes(Response, tasks["client"], i)
            /\ \A i \in DOMAIN wire["client"] : wire["client"][i].id = "S_DISCONNECT" =>
                  Precedes(Response, wire["client"], i) \/ Has(tasks["client"], Response)
        BY <1>b, <2>3, <3>1 DEF IInv, FarewellFollows
      <3>3. \A i \in DOMAIN wire'["client"] : wire'["client"][i].id = "S_DISCONNECT" =>
                  Precedes(Response, wire'["client"], i) \/ Has(tasks["client"], Response)
        <4>1. ASSUME NEW n \in 0..Len(wire["client"]), NEW i \in DOMAIN Ended(wire["client"], n),
                     Ended(wire["client"], n)[i].id = "S_DISCONNECT"
              PROVE  Precedes(Response, Ended(wire["client"], n), i) \/ Has(tasks["client"], Response)
          <5>1. wire["client"] \in Seq(Packet)
            BY <1>c, TheEnds
          <5>2. /\ i \in DOMAIN wire["client"] /\ Ended(wire["client"], n)[i] = wire["client"][i]
                /\ \A j \in 1..i : j \in DOMAIN Ended(wire["client"], n) /\ Ended(wire["client"], n)[j] = wire["client"][j]
            BY <1>k, <4>1, <5>1, EndedIs DEF Fin
          <5>3. \A j \in DOMAIN wire["client"] : j < i => j \in 1..i
            BY <5>1, <5>2, RangeIs
          <5> QED
            BY <3>2, <4>1, <5>2, <5>3 DEF Precedes
        <4>2. \/ wire'["client"] = <<>> \/ wire'["client"] = wire["client"]
              \/ \E n \in 0..Len(wire["client"]) : wire'["client"] = Ended(wire["client"], n)
          <5>1. (e = "client" /\ o = "server") \/ (e = "server" /\ o = "client")
            BY <1>a, TheEnds
          <5> QED
            BY <1>i, <5>1
        <4>3. CASE wire'["client"] = <<>>
          BY <4>3, EmptyQueue
        <4>4. CASE wire'["client"] = wire["client"]
          BY <3>2, <4>4
        <4>5. CASE \E n \in 0..Len(wire["client"]) : wire'["client"] = Ended(wire["client"], n)
          BY <4>1, <4>5
        <4> QED
          BY <4>2, <4>3, <4>4, <4>5
      <3> QED
        BY <3>1, <3>2, <3>3
    <2>4. life'["client"] = "exited" => farewell # "none"
      <3>1. life'["client"] = "exited" => life["client"] = "exited" \/ Reached("client", "S_DISCONNECT") # {}
        BY <1>a, <1>b, TheEnds DEF Leaves
      <3>2. Reached("client", "S_DISCONNECT") # {} => Has(tasks["client"], "S_DISCONNECT")
        BY <1>c, ReachedIs, TheEnds
      <3> QED
        BY <2>1, <3>1, <3>2 DEF IInv, FarewellFollows
    <2> QED
      BY <1>b, <1>e, <2>1, <2>2, <2>3, <2>4 DEF FarewellFollows
  <1>9. FarewellComesLast'
    <2> SUFFICES ASSUME life'["client"] = "exited", farewell = "due" PROVE login = "heard"
      BY <1>b DEF FarewellComesLast
    <2>1. CASE life["client"] = "exited"
      BY <2>1 DEF IInv, FarewellComesLast
    <2>2. CASE life["client"] # "exited"
      <3>1. e = "client" /\ Reached("client", "S_DISCONNECT") # {} /\ life["client"] = "up"
        BY <1>a, <1>b, <2>2, TheEnds DEF Leaves
      <3>2. PICK i \in DOMAIN tasks["client"] :
               i <= Workers("client") /\ tasks["client"][i].id = "S_DISCONNECT"
        BY <3>1 DEF Reached
      <3>3. Workers("client") = 1
        BY DEF Workers
      <3>4. i \in Nat /\ \A j \in DOMAIN tasks["client"] : j \in Nat /\ j >= 1
        BY <1>c, RangeIs, TheEnds
      <3>5. ~Precedes(Response, tasks["client"], i)
        BY <3>2, <3>3, <3>4 DEF Precedes
      <3>6. login # "answered"
        BY <3>1, <3>2, <3>5 DEF IInv, FarewellFollows
      <3>7. login # "asked" /\ login \in {"asked", "answered", "heard"}
        BY DEF IInv, FarewellFollows, TypeOK
      <3> QED
        BY <3>6, <3>7
    <2> QED
      BY <2>1, <2>2
  <1> QED
    BY <1>1, <1>2, <1>3, <1>4, <1>5, <1>6, <1>7, <1>8, <1>9 DEF IInv

------------------------------------------------------------------------------
(* Packets that are sole, and packets in order.                            *)

\* Appending keeps order, and what is sole if it is not appended again.
LEMMA AppendOrder ==
    ASSUME NEW q \in Seq(Packet), NEW x \in Packet, NEW id
    PROVE  /\ Sole(q, id) /\ (x.id = id => ~Has(q, id)) => Sole(Append(q, x), id)
           /\ \A i \in DOMAIN q : Precedes(id, q, i) => Precedes(id, Append(q, x), i)
           /\ Has(q, id) => Precedes(id, Append(q, x), Len(q) + 1)
           /\ Has(Append(q, x), id) <=> Has(q, id) \/ x.id = id
  <1>1. PICK n, r : n = Len(q) + 1 /\ r = Append(q, x)
    OBVIOUS
  <1>2. /\ DOMAIN r = DOMAIN q \union {n} /\ r[n] = x
        /\ \A i \in DOMAIN q : i < n /\ r[i] = q[i] /\ q[i] \in Range(q)
        /\ Range(r) = Range(q) \union {x}
        /\ \A p \in Range(q) : \E i \in DOMAIN q : q[i] = p
    BY <1>1, AppendIs, RangeIs
  <1>3. Sole(q, id) /\ (x.id = id => ~Has(q, id)) => Sole(r, id)
    BY <1>2 DEF Sole, Has
  <1>4. \A i \in DOMAIN q : Precedes(id, q, i) => Precedes(id, r, i)
    BY <1>2 DEF Precedes
  <1>5. Has(q, id) => Precedes(id, r, n)
    BY <1>2 DEF Has, Precedes
  <1>6. Has(r, id) <=> Has(q, id) \/ x.id = id
    BY <1>2 DEF Has
  <1> QED
    BY <1>1, <1>3, <1>4, <1>5, <1>6

\* Behind its first packet, the queue keeps its order.
LEMMA TailOrder ==
    ASSUME NEW q \in Seq(Packet), q # <<>>, NEW id
    PROVE  /\ Sole(q, id) => Sole(Tail(q), id) /\ (Head(q).id = id => ~Has(Tail(q), id))
           /\ ~Precedes(id, q, 1)
           /\ \A i \in DOMAIN Tail(q) :
                 Precedes(id, q, i + 1) => Head(q).id = id \/ Precedes(id, Tail(q), i)
           /\ Has(q, id) <=> Has(Tail(q), id) \/ Head(q).id = id
  <1>1. PICK n \in Nat : n = Len(q) /\ DOMAIN q = 1..n /\ DOMAIN Tail(q) = 1..(n - 1)
    BY RangeIs, TailIs
  <1>2. /\ \A i \in DOMAIN Tail(q) : i + 1 \in DOMAIN q /\ Tail(q)[i] = q[i + 1] /\ i + 1 # 1
        /\ Head(q) = q[1] /\ 1 \in DOMAIN q
        /\ Range(q) = Range(Tail(q)) \union {Head(q)}
        /\ \A p \in Range(Tail(q)) : \E i \in DOMAIN Tail(q) : Tail(q)[i] = p
    <2>1. /\ \A i \in DOMAIN Tail(q) : i + 1 \in DOMAIN q /\ Tail(q)[i] = q[i + 1]
          /\ Head(q) = q[1] /\ 1 \in DOMAIN q
          /\ Range(q) = Range(Tail(q)) \union {Head(q)}
          /\ Tail(q) \in Seq(Packet)
      BY TailIs
    <2>2. \A i \in DOMAIN Tail(q) : i + 1 # 1
      BY <1>1
    <2>3. \A p \in Range(Tail(q)) : \E i \in DOMAIN Tail(q) : Tail(q)[i] = p
      BY <2>1, RangeIs
    <2> QED
      BY <2>1, <2>2, <2>3
  <1>3. \A i, j \in DOMAIN Tail(q) : i + 1 = j + 1 => i = j
    BY <1>1
  <1>4. Sole(q, id) => Sole(Tail(q), id)
    BY <1>2, <1>3 DEF Sole
  <1>5. Sole(q, id) /\ Head(q).id = id => ~Has(Tail(q), id)
    BY <1>2 DEF Sole, Has
  <1>6. ~Precedes(id, q, 1)
    BY <1>1 DEF Precedes
  <1>7. ASSUME NEW i \in DOMAIN Tail(q), Precedes(id, q, i + 1)
        PROVE  Head(q).id = id \/ Precedes(id, Tail(q), i)
    <2>1. PICK j \in DOMAIN q : j < i + 1 /\ q[j].id = id
      BY <1>7 DEF Precedes
    <2>2. CASE j = 1
      BY <1>2, <2>1, <2>2
    <2>3. CASE j # 1
      <3>1. PICK k \in DOMAIN Tail(q) : k = j - 1 /\ Tail(q)[k] = q[j]
        BY <2>3, TailIs
      <3>2. k < i
        BY <1>1, <2>1, <3>1
      <3> QED
        BY <2>1, <3>1, <3>2 DEF Precedes
    <2> QED
      BY <2>2, <2>3
  <1>8. Has(q, id) <=> Has(Tail(q), id) \/ Head(q).id = id
    BY <1>2 DEF Has
  <1> QED
    BY <1>4, <1>5, <1>6, <1>7, <1>8

\* So does a queue without one of its packets.
LEMMA WithoutOrder ==
    ASSUME NEW q \in Seq(Packet), NEW i \in DOMAIN q, NEW id
    PROVE  /\ Sole(q, id) => Sole(Without(q, i), id) /\ (q[i].id = id => ~Has(Without(q, i), id))
           /\ q[i].id # id => (Has(Without(q, i), id) <=> Has(q, id))
           /\ q[i].id # id =>
                 \A k \in DOMAIN Without(q, i) : \E m \in DOMAIN q :
                    /\ Without(q, i)[k] = q[m]
                    /\ Precedes(id, q, m) => Precedes(id, Without(q, i), k)
  <1>1. PICK r : r = Without(q, i)
    OBVIOUS
  <1>2. /\ r \in Seq(Packet)
        /\ Range(q) = Range(r) \union {q[i]}
        /\ \A k \in DOMAIN r : \E m \in DOMAIN q :
              r[k] = q[m] /\ ((k < i /\ m = k) \/ (k >= i /\ m = k + 1))
        /\ \A m \in DOMAIN q : m = i \/ \E k \in DOMAIN r :
              r[k] = q[m] /\ ((m < i /\ k = m) \/ (m > i /\ k >= i /\ m = k + 1))
    BY <1>1, WithoutIs
  <1>3. (\A k \in DOMAIN r : k \in Nat) /\ (\A k \in DOMAIN q : k \in Nat) /\ i \in Nat
    BY <1>2, RangeIs
  <1>4. ASSUME Sole(q, id) PROVE Sole(r, id)
    <2> SUFFICES ASSUME NEW k \in DOMAIN r, NEW l \in DOMAIN r, r[k].id = id, r[l].id = id
                 PROVE  k = l
      BY DEF Sole
    <2>1. PICK m \in DOMAIN q : r[k] = q[m] /\ ((k < i /\ m = k) \/ (k >= i /\ m = k + 1))
      BY <1>2
    <2>2. PICK o \in DOMAIN q : r[l] = q[o] /\ ((l < i /\ o = l) \/ (l >= i /\ o = l + 1))
      BY <1>2
    <2>3. m = o
      BY <1>4, <2>1, <2>2 DEF Sole
    <2> QED
      BY <1>3, <2>1, <2>2, <2>3
  <1>5. ASSUME Sole(q, id), q[i].id = id PROVE ~Has(r, id)
    <2> SUFFICES ASSUME NEW k \in DOMAIN r, r[k].id = id PROVE FALSE
      BY <1>2, RangeIs DEF Has
    <2>1. PICK m \in DOMAIN q : r[k] = q[m] /\ ((k < i /\ m = k) \/ (k >= i /\ m = k + 1))
      BY <1>2
    <2>2. m = i
      BY <1>5, <2>1 DEF Sole
    <2> QED
      BY <1>3, <2>1, <2>2
  <1>6. q[i].id # id => (Has(r, id) <=> Has(q, id))
    BY <1>2 DEF Has
  <1>7. ASSUME q[i].id # id, NEW k \in DOMAIN r
        PROVE  \E m \in DOMAIN q : r[k] = q[m] /\ (Precedes(id, q, m) => Precedes(id, r, k))
    <2>1. PICK m \in DOMAIN q : r[k] = q[m] /\ ((k < i /\ m = k) \/ (k >= i /\ m = k + 1))
      BY <1>2
    <2>2. ASSUME Precedes(id, q, m) PROVE Precedes(id, r, k)
      <3>1. PICK j \in DOMAIN q : j < m /\ q[j].id = id
        BY <2>2 DEF Precedes
      <3>2. PICK l \in DOMAIN r : r[l] = q[j] /\ ((j < i /\ l = j) \/ (j > i /\ l >= i /\ j = l + 1))
        BY <1>2, <1>7, <3>1
      <3>3. l < k
        BY <1>3, <2>1, <3>1, <3>2
      <3> QED
        BY <3>1, <3>2, <3>3 DEF Precedes
    <2> QED
      BY <2>1, <2>2
  <1> QED
    BY <1>1, <1>4, <1>5, <1>6, <1>7

\* Time does not change the order of packets.
LEMMA OlderOrder ==
    ASSUME NEW q \in Seq(Packet), NEW id
    PROVE  /\ Sole(q, id) => Sole(Older(q), id)
           /\ \A i \in DOMAIN q : Precedes(id, q, i) => Precedes(id, Older(q), i)
           /\ Has(Older(q), id) <=> Has(q, id)
  <1>1. /\ DOMAIN Older(q) = DOMAIN q /\ \A i \in DOMAIN q : Older(q)[i].id = q[i].id
        /\ \A p \in Range(q) : Aged(p) \in Range(Older(q)) /\ Aged(p).id = p.id
        /\ \A p \in Range(Older(q)) : \E o \in Range(q) : p = Aged(o)
    BY OlderIs
  <1> QED
    BY <1>1 DEF Sole, Precedes, Has

------------------------------------------------------------------------------
(* The steps that leave the connection as it is: a handler, a ping, a      *)
(* timer that finds its work done.                                         *)

\* What they have in common: a packet may have been sent and one been handled.
Calm ==
    /\ UNCHANGED <<program, life, sock, silence>>
    /\ \A x \in Ends :
          /\ Range(wire[x]) \subseteq Range(wire'[x])
          /\ \A p \in Range(wire'[x]) : p \in Range(wire[x]) \/ (p.age = 0 /\ p.id # "FIN")
          /\ Range(tasks'[x]) \subseteq Range(tasks[x])
          /\ elapsed'[x] <= elapsed[x]
          /\ \/ check'[x] = "idle"
             \/ elapsed'[x] = elapsed[x] /\ (check[x] # "idle" \/ elapsed[x] >= Interval)
          /\ Flows(queue'[x]) => Flows(queue[x])
    /\ Connected \/ wire' = wire

\* A calm step keeps what there is before a connection, what is in time, and what
\* is said of the end of the stream.
LEMMA CalmKeeps ==
    ASSUME IInv, TypeOK', Calm
    PROVE  Connecting' /\ InTime' /\ EndOfStream'
  <1>a. /\ program' = program /\ life' = life /\ sock' = sock /\ silence' = silence
        /\ \A x \in Ends : tasks[x] \in Seq(Packet) /\ tasks'[x] \in Seq(Packet)
    BY DEF Calm, IInv, TypeOK
  <1>b. \A x \in Ends : tasks[x] = <<>> => tasks'[x] = <<>>
    <2> SUFFICES ASSUME NEW x \in Ends, tasks[x] = <<>> PROVE tasks'[x] = <<>>
      OBVIOUS
    <2>1. Range(tasks'[x]) = {}
      BY EmptyQueue DEF Calm
    <2> QED
      BY <1>a, <2>1, NothingIn
  <1>c. \A x \in Ends : Listens(x)' <=> Listens(x)
    BY <1>a DEF Listens
  <1>1. Connecting'
    <2>1. /\ sock["client"] \in {"none", "failed"} =>
                /\ sock["server"] = "none" /\ silence["client"] = 0
                /\ \A e \in Ends : wire[e] = <<>> /\ tasks[e] = <<>>
          /\ \A e \in Ends : sock[e] \in {"linked", "added", "cut"} => tasks[e] = <<>>
          /\ Listens("server") /\ sock["server"] \in {"linked", "added"} => silence["client"] = 0
      BY DEF IInv, Connecting
    <2>2. sock["client"] \in {"none", "failed"} => wire' = wire
      BY TheEnds DEF Calm, Connected, Listens
    <2> QED
      BY <1>a, <1>b, <1>c, <2>1, <2>2, TheEnds DEF Connecting
  <1>2. InTime'
    <2> SUFFICES ASSUME NEW x \in Ends, life[x] = "up"
                 PROVE  /\ elapsed'[x] <= Interval + MaxLate
                        /\ check'[x] # "idle" => elapsed'[x] >= Interval
                        /\ \A p \in Range(wire'[x]) \union Range(tasks'[x]) : p.age <= MaxDelay
      BY <1>a DEF InTime
    <2>1. /\ elapsed[x] <= Interval + MaxLate
          /\ check[x] # "idle" => elapsed[x] >= Interval
          /\ \A p \in Range(wire[x]) \union Range(tasks[x]) : p.age <= MaxDelay
      BY DEF IInv, InTime
    <2>2. elapsed'[x] <= elapsed[x] /\ elapsed[x] \in Nat /\ elapsed'[x] \in Nat
      BY DEF Calm, IInv, TypeOK
    <2>3. elapsed'[x] <= Interval + MaxLate
      BY <2>1, <2>2, Times
    <2>4. \A p \in Range(wire'[x]) \union Range(tasks'[x]) : p.age <= MaxDelay
      <3>1. 0 <= MaxDelay
        BY Times
      <3>2. Range(tasks'[x]) \subseteq Range(tasks[x])
        BY DEF Calm
      <3>3. \A p \in Range(wire'[x]) : p \in Range(wire[x]) \/ p.age = 0
        BY DEF Calm
      <3> QED
        BY <2>1, <3>1, <3>2, <3>3
    <2>5. check'[x] # "idle" => elapsed'[x] >= Interval
      BY <2>1 DEF Calm
    <2> QED
      BY <2>3, <2>4, <2>5
  <1>3. EndOfStream'
    <2>1. \A x \in Ends : Has(wire'[x], "FIN") <=> Has(wire[x], "FIN")
      BY DEF Calm, Has
    <2>2. /\ \A e \in Ends : Has(wire[e], "FIN") => ~Listens(Other(e))
          /\ Listens("server") /\ ~Listens("client") /\ life["client"] # "gone" =>
                Has(wire["server"], "FIN")
      BY DEF IInv, EndOfStream
    <2> QED
      BY <1>a, <1>c, <2>1, <2>2, TheEnds DEF EndOfStream
  <1> QED
    BY <1>1, <1>2, <1>3

\* Without a ping handled or a heartbeat, the ends hear as they did.
LEMMA CalmHears ==
    ASSUME IInv, Calm, elapsed'["server"] = elapsed["server"],
           \A p \in Range(tasks["client"]) : p \in Range(tasks'["client"]) \/ p.id # "S_PING"
    PROVE  ServerHears' /\ ClientHears'
  <1>a. /\ program' = program /\ life' = life /\ sock' = sock /\ silence' = silence
        /\ \A x \in Ends : Range(wire[x]) \subseteq Range(wire'[x]) /\ (Flows(queue'[x]) => Flows(queue[x]))
    BY DEF Calm
  <1>b. /\ \A x \in Ends : (Listens(x)' <=> Listens(x)) /\ (Working(x)' <=> Working(x))
        /\ IsEcho' <=> IsEcho
    BY <1>a DEF Listens, Working, IsEcho
  <1>c. \A x \in Ends : Writable(x)' => Writable(x)
    BY <1>a DEF Flows, Writable
  <1>1. ServerHears'
    <2> SUFFICES ASSUME Listens("client"), Working("server"), ~IsEcho, Writable("client"), Writable("server")
                 PROVE  \/ silence["server"] + Interval + MaxLate + 2 * MaxDelay <= Timeout + elapsed'["server"]
                        \/ \E p \in Range(wire'["client"]) \union Range(tasks'["client"]) :
                              p.id = "S_PING" /\ silence["server"] + 2 * MaxDelay <= Timeout + p.age
                        \/ \E p \in Range(wire'["server"]) : silence["server"] + MaxDelay <= Timeout + p.age
      BY <1>a, <1>b, <1>c, TheEnds DEF ServerHears
    <2>1. \/ silence["server"] + Interval + MaxLate + 2 * MaxDelay <= Timeout + elapsed["server"]
          \/ \E p \in Range(wire["client"]) \union Range(tasks["client"]) :
                p.id = "S_PING" /\ silence["server"] + 2 * MaxDelay <= Timeout + p.age
          \/ \E p \in Range(wire["server"]) : silence["server"] + MaxDelay <= Timeout + p.age
      BY DEF IInv, ServerHears
    <2> QED
      BY <1>a, <2>1, TheEnds
  <1>2. ClientHears'
    <2> SUFFICES ASSUME Listens("server"), Working("client"), ~IsEcho, Writable("server")
                 PROVE  \/ silence["client"] + Interval + MaxLate + MaxDelay <= Timeout + elapsed'["server"]
                        \/ \E p \in Range(wire'["client"]) : silence["client"] + MaxDelay <= Timeout + p.age
      BY <1>a, <1>b, <1>c, TheEnds DEF ClientHears
    <2>1. \/ silence["client"] + Interval + MaxLate + MaxDelay <= Timeout + elapsed["server"]
          \/ \E p \in Range(wire["client"]) : silence["client"] + MaxDelay <= Timeout + p.age
      BY DEF IInv, ClientHears
    <2> QED
      BY <1>a, <2>1, TheEnds
  <1> QED
    BY <1>1, <1>2

\* A safety timer that runs stays as redundant as it was.
LEMMA CalmSafety ==
    ASSUME IInv, Calm,
           \A p \in Range(tasks["client"]) : p \in Range(tasks'["client"]) \/ p.id # "S_DISCONNECT",
           NEW a \in safety
    PROVE  /\ ~IsEcho' /\ Started("server")'
           /\ Working("server")' /\ life'["client"] # "gone" /\ Writable("server")' =>
                 \/ /\ Listens("client")'
                    /\ \/ HasSince(wire'["client"], "S_DISCONNECT", a)
                       \/ HasSince(tasks'["client"], "S_DISCONNECT", a)
                 \/ /\ ~Listens("client")'
                    /\ \E p \in Range(wire'["server"]) : p.id = "FIN" /\ a <= p.age + MaxDelay
  <1>1. /\ program' = program /\ life' = life /\ sock' = sock
        /\ \A x \in Ends : Range(wire[x]) \subseteq Range(wire'[x]) /\ (Flows(queue'[x]) => Flows(queue[x]))
    BY DEF Calm
  <1>2. (Listens("client")' <=> Listens("client")) /\ (Working("server")' <=> Working("server")) /\ (IsEcho' <=> IsEcho)
        /\ (Started("server")' <=> Started("server"))
    BY <1>1 DEF Listens, Working, IsEcho, Started
  <1>3. /\ ~IsEcho /\ Started("server")
        /\ Working("server") /\ life["client"] # "gone" /\ Writable("server") =>
              \/ /\ Listens("client")
                 /\ \/ HasSince(wire["client"], "S_DISCONNECT", a)
                    \/ HasSince(tasks["client"], "S_DISCONNECT", a)
              \/ /\ ~Listens("client")
                 /\ \E p \in Range(wire["server"]) : p.id = "FIN" /\ a <= p.age + MaxDelay
    BY DEF IInv, SafetyIsRedundant
  <1>4. HasSince(wire["client"], "S_DISCONNECT", a) => HasSince(wire'["client"], "S_DISCONNECT", a)
    BY <1>1, TheEnds DEF HasSince
  <1>5. HasSince(tasks["client"], "S_DISCONNECT", a) => HasSince(tasks'["client"], "S_DISCONNECT", a)
    BY DEF HasSince
  <1>6. Writable("server")' => Writable("server")
    BY <1>1, TheEnds DEF Flows, Writable
  <1> QED
    BY <1>1, <1>2, <1>3, <1>4, <1>5, <1>6, TheEnds

\* Sending a packet is calm.
LEMMA SendingIsCalm ==
    ASSUME TypeOK, NEW e \in Ends, NEW id, Fresh(id) \in Packet, id # "FIN", Send(e, id)
    PROVE  /\ \A x \in Ends :
                 /\ Range(wire[x]) \subseteq Range(wire'[x])
                 /\ \A p \in Range(wire'[x]) : p \in Range(wire[x]) \/ (p.age = 0 /\ p.id # "FIN")
                 /\ Flows(queue'[x]) => Flows(queue[x])
           /\ Connected \/ wire' = wire
  <1>1. Fresh(id).age = 0 /\ Fresh(id).id = id
    BY DEF Fresh
  <1>2. /\ \A x \in Ends : /\ Range(wire[x]) \subseteq Range(wire'[x])
                           /\ Range(wire'[x]) \subseteq Range(wire[x]) \union {Fresh(id)}
                           /\ Flows(queue'[x]) => Flows(queue[x])
        /\ Connected \/ wire' = wire
    BY SendIs
  <1>3. ASSUME NEW x \in Ends, NEW p \in Range(wire'[x])
        PROVE  p \in Range(wire[x]) \/ (p.age = 0 /\ p.id # "FIN")
    <2>1. p \in Range(wire[x]) \/ p = Fresh(id)
      BY <1>2
    <2> QED
      BY <1>1, <2>1
  <1> QED
    BY <1>2, <1>3

\* A step that neither sends nor handles a packet, and at most reads the clock or
\* takes a safety timer away, is calm and keeps the invariant.
LEMMA QuietKeeps ==
    ASSUME IInv, TypeOK', Calm, UNCHANGED <<wire, tasks, elapsed, login, farewell>>, safety' \subseteq safety
    PROVE  IInv'
  <1>a. /\ program' = program /\ life' = life /\ sock' = sock /\ tasks' = tasks /\ wire' = wire
        /\ elapsed' = elapsed /\ login' = login /\ farewell' = farewell
        /\ \A x \in Ends : Flows(queue'[x]) => Flows(queue[x])
    BY DEF Calm
  <1>b. /\ \A x \in Ends : (Listens(x)' <=> Listens(x)) /\ (Started(x)' <=> Started(x))
        /\ (IsEcho' <=> IsEcho) /\ Request' = Request /\ Response' = Response /\ (Connected' <=> Connected)
    BY <1>a DEF Listens, Started, IsEcho, Request, Response, Connected
  <1>1. Connecting' /\ InTime' /\ EndOfStream'
    BY CalmKeeps
  <1>2. ServerHears' /\ ClientHears'
    BY <1>a, CalmHears
  <1>3. SafetyIsRedundant'
    BY <1>a, CalmSafety DEF SafetyIsRedundant
  <1>4. AskedOnce' /\ FarewellFollows' /\ FarewellComesLast'
    BY <1>a, <1>b, TheEnds DEF IInv, AskedOnce, FarewellFollows, FarewellComesLast
  <1>5. AnswerIsComing'
    <2>1. Writable("server")' => Writable("server")
      BY <1>a, TheEnds DEF Flows, Writable
    <2> QED
      BY <1>a, <1>b, <2>1, TheEnds DEF IInv, AnswerIsComing
  <1> QED
    BY <1>1, <1>2, <1>3, <1>4, <1>5 DEF IInv

\* The server answers a login: the answer is behind all that was sent before.
LEMMA HandleLoginKeeps ==
    ASSUME IInv, TypeOK', HandleLogin \/ HandleLoginProto
    PROVE  IInv'
  <1>a. /\ program' = program /\ life' = life /\ sock' = sock /\ silence' = silence
        /\ elapsed' = elapsed /\ check' = check /\ safety' = safety
        /\ login' = "answered" /\ farewell' = farewell
        /\ TypeOK /\ "server" \in Ends /\ "client" \in Ends /\ Other("server") = "client"
    BY TheEnds DEF HandleLogin, HandleLoginProto, timeVars, checkVars, IInv
  <1>b. PICK request \in {"C_LOGIN", "C_LOGIN_PROTO"}, answer \in {"S_LOGIN_RES", "S_LOGIN_RES_PROTO"} :
           /\ Handle("server", request) /\ Send("server", answer)
           /\ \/ request = "C_LOGIN" /\ answer = "S_LOGIN_RES"
              \/ request = "C_LOGIN_PROTO" /\ answer = "S_LOGIN_RES_PROTO"
    <2>1. CASE HandleLogin
      <3>1. Handle("server", "C_LOGIN") /\ Send("server", "S_LOGIN_RES")
        BY <2>1 DEF HandleLogin
      <3> QED
        BY <3>1
    <2>2. CASE HandleLoginProto
      <3>1. Handle("server", "C_LOGIN_PROTO") /\ Send("server", "S_LOGIN_RES_PROTO")
        BY <2>2 DEF HandleLoginProto
      <3> QED
        BY <3>1
    <2> QED
      BY <2>1, <2>2
  <1>c. answer \notin {"FIN", "S_DISCONNECT", "C_LOGIN", "C_LOGIN_PROTO"} /\ Fresh(answer) \in Packet
    BY <1>b, PacketIds
  <1>d. /\ tasks'["client"] = tasks["client"]
        /\ \E i \in DOMAIN tasks["server"] :
              tasks["server"][i].id = request /\ tasks'["server"] = Without(tasks["server"], i)
        /\ Range(tasks'["server"]) \subseteq Range(tasks["server"])
        /\ Has(tasks["server"], request)
    <2>1. Handle("server", request)
      BY <1>b
    <2>2. /\ tasks'[Other("server")] = tasks[Other("server")]
          /\ \E i \in DOMAIN tasks["server"] :
                tasks["server"][i].id = request /\ tasks'["server"] = Without(tasks["server"], i)
          /\ Range(tasks'["server"]) \subseteq Range(tasks["server"])
          /\ Has(tasks["server"], request)
      BY <1>a, <2>1, HandleIs
    <2> QED
      BY <1>a, <2>2
  <1>e. /\ wire'["server"] = wire["server"]
        /\ Connected /\ Writable("server")' => wire'["client"] = Append(wire["client"], Fresh(answer))
        /\ wire'["client"] = wire["client"] \/ wire'["client"] = Append(wire["client"], Fresh(answer))
        /\ wire["client"] \in Seq(Packet) /\ tasks["server"] \in Seq(Packet)
    <2>1. /\ wire'["server"] = wire["server"]
          /\ Connected /\ Writable("server")' => wire'["client"] = Append(wire["client"], Fresh(answer))
          /\ wire'["client"] = wire["client"] \/ wire'["client"] = Append(wire["client"], Fresh(answer))
      BY <1>a, <1>b, <1>c, SendIs
    <2>2. wire["client"] \in Seq(Packet) /\ tasks["server"] \in Seq(Packet)
      BY <1>a DEF TypeOK
    <2> QED
      BY <2>1, <2>2
  <1>f. Calm
    <2>1. \A x \in Ends : Range(tasks'[x]) \subseteq Range(tasks[x]) /\ elapsed'[x] <= elapsed[x]
      BY <1>a, <1>d, TheEnds DEF TypeOK
    <2>2. /\ \A x \in Ends :
                /\ Range(wire[x]) \subseteq Range(wire'[x])
                /\ \A p \in Range(wire'[x]) : p \in Range(wire[x]) \/ (p.age = 0 /\ p.id # "FIN")
                /\ Flows(queue'[x]) => Flows(queue[x])
          /\ Connected \/ wire' = wire
      BY <1>a, <1>b, <1>c, SendingIsCalm
    <2> QED
      BY <1>a, <2>1, <2>2 DEF Calm
  <1>g. /\ \A x \in Ends : (Listens(x)' <=> Listens(x)) /\ (Working(x)' <=> Working(x)) /\ (Started(x)' <=> Started(x))
        /\ (IsEcho' <=> IsEcho) /\ Request' = Request /\ Response' = Response /\ (Connected' <=> Connected)
    BY <1>a DEF Listens, Working, Started, IsEcho, Request, Response, Connected
  <1>h. ~IsEcho => /\ request = Request /\ answer = Response /\ login = "asked"
                   /\ ~Has(wire["server"], Request) /\ Sole(tasks["server"], Request)
                   /\ Started("client")
    <2> SUFFICES ASSUME ~IsEcho
                 PROVE  /\ request = Request /\ answer = Response /\ login = "asked"
                        /\ ~Has(wire["server"], Request) /\ Sole(tasks["server"], Request)
                        /\ Started("client")
      OBVIOUS
    <2>1. request \in {Request, "C_PONG", "FIN"}
      BY <1>d DEF IInv, AskedOnce, Has
    <2>2. request = Request
      BY <1>b, <2>1
    <2>3. answer = Response
      BY <1>b, <2>2 DEF Request, Response, IsEcho, IInv, TypeOK
    <2> QED
      BY <1>d, <2>2, <2>3 DEF IInv, AskedOnce
  <1>i. IsEcho => farewell = "none"
    BY DEF IInv, FarewellFollows
  <1>j. farewell # "due"
    BY <1>h, <1>i DEF IInv, FarewellFollows
  <1>1. Connecting' /\ InTime' /\ EndOfStream'
    BY <1>f, CalmKeeps
  <1>2. ServerHears' /\ ClientHears'
    BY <1>a, <1>d, <1>f, CalmHears
  <1>3. SafetyIsRedundant'
    BY <1>a, <1>d, <1>f, CalmSafety DEF SafetyIsRedundant
  <1>4. AskedOnce'
    <2> SUFFICES ASSUME ~IsEcho PROVE AskedOnce'
      BY <1>g DEF AskedOnce
    <2>1. ~Has(tasks'["server"], Request)
      BY <1>d, <1>e, <1>h, WithoutOrder
    <2>2. Sole(tasks'["server"], Request) /\ Sole(wire["server"], Request)
      BY <1>d, <1>e, <1>h, WithoutOrder DEF IInv, AskedOnce
    <2>3. wire'["server"] = wire["server"]
      BY <1>e
    <2>4. \A q \in {wire["server"], tasks["server"]} : \A p \in Range(q) : p.id \in {Request, "C_PONG", "FIN"}
      BY DEF IInv, AskedOnce
    <2> QED
      BY <1>a, <1>d, <1>g, <1>h, <2>1, <2>2, <2>3, <2>4 DEF AskedOnce
  <1>5. AnswerIsComing'
    <2> SUFFICES ASSUME ~IsEcho, Connected, Writable("server")'
                 PROVE  Has(wire'["client"], Response)
      BY <1>a, <1>g DEF AnswerIsComing
    <2>1. Fresh(Response).id = Response /\ answer = Response
      BY <1>h DEF Fresh
    <2>2. Has(Append(wire["client"], Fresh(answer)), Response)
      BY <1>c, <1>e, <2>1, AppendOrder
    <2> QED
      BY <1>e, <2>2
  <1>6. FarewellFollows'
    <2>1. ~Has(wire["client"], "S_DISCONNECT") => ~Has(wire'["client"], "S_DISCONNECT")
      <3>1. Fresh(answer).id # "S_DISCONNECT"
        BY <1>c DEF Fresh
      <3>2. ~Has(wire["client"], "S_DISCONNECT") => ~Has(Append(wire["client"], Fresh(answer)), "S_DISCONNECT")
        BY <1>c, <1>e, <3>1, AppendOrder
      <3> QED
        BY <1>e, <3>2
    <2> QED
      BY <1>a, <1>d, <1>g, <1>i, <1>j, <2>1 DEF FarewellFollows, IInv
  <1>7. FarewellComesLast'
    BY <1>a, <1>j DEF FarewellComesLast
  <1> QED
    BY <1>1, <1>2, <1>3, <1>4, <1>5, <1>6, <1>7 DEF IInv

\* The server handles a pong.
LEMMA HandlePongKeeps ==
    ASSUME IInv, TypeOK', HandlePong
    PROVE  IInv'
  <1>a. /\ program' = program /\ life' = life /\ sock' = sock /\ silence' = silence /\ wire' = wire
        /\ elapsed' = elapsed /\ check' = check /\ safety' = safety /\ queue' = queue
        /\ login' = login /\ farewell' = farewell
        /\ TypeOK /\ "server" \in Ends /\ "client" \in Ends /\ Other("server") = "client"
    BY TheEnds DEF HandlePong, timeVars, checkVars, goalVars, IInv
  <1>b. /\ tasks'["client"] = tasks["client"]
        /\ \E i \in DOMAIN tasks["server"] :
              tasks["server"][i].id = "C_PONG" /\ tasks'["server"] = Without(tasks["server"], i)
        /\ Range(tasks'["server"]) \subseteq Range(tasks["server"])
        /\ tasks["server"] \in Seq(Packet)
    <2>1. Handle("server", "C_PONG")
      BY DEF HandlePong
    <2>2. /\ tasks'["client"] = tasks["client"]
          /\ Range(tasks'["server"]) \subseteq Range(tasks["server"])
      BY <1>a, <2>1, HandleIs
    <2>3. \E i \in DOMAIN tasks["server"] :
             tasks["server"][i].id = "C_PONG" /\ tasks'["server"] = Without(tasks["server"], i)
      BY <1>a, <2>1, HandleIs
    <2> QED
      BY <1>a, <2>2, <2>3 DEF TypeOK
  <1>c. Calm
    BY <1>a, <1>b, TheEnds DEF Calm, Flows, TypeOK
  <1>d. /\ \A x \in Ends : (Listens(x)' <=> Listens(x)) /\ (Started(x)' <=> Started(x)) /\ (Writable(x)' <=> Writable(x))
        /\ (IsEcho' <=> IsEcho) /\ Request' = Request /\ Response' = Response /\ (Connected' <=> Connected)
    BY <1>a DEF Listens, Started, Writable, IsEcho, Request, Response, Connected
  <1>1. Connecting' /\ InTime' /\ EndOfStream'
    BY <1>c, CalmKeeps
  <1>2. ServerHears' /\ ClientHears'
    BY <1>a, <1>b, <1>c, CalmHears
  <1>3. SafetyIsRedundant'
    BY <1>a, <1>b, <1>c, CalmSafety DEF SafetyIsRedundant
  <1>4. AskedOnce'
    <2> SUFFICES ASSUME ~IsEcho PROVE AskedOnce'
      BY <1>d DEF AskedOnce
    <2>1. Request # "C_PONG"
      BY DEF Request, IsEcho, IInv, TypeOK
    <2>2. Has(tasks'["server"], Request) => Has(tasks["server"], Request)
      BY <1>b, <2>1, WithoutOrder
    <2>3. Sole(tasks'["server"], Request)
      BY <1>b, WithoutOrder DEF IInv, AskedOnce
    <2>4. \A p \in Range(tasks'["server"]) : p.id \in {Request, "C_PONG", "FIN"}
      BY <1>b DEF IInv, AskedOnce
    <2> QED
      BY <1>a, <1>b, <1>d, <2>2, <2>3, <2>4 DEF IInv, AskedOnce
  <1>5. AnswerIsComing' /\ FarewellFollows' /\ FarewellComesLast'
    BY <1>a, <1>b, <1>d DEF IInv, AnswerIsComing, FarewellFollows, FarewellComesLast
  <1> QED
    BY <1>1, <1>2, <1>3, <1>4, <1>5 DEF IInv

\* The client hears the answer.
LEMMA HandleLoginResKeeps ==
    ASSUME IInv, TypeOK', HandleLoginRes \/ HandleLoginResProto
    PROVE  IInv'
  <1>a. /\ program' = program /\ life' = life /\ sock' = sock /\ silence' = silence /\ wire' = wire
        /\ elapsed' = elapsed /\ check' = check /\ safety' = safety /\ queue' = queue
        /\ login' = "heard" /\ farewell' = farewell
        /\ TypeOK /\ "server" \in Ends /\ "client" \in Ends /\ Other("client") = "server" /\ ~IsEcho
    BY TheEnds DEF HandleLoginRes, HandleLoginResProto, IsEcho, timeVars, checkVars, IInv
  <1>b. Handle("client", Response)
    BY DEF HandleLoginRes, HandleLoginResProto, Response
  <1>c. /\ tasks'["server"] = tasks["server"]
        /\ Range(tasks'["client"]) \subseteq Range(tasks["client"])
        /\ \A p \in Range(tasks["client"]) : p \in Range(tasks'["client"]) \/ p.id = Response
        /\ Has(tasks["client"], Response)
    BY <1>a, <1>b, HandleIs
  <1>d. Calm
    BY <1>a, <1>c, TheEnds DEF Calm, Flows, TypeOK
  <1>e. /\ \A x \in Ends : (Listens(x)' <=> Listens(x)) /\ (Started(x)' <=> Started(x))
        /\ (IsEcho' <=> IsEcho) /\ Request' = Request /\ Response' = Response
        /\ Response \notin {"S_PING", "S_DISCONNECT"}
    BY <1>a DEF Listens, Started, IsEcho, Request, Response
  <1>f. login # "asked" /\ ~Has(wire["server"], Request) /\ ~Has(tasks["server"], Request)
        /\ Started("client")
    BY <1>a, <1>c DEF IInv, AskedOnce
  <1>1. Connecting' /\ InTime' /\ EndOfStream'
    BY <1>d, CalmKeeps
  <1>2. ServerHears' /\ ClientHears'
    BY <1>a, <1>c, <1>d, <1>e, CalmHears
  <1>3. SafetyIsRedundant'
    BY <1>a, <1>c, <1>d, <1>e, CalmSafety DEF SafetyIsRedundant
  <1>4. AskedOnce'
    BY <1>a, <1>c, <1>e, <1>f DEF IInv, AskedOnce
  <1>5. FarewellFollows'
    <2>1. ~Has(tasks["client"], "S_DISCONNECT") => ~Has(tasks'["client"], "S_DISCONNECT")
      BY <1>c DEF Has
    <2> QED
      BY <1>a, <1>e, <2>1 DEF IInv, FarewellFollows
  <1>6. AnswerIsComing' /\ FarewellComesLast'
    BY <1>a DEF AnswerIsComing, FarewellComesLast
  <1> QED
    BY <1>1, <1>2, <1>3, <1>4, <1>5, <1>6 DEF IInv

\* The client answers a ping: where the ping was, a pong is on its way to the server.
LEMMA HandlePingKeeps ==
    ASSUME IInv, TypeOK', HandlePing
    PROVE  IInv'
  <1>a. /\ program' = program /\ life' = life /\ sock' = sock /\ silence' = silence
        /\ elapsed' = elapsed /\ check' = check /\ safety' = safety
        /\ login' = login /\ farewell' = farewell
        /\ TypeOK /\ "server" \in Ends /\ "client" \in Ends /\ Other("client") = "server"
        /\ Send("client", "C_PONG") /\ Handle("client", "S_PING")
    BY TheEnds DEF HandlePing, timeVars, checkVars, goalVars, IInv
  <1>b. Fresh("C_PONG") \in Packet /\ Fresh("C_PONG").id = "C_PONG" /\ Fresh("C_PONG").age = 0
    BY PacketIds DEF Fresh
  <1>c. /\ life["client"] = "up"
        /\ tasks'["server"] = tasks["server"]
        /\ Range(tasks'["client"]) \subseteq Range(tasks["client"])
        /\ \A p \in Range(tasks["client"]) : p \in Range(tasks'["client"]) \/ p.id = "S_PING"
        /\ tasks["client"] \in Seq(Packet) /\ tasks'["client"] \in Seq(Packet)
        /\ \E i \in DOMAIN tasks["client"] :
              tasks["client"][i].id = "S_PING" /\ tasks'["client"] = Without(tasks["client"], i)
    <2>1. /\ life["client"] = "up"
          /\ tasks'["server"] = tasks["server"]
          /\ Range(tasks'["client"]) \subseteq Range(tasks["client"])
          /\ \A p \in Range(tasks["client"]) : p \in Range(tasks'["client"]) \/ p.id = "S_PING"
      BY <1>a, HandleIs
    <2>2. \E i \in DOMAIN tasks["client"] :
             tasks["client"][i].id = "S_PING" /\ tasks'["client"] = Without(tasks["client"], i)
      BY <1>a, HandleIs
    <2> QED
      BY <1>a, <2>1, <2>2 DEF TypeOK
  <1>d. /\ wire'["client"] = wire["client"]
        /\ Connected /\ Writable("client")' => Fresh("C_PONG") \in Range(wire'["server"])
        /\ wire'["server"] = wire["server"] \/ wire'["server"] = Append(wire["server"], Fresh("C_PONG"))
        /\ wire["server"] \in Seq(Packet)
        /\ Range(wire["server"]) \subseteq Range(wire'["server"])
        /\ \A x \in Ends : Flows(queue'[x]) => Flows(queue[x])
    <2>1. /\ wire'["client"] = wire["client"]
          /\ Connected /\ Writable("client")' => Fresh("C_PONG") \in Range(wire'["server"])
          /\ wire'["server"] = wire["server"] \/ wire'["server"] = Append(wire["server"], Fresh("C_PONG"))
      BY <1>a, <1>b, SendIs
    <2>2. /\ wire["server"] \in Seq(Packet)
          /\ Range(wire["server"]) \subseteq Range(wire'["server"])
          /\ \A x \in Ends : Flows(queue'[x]) => Flows(queue[x])
      BY <1>a, <1>b, SendIs
    <2> QED
      BY <2>1, <2>2
  <1>e. Calm
    <2>1. \A x \in Ends : Range(tasks'[x]) \subseteq Range(tasks[x]) /\ elapsed'[x] <= elapsed[x]
      BY <1>a, <1>c, TheEnds DEF TypeOK
    <2>2. /\ \A x \in Ends :
                /\ Range(wire[x]) \subseteq Range(wire'[x])
                /\ \A p \in Range(wire'[x]) : p \in Range(wire[x]) \/ (p.age = 0 /\ p.id # "FIN")
                /\ Flows(queue'[x]) => Flows(queue[x])
          /\ Connected \/ wire' = wire
      BY <1>a, <1>b, SendingIsCalm
    <2> QED
      BY <1>a, <2>1, <2>2 DEF Calm
  <1>f. /\ \A x \in Ends : (Listens(x)' <=> Listens(x)) /\ (Working(x)' <=> Working(x)) /\ (Started(x)' <=> Started(x))
        /\ (IsEcho' <=> IsEcho) /\ Request' = Request /\ Response' = Response /\ (Connected' <=> Connected)
        /\ Response # "S_PING"
    BY <1>a DEF Listens, Working, Started, IsEcho, Request, Response, Connected
  <1>1. Connecting' /\ InTime' /\ EndOfStream'
    BY <1>e, CalmKeeps
  <1>2. ServerHears'
    <2> SUFFICES ASSUME Listens("client"), Working("server"), ~IsEcho, Writable("client")', Writable("server")'
                 PROVE  \/ silence["server"] + Interval + MaxLate + 2 * MaxDelay <= Timeout + elapsed["server"]
                        \/ \E p \in Range(wire'["client"]) \union Range(tasks'["client"]) :
                              p.id = "S_PING" /\ silence["server"] + 2 * MaxDelay <= Timeout + p.age
                        \/ \E p \in Range(wire'["server"]) : silence["server"] + MaxDelay <= Timeout + p.age
      BY <1>a, <1>f DEF ServerHears
    <2>0. Writable("client") /\ Writable("server")
      BY <1>a, <1>d DEF Flows, Writable
    <2>1. \/ silence["server"] + Interval + MaxLate + 2 * MaxDelay <= Timeout + elapsed["server"]
          \/ \E p \in Range(wire["client"]) \union Range(tasks["client"]) :
                p.id = "S_PING" /\ silence["server"] + 2 * MaxDelay <= Timeout + p.age
          \/ \E p \in Range(wire["server"]) : silence["server"] + MaxDelay <= Timeout + p.age
      BY <2>0 DEF IInv, ServerHears
    <2>2. Fresh("C_PONG") \in Range(wire'["server"])
      BY <1>d, TheEnds DEF Connected, Listens, Working
    <2>3. ASSUME NEW p \in Range(tasks["client"]), silence["server"] + 2 * MaxDelay <= Timeout + p.age
          PROVE  silence["server"] + MaxDelay <= Timeout + 0
      <3>1. p.age <= MaxDelay
        BY <1>a, <1>c DEF IInv, InTime
      <3>2. p.age \in Nat
        BY <1>c, RangeIs DEF Packet
      <3>3. silence["server"] \in Nat
        BY <1>a DEF TypeOK
      <3> QED
        BY <2>3, <3>1, <3>2, <3>3, Times
    <2> QED
      BY <1>b, <1>c, <1>d, <2>1, <2>2, <2>3
  <1>3. ClientHears'
    <2>1. Writable("server")' => Writable("server")
      BY <1>a, <1>d DEF Flows, Writable
    <2> QED
      BY <1>a, <1>d, <1>f, <2>1 DEF IInv, ClientHears
  <1>4. SafetyIsRedundant'
    BY <1>a, <1>c, <1>e, CalmSafety DEF SafetyIsRedundant
  <1>5. AskedOnce'
    <2> SUFFICES ASSUME ~IsEcho PROVE AskedOnce'
      BY <1>f DEF AskedOnce
    <2>1. Request # "C_PONG"
      BY DEF Request, IsEcho, IInv, TypeOK
    <2>2. /\ Has(wire'["server"], Request) <=> Has(wire["server"], Request)
          /\ Sole(wire["server"], Request) => Sole(wire'["server"], Request)
      <3>1. /\ Has(Append(wire["server"], Fresh("C_PONG")), Request) <=> Has(wire["server"], Request)
            /\ Sole(wire["server"], Request) => Sole(Append(wire["server"], Fresh("C_PONG")), Request)
        BY <1>b, <1>d, <2>1, AppendOrder
      <3> QED
        BY <1>d, <3>1
    <2>3. \A p \in Range(wire'["server"]) : p \in Range(wire["server"]) \/ p.id = "C_PONG"
      <3>1. Range(wire'["server"]) \subseteq Range(wire["server"]) \union {Fresh("C_PONG")}
        BY <1>a, <1>b, SendIs
      <3> QED
        BY <1>b, <3>1
    <2>4. Has(tasks'["client"], Response) => Has(tasks["client"], Response)
      BY <1>c DEF Has
    <2> QED
      BY <1>a, <1>c, <1>d, <1>f, <2>2, <2>3, <2>4 DEF IInv, AskedOnce
  <1>6. Has(tasks["client"], Response) => Has(tasks'["client"], Response)
    BY <1>c, <1>f DEF Has
  <1>7. AnswerIsComing'
    <2>1. Writable("server")' => Writable("server")
      BY <1>a, <1>d DEF Flows, Writable
    <2> QED
      BY <1>a, <1>d, <1>f, <1>6, <2>1 DEF IInv, AnswerIsComing
  <1>8. FarewellFollows'
    <2>1. ~Has(tasks["client"], "S_DISCONNECT") => ~Has(tasks'["client"], "S_DISCONNECT")
      BY <1>c DEF Has
    <2>2. \A k \in DOMAIN tasks'["client"] : \E m \in DOMAIN tasks["client"] :
             /\ tasks'["client"][k] = tasks["client"][m]
             /\ Precedes(Response, tasks["client"], m) => Precedes(Response, tasks'["client"], k)
      <3>1. PICK i \in DOMAIN tasks["client"] :
               tasks["client"][i].id = "S_PING" /\ tasks'["client"] = Without(tasks["client"], i)
        BY <1>c
      <3>2. \A k \in DOMAIN Without(tasks["client"], i) : \E m \in DOMAIN tasks["client"] :
               /\ Without(tasks["client"], i)[k] = tasks["client"][m]
               /\ Precedes(Response, tasks["client"], m) => Precedes(Response, Without(tasks["client"], i), k)
        BY <1>c, <1>f, <3>1, WithoutOrder
      <3> QED
        BY <3>1, <3>2
    <2> QED
      BY <1>a, <1>d, <1>f, <1>6, <2>1, <2>2 DEF IInv, FarewellFollows
  <1>9. FarewellComesLast'
    BY <1>a DEF IInv, FarewellComesLast
  <1> QED
    BY <1>1, <1>2, <1>3, <1>4, <1>5, <1>7, <1>8, <1>9 DEF IInv

\* A heartbeat that spares its session: the server's ping is a fresh sign of life.
LEMMA HeartbeatKeeps ==
    ASSUME IInv, TypeOK', NEW e \in Ends,
           (ScanSession(e) /\ check'[e] # "reap") \/ (Reap(e) /\ ~GivesUp(e))
    PROVE  IInv'
  <1>0. /\ TypeOK /\ elapsed \in [Ends -> Nat] /\ check \in [Ends -> {"idle", "read", "reap"}]
        /\ "server" \in Ends /\ "client" \in Ends /\ Other("server") = "client"
    BY TheEnds DEF IInv, TypeOK
  <1>1. /\ life[e] = "up" /\ check[e] # "idle" /\ Rearm(e)
        /\ UNCHANGED <<program, life, sock, tasks, silence, safety, login, farewell>>
    <2>1. CASE ScanSession(e) /\ check'[e] # "reap"
      BY <1>0, <2>1 DEF ScanSession, goalVars
    <2>2. CASE Reap(e) /\ ~GivesUp(e)
      BY <2>2 DEF Reap, GivesUp, goalVars
    <2> QED
      BY <2>1, <2>2
  <1>a. /\ program' = program /\ life' = life /\ sock' = sock /\ silence' = silence /\ tasks' = tasks
        /\ safety' = safety /\ login' = login /\ farewell' = farewell
        /\ TypeOK /\ "server" \in Ends /\ "client" \in Ends /\ Other("server") = "client"
        /\ life[e] = "up" /\ elapsed[e] >= Interval /\ elapsed' = [elapsed EXCEPT ![e] = @ - Interval]
        /\ check' = [check EXCEPT ![e] = "idle"]
    BY <1>0, <1>1 DEF Rearm, IInv, InTime
  <1>b. Fresh("S_PING") \in Packet /\ Fresh("S_PING").id = "S_PING" /\ Fresh("S_PING").age = 0
    BY PacketIds DEF Fresh
  <1>c. \/ e = "server" /\ Send("server", "S_PING")
        \/ /\ wire' = wire /\ queue' = queue
           /\ ~(e = "server" /\ sock["server"] \in {"added", "open"} /\ ~IsEcho)
    <2>1. CASE ScanSession(e) /\ check'[e] # "reap"
      <3>1. check'[e] = "idle"
        BY <1>0, <1>a
      <3>2. \/ SendHeartbeat(e)
            \/ sock[e] \notin {"added", "open"} /\ UNCHANGED <<wire, queue>>
        BY <1>0, <2>1 DEF ScanSession
      <3> QED
        BY <3>2 DEF SendHeartbeat
    <2>2. CASE Reap(e) /\ ~GivesUp(e)
      BY <2>2 DEF Reap, GivesUp
    <2> QED
      BY <1>a, <2>1, <2>2
  <1>d. /\ wire'["server"] = wire["server"]
        /\ wire["client"] \in Seq(Packet) /\ Range(wire["client"]) \subseteq Range(wire'["client"])
        /\ wire'["client"] = wire["client"] \/ wire'["client"] = Append(wire["client"], Fresh("S_PING"))
        /\ \A x \in Ends : Flows(queue'[x]) => Flows(queue[x])
        /\ \A x \in Ends : Writable(x)' => Writable(x)
    <2>1. CASE wire' = wire /\ queue' = queue
      BY <1>a, <2>1 DEF TypeOK, Writable
    <2>2. CASE Send("server", "S_PING")
      <3>1. /\ wire'["server"] = wire["server"] /\ wire["client"] \in Seq(Packet)
            /\ Range(wire["client"]) \subseteq Range(wire'["client"])
            /\ \A x \in Ends : Flows(queue'[x]) => Flows(queue[x])
        BY <1>a, <1>b, <2>2, SendIs
      <3>2. wire'["client"] = wire["client"] \/ wire'["client"] = Append(wire["client"], Fresh("S_PING"))
        BY <1>a, <1>b, <2>2, SendIs
      <3> QED
        BY <3>1, <3>2 DEF Flows, Writable
    <2> QED
      BY <1>c, <2>1, <2>2
  <1>e. ASSUME e = "server", Connected, sock["server"] # "linked", ~IsEcho, Writable("server")'
        PROVE  Fresh("S_PING") \in Range(wire'["client"])
    <2>1. sock["server"] \in {"added", "open"}
      BY <1>a, <1>e DEF Connected, Listens
    <2> QED
      BY <1>a, <1>b, <1>c, <1>e, <2>1, SendIs
  <1>f. /\ elapsed[e] \in Nat /\ elapsed[e] <= Interval + MaxLate
        /\ elapsed'[e] = elapsed[e] - Interval /\ elapsed'[e] \in Nat /\ elapsed'[e] <= elapsed[e]
        /\ \A x \in Ends : x # e => elapsed'[x] = elapsed[x]
    <2>1. elapsed \in [Ends -> Nat]
      BY <1>a DEF TypeOK
    <2>2. elapsed[e] <= Interval + MaxLate
      BY <1>a DEF IInv, InTime
    <2>3. elapsed'[e] = elapsed[e] - Interval /\ \A x \in Ends : x # e => elapsed'[x] = elapsed[x]
      BY <1>a, <2>1
    <2>4. elapsed[e] \in Nat /\ Interval \in Nat
      BY <2>1, Times
    <2>5. elapsed'[e] \in Nat /\ elapsed'[e] <= elapsed[e]
      BY <1>a, <2>3, <2>4
    <2> QED
      BY <2>2, <2>3, <2>4, <2>5
  <1>g. Calm
    <2>1. \A x \in Ends : elapsed'[x] <= elapsed[x]
      <3>1. \A x \in Ends : elapsed[x] \in Nat
        BY <1>a DEF TypeOK
      <3> QED
        BY <1>f, <3>1
    <2>2. /\ \A x \in Ends :
                /\ Range(wire[x]) \subseteq Range(wire'[x])
                /\ \A p \in Range(wire'[x]) : p \in Range(wire[x]) \/ (p.age = 0 /\ p.id # "FIN")
          /\ Connected \/ wire' = wire
      BY <1>a, <1>b, <1>c, SendingIsCalm
    <2>3. \A x \in Ends : check'[x] = "idle" \/ (check'[x] = check[x] /\ elapsed'[x] = elapsed[x])
      BY <1>0, <1>a, <1>f
    <2> QED
      BY <1>a, <1>d, <2>1, <2>2, <2>3 DEF Calm
  <1>h. /\ \A x \in Ends : (Listens(x)' <=> Listens(x)) /\ (Working(x)' <=> Working(x)) /\ (Started(x)' <=> Started(x))
        /\ (IsEcho' <=> IsEcho) /\ Request' = Request /\ Response' = Response /\ (Connected' <=> Connected)
        /\ Response \notin {"S_PING", "S_DISCONNECT"}
    BY <1>a DEF Listens, Working, Started, IsEcho, Request, Response, Connected
  <1>9. Connecting' /\ InTime' /\ EndOfStream'
    BY <1>g, CalmKeeps
  <1>2. ServerHears' /\ ClientHears'
    <2>1. CASE e = "client"
      BY <1>a, <1>f, <1>g, <2>1, CalmHears
    <2>2. CASE e = "server"
      \* The ping will do, for the heartbeat was in time.
      <3>1. ServerHears'
        <4> SUFFICES ASSUME Listens("client"), Working("server"), ~IsEcho, Writable("client")', Writable("server")'
                     PROVE  \/ \E p \in Range(wire'["client"]) \union Range(tasks["client"]) :
                                  p.id = "S_PING" /\ silence["server"] + 2 * MaxDelay <= Timeout + p.age
                            \/ \E p \in Range(wire["server"]) : silence["server"] + MaxDelay <= Timeout + p.age
          BY <1>a, <1>d, <1>h DEF ServerHears
        <4>1. \/ silence["server"] + Interval + MaxLate + 2 * MaxDelay <= Timeout + elapsed["server"]
              \/ \E p \in Range(wire["client"]) \union Range(tasks["client"]) :
                    p.id = "S_PING" /\ silence["server"] + 2 * MaxDelay <= Timeout + p.age
              \/ \E p \in Range(wire["server"]) : silence["server"] + MaxDelay <= Timeout + p.age
          BY <1>a, <1>d DEF IInv, ServerHears
        <4>2. ASSUME silence["server"] + Interval + MaxLate + 2 * MaxDelay <= Timeout + elapsed["server"]
              PROVE  silence["server"] + 2 * MaxDelay <= Timeout + 0
          <5>1. silence["server"] \in Nat
            BY <1>a DEF TypeOK
          <5> QED
            BY <1>f, <2>2, <4>2, <5>1, Times
        <4>3. Connected /\ sock["server"] # "linked"
          BY TheEnds DEF Connected, Listens, Working
        <4> QED
          BY <1>b, <1>d, <1>e, <2>2, <4>1, <4>2, <4>3
      <3>2. ClientHears'
        <4> SUFFICES ASSUME Listens("server"), Working("client"), ~IsEcho, Writable("server")'
                     PROVE  \/ silence["client"] + Interval + MaxLate + MaxDelay <= Timeout + elapsed'["server"]
                            \/ \E p \in Range(wire'["client"]) : silence["client"] + MaxDelay <= Timeout + p.age
          BY <1>a, <1>h DEF ClientHears
        <4>1. silence["client"] \in Nat
          BY <1>a DEF TypeOK
        <4>2. CASE sock["server"] # "linked"
          <5>1. \/ silence["client"] + Interval + MaxLate + MaxDelay <= Timeout + elapsed["server"]
                \/ \E p \in Range(wire["client"]) : silence["client"] + MaxDelay <= Timeout + p.age
            BY <1>a, <1>d DEF IInv, ClientHears
          <5>2. ASSUME silence["client"] + Interval + MaxLate + MaxDelay <= Timeout + elapsed["server"]
                PROVE  silence["client"] + MaxDelay <= Timeout + 0
            BY <1>f, <2>2, <4>1, <5>2, Times
          <5>3. Connected
            BY TheEnds DEF Connected, Listens, Working
          <5> QED
            BY <1>b, <1>d, <1>e, <2>2, <4>2, <5>1, <5>2, <5>3
        <4>3. CASE sock["server"] = "linked"
          <5>2. silence["client"] = 0
            BY <4>3 DEF IInv, Connecting
          <5> QED
            BY <1>f, <2>2, <5>2, Times
        <4> QED
          BY <4>2, <4>3
      <3> QED
        BY <3>1, <3>2
    <2> QED
      BY <2>1, <2>2, TheEnds
  <1>3. SafetyIsRedundant'
    BY <1>a, <1>g, CalmSafety DEF SafetyIsRedundant
  <1>4. \A id : id # "S_PING" => (Has(wire'["client"], id) <=> Has(wire["client"], id))
    <2> SUFFICES ASSUME NEW id, id # "S_PING" PROVE Has(wire'["client"], id) <=> Has(wire["client"], id)
      OBVIOUS
    <2>1. Has(Append(wire["client"], Fresh("S_PING")), id) <=> Has(wire["client"], id)
      BY <1>b, <1>d, AppendOrder
    <2> QED
      BY <1>d, <2>1
  <1>5. AskedOnce'
    BY <1>a, <1>d, <1>h, <1>4 DEF IInv, AskedOnce
  <1>6. AnswerIsComing'
    BY <1>a, <1>d, <1>h, <1>4 DEF IInv, AnswerIsComing
  <1>7. FarewellFollows'
    <2>1. \A i \in DOMAIN wire'["client"] : wire'["client"][i].id = "S_DISCONNECT" =>
             /\ i \in DOMAIN wire["client"] /\ wire["client"][i].id = "S_DISCONNECT"
             /\ Precedes(Response, wire["client"], i) => Precedes(Response, wire'["client"], i)
      <3>1. PICK q : q = Append(wire["client"], Fresh("S_PING"))
        OBVIOUS
      <3>2. /\ DOMAIN q = DOMAIN wire["client"] \union {Len(wire["client"]) + 1}
            /\ \A i \in DOMAIN wire["client"] : q[i] = wire["client"][i]
            /\ q[Len(wire["client"]) + 1] = Fresh("S_PING")
        BY <1>b, <1>d, <3>1, AppendIs
      <3>3. \A i \in DOMAIN wire["client"] :
               Precedes(Response, wire["client"], i) => Precedes(Response, q, i)
        BY <1>b, <1>d, <3>1, AppendOrder
      <3> QED
        BY <1>b, <1>d, <3>1, <3>2, <3>3
    <2> QED
      BY <1>a, <1>h, <1>4, <2>1 DEF IInv, FarewellFollows
  <1>8. FarewellComesLast'
    BY <1>a DEF IInv, FarewellComesLast
  <1> QED
    BY <1>2, <1>3, <1>5, <1>6, <1>7, <1>8, <1>9 DEF IInv

\* The farewell is sent, behind the answer if that was sent before, and a timer
\* begins to run with it.
LEMMA GracefulDisconnectKeeps ==
    ASSUME IInv, TypeOK', GracefulDisconnect
    PROVE  IInv'
  <1>a. /\ program' = program /\ life' = life /\ sock' = sock /\ silence' = silence /\ tasks' = tasks
        /\ elapsed' = elapsed /\ check' = check /\ safety' = safety \union {0} /\ login' = login
        /\ farewell = "none" /\ farewell' = IF login = "asked" THEN "early" ELSE "due"
        /\ TypeOK /\ "server" \in Ends /\ "client" \in Ends /\ Other("server") = "client"
        /\ ~IsEcho /\ life["server"] = "up" /\ Started("server")
        /\ Send("server", "S_DISCONNECT")
    BY TheEnds DEF GracefulDisconnect, checkVars, IInv
  <1>b. /\ Fresh("S_DISCONNECT") \in Packet /\ Fresh("S_DISCONNECT").id = "S_DISCONNECT"
        /\ Fresh("S_DISCONNECT").age = 0
    BY PacketIds DEF Fresh
  <1>c. /\ wire'["server"] = wire["server"] /\ wire["client"] \in Seq(Packet)
        /\ Connected /\ Writable("server")' => Fresh("S_DISCONNECT") \in Range(wire'["client"])
        /\ \/ /\ Connected /\ Writable("server")'
              /\ wire'["client"] = Append(wire["client"], Fresh("S_DISCONNECT"))
           \/ wire'["client"] = wire["client"]
        /\ Writable("server")' => Writable("server")
    <2>1. /\ wire'["server"] = wire["server"] /\ wire["client"] \in Seq(Packet)
          /\ Connected /\ Writable("server")' => Fresh("S_DISCONNECT") \in Range(wire'["client"])
      BY <1>a, <1>b, SendIs
    <2>2. /\ Connected /\ Writable("server")' =>
                wire'["client"] = Append(wire["client"], Fresh("S_DISCONNECT"))
          /\ (Connected /\ Writable("server")') \/ wire' = wire
      BY <1>a, <1>b, SendIs
    <2>3. Flows(queue'["server"]) => Flows(queue["server"])
      BY <1>a, <1>b, SendIs
    <2> QED
      BY <2>1, <2>2, <2>3 DEF Flows, Writable
  <1>d. Calm
    <2>1. \A x \in Ends : elapsed'[x] <= elapsed[x]
      BY <1>a DEF TypeOK
    <2>2. /\ \A x \in Ends :
                /\ Range(wire[x]) \subseteq Range(wire'[x])
                /\ \A p \in Range(wire'[x]) : p \in Range(wire[x]) \/ (p.age = 0 /\ p.id # "FIN")
                /\ Flows(queue'[x]) => Flows(queue[x])
          /\ Connected \/ wire' = wire
      BY <1>a, <1>b, SendingIsCalm
    <2> QED
      BY <1>a, <2>1, <2>2 DEF Calm
  <1>e. /\ \A x \in Ends : (Listens(x)' <=> Listens(x)) /\ (Working(x)' <=> Working(x)) /\ (Started(x)' <=> Started(x))
        /\ (IsEcho' <=> IsEcho) /\ Request' = Request /\ Response' = Response /\ (Connected' <=> Connected)
        /\ Response \notin {"S_PING", "S_DISCONNECT"}
    BY <1>a DEF Listens, Working, Started, IsEcho, Request, Response, Connected
  <1>f. ~Has(wire["client"], "S_DISCONNECT") /\ ~Has(tasks["client"], "S_DISCONNECT")
        /\ life["client"] # "exited"
    BY <1>a DEF IInv, FarewellFollows
  <1>1. Connecting' /\ InTime' /\ EndOfStream'
    BY <1>d, CalmKeeps
  <1>2. ServerHears' /\ ClientHears'
    BY <1>a, <1>d, CalmHears
  <1>3. SafetyIsRedundant'
    <2>1. ASSUME Working("server"), life["client"] # "gone", Writable("server")'
          PROVE  \/ Listens("client") /\ HasSince(wire'["client"], "S_DISCONNECT", 0)
                 \/ /\ ~Listens("client")
                    /\ \E p \in Range(wire'["server"]) : p.id = "FIN" /\ 0 <= p.age + MaxDelay
      <3>1. CASE Listens("client")
        <4>1. Fresh("S_DISCONNECT") \in Range(wire'["client"])
          BY <1>c, <2>1, <3>1, TheEnds DEF Connected, Listens, Working
        <4>2. Fresh("S_DISCONNECT").age >= 0
          BY <1>b
        <4> QED
          BY <1>b, <3>1, <4>1, <4>2 DEF HasSince
      <3>2. CASE ~Listens("client")
        <4>1. Has(wire["server"], "FIN")
          BY <2>1, <3>2 DEF IInv, EndOfStream, Listens, Working
        <4>2. PICK p \in Range(wire["server"]) : p.id = "FIN"
          BY <4>1 DEF Has
        <4>3. p.age \in Nat
          BY <1>a, <4>2, RangeIs DEF TypeOK, Packet
        <4>4. 0 <= p.age + MaxDelay
          BY <4>3, Times
        <4> QED
          BY <1>c, <3>2, <4>2, <4>4
      <3> QED
        BY <3>1, <3>2
    <2>2. \A a \in safety :
             /\ ~IsEcho' /\ Started("server")'
             /\ Working("server")' /\ life'["client"] # "gone" /\ Writable("server")' =>
                   \/ /\ Listens("client")'
                      /\ \/ HasSince(wire'["client"], "S_DISCONNECT", a)
                         \/ HasSince(tasks'["client"], "S_DISCONNECT", a)
                   \/ /\ ~Listens("client")'
                      /\ \E p \in Range(wire'["server"]) : p.id = "FIN" /\ a <= p.age + MaxDelay
      BY <1>a, <1>d, CalmSafety
    <2> QED
      BY <1>a, <1>e, <2>1, <2>2 DEF SafetyIsRedundant
  <1>4. Has(wire'["client"], Response) <=> Has(wire["client"], Response)
    <2>1. Has(Append(wire["client"], Fresh("S_DISCONNECT")), Response) <=> Has(wire["client"], Response)
      BY <1>b, <1>c, <1>e, AppendOrder
    <2> QED
      BY <1>c, <2>1
  <1>5. AskedOnce'
    BY <1>a, <1>c, <1>e, <1>4 DEF IInv, AskedOnce
  <1>6. AnswerIsComing'
    BY <1>a, <1>c, <1>e, <1>4 DEF IInv, AnswerIsComing
  <1>7. FarewellFollows'
    <2>1. ASSUME NEW i \in DOMAIN wire'["client"], wire'["client"][i].id = "S_DISCONNECT", login = "answered"
          PROVE  Precedes(Response, wire'["client"], i) \/ Has(tasks["client"], Response)
      <3>1. CASE wire'["client"] = wire["client"]
        <4>1. wire["client"][i] \in Range(wire["client"])
          BY <1>c, <2>1, <3>1, RangeIs
        <4> QED
          BY <1>c, <1>f, <2>1, <3>1, <4>1 DEF Has
      <3>2. CASE /\ Connected /\ Writable("server")'
                 /\ wire'["client"] = Append(wire["client"], Fresh("S_DISCONNECT"))
        <4>1. PICK q : q = Append(wire["client"], Fresh("S_DISCONNECT"))
          OBVIOUS
        <4>2. /\ DOMAIN q = DOMAIN wire["client"] \union {Len(wire["client"]) + 1}
              /\ \A j \in DOMAIN wire["client"] : q[j] = wire["client"][j] /\ wire["client"][j] \in Range(wire["client"])
          BY <1>b, <1>c, <4>1, AppendIs, RangeIs
        <4>3. i = Len(wire["client"]) + 1
          BY <1>c, <1>f, <2>1, <3>2, <4>1, <4>2 DEF Has
        <4>4. Has(wire["client"], Response) => Precedes(Response, q, i)
          BY <1>b, <1>c, <4>1, <4>3, AppendOrder
        <4>5. Has(wire["client"], Response) \/ Has(tasks["client"], Response)
          BY <1>a, <1>c, <2>1, <3>2 DEF IInv, AnswerIsComing
        <4> QED
          BY <1>c, <3>2, <4>1, <4>4, <4>5
      <3> QED
        BY <1>c, <3>1, <3>2
    <2>2. \A i \in DOMAIN tasks["client"] : tasks["client"][i].id # "S_DISCONNECT"
      BY <1>a, <1>f, RangeIs DEF Has, TypeOK
    <2> QED
      BY <1>a, <1>e, <1>f, <2>1, <2>2 DEF FarewellFollows
  <1>8. FarewellComesLast'
    BY <1>a, <1>f DEF FarewellComesLast
  <1> QED
    BY <1>1, <1>2, <1>3, <1>5, <1>6, <1>7, <1>8 DEF IInv

\* A safety timer that has nothing left to force, a write that is over, and a
\* heartbeat that has read the clock or put its session on the list of the dead.
LEMMA QuietSteps ==
    ASSUME IInv, TypeOK', NEW e \in Ends,
           \/ SafetyTimer /\ forced
           \/ WriteCompletes(e)
           \/ ReadClock(e)
           \/ ScanSession(e) /\ check'[e] = "reap"
    PROVE  IInv'
  <1>0. /\ TypeOK /\ elapsed \in [Ends -> Nat] /\ queue \in [Ends -> QueueStates]
        /\ check \in [Ends -> {"idle", "read", "reap"}]
    BY DEF IInv, TypeOK
  <1>1. /\ UNCHANGED <<program, life, sock, silence, wire, tasks, elapsed, login, farewell>>
        /\ safety' \subseteq safety
        /\ \A x \in Ends : check'[x] = check[x] \/ check[x] # "idle" \/ elapsed[x] >= Interval
        /\ \A x \in Ends : Flows(queue'[x]) => Flows(queue[x])
    <2>1. CASE SafetyTimer /\ forced
      BY <2>1 DEF SafetyTimer, SafetyDue, checkVars, goalVars
    <2>2. CASE WriteCompletes(e)
      BY <1>0, <2>2 DEF WriteCompletes, Flows, timeVars, checkVars, goalVars
    <2>3. CASE ReadClock(e)
      BY <1>0, <2>3 DEF ReadClock, dataVars, goalVars
    <2>4. CASE ScanSession(e) /\ check'[e] = "reap"
      <3>1. /\ check[e] = "read" /\ UNCHANGED <<program, life, sock, tasks, silence, safety, login, farewell>>
            /\ \/ check' = [check EXCEPT ![e] = "reap"] /\ UNCHANGED <<elapsed, since, wire, queue>>
               \/ check' = [check EXCEPT ![e] = "idle"]
        BY <2>4 DEF ScanSession, Rearm, goalVars
      <3>2. check' = [check EXCEPT ![e] = "reap"] /\ UNCHANGED <<elapsed, since, wire, queue>>
        BY <1>0, <2>4, <3>1
      <3> QED
        BY <1>0, <3>1, <3>2
    <2> QED
      BY <2>1, <2>2, <2>3, <2>4
  <1>2. Calm
    <2>1. \A x \in Ends : elapsed'[x] = elapsed[x] /\ elapsed'[x] <= elapsed[x]
      BY <1>0, <1>1
    <2> QED
      BY <1>1, <2>1 DEF Calm
  <1> QED
    BY <1>1, <1>2, QuietKeeps

------------------------------------------------------------------------------
(* Connecting, reading, and time.                                          *)

\* The two ends are connected, or the client gives up.
LEMMA ConnectKeeps ==
    ASSUME IInv, TypeOK', Connect
    PROVE  IInv'
  <1>a. /\ program' = program /\ life' = life /\ silence' = silence /\ wire' = wire /\ tasks' = tasks
        /\ elapsed' = elapsed /\ check' = check /\ safety' = safety /\ queue' = queue
        /\ login' = login /\ farewell' = farewell
        /\ TypeOK /\ sock["client"] = "none" /\ life["client"] = "up"
        /\ "server" \in Ends /\ "client" \in Ends
    BY TheEnds DEF Connect, dataVars, timeVars, checkVars, goalVars, IInv
  <1>b. /\ sock["server"] = "none" /\ silence["client"] = 0
        /\ \A x \in Ends : wire[x] = <<>> /\ tasks[x] = <<>>
    BY <1>a DEF IInv, Connecting
  <1>c. \/ sock'["client"] = "linked" /\ sock'["server"] = "linked"
        \/ sock'["client"] = "failed" /\ sock'["server"] = "none"
    BY <1>a, <1>b DEF Connect, TypeOK
  <1>d. (IsEcho' <=> IsEcho) /\ Request' = Request /\ Response' = Response
    BY <1>a DEF IsEcho, Request, Response
  <1>e. \A x \in Ends, id \in {"FIN", Request, Response, "S_DISCONNECT"} :
           ~Has(wire[x], id) /\ ~Has(tasks[x], id)
    BY <1>b, EmptyQueue DEF Has
  <1>1. Connecting'
    BY <1>a, <1>b, <1>c, TheEnds DEF Connecting
  <1>2. InTime'
    BY <1>a DEF IInv, InTime
  <1>3. ServerHears' /\ ClientHears'
    BY <1>c DEF ServerHears, ClientHears, Working
  <1>4. EndOfStream'
    BY <1>a, <1>c, <1>e, TheEnds DEF EndOfStream, Listens
  <1>5. SafetyIsRedundant'
    BY <1>a, <1>b DEF IInv, SafetyIsRedundant, Started
  <1>6. AskedOnce'
    <2>1. ~Started("client") /\ ~Started("client")'
      BY <1>a, <1>c DEF Started
    <2> QED
      BY <1>a, <1>d, <1>e, <2>1 DEF IInv, AskedOnce
  <1>7. AnswerIsComing'
    BY <1>a, <1>d DEF IInv, AskedOnce, AnswerIsComing, Started
  <1>8. FarewellFollows' /\ FarewellComesLast'
    BY <1>a, <1>d DEF IInv, FarewellFollows, FarewellComesLast
  <1> QED
    BY <1>1, <1>2, <1>3, <1>4, <1>5, <1>6, <1>7, <1>8 DEF IInv

\* A session is put into the registry.
LEMMA AddSessionKeeps ==
    ASSUME IInv, TypeOK', NEW e \in Ends, AddSession(e)
    PROVE  IInv'
  <1>a. /\ program' = program /\ life' = life /\ silence' = silence /\ wire' = wire /\ tasks' = tasks
        /\ elapsed' = elapsed /\ check' = check /\ safety' = safety /\ queue' = queue
        /\ login' = login /\ farewell' = farewell
        /\ sock[e] = "linked" /\ sock' = [sock EXCEPT ![e] = "added"]
    BY DEF AddSession, dataVars, timeVars, checkVars, goalVars
  <1>b. \A x \in Ends : sock'[x] = sock[x] \/ (sock[x] = "linked" /\ sock'[x] = "added")
    BY <1>a DEF IInv, TypeOK
  <1>c. /\ \A x \in Ends : (Listens(x)' <=> Listens(x)) /\ (Working(x)' <=> Working(x)) /\ (Started(x)' <=> Started(x))
        /\ \A x \in Ends : Writable(x)' <=> Writable(x)
        /\ (IsEcho' <=> IsEcho) /\ Request' = Request /\ Response' = Response /\ (Connected' <=> Connected)
    BY <1>a, <1>b DEF Listens, Working, Started, Writable, IsEcho, Request, Response, Connected
  <1>1. Connecting'
    <2>1. \A x \in Ends : /\ sock'[x] \in {"none", "failed"} <=> sock[x] \in {"none", "failed"}
                          /\ sock'[x] = "none" <=> sock[x] = "none"
                          /\ sock'[x] \in {"linked", "added"} <=> sock[x] \in {"linked", "added"}
                          /\ sock'[x] \in {"linked", "added", "cut"} <=> sock[x] \in {"linked", "added", "cut"}
      BY <1>b
    <2> QED
      BY <1>a, <1>c, <2>1, TheEnds DEF IInv, Connecting
  <1>2. InTime'
    BY <1>a DEF IInv, InTime
  <1>3. ServerHears' /\ ClientHears'
    BY <1>a, <1>c, TheEnds DEF IInv, ServerHears, ClientHears
  <1>4. EndOfStream' /\ SafetyIsRedundant'
    BY <1>a, <1>c, TheEnds DEF IInv, EndOfStream, SafetyIsRedundant
  <1>5. AskedOnce' /\ AnswerIsComing'
    BY <1>a, <1>c, TheEnds DEF IInv, AskedOnce, AnswerIsComing
  <1>6. FarewellFollows' /\ FarewellComesLast'
    BY <1>a, <1>c DEF IInv, FarewellFollows, FarewellComesLast
  <1> QED
    BY <1>1, <1>2, <1>3, <1>4, <1>5, <1>6 DEF IInv

\* A session has started, and the client's sends the request, unless the heartbeat
\* has closed it.
LEMMA StartSessionKeeps ==
    ASSUME IInv, TypeOK', NEW e \in Ends, StartSession(e)
    PROVE  IInv'
  <1>a. /\ program' = program /\ life' = life /\ tasks' = tasks
        /\ elapsed' = elapsed /\ check' = check /\ safety' = safety
        /\ login' = login /\ farewell' = farewell
        /\ TypeOK /\ "server" \in Ends /\ "client" \in Ends /\ Other("client") = "server"
        /\ life[e] = "up" /\ silence'[e] = 0
        /\ (sock[e] = "added" /\ sock'[e] = "open") \/ (sock[e] = "cut" /\ sock'[e] = "closed")
        /\ \A x \in Ends : x # e => sock'[x] = sock[x] /\ silence'[x] = silence[x]
        /\ (e = "client" /\ Send("client", Request)) \/ (e = "server" /\ UNCHANGED <<wire, queue>>)
    BY TheEnds DEF StartSession, checkVars, goalVars, IInv, TypeOK
  <1>b. /\ Fresh(Request) \in Packet /\ Fresh(Request).id = Request /\ Fresh(Request).age = 0
        /\ Request \notin {"FIN", "S_DISCONNECT", "S_PING"}
    BY <1>a, PacketIds DEF Fresh, Request, TypeOK
  <1>c. /\ wire["server"] \in Seq(Packet)
        /\ wire'["client"] = wire["client"]
        /\ wire'["server"] = wire["server"] \/ (e = "client" /\ wire'["server"] = Append(wire["server"], Fresh(Request)))
        /\ wire'["server"] = wire["server"] \/ Connected
        /\ \A x \in Ends : Writable(x)' => Writable(x)
    <2>1. CASE e = "client" /\ Send("client", Request)
      <3>1. /\ wire'["client"] = wire["client"]
            /\ wire'["server"] = wire["server"] \/ wire'["server"] = Append(wire["server"], Fresh(Request))
        BY <1>a, <1>b, <2>1, SendIs
      <3>2. /\ Connected \/ wire' = wire
            /\ \A x \in Ends : Flows(queue'[x]) => Flows(queue[x])
        BY <1>a, <1>b, <2>1, SendIs
      <3> QED
        BY <1>a, <2>1, <3>1, <3>2 DEF TypeOK, Flows, Writable
    <2>2. CASE UNCHANGED <<wire, queue>>
      BY <1>a, <2>2 DEF TypeOK, Writable
    <2> QED
      BY <1>a, <2>1, <2>2
  <1>d. Range(wire'["server"]) = Range(wire["server"]) \/ Range(wire'["server"]) = Range(wire["server"]) \union {Fresh(Request)}
    <2>1. CASE wire'["server"] = wire["server"]
      BY <2>1
    <2>2. CASE wire'["server"] = Append(wire["server"], Fresh(Request))
      <3>1. Range(Append(wire["server"], Fresh(Request))) = Range(wire["server"]) \union {Fresh(Request)}
        BY <1>b, <1>c, AppendIs
      <3> QED
        BY <2>2, <3>1
    <2> QED
      BY <1>c, <2>1, <2>2
  <1>e. /\ \A x \in Ends : (Listens(x)' <=> Listens(x)) /\ (Started(x) => Started(x)')
        /\ \A x \in Ends : x # e => (Working(x)' <=> Working(x)) /\ (Started(x)' <=> Started(x))
        /\ (IsEcho' <=> IsEcho) /\ Request' = Request /\ Response' = Response /\ (Connected' <=> Connected)
        /\ ~Started(e)
    BY <1>a DEF Listens, Working, Started, IsEcho, Request, Response, Connected
  <1>f. sock["client"] \notin {"none", "failed"}
    BY <1>a, TheEnds DEF IInv, Connecting
  <1>g. sock'["client"] \notin {"none", "failed"}
    BY <1>a, <1>f
  <1>1. Connecting'
    <2>1. \A x \in Ends : sock'[x] \in {"linked", "added", "cut"} => tasks'[x] = <<>>
      BY <1>a DEF IInv, Connecting
    <2>2. Listens("server") /\ sock'["server"] \in {"linked", "added"} => silence'["client"] = 0
      BY <1>a DEF IInv, Connecting
    <2> QED
      BY <1>a, <1>e, <1>g, <2>1, <2>2 DEF Connecting
  <1>2. InTime'
    <2>1. \A x \in Ends : \A p \in Range(wire'[x]) : p \in Range(wire[x]) \/ p.age = 0
      BY <1>b, <1>c, <1>d, TheEnds
    <2> QED
      BY <1>a, <2>1, Times DEF IInv, InTime
  <1>3. ServerHears'
    <2>1. CASE e = "server"
      <3>1. elapsed["server"] \in Nat
        BY <1>a DEF TypeOK
      <3>2. 0 + Interval + MaxLate + 2 * MaxDelay <= Timeout + elapsed["server"]
        BY <3>1, Times
      <3> QED
        BY <1>a, <2>1, <3>2 DEF ServerHears
    <2>2. CASE e = "client"
      BY <1>a, <1>c, <1>d, <1>e, <2>2 DEF IInv, ServerHears
    <2> QED
      BY <2>1, <2>2, TheEnds
  <1>4. ClientHears'
    <2>1. CASE e = "client"
      <3>1. elapsed["server"] \in Nat
        BY <1>a DEF TypeOK
      <3>2. 0 + Interval + MaxLate + MaxDelay <= Timeout + elapsed["server"]
        BY <3>1, Times
      <3> QED
        BY <1>a, <2>1, <3>2 DEF ClientHears
    <2>2. CASE e = "server"
      BY <1>a, <1>c, <1>e, <2>2 DEF IInv, ClientHears
    <2> QED
      BY <2>1, <2>2, TheEnds
  <1>5. EndOfStream'
    <2>1. \A x \in Ends : Has(wire'[x], "FIN") <=> Has(wire[x], "FIN")
      BY <1>b, <1>c, <1>d, TheEnds DEF Has
    <2> QED
      BY <1>a, <1>e, <2>1, TheEnds DEF IInv, EndOfStream
  <1>6. SafetyIsRedundant'
    <2> SUFFICES ASSUME NEW a \in safety
                 PROVE  /\ Started("server")'
                        /\ Working("server")' /\ life["client"] # "gone" /\ Writable("server")' =>
                              \/ /\ Listens("client")
                                 /\ \/ HasSince(wire["client"], "S_DISCONNECT", a)
                                    \/ HasSince(tasks["client"], "S_DISCONNECT", a)
                              \/ /\ ~Listens("client")
                                 /\ \E p \in Range(wire["server"]) : p.id = "FIN" /\ a <= p.age + MaxDelay
      BY <1>a, <1>c, <1>d, <1>e DEF SafetyIsRedundant, IInv
    <2>1. Started("server")
      BY DEF IInv, SafetyIsRedundant
    <2>2. e # "server" /\ Started("server")' /\ (Working("server")' => Working("server"))
      BY <1>a, <1>e, <2>1
    <2>3. Writable("server")' => Writable("server")
      BY <1>a, <1>c
    <2> QED
      BY <2>1, <2>2, <2>3 DEF IInv, SafetyIsRedundant
  <1>7. AskedOnce'
    <2> SUFFICES ASSUME ~IsEcho PROVE AskedOnce'
      BY <1>e DEF AskedOnce
    <2>1. CASE wire'["server"] = wire["server"]
      BY <1>a, <1>c, <1>e, <2>1, TheEnds DEF IInv, AskedOnce
    <2>2. CASE e = "client" /\ wire'["server"] = Append(wire["server"], Fresh(Request))
      <3>1. login = "asked" /\ ~Has(wire["server"], Request) /\ ~Has(tasks["server"], Request)
        BY <1>a, <1>e, <2>2 DEF IInv, AskedOnce
      <3>2. Sole(Append(wire["server"], Fresh(Request)), Request)
        BY <1>b, <1>c, <3>1, AppendOrder DEF IInv, AskedOnce
      <3>3. \A p \in Range(wire'["server"]) : p.id \in {Request, "C_PONG", "FIN"}
        BY <1>b, <1>d DEF IInv, AskedOnce
      <3>4. Started("client")'
        BY <1>a, <2>2 DEF Started
      <3>5. Sole(tasks["server"], Request) /\ \A p \in Range(tasks["server"]) : p.id \in {Request, "C_PONG", "FIN"}
        BY DEF IInv, AskedOnce
      <3>6. Has(wire["client"], Response) \/ Has(tasks["client"], Response) => login # "asked"
        BY DEF IInv, AskedOnce
      <3> QED
        BY <1>a, <1>c, <1>e, <2>2, <3>1, <3>2, <3>3, <3>4, <3>5, <3>6 DEF AskedOnce
    <2> QED
      BY <1>c, <2>1, <2>2
  <1>8. AnswerIsComing' /\ FarewellFollows' /\ FarewellComesLast'
    <2>1. Writable("server")' => Writable("server")
      BY <1>a, <1>c
    <2> QED
      BY <1>a, <1>c, <1>e, <2>1 DEF IInv, AnswerIsComing, FarewellFollows, FarewellComesLast
  <1> QED
    BY <1>1, <1>2, <1>3, <1>4, <1>5, <1>6, <1>7, <1>8 DEF IInv

\* An echo program reads.
LEMMA ReceiveEchoKeeps ==
    ASSUME IInv, TypeOK', NEW e \in Ends, ReceiveEcho(e)
    PROVE  IInv'
  <1>a. /\ program' = program /\ life' = life /\ sock' = sock /\ silence' = silence /\ tasks' = tasks
        /\ elapsed' = elapsed /\ check' = check /\ safety' = safety /\ login' \in {"answered", "heard"} /\ farewell' = farewell
        /\ TypeOK /\ "server" \in Ends /\ "client" \in Ends /\ IsEcho
        /\ sock[e] = "open" /\ wire[e] # <<>> /\ Head(wire[e]).id # "FIN" /\ wire[e] \in Seq(Packet)
    BY TheEnds DEF ReceiveEcho, timeVars, checkVars, IInv, TypeOK
  <1>b. /\ Fresh(Request) \in Packet /\ Fresh(Request).id = Request /\ Fresh(Request).age = 0
        /\ Request \notin {"FIN", "S_DISCONNECT", "S_PING"}
    BY <1>a, PacketIds DEF Fresh, Request, TypeOK
  <1>c. Range(wire[e]) = Range(Tail(wire[e])) \union {Head(wire[e])}
    BY <1>a, TailIs
  <1>d. /\ wire'[e] = Tail(wire[e])
        /\ \A x \in Ends : x # e => \/ wire'[x] = wire[x]
                                    \/ wire'[x] = Append(wire[x], Fresh(Request))
    <2>1. PICK q : q = Tail(wire[e])
      OBVIOUS
    <2>2. wire \in [Ends -> Seq(Packet)]
      BY <1>a DEF TypeOK
    <2>3. PICK rest : rest = [wire EXCEPT ![e] = q]
      OBVIOUS
    <2>4. rest[e] = q /\ \A x \in Ends : x # e => rest[x] = wire[x]
      BY <2>2, <2>3
    <2>5. CASE e = "server" /\ wire' = [rest EXCEPT !["client"] = Append(@, Fresh(Request))]
      <3>1. wire'["server"] = q /\ wire'["client"] = Append(wire["client"], Fresh(Request))
        BY <1>a, <2>2, <2>3, <2>4, <2>5
      <3> QED
        BY <2>1, <2>5, <3>1, TheEnds
    <2>6. CASE wire' = rest
      BY <2>1, <2>4, <2>6
    <2> QED
      BY <2>1, <2>3, <2>5, <2>6 DEF ReceiveEcho, Fresh
  <1>e. \A x \in Ends : /\ Range(wire[x]) \subseteq Range(Append(wire[x], Fresh(Request)))
                        /\ Range(Append(wire[x], Fresh(Request))) \subseteq Range(wire[x]) \union {Fresh(Request)}
    <2> SUFFICES ASSUME NEW x \in Ends
                 PROVE  /\ Range(wire[x]) \subseteq Range(Append(wire[x], Fresh(Request)))
                        /\ Range(Append(wire[x], Fresh(Request))) \subseteq Range(wire[x]) \union {Fresh(Request)}
      OBVIOUS
    <2>1. wire[x] \in Seq(Packet)
      BY <1>a DEF TypeOK
    <2>2. Range(Append(wire[x], Fresh(Request))) = Range(wire[x]) \union {Fresh(Request)}
      BY <1>b, <2>1, AppendIs
    <2> QED
      BY <2>2
  <1>f. \A x \in Ends :
           /\ \A p \in Range(wire[x]) : p \in Range(wire'[x]) \/ p.id # "FIN"
           /\ \A p \in Range(wire'[x]) : p \in Range(wire[x]) \/ p = Fresh(Request)
    BY <1>a, <1>c, <1>d, <1>e
  <1>g. /\ \A x \in Ends : (Listens(x)' <=> Listens(x)) /\ (Started(x)' <=> Started(x))
        /\ (IsEcho' <=> IsEcho)
    BY <1>a DEF Listens, Started, IsEcho
  <1>h. sock["client"] \notin {"none", "failed"}
    BY <1>a, TheEnds DEF IInv, Connecting
  <1>1. Connecting'
    BY <1>a, <1>g, <1>h, TheEnds DEF IInv, Connecting
  <1>2. InTime'
    BY <1>a, <1>b, <1>f, Times DEF IInv, InTime
  <1>3. EndOfStream'
    <2>1. \A x \in Ends : Has(wire'[x], "FIN") <=> Has(wire[x], "FIN")
      BY <1>b, <1>f DEF Has
    <2> QED
      BY <1>a, <1>g, <2>1, TheEnds DEF IInv, EndOfStream
  <1>4. SafetyIsRedundant'
    BY <1>a DEF IInv, SafetyIsRedundant
  <1>5. FarewellFollows'
    <2>1. ~Has(wire["client"], "S_DISCONNECT") => ~Has(wire'["client"], "S_DISCONNECT")
      BY <1>a, <1>b, <1>f DEF Has
    <2> QED
      BY <1>a, <1>g, <2>1 DEF IInv, FarewellFollows
  <1>6. ServerHears' /\ ClientHears' /\ AskedOnce' /\ AnswerIsComing'
    BY <1>a, <1>g DEF ServerHears, ClientHears, AskedOnce, AnswerIsComing
  <1>7. FarewellComesLast'
    BY <1>a DEF IInv, FarewellFollows, FarewellComesLast
  <1> QED
    BY <1>1, <1>2, <1>3, <1>4, <1>5, <1>6, <1>7 DEF IInv

\* A packet arrives: its end has been heard of, and a task is posted behind those
\* that wait.
LEMMA ReceiveKeeps ==
    ASSUME IInv, TypeOK', NEW e \in Ends, Receive(e)
    PROVE  IInv'
  <1>a. /\ program' = program /\ life' = life /\ sock' = sock
        /\ elapsed' = elapsed /\ check' = check /\ safety' = safety /\ queue' = queue
        /\ login' = login /\ farewell' = farewell
        /\ TypeOK /\ "server" \in Ends /\ "client" \in Ends /\ ~IsEcho
        /\ life[e] = "up" /\ sock[e] = "open" /\ silence'[e] = 0
        /\ \A x \in Ends : x # e => silence'[x] = silence[x]
    BY TheEnds DEF Receive, checkVars, goalVars, IInv, TypeOK
  <1>b. PICK head \in Packet : head = Head(wire[e]) /\ head.id # "FIN"
    BY HeadIsIn DEF Receive, IInv
  <1>c. /\ wire[e] \in Seq(Packet) /\ wire[e] # <<>> /\ tasks[e] \in Seq(Packet)
        /\ wire'[e] = Tail(wire[e]) /\ tasks'[e] = Append(tasks[e], head)
        /\ \A x \in Ends : x # e => wire'[x] = wire[x] /\ tasks'[x] = tasks[x]
    BY <1>b DEF Receive, IInv, TypeOK
  <1>d. /\ Range(wire[e]) = Range(wire'[e]) \union {head}
        /\ Range(tasks'[e]) = Range(tasks[e]) \union {head}
    BY <1>b, <1>c, TailIs, AppendIs
  <1>e. /\ \A x \in Ends : Listens(x)' <=> Listens(x)
        /\ \A x \in Ends : Working(x)' <=> Working(x)
        /\ \A x \in Ends : (Started(x)' <=> Started(x)) /\ (Writable(x)' <=> Writable(x))
        /\ (IsEcho' <=> IsEcho) /\ Request' = Request /\ Response' = Response /\ (Connected' <=> Connected)
    BY <1>a DEF Listens, Working, Started, Writable, IsEcho, Request, Response, Connected
  <1>f. sock["client"] \notin {"none", "failed"}
    BY <1>a, TheEnds DEF IInv, Connecting
  <1>1. Connecting'
    <2>1. \A x \in Ends : sock'[x] \in {"linked", "added", "cut"} => tasks'[x] = <<>>
      BY <1>a, <1>c DEF IInv, Connecting
    <2>2. Listens("server") /\ sock["server"] \in {"linked", "added"} => silence'["client"] = 0
      BY <1>a DEF IInv, Connecting
    <2> QED
      BY <1>a, <1>e, <1>f, <2>1, <2>2 DEF Connecting
  <1>2. InTime'
    <2>1. \A x \in Ends : Range(wire'[x]) \union Range(tasks'[x]) \subseteq Range(wire[x]) \union Range(tasks[x])
      BY <1>c, <1>d
    <2> QED
      BY <1>a, <2>1 DEF IInv, InTime
  <1>3. ServerHears'
    <2>1. CASE e = "server"
      <3>1. 0 + Interval + MaxLate + 2 * MaxDelay <= Timeout + elapsed["server"]
        <4>1. elapsed["server"] \in Nat
          BY <1>a DEF TypeOK
        <4> QED
          BY <4>1, Times
      <3> QED
        BY <1>a, <2>1, <3>1 DEF ServerHears
    <2>2. CASE e = "client"
      <3>1. /\ Range(wire'["client"]) \union Range(tasks'["client"]) = Range(wire["client"]) \union Range(tasks["client"])
            /\ wire'["server"] = wire["server"] /\ silence'["server"] = silence["server"]
        BY <1>a, <1>c, <1>d, <2>2
      <3> QED
        BY <1>a, <1>e, <3>1 DEF IInv, ServerHears
    <2> QED
      BY <2>1, <2>2, TheEnds
  <1>4. ClientHears'
    <2>1. CASE e = "client"
      <3>1. 0 + Interval + MaxLate + MaxDelay <= Timeout + elapsed["server"]
        <4>1. elapsed["server"] \in Nat
          BY <1>a DEF TypeOK
        <4> QED
          BY <4>1, Times
      <3> QED
        BY <1>a, <2>1, <3>1 DEF ClientHears
    <2>2. CASE e = "server"
      BY <1>a, <1>c, <1>e, <2>2 DEF IInv, ClientHears
    <2> QED
      BY <2>1, <2>2, TheEnds
  <1>5. EndOfStream'
    <2>1. \A x \in Ends : Has(wire'[x], "FIN") <=> Has(wire[x], "FIN")
      BY <1>b, <1>c, <1>d DEF Has
    <2> QED
      BY <1>a, <1>e, <2>1, TheEnds DEF IInv, EndOfStream
  <1>6. SafetyIsRedundant'
    <2>1. ASSUME NEW a \in safety,
                 HasSince(wire["client"], "S_DISCONNECT", a) \/ HasSince(tasks["client"], "S_DISCONNECT", a)
          PROVE  HasSince(wire'["client"], "S_DISCONNECT", a) \/ HasSince(tasks'["client"], "S_DISCONNECT", a)
      <3>1. Range(wire["client"]) \union Range(tasks["client"]) \subseteq Range(wire'["client"]) \union Range(tasks'["client"])
        BY <1>a, <1>c, <1>d
      <3> QED
        BY <2>1, <3>1 DEF HasSince
    <2>2. \A p \in Range(wire["server"]) : p.id = "FIN" => p \in Range(wire'["server"])
      BY <1>a, <1>b, <1>c, <1>d
    <2> QED
      BY <1>a, <1>e, <2>1, <2>2 DEF IInv, SafetyIsRedundant
  <1>7. AskedOnce'
    <2>1. CASE e = "server"
      <3>1. /\ Sole(wire[e], Request) /\ Sole(tasks[e], Request)
            /\ \A p \in Range(wire[e]) \union Range(tasks[e]) : p.id \in {Request, "C_PONG", "FIN"}
            /\ ~(Has(wire[e], Request) /\ Has(tasks[e], Request))
            /\ Has(wire[e], Request) \/ Has(tasks[e], Request) =>
                  login = "asked" /\ Started("client")
        BY <1>a, <2>1 DEF IInv, AskedOnce
      <3>2. /\ Sole(wire'[e], Request) /\ (head.id = Request => ~Has(wire'[e], Request))
            /\ Has(wire[e], Request) <=> Has(wire'[e], Request) \/ head.id = Request
        BY <1>b, <1>c, <3>1, TailOrder
      <3>3. /\ (head.id = Request => ~Has(tasks[e], Request)) => Sole(Append(tasks[e], head), Request)
            /\ Has(Append(tasks[e], head), Request) <=> Has(tasks[e], Request) \/ head.id = Request
        BY <1>c, <3>1, AppendOrder
      <3>4. Sole(tasks'[e], Request) /\ ~(Has(wire'[e], Request) /\ Has(tasks'[e], Request))
        BY <1>c, <3>1, <3>2, <3>3
      <3>5. \A p \in Range(wire'[e]) \union Range(tasks'[e]) : p.id \in {Request, "C_PONG", "FIN"}
        BY <1>d, <3>1
      <3>6. Has(wire'[e], Request) \/ Has(tasks'[e], Request) =>
               login = "asked" /\ Started("client")
        BY <1>c, <3>1, <3>2, <3>3
      <3> QED
        BY <1>a, <1>c, <1>e, <2>1, <3>2, <3>4, <3>5, <3>6 DEF IInv, AskedOnce
    <2>2. CASE e = "client"
      <3>1. Has(wire'[e], Response) \/ Has(tasks'[e], Response) => Has(wire[e], Response) \/ Has(tasks[e], Response)
        BY <1>d DEF Has
      <3> QED
        BY <1>a, <1>c, <1>e, <2>2, <3>1 DEF IInv, AskedOnce
    <2> QED
      BY <2>1, <2>2, TheEnds
  <1>8. AnswerIsComing'
    <2>1. Has(wire["client"], Response) \/ Has(tasks["client"], Response) =>
             Has(wire'["client"], Response) \/ Has(tasks'["client"], Response)
      BY <1>a, <1>c, <1>d DEF Has
    <2> QED
      BY <1>a, <1>e, <2>1 DEF IInv, AnswerIsComing
  <1>9. FarewellFollows'
    <2>1. CASE e = "server"
      BY <1>a, <1>c, <1>e, <2>1 DEF IInv, FarewellFollows
    <2>2. CASE e = "client"
      <3>1. /\ ~Has(wire[e], "S_DISCONNECT") /\ ~Has(tasks[e], "S_DISCONNECT") =>
                  ~Has(wire'[e], "S_DISCONNECT") /\ ~Has(tasks'[e], "S_DISCONNECT")
            /\ Has(tasks[e], Response) => Has(tasks'[e], Response)
            /\ head.id = Response => Has(tasks'[e], Response)
        BY <1>d DEF Has
      <3>2. ASSUME life["client"] = "up", farewell = "due", login = "answered"
            PROVE  /\ \A i \in DOMAIN tasks'[e] : tasks'[e][i].id = "S_DISCONNECT" =>
                         Precedes(Response, tasks'[e], i)
                   /\ \A i \in DOMAIN wire'[e] : wire'[e][i].id = "S_DISCONNECT" =>
                         Precedes(Response, wire'[e], i) \/ Has(tasks'[e], Response)
        <4>1. /\ \A i \in DOMAIN tasks[e] : tasks[e][i].id = "S_DISCONNECT" =>
                    Precedes(Response, tasks[e], i)
              /\ \A i \in DOMAIN wire[e] : wire[e][i].id = "S_DISCONNECT" =>
                    Precedes(Response, wire[e], i) \/ Has(tasks[e], Response)
          BY <2>2, <3>2 DEF IInv, FarewellFollows
        \* What the head of the wire is, the tasks' last becomes.
        <4>2. ASSUME head.id = "S_DISCONNECT" PROVE Has(tasks[e], Response)
          <5>1. 1 \in DOMAIN wire[e] /\ wire[e][1] = head
            BY <1>b, <1>c, TailIs
          <5>2. ~Precedes(Response, wire[e], 1)
            BY <1>c, TailOrder
          <5> QED
            BY <4>1, <4>2, <5>1, <5>2
        <4>3. PICK q : q = Append(tasks[e], head)
          OBVIOUS
        <4>4. /\ DOMAIN q = DOMAIN tasks[e] \union {Len(tasks[e]) + 1}
              /\ \A i \in DOMAIN tasks[e] : q[i] = tasks[e][i]
              /\ q[Len(tasks[e]) + 1] = head
          BY <1>c, <4>3, AppendIs
        <4>5. /\ \A i \in DOMAIN tasks[e] : Precedes(Response, tasks[e], i) => Precedes(Response, q, i)
              /\ Has(tasks[e], Response) => Precedes(Response, q, Len(tasks[e]) + 1)
          BY <1>c, <4>3, AppendOrder
        <4>6. \A i \in DOMAIN q : q[i].id = "S_DISCONNECT" => Precedes(Response, q, i)
          BY <4>1, <4>2, <4>4, <4>5
        <4>7. ASSUME NEW i \in DOMAIN Tail(wire[e]), Tail(wire[e])[i].id = "S_DISCONNECT"
              PROVE  Precedes(Response, Tail(wire[e]), i) \/ Has(tasks'[e], Response)
          <5>1. i + 1 \in DOMAIN wire[e] /\ Tail(wire[e])[i] = wire[e][i + 1]
            BY <1>c, TailIs
          <5>2. Precedes(Response, wire[e], i + 1) \/ Has(tasks[e], Response)
            BY <4>1, <4>7, <5>1
          <5>3. Precedes(Response, wire[e], i + 1) => head.id = Response \/ Precedes(Response, Tail(wire[e]), i)
            BY <1>b, <1>c, TailOrder
          <5> QED
            BY <3>1, <5>2, <5>3
        <4> QED
          BY <1>c, <4>3, <4>6, <4>7
      <3> QED
        BY <1>a, <1>e, <2>2, <3>1, <3>2 DEF IInv, FarewellFollows
    <2> QED
      BY <2>1, <2>2, TheEnds
  <1>10. FarewellComesLast'
    BY <1>a DEF IInv, FarewellComesLast
  <1> QED
    BY <1>1, <1>2, <1>3, <1>4, <1>5, <1>6, <1>7, <1>8, <1>9, <1>10 DEF IInv

\* Time passes: what was late enough to matter would have stopped the clock.
LEMMA TickKeeps ==
    ASSUME IInv, TypeOK', Tick
    PROVE  IInv'
  <1>a. /\ program' = program /\ life' = life /\ sock' = sock /\ login' = login /\ farewell' = farewell
        /\ TypeOK /\ "server" \in Ends /\ "client" \in Ends
        /\ wire' = [x \in Ends |-> Older(wire[x])]
        /\ tasks' = [x \in Ends |-> Older(tasks[x])] /\ queue' = queue
        /\ silence' = [x \in Ends |-> IF Listens(x) THEN silence[x] + 1 ELSE 0]
        /\ elapsed' = [x \in Ends |-> IF Beats(x) THEN elapsed[x] + 1 ELSE 0]
        /\ check' = [x \in Ends |-> IF Beats(x) THEN check[x] ELSE "idle"]
        /\ safety' = {a + 1 : a \in safety}
    BY TheEnds DEF Tick, goalVars, IInv
  <1>b. \A x \in Ends : life[x] = "up" =>
           /\ sock[x] \in {"none", "failed", "open", "released"}
           /\ Beats(x) => elapsed[x] < Interval + MaxLate
           /\ \A p \in Range(wire[x]) \union Range(tasks[x]) : p.age < MaxDelay
    BY DEF Tick
  <1>c. \A x \in Ends : wire[x] \in Seq(Packet) /\ tasks[x] \in Seq(Packet) /\ silence[x] \in Nat /\ elapsed[x] \in Nat
    BY <1>a DEF TypeOK
  <1>d. \A x \in Ends :
           /\ wire'[x] = Older(wire[x])
           /\ tasks'[x] = Older(tasks[x])
           /\ Beats(x) => elapsed'[x] = elapsed[x] + 1 /\ check'[x] = check[x]
           /\ ~Beats(x) => elapsed'[x] = 0 /\ check'[x] = "idle"
           /\ Listens(x) => silence'[x] = silence[x] + 1
           /\ ~Listens(x) => silence'[x] = 0
    BY <1>a
  <1>e. ASSUME NEW q \in Seq(Packet)
        PROVE  /\ \A p \in Range(q) : Aged(p) \in Range(Older(q)) /\ Aged(p).id = p.id /\ Aged(p).age = p.age + 1
               /\ \A p \in Range(Older(q)) : \E o \in Range(q) : p.id = o.id /\ p.age = o.age + 1
               /\ \A p \in Range(q) : p.age \in Nat
    <2>1. /\ \A p \in Range(q) : Aged(p) \in Range(Older(q)) /\ Aged(p).id = p.id /\ Aged(p).age = p.age + 1
          /\ \A p \in Range(Older(q)) : \E o \in Range(q) : p = Aged(o)
      BY OlderIs
    <2>2. \A p \in Range(q) : p.age \in Nat
      BY RangeIs DEF Packet
    <2> QED
      BY <2>1, <2>2
  <1>f. /\ \A x \in Ends : Listens(x)' <=> Listens(x)
        /\ \A x \in Ends : Working(x)' <=> Working(x)
        /\ \A x \in Ends : (Started(x)' <=> Started(x)) /\ (Writable(x)' <=> Writable(x))
        /\ \A x \in Ends : Listens(x) => Beats(x)
        /\ (IsEcho' <=> IsEcho) /\ Request' = Request /\ Response' = Response /\ (Connected' <=> Connected)
    BY <1>a DEF Listens, Working, Started, Writable, Beats, IsEcho, Request, Response, Connected
  <1>g. \A x \in Ends : \A id : Has(wire'[x], id) <=> Has(wire[x], id)
    BY <1>c, <1>d, OlderOrder
  <1>h. \A x \in Ends : \A id : Has(tasks'[x], id) <=> Has(tasks[x], id)
    BY <1>c, <1>d, OlderOrder
  <1>j. /\ Has(wire'["server"], Request) <=> Has(wire["server"], Request)
        /\ Has(tasks'["server"], Request) <=> Has(tasks["server"], Request)
        /\ Has(wire'["client"], Response) <=> Has(wire["client"], Response)
        /\ Has(tasks'["client"], Response) <=> Has(tasks["client"], Response)
        /\ Has(wire'["client"], "S_DISCONNECT") <=> Has(wire["client"], "S_DISCONNECT")
        /\ Has(tasks'["client"], "S_DISCONNECT") <=> Has(tasks["client"], "S_DISCONNECT")
    BY <1>a, <1>g, <1>h
  <1>i. Older(<<>>) = <<>>
    <2>1. <<>> \in Seq(Packet) /\ Range(<<>>) = {}
      BY EmptyQueue
    <2>2. Range(Older(<<>>)) = {} /\ Older(<<>>) \in Seq(Packet)
      BY <2>1, OlderIs
    <2> QED
      BY <2>2, NothingIn
  <1>1. Connecting'
    <2>1. /\ sock["client"] \in {"none", "failed"} =>
                /\ sock["server"] = "none" /\ silence["client"] = 0
                /\ \A e \in Ends : wire[e] = <<>> /\ tasks[e] = <<>>
          /\ \A e \in Ends : sock[e] \in {"linked", "added", "cut"} => tasks[e] = <<>>
      BY DEF IInv, Connecting
    <2>2. \A x \in Ends : tasks[x] = <<>> => tasks'[x] = <<>>
      BY <1>d, <1>i
    <2>3. sock["client"] \in {"none", "failed"} => silence'["client"] = 0
      BY <1>a, <1>d DEF Listens
    <2>4. ~(Listens("server") /\ sock["server"] \in {"linked", "added"})
      BY <1>a, <1>b DEF Listens
    <2> QED
      BY <1>a, <1>d, <1>f, <1>i, <2>1, <2>2, <2>3, <2>4 DEF Connecting
  <1>2. InTime'
    <2> SUFFICES ASSUME NEW x \in Ends, life[x] = "up"
                 PROVE  /\ elapsed'[x] <= Interval + MaxLate
                        /\ check'[x] # "idle" => elapsed'[x] >= Interval
                        /\ \A p \in Range(wire'[x]) \union Range(tasks'[x]) : p.age <= MaxDelay
      BY <1>a DEF InTime
    <2>0. check[x] # "idle" => elapsed[x] >= Interval
      BY DEF IInv, InTime
    <2>1. elapsed'[x] <= Interval + MaxLate /\ (check'[x] # "idle" => elapsed'[x] >= Interval)
      BY <1>b, <1>c, <1>d, <2>0, Times
    <2>2. ASSUME NEW p \in Range(wire'[x]) \union Range(tasks'[x]) PROVE p.age <= MaxDelay
      <3>1. PICK o \in Range(wire[x]) \union Range(tasks[x]) : p.age = o.age + 1 /\ o.age \in Nat
        BY <1>c, <1>d, <1>e, <2>2
      <3>2. o.age < MaxDelay
        BY <1>b, <3>1
      <3> QED
        BY <3>1, <3>2, Times
    <2> QED
      BY <2>1, <2>2
  <1>3. ServerHears'
    <2> SUFFICES ASSUME Listens("client"), Working("server"), ~IsEcho, Writable("client"), Writable("server")
                 PROVE  \/ silence'["server"] + Interval + MaxLate + 2 * MaxDelay <= Timeout + elapsed'["server"]
                        \/ \E p \in Range(wire'["client"]) \union Range(tasks'["client"]) :
                              p.id = "S_PING" /\ silence'["server"] + 2 * MaxDelay <= Timeout + p.age
                        \/ \E p \in Range(wire'["server"]) : silence'["server"] + MaxDelay <= Timeout + p.age
      BY <1>f, <1>a DEF ServerHears
    <2>1. /\ silence'["server"] = silence["server"] + 1 /\ elapsed'["server"] = elapsed["server"] + 1
          /\ tasks'["client"] = Older(tasks["client"]) /\ wire'["client"] = Older(wire["client"])
          /\ wire'["server"] = Older(wire["server"])
          /\ silence["server"] \in Nat /\ elapsed["server"] \in Nat
      BY <1>a, <1>c, <1>d, <1>f DEF Listens, Working
    <2>2. CASE silence["server"] + Interval + MaxLate + 2 * MaxDelay <= Timeout + elapsed["server"]
      BY <2>1, <2>2, Times
    <2>3. ASSUME NEW p \in Range(wire["client"]) \union Range(tasks["client"]),
                 p.id = "S_PING" /\ silence["server"] + 2 * MaxDelay <= Timeout + p.age
          PROVE  \E o \in Range(wire'["client"]) \union Range(tasks'["client"]) :
                    o.id = "S_PING" /\ silence'["server"] + 2 * MaxDelay <= Timeout + o.age
      <3>1. PICK o \in Range(wire'["client"]) \union Range(tasks'["client"]) :
               o.id = p.id /\ o.age = p.age + 1 /\ p.age \in Nat
        BY <1>a, <1>c, <1>e, <2>1, <2>3
      <3>2. silence'["server"] + 2 * MaxDelay <= Timeout + o.age
        BY <2>1, <2>3, <3>1, Times
      <3> QED
        BY <2>3, <3>1, <3>2
    <2>4. ASSUME NEW p \in Range(wire["server"]), silence["server"] + MaxDelay <= Timeout + p.age
          PROVE  \E o \in Range(wire'["server"]) : silence'["server"] + MaxDelay <= Timeout + o.age
      <3>1. PICK o \in Range(wire'["server"]) : o.age = p.age + 1 /\ p.age \in Nat
        BY <1>a, <1>c, <1>e, <2>1, <2>4
      <3>2. silence'["server"] + MaxDelay <= Timeout + o.age
        BY <2>1, <2>4, <3>1, Times
      <3> QED
        BY <3>2
    <2> QED
      BY <2>2, <2>3, <2>4 DEF IInv, ServerHears
  <1>4. ClientHears'
    <2> SUFFICES ASSUME Listens("server"), Working("client"), ~IsEcho, Writable("server")
                 PROVE  \/ silence'["client"] + Interval + MaxLate + MaxDelay <= Timeout + elapsed'["server"]
                        \/ \E p \in Range(wire'["client"]) : silence'["client"] + MaxDelay <= Timeout + p.age
      BY <1>f, <1>a DEF ClientHears
    <2>1. /\ silence'["client"] = silence["client"] + 1 /\ elapsed'["server"] = elapsed["server"] + 1
          /\ wire'["client"] = Older(wire["client"])
          /\ silence["client"] \in Nat /\ elapsed["server"] \in Nat
      BY <1>a, <1>c, <1>d, <1>f DEF Listens, Working
    <2>2. CASE silence["client"] + Interval + MaxLate + MaxDelay <= Timeout + elapsed["server"]
      BY <2>1, <2>2, Times
    <2>3. ASSUME NEW p \in Range(wire["client"]), silence["client"] + MaxDelay <= Timeout + p.age
          PROVE  \E o \in Range(wire'["client"]) : silence'["client"] + MaxDelay <= Timeout + o.age
      <3>1. PICK o \in Range(wire'["client"]) : o.age = p.age + 1 /\ p.age \in Nat
        BY <1>a, <1>c, <1>e, <2>1, <2>3
      <3>2. silence'["client"] + MaxDelay <= Timeout + o.age
        BY <2>1, <2>3, <3>1, Times
      <3> QED
        BY <3>2
    <2> QED
      BY <2>2, <2>3 DEF IInv, ClientHears
  <1>5. EndOfStream'
    BY <1>a, <1>f, <1>g, TheEnds DEF IInv, EndOfStream
  <1>6. SafetyIsRedundant'
    <2> SUFFICES ASSUME NEW b \in safety'
                 PROVE  /\ ~IsEcho /\ Started("server")
                        /\ Working("server") /\ life["client"] # "gone" /\ Writable("server") =>
                              \/ /\ Listens("client")
                                 /\ \/ HasSince(wire'["client"], "S_DISCONNECT", b)
                                    \/ HasSince(tasks'["client"], "S_DISCONNECT", b)
                              \/ /\ ~Listens("client")
                                 /\ \E p \in Range(wire'["server"]) : p.id = "FIN" /\ b <= p.age + MaxDelay
      BY <1>a, <1>f DEF SafetyIsRedundant
    <2>1. PICK a \in safety : b = a + 1 /\ a \in Nat
      BY <1>a DEF TypeOK
    <2>2. /\ ~IsEcho /\ Started("server")
          /\ Working("server") /\ life["client"] # "gone" /\ Writable("server") =>
                \/ /\ Listens("client")
                   /\ \/ HasSince(wire["client"], "S_DISCONNECT", a)
                      \/ HasSince(tasks["client"], "S_DISCONNECT", a)
                \/ /\ ~Listens("client")
                   /\ \E p \in Range(wire["server"]) : p.id = "FIN" /\ a <= p.age + MaxDelay
      BY DEF IInv, SafetyIsRedundant
    <2>3. ASSUME NEW q \in Seq(Packet), HasSince(q, "S_DISCONNECT", a)
          PROVE  HasSince(Older(q), "S_DISCONNECT", b)
      <3>1. PICK p \in Range(q) : p.id = "S_DISCONNECT" /\ p.age >= a
        BY <2>3 DEF HasSince
      <3>2. Aged(p) \in Range(Older(q)) /\ Aged(p).id = p.id /\ Aged(p).age = p.age + 1 /\ p.age \in Nat
        BY <1>e, <3>1
      <3>3. Aged(p).age >= b
        BY <2>1, <3>1, <3>2
      <3> QED
        BY <3>1, <3>2, <3>3 DEF HasSince
    <2>4. ASSUME NEW p \in Range(wire["server"]), p.id = "FIN", a <= p.age + MaxDelay
          PROVE  \E o \in Range(wire'["server"]) : o.id = "FIN" /\ b <= o.age + MaxDelay
      <3>a. wire["server"] \in Seq(Packet) /\ wire'["server"] = Older(wire["server"])
        BY <1>a, <1>c, <1>d
      <3>b. /\ Aged(p) \in Range(Older(wire["server"]))
            /\ Aged(p).id = p.id /\ Aged(p).age = p.age + 1 /\ p.age \in Nat
        BY <1>e, <3>a
      <3>1. PICK o \in Range(wire'["server"]) : o.id = p.id /\ o.age = p.age + 1 /\ p.age \in Nat
        BY <3>a, <3>b
      <3>2. b <= o.age + MaxDelay
        BY <2>1, <2>4, <3>1, Times
      <3> QED
        BY <2>4, <3>1, <3>2
    <2> QED
      BY <1>a, <1>c, <1>d, <2>2, <2>3, <2>4
  <1>7. AskedOnce'
    <2> SUFFICES ASSUME ~IsEcho PROVE AskedOnce'
      BY <1>f DEF AskedOnce
    <2>1. Sole(<<>>, Request) /\ Range(<<>>) = {}
      BY EmptyQueue DEF Sole
    <2>2. Sole(wire'["server"], Request) /\ Sole(tasks'["server"], Request)
      BY <1>a, <1>c, <1>d, <2>1, OlderOrder DEF IInv, AskedOnce
    <2>3. \A p \in Range(wire'["server"]) \union Range(tasks'["server"]) : p.id \in {Request, "C_PONG", "FIN"}
      <3>1. \A p \in Range(wire["server"]) \union Range(tasks["server"]) : p.id \in {Request, "C_PONG", "FIN"}
        BY DEF IInv, AskedOnce
      <3>2. \A p \in Range(wire'["server"]) : \E o \in Range(wire["server"]) : p.id = o.id
        BY <1>a, <1>c, <1>d, <1>e
      <3>3. \A p \in Range(tasks'["server"]) : \E o \in Range(tasks["server"]) : p.id = o.id
        BY <1>a, <1>c, <1>d, <1>e, <2>1
      <3> QED
        BY <3>1, <3>2, <3>3
    <2>4. /\ Has(wire["server"], Request) \/ Has(tasks["server"], Request) =>
                login = "asked" /\ Started("client")
          /\ ~(Has(wire["server"], Request) /\ Has(tasks["server"], Request))
          /\ ~Started("client") => login = "asked"
          /\ Has(wire["client"], Response) \/ Has(tasks["client"], Response) => login # "asked"
      BY DEF IInv, AskedOnce
    <2> QED
      BY <1>a, <1>f, <1>j, <2>2, <2>3, <2>4 DEF AskedOnce
  <1>8. AnswerIsComing'
    BY <1>a, <1>f, <1>j DEF IInv, AnswerIsComing, Listens
  <1>9. FarewellFollows'
    <2>1. ASSUME life["client"] = "up", farewell = "due", login = "answered"
          PROVE  /\ \A i \in DOMAIN tasks'["client"] : tasks'["client"][i].id = "S_DISCONNECT" =>
                       Precedes(Response, tasks'["client"], i)
                 /\ \A i \in DOMAIN wire'["client"] : wire'["client"][i].id = "S_DISCONNECT" =>
                       Precedes(Response, wire'["client"], i) \/ Has(tasks'["client"], Response)
      <3>2. /\ \A i \in DOMAIN tasks["client"] : tasks["client"][i].id = "S_DISCONNECT" =>
                  Precedes(Response, tasks["client"], i)
            /\ \A i \in DOMAIN wire["client"] : wire["client"][i].id = "S_DISCONNECT" =>
                  Precedes(Response, wire["client"], i) \/ Has(tasks["client"], Response)
        BY <2>1 DEF IInv, FarewellFollows
      <3>3. \A q \in Seq(Packet) :
               /\ DOMAIN Older(q) = DOMAIN q
               /\ \A i \in DOMAIN q : /\ Older(q)[i].id = q[i].id
                                      /\ Precedes(Response, q, i) => Precedes(Response, Older(q), i)
        BY OlderIs, OlderOrder
      <3>4. \A i \in DOMAIN tasks'["client"] : tasks'["client"][i].id = "S_DISCONNECT" =>
               Precedes(Response, tasks'["client"], i)
        <4>1. tasks["client"] \in Seq(Packet) /\ tasks'["client"] = Older(tasks["client"])
          BY <1>a, <1>c, <1>d
        <4> QED
          BY <3>2, <3>3, <4>1
      <3>5. \A i \in DOMAIN wire'["client"] : wire'["client"][i].id = "S_DISCONNECT" =>
               Precedes(Response, wire'["client"], i) \/ Has(tasks'["client"], Response)
        <4>1. wire["client"] \in Seq(Packet) /\ wire'["client"] = Older(wire["client"])
          BY <1>a, <1>c, <1>d
        <4> QED
          BY <1>j, <3>2, <3>3, <4>1
      <3> QED
        BY <3>4, <3>5
    <2> QED
      BY <1>a, <1>f, <1>j, <2>1 DEF IInv, FarewellFollows
  <1>10. FarewellComesLast'
    BY <1>a DEF IInv, FarewellComesLast
  <1> QED
    BY <1>1, <1>2, <1>3, <1>4, <1>5, <1>6, <1>7, <1>8, <1>9, <1>10 DEF IInv

------------------------------------------------------------------------------
(* The theorems.                                                           *)

\* Before the connection nothing is on its way.
LEMMA InitHolds == Init => IInv
  <1> SUFFICES ASSUME Init PROVE IInv
    OBVIOUS
  <1>1. TypeOK
    <2>1. elapsed \in [Ends -> Nat]
      BY Times DEF Init
    <2>2. program \in {"ClientStruct", "ClientProto", "Echo"}
      BY ProgramsAssumption DEF Init
    <2> QED
      BY <2>1, <2>2, EmptyQueue DEF Init, TypeOK, SockStates, QueueStates
  <1>2. \A e \in Ends : /\ life[e] = "up" /\ sock[e] = "none" /\ wire[e] = <<>> /\ tasks[e] = <<>>
                        /\ silence[e] = 0 /\ elapsed[e] \in 0..(Interval - 1) /\ check[e] = "idle"
    BY DEF Init
  <1>3. \A id : ~Has(<<>>, id) /\ Sole(<<>>, id)
    BY EmptyQueue DEF Has, Sole
  <1>4. Connecting /\ EndOfStream /\ SafetyIsRedundant /\ ServerHears /\ ClientHears /\ AnswerIsComing
    BY <1>2, <1>3, TheEnds
    DEF Init, Connecting, EndOfStream, SafetyIsRedundant, ServerHears, ClientHears, AnswerIsComing, Working, Listens, Connected
  <1>5. InTime
    BY <1>2, EmptyQueue, Times DEF InTime
  <1>6. AskedOnce
    BY <1>2, <1>3, EmptyQueue, TheEnds DEF Init, AskedOnce, Started
  <1>7. FarewellFollows /\ FarewellComesLast
    BY <1>2, <1>3, TheEnds DEF Init, FarewellFollows, FarewellComesLast
  <1> QED
    BY <1>1, <1>4, <1>5, <1>6, <1>7 DEF IInv

\* Every step keeps the invariant: one that leaves the connection, or one of the
\* actions that do not.
LEMMA StepKeeps == IInv /\ [Next]_vars => IInv'
  <1> SUFFICES ASSUME IInv, [Next]_vars PROVE IInv'
    OBVIOUS
  <1>a. TypeOK'
    BY TypeStep DEF IInv
  <1>0. ASSUME NEW e \in Ends, AddSession(e) PROVE IInv'
    BY <1>a, <1>0, AddSessionKeeps
  <1>1. CASE Connect
    BY <1>a, <1>1, ConnectKeeps
  <1>2. CASE GracefulDisconnect
    BY <1>a, <1>2, GracefulDisconnectKeeps
  <1>3. CASE Tick
    BY <1>a, <1>3, TickKeeps
  <1>4. ASSUME NEW e \in Ends, StartSession(e) PROVE IInv'
    BY <1>a, <1>4, StartSessionKeeps
  <1>5. ASSUME NEW e \in Ends, Receive(e) PROVE IInv'
    BY <1>a, <1>5, ReceiveKeeps
  <1>6. ASSUME NEW e \in Ends, ReceiveEcho(e) PROVE IInv'
    BY <1>a, <1>6, ReceiveEchoKeeps
  <1>7. ASSUME NEW e \in Ends, ReadFails(e) \/ Die(e) PROVE IInv'
    <2>1. Leaves(e)
      BY <1>7, LeavingSteps
    <2> QED
      BY <1>a, <2>1, LeavingKeeps
  <1>8. ASSUME NEW e \in Ends, ScanSession(e) \/ Reap(e) PROVE IInv'
    <2>1. CASE GivesUp(e)
      <3>1. Leaves(e)
        BY <2>1, LeavingSteps
      <3> QED
        BY <1>a, <3>1, LeavingKeeps
    <2>2. CASE Reap(e) /\ ~GivesUp(e)
      BY <1>a, <2>2, HeartbeatKeeps
    <2>3. CASE ScanSession(e) /\ check'[e] # "reap"
      BY <1>a, <2>3, HeartbeatKeeps
    <2>4. CASE ScanSession(e) /\ check'[e] = "reap"
      BY <1>a, <2>4, QuietSteps
    <2> QED
      BY <1>8, <2>1, <2>2, <2>3, <2>4
  <1>9. CASE HandleLogin \/ HandleLoginProto
    BY <1>a, <1>9, HandleLoginKeeps
  <1>10. CASE HandlePong
    BY <1>a, <1>10, HandlePongKeeps
  <1>11. CASE HandleLoginRes \/ HandleLoginResProto
    BY <1>a, <1>11, HandleLoginResKeeps
  <1>12. CASE HandlePing
    BY <1>a, <1>12, HandlePingKeeps
  <1>13. CASE HandleDisconnect
    <2>1. Leaves("client")
      BY <1>13, LeavingSteps, TheEnds
    <2> QED
      BY <1>a, <2>1, LeavingKeeps, TheEnds
  <1>14. CASE EchoStartThrows
    <2>1. Leaves("server")
      BY <1>14, LeavingSteps, TheEnds
    <2> QED
      BY <1>a, <2>1, LeavingKeeps, TheEnds
  <1>15. CASE SafetyTimer
    <2>1. CASE forced
      BY <1>a, <1>15, <2>1, QuietSteps, TheEnds
    <2>2. CASE ~forced
      <3>1. Leaves("server")
        BY <1>15, <2>2, LeavingSteps, TheEnds
      <3> QED
        BY <1>a, <3>1, LeavingKeeps, TheEnds
    <2> QED
      BY <2>1, <2>2
  <1>16. ASSUME NEW e \in Ends, WriteCompletes(e) \/ ReadClock(e) PROVE IInv'
    BY <1>a, <1>16, QuietSteps
  <1>17. CASE UNCHANGED vars
    <2>1. /\ UNCHANGED <<program, life, sock, silence, wire, tasks, elapsed, login, farewell>>
          /\ safety' = safety /\ queue' = queue /\ check' = check
      BY <1>17 DEF vars, dataVars, timeVars, checkVars, goalVars
    <2>2. Calm
      BY <2>1 DEF Calm, IInv, TypeOK
    <2> QED
      BY <1>a, <2>1, <2>2, QuietKeeps
  <1> QED
    BY <1>0, <1>1, <1>2, <1>3, <1>4, <1>5, <1>6, <1>7, <1>8, <1>9, <1>10, <1>11, <1>12, <1>13, <1>14, <1>15, <1>16, <1>17
    DEF Next, Step

\* What the parts of IInv say of the wires, the tasks and the clocks holds in
\* every state, whatever the times, the number of workers and the programs: also
\* where Sends race and strand packets, data overtakes a heartbeat, or a heartbeat
\* meets a session inside Start.
THEOREM ConnectionInvariance == Spec => []IInv
  BY InitHolds, StepKeeps, PTL DEF Spec

\* A client that leaves because it was asked to has heard the answer to its
\* login, if Handle_C_LOGIN sent it before GracefulDisconnect.
THEOREM TheAnswerComesFirst == Spec => []FarewellComesLast
  <1>1. IInv => FarewellComesLast
    BY DEF IInv
  <1> QED
    BY <1>1, ConnectionInvariance, PTL

\* CheckHeartbeat puts a session whose other end works on the list of the dead
\* only if data overtakes it, if it meets the session inside Start, or if a packet
\* of either end is stranded.
THEOREM OnlyRacesGiveUp == Spec => GivenUpOnlyByRace
  <1>1. IInv /\ [Next]_vars =>
           [\A e \in Ends :
               FoundDead(e) /\ Working(Other(e)) /\ ~IsEcho =>
                   \/ Overtaken(e) \/ sock[e] = "added"
                   \/ \E x \in Ends : queue[x] = "stranded"]_vars
    <2> SUFFICES ASSUME IInv, Next, NEW e \in Ends, FoundDead(e), Working(Other(e)), ~IsEcho,
                        ~Overtaken(e), sock[e] # "added", \A x \in Ends : queue[x] # "stranded"
                 PROVE  FALSE
      OBVIOUS
    <2>0. Writable("client") /\ Writable("server")
      BY TheEnds DEF Next, Undefined, IInv, TypeOK, QueueStates, Writable
    <2>1. sock[e] = "open" /\ silence[e] > Timeout /\ life[e] = "up"
      <3>1. check \in [Ends -> {"idle", "read", "reap"}] /\ check[e] = "read" /\ check'[e] = "reap"
        BY DEF IInv, TypeOK, FoundDead
      <3>2. ~UNCHANGED check
        BY <3>1
      <3>3. ~Connect /\ ~GracefulDisconnect
        BY <3>2 DEF Connect, GracefulDisconnect, timeVars, checkVars
      <3>4. ~Tick
        BY <3>1 DEF Tick
      <3>5. ASSUME NEW x \in Ends
            PROVE  /\ ~AddSession(x) /\ ~StartSession(x) /\ ~WriteCompletes(x) /\ ~Receive(x)
                   /\ ~ReceiveEcho(x) /\ ~ReadFails(x)
        BY <3>2 DEF AddSession, StartSession, WriteCompletes, Receive, ReceiveEcho, ReadFails, timeVars, checkVars
      <3>6. \A x \in Ends : ~Cease(x)
        BY <3>1 DEF Cease
      <3>7. ~HandleDisconnect /\ ~EchoStartThrows /\ \A x \in Ends : ~Die(x)
        BY <3>6, TheEnds DEF HandleDisconnect, EchoStartThrows, Die
      <3>8. /\ ~HandleLogin /\ ~HandleLoginProto /\ ~HandlePong
            /\ ~HandleLoginRes /\ ~HandleLoginResProto /\ ~HandlePing
        BY <3>2 DEF HandleLogin, HandleLoginProto, HandlePong, HandleLoginRes, HandleLoginResProto,
                    HandlePing, timeVars, checkVars
      <3>9. ~SafetyTimer
        BY <3>2 DEF SafetyTimer, checkVars
      <3>10. \A x \in Ends : ~ReadClock(x) /\ ~Reap(x)
        BY <3>1 DEF ReadClock, Reap, Rearm
      <3>11. PICK x \in Ends : ScanSession(x)
        BY <3>3, <3>4, <3>5, <3>7, <3>8, <3>9, <3>10 DEF Next, Step
      <3>12. check' # [check EXCEPT ![x] = "idle"]
        BY <3>1
      <3>13. /\ life[x] = "up" /\ check' = [check EXCEPT ![x] = "reap"]
             /\ sock[x] = "added" \/ (sock[x] = "open" /\ Silent(x))
        BY <3>11, <3>12 DEF ScanSession, Rearm
      <3>14. x = e
        BY <3>1, <3>13
      <3>15. silence[e] > Timeout + since[e] /\ silence[e] \in Nat /\ since[e] \in Nat
        BY <3>13, <3>14 DEF Silent, IInv, TypeOK
      <3>16. silence[e] > Timeout
        BY <3>15, Times
      <3> QED
        BY <3>13, <3>14, <3>16
    <2>2. \A x \in Ends : /\ Listens(x) /\ life[x] = "up"
                          /\ \A p \in Range(wire[x]) \union Range(tasks[x]) : p.age \in Nat /\ p.age <= MaxDelay
                          /\ elapsed[x] \in Nat /\ elapsed[x] <= Interval + MaxLate /\ silence[x] \in Nat
      <3>1. \A x \in Ends : Listens(x) /\ life[x] = "up"
        BY <2>1, TheEnds DEF Listens, Working
      <3>2. \A x \in Ends : \A p \in Range(wire[x]) \union Range(tasks[x]) : p.age \in Nat
        BY RangeIs DEF IInv, TypeOK, Packet
      <3> QED
        BY <3>1, <3>2 DEF IInv, InTime, TypeOK
    <2>3. CASE e = "server"
      <3>1. Listens("client") /\ Working("server")
        BY <2>1, <2>2, <2>3, TheEnds DEF Working
      <3>2. \/ silence["server"] + Interval + MaxLate + 2 * MaxDelay <= Timeout + elapsed["server"]
            \/ \E p \in Range(wire["client"]) \union Range(tasks["client"]) :
                  p.id = "S_PING" /\ silence["server"] + 2 * MaxDelay <= Timeout + p.age
            \/ \E p \in Range(wire["server"]) : silence["server"] + MaxDelay <= Timeout + p.age
        BY <2>0, <3>1 DEF IInv, ServerHears
      <3>3. PICK silent \in Nat, last \in Nat :
               silent = silence["server"] /\ last = elapsed["server"] /\ last <= Interval + MaxLate
        <4>1. silence["server"] \in Nat /\ elapsed["server"] \in Nat
          BY TheEnds DEF IInv, TypeOK
        <4>2. elapsed["server"] <= Interval + MaxLate
          <5>1. life["server"] = "up"
            BY <2>2, TheEnds
          <5> QED
            BY <5>1, TheEnds DEF IInv, InTime
        <4> QED
          BY <4>1, <4>2
      <3>4. silent + Interval + MaxLate + 2 * MaxDelay <= Timeout + last => silent <= Timeout
        BY <3>3, Times
      <3>5. ASSUME NEW x \in Ends, NEW p \in Range(wire[x]) \union Range(tasks[x]),
                   silent + MaxDelay <= Timeout + p.age
            PROVE  silent <= Timeout
        <4>1. PICK age \in Nat : age = p.age /\ age <= MaxDelay
          BY <2>2, <3>5
        <4> QED
          BY <3>3, <3>5, <4>1, Times
      <3>6. ASSUME NEW p \in Range(wire["client"]) \union Range(tasks["client"]),
                   silent + 2 * MaxDelay <= Timeout + p.age
            PROVE  silent <= Timeout
        <4>1. PICK age \in Nat : age = p.age /\ age <= MaxDelay
          BY <2>2, <3>6, TheEnds
        <4>2. silent + MaxDelay <= Timeout + age
          BY <3>3, <3>6, <4>1, Times
        <4> QED
          BY <3>3, <4>1, <4>2, Times
      <3>7. silent <= Timeout
        BY <3>2, <3>3, <3>4, <3>5, <3>6, TheEnds
      <3>8. silent > Timeout
        BY <2>1, <2>3, <3>3
      <3> QED
        BY <3>3, <3>7, <3>8, Times
    <2>4. CASE e = "client"
      <3>1. Listens("server") /\ Working("client")
        BY <2>1, <2>2, <2>4, TheEnds DEF Working
      <3>2. \/ silence["client"] + Interval + MaxLate + MaxDelay <= Timeout + elapsed["server"]
            \/ \E p \in Range(wire["client"]) : silence["client"] + MaxDelay <= Timeout + p.age
        BY <2>0, <3>1 DEF IInv, ClientHears
      <3>3. PICK silent \in Nat, last \in Nat :
               silent = silence["client"] /\ last = elapsed["server"] /\ last <= Interval + MaxLate
        <4>1. silence["client"] \in Nat /\ elapsed["server"] \in Nat
          BY TheEnds DEF IInv, TypeOK
        <4>2. elapsed["server"] <= Interval + MaxLate
          <5>1. life["server"] = "up"
            BY <2>2, TheEnds
          <5> QED
            BY <5>1, TheEnds DEF IInv, InTime
        <4> QED
          BY <4>1, <4>2
      <3>4. silent + Interval + MaxLate + MaxDelay <= Timeout + last => silent <= Timeout
        BY <3>3, Times
      <3>5. ASSUME NEW x \in Ends, NEW p \in Range(wire[x]) \union Range(tasks[x]),
                   silent + MaxDelay <= Timeout + p.age
            PROVE  silent <= Timeout
        <4>1. PICK age \in Nat : age = p.age /\ age <= MaxDelay
          BY <2>2, <3>5
        <4> QED
          BY <3>3, <3>5, <4>1, Times
      <3>6. silent <= Timeout
        BY <3>2, <3>3, <3>4, <3>5, TheEnds
      <3>7. silent > Timeout
        BY <2>1, <2>4, <3>3
      <3> QED
        BY <3>3, <3>6, <3>7, Times
    <2> QED
      BY <2>3, <2>4, TheEnds
  <1> QED
    BY <1>1, ConnectionInvariance, PTL DEF Spec, GivenUpOnlyByRace

\* The safety timer of GracefulDisconnect cuts an open session only if the
\* client's machine is lost or the server's write queue is stranded: a client that
\* is there and was asked has left in time.
THEOREM SafetyTimerIsForTheUnheard == Spec => ForcedOnlyIfUnheard
  <1>1. IInv /\ [Next]_vars =>
           [sock["server"] = "open" /\ forced' # forced =>
                life["client"] = "gone" \/ queue["server"] = "stranded"]_vars
    <2> SUFFICES ASSUME IInv, Next, sock["server"] = "open", forced' # forced, life["client"] # "gone",
                        queue["server"] # "stranded"
                 PROVE  FALSE
      OBVIOUS
    <2>0. Writable("server")
      BY TheEnds DEF Next, Undefined, IInv, TypeOK, QueueStates, Writable
    <2>1. SafetyTimer
      BY DEF Next, Step, Connect, GracefulDisconnect, Tick, AddSession, StartSession, WriteCompletes,
             Receive, ReceiveEcho, ReadFails, ReadClock, ScanSession, Reap, HandleLogin,
             HandleLoginProto, HandlePong, EchoStartThrows, HandleLoginRes, HandleLoginResProto,
             HandlePing, HandleDisconnect, Die
    <2>2. PICK a \in safety : a >= Grace
      BY <2>1 DEF SafetyTimer, SafetyDue
    <2>3. Working("server") /\ life["server"] = "up" /\ a \in Nat
      BY <2>1, <2>2 DEF SafetyTimer, Working, IInv, TypeOK
    <2>4. \A x \in Ends : life[x] = "up" =>
             \A p \in Range(wire[x]) \union Range(tasks[x]) : p.age \in Nat /\ p.age <= MaxDelay
      <3>1. \A x \in Ends : \A p \in Range(wire[x]) \union Range(tasks[x]) : p.age \in Nat
        BY RangeIs DEF IInv, TypeOK, Packet
      <3> QED
        BY <3>1 DEF IInv, InTime
    <2>5. \/ /\ Listens("client")
             /\ \E p \in Range(wire["client"]) \union Range(tasks["client"]) : p.age >= a
          \/ \E p \in Range(wire["server"]) : a <= p.age + MaxDelay
      BY <2>0, <2>2, <2>3 DEF IInv, SafetyIsRedundant, HasSince
    <2>6. a <= 2 * MaxDelay
      BY <2>3, <2>4, <2>5, TheEnds, Times DEF Listens
    <2> QED
      BY <2>2, <2>3, <2>6, Times
  <1> QED
    BY <1>1, ConnectionInvariance, PTL DEF Spec, ForcedOnlyIfUnheard
==============================================================================
