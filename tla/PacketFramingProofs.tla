-------------------------- MODULE PacketFramingProofs --------------------------
(***************************************************************************)
(* Theorems about PacketFraming: for every buffer size, every size of a    *)
(* header and every stream, well-formed or not.                            *)
(***************************************************************************)
EXTENDS PacketFraming, TLAPS

\* What the loop keeps: the buffer never holds more than arrived, and between
\* two handlers nothing is half processed.
FramingInv ==
    /\ TypeOK
    /\ ContentInOrder
    /\ NeverDropped
    /\ RoomForNextRead
    /\ DataSize <= arrived
    /\ pc # "parsing" => processed = 0

------------------------------------------------------------------------------
\* The header that OnRecv looks at is the one at the first byte of the stream
\* that was not handed over.
LEMMA FrontIsConsumed ==
  ASSUME TypeOK, ContentInOrder, DataSize <= arrived, HeaderArrived
  PROVE  /\ buffer[readPos + processed] = Consumed
         /\ Consumed \in Offsets
         /\ FrontSize = stream[Consumed]
         /\ FrontSize \in 0..MaxSize
<1>1. readPos + processed \in readPos..(writePos - 1)
  BY SizesAssumption DEF TypeOK, HeaderArrived, DataSize
<1>2. buffer[readPos + processed] = Consumed
  BY <1>1, SizesAssumption DEF TypeOK, ContentInOrder, Consumed, DataSize
<1>3. Consumed \in Offsets
  BY SizesAssumption DEF TypeOK, Consumed, DataSize, HeaderArrived, Offsets
<1> QED
  BY <1>2, <1>3 DEF FrontSize, TypeOK

\* The bytes of a complete packet are the next ones of the stream.
LEMMA PacketIsNext ==
  ASSUME TypeOK, ContentInOrder, DataSize <= arrived, PacketComplete
  PROVE  [i \in 0..(FrontSize - 1) |-> buffer[readPos + processed + i]] =
            [i \in 0..(FrontSize - 1) |-> Consumed + i]
<1>1. FrontSize \in Nat /\ FrontSize <= DataSize - processed
  BY FrontIsConsumed, SizesAssumption DEF PacketComplete
<1>2. ASSUME NEW i \in 0..(FrontSize - 1)
      PROVE  buffer[readPos + processed + i] = Consumed + i
  <2>1. readPos + processed + i \in readPos..(writePos - 1)
    BY <1>1, SizesAssumption DEF TypeOK, DataSize
  <2> QED
    BY <1>1, <2>1, SizesAssumption DEF TypeOK, ContentInOrder, Consumed, DataSize
<1> QED
  BY <1>2

------------------------------------------------------------------------------
(* The three steps of the loop.                                            *)

\* OnWrite succeeds, and appends what arrived to what is there.
LEMMA ReceiveStep == ASSUME FramingInv, Receive PROVE FramingInv'
<1> USE SizesAssumption DEF FramingInv, Receive, FreeSize, ReadRoom, DataSize, Capacity
<1>1. PICK n \in 0..FreeSize :
         /\ arrived + n <= StreamLength
         /\ arrived' = arrived + n
         /\ buffer' = [i \in DOMAIN buffer |->
                          IF i \in writePos..(writePos + n - 1)
                          THEN arrived + (i - writePos) ELSE buffer[i]]
         /\ writePos' = writePos + n
         /\ pc' = "parsing"
         /\ UNCHANGED <<stream, readPos, processed, packet>>
  BY DEF TypeOK
<1>2. n \in Nat /\ writePos + n <= Capacity
  BY <1>1 DEF TypeOK
<1>3. buffer' \in [0..(Capacity - 1) -> 0..StreamLength]
  BY <1>1, <1>2 DEF TypeOK
<1>4. TypeOK'
  BY <1>1, <1>2, <1>3 DEF TypeOK
<1>5. ContentInOrder'
  <2> SUFFICES ASSUME NEW i \in readPos'..(writePos' - 1)
               PROVE  buffer'[i] = arrived' - (writePos' - i)
    BY DEF ContentInOrder
  <2>1. i \in DOMAIN buffer /\ i \in Int
    BY <1>1, <1>2 DEF TypeOK
  <2>2. CASE i < writePos
    BY <1>1, <1>2, <2>1, <2>2 DEF TypeOK, ContentInOrder
  <2>3. CASE i >= writePos
    BY <1>1, <1>2, <2>1, <2>3 DEF TypeOK
  <2> QED
    BY <2>1, <2>2, <2>3 DEF TypeOK
<1>6. DataSize' <= arrived'
  BY <1>1, <1>2 DEF TypeOK
<1> QED
  BY <1>1, <1>4, <1>5, <1>6 DEF NeverDropped, RoomForNextRead

\* A packet that was handed over is within the data.
LEMMA ParsePacketStep == ASSUME FramingInv, ParsePacket PROVE FramingInv'
<1> USE SizesAssumption
<1>1. FrontSize \in Nat /\ FrontSize <= DataSize - processed
  BY FrontIsConsumed DEF FramingInv, ParsePacket, PacketComplete
<1>2. /\ UNCHANGED <<stream, arrived, buffer, readPos, writePos, pc>>
      /\ processed' = processed + FrontSize
  BY DEF ParsePacket
<1>3. TypeOK'
  BY <1>1, <1>2 DEF FramingInv, TypeOK, DataSize
<1> QED
  BY <1>2, <1>3 DEF FramingInv, ParsePacket, ContentInOrder, NeverDropped,
     RoomForNextRead, DataSize

\* Clean keeps the data that was not handed over, and leaves room for the next
\* read unless that data begins with a malformed header.
LEMMA ParseEndsStep ==
  ASSUME FramingInv, ParseEnds
  PROVE  FramingInv' /\ Consumed' = Consumed
<1> USE SizesAssumption
<1>0. TypeOK /\ ContentInOrder /\ DataSize <= arrived
  BY DEF FramingInv
<1>a. /\ readPos \in Int /\ writePos \in Int /\ processed \in Int /\ arrived \in Int
      /\ processed <= writePos - readPos /\ 0 <= processed
  BY <1>0 DEF TypeOK, Capacity
<1>b. PICK rest \in Int : rest = writePos - (readPos + processed)
  BY <1>a
<1>1. /\ UNCHANGED <<stream, arrived>> /\ processed' = 0 /\ pc' = "reading"
      /\ Clean(readPos + processed)
      /\ ~PacketComplete
  BY <1>0 DEF ParseEnds, TypeOK, DataSize
<1>2. rest \in Nat /\ rest <= arrived /\ rest <= Capacity
  BY <1>0, <1>a, <1>b DEF TypeOK, DataSize, Capacity
<1>3. /\ buffer' \in [0..(Capacity - 1) -> 0..StreamLength]
      /\ writePos' \in 0..Capacity
      /\ readPos' \in 0..writePos'
      /\ writePos' - readPos' = rest
      /\ \A i \in 0..(rest - 1) : buffer'[readPos' + i] = buffer[readPos + processed + i]
  <2>1. CASE readPos + processed = writePos /\ readPos' = 0 /\ writePos' = 0 /\ UNCHANGED buffer
    BY <1>0, <1>a, <1>b, <1>2, <2>1 DEF TypeOK, Capacity
  <2>2. CASE /\ buffer' = [i \in DOMAIN buffer |->
                              IF i < writePos - (readPos + processed)
                              THEN buffer[readPos + processed + i] ELSE buffer[i]]
             /\ readPos' = 0 /\ writePos' = rest
    <3>1. DOMAIN buffer = 0..(Capacity - 1)
      BY <1>0 DEF TypeOK
    <3>2. ASSUME NEW i \in 0..(Capacity - 1), i < rest
          PROVE  readPos + processed + i \in 0..(Capacity - 1)
      BY <1>0, <1>a, <1>b, <1>2, <3>2 DEF TypeOK, Capacity
    <3>3. buffer' \in [0..(Capacity - 1) -> 0..StreamLength]
      BY <1>0, <1>a, <1>b, <2>2, <3>1, <3>2 DEF TypeOK
    <3>4. ASSUME NEW i \in 0..(rest - 1)
          PROVE  buffer'[i] = buffer[readPos + processed + i]
      <4>1. i \in 0..(Capacity - 1) /\ i < rest
        BY <1>2, <3>4 DEF Capacity
      <4> QED
        BY <1>a, <1>b, <2>2, <3>1, <4>1
    <3>5. rest \in 0..Capacity /\ 0 \in 0..rest /\ rest - 0 = rest
      BY <1>2 DEF Capacity
    <3>6. ASSUME NEW i \in 0..(rest - 1)
          PROVE  buffer'[readPos' + i] = buffer[readPos + processed + i]
      <4>1. readPos' + i = i
        BY <2>2, <1>2
      <4> QED
        BY <3>4, <4>1
    <3> QED
      BY <2>2, <3>3, <3>5, <3>6
  <2>3. CASE readPos' = readPos + processed /\ UNCHANGED <<buffer, writePos>>
    BY <1>0, <1>a, <1>b, <1>2, <2>3 DEF TypeOK, Capacity
  <2> QED
    BY <1>1, <1>b, <1>a, <2>1, <2>2, <2>3 DEF Clean
<1>c. readPos' \in Int /\ writePos' \in Int /\ 0 <= readPos' /\ readPos' <= writePos'
  BY <1>3 DEF Capacity
<1>d. PICK r \in Int, w \in Int : r = readPos' /\ w = writePos'
  BY <1>c
<1>e. processed' = 0 /\ arrived' = arrived
  BY <1>1
<1>f. w - r = rest
  BY <1>3, <1>d
<1>4. TypeOK'
  <2>1. processed' \in 0..(writePos' - readPos')
    <3>1. 0 \in 0..(w - r)
      BY <1>2, <1>f
    <3> QED
      BY <3>1, <1>d, <1>e
  <2> QED
    BY <1>0, <1>1, <1>3, <2>1 DEF TypeOK
<1>5. ContentInOrder'
  <2>1. ASSUME NEW i \in r..(w - 1) PROVE buffer'[i] = arrived - (w - i)
    <3>1. i - r \in 0..(rest - 1) /\ r + (i - r) = i
      BY <1>2, <1>f
    <3>2. buffer'[i] = buffer[readPos + processed + (i - r)]
      BY <1>3, <1>d, <3>1
    <3>3. readPos + processed + (i - r) \in readPos..(writePos - 1)
      BY <1>a, <1>b, <3>1
    <3>4. buffer[readPos + processed + (i - r)] =
             arrived - (writePos - (readPos + processed + (i - r)))
      BY <1>0, <3>3 DEF ContentInOrder
    <3>5. writePos - (readPos + processed + (i - r)) = w - i
      BY <1>a, <1>b, <1>f
    <3> QED
      BY <3>2, <3>4, <3>5
  <2> QED
    BY <2>1, <1>d, <1>e DEF ContentInOrder
<1>6. Consumed' = Consumed
  <2>1. Consumed' = arrived - (w - r) + 0
    BY <1>d, <1>e DEF Consumed, DataSize
  <2> QED
    BY <2>1, <1>a, <1>b, <1>f DEF Consumed, DataSize
<1>7. DataSize' <= arrived'
  BY <1>1, <1>2, <1>3 DEF DataSize
<1>8. FreeSize' > 0 \/ MalformedAtFront'
  <2>1. CASE rest >= HeaderSize /\ FrontSize < HeaderSize
    <3>1. HeaderArrived /\ HeaderArrived'
      <4>1. HeaderArrived
        BY <1>a, <1>b, <2>1 DEF HeaderArrived, DataSize
      <4>2. w - r - 0 >= HeaderSize
        BY <1>f, <2>1
      <4> QED
        BY <4>1, <4>2, <1>d, <1>e DEF HeaderArrived, DataSize
    <3>2. FrontSize = stream[Consumed]
      BY <1>0, <3>1, FrontIsConsumed
    <3>3. buffer'[readPos' + processed'] = Consumed'
      <4>1. 0 \in 0..(rest - 1) /\ readPos' + 0 = readPos' + processed'
        BY <1>1, <1>2, <1>3, <2>1
      <4>2. buffer'[readPos' + processed'] = buffer[readPos + processed + 0]
        BY <1>3, <4>1
      <4>3. readPos + processed + 0 = readPos + processed
        BY <1>0 DEF TypeOK
      <4> QED
        BY <1>0, <1>6, <3>1, <4>2, <4>3, FrontIsConsumed
    <3> QED
      BY <1>1, <1>6, <2>1, <3>1, <3>2, <3>3 DEF MalformedAtFront, FrontSize
  <2>2. CASE rest < BufferSize
    BY <1>1, <1>a, <1>b, <1>2, <2>2 DEF Clean, FreeSize, Capacity
  <2>3. rest < HeaderSize \/ FrontSize < HeaderSize \/ FrontSize > rest
    <3>1. DataSize - processed = rest
      BY <1>a, <1>b DEF DataSize
    <3>2. CASE rest >= HeaderSize
      <4>1. FrontSize \in 0..MaxSize
        BY <1>0, <3>1, <3>2, FrontIsConsumed DEF HeaderArrived
      <4> QED
        BY <1>1, <3>1, <3>2, <4>1 DEF PacketComplete, HeaderArrived
    <3> QED
      BY <3>2
  <2>4. rest >= HeaderSize => FrontSize \in 0..MaxSize
    BY <1>0, <1>a, <1>b, FrontIsConsumed DEF HeaderArrived, DataSize
  <2> QED
    BY <1>2, <2>1, <2>2, <2>3, <2>4
<1> QED
  BY <1>1, <1>4, <1>5, <1>6, <1>7, <1>8 DEF FramingInv, NeverDropped, RoomForNextRead

------------------------------------------------------------------------------
\* At first the buffer is empty.
LEMMA InitFraming == Init => FramingInv
<1> SUFFICES ASSUME Init PROVE FramingInv
  OBVIOUS
<1>1. TypeOK
  BY SizesAssumption, StreamsAssumption DEF Init, TypeOK, NoByte, Capacity
<1> QED
  BY <1>1, SizesAssumption DEF FramingInv, Init, ContentInOrder, NeverDropped,
     RoomForNextRead, DataSize, FreeSize, Capacity

\* The invariant holds whatever pieces the stream arrives in.
THEOREM FramingInvariance == Spec => []FramingInv
<1>1. FramingInv /\ [Next]_vars => FramingInv'
  <2> SUFFICES ASSUME FramingInv, [Next]_vars PROVE FramingInv'
    OBVIOUS
  <2>1. CASE ReadFails
    BY <2>1 DEF ReadFails, FramingInv, TypeOK, ContentInOrder, NeverDropped,
       RoomForNextRead, DataSize
  <2>2. CASE UNCHANGED vars
    BY <2>2 DEF vars, FramingInv, TypeOK, ContentInOrder, NeverDropped,
       RoomForNextRead, DataSize, FreeSize, MalformedAtFront, HeaderArrived, FrontSize
  <2> QED
    BY <2>1, <2>2, ReceiveStep, ParsePacketStep, ParseEndsStep DEF Next
<1> QED
  BY InitFraming, <1>1, PTL DEF Spec

\* The cursors of the RecvBuffer stay in order and inside it.
THEOREM FramingTypeCorrect == Spec => []TypeOK
<1>1. FramingInv => TypeOK
  BY DEF FramingInv
<1> QED
  BY FramingInvariance, <1>1, PTL

\* No byte between the cursors is lost, repeated or overwritten.
THEOREM BufferContent == Spec => []ContentInOrder
<1>1. FramingInv => ContentInOrder
  BY DEF FramingInv
<1> QED
  BY FramingInvariance, <1>1, PTL

\* OnWrite and OnRead never return false.
THEOREM SessionNeverDropped == Spec => []NeverDropped
<1>1. FramingInv => NeverDropped
  BY DEF FramingInv
<1> QED
  BY FramingInvariance, <1>1, PTL

\* async_read_some is given room, unless a malformed header blocks the front.
THEOREM RoomForRead == Spec => []RoomForNextRead
<1>1. FramingInv => RoomForNextRead
  BY DEF FramingInv
<1> QED
  BY FramingInvariance, <1>1, PTL

\* OnRecv hands over the packets of the stream whole, in order and once.
THEOREM FramingRefinement == Spec => DeliverySpec
<1>1. Init => Delivery!DeliveryInit
  BY DEF Init, Delivery!DeliveryInit, Consumed, DataSize
<1>2. FramingInv /\ [Next]_vars => [Delivery!Deliver]_<<stream, Consumed, packet>>
  <2> SUFFICES ASSUME FramingInv, [Next]_vars
               PROVE  Delivery!Deliver \/ UNCHANGED <<stream, Consumed, packet>>
    BY DEF Delivery!deliveryVars
  <2>1. CASE Receive
    <3>1. UNCHANGED <<stream, packet, readPos, processed>>
      BY <2>1 DEF Receive
    <3>2. arrived' - writePos' = arrived - writePos
      BY <2>1, SizesAssumption DEF Receive, FramingInv, TypeOK, ReadRoom, FreeSize, Capacity
    <3>3. TypeOK /\ TypeOK'
      BY <2>1, ReceiveStep DEF FramingInv
    <3> QED
      <4>1. arrived \in Int /\ writePos \in Int /\ readPos \in Int /\ processed \in Int
        BY <3>3, SizesAssumption DEF TypeOK, Capacity
      <4>2. PICK a \in Int, w \in Int : a = arrived' /\ w = writePos'
        BY <3>3, SizesAssumption DEF TypeOK, Capacity
      <4>a. a - w = arrived - writePos
        BY <3>2, <4>2
      <4>3. a - (w - readPos) + processed = arrived - (writePos - readPos) + processed
        BY <4>1, <4>a
      <4>4. Consumed' = Consumed
        BY <3>1, <4>2, <4>3 DEF Consumed, DataSize
      <4> QED
        BY <3>1, <4>4
  <2>2. CASE ParsePacket
    <3>1. TypeOK /\ ContentInOrder /\ DataSize <= arrived /\ PacketComplete /\ HeaderArrived
      BY <2>2 DEF FramingInv, ParsePacket, PacketComplete
    <3>2. /\ FrontSize = stream[Consumed] /\ FrontSize \in 0..MaxSize
          /\ FrontSize >= HeaderSize /\ FrontSize <= DataSize - processed
      BY <3>1, FrontIsConsumed DEF PacketComplete
    <3>3. packet' = [i \in 0..(stream[Consumed] - 1) |-> Consumed + i]
      BY <2>2, <3>1, <3>2, PacketIsNext DEF ParsePacket
    <3>4. Consumed' = Consumed + stream[Consumed] /\ UNCHANGED stream
      BY <2>2, <3>1, <3>2, SizesAssumption DEF ParsePacket, Consumed, DataSize, TypeOK
    <3>5. Consumed + HeaderSize <= StreamLength /\ Consumed + FrontSize <= StreamLength
      BY <3>1, <3>2, SizesAssumption DEF Consumed, DataSize, TypeOK, HeaderArrived
    <3> QED
      BY <3>2, <3>3, <3>4, <3>5 DEF Delivery!Deliver
  <2>3. CASE ParseEnds
    BY <2>3, ParseEndsStep DEF ParseEnds
  <2>4. CASE ReadFails
    BY <2>4 DEF ReadFails, Consumed, DataSize
  <2>5. CASE UNCHANGED vars
    BY <2>5 DEF vars, Consumed, DataSize
  <2> QED
    BY <2>1, <2>2, <2>3, <2>4, <2>5 DEF Next
<1>3. FramingInv /\ [Next]_vars => [Delivery!Deliver]_Delivery!deliveryVars
  BY <1>2 DEF Delivery!deliveryVars
<1> QED
  BY <1>1, <1>3, FramingInvariance, PTL DEF Spec, DeliverySpec, Delivery!DeliverySpec
==============================================================================
