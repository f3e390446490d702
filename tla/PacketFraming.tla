---------------------------- MODULE PacketFraming -----------------------------
(***************************************************************************)
(* A session's read loop: async_read_some into the RecvBuffer, OnRecv,     *)
(* which cuts packets out of it, and RecvBuffer's OnWrite, OnRead and      *)
(* Clean.  All of it runs on the IO thread, one handler at a time, so the  *)
(* steps are those of one thread: a read completes, the loop of OnRecv     *)
(* hands over one packet, or it ends and the buffer is cleaned.            *)
(*                                                                         *)
(* A byte is its offset in the client's stream.  stream says which size    *)
(* field a header beginning at an offset has; that is all of the data that *)
(* the loop looks at.  The stream may hold any sizes, malformed ones too.  *)
(***************************************************************************)
EXTENDS Integers

CONSTANTS
    HeaderSize,    \* sizeof(PacketHeader)
    MaxSize,       \* the largest value of PacketHeader::size
    BufferSize,    \* the argument of RecvBuffer's constructor
    StreamLength,  \* bound: bytes that the client sends
    Streams        \* the streams that a client may send

Offsets == 0..(StreamLength - 1)

\* The size field is 16 bits wide and the buffer size is 65536.
ASSUME SizesAssumption ==
    /\ HeaderSize \in Nat \ {0}
    /\ MaxSize \in Nat
    /\ BufferSize \in Nat
    /\ HeaderSize <= BufferSize
    /\ MaxSize <= BufferSize
    /\ StreamLength \in Nat

ASSUME StreamsAssumption == Streams \subseteq [Offsets -> 0..MaxSize]

VARIABLES
    stream,     \* what this client sends
    arrived,    \* bytes of it that were read from the socket
    buffer,     \* _buffer
    readPos,    \* _readPos
    writePos,   \* _writePos
    processed,  \* the local variable of OnRecv
    packet,     \* the bytes of the last packet given to OnPacket
    pc          \* "reading", "parsing", or how the loop ended

vars == <<stream, arrived, buffer, readPos, writePos, processed, packet, pc>>

Capacity == BufferSize * 10

NoByte == StreamLength

DataSize == writePos - readPos
FreeSize == Capacity - writePos

Init ==
    /\ stream \in Streams
    /\ arrived = 0
    /\ buffer = [i \in 0..(Capacity - 1) |-> NoByte]
    /\ readPos = 0
    /\ writePos = 0
    /\ processed = 0
    /\ packet = [i \in {} |-> 0]
    /\ pc = "reading"

------------------------------------------------------------------------------
\* The room that DoRead offers to async_read_some.
ReadRoom == FreeSize

\* A read returns some bytes, at least one unless it was given no room; the
\* session is dropped if OnWrite finds no room for them.
Receive ==
    /\ pc = "reading"
    /\ \E n \in 0..ReadRoom :
          /\ n = 0 <=> ReadRoom = 0
          /\ arrived + n <= StreamLength
          /\ arrived' = arrived + n
          /\ \/ /\ n <= FreeSize
                /\ buffer' = [i \in DOMAIN buffer |->
                                 IF i \in writePos..(writePos + n - 1)
                                 THEN arrived + (i - writePos) ELSE buffer[i]]
                /\ writePos' = writePos + n
                /\ pc' = "parsing"
             \/ n > FreeSize /\ pc' = "dropped" /\ UNCHANGED <<buffer, writePos>>
    /\ UNCHANGED <<stream, readPos, processed, packet>>

\* End of file or an error: the loop ends.
ReadFails ==
    /\ pc = "reading"
    /\ pc' = "closed"
    /\ UNCHANGED <<stream, arrived, buffer, readPos, writePos, processed, packet>>

------------------------------------------------------------------------------
(* OnRecv.                                                                 *)

\* header->size, at the first byte that the loop has not handed over.
FrontSize == stream[buffer[readPos + processed]]

HeaderArrived == DataSize - processed >= HeaderSize

\* Mutant: a packet is handed over when its header is there.
PacketCompleteByHeader ==
    /\ HeaderArrived
    /\ FrontSize >= HeaderSize

\* Mutant: the size is not compared with the header's.
PacketCompleteUnchecked ==
    /\ HeaderArrived
    /\ FrontSize <= DataSize - processed

\* Mutant: a packet that fills the data exactly is not seen.
PacketCompleteStrict ==
    /\ HeaderArrived
    /\ FrontSize < DataSize - processed
    /\ FrontSize >= HeaderSize

PacketComplete ==
    /\ HeaderArrived
    /\ FrontSize <= DataSize - processed
    /\ FrontSize >= HeaderSize

ParsePacket ==
    /\ pc = "parsing"
    /\ PacketComplete
    /\ packet' = [i \in 0..(FrontSize - 1) |-> buffer[readPos + processed + i]]
    /\ processed' = processed + FrontSize
    /\ UNCHANGED <<stream, arrived, buffer, readPos, writePos, pc>>

------------------------------------------------------------------------------
(* RecvBuffer::Clean, with the read position that OnRead has advanced.     *)

\* Mutant: data is never moved to the front.
CleanNeverMoves(read) ==
    \/ /\ read = writePos
       /\ readPos' = 0 /\ writePos' = 0 /\ UNCHANGED buffer
    \/ /\ read # writePos
       /\ readPos' = read /\ UNCHANGED <<buffer, writePos>>

\* Mutant: the positions move to the front, the bytes do not.
CleanMovesPositions(read) ==
    \/ /\ read = writePos
       /\ readPos' = 0 /\ writePos' = 0 /\ UNCHANGED buffer
    \/ /\ read # writePos
       /\ FreeSize < BufferSize
       /\ readPos' = 0 /\ writePos' = writePos - read /\ UNCHANGED buffer
    \/ /\ read # writePos
       /\ FreeSize >= BufferSize
       /\ readPos' = read /\ UNCHANGED <<buffer, writePos>>

Clean(read) ==
    \/ /\ read = writePos
       /\ readPos' = 0 /\ writePos' = 0 /\ UNCHANGED buffer
    \/ /\ read # writePos
       /\ FreeSize < BufferSize
       /\ buffer' = [i \in DOMAIN buffer |->
                        IF i < writePos - read THEN buffer[read + i] ELSE buffer[i]]
       /\ readPos' = 0
       /\ writePos' = writePos - read
    \/ /\ read # writePos
       /\ FreeSize >= BufferSize
       /\ readPos' = read /\ UNCHANGED <<buffer, writePos>>

\* The loop breaks: the header or the packet is incomplete, or the header is
\* malformed.  OnRead consumes what was processed, then DoRead is called again.
ParseEnds ==
    /\ pc = "parsing"
    /\ ~PacketComplete
    /\ \/ processed <= DataSize /\ Clean(readPos + processed) /\ pc' = "reading"
       \/ processed > DataSize /\ pc' = "dropped" /\ UNCHANGED <<buffer, readPos, writePos>>
    /\ processed' = 0
    /\ UNCHANGED <<stream, arrived, packet>>

Next == Receive \/ ReadFails \/ ParsePacket \/ ParseEnds

Spec == Init /\ [][Next]_vars

\* The handler runs to its end, and bytes that were sent arrive; a read need
\* not fail.
FairSpec == Spec /\ WF_vars(Receive) /\ WF_vars(ParsePacket) /\ WF_vars(ParseEnds)

------------------------------------------------------------------------------
\* The stream offset of the first byte that was not handed over.
Consumed == arrived - DataSize + processed

\* Types, and the cursors in their order.
TypeOK ==
    /\ stream \in [Offsets -> 0..MaxSize]
    /\ arrived \in 0..StreamLength
    /\ buffer \in [0..(Capacity - 1) -> 0..StreamLength]
    /\ writePos \in 0..Capacity
    /\ readPos \in 0..writePos
    /\ processed \in 0..(writePos - readPos)
    /\ pc \in {"reading", "parsing", "closed", "dropped"}

\* Between the cursors lie the last bytes that arrived, in order: Clean and
\* OnWrite lose none, repeat none and overwrite none that is still needed.
ContentInOrder ==
    \A i \in readPos..(writePos - 1) : buffer[i] = arrived - (writePos - i)

\* OnWrite and OnRead never fail, so a session is never dropped by them.
NeverDropped == pc # "dropped"

MalformedAtFront == HeaderArrived /\ FrontSize < HeaderSize

\* Every read is given room, unless a malformed header blocks the front: that
\* one is never consumed, and the session reads until the buffer is full.
RoomForNextRead == pc = "reading" => FreeSize > 0 \/ MalformedAtFront

\* The packets of the stream are handed over whole, in order, once.
Delivery == INSTANCE PacketDelivery WITH consumed <- Consumed

DeliverySpec == Delivery!DeliverySpec

\* The loop of OnRecv ends on every input.
ParseTerminates == pc = "parsing" ~> pc # "parsing"

\* A packet whose bytes are all sent is handed over: the session stops only at
\* a malformed header, at a packet that was not sent to its end, or on an error.
EveryPacketDelivered ==
    <>[](\/ pc = "closed"
         \/ Consumed + HeaderSize > StreamLength
         \/ stream[Consumed] < HeaderSize
         \/ Consumed + stream[Consumed] > StreamLength)
==============================================================================
