---------------------------- MODULE PacketDelivery ----------------------------
(***************************************************************************)
(* What a session promises its packet handler, whatever pieces the stream  *)
(* arrives in: the packets of the stream are handed over whole, in order,  *)
(* each once, and none after a header whose size cannot be one.  A byte is *)
(* its offset in the stream, so a packet shows which bytes it holds.       *)
(***************************************************************************)
EXTENDS Integers

CONSTANTS
    HeaderSize,    \* sizeof(PacketHeader)
    StreamLength,  \* bytes that the client sends
    Streams        \* streams: the size field a header at an offset would have

VARIABLES
    stream,    \* the stream of this connection
    consumed,  \* where the next packet begins
    packet     \* the last packet handed over: its bytes

deliveryVars == <<stream, consumed, packet>>

DeliveryInit ==
    /\ stream \in Streams
    /\ consumed = 0
    /\ packet = [i \in {} |-> 0]

Deliver ==
    /\ consumed + HeaderSize <= StreamLength
    /\ stream[consumed] >= HeaderSize
    /\ consumed + stream[consumed] <= StreamLength
    /\ packet' = [i \in 0..(stream[consumed] - 1) |-> consumed + i]
    /\ consumed' = consumed + stream[consumed]
    /\ UNCHANGED stream

DeliverySpec == DeliveryInit /\ [][Deliver]_deliveryVars
==============================================================================
