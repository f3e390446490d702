---------------------------- MODULE MCPacketCodec -----------------------------
(* Small instances of PacketCodec: bytes of two bits, sizes modulo 16.     *)
EXTENDS PacketCodec, Bitwise

CONSTANTS
    Lengths,    \* lengths of the strings in use
    BodyBytes,  \* bytes of the bodies from elsewhere
    MaxBody     \* bound: their length

MCXor(a, b) == a ^^ b

MCKeys == {<<>>, <<2>>, <<1, 3, 0>>}

\* Two strings of each length.
MCStrings == {[i \in 1..n |-> (i * c) % Base] : n \in Lengths, c \in {1, 3}}

MCBodies == UNION {[1..n -> BodyBytes] : n \in 0..MaxBody}
==============================================================================
