--------------------------- MODULE MCPacketFraming ----------------------------
(* Small instances of PacketFraming.  A stream is made of a sequence of    *)
(* packet sizes, repeated to its end; at an offset where no packet begins  *)
(* the size field is 0, so that reading a header there shows.              *)
EXTENDS PacketFraming, Sequences, SequencesExt

CONSTANTS
    Sizes,   \* the packet sizes in use
    Period   \* bound: packets in a stream before their sizes repeat

\* Where the packets of a stream with these sizes begin, and how long each is.
Total(sizes) == FoldLeft(LAMBDA a, b : a + b, 0, sizes)

Start(sizes, k) == Total(SubSeq(sizes, 1, k - 1))

\* A packet shorter than a header still occupies one in the stream.
Periodic(sizes) ==
    LET length == [k \in DOMAIN sizes |->
                       IF sizes[k] < HeaderSize THEN HeaderSize ELSE sizes[k]]
        whole  == Total(length)
        at(o)  == {k \in DOMAIN sizes : Start(length, k) = o % whole}
    IN [o \in Offsets |-> IF at(o) = {} THEN 0 ELSE sizes[CHOOSE k \in at(o) : TRUE]]

MCStreams == {Periodic(sizes) : sizes \in [1..Period -> Sizes]}
==============================================================================
