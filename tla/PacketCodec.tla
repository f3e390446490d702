----------------------------- MODULE PacketCodec ------------------------------
(***************************************************************************)
(* One packet on its way: a handler fills a struct and MakeSendBuffer      *)
(* writes it behind a header, PacketSession::Send encrypts the body, the   *)
(* receiver cuts it out of the stream by the header's size, decrypts it,   *)
(* dispatches it and reads the struct.  Packets that were not written by   *)
(* this code arrive too, with any body.                                    *)
(*                                                                         *)
(* A byte is a number below Base, and a uint16_t is two of them, so that   *)
(* sizes wrap around at Base * Base.                                       *)
(***************************************************************************)
EXTENDS Naturals, Sequences

CONSTANTS
    Base,           \* how many values a byte has
    XorByte(_, _),  \* exclusive or of two bytes
    Keys,           \* the keys of BasicXORCipher
    Strings,        \* the strings that a C_LOGIN may hold
    Bodies,         \* bodies of packets from elsewhere
    C_LOGIN, C_PONG, Unknown  \* packet ids; Unknown has no handler

Byte == 0..(Base - 1)
Wrap == Base * Base
HeaderSize == 4

ASSUME BytesAssumption ==
    /\ Base \in Nat \ {0, 1}
    /\ HeaderSize < Wrap
    /\ \A a, b \in Byte : XorByte(a, b) \in Byte /\ XorByte(XorByte(a, b), b) = a

ASSUME InputsAssumption ==
    /\ Keys \subseteq Seq(Byte)
    /\ Strings \subseteq Seq(Byte)
    /\ Bodies \subseteq Seq(Byte)
    /\ {C_LOGIN, C_PONG, Unknown} \subseteq 0..(Wrap - 1)

VARIABLES
    key,     \* _key, the same at both ends
    stage,   \* "idle", "made", "sent", "cut", "decrypted", "read", "dropped"
    written, \* the PKT_C_LOGIN that was written, if one was, in a set
    buffer,  \* the packet's bytes, header and body
    pkt,     \* the PKT_C_LOGIN that was read
    cursor   \* PacketStream::_readPos

vars == <<key, stage, written, buffer, pkt, cursor>>

\* PKT_C_LOGIN; its constructor leaves both strings empty.
Login(u, p) == [username |-> u, password |-> p]

------------------------------------------------------------------------------
(* Sizes, the header and the cipher.                                       *)

\* Mutant: the number is not narrowed to 16 bits.
BytesUnwrapped(n) == <<n % Base, n \div Base>>

\* static_cast<uint16_t>(n), in memory.
Bytes(n) == <<n % Base, (n \div Base) % Base>>

Number(b, at) == b[at] + Base * b[at + 1]

HeaderOf(size, id) == Bytes(size) \o Bytes(id)

SizeOf(b) == Number(b, 1)
IdOf(b) == Number(b, 3)

\* Encrypt and Decrypt of what follows the header.
Crypt(b, k) ==
    [i \in DOMAIN b |->
        IF i <= HeaderSize \/ k = <<>> THEN b[i]
        ELSE XorByte(b[i], k[((i - HeaderSize - 1) % Len(k)) + 1])]

------------------------------------------------------------------------------
(* PacketStream.                                                           *)

\* Mutant: all of the string is written, whatever the length says.
WriteWhole(b, s) == b \o Bytes(Len(s)) \o s

\* operator<< of a string.
WriteString(b, s) == b \o Bytes(Len(s)) \o SubSeq(s, 1, Len(s) % Wrap)

\* operator>> of a uint16_t: size stays 0 where there is none.
ReadSize(b, pos) == IF pos + 2 > Len(b) THEN 0 ELSE Number(b, pos + 1)

AfterSize(b, pos) == IF pos + 2 > Len(b) THEN pos ELSE pos + 2

\* Mutant: a string that ends with the packet is not read.
ReadStrict(b, pos, old) ==
    LET size  == ReadSize(b, pos)
        start == AfterSize(b, pos)
    IN IF start + size >= Len(b)
       THEN [value |-> old, pos |-> start]
       ELSE [value |-> SubSeq(b, start + 1, start + size), pos |-> start + size]

\* operator>> of a string: its value and the cursor.  Where there are too few
\* bytes the string keeps its value, and the cursor stands behind the size.
ReadString(b, pos, old) ==
    LET size  == ReadSize(b, pos)
        start == AfterSize(b, pos)
    IN IF start + size > Len(b)
       THEN [value |-> old, pos |-> start]
       ELSE [value |-> SubSeq(b, start + 1, start + size), pos |-> start + size]

------------------------------------------------------------------------------
Init ==
    /\ key \in Keys
    /\ stage = "idle"
    /\ written = {}
    /\ buffer = <<>>
    /\ pkt = Login(<<>>, <<>>)
    /\ cursor = 0

\* Mutant: the size does not count the header.
WithBodySize(id, body) == HeaderOf(Len(body), id) \o body

WithHeader(id, body) == HeaderOf(HeaderSize + Len(body), id) \o body

LoginBody(u, p) == WriteString(WriteString(<<>>, u), p)

\* MakeSendBuffer of a PKT_C_LOGIN and of an empty struct.
MakeLogin ==
    /\ stage = "idle"
    /\ \E u, p \in Strings :
          /\ written' = {Login(u, p)}
          /\ buffer' = WithHeader(C_LOGIN, LoginBody(u, p))
    /\ stage' = "made"
    /\ UNCHANGED <<key, pkt, cursor>>

MakePong ==
    /\ stage = "idle"
    /\ buffer' = WithHeader(C_PONG, <<>>)
    /\ stage' = "made"
    /\ UNCHANGED <<key, written, pkt, cursor>>

\* PacketSession::Send.
Send ==
    /\ stage = "made"
    /\ buffer' = Crypt(buffer, key)
    /\ stage' = "sent"
    /\ UNCHANGED <<key, written, pkt, cursor>>

\* A packet that this code did not write: a header that fits, and any body.
SendOther ==
    /\ stage = "idle"
    /\ \E id \in {C_LOGIN, C_PONG, Unknown}, body \in Bodies : buffer' = WithHeader(id, body)
    /\ stage' = "sent"
    /\ UNCHANGED <<key, written, pkt, cursor>>

HasPacket(b) == Len(b) >= HeaderSize /\ SizeOf(b) \in HeaderSize..Len(b)

\* OnRecv cuts the packet from the stream by the size in its header; what the
\* size does not cover is taken for the packets that follow.
Cut ==
    /\ stage = "sent"
    /\ \/ /\ HasPacket(buffer)
          /\ buffer' = SubSeq(buffer, 1, SizeOf(buffer))
          /\ stage' = "cut"
       \/ ~HasPacket(buffer) /\ stage' = "dropped" /\ UNCHANGED buffer
    /\ UNCHANGED <<key, written, pkt, cursor>>

\* The task that OnPacket posted.
DecryptPacket ==
    /\ stage = "cut"
    /\ buffer' = Crypt(buffer, key)
    /\ stage' = "decrypted"
    /\ UNCHANGED <<key, written, pkt, cursor>>

\* Dispatch finds the handler of the id; HandlePacket and Handle_C_LOGIN read
\* the struct.
DispatchLogin ==
    /\ stage = "decrypted"
    /\ Len(buffer) >= HeaderSize /\ IdOf(buffer) = C_LOGIN
    /\ LET first  == ReadString(buffer, HeaderSize, <<>>)
           second == ReadString(buffer, first.pos, <<>>)
       IN /\ pkt' = [username |-> first.value, password |-> second.value]
          /\ cursor' = second.pos
    /\ stage' = "read"
    /\ UNCHANGED <<key, written, buffer>>

DispatchOther ==
    /\ stage = "decrypted"
    /\ Len(buffer) < HeaderSize \/ IdOf(buffer) # C_LOGIN
    /\ stage' = "read"
    /\ UNCHANGED <<key, written, buffer, pkt, cursor>>

Next ==
    \/ MakeLogin \/ MakePong \/ Send \/ SendOther
    \/ Cut \/ DecryptPacket \/ DispatchLogin \/ DispatchOther

Spec == Init /\ [][Next]_vars

------------------------------------------------------------------------------
(* Properties.                                                             *)

\* The type of every variable.
TypeOK ==
    /\ key \in Keys
    /\ stage \in {"idle", "made", "sent", "cut", "decrypted", "read", "dropped"}
    /\ written \subseteq [username : Strings, password : Strings]
    /\ buffer \in Seq(Byte)
    /\ pkt \in [username : Seq(Byte), password : Seq(Byte)]
    /\ cursor \in Nat

\* A string whose length does not fit its size field loses what wraps around.
Truncated(s) == SubSeq(s, 1, Len(s) % Wrap)

PacketSize(l) ==
    HeaderSize + 2 + Len(Truncated(l.username)) + 2 + Len(Truncated(l.password))

\* What the handler reads is what the other side wrote, with any key: both
\* strings, but for what a size field cannot count, as long as the packet's
\* own size fits.
LoginArrives ==
    \A l \in written :
        PacketSize(l) < Wrap /\ stage = "read" =>
            pkt = Login(Truncated(l.username), Truncated(l.password))

\* A packet whose size fits is cut from the stream as it was sent: no byte of
\* it is left over to be taken for the next packet's header.
PacketsStayWhole ==
    [][\A l \in written :
          PacketSize(l) < Wrap /\ stage = "sent" => stage' = "cut" /\ buffer' = buffer]_vars

\* Whatever the body, the reader's cursor stays within the packet.
CursorInside == cursor <= Len(buffer)

Body == SubSeq(buffer, HeaderSize + 1, Len(buffer))

\* A body from anywhere that begins with two encoded strings is read as them:
\* there is one way to read a packet, and the reader finds it.
ReadsWhatStands ==
    stage = "read" /\ IdOf(buffer) = C_LOGIN =>
        \A m, n \in 0..Len(Body) :
            LET u == SubSeq(Body, 3, m + 2)
                p == SubSeq(Body, m + 5, m + n + 4)
            IN /\ m + n + 4 <= Len(Body)
               /\ LoginBody(u, p) = SubSeq(Body, 1, m + n + 4)
               => pkt = Login(u, p)

------------------------------------------------------------------------------
(* The inductive invariant of the proofs.                                  *)

\* The packet of l as MakeSendBuffer makes it.
Packed(l) == WithHeader(C_LOGIN, LoginBody(l.username, l.password))

\* A packet whose size fits is encrypted from Send to DecryptPacket and plain
\* before and after, whole all the time.
OnItsWay ==
    \A l \in written : PacketSize(l) < Wrap =>
        /\ stage \in {"made", "decrypted", "read"} => buffer = Packed(l)
        /\ stage \in {"sent", "cut"} => buffer = Crypt(Packed(l), key)
        /\ stage # "dropped"

\* The two strings that the reader finds in a packet.
LoginIn(b) ==
    LET first == ReadString(b, HeaderSize, <<>>)
    IN Login(first.value, ReadString(b, first.pos, <<>>).value)

\* Only a packet with a whole header is dispatched, and only then does the
\* cursor leave 0.
WholeHeader ==
    /\ stage \in {"cut", "decrypted", "read"} => Len(buffer) >= HeaderSize
    /\ stage # "read" => cursor = 0

\* What was read from a packet is what the reader finds in it.
ReadAsItStands ==
    /\ stage = "read" /\ IdOf(buffer) = C_LOGIN => pkt = LoginIn(buffer)
    /\ stage = "idle" => written = {}

\* The inductive invariant.
IInv == TypeOK /\ CursorInside /\ WholeHeader /\ ReadAsItStands /\ OnItsWay
==============================================================================
