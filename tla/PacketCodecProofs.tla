-------------------------- MODULE PacketCodecProofs ---------------------------
(***************************************************************************)
(* Theorems about PacketCodec, for bytes of any width, any keys, strings   *)
(* and bodies.                                                             *)
(***************************************************************************)
EXTENDS PacketCodec, SequenceTheorems, TLAPS

\* The cipher keeps a packet's length and gives bytes again.
LEMMA CryptType ==
  ASSUME NEW b \in Seq(Byte), NEW k \in Seq(Byte)
  PROVE  /\ Crypt(b, k) \in Seq(Byte)
         /\ Len(Crypt(b, k)) = Len(b)
         /\ DOMAIN Crypt(b, k) = DOMAIN b
<1>1. \A i \in DOMAIN b : b[i] \in Byte
  OBVIOUS
<1>2. \A i \in DOMAIN b : k # <<>> /\ i > HeaderSize =>
         ((i - HeaderSize - 1) % Len(k)) + 1 \in 1..Len(k)
  <2> SUFFICES ASSUME NEW i \in DOMAIN b, k # <<>>, i > HeaderSize
               PROVE  ((i - HeaderSize - 1) % Len(k)) + 1 \in 1..Len(k)
    OBVIOUS
  <2>1. Len(k) \in Nat \ {0}
    OBVIOUS
  <2>2. i - HeaderSize - 1 \in Nat
    BY DEF HeaderSize
  <2> QED
    BY <2>1, <2>2
<1>3. \A i \in DOMAIN b : Crypt(b, k)[i] \in Byte
  <2> SUFFICES ASSUME NEW i \in DOMAIN b
               PROVE  Crypt(b, k)[i] \in Byte
    OBVIOUS
  <2>1. CASE i <= HeaderSize \/ k = <<>>
    BY <1>1, <2>1 DEF Crypt
  <2>2. CASE ~(i <= HeaderSize \/ k = <<>>)
    <3> DEFINE j == ((i - HeaderSize - 1) % Len(k)) + 1
    <3>1. j \in 1..Len(k)
      BY <1>2, <2>2 DEF HeaderSize
    <3>2. k[j] \in Byte
      BY <3>1
    <3>3. Crypt(b, k)[i] = XorByte(b[i], k[j])
      BY <2>2 DEF Crypt
    <3> HIDE DEF j
    <3> QED
      BY <1>1, <3>2, <3>3, BytesAssumption
  <2> QED
    BY <2>1, <2>2
<1>4. DOMAIN Crypt(b, k) = 1..Len(b)
  BY DEF Crypt
<1>5. Crypt(b, k) = [i \in 1..Len(b) |-> Crypt(b, k)[i]]
  BY DEF Crypt
<1>6. Crypt(b, k) \in [1..Len(b) -> Byte]
  <2> DEFINE c == Crypt(b, k)
  <2>1. \A i \in 1..Len(b) : c[i] \in Byte
    BY <1>3
  <2>2. c = [i \in 1..Len(b) |-> c[i]]
    BY <1>5
  <2> HIDE DEF c
  <2>3. c \in [1..Len(b) -> Byte]
    BY <2>1, <2>2
  <2> QED
    BY <2>3 DEF c
<1>7. Len(b) \in Nat
  OBVIOUS
<1>8. Crypt(b, k) \in Seq(Byte)
  BY <1>6, <1>7, SeqDef
<1>9. Len(Crypt(b, k)) = Len(b)
  BY <1>4, <1>7, <1>8, LenProperties
<1> QED
  BY <1>4, <1>8, <1>9

\* Decrypting with the same key undoes encrypting.
THEOREM DecryptUndoesEncrypt ==
  ASSUME NEW b \in Seq(Byte), NEW k \in Seq(Byte)
  PROVE  Crypt(Crypt(b, k), k) = b
<1> DEFINE c == Crypt(b, k)
<1>1. c \in Seq(Byte) /\ DOMAIN c = DOMAIN b
  BY CryptType
<1>2. ASSUME NEW i \in DOMAIN b
      PROVE  Crypt(c, k)[i] = b[i]
  <2>1. CASE i <= HeaderSize \/ k = <<>>
    BY <1>1, <2>1 DEF Crypt
  <2>2. CASE ~(i <= HeaderSize \/ k = <<>>)
    <3> DEFINE j == ((i - HeaderSize - 1) % Len(k)) + 1
    <3>1. i - HeaderSize - 1 \in Nat /\ Len(k) \in Nat \ {0}
      BY <2>2 DEF HeaderSize
    <3>2. j \in 1..Len(k)
      BY <3>1
    <3>3. k[j] \in Byte /\ b[i] \in Byte
      BY <3>2
    <3>4. c[i] = XorByte(b[i], k[j])
      BY <2>2 DEF Crypt
    <3>5. Crypt(c, k)[i] = XorByte(c[i], k[j])
      BY <1>1, <2>2 DEF Crypt
    <3> HIDE DEF j, c
    <3> QED
      BY <3>3, <3>4, <3>5, BytesAssumption
  <2> QED
    BY <2>1, <2>2
<1>3. DOMAIN Crypt(c, k) = DOMAIN b
  BY <1>1 DEF Crypt
<1>4. Crypt(c, k) = [i \in DOMAIN b |-> Crypt(c, k)[i]]
  BY <1>1 DEF Crypt
<1>5. b = [i \in DOMAIN b |-> b[i]]
  OBVIOUS
<1> HIDE DEF c
<1>6. Crypt(c, k) = b
  BY <1>2, <1>4, <1>5
<1> QED
  BY <1>6 DEF c

------------------------------------------------------------------------------
(* What is written and read are bytes.                                     *)

\* The bytes of a size are bytes.
LEMMA BytesType ==
  ASSUME NEW n \in Nat
  PROVE  Bytes(n) \in Seq(Byte) /\ Len(Bytes(n)) = 2
<1>1. n % Base \in Byte
  BY BytesAssumption DEF Byte
<1>2. n \div Base \in Nat
  BY BytesAssumption
<1>3. (n \div Base) % Base \in Byte
  BY <1>2, BytesAssumption DEF Byte
<1> QED
  BY <1>1, <1>3 DEF Bytes

\* operator<< writes bytes.
LEMMA WriteStringType ==
  ASSUME NEW b \in Seq(Byte), NEW s \in Seq(Byte)
  PROVE  WriteString(b, s) \in Seq(Byte)
<1>1. Wrap \in Nat \ {0}
  BY BytesAssumption DEF Wrap, HeaderSize
<1>2. Len(s) % Wrap \in 0..Len(s)
  BY <1>1
<1>3. SubSeq(s, 1, Len(s) % Wrap) \in Seq(Byte)
  BY <1>2
<1>4. Bytes(Len(s)) \in Seq(Byte)
  BY BytesType
<1> QED
  BY <1>3, <1>4 DEF WriteString

\* A packet with its header is a sequence of bytes.
LEMMA WithHeaderType ==
  ASSUME NEW id \in Nat, NEW body \in Seq(Byte)
  PROVE  WithHeader(id, body) \in Seq(Byte)
<1>1. HeaderSize + Len(body) \in Nat
  BY DEF HeaderSize
<1>2. Bytes(HeaderSize + Len(body)) \in Seq(Byte) /\ Bytes(id) \in Seq(Byte)
  BY <1>1, BytesType
<1> QED
  BY <1>2 DEF WithHeader, HeaderOf

\* operator>> leaves the cursor in the packet, whatever the bytes are.
LEMMA ReadStringInside ==
  ASSUME NEW b \in Seq(Byte), NEW pos \in 0..Len(b), NEW old \in Seq(Byte)
  PROVE  /\ ReadString(b, pos, old).value \in Seq(Byte)
         /\ ReadString(b, pos, old).pos \in 0..Len(b)
<1> DEFINE size == ReadSize(b, pos)
           start == AfterSize(b, pos)
<1>1. start \in 0..Len(b)
  BY DEF AfterSize
<1>2. size \in Nat
  <2>1. CASE pos + 2 > Len(b)
    BY <2>1 DEF ReadSize
  <2>2. CASE pos + 2 <= Len(b)
    <3>1. b[pos + 1] \in Nat /\ b[pos + 2] \in Nat
      <4>1. pos + 1 \in 1..Len(b) /\ pos + 2 \in 1..Len(b)
        BY <2>2
      <4>2. b[pos + 1] \in Byte /\ b[pos + 2] \in Byte
        BY <4>1
      <4> QED
        BY <4>2 DEF Byte
    <3>2. Base \in Nat
      BY BytesAssumption
    <3>3. Base * b[pos + 2] \in Nat
      BY <3>1, <3>2
    <3>4. ReadSize(b, pos) = b[pos + 1] + Base * b[pos + 2]
      BY <2>2 DEF ReadSize, Number
    <3> QED
      BY <3>1, <3>3, <3>4
  <2> QED
    BY <2>1, <2>2
<1>3. ReadString(b, pos, old) =
        IF start + size > Len(b)
        THEN [value |-> old, pos |-> start]
        ELSE [value |-> SubSeq(b, start + 1, start + size), pos |-> start + size]
  BY DEF ReadString
<1> HIDE DEF size, start
<1>4. CASE start + size > Len(b)
  BY <1>1, <1>3, <1>4
<1>5. CASE start + size <= Len(b)
  <2>1. SubSeq(b, start + 1, start + size) \in Seq(Byte)
    BY <1>1, <1>2, <1>5
  <2>2. start + size \in 0..Len(b)
    BY <1>1, <1>2, <1>5
  <2>3. ReadString(b, pos, old) =
          [value |-> SubSeq(b, start + 1, start + size), pos |-> start + size]
    BY <1>1, <1>2, <1>3, <1>5
  <2> QED
    BY <2>1, <2>2, <2>3
<1> QED
  BY <1>1, <1>2, <1>4, <1>5

------------------------------------------------------------------------------
(* What a size field holds, and what the strings behind it are read as.    *)

\* Quotient and remainder, and the one way to write a number with them.
LEMMA DivMod ==
  ASSUME NEW d \in Nat \ {0}, NEW n \in Nat
  PROVE  /\ n = d * (n \div d) + (n % d)
         /\ n \div d \in Nat
         /\ n % d \in 0..(d - 1)
  OBVIOUS

\* Numbers below a divisor are remainders.
LEMMA RemainderIsUnique ==
  ASSUME NEW d \in Nat \ {0}, NEW n \in Nat, NEW q \in Nat, NEW r \in 0..(d - 1),
         n = d * q + r
  PROVE  n % d = r
  OBVIOUS

\* Multiplication distributes, in the form in which sizes are put together.
LEMMA ProductOfSum ==
  ASSUME NEW a \in Nat, NEW b \in Nat, NEW c \in Nat
  PROVE  a * (a * b + c) = (a * a) * b + a * c
  OBVIOUS

\* Where the bytes of a concatenation and of a part are.
LEMMA ConcatAt ==
  ASSUME NEW s \in Seq(Byte), NEW t \in Seq(Byte)
  PROVE  /\ s \o t \in Seq(Byte) /\ Len(s \o t) = Len(s) + Len(t)
         /\ \A i \in 1..Len(s) : (s \o t)[i] = s[i]
         /\ \A i \in 1..Len(t) : (s \o t)[Len(s) + i] = t[i]
<1>1. s \o t \in Seq(Byte) /\ Len(s \o t) = Len(s) + Len(t)
  OBVIOUS
<1>2. \A i \in 1..Len(s) : (s \o t)[i] = s[i]
  OBVIOUS
<1>3. ASSUME NEW i \in 1..Len(t) PROVE (s \o t)[Len(s) + i] = t[i]
  <2>1. PICK n \in Nat, m \in Nat : n = Len(s) /\ m = Len(t)
    OBVIOUS
  <2>2. n + i \in 1..(n + m) /\ ~(n + i <= n) /\ (n + i) - n = i
    BY <2>1
  <2> QED
    BY <2>1, <2>2
<1> QED
  BY <1>1, <1>2, <1>3

\* Where the bytes of a part of a packet stand in the packet.
LEMMA PartAt ==
  ASSUME NEW b \in Seq(Byte), NEW pos \in Nat, NEW k \in Nat, pos + k <= Len(b)
  PROVE  /\ SubSeq(b, pos + 1, pos + k) \in Seq(Byte)
         /\ Len(SubSeq(b, pos + 1, pos + k)) = k
         /\ \A i \in 1..k : SubSeq(b, pos + 1, pos + k)[i] = b[pos + i]
<1>1. SubSeq(b, pos + 1, pos + k) \in Seq(Byte) /\ Len(SubSeq(b, pos + 1, pos + k)) = k
  OBVIOUS
<1>2. ASSUME NEW i \in 1..k PROVE SubSeq(b, pos + 1, pos + k)[i] = b[pos + i]
  <2>1. (pos + 1) + i - 1 = pos + i
    OBVIOUS
  <2> QED
    BY <1>1, <2>1
<1> QED
  BY <1>1, <1>2

\* Base and Wrap are positive.
LEMMA WrapIsPositive == Wrap \in Nat \ {0} /\ Base \in Nat \ {0}
  BY BytesAssumption DEF Wrap, HeaderSize

\* Two bytes hold a number up to what wraps around.
LEMMA NumberOfBytes ==
  ASSUME NEW n \in Nat
  PROVE  (n % Base) + Base * ((n \div Base) % Base) = n % Wrap
<1>1. Base \in Nat \ {0}
  BY WrapIsPositive
<1>2. PICK q \in Nat, r \in 0..(Base - 1) :
        q = n \div Base /\ r = n % Base /\ n = Base * q + r
  BY <1>1, DivMod
<1>3. PICK q2 \in Nat, r2 \in 0..(Base - 1) :
        q2 = q \div Base /\ r2 = q % Base /\ q = Base * q2 + r2
  BY <1>1, DivMod
<1>4. Base * r2 + r \in 0..(Base * Base - 1)
  BY <1>1, <1>2, <1>3
<1>5. n = (Base * Base) * q2 + (Base * r2 + r)
  <2>1. Base * (Base * q2 + r2) = (Base * Base) * q2 + Base * r2
    BY <1>1, ProductOfSum
  <2>2. n = ((Base * Base) * q2 + Base * r2) + r
    BY <1>2, <1>3, <2>1
  <2>3. (Base * Base) * q2 \in Nat /\ Base * r2 \in Nat
    BY <1>1
  <2> QED
    BY <2>2, <2>3
<1>6. Base * Base \in Nat \ {0}
  BY <1>1
<1>7. n % (Base * Base) = Base * r2 + r
  BY <1>4, <1>5, <1>6, RemainderIsUnique
<1>8. (n % Base) + Base * ((n \div Base) % Base) = r + Base * r2
  BY <1>2, <1>3
<1>9. r + Base * r2 = Base * r2 + r
  BY <1>1, <1>2, <1>3
<1> QED
  BY <1>7, <1>8, <1>9 DEF Wrap

\* The strings that the size fields leave.
LEMMA TruncatedType ==
  ASSUME NEW s \in Seq(Byte)
  PROVE  /\ Truncated(s) \in Seq(Byte)
         /\ Len(Truncated(s)) \in Nat /\ Len(Truncated(s)) = Len(s) % Wrap
         /\ Len(Truncated(s)) <= Len(s)
         /\ Len(Truncated(s)) = Len(s) => Truncated(s) = s
<1>1. Len(s) \in Nat /\ Wrap \in Nat \ {0}
  BY WrapIsPositive
<1>2. PICK k \in Nat : k = Len(s) % Wrap /\ k <= Len(s)
  <2>1. Len(s) % Wrap \in 0..Len(s)
    BY <1>1
  <2> QED
    BY <1>1, <2>1
<1>3. SubSeq(s, 1, k) \in Seq(Byte) /\ Len(SubSeq(s, 1, k)) = k
  BY <1>1, <1>2
<1>4. SubSeq(s, 1, Len(s)) = s
  BY <1>1
<1> QED
  BY <1>2, <1>3, <1>4 DEF Truncated

\* Behind the first pos bytes of b stands s as operator<< writes it: two bytes
\* of size, and what the size leaves of the string.
Stands(s, b, pos) ==
    /\ pos + 2 + Len(Truncated(s)) <= Len(b)
    /\ b[pos + 1] = Len(s) % Base
    /\ b[pos + 2] = (Len(s) \div Base) % Base
    /\ \A i \in 1..Len(Truncated(s)) : b[pos + 2 + i] = Truncated(s)[i]

\* What operator<< wrote is a string that stands there.
LEMMA WriteStands ==
  ASSUME NEW b \in Seq(Byte), NEW s \in Seq(Byte)
  PROVE  /\ WriteString(b, s) \in Seq(Byte)
         /\ Len(WriteString(b, s)) = Len(b) + 2 + Len(Truncated(s))
         /\ \A i \in 1..Len(b) : WriteString(b, s)[i] = b[i]
         /\ Stands(s, WriteString(b, s), Len(b))
<1>1. PICK t, z, two : t = Truncated(s) /\ z = Bytes(Len(s)) /\ two = 2
  OBVIOUS
<1>2. PICK n \in Nat, k \in Nat : n = Len(b) /\ k = Len(t)
  BY <1>1, TruncatedType
<1>3. t \in Seq(Byte)
  BY <1>1, TruncatedType
<1>4. /\ z \in Seq(Byte) /\ Len(z) = two /\ two \in Nat
      /\ z[1] = Len(s) % Base /\ z[2] = (Len(s) \div Base) % Base
  BY <1>1, BytesType DEF Bytes
<1>5. PICK y : y = b \o z
  OBVIOUS
<1>6. /\ y \in Seq(Byte) /\ Len(y) = n + two
      /\ \A i \in 1..n : y[i] = b[i]
      /\ \A i \in 1..two : y[n + i] = z[i]
  BY <1>2, <1>4, <1>5, ConcatAt
<1>7. PICK w : w = y \o t
  OBVIOUS
<1>8. /\ w \in Seq(Byte) /\ Len(w) = n + two + k
      /\ \A i \in 1..(n + two) : w[i] = y[i]
      /\ \A i \in 1..k : w[n + two + i] = t[i]
  <2>1. /\ w \in Seq(Byte) /\ Len(w) = Len(y) + Len(t)
        /\ \A i \in 1..Len(y) : w[i] = y[i]
        /\ \A i \in 1..Len(t) : w[Len(y) + i] = t[i]
    <3>1. y \in Seq(Byte)
      BY <1>6
    <3> QED
      BY <1>3, <1>7, <3>1, ConcatAt
  <2>2. Len(y) = n + two /\ Len(t) = k
    BY <1>2, <1>6
  <2> QED
    BY <2>1, <2>2
<1>9. WriteString(b, s) = w
  BY <1>1, <1>5, <1>7 DEF WriteString, Truncated
<1>10. \A i \in 1..n : w[i] = b[i]
  <2>1. \A i \in 1..n : i \in 1..(n + two)
    BY <1>4
  <2> QED
    BY <1>6, <1>8, <2>1
<1>11. w[n + 1] = z[1] /\ w[n + 2] = z[2]
  <2>1. 1 \in 1..two /\ 2 \in 1..two /\ n + 1 \in 1..(n + two) /\ n + 2 \in 1..(n + two)
    BY <1>1
  <2> QED
    BY <1>6, <1>8, <2>1
<1>12. Stands(s, w, n)
  BY <1>1, <1>2, <1>4, <1>8, <1>11 DEF Stands
<1> QED
  BY <1>1, <1>2, <1>8, <1>9, <1>10, <1>12

\* A string still stands in what contains its bytes.
LEMMA StandsInside ==
  ASSUME NEW s \in Seq(Byte), NEW b \in Seq(Byte), NEW c \in Seq(Byte),
         NEW pos \in Nat, NEW off \in Nat,
         Stands(s, b, pos), off + Len(b) <= Len(c),
         \A i \in 1..Len(b) : c[off + i] = b[i]
  PROVE  Stands(s, c, off + pos)
<1>1. PICK n \in Nat, m \in Nat, k \in Nat :
        n = Len(b) /\ m = Len(c) /\ k = Len(Truncated(s))
  BY TruncatedType
<1>2. pos + 2 + k <= n /\ off + n <= m /\ \A i \in 1..n : c[off + i] = b[i]
  BY <1>1 DEF Stands
<1>3. (off + pos) + 2 + k <= m
  BY <1>2
<1>4. /\ pos + 1 \in 1..n /\ off + (pos + 1) = (off + pos) + 1
      /\ pos + 2 \in 1..n /\ off + (pos + 2) = (off + pos) + 2
      /\ \A i \in 1..k : /\ pos + 2 + i \in 1..n
                          /\ off + (pos + 2 + i) = (off + pos) + 2 + i
  BY <1>2
<1>5. c[(off + pos) + 1] = b[pos + 1] /\ c[(off + pos) + 2] = b[pos + 2]
  BY <1>2, <1>4
<1>6. ASSUME NEW i \in 1..k PROVE c[(off + pos) + 2 + i] = b[pos + 2 + i]
  <2>1. PICK x : x = pos + 2 + i
    OBVIOUS
  <2>2. x \in 1..n /\ off + x = (off + pos) + 2 + i
    BY <1>4, <2>1
  <2>3. c[off + x] = b[x]
    BY <1>2, <2>2
  <2> QED
    BY <2>1, <2>2, <2>3, Zenon
<1> QED
  BY <1>1, <1>3, <1>5, <1>6 DEF Stands

\* What stands in a packet is what operator>> reads, with its cursor behind it.
LEMMA StandsReads ==
  ASSUME NEW b \in Seq(Byte), NEW s \in Seq(Byte), NEW pos \in Nat, NEW old,
         Stands(s, b, pos)
  PROVE  ReadString(b, pos, old) =
           [value |-> Truncated(s), pos |-> pos + 2 + Len(Truncated(s))]
<1>1. PICK k \in Nat, n \in Nat, t \in Seq(Byte) :
        k = Len(t) /\ n = Len(b) /\ t = Truncated(s)
  BY TruncatedType
<1>2. /\ pos + 2 + k <= n
      /\ b[pos + 1] = Len(s) % Base /\ b[pos + 2] = (Len(s) \div Base) % Base
      /\ \A i \in 1..k : b[pos + 2 + i] = t[i]
  BY <1>1 DEF Stands
<1>3. ReadSize(b, pos) = k
  <2>1. ~(pos + 2 > n) /\ (pos + 1) + 1 = pos + 2
    BY <1>2
  <2>2. ReadSize(b, pos) = (Len(s) % Base) + Base * ((Len(s) \div Base) % Base)
    BY <1>1, <1>2, <2>1 DEF ReadSize, Number
  <2>3. Len(s) \in Nat /\ k = Len(s) % Wrap
    BY <1>1, TruncatedType
  <2> QED
    BY <2>2, <2>3, NumberOfBytes
<1>4. PICK start \in Nat : start = pos + 2
  OBVIOUS
<1>5. AfterSize(b, pos) = start
  BY <1>1, <1>2, <1>4 DEF AfterSize
<1>6. SubSeq(b, start + 1, start + k) = t
  <2>1. PICK v : v = SubSeq(b, start + 1, start + k)
    OBVIOUS
  <2>2. start + k <= Len(b)
    BY <1>1, <1>2, <1>4
  <2>3. v \in Seq(Byte) /\ Len(v) = k /\ \A i \in 1..k : v[i] = b[start + i]
    <3>1. v \in Seq(Byte) /\ Len(v) = k
      BY <2>1, <2>2, PartAt
    <3>2. \A i \in 1..k : v[i] = b[start + i]
      BY <2>1, <2>2, PartAt
    <3> QED
      BY <3>1, <3>2
  <2>4. \A i \in 1..k : v[i] = t[i]
    BY <1>2, <1>4, <2>3
  <2>5. v = t
    BY <1>1, <2>3, <2>4, SeqEqual
  <2> QED
    BY <2>1, <2>5
<1>7. ~(start + k > Len(b)) /\ start + k = pos + 2 + k
  BY <1>1, <1>2, <1>4
<1> QED
  BY <1>1, <1>3, <1>5, <1>6, <1>7 DEF ReadString

\* The body of a PKT_C_LOGIN is two strings, one behind the other.
LEMMA LoginBodyStands ==
  ASSUME NEW u \in Seq(Byte), NEW p \in Seq(Byte)
  PROVE  /\ LoginBody(u, p) \in Seq(Byte)
         /\ Len(LoginBody(u, p)) = 2 + Len(Truncated(u)) + 2 + Len(Truncated(p))
         /\ Stands(u, LoginBody(u, p), 0)
         /\ Stands(p, LoginBody(u, p), 2 + Len(Truncated(u)))
<1>1. PICK none, nil : none = <<>> /\ nil = 0
  OBVIOUS
<1>2. none \in Seq(Byte) /\ Len(none) = nil
  BY <1>1
<1>3. PICK b : b = WriteString(none, u)
  OBVIOUS
<1>4. PICK k \in Nat, n \in Nat : k = Len(Truncated(u)) /\ n = 2 + k
  BY TruncatedType
<1>5. b \in Seq(Byte) /\ Len(b) = n /\ Stands(u, b, 0)
  <2>1. b \in Seq(Byte) /\ Len(b) = nil + 2 + k /\ Stands(u, b, nil)
    BY <1>2, <1>3, <1>4, WriteStands
  <2> QED
    BY <1>1, <1>4, <2>1
<1>6. PICK body : body = WriteString(b, p)
  OBVIOUS
<1>7. /\ body \in Seq(Byte) /\ Len(body) = n + 2 + Len(Truncated(p))
      /\ \A i \in 1..n : body[i] = b[i]
      /\ Stands(p, body, n)
  BY <1>5, <1>6, WriteStands
<1>8. Stands(u, body, 0)
  <2>1. Len(Truncated(p)) \in Nat
    BY TruncatedType
  <2>2. 0 + Len(b) <= Len(body)
    BY <1>5, <1>7, <2>1
  <2>3. \A i \in 1..Len(b) : body[0 + i] = b[i]
    BY <1>5, <1>7
  <2>4. Stands(u, body, 0 + 0)
    BY <1>5, <1>7, <2>2, <2>3, StandsInside
  <2> QED
    BY <2>4
<1>9. LoginBody(u, p) = body
  BY <1>1, <1>3, <1>6 DEF LoginBody
<1> QED
  BY <1>4, <1>7, <1>8, <1>9

\* Where a packet's body is that of a PKT_C_LOGIN, or begins with it, the two
\* strings are read as they stand.
LEMMA LoginReads ==
  ASSUME NEW u \in Seq(Byte), NEW p \in Seq(Byte), NEW b \in Seq(Byte),
         HeaderSize + Len(LoginBody(u, p)) <= Len(b),
         \A i \in 1..Len(LoginBody(u, p)) : b[HeaderSize + i] = LoginBody(u, p)[i]
  PROVE  LoginIn(b) = Login(Truncated(u), Truncated(p))
<1>1. PICK body : body = LoginBody(u, p)
  OBVIOUS
<1>2. PICK k \in Nat : k = Len(Truncated(u))
  BY TruncatedType
<1>3. body \in Seq(Byte) /\ Stands(u, body, 0) /\ Stands(p, body, 2 + k)
  BY <1>1, <1>2, LoginBodyStands
<1>4. HeaderSize \in Nat /\ 2 + k \in Nat
  BY DEF HeaderSize
<1>5. /\ HeaderSize + Len(body) <= Len(b)
      /\ \A i \in 1..Len(body) : b[HeaderSize + i] = body[i]
  BY <1>1
<1>6. Stands(u, b, HeaderSize + 0) /\ Stands(p, b, HeaderSize + (2 + k))
  BY <1>3, <1>4, <1>5, StandsInside
<1>7. PICK pos \in Nat : pos = HeaderSize + (2 + k)
  BY <1>4
<1>8. HeaderSize + 0 = HeaderSize /\ HeaderSize + 2 + k = pos
  BY <1>4, <1>7
<1>9. /\ ReadString(b, HeaderSize, <<>>) = [value |-> Truncated(u), pos |-> pos]
      /\ ReadString(b, pos, <<>>).value = Truncated(p)
  <2>1. Stands(u, b, HeaderSize) /\ Stands(p, b, pos)
    BY <1>6, <1>7, <1>8
  <2> QED
    BY <1>2, <1>4, <1>8, <2>1, StandsReads
<1> QED
  BY <1>9 DEF LoginIn

\* A packet is its header and its body, and the header's size, if it fits, is
\* that of the packet.
LEMMA WithHeaderShape ==
  ASSUME NEW id \in Nat, NEW body \in Seq(Byte)
  PROVE  /\ WithHeader(id, body) \in Seq(Byte)
         /\ Len(WithHeader(id, body)) = HeaderSize + Len(body)
         /\ \A i \in 1..Len(body) : WithHeader(id, body)[HeaderSize + i] = body[i]
         /\ HeaderSize + Len(body) < Wrap =>
               SizeOf(WithHeader(id, body)) = HeaderSize + Len(body)
         /\ id < Wrap => IdOf(WithHeader(id, body)) = id
<1>1. PICK size \in Nat : size = HeaderSize + Len(body)
  BY DEF HeaderSize
<1>2. PICK x, y, two : x = Bytes(size) /\ y = Bytes(id) /\ two = 2
  OBVIOUS
<1>3. /\ x \in Seq(Byte) /\ Len(x) = two /\ y \in Seq(Byte) /\ Len(y) = two
      /\ x[1] = size % Base /\ x[2] = (size \div Base) % Base /\ two \in Nat
      /\ y[1] = id % Base /\ y[2] = (id \div Base) % Base
  BY <1>2, BytesType DEF Bytes
<1>4. PICK h : h = x \o y
  OBVIOUS
<1>5. /\ h \in Seq(Byte) /\ Len(h) = two + two
      /\ \A i \in 1..two : h[i] = x[i] /\ h[two + i] = y[i]
  <2>1. /\ h \in Seq(Byte) /\ Len(h) = Len(x) + Len(y)
        /\ \A i \in 1..Len(x) : h[i] = x[i]
        /\ \A i \in 1..Len(y) : h[Len(x) + i] = y[i]
    <3>1. x \in Seq(Byte) /\ y \in Seq(Byte)
      BY <1>3
    <3>2. /\ x \o y \in Seq(Byte) /\ Len(x \o y) = Len(x) + Len(y)
          /\ \A i \in 1..Len(x) : (x \o y)[i] = x[i]
          /\ \A i \in 1..Len(y) : (x \o y)[Len(x) + i] = y[i]
      BY <3>1, ConcatAt
    <3> QED
      BY <1>4, <3>2
  <2> QED
    BY <1>3, <2>1
<1>6. PICK b : b = h \o body
  OBVIOUS
<1>7. /\ b \in Seq(Byte) /\ Len(b) = (two + two) + Len(body)
      /\ \A i \in 1..(two + two) : b[i] = h[i]
      /\ \A i \in 1..Len(body) : b[(two + two) + i] = body[i]
  <2>1. /\ b \in Seq(Byte) /\ Len(b) = Len(h) + Len(body)
        /\ \A i \in 1..Len(h) : b[i] = h[i]
        /\ \A i \in 1..Len(body) : b[Len(h) + i] = body[i]
    BY <1>5, <1>6, ConcatAt
  <2> QED
    BY <1>5, <2>1
<1>8. two + two = HeaderSize /\ 1 \in 1..two /\ 2 \in 1..two
      /\ 1 \in 1..(two + two) /\ 2 \in 1..(two + two) /\ 1 + 1 = 2
      /\ two + 1 \in 1..(two + two) /\ two + 2 \in 1..(two + two)
      /\ two + 1 = 3 /\ two + 2 = 4 /\ 3 + 1 = 4
  BY <1>2 DEF HeaderSize
<1>9. SizeOf(b) = size % Wrap
  <2>1. b[1] = size % Base /\ b[2] = (size \div Base) % Base
    BY <1>3, <1>5, <1>7, <1>8
  <2>2. SizeOf(b) = (size % Base) + Base * ((size \div Base) % Base)
    BY <2>1 DEF SizeOf, Number
  <2> QED
    BY <2>2, NumberOfBytes
<1>10. IdOf(b) = id % Wrap
  <2>1. b[two + 1] = id % Base /\ b[two + 2] = (id \div Base) % Base
    BY <1>3, <1>5, <1>7, <1>8
  <2>2. IdOf(b) = (id % Base) + Base * ((id \div Base) % Base)
    BY <1>8, <2>1 DEF IdOf, Number
  <2> QED
    BY <2>2, NumberOfBytes
<1>12. /\ size < Wrap => size % Wrap = size
       /\ id < Wrap => id % Wrap = id
  BY WrapIsPositive
<1>11. WithHeader(id, body) = b
  BY <1>1, <1>2, <1>4, <1>6 DEF WithHeader, HeaderOf
<1> QED
  BY <1>1, <1>7, <1>8, <1>9, <1>10, <1>11, <1>12

\* What follows the header is all that the cipher touches.
LEMMA CryptKeepsHeader ==
  ASSUME NEW b \in Seq(Byte), NEW k \in Seq(Byte), Len(b) >= HeaderSize
  PROVE  SizeOf(Crypt(b, k)) = SizeOf(b) /\ IdOf(Crypt(b, k)) = IdOf(b)
<1>1. \A i \in {1, 2, 3, 4} : i \in DOMAIN b /\ i <= HeaderSize
  BY DEF HeaderSize
<1>2. \A i \in {1, 2, 3, 4} : Crypt(b, k)[i] = b[i]
  BY <1>1 DEF Crypt
<1> QED
  BY <1>2 DEF SizeOf, IdOf, Number

\* The packet of a PKT_C_LOGIN whose size fits.
LEMMA PackedShape ==
  ASSUME NEW l \in [username : Strings, password : Strings], PacketSize(l) < Wrap
  PROVE  /\ Packed(l) \in Seq(Byte)
         /\ Len(Packed(l)) = PacketSize(l) /\ PacketSize(l) \in Nat
         /\ PacketSize(l) >= HeaderSize
         /\ SizeOf(Packed(l)) = PacketSize(l) /\ IdOf(Packed(l)) = C_LOGIN
         /\ LoginIn(Packed(l)) = Login(Truncated(l.username), Truncated(l.password))
<1>1. PICK u \in Seq(Byte), p \in Seq(Byte) : u = l.username /\ p = l.password
  BY InputsAssumption
<1>2. PICK j \in Nat, k \in Nat : j = Len(Truncated(u)) /\ k = Len(Truncated(p))
  BY TruncatedType
<1>3. PICK body : body = LoginBody(u, p)
  OBVIOUS
<1>4. body \in Seq(Byte) /\ Len(body) = 2 + j + 2 + k
  BY <1>2, <1>3, LoginBodyStands
<1>5. PacketSize(l) = HeaderSize + Len(body) /\ PacketSize(l) \in Nat
  BY <1>1, <1>2, <1>4 DEF PacketSize, HeaderSize
<1>6. PICK b : b = WithHeader(C_LOGIN, body)
  OBVIOUS
<1>7. Packed(l) = b
  BY <1>1, <1>3, <1>6 DEF Packed
<1>8. C_LOGIN \in Nat /\ C_LOGIN < Wrap
  BY InputsAssumption, WrapIsPositive
<1>9. /\ b \in Seq(Byte) /\ Len(b) = HeaderSize + Len(body)
      /\ \A i \in 1..Len(body) : b[HeaderSize + i] = body[i]
      /\ SizeOf(b) = HeaderSize + Len(body) /\ IdOf(b) = C_LOGIN
  BY <1>4, <1>5, <1>6, <1>8, WithHeaderShape
<1>10. LoginIn(b) = Login(Truncated(u), Truncated(p))
  <2>1. HeaderSize + Len(body) <= Len(b)
    BY <1>4, <1>5, <1>9
  <2> QED
    BY <1>3, <1>9, <2>1, LoginReads
<1>11. PacketSize(l) >= HeaderSize
  BY <1>2, <1>4, <1>5 DEF HeaderSize
<1> QED
  BY <1>1, <1>5, <1>7, <1>9, <1>10, <1>11

------------------------------------------------------------------------------
(* The invariant.                                                          *)

\* The body of a login is a sequence of bytes.
LEMMA LoginBodyType ==
  ASSUME NEW u \in Strings, NEW p \in Strings
  PROVE  LoginBody(u, p) \in Seq(Byte)
<1>1. u \in Seq(Byte) /\ p \in Seq(Byte) /\ <<>> \in Seq(Byte)
  BY InputsAssumption
<1>2. WriteString(<<>>, u) \in Seq(Byte)
  BY <1>1, WriteStringType
<1> QED
  BY <1>1, <1>2, WriteStringType DEF LoginBody

\* Packet ids are numbers.
LEMMA IdsAreNumbers == C_LOGIN \in Nat /\ C_PONG \in Nat /\ Unknown \in Nat
<1>1. Wrap \in Nat
  BY BytesAssumption DEF Wrap
<1> QED
  BY <1>1, InputsAssumption

\* At first there is no packet.
LEMMA InitEstablishes == Init => IInv
<1> SUFFICES ASSUME Init PROVE TypeOK /\ CursorInside /\ WholeHeader
  BY DEF Init, IInv, OnItsWay, ReadAsItStands
<1>1. pkt \in [username : Seq(Byte), password : Seq(Byte)]
  BY DEF Init, Login
<1>2. cursor = 0 /\ Len(buffer) = 0 /\ buffer \in Seq(Byte)
  BY DEF Init
<1> QED
  BY <1>1, <1>2 DEF Init, IInv, TypeOK, CursorInside, WholeHeader

\* Bytes stay bytes, and the cursor in the packet.
LEMMA NextKeepsBytes == IInv /\ [Next]_vars => (TypeOK /\ CursorInside /\ WholeHeader)'
<1> SUFFICES ASSUME IInv, [Next]_vars PROVE (TypeOK /\ CursorInside /\ WholeHeader)'
  OBVIOUS
<1>1. key \in Seq(Byte) /\ buffer \in Seq(Byte)
  BY InputsAssumption DEF IInv, TypeOK
<1>2. CASE MakeLogin
  <2>1. PICK u \in Strings, p \in Strings :
          /\ written' = {Login(u, p)}
          /\ buffer' = WithHeader(C_LOGIN, LoginBody(u, p))
    BY <1>2 DEF MakeLogin
  <2>2. buffer' \in Seq(Byte)
    BY <2>1, LoginBodyType, IdsAreNumbers, WithHeaderType
  <2>3. written' \subseteq [username : Strings, password : Strings]
    BY <2>1 DEF Login
  <2>4. cursor' = 0 /\ Len(buffer') \in Nat
    BY <1>2, <2>2 DEF MakeLogin, IInv, WholeHeader
  <2> QED
    BY <1>2, <2>2, <2>3, <2>4 DEF MakeLogin, IInv, TypeOK, CursorInside, WholeHeader
<1>3. CASE MakePong
  <2>1. buffer' \in Seq(Byte)
    <3>1. <<>> \in Seq(Byte)
      OBVIOUS
    <3> QED
      BY <1>3, <3>1, IdsAreNumbers, WithHeaderType DEF MakePong
  <2>2. cursor' = 0 /\ Len(buffer') \in Nat
    BY <1>3, <2>1 DEF MakePong, IInv, WholeHeader
  <2> QED
    BY <1>3, <2>1, <2>2 DEF MakePong, IInv, TypeOK, CursorInside, WholeHeader
<1>4. CASE Send
  <2>1. buffer' \in Seq(Byte) /\ Len(buffer') = Len(buffer)
    BY <1>1, <1>4, CryptType DEF Send
  <2> QED
    BY <1>4, <2>1 DEF Send, IInv, TypeOK, CursorInside, WholeHeader
<1>5. CASE SendOther
  <2>1. PICK id \in {C_LOGIN, C_PONG, Unknown}, body \in Bodies :
          buffer' = WithHeader(id, body)
    BY <1>5 DEF SendOther
  <2>2. buffer' \in Seq(Byte)
    BY <2>1, IdsAreNumbers, InputsAssumption, WithHeaderType
  <2>3. cursor' = 0 /\ Len(buffer') \in Nat
    BY <1>5, <2>2 DEF SendOther, IInv, WholeHeader
  <2> QED
    BY <1>5, <2>2, <2>3 DEF SendOther, IInv, TypeOK, CursorInside, WholeHeader
<1>6. CASE Cut
  <2>1. cursor' = 0 /\ key' = key /\ written' = written /\ pkt' = pkt
    BY <1>6 DEF Cut, IInv, WholeHeader
  <2>2. CASE stage' = "cut"
    <3>1. PICK size \in HeaderSize..Len(buffer) : buffer' = SubSeq(buffer, 1, size)
      BY <1>6, <2>2 DEF Cut, HasPacket
    <3>2. size \in Nat /\ size >= HeaderSize /\ size <= Len(buffer)
      BY <1>1, <3>1 DEF HeaderSize
    <3>3. buffer' \in Seq(Byte) /\ Len(buffer') = size
      BY <1>1, <3>1, <3>2
    <3> QED
      BY <2>1, <2>2, <3>1, <3>2, <3>3 DEF IInv, TypeOK, CursorInside, WholeHeader
  <2>3. CASE stage' # "cut"
    <3>1. stage' = "dropped" /\ buffer' = buffer
      BY <1>6, <2>3 DEF Cut
    <3> QED
      BY <2>1, <3>1 DEF IInv, TypeOK, CursorInside, WholeHeader
  <2> QED
    BY <2>2, <2>3
<1>7. CASE DecryptPacket
  <2>1. buffer' \in Seq(Byte) /\ Len(buffer') = Len(buffer)
    BY <1>1, <1>7, CryptType DEF DecryptPacket
  <2> QED
    BY <1>7, <2>1 DEF DecryptPacket, IInv, TypeOK, CursorInside, WholeHeader
<1>8. CASE DispatchLogin
  <2> DEFINE first  == ReadString(buffer, HeaderSize, <<>>)
             second == ReadString(buffer, first.pos, <<>>)
  <2>1. HeaderSize \in 0..Len(buffer) /\ <<>> \in Seq(Byte)
    BY <1>1, <1>8 DEF DispatchLogin, IInv, WholeHeader, HeaderSize
  <2>2. first.value \in Seq(Byte) /\ first.pos \in 0..Len(buffer)
    BY <1>1, <2>1, ReadStringInside
  <2> HIDE DEF first
  <2>3. second.value \in Seq(Byte) /\ second.pos \in 0..Len(buffer)
    BY <1>1, <2>1, <2>2, ReadStringInside
  <2>4. /\ pkt' = [username |-> first.value, password |-> second.value]
        /\ cursor' = second.pos
    BY <1>8 DEF DispatchLogin, first
  <2> HIDE DEF second
  <2>5. pkt' \in [username : Seq(Byte), password : Seq(Byte)]
    BY <2>2, <2>3, <2>4
  <2>6. cursor' \in Nat /\ cursor' <= Len(buffer)
    BY <1>1, <2>3, <2>4
  <2> QED
    BY <1>8, <2>5, <2>6 DEF DispatchLogin, IInv, TypeOK, CursorInside, WholeHeader
<1>9. CASE DispatchOther
  BY <1>9 DEF DispatchOther, IInv, TypeOK, CursorInside, WholeHeader
<1>10. CASE UNCHANGED vars
  BY <1>10 DEF vars, IInv, TypeOK, CursorInside, WholeHeader
<1> QED
  BY <1>2, <1>3, <1>4, <1>5, <1>6, <1>7, <1>8, <1>9, <1>10 DEF Next

\* A packet whose size fits is cut from the stream whole.
LEMMA CutKeepsWhole ==
  ASSUME IInv, Cut, NEW l \in written, PacketSize(l) < Wrap
  PROVE  stage' = "cut" /\ buffer' = buffer
<1>1. l \in [username : Strings, password : Strings] /\ key \in Seq(Byte)
  BY InputsAssumption DEF IInv, TypeOK
<1>2. PICK b \in Seq(Byte) : b = Packed(l)
  BY <1>1, PackedShape
<1>3. buffer = Crypt(b, key)
  BY <1>2 DEF Cut, IInv, OnItsWay
<1>4. Len(b) >= HeaderSize /\ SizeOf(b) = Len(b) /\ Len(b) \in Nat
  BY <1>1, <1>2, PackedShape
<1>5. buffer \in Seq(Byte) /\ Len(buffer) = Len(b) /\ SizeOf(buffer) = Len(b)
  BY <1>1, <1>3, <1>4, CryptType, CryptKeepsHeader
<1>6. HasPacket(buffer)
  BY <1>4, <1>5 DEF HasPacket, HeaderSize
<1>7. SubSeq(buffer, 1, SizeOf(buffer)) = buffer
  BY <1>5
<1> QED
  BY <1>6, <1>7 DEF Cut

\* The packet on its way: each step leaves it encrypted or plain, as its stage
\* says, and whole.
LEMMA NextKeepsPacket == IInv /\ [Next]_vars => (ReadAsItStands /\ OnItsWay)'
<1> SUFFICES ASSUME IInv, [Next]_vars PROVE (ReadAsItStands /\ OnItsWay)'
  OBVIOUS
<1>1. key \in Seq(Byte) /\ buffer \in Seq(Byte)
  BY InputsAssumption DEF IInv, TypeOK
<1>2. CASE MakeLogin
  BY <1>2 DEF MakeLogin, Login, Packed, ReadAsItStands, OnItsWay
<1>3. CASE MakePong
  BY <1>3 DEF MakePong, IInv, ReadAsItStands, OnItsWay
<1>4. CASE Send
  BY <1>4 DEF Send, IInv, ReadAsItStands, OnItsWay
<1>5. CASE SendOther
  BY <1>5 DEF SendOther, IInv, ReadAsItStands, OnItsWay
<1>6. CASE Cut
  <2>1. key' = key /\ written' = written /\ stage = "sent" /\ stage' \in {"cut", "dropped"}
    BY <1>6 DEF Cut
  <2>2. ReadAsItStands'
    BY <2>1 DEF ReadAsItStands
  <2>3. ASSUME NEW l \in written, PacketSize(l) < Wrap
        PROVE  stage' = "cut" /\ buffer' = Crypt(Packed(l), key)
    BY <1>6, <2>1, <2>3, CutKeepsWhole DEF IInv, OnItsWay
  <2>4. OnItsWay'
    BY <2>1, <2>3 DEF OnItsWay
  <2> QED
    BY <2>2, <2>4
<1>7. CASE DecryptPacket
  <2>1. /\ key' = key /\ written' = written /\ stage = "cut" /\ stage' = "decrypted"
        /\ buffer' = Crypt(buffer, key)
    BY <1>7 DEF DecryptPacket
  <2>2. ASSUME NEW l \in written, PacketSize(l) < Wrap
        PROVE  buffer' = Packed(l)
    <3>1. l \in [username : Strings, password : Strings]
      BY DEF IInv, TypeOK
    <3>2. Packed(l) \in Seq(Byte)
      BY <2>2, <3>1, PackedShape
    <3>3. buffer = Crypt(Packed(l), key)
      BY <2>1, <2>2 DEF IInv, OnItsWay
    <3> QED
      BY <1>1, <2>1, <3>2, <3>3, DecryptUndoesEncrypt
  <2> QED
    BY <2>1, <2>2 DEF OnItsWay, ReadAsItStands
<1>8. CASE DispatchLogin
  <2>1. pkt' = LoginIn(buffer)
    BY <1>8 DEF DispatchLogin, LoginIn, Login
  <2>2. /\ key' = key /\ written' = written /\ stage = "decrypted" /\ stage' = "read"
        /\ buffer' = buffer
    BY <1>8 DEF DispatchLogin
  <2> QED
    BY <2>1, <2>2 DEF IInv, ReadAsItStands, OnItsWay
<1>9. CASE DispatchOther
  <2>1. /\ key' = key /\ written' = written /\ stage = "decrypted" /\ stage' = "read"
        /\ buffer' = buffer
    BY <1>9 DEF DispatchOther
  <2>2. IdOf(buffer) # C_LOGIN
    BY <1>1, <1>9, <2>1 DEF DispatchOther, IInv, WholeHeader, HeaderSize
  <2> QED
    BY <2>1, <2>2 DEF IInv, ReadAsItStands, OnItsWay
<1>10. CASE UNCHANGED vars
  BY <1>10 DEF vars, IInv, ReadAsItStands, OnItsWay
<1> QED
  BY <1>2, <1>3, <1>4, <1>5, <1>6, <1>7, <1>8, <1>9, <1>10 DEF Next

\* IInv holds in every reachable state.
THEOREM CodecInvariance == Spec => []IInv
<1> QED
  <2>1. IInv /\ [Next]_vars => IInv'
    BY NextKeepsBytes, NextKeepsPacket DEF IInv
  <2> QED
    BY <2>1, InitEstablishes, PTL DEF Spec

\* Every variable keeps its type: bytes stay bytes through writing, encrypting,
\* cutting, decrypting and reading.
THEOREM CodecTypeCorrect == Spec => []TypeOK
<1>1. IInv => TypeOK
  BY DEF IInv
<1> QED
  BY <1>1, CodecInvariance, PTL

\* operator>> never leaves its cursor behind the end of the packet, whatever
\* the body holds.
THEOREM CursorStaysInside == Spec => []CursorInside
<1>1. IInv => CursorInside
  BY DEF IInv
<1> QED
  BY <1>1, CodecInvariance, PTL

\* What a handler reads is what was written, for any strings and any key, but for
\* what a size field cannot count, as long as the packet's own size fits.
THEOREM LoginsArrive == Spec => []LoginArrives
<1>1. IInv => LoginArrives
  <2> SUFFICES ASSUME IInv, NEW l \in written, PacketSize(l) < Wrap, stage = "read"
               PROVE  pkt = Login(Truncated(l.username), Truncated(l.password))
    BY DEF LoginArrives
  <2>1. l \in [username : Strings, password : Strings]
    BY DEF IInv, TypeOK
  <2>2. buffer = Packed(l)
    BY DEF IInv, OnItsWay
  <2>3. IdOf(Packed(l)) = C_LOGIN
    BY <2>1, PackedShape
  <2>4. pkt = LoginIn(buffer)
    BY <2>2, <2>3 DEF IInv, ReadAsItStands
  <2> QED
    BY <2>1, <2>2, <2>4, PackedShape
<1> QED
  BY <1>1, CodecInvariance, PTL

\* A packet whose size fits is cut from the stream as it was sent, whatever the
\* key: its header is not encrypted, and its size counts all of it.
THEOREM PacketsAreCutWhole == Spec => PacketsStayWhole
<1>1. ASSUME IInv, [Next]_vars, NEW l \in written, PacketSize(l) < Wrap, stage = "sent"
      PROVE  (stage' = "cut" /\ buffer' = buffer) \/ UNCHANGED vars
  <2>1. Cut \/ UNCHANGED vars
    BY <1>1 DEF Next, MakeLogin, MakePong, Send, SendOther, DecryptPacket, DispatchLogin,
                DispatchOther
  <2> QED
    BY <1>1, <2>1, CutKeepsWhole
<1>2. IInv /\ [Next]_vars =>
         [\A l \in written : PacketSize(l) < Wrap /\ stage = "sent" =>
             stage' = "cut" /\ buffer' = buffer]_vars
  BY <1>1
<1> QED
  BY <1>2, CodecInvariance, PTL DEF Spec, PacketsStayWhole

\* A body from anywhere that begins with two encoded strings is read as them.
THEOREM BodiesReadAsTheyStand == Spec => []ReadsWhatStands
<1>1. IInv => ReadsWhatStands
  <2> SUFFICES ASSUME IInv, stage = "read", IdOf(buffer) = C_LOGIN,
                      NEW m \in 0..Len(Body), NEW n \in 0..Len(Body), NEW u, NEW p,
                      u = SubSeq(Body, 3, m + 2), p = SubSeq(Body, m + 5, m + n + 4),
                      m + n + 4 <= Len(Body),
                      LoginBody(u, p) = SubSeq(Body, 1, m + n + 4)
               PROVE  pkt = Login(u, p)
    BY DEF ReadsWhatStands
  <2>1. buffer \in Seq(Byte) /\ Len(buffer) \in Nat /\ Len(buffer) >= HeaderSize
    BY DEF IInv, TypeOK, WholeHeader
  <2>2. PICK body, head, rest : body = Body /\ head = HeaderSize /\ rest = Len(buffer) - head
    OBVIOUS
  <2>3. /\ body \in Seq(Byte) /\ Len(body) = rest /\ rest \in Nat
        /\ \A i \in 1..rest : body[i] = buffer[HeaderSize + i]
    <3>1. head + rest = Len(buffer) /\ head \in Nat /\ rest \in Nat
      BY <2>1, <2>2 DEF HeaderSize
    <3>2. body = SubSeq(buffer, head + 1, head + rest) /\ head + rest <= Len(buffer)
      BY <2>1, <2>2, <3>1 DEF Body
    <3>3. /\ body \in Seq(Byte) /\ Len(body) = rest
          /\ \A i \in 1..rest : body[i] = buffer[head + i]
      BY <2>1, <3>1, <3>2, PartAt
    <3> QED
      BY <2>2, <3>1, <3>3
  <2>4. m \in Nat /\ n \in Nat /\ m + n + 4 <= rest
    BY <2>2, <2>3
  <2>5. u \in Seq(Byte) /\ Len(u) = m
    <3>1. 2 + 1 = 3 /\ 2 + m = m + 2 /\ 2 + m <= Len(body) /\ 2 \in Nat
      BY <2>3, <2>4
    <3>2. u = SubSeq(body, 2 + 1, 2 + m)
      BY <2>2, <3>1
    <3> QED
      BY <2>3, <2>4, <3>1, <3>2, PartAt
  <2>6. p \in Seq(Byte) /\ Len(p) = n
    <3>1. PICK start \in Nat : start = m + 4
      BY <2>4
    <3>2. start + 1 = m + 5 /\ start + n = m + n + 4
      BY <2>4, <3>1
    <3>3. p = SubSeq(body, start + 1, start + n)
      BY <2>2, <3>2
    <3>4. body \in Seq(Byte) /\ start + n <= Len(body) /\ n \in Nat
      BY <2>3, <2>4, <3>1
    <3>5. SubSeq(body, start + 1, start + n) \in Seq(Byte)
      BY <3>4, PartAt
    <3>6. Len(SubSeq(body, start + 1, start + n)) = n
      BY <3>4, PartAt
    <3> QED
      BY <3>3, <3>5, <3>6
  <2>7. PICK all \in Nat : all = m + n + 4
    BY <2>4
  <2>8. /\ LoginBody(u, p) \in Seq(Byte) /\ Len(LoginBody(u, p)) = all
        /\ \A i \in 1..all : LoginBody(u, p)[i] = body[i]
    <3>1. PICK nil : nil = 0
      OBVIOUS
    <3>2. LoginBody(u, p) = SubSeq(body, nil + 1, nil + all)
      BY <2>2, <2>7, <3>1
    <3>3. nil + all <= Len(body) /\ nil \in Nat
      BY <2>3, <2>4, <2>7, <3>1
    <3>4. /\ LoginBody(u, p) \in Seq(Byte) /\ Len(LoginBody(u, p)) = all
          /\ \A i \in 1..all : LoginBody(u, p)[i] = body[nil + i]
      <4>1. body \in Seq(Byte)
        BY <2>3
      <4>2. PICK v : v = SubSeq(body, nil + 1, nil + all)
        OBVIOUS
      <4>3. v \in Seq(Byte)
        BY <3>3, <4>1, <4>2, PartAt
      <4>4. Len(v) = all
        BY <3>3, <4>1, <4>2, PartAt
      <4>5. \A i \in 1..all : v[i] = body[nil + i]
        BY <3>3, <4>1, <4>2, PartAt
      <4> QED
        BY <3>2, <4>2, <4>3, <4>4, <4>5
    <3>5. \A i \in 1..all : nil + i = i
      BY <3>1
    <3> QED
      BY <3>4, <3>5
  <2>9. Truncated(u) = u /\ Truncated(p) = p
    <3>1. PICK j \in Nat, k \in Nat : j = Len(Truncated(u)) /\ k = Len(Truncated(p))
      BY <2>5, <2>6, TruncatedType
    <3>2. all = 2 + j + 2 + k
      BY <2>5, <2>6, <2>8, <3>1, LoginBodyStands
    <3>3. j <= m /\ k <= n
      BY <2>5, <2>6, <3>1, TruncatedType
    <3>4. j = m /\ k = n
      BY <2>4, <2>7, <3>2, <3>3
    <3>5. /\ Len(Truncated(u)) = Len(u) => Truncated(u) = u
          /\ Len(Truncated(p)) = Len(p) => Truncated(p) = p
      BY <2>5, <2>6, TruncatedType
    <3> QED
      BY <2>5, <2>6, <3>1, <3>4, <3>5
  <2>10. LoginIn(buffer) = Login(u, p)
    <3>1. HeaderSize + Len(LoginBody(u, p)) <= Len(buffer)
      BY <2>1, <2>2, <2>4, <2>7, <2>8 DEF HeaderSize
    <3>2. \A i \in 1..all : i \in 1..rest
      BY <2>3, <2>4, <2>7
    <3>3. \A i \in 1..Len(LoginBody(u, p)) : buffer[HeaderSize + i] = LoginBody(u, p)[i]
      BY <2>3, <2>8, <3>2
    <3>4. LoginIn(buffer) = Login(Truncated(u), Truncated(p))
      BY <2>1, <2>5, <2>6, <3>1, <3>3, LoginReads
    <3> QED
      BY <2>9, <3>4
  <2> QED
    BY <2>10 DEF IInv, ReadAsItStands
<1> QED
  BY <1>1, CodecInvariance, PTL
==============================================================================
