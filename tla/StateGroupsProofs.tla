-------------------------- MODULE StateGroupsProofs --------------------------
(***************************************************************************)
(* What read_entries returns of a packet that was cut anywhere: for every   *)
(* set of groups and every number of them.                                  *)
(***************************************************************************)
EXTENDS StateGroups, TLAPS

(* Arithmetic of the ids and the sizes *)

\* For the provers, which neither divide nor multiply by a variable.
LEMMA QuotientInNat == \A a \in Nat : \A b \in Nat \ {0} : a \div b \in Nat
OBVIOUS

\* The number of bytes of an id.
LEMMA IdLengthFacts ==
    ASSUME NEW v \in Nat
    PROVE  LET n == IdLength(v) IN
           /\ n \in 1..5
           /\ n < 5 => v < Weight[n + 1]
           /\ n > 1 => v >= Weight[n]
<1> DEFINE Fits(n) == /\ n < 5 => v < Weight[n + 1]
                      /\ n > 1 => v >= Weight[n]
<1>1. \E n \in 1..5 : Fits(n)
    <2>1. CASE v < 128
        <3>1. Fits(1)  BY <2>1, SMT DEF Weight
        <3> QED BY <3>1
    <2>2. CASE v >= 128 /\ v < 16384
        <3>1. Fits(2)  BY <2>2, SMT DEF Weight
        <3> QED BY <3>1
    <2>3. CASE v >= 16384 /\ v < 2097152
        <3>1. Fits(3)  BY <2>3, SMT DEF Weight
        <3> QED BY <3>1
    <2>4. CASE v >= 2097152 /\ v < 268435456
        <3>1. Fits(4)  BY <2>4, SMT DEF Weight
        <3> QED BY <3>1
    <2>5. CASE v >= 268435456
        <3>1. Fits(5)  BY <2>5, SMT DEF Weight
        <3> QED BY <3>1
    <2> QED BY <2>1, <2>2, <2>3, <2>4, <2>5
<1> HIDE DEF Fits
<1>2. IdLength(v) = CHOOSE n \in 1..5 : Fits(n)  BY DEF IdLength, Fits
<1>3. IdLength(v) \in 1..5 /\ Fits(IdLength(v))  BY <1>1, <1>2
<1> QED BY <1>3 DEF Fits

\* The bytes of an id: what tells the last one, and what they carry.
LEMMA IdBytesFacts ==
    ASSUME NEW v \in Nat
    PROVE  /\ IdBytes(v) \in Seq(Byte)
           /\ Len(IdBytes(v)) = IdLength(v)
           /\ \A i \in 1..IdLength(v) :
                 /\ IdBytes(v)[i] < 128 <=> i = IdLength(v)
                 /\ IdBytes(v)[i] % 128 = (v \div Weight[i]) % 128
<1> DEFINE n == IdLength(v)
<1>1. n \in 1..5  BY IdLengthFacts
<1>2. ASSUME NEW i \in 1..n
      PROVE  /\ (v \div Weight[i]) % 128 \in 0..127
             /\ IdBytes(v)[i] = ((v \div Weight[i]) % 128) + (IF i < n THEN 128 ELSE 0)
    <2>1. Weight[i] \in Nat \ {0}  BY <1>1, SMT DEF Weight
    <2>2. v \div Weight[i] \in Nat  BY <2>1, QuotientInNat
    <2> QED BY <2>2, <1>1 DEF IdBytes
<1>3. ASSUME NEW i \in 1..n
      PROVE  /\ IdBytes(v)[i] \in Byte
             /\ IdBytes(v)[i] < 128 <=> i = n
             /\ IdBytes(v)[i] % 128 = (v \div Weight[i]) % 128
    <2> DEFINE d == (v \div Weight[i]) % 128
    <2>1. d \in 0..127 /\ IdBytes(v)[i] = d + (IF i < n THEN 128 ELSE 0)  BY <1>2
    <2> HIDE DEF d
    <2>2. i < n \/ i = n  BY <1>1
    <2>3. (d + 128) % 128 = d /\ d % 128 = d  BY <2>1
    <2>4. /\ IdBytes(v)[i] \in Byte
          /\ IdBytes(v)[i] < 128 <=> i = n
          /\ IdBytes(v)[i] % 128 = d
        BY <2>1, <2>2, <2>3, <1>1 DEF Byte
    <2> QED BY <2>4 DEF d
<1>4. IdBytes(v) = [i \in 1..n |-> IdBytes(v)[i]]  BY DEF IdBytes
<1>5. IdBytes(v) \in [1..n -> Byte]  BY <1>3, <1>4
<1>6. IdBytes(v) \in Seq(Byte) /\ Len(IdBytes(v)) = n  BY <1>1, <1>5
<1> QED BY <1>3, <1>6

\* What the digits of an id add up to.
LEMMA DigitsAddUp ==
    ASSUME NEW v \in Nat, v \div Weight[5] < 16
    PROVE  LET d(i) == ((v \div Weight[i]) % 128) * Weight[i] IN
           /\ v < Weight[2] => v = d(1)
           /\ v < Weight[3] => v = d(1) + d(2)
           /\ v < Weight[4] => v = d(1) + d(2) + d(3)
           /\ v < Weight[5] => v = d(1) + d(2) + d(3) + d(4)
           /\ v = d(1) + d(2) + d(3) + d(4)
                     + (((v \div Weight[5]) % 128) % 16) * Weight[5]
<1> DEFINE q == v \div 128
           r == q \div 128
           s == r \div 128
           t == s \div 128
           A == v % 128
           B == q % 128
           C == r % 128
           D == s % 128
<1>1. q \in Nat /\ v = 128 * q + A /\ A \in 0..127  BY SMT
<1>2. r \in Nat /\ q = 128 * r + B /\ B \in 0..127  BY <1>1, SMT
<1>3. s \in Nat /\ r = 128 * s + C /\ C \in 0..127  BY <1>2, SMT
<1>4. t \in Nat /\ s = 128 * t + D /\ D \in 0..127  BY <1>3, SMT
<1> HIDE DEF q, r, s, t, A, B, C, D
<1>5. v < 268435456 * 16  BY SMT DEF Weight
<1>6. t \in 0..15  BY <1>1, <1>2, <1>3, <1>4, <1>5, SMT
<1>7. v = A + 128 * B + 16384 * C + 2097152 * D + 268435456 * t
    BY <1>1, <1>2, <1>3, <1>4, SMT
<1>8. v \div 1 = v /\ v % 128 = A  BY <1>1, SMT
<1>11. v \div 2097152 = D + 128 * t  BY <1>1, <1>2, <1>3, <1>4, SMT
<1>12. v \div 268435456 = t  BY <1>1, <1>2, <1>3, <1>4, SMT
<1>13. /\ (v \div 1) % 128 = A
       /\ (v \div 128) % 128 = B
       /\ (v \div 16384) % 128 = C
       /\ (v \div 2097152) % 128 = D
       /\ ((v \div 268435456) % 128) % 16 = t
    <2>1. (v \div 1) % 128 = A  BY <1>8
    <2>2. (v \div 128) % 128 = B
        <3>1. v \div 128 = B + 128 * r  BY <1>1, <1>2, SMT
        <3> QED BY <1>2, <3>1, SMT
    <2>3. (v \div 16384) % 128 = C
        <3>1. v \div 16384 = C + 128 * s  BY <1>1, <1>2, <1>3, SMT
        <3> QED BY <1>3, <3>1, SMT
    <2>4. (v \div 2097152) % 128 = D  BY <1>4, <1>11, SMT
    <2>5. ((v \div 268435456) % 128) % 16 = t  BY <1>6, <1>12, SMT
    <2> QED BY <2>1, <2>2, <2>3, <2>4, <2>5
<1>14. /\ A \in 0..127 /\ B \in 0..127 /\ C \in 0..127 /\ D \in 0..127
    BY <1>1, <1>2, <1>3, <1>4
<1> QED BY <1>6, <1>7, <1>13, <1>14, SMT DEF Weight

\* The size field, as wide as the packet has it.
LEMMA SizeBytesFacts ==
    ASSUME NEW size \in Nat, (size + 7) \div ByteWeight[4] < 128,
           NEW streaming \in BOOLEAN
    PROVE  /\ SizeWidth(streaming) = IF streaming THEN 4 ELSE 2
           /\ SizeBytes(size, streaming) \in Seq(Byte)
           /\ Len(SizeBytes(size, streaming)) = SizeWidth(streaming)
           /\ \A i \in 1..SizeWidth(streaming) :
                 SizeBytes(size, streaming)[i] = (size \div ByteWeight[i]) % 256
<1> DEFINE w == SizeWidth(streaming)
           b == SizeBytes(size, streaming)
<1>1. w \in {2, 4} /\ w = IF streaming THEN 4 ELSE 2  BY DEF SizeWidth
<1>2. ASSUME NEW i \in 1..w
      PROVE  (size \div ByteWeight[i]) % 256 \in Byte
    <2>1. ByteWeight[i] \in Nat \ {0}  BY <1>1, SMT DEF ByteWeight
    <2>2. size \div ByteWeight[i] \in Nat  BY <2>1, QuotientInNat
    <2> QED BY <2>2, SMT DEF Byte
<1>3. b = [i \in 1..w |-> (size \div ByteWeight[i]) % 256]  BY DEF SizeBytes
<1>4. b \in [1..w -> Byte]  BY <1>2, <1>3
<1> QED BY <1>1, <1>3, <1>4

\* What the bytes of a size add up to, the sign of the last one included.
LEMMA SizeAddsUp ==
    ASSUME NEW size \in Nat, (size + 7) \div ByteWeight[4] < 128
    PROVE  LET b(i) == (size \div ByteWeight[i]) % 256 IN
           /\ size < 32768 => size = b(1) + 256 * Signed(b(2))
           /\ size = b(1) + 256 * b(2) + 65536 * b(3) + 16777216 * Signed(b(4))
<1>0. size < 2147483648  BY SMT DEF ByteWeight
<1>1. size < 32768 => size \div 256 < 128  BY SMT
<1>2. size < 32768 =>
         size = ((size \div 1) % 256) + 256 * Signed((size \div 256) % 256)
    BY <1>1, SMT DEF Signed
<1> DEFINE q == size \div 256
           r == q \div 256
           s == r \div 256
           A == size % 256
           B == q % 256
           C == r % 256
<1>3. q \in Nat /\ size = 256 * q + A /\ A \in 0..255  BY SMT
<1>4. r \in Nat /\ q = 256 * r + B /\ B \in 0..255  BY <1>3, SMT
<1>5. s \in Nat /\ r = 256 * s + C /\ C \in 0..255  BY <1>4, SMT
<1> HIDE DEF q, r, s, A, B, C
<1>6. s \in 0..127 /\ size = A + 256 * B + 65536 * C + 16777216 * s
    BY <1>0, <1>3, <1>4, <1>5, SMT
<1>7. (size \div 1) % 256 = A  BY <1>6, <1>3, <1>4, <1>5, SMT
<1>8. (size \div 256) % 256 = B
    <2>1. size \div 256 = q  BY <1>3, SMT
    <2> QED BY <2>1, <1>4, SMT
<1>9. (size \div 65536) % 256 = C
    <2>1. size \div 65536 = r  BY <1>3, <1>4, SMT
    <2> QED BY <2>1, <1>5, SMT
<1>10. (size \div 16777216) % 256 = s /\ Signed(s) = s
    BY <1>6, <1>3, <1>4, <1>5, SMT DEF Signed
<1>11. size = ((size \div 1) % 256) + 256 * ((size \div 256) % 256)
                + 65536 * ((size \div 65536) % 256)
                + 16777216 * Signed((size \div 16777216) % 256)
    BY <1>6, <1>7, <1>8, <1>9, <1>10, SMT
<1> QED BY <1>2, <1>11, SMT DEF ByteWeight

\* Two bytes make a word.
LEMMA WordFacts ==
    ASSUME NEW a \in Byte, NEW b \in Byte
    PROVE  a + 256 * b \in Word
<1>1. a \in Nat /\ b \in Nat /\ a <= 255 /\ b <= 255  BY SMT DEF Byte
<1>2. a + 256 * b \in Nat /\ a + 256 * b < 65536  BY <1>1, SMT
<1> QED BY <1>2, SMT DEF Word

\* Two byte sequences joined.
LEMMA ConcatFacts ==
    ASSUME NEW s \in Seq(Byte), NEW t \in Seq(Byte)
    PROVE  /\ s \o t \in Seq(Byte)
           /\ Len(s \o t) = Len(s) + Len(t)
           /\ \A i \in 1..Len(s) : (s \o t)[i] = s[i]
           /\ \A i \in 1..Len(t) : (s \o t)[Len(s) + i] = t[i]
OBVIOUS

\* Part of a byte sequence.
LEMMA SubSeqFacts ==
    ASSUME NEW s \in Seq(Byte), NEW a \in Nat, NEW k \in Nat, a + k <= Len(s)
    PROVE  /\ SubSeq(s, a + 1, a + k) \in Seq(Byte)
           /\ Len(SubSeq(s, a + 1, a + k)) = k
           /\ \A i \in 1..k : SubSeq(s, a + 1, a + k)[i] = s[a + i]
OBVIOUS

\* Where the parts of a group are in its bytes.
LEMMA GroupBytesFacts ==
    ASSUME NEW g \in Groups, NEW streaming \in BOOLEAN
    PROVE  LET b == GroupBytes(g, streaming)
               n == IdLength(g.network_id)
               w == SizeWidth(streaming)
           IN  /\ n \in 1..5 /\ w \in {2, 4}
               /\ g.data \in Seq(Byte)
               /\ b \in Seq(Byte)
               /\ Len(b) = 2 + n + w + Len(g.data)
               /\ b[1] = 185 /\ b[2] = 200
               /\ \A i \in 1..n : b[2 + i] = IdBytes(g.network_id)[i]
               /\ \A i \in 1..w : b[2 + n + i] = SizeBytes(g.size_bits, streaming)[i]
               /\ \A i \in 1..Len(g.data) : b[2 + n + w + i] = g.data[i]
<1> DEFINE id == IdBytes(g.network_id)
           size == SizeBytes(g.size_bits, streaming)
           n == IdLength(g.network_id)
           w == SizeWidth(streaming)
           d == g.data
<1>1. /\ g \in StateGroupEntry /\ g.size_bits \in Nat
      /\ (g.size_bits + 7) \div ByteWeight[4] < 128
    BY GroupsAssumption
<1>2. g.network_id \in Nat /\ d \in Seq(Byte)  BY <1>1 DEF StateGroupEntry
<1>3. id \in Seq(Byte) /\ Len(id) = n /\ n \in 1..5
    BY <1>2, IdBytesFacts, IdLengthFacts
<1>4. size \in Seq(Byte) /\ Len(size) = w /\ w \in {2, 4}
    BY <1>1, SizeBytesFacts
<1>5. /\ Terminator \in Seq(Byte) /\ Len(Terminator) = 2
      /\ Terminator[1] = 185 /\ Terminator[2] = 200
    BY DEF Terminator, Byte
<1> HIDE DEF id, size, n, w, d
<1> DEFINE b1 == Terminator \o id
           b2 == b1 \o size
           b == b2 \o d
<1>6. /\ b1 \in Seq(Byte) /\ Len(b1) = 2 + n
      /\ b1[1] = 185 /\ b1[2] = 200
      /\ \A i \in 1..n : b1[2 + i] = id[i]
    <2>1. /\ b1 \in Seq(Byte) /\ Len(b1) = Len(Terminator) + Len(id)
          /\ \A i \in 1..Len(Terminator) : b1[i] = Terminator[i]
          /\ \A i \in 1..Len(id) : b1[Len(Terminator) + i] = id[i]
        <3>1. Terminator \in Seq(Byte) /\ id \in Seq(Byte)  BY <1>3, <1>5
        <3> QED BY <3>1, ConcatFacts
    <2> HIDE DEF b1
    <2>2. b1[1] = Terminator[1] /\ b1[2] = Terminator[2]  BY <1>5, <2>1
    <2> QED BY <1>3, <1>5, <2>1, <2>2
<1> HIDE DEF b1
<1>7. /\ b2 \in Seq(Byte) /\ Len(b2) = 2 + n + w
      /\ \A i \in 1..2 + n : b2[i] = b1[i]
      /\ \A i \in 1..w : b2[2 + n + i] = size[i]
    <2>1. /\ b2 \in Seq(Byte) /\ Len(b2) = Len(b1) + Len(size)
          /\ \A i \in 1..Len(b1) : b2[i] = b1[i]
          /\ \A i \in 1..Len(size) : b2[Len(b1) + i] = size[i]
        <3>1. b1 \in Seq(Byte) /\ size \in Seq(Byte)  BY <1>4, <1>6
        <3> QED BY <3>1, ConcatFacts
    <2> HIDE DEF b2
    <2> QED BY <1>4, <1>6, <2>1
<1> HIDE DEF b2
<1>8. /\ b \in Seq(Byte) /\ Len(b) = 2 + n + w + Len(d)
      /\ \A i \in 1..2 + n + w : b[i] = b2[i]
      /\ \A i \in 1..Len(d) : b[2 + n + w + i] = d[i]
    <2>1. /\ b \in Seq(Byte) /\ Len(b) = Len(b2) + Len(d)
          /\ \A i \in 1..Len(b2) : b[i] = b2[i]
          /\ \A i \in 1..Len(d) : b[Len(b2) + i] = d[i]
        <3>1. b2 \in Seq(Byte) /\ d \in Seq(Byte)  BY <1>2, <1>7
        <3> QED BY <3>1, ConcatFacts
    <2> HIDE DEF b
    <2> QED BY <1>7, <2>1
<1> HIDE DEF b
<1>9. b[1] = 185 /\ b[2] = 200
    <2>1. \A i \in {1, 2} : i \in 1..2 + n /\ i \in 1..2 + n + w  BY <1>3, <1>4
    <2> QED BY <2>1, <1>6, <1>7, <1>8
<1>10. ASSUME NEW i \in 1..n PROVE b[2 + i] = id[i]
    <2>1. 2 + i \in 1..2 + n /\ 2 + i \in 1..2 + n + w  BY <1>3, <1>4
    <2> QED BY <2>1, <1>6, <1>7, <1>8
<1>11. ASSUME NEW i \in 1..w PROVE b[2 + n + i] = size[i]
    <2>1. 2 + n + i \in 1..2 + n + w  BY <1>3, <1>4
    <2> QED BY <2>1, <1>7, <1>8
<1>12. GroupBytes(g, streaming) = b  BY DEF GroupBytes, b, b2, b1, id, size, d
<1> QED BY <1>2, <1>3, <1>4, <1>8, <1>9, <1>10, <1>11, <1>12 DEF id, size, n, w, d

----------------------------------------------------------------------------
(* One group under the reader *)

\* What the provers have to be told.
LEMMA BytesAreNat == \A x \in Byte : x \in Nat
BY DEF Byte

LEMMA ProductInNat == \A a, b \in Nat : a * b \in Nat
OBVIOUS

\* The id is over where its last byte is, and is that of the group.
LEMMA IdIsRead ==
    ASSUME NEW v \in Nat, v \div Weight[5] < 16, NEW p \in Nat,
           wire \in Seq(Byte),
           \A i \in 1..IdLength(v) : p + i <= Len(wire) => wire[p + i] = IdBytes(v)[i]
    PROVE  /\ IdEnds(p) # {} <=> p + IdLength(v) <= Len(wire)
           /\ p + IdLength(v) <= Len(wire) =>
                 IdRead(p) = IdLength(v) /\ IdValue(p, IdRead(p)) = v
<1> DEFINE n == IdLength(v)
           b == IdBytes(v)
<1>1. n \in 1..5 /\ Len(wire) \in Nat  BY IdLengthFacts
<1>2. \A i \in 1..n : (b[i] < 128 <=> i = n) /\ b[i] % 128 = (v \div Weight[i]) % 128
    BY IdBytesFacts
<1>3. (n < 5 => v < Weight[n + 1]) /\ (n > 1 => v >= Weight[n])  BY IdLengthFacts
<1> HIDE DEF n, b
<1>4. ASSUME NEW m \in IdEnds(p)
      PROVE  m \in 1..5 /\ n <= m
    <2>1. m \in 1..5 /\ p + m <= Len(wire) /\ (m = 5 \/ wire[p + m] < 128)
        BY DEF IdEnds
    <2>2. ASSUME m < n PROVE FALSE
        <3>1. m \in 1..n /\ m # 5 /\ m # n  BY <1>1, <2>1, <2>2
        <3>2. wire[p + m] = b[m]  BY <2>1, <3>1 DEF n, b
        <3> QED BY <1>2, <2>1, <3>1, <3>2
    <2> QED BY <1>1, <2>1, <2>2
<1>5. ASSUME p + n <= Len(wire)
      PROVE  n \in IdEnds(p)
    <2>1. n \in 1..n  BY <1>1
    <2>2. wire[p + n] = b[n]  BY <1>5, <2>1 DEF n, b
    <2>3. n = 5 \/ wire[p + n] < 128  BY <1>2, <2>1, <2>2
    <2> QED BY <1>1, <1>5, <2>3 DEF IdEnds
<1>6. IdEnds(p) # {} <=> p + n <= Len(wire)
    <2>1. ASSUME NEW m \in IdEnds(p) PROVE p + n <= Len(wire)
        <3>1. m \in 1..5 /\ n <= m  BY <1>4
        <3>2. p + m <= Len(wire)  BY DEF IdEnds
        <3> QED BY <1>1, <3>1, <3>2
    <2> QED BY <2>1, <1>5
<1>7. ASSUME p + n <= Len(wire)
      PROVE  IdRead(p) = n
    <2>1. \A m \in IdEnds(p) : n <= m  BY <1>4
    <2>2. ASSUME NEW k \in IdEnds(p), \A m \in IdEnds(p) : k <= m
          PROVE  k = n
        <3>1. k <= n  BY <1>5, <1>7, <2>2
        <3>2. k \in 1..5 /\ n <= k  BY <1>4, <2>2
        <3> QED BY <1>1, <3>1, <3>2
    <2>3. n \in IdEnds(p)  BY <1>5, <1>7
    <2> DEFINE S == IdEnds(p)
    <2>4. \A k \in S : (\A m \in S : k <= m) => k = n  BY <2>2
    <2> HIDE DEF S
    <2> QED BY <2>1, <2>3, <2>4, Zenon DEF IdRead, S
<1>8. ASSUME p + n <= Len(wire)
      PROVE  IdValue(p, n) = v
    <2> DEFINE Digit(i) == (v \div Weight[i]) % 128
               Part(i) == IF i > n THEN 0
                          ELSE (wire[p + i] % (IF i = 5 THEN 16 ELSE 128)) * Weight[i]
    <2>1. ASSUME NEW i \in 1..n
          PROVE  wire[p + i] = b[i] /\ b[i] \in Nat /\ wire[p + i] % 128 = Digit(i)
        <3>1. p + i <= Len(wire) /\ p + i \in 1..Len(wire)  BY <1>1, <1>8
        <3>2. wire[p + i] = b[i]  BY <3>1 DEF n, b
        <3>3. wire[p + i] \in Byte  BY <3>1
        <3>4. wire[p + i] \in Nat  BY <3>3, BytesAreNat
        <3>5. b[i] % 128 = Digit(i)  BY <1>2
        <3> QED BY <3>2, <3>4, <3>5
    <2> DEFINE Value(i) == Digit(i) * Weight[i]
               Top == (Digit(5) % 16) * Weight[5]
    <2>2. ASSUME NEW i \in 1..4, i <= n
          PROVE  Part(i) = Value(i)
        BY <1>1, <2>1, <2>2
    <2>3. ASSUME n = 5 PROVE Part(5) = Top
        <3>1. wire[p + 5] \in Nat /\ wire[p + 5] % 128 = Digit(5)  BY <2>1, <2>3
        <3>2. wire[p + 5] % 16 = Digit(5) % 16
            <4> DEFINE x == wire[p + 5]
            <4>1. x = 128 * (x \div 128) + Digit(5) /\ x \div 128 \in Nat  BY <3>1
            <4> QED BY <3>1, <4>1
        <3> QED BY <2>3, <3>2
    <2>4. \A i \in 1..5 : i > n => Part(i) = 0  OBVIOUS
    <2>5. IdValue(p, n) = Part(1) + Part(2) + Part(3) + Part(4) + Part(5)
        BY DEF IdValue
    <2>6. /\ v < Weight[2] => v = Value(1)
          /\ v < Weight[3] => v = Value(1) + Value(2)
          /\ v < Weight[4] => v = Value(1) + Value(2) + Value(3)
          /\ v < Weight[5] => v = Value(1) + Value(2) + Value(3) + Value(4)
          /\ v = Value(1) + Value(2) + Value(3) + Value(4) + Top
        BY DigitsAddUp
    <2>7. ASSUME NEW i \in 1..5
          PROVE  Weight[i] \in Nat \ {0} /\ Digit(i) \in Nat /\ Digit(i) % 16 \in Nat
        <3>1. Weight[i] \in Nat \ {0}  BY SMT DEF Weight
        <3>2. v \div Weight[i] \in Nat  BY <3>1, QuotientInNat
        <3>3. Digit(i) \in Nat  BY <3>2
        <3> HIDE DEF Digit
        <3>4. Digit(i) % 16 \in Nat  BY <3>3
        <3> QED BY <3>1, <3>3, <3>4
    <2> HIDE DEF Part, Digit
    <2>8. ASSUME NEW i \in 1..5 PROVE Value(i) \in Nat  BY <2>7, ProductInNat
    <2>9. Top \in Nat
        <3>1. Digit(5) % 16 \in Nat /\ Weight[5] \in Nat \ {0}  BY <2>7
        <3> QED BY <3>1, ProductInNat
    <2> HIDE DEF Value, Top
    <2>10. CASE n = 1
        <3>1. v = Value(1)  BY <1>3, <2>6, <2>10
        <3> QED BY <2>2, <2>4, <2>5, <2>8, <2>10, <3>1
    <2>11. CASE n = 2
        <3>1. v = Value(1) + Value(2)  BY <1>3, <2>6, <2>11
        <3> QED BY <2>2, <2>4, <2>5, <2>8, <2>11, <3>1
    <2>12. CASE n = 3
        <3>1. v = Value(1) + Value(2) + Value(3)  BY <1>3, <2>6, <2>12
        <3> QED BY <2>2, <2>4, <2>5, <2>8, <2>12, <3>1
    <2>13. CASE n = 4
        <3>1. v = Value(1) + Value(2) + Value(3) + Value(4)  BY <1>3, <2>6, <2>13
        <3> QED BY <2>2, <2>4, <2>5, <2>8, <2>13, <3>1
    <2>14. CASE n = 5
        <3>1. /\ Part(1) = Value(1) /\ Part(2) = Value(2) /\ Part(3) = Value(3)
              /\ Part(4) = Value(4) /\ Part(5) = Top
            BY <2>2, <2>3, <2>14
        <3> QED BY <2>5, <2>6, <3>1
    <2> QED BY <1>1, <2>10, <2>11, <2>12, <2>13, <2>14
<1> QED BY <1>6, <1>7, <1>8 DEF n

\* The size is that of the group, in the width of the packet.
LEMMA SizeIsRead ==
    ASSUME NEW size \in Nat, (size + 7) \div ByteWeight[4] < 128,
           NEW p \in Nat,
           is_streaming \in BOOLEAN, is_streaming \/ size < 32768,
           \A i \in 1..SizeWidth(is_streaming) :
              wire[p + i] = SizeBytes(size, is_streaming)[i]
    PROVE  SizeValue(p) = size
<1>1. /\ SizeWidth(is_streaming) = IF is_streaming THEN 4 ELSE 2
      /\ \A i \in 1..SizeWidth(is_streaming) :
            wire[p + i] = (size \div ByteWeight[i]) % 256
    BY SizeBytesFacts
<1> DEFINE b(i) == (size \div ByteWeight[i]) % 256
<1>2. /\ size < 32768 => size = b(1) + 256 * Signed(b(2))
      /\ size = b(1) + 256 * b(2) + 65536 * b(3) + 16777216 * Signed(b(4))
    BY SizeAddsUp
<1> HIDE DEF b
<1>3. CASE is_streaming
    <2>1. wire[p + 1] = b(1) /\ wire[p + 2] = b(2) /\ wire[p + 3] = b(3) /\ wire[p + 4] = b(4)
        BY <1>1, <1>3 DEF b
    <2> QED BY <1>2, <1>3, <2>1, SMT DEF SizeValue, TwoBytes
<1>4. CASE ~is_streaming
    <2>1. wire[p + 1] = b(1) /\ wire[p + 2] = b(2)  BY <1>1, <1>4 DEF b
    <2> QED BY <1>2, <1>4, <2>1, SMT DEF SizeValue
<1> QED BY <1>3, <1>4

\* A group that starts where the reader is: it is taken to have arrived when
\* it has, to its last byte, and is read as it was sent.
LEMMA GroupIsRead ==
    ASSUME NEW g \in Groups, is_streaming \in BOOLEAN,
           is_streaming \/ g.size_bits < 32768,
           wire \in Seq(Byte), pos \in 0..Len(wire),
           \A i \in 1..Len(GroupBytes(g, is_streaming)) :
              pos + i <= Len(wire) => wire[pos + i] = GroupBytes(g, is_streaming)[i]
    PROVE  LET end == pos + Len(GroupBytes(g, is_streaming)) IN
           /\ GroupArrived <=> end <= Len(wire)
           /\ GroupArrived =>
                 /\ DataAt + DataLength(SizeAt) = end
                 /\ IdValue(pos + 2, IdRead(pos + 2)) = g.network_id
                 /\ SizeValue(SizeAt) = g.size_bits
                 /\ SubSeq(wire, DataAt + 1, end) = g.data
<1> DEFINE b == GroupBytes(g, is_streaming)
           v == g.network_id
           d == g.data
           n == IdLength(v)
           w == SizeWidth(is_streaming)
           len == Len(wire)
<1>1. /\ n \in 1..5 /\ w \in {2, 4} /\ d \in Seq(Byte)
      /\ b \in Seq(Byte) /\ Len(b) = 2 + n + w + Len(d)
      /\ b[1] = 185 /\ b[2] = 200
      /\ \A i \in 1..n : b[2 + i] = IdBytes(v)[i]
      /\ \A i \in 1..w : b[2 + n + i] = SizeBytes(g.size_bits, is_streaming)[i]
      /\ \A i \in 1..Len(d) : b[2 + n + w + i] = d[i]
    BY GroupBytesFacts
<1>2. /\ v \in Nat /\ v \div Weight[5] < 16
      /\ g.size_bits \in Nat /\ (g.size_bits + 7) \div ByteWeight[4] < 128
      /\ Len(d) = DataBytes(g.size_bits)
    BY GroupsAssumption DEF StateGroupEntry
<1>3. \A i \in 1..Len(b) : pos + i <= len => wire[pos + i] = b[i]  OBVIOUS
<1>4. len \in Nat /\ pos \in Nat /\ Len(d) \in Nat  BY <1>1
<1> HIDE DEF b, d, n, w, len, v
<1>sizes. /\ len \in Nat /\ pos \in Nat /\ n \in 1..5 /\ w \in {2, 4}
          /\ Len(d) \in Nat /\ Len(b) = 2 + n + w + Len(d)
    BY <1>1, <1>4
<1>5. AtGroup <=> pos + 2 < len
    <2>1. ASSUME pos + 2 < len
          PROVE  wire[pos + 1] = 185 /\ wire[pos + 2] = 200
        <3>1. 1 \in 1..Len(b) /\ 2 \in 1..Len(b)  BY <1>1
        <3>2. pos + 1 <= len /\ pos + 2 <= len  BY <1>4, <2>1
        <3> QED BY <1>1, <1>3, <3>1, <3>2
    <2> QED BY <2>1 DEF AtGroup, TwoBytes, len
<1>6. /\ IdEnds(pos + 2) # {} <=> pos + 2 + n <= len
      /\ pos + 2 + n <= len =>
            IdRead(pos + 2) = n /\ IdValue(pos + 2, IdRead(pos + 2)) = v
    <2>1. ASSUME NEW i \in 1..n, pos + 2 + i <= len
          PROVE  wire[pos + 2 + i] = IdBytes(v)[i]
        <3>1. i \in Nat /\ i >= 1 /\ i <= n  BY <1>1
        <3>2. 2 + i \in 1..Len(b) /\ pos + (2 + i) = pos + 2 + i  BY <1>1, <1>4, <3>1
        <3> QED BY <1>1, <1>3, <2>1, <3>2
    <2> DEFINE q == pos + 2
    <2>2. q \in Nat  BY <1>4
    <2>3. \A i \in 1..n : q + i <= len => wire[q + i] = IdBytes(v)[i]  BY <2>1
    <2> HIDE DEF q
    <2>4. /\ IdEnds(q) # {} <=> q + n <= len
          /\ q + n <= len => IdRead(q) = n /\ IdValue(q, IdRead(q)) = v
        BY <1>2, <2>2, <2>3, IdIsRead DEF n, len
    <2> QED BY <2>4 DEF q
<1>7. ASSUME pos + 2 + n <= len
      PROVE  SizeAt = pos + 2 + n /\ DataAt = pos + 2 + n + w
    BY <1>6, <1>7 DEF SizeAt, DataAt, w
<1>8. ASSUME pos + 2 + n + w <= len
      PROVE  SizeValue(SizeAt) = g.size_bits /\ DataLength(SizeAt) = Len(d)
    <2>1. pos + 2 + n <= len  BY <1>sizes, <1>8
    <2>2. SizeAt = pos + 2 + n /\ SizeAt \in Nat  BY <1>sizes, <1>7, <2>1
    <2>3. ASSUME NEW i \in 1..w
          PROVE  wire[SizeAt + i] = SizeBytes(g.size_bits, is_streaming)[i]
        <3>1. i \in Nat /\ i >= 1 /\ i <= w  BY <1>1
        <3>2. 2 + n + i \in 1..2 + n + w + Len(d)  BY <1>sizes, <3>1
        <3>3. pos + (2 + n + i) = SizeAt + i  BY <1>sizes, <2>2, <3>1
        <3>4. SizeAt + i <= len
            <4>1. SizeAt + w <= len  BY <1>8, <2>2
            <4> QED BY <1>sizes, <2>2, <3>1, <4>1
        <3> QED BY <1>1, <1>3, <3>2, <3>3, <3>4
    <2>4. SizeValue(SizeAt) = g.size_bits
        <3> DEFINE q == SizeAt
                   z == g.size_bits
        <3>1. q \in Nat /\ z \in Nat /\ (z + 7) \div ByteWeight[4] < 128  BY <1>2, <2>2
        <3>2. is_streaming \in BOOLEAN /\ (is_streaming \/ z < 32768)  OBVIOUS
        <3>3. \A i \in 1..SizeWidth(is_streaming) :
                 wire[q + i] = SizeBytes(z, is_streaming)[i]
            BY <2>3 DEF w
        <3> HIDE DEF q, z
        <3>4. SizeValue(q) = z  BY <3>1, <3>2, <3>3, SizeIsRead
        <3> QED BY <3>4 DEF q, z
    <2> QED BY <1>2, <2>4 DEF DataLength, DataBytes
<1>9. ASSUME pos + Len(b) <= len
      PROVE  SubSeq(wire, DataAt + 1, pos + Len(b)) = d
    <2>1. pos + 2 + n <= len /\ Len(d) \in Nat  BY <1>sizes, <1>9
    <2>2. DataAt = pos + 2 + n + w /\ DataAt \in Nat /\ pos + Len(b) = DataAt + Len(d)
        BY <1>sizes, <1>7, <2>1
    <2> DEFINE s == SubSeq(wire, DataAt + 1, DataAt + Len(d))
    <2>3. DataAt + Len(d) <= Len(wire)  BY <1>9, <2>2 DEF len
    <2>4. /\ s \in Seq(Byte) /\ Len(s) = Len(d)
          /\ \A i \in 1..Len(d) : s[i] = wire[DataAt + i]
        <3> DEFINE a == DataAt
                   k == Len(d)
        <3>1. a \in Nat /\ k \in Nat /\ a + k <= Len(wire)  BY <1>4, <2>2, <2>3
        <3> HIDE DEF a, k, s
        <3>2. /\ SubSeq(wire, a + 1, a + k) \in Seq(Byte)
              /\ Len(SubSeq(wire, a + 1, a + k)) = k
              /\ \A i \in 1..k : SubSeq(wire, a + 1, a + k)[i] = wire[a + i]
            BY <3>1, SubSeqFacts
        <3> QED BY <3>2 DEF s, a, k
    <2>5. ASSUME NEW i \in 1..Len(d) PROVE s[i] = d[i]
        <3>1. i \in Nat /\ i >= 1 /\ i <= Len(d)  BY <1>4
        <3>2. 2 + n + w + i \in 1..2 + n + w + Len(d)  BY <1>sizes, <3>1
        <3>3. pos + (2 + n + w + i) = DataAt + i  BY <1>sizes, <2>2, <3>1
        <3>4. DataAt + i <= len  BY <1>sizes, <1>9, <2>2, <3>1
        <3>5. wire[DataAt + i] = b[2 + n + w + i]  BY <1>1, <1>3, <3>2, <3>3, <3>4
        <3>6. s[i] = wire[DataAt + i]  BY <2>4
        <3> HIDE DEF s
        <3> QED BY <1>1, <3>5, <3>6
    <2> HIDE DEF s
    <2>6. s = d
        <3>1. d \in Seq(Byte)  BY <1>1
        <3> QED BY <2>4, <2>5, <3>1
    <2> QED BY <2>2, <2>6 DEF s
<1>10. GroupArrived <=> pos + Len(b) <= len
    <2>1. ASSUME pos + Len(b) <= len PROVE GroupArrived
        <3>1. pos + 2 < len /\ pos + 2 + n <= len /\ pos + 2 + n + w <= len
            BY <1>sizes, <2>1
        <3>2. DataAt + DataLength(SizeAt) <= len /\ DataAt <= len
            BY <1>sizes, <1>7, <1>8, <2>1, <3>1
        <3> QED BY <1>5, <1>6, <3>1, <3>2 DEF GroupArrived, len
    <2>2. ASSUME GroupArrived PROVE pos + Len(b) <= len
        <3>1. pos + 2 + n <= len  BY <1>6, <2>2 DEF GroupArrived
        <3>2. DataAt = pos + 2 + n + w  BY <1>7, <3>1
        <3>3. DataAt <= len /\ DataAt + DataLength(SizeAt) <= len
            BY <2>2 DEF GroupArrived, len
        <3>4. DataLength(SizeAt) = Len(d)  BY <1>8, <3>2, <3>3
        <3>5. pos + 2 + n + w + Len(d) <= len  BY <3>2, <3>3, <3>4
        <3> QED BY <1>sizes, <3>5
    <2> QED BY <2>1, <2>2
<1>11. ASSUME pos + Len(b) <= len
       PROVE  DataAt + DataLength(SizeAt) = pos + Len(b)
    <2>1. pos + 2 + n <= len /\ pos + 2 + n + w <= len  BY <1>sizes, <1>11
    <2>2. DataAt = pos + 2 + n + w /\ DataLength(SizeAt) = Len(d)  BY <1>7, <1>8, <2>1
    <2> QED BY <1>sizes, <2>2
<1>12. ASSUME pos + Len(b) <= len
       PROVE  /\ IdValue(pos + 2, IdRead(pos + 2)) = v
              /\ SizeValue(SizeAt) = g.size_bits
    <2>1. pos + 2 + n <= len /\ pos + 2 + n + w <= len  BY <1>sizes, <1>12
    <2> QED BY <1>6, <1>8, <2>1
<1> QED BY <1>9, <1>10, <1>11, <1>12 DEF b, d, v, len

----------------------------------------------------------------------------
(* The inductive invariant *)

Bytes(k) == GroupBytes(sent[k], is_streaming)

\* Where group k starts; after the last one, where the ending does.
Start(k) == IF k = 1 THEN 0 ELSE ends[k - 1]

\* What arrived of each group is at its place, one after the other.
Layout ==
    /\ Len(ends) = Len(sent)
    /\ \A k \in 1..Len(sent) :
          /\ is_streaming \/ sent[k].size_bits < 32768
          /\ ends[k] = Start(k) + Len(Bytes(k))
          /\ \A i \in 1..Len(Bytes(k)) :
                Start(k) + i <= Len(wire) => wire[Start(k) + i] = Bytes(k)[i]
    /\ \A j, k \in 1..Len(sent) : j <= k => ends[j] <= ends[k]

\* The wire ends with the groups until an ending is put on it.
WireLength ==
    /\ phase = "sent" => Len(wire) = Start(Len(sent) + 1)
    /\ Len(wire) <= Start(Len(sent) + 1) + 2

\* The reader is at the start of a group, and has read those before it.
ReadSoFar ==
    /\ Len(entries) <= Len(sent)
    /\ \A k \in 1..Len(entries) : entries[k] = sent[k]
    /\ pos = Start(Len(entries) + 1)
    /\ phase = "sent" => entries = <<>>
    /\ phase = "done" /\ Len(entries) < Len(sent) =>
          ends[Len(entries) + 1] > Len(wire)

IInv == TypeOK /\ Layout /\ WireLength /\ ReadSoFar

\* The types, for the steps that need no more of TypeOK.
LEMMA Types ==
    ASSUME TypeOK
    PROVE  /\ is_streaming \in BOOLEAN
           /\ sent \in Seq(Groups) /\ Len(sent) \in Nat
           /\ ends \in Seq(Nat)
           /\ wire \in Seq(Byte) /\ Len(wire) \in Nat
           /\ pos \in Nat /\ pos <= Len(wire)
           /\ entries \in Seq(Groups) /\ Len(entries) \in Nat
<1>1. /\ is_streaming \in BOOLEAN /\ sent \in Seq(Groups) /\ ends \in Seq(Nat)
      /\ wire \in Seq(Byte) /\ pos \in 0..Len(wire) /\ entries \in Seq(Groups)
    BY DEF TypeOK
<1> QED BY <1>1

\* Group starts are places on the wire, and do not go back.
LEMMA StartFacts ==
    ASSUME TypeOK, Layout
    PROVE  /\ \A k \in 1..Len(sent) + 1 : Start(k) \in Nat
           /\ \A k \in 1..Len(sent) :
                 /\ sent[k] \in Groups /\ Bytes(k) \in Seq(Byte)
                 /\ ends[k] \in Nat /\ ends[k] = Start(k + 1)
                 /\ ends[k] <= Start(Len(sent) + 1)
<1>1. Len(sent) \in Nat /\ ends \in Seq(Nat) /\ sent \in Seq(Groups)
      /\ Len(ends) = Len(sent) /\ is_streaming \in BOOLEAN
    BY Types DEF Layout
<1>2. ASSUME NEW k \in 1..Len(sent)
      PROVE  /\ sent[k] \in Groups /\ ends[k] \in Nat /\ ends[k] = Start(k + 1)
             /\ Bytes(k) \in Seq(Byte)
    <2>1. sent[k] \in Groups /\ ends[k] \in Nat  BY <1>1
    <2>2. Start(k + 1) = ends[k]  BY <1>1 DEF Start
    <2>3. Bytes(k) \in Seq(Byte)  BY <1>1, <2>1, GroupBytesFacts DEF Bytes
    <2> QED BY <2>1, <2>2, <2>3
<1>3. ASSUME NEW k \in 1..Len(sent) + 1 PROVE Start(k) \in Nat
    <2>1. k = 1 \/ k - 1 \in 1..Len(sent)  BY <1>1
    <2> QED BY <1>2, <2>1 DEF Start
<1>4. ASSUME NEW k \in 1..Len(sent)
      PROVE  ends[k] <= Start(Len(sent) + 1)
    <2>1. Len(sent) \in 1..Len(sent) /\ k <= Len(sent)  BY <1>1
    <2>2. ends[k] <= ends[Len(sent)]  BY <2>1 DEF Layout
    <2> QED BY <1>2, <2>1, <2>2
<1> QED BY <1>2, <1>3, <1>4

\* Nothing that follows the first group that did not arrive whole did.
LEMMA WholeGroupsFromIInv == IInv => WholeGroupsAreRead
<1> SUFFICES ASSUME IInv PROVE WholeGroupsAreRead
    OBVIOUS
<1> DEFINE m == Len(entries)
<1>1. m \in Nat /\ Len(sent) \in Nat /\ Len(wire) \in Nat /\ m <= Len(sent)
    BY Types DEF IInv, ReadSoFar
<1>2. \A k \in 1..m : k <= Len(sent) /\ entries[k] = sent[k]
    BY <1>1 DEF IInv, ReadSoFar
<1>3. pos = Start(m + 1) /\ pos <= Len(wire)
    BY Types DEF IInv, ReadSoFar
<1>4. ASSUME phase = "done", NEW k \in 1..Len(sent)
      PROVE  ends[k] <= Len(wire) <=> k <= m
    <2>1. ends[k] \in Nat  BY StartFacts DEF IInv
    <2>2. CASE k <= m
        <3>1. m \in 1..Len(sent)  BY <1>1, <2>2
        <3>2. ends[k] <= ends[m] /\ ends[m] = pos /\ ends[m] \in Nat
            BY <1>3, <2>2, <3>1, StartFacts DEF IInv, Layout
        <3> QED BY <1>1, <1>3, <2>1, <2>2, <3>2
    <2>3. CASE k > m
        <3>1. m + 1 \in 1..Len(sent) /\ m + 1 <= k /\ m < Len(sent)  BY <1>1, <2>3
        <3>2. ends[m + 1] > Len(wire)  BY <1>4, <3>1 DEF IInv, ReadSoFar
        <3>3. ends[m + 1] <= ends[k] /\ ends[m + 1] \in Nat
            BY <3>1, StartFacts DEF IInv, Layout
        <3> QED BY <1>1, <2>1, <2>3, <3>2, <3>3
    <2> QED BY <1>1, <2>2, <2>3
<1> QED BY <1>2, <1>4 DEF WholeGroupsAreRead

LEMMA InitIInv == Init => IInv
<1> SUFFICES ASSUME Init PROVE IInv
    OBVIOUS
<1> USE DEF Init
<1>1. TypeOK  BY DEF TypeOK, Word
<1>2. Layout  BY DEF Layout
<1>3. WireLength /\ ReadSoFar  BY DEF WireLength, ReadSoFar, Start
<1> QED BY <1>1, <1>2, <1>3 DEF IInv

\* A group put on the wire comes after the others.
LEMMA WriteIInv == ASSUME IInv, NEW g \in Groups, ServerWrites(g) PROVE IInv'
<1> DEFINE b == GroupBytes(g, is_streaming)
           n == Len(sent)
           len == Len(wire)
<1>1. /\ phase = "sent" /\ phase' = phase /\ is_streaming' = is_streaming
      /\ is_streaming \/ g.size_bits < 32768
      /\ wire' = wire \o b /\ sent' = Append(sent, g) /\ ends' = Append(ends, Len(wire'))
      /\ pos' = pos /\ entries' = entries /\ final_terminator' = final_terminator
    BY DEF ServerWrites
<1>2. /\ sent \in Seq(Groups) /\ ends \in Seq(Nat) /\ wire \in Seq(Byte)
      /\ n \in Nat /\ Len(ends) = n /\ len \in Nat /\ is_streaming \in BOOLEAN
    BY Types DEF IInv, Layout
<1>3. b \in Seq(Byte) /\ Len(b) \in Nat  BY <1>2, GroupBytesFacts
<1>4. len = Start(n + 1) /\ entries = <<>> /\ Len(entries) = 0
    BY <1>1 DEF IInv, WireLength, ReadSoFar
<1> HIDE DEF b, n, len
<1>5. /\ wire' \in Seq(Byte) /\ Len(wire') = len + Len(b)
      /\ \A i \in 1..len : wire'[i] = wire[i]
      /\ \A i \in 1..Len(b) : wire'[len + i] = b[i]
    BY <1>1, <1>2, <1>3, ConcatFacts DEF len
<1>6. /\ sent' \in Seq(Groups) /\ Len(sent') = n + 1 /\ sent'[n + 1] = g
      /\ \A k \in 1..n : sent'[k] = sent[k]
    BY <1>1, <1>2 DEF n
<1>7. /\ ends' \in Seq(Nat) /\ Len(ends') = n + 1 /\ ends'[n + 1] = len + Len(b)
      /\ \A k \in 1..n : ends'[k] = ends[k]
    <2>1. len + Len(b) \in Nat  BY <1>2, <1>3
    <2> QED BY <1>1, <1>2, <1>5, <2>1
<1>8. ASSUME NEW k \in 1..n + 1
      PROVE  Start(k)' = Start(k) /\ Start(k) \in Nat /\ Start(k) <= len
    <2>1. k = 1 \/ k - 1 \in 1..n  BY <1>2
    <2>2. CASE k = 1  BY <1>2, <2>2 DEF Start
    <2>3. CASE k # 1
        <3>1. k - 1 \in 1..n  BY <2>1, <2>3
        <3>2. ends[k - 1] \in Nat /\ ends[k - 1] <= len
            BY <1>4, <3>1, StartFacts DEF IInv, n
        <3> QED BY <1>7, <2>3, <3>1, <3>2 DEF Start
    <2> QED BY <2>2, <2>3
<1>9. TypeOK'
    <2>1. Len(wire') \in Nat /\ len <= Len(wire')  BY <1>2, <1>3, <1>5
    <2>2. pos \in 0..len /\ phase \in {"sent", "read", "done"}
          /\ entries \in Seq(Groups) /\ final_terminator \in Word
        BY DEF IInv, TypeOK, len
    <2>3. pos \in 0..Len(wire')  BY <1>2, <2>1, <2>2
    <2> QED BY <1>1, <1>2, <1>5, <1>6, <1>7, <2>2, <2>3 DEF TypeOK
<1>10. Layout'
    <2>1. ASSUME NEW k \in 1..n + 1
          PROVE  /\ is_streaming \/ sent'[k].size_bits < 32768
                 /\ ends'[k] = Start(k) + Len(Bytes(k)')
                 /\ \A i \in 1..Len(Bytes(k)') :
                       Start(k) + i <= Len(wire') => wire'[Start(k) + i] = Bytes(k)'[i]
        <3>1. CASE k = n + 1
            <4>1. Bytes(k)' = b  BY <1>1, <1>6, <3>1 DEF Bytes, b
            <4>2. Start(k) = len  BY <1>4, <3>1
            <4>3. sent'[k] = g /\ ends'[k] = Start(k) + Len(b)  BY <1>6, <1>7, <3>1, <4>2
            <4>4. \A i \in 1..Len(b) : wire'[Start(k) + i] = b[i]  BY <1>5, <4>2
            <4>5. ends'[k] = Start(k) + Len(Bytes(k)')  BY <4>1, <4>3
            <4>6. \A i \in 1..Len(Bytes(k)') : wire'[Start(k) + i] = Bytes(k)'[i]
                BY <4>1, <4>4
            <4>7. is_streaming \/ sent'[k].size_bits < 32768  BY <1>1, <4>3
            <4> QED BY <4>5, <4>6, <4>7
        <3>2. CASE k # n + 1
            <4>1. k \in 1..n  BY <1>2, <3>2
            <4>2. Bytes(k)' = Bytes(k) /\ sent'[k] = sent[k] /\ ends'[k] = ends[k]
                BY <1>1, <1>6, <1>7, <4>1 DEF Bytes
            <4>3. /\ is_streaming \/ sent[k].size_bits < 32768
                  /\ ends[k] = Start(k) + Len(Bytes(k))
                  /\ \A i \in 1..Len(Bytes(k)) :
                        Start(k) + i <= Len(wire) => wire[Start(k) + i] = Bytes(k)[i]
                BY <4>1 DEF IInv, Layout, n
            <4>4. Bytes(k) \in Seq(Byte) /\ Len(Bytes(k)) \in Nat /\ ends[k] <= len
                BY <1>4, <4>1, StartFacts DEF IInv, n
            <4>5. ASSUME NEW i \in 1..Len(Bytes(k))
                  PROVE  wire'[Start(k) + i] = Bytes(k)[i]
                <5>1. Start(k) \in Nat /\ i \in Nat /\ i >= 1 /\ i <= Len(Bytes(k))
                    BY <1>8, <4>4
                <5>2. Start(k) + i <= len  BY <1>2, <4>3, <4>4, <5>1
                <5>3. Start(k) + i \in 1..len  BY <1>2, <5>1, <5>2
                <5> QED BY <1>5, <4>3, <5>2, <5>3 DEF len
            <4> QED BY <4>2, <4>3, <4>5
        <3> QED BY <3>1, <3>2
    <2>2. ASSUME NEW j \in 1..n + 1, NEW k \in 1..n + 1, j <= k
          PROVE  ends'[j] <= ends'[k]
        <3>1. CASE k # n + 1
            <4>1. j \in 1..n /\ k \in 1..n  BY <1>2, <2>2, <3>1
            <4> QED BY <1>7, <2>2, <4>1 DEF IInv, Layout, n
        <3>2. CASE k = n + 1 /\ j # n + 1
            <4>1. j \in 1..n  BY <1>2, <3>2
            <4>2. ends[j] \in Nat /\ ends[j] <= len
                BY <1>4, <4>1, StartFacts DEF IInv, n
            <4> QED BY <1>2, <1>3, <1>7, <3>2, <4>1, <4>2
        <3>3. CASE k = n + 1 /\ j = n + 1  BY <1>2, <1>3, <1>7, <3>3
        <3> QED BY <3>1, <3>2, <3>3
    <2>3. \A k \in 1..n + 1 : Start(k)' = Start(k)  BY <1>8
    <2>4. Len(ends') = Len(sent') /\ 1..Len(sent') = 1..n + 1  BY <1>6, <1>7
    <2>5. ASSUME NEW k \in 1..Len(sent')
          PROVE  /\ is_streaming' \/ sent'[k].size_bits < 32768
                 /\ ends'[k] = Start(k)' + Len(Bytes(k)')
                 /\ \A i \in 1..Len(Bytes(k)') :
                       Start(k)' + i <= Len(wire') => wire'[Start(k)' + i] = Bytes(k)'[i]
        <3>1. k \in 1..n + 1  BY <2>4
        <3>2. Start(k)' = Start(k)  BY <2>3, <3>1
        <3>3. is_streaming' \/ sent'[k].size_bits < 32768  BY <1>1, <2>1, <3>1
        <3>4. ends'[k] = Start(k)' + Len(Bytes(k)')  BY <2>1, <3>1, <3>2
        <3>5. \A i \in 1..Len(Bytes(k)') :
                 Start(k)' + i <= Len(wire') => wire'[Start(k)' + i] = Bytes(k)'[i]
            BY <2>1, <3>1, <3>2
        <3> QED BY <3>3, <3>4, <3>5
    <2>6. \A j, k \in 1..Len(sent') : j <= k => ends'[j] <= ends'[k]
        BY <2>2, <2>4
    <2> QED BY <2>4, <2>5, <2>6 DEF Layout
<1>11. WireLength'
    <2>1. Len(sent') + 1 # 1 /\ (Len(sent') + 1) - 1 = n + 1  BY <1>2, <1>6
    <2>2. Start(Len(sent) + 1)' = len + Len(b)  BY <1>7, <2>1 DEF Start
    <2> QED BY <1>2, <1>3, <1>5, <2>2 DEF WireLength
<1>12. ReadSoFar'
    <2>1. Start(1)' = 0 /\ Start(1) = 0  BY DEF Start
    <2>2. pos = 0  BY <1>4, <2>1 DEF IInv, ReadSoFar
    <2>3. 0 + 1 = 1 /\ 0 <= n + 1  BY <1>2
    <2> QED BY <1>1, <1>2, <1>4, <1>6, <2>1, <2>2, <2>3 DEF ReadSoFar
<1> QED BY <1>9, <1>10, <1>11, <1>12 DEF IInv

\* A packet cut anywhere keeps what is before the cut.
LEMMA HandOverIInv == ASSUME IInv, HandOver PROVE IInv'
<1> DEFINE n == Len(sent)
           len == Len(wire)
<1>1. PICK ending \in Endings : \E c \in 0..len + 2 :
         wire' = SubSeq(wire \o ending, 1, c)
    BY DEF HandOver
<1>2. PICK c \in 0..len + 2 : wire' = SubSeq(wire \o ending, 1, c)
    BY <1>1
<1>3. /\ phase = "sent" /\ phase' = "read" /\ is_streaming' = is_streaming
      /\ sent' = sent /\ ends' = ends /\ pos' = pos /\ entries' = entries
      /\ final_terminator' = final_terminator
    BY DEF HandOver
<1>4. ending \in Seq(Byte) /\ Len(ending) = 2
    <2>1. ending = <<185, 200>> \/ ending = <<0, 0>>  BY DEF Endings, Terminator
    <2>2. 185 \in Byte /\ 200 \in Byte /\ 0 \in Byte  BY DEF Byte
    <2>3. <<185, 200>> \in Seq(Byte) /\ Len(<<185, 200>>) = 2  BY <2>2
    <2>4. <<0, 0>> \in Seq(Byte) /\ Len(<<0, 0>>) = 2  BY <2>2
    <2> QED BY <2>1, <2>3, <2>4
<1>5. wire \in Seq(Byte) /\ len \in Nat /\ n \in Nat  BY Types DEF IInv
<1>6. len = Start(n + 1) /\ entries = <<>> /\ Len(entries) = 0
    BY <1>3 DEF IInv, WireLength, ReadSoFar
<1> DEFINE all == wire \o ending
<1>7. /\ all \in Seq(Byte) /\ Len(all) = len + 2
      /\ \A i \in 1..len : all[i] = wire[i]
    <2>1. /\ all \in Seq(Byte) /\ Len(all) = Len(wire) + Len(ending)
          /\ \A i \in 1..Len(wire) : all[i] = wire[i]
        BY <1>4, <1>5, ConcatFacts
    <2> HIDE DEF all
    <2> QED BY <1>4, <2>1
<1> HIDE DEF all, n, len
<1>8. /\ wire' \in Seq(Byte) /\ Len(wire') = c
      /\ \A i \in 1..c : wire'[i] = all[i]
    <2>1. c \in Nat /\ c <= Len(all) /\ wire' = SubSeq(all, 1, c)
        BY <1>2, <1>5, <1>7 DEF all
    <2> QED BY <1>7, <2>1
<1>9. pos = 0
    <2>1. Start(1) = 0 /\ 0 + 1 = 1  BY DEF Start
    <2> QED BY <1>6, <2>1 DEF IInv, ReadSoFar
<1>10. TypeOK'
    <2>1. pos \in 0..Len(wire')  BY <1>5, <1>8, <1>9
    <2>2. /\ is_streaming \in BOOLEAN /\ sent \in Seq(Groups) /\ ends \in Seq(Nat)
          /\ entries \in Seq(Groups) /\ final_terminator \in Word
        BY DEF IInv, TypeOK
    <2> QED BY <1>3, <1>8, <2>1, <2>2 DEF TypeOK
<1>11. \A k : Start(k)' = Start(k) /\ Bytes(k)' = Bytes(k)
    BY <1>3 DEF Start, Bytes
<1>12. Layout'
    <2>1. ASSUME NEW k \in 1..n, NEW i \in 1..Len(Bytes(k)), Start(k) + i <= c
          PROVE  wire'[Start(k) + i] = Bytes(k)[i]
        <3>1. /\ Start(k) \in Nat /\ Bytes(k) \in Seq(Byte) /\ Len(Bytes(k)) \in Nat
              /\ ends[k] \in Nat /\ ends[k] <= len
            BY <1>5, <1>6, StartFacts DEF IInv, n
        <3>2. ends[k] = Start(k) + Len(Bytes(k))  BY DEF IInv, Layout, n
        <3>3. Start(k) + i \in 1..len /\ Start(k) + i \in 1..c
            BY <1>5, <2>1, <3>1, <3>2
        <3>4. wire[Start(k) + i] = Bytes(k)[i]
            BY <1>5, <3>3 DEF IInv, Layout, n, len
        <3> QED BY <1>7, <1>8, <3>3, <3>4
    <2>2. \A k \in 1..n : \A i \in 1..Len(Bytes(k)) :
             Start(k) + i <= Len(wire') => wire'[Start(k) + i] = Bytes(k)[i]
        BY <1>8, <2>1
    <2> QED BY <1>3, <1>11, <2>2 DEF IInv, Layout, n
<1>13. WireLength'
    <2>1. c <= len + 2  BY <1>5
    <2> QED BY <1>3, <1>6, <1>8, <1>11, <2>1 DEF WireLength, n
<1>14. ReadSoFar'  BY <1>3, <1>11 DEF IInv, ReadSoFar
<1> QED BY <1>10, <1>12, <1>13, <1>14 DEF IInv

\* A group is read as it was sent, and the next one starts where it ends.
LEMMA ReadIInv == ASSUME IInv, ReadGroup PROVE IInv'
<1> DEFINE m == Len(entries)
           n == Len(sent)
<1>1. /\ phase = "read" /\ phase' = phase /\ is_streaming' = is_streaming
      /\ sent' = sent /\ ends' = ends /\ wire' = wire
      /\ final_terminator' = final_terminator /\ GroupArrived
    BY DEF ReadGroup
<1>2. /\ m \in Nat /\ n \in Nat /\ m <= n /\ Len(wire) \in Nat
      /\ entries \in Seq(Groups) /\ sent \in Seq(Groups) /\ is_streaming \in BOOLEAN
      /\ wire \in Seq(Byte) /\ pos \in Nat /\ pos <= Len(wire) /\ Len(ends) = n
    BY Types DEF IInv, ReadSoFar, Layout
<1>3. pos = Start(m + 1) /\ \A k \in 1..m : entries[k] = sent[k]
    BY DEF IInv, ReadSoFar
<1>4. m < n
    <2>1. pos + 2 < Len(wire)  BY <1>1 DEF GroupArrived, AtGroup
    <2>2. Len(wire) <= Start(n + 1) + 2  BY DEF IInv, WireLength
    <2>3. ASSUME m = n PROVE FALSE  BY <1>2, <1>3, <2>1, <2>2, <2>3
    <2> QED BY <1>2, <2>3
<1> DEFINE k == m + 1
           g == sent[k]
<1>5. k \in 1..n  BY <1>2, <1>4
<1>6. /\ g \in Groups /\ ends[k] \in Nat /\ ends[k] = Start(k + 1)
      /\ Bytes(k) \in Seq(Byte)
    BY <1>5, StartFacts DEF IInv
<1>7. /\ is_streaming \/ g.size_bits < 32768
      /\ ends[k] = pos + Len(Bytes(k))
      /\ \A i \in 1..Len(Bytes(k)) : pos + i <= Len(wire) => wire[pos + i] = Bytes(k)[i]
    BY <1>3, <1>5 DEF IInv, Layout
<1> HIDE DEF m, n, k, g
<1>8. /\ ends[k] <= Len(wire)
      /\ DataAt + DataLength(SizeAt) = ends[k]
      /\ IdValue(pos + 2, IdRead(pos + 2)) = g.network_id
      /\ SizeValue(SizeAt) = g.size_bits
      /\ SubSeq(wire, DataAt + 1, ends[k]) = g.data
    <2>1. pos \in 0..Len(wire)  BY <1>2
    <2>2. Bytes(k) = GroupBytes(g, is_streaming)  BY DEF Bytes, g
    <2>3. g \in Groups /\ (is_streaming \/ g.size_bits < 32768)  BY <1>6, <1>7
    <2>4. \A i \in 1..Len(GroupBytes(g, is_streaming)) :
             pos + i <= Len(wire) => wire[pos + i] = GroupBytes(g, is_streaming)[i]
        BY <1>7, <2>2
    <2> DEFINE end == pos + Len(GroupBytes(g, is_streaming))
    <2>5. end = ends[k]  BY <1>7, <2>2
    <2>6. /\ end <= Len(wire)
          /\ DataAt + DataLength(SizeAt) = end
          /\ IdValue(pos + 2, IdRead(pos + 2)) = g.network_id
          /\ SizeValue(SizeAt) = g.size_bits
          /\ SubSeq(wire, DataAt + 1, end) = g.data
        BY <1>1, <1>2, <2>1, <2>3, <2>4, GroupIsRead
    <2> HIDE DEF end
    <2> QED BY <2>5, <2>6
<1>9. pos' = ends[k] /\ entries' = Append(entries, g)
    <2>1. g = [network_id |-> g.network_id, size_bits |-> g.size_bits, data |-> g.data]
        BY <1>6, GroupsAssumption DEF StateGroupEntry
    <2> HIDE DEF g
    <2>2. /\ entries' = Append(entries,
                [network_id |-> IdValue(pos + 2, IdRead(pos + 2)),
                 size_bits |-> SizeValue(SizeAt),
                 data |-> SubSeq(wire, DataAt + 1, DataAt + DataLength(SizeAt))])
          /\ pos' = DataAt + DataLength(SizeAt)
        BY DEF ReadGroup
    <2>3. /\ entries' = Append(entries,
                [network_id |-> g.network_id, size_bits |-> g.size_bits, data |-> g.data])
          /\ pos' = ends[k]
        BY <1>8, <2>2
    <2> QED BY <2>1, <2>3
<1>10. /\ entries' \in Seq(Groups) /\ Len(entries') = k /\ entries'[k] = g
       /\ \A j \in 1..m : entries'[j] = entries[j]
    BY <1>2, <1>6, <1>9 DEF k, m
<1>11. \A j : Start(j)' = Start(j) /\ Bytes(j)' = Bytes(j)
    BY <1>1 DEF Start, Bytes
<1>12. TypeOK'
    <2>1. pos' \in 0..Len(wire')  BY <1>1, <1>2, <1>6, <1>8, <1>9
    <2>2. /\ is_streaming \in BOOLEAN /\ phase \in {"sent", "read", "done"}
          /\ sent \in Seq(Groups) /\ ends \in Seq(Nat) /\ wire \in Seq(Byte)
          /\ final_terminator \in Word
        BY DEF IInv, TypeOK
    <2> QED BY <1>1, <1>10, <2>1, <2>2 DEF TypeOK
<1>13. Layout'  BY <1>1, <1>11 DEF IInv, Layout
<1>14. WireLength'  BY <1>1, <1>11 DEF IInv, WireLength
<1>15. ReadSoFar'
    <2>1. Len(entries') <= Len(sent')  BY <1>1, <1>2, <1>5, <1>10 DEF n
    <2>2. ASSUME NEW j \in 1..Len(entries') PROVE entries'[j] = sent'[j]
        <3>1. j \in 1..m \/ j = k  BY <1>2, <1>10 DEF k
        <3> QED BY <1>1, <1>3, <1>10, <3>1 DEF g, m
    <2>3. Len(entries') + 1 # 1 /\ (Len(entries') + 1) - 1 = k  BY <1>2, <1>5, <1>10
    <2>4. pos' = Start(Len(entries) + 1)'  BY <1>1, <1>9, <2>3 DEF Start
    <2> QED BY <1>1, <2>1, <2>2, <2>4 DEF ReadSoFar
<1> QED BY <1>12, <1>13, <1>14, <1>15 DEF IInv

\* The reader returns early at a group that did not arrive whole, and nowhere
\* else before the last one.
LEMMA ReturnIInv == ASSUME IInv, ReturnEntries PROVE IInv'
<1> DEFINE m == Len(entries)
           n == Len(sent)
           k == m + 1
<1>1. /\ phase = "read" /\ phase' = "done" /\ is_streaming' = is_streaming
      /\ sent' = sent /\ ends' = ends /\ wire' = wire /\ pos' = pos
      /\ entries' = entries /\ ~GroupArrived
      /\ final_terminator' =
            IF pos + 2 <= Len(wire) /\ ~AtGroup THEN TwoBytes(pos) ELSE 0
    BY DEF ReturnEntries
<1>2. /\ m \in Nat /\ n \in Nat /\ m <= n /\ Len(wire) \in Nat
      /\ is_streaming \in BOOLEAN /\ wire \in Seq(Byte) /\ pos \in Nat /\ pos <= Len(wire)
    BY Types DEF IInv, ReadSoFar
<1>3. \A j : Start(j)' = Start(j) /\ Bytes(j)' = Bytes(j)
    BY <1>1 DEF Start, Bytes
<1>4. ASSUME m < n PROVE ends[k] > Len(wire)
    <2> DEFINE g == sent[k]
    <2>1. k \in 1..n /\ pos = Start(k)  BY <1>2, <1>4 DEF IInv, ReadSoFar
    <2>2. g \in Groups /\ ends[k] \in Nat  BY <2>1, StartFacts DEF IInv
    <2>3. /\ is_streaming \/ g.size_bits < 32768
          /\ ends[k] = pos + Len(Bytes(k))
          /\ \A i \in 1..Len(Bytes(k)) : pos + i <= Len(wire) => wire[pos + i] = Bytes(k)[i]
        BY <2>1 DEF IInv, Layout
    <2> HIDE DEF m, n, k
    <2>4. Bytes(k) = GroupBytes(g, is_streaming)  BY DEF Bytes
    <2> HIDE DEF g
    <2>5. pos \in 0..Len(wire)  BY <1>2
    <2>6. GroupArrived <=> ends[k] <= Len(wire)
        BY <1>2, <2>2, <2>3, <2>4, <2>5, GroupIsRead
    <2> QED BY <1>1, <1>2, <2>2, <2>6
<1>5. final_terminator' \in Word
    <2>1. 0 \in Word  BY SMT DEF Word
    <2>2. ASSUME pos + 2 <= Len(wire) PROVE TwoBytes(pos) \in Word
        <3>1. pos + 1 \in 1..Len(wire) /\ pos + 2 \in 1..Len(wire)  BY <1>2, <2>2
        <3>2. wire[pos + 1] \in Byte /\ wire[pos + 2] \in Byte  BY <1>2, <3>1
        <3> QED BY <3>2, WordFacts DEF TwoBytes
    <2> QED BY <1>1, <2>1, <2>2
<1>6. TypeOK'  BY <1>1, <1>5 DEF IInv, TypeOK
<1>7. Layout'  BY <1>1, <1>3 DEF IInv, Layout
<1>8. WireLength'  BY <1>1, <1>3 DEF IInv, WireLength
<1>9. ReadSoFar'  BY <1>1, <1>3, <1>4 DEF IInv, ReadSoFar
<1> QED BY <1>6, <1>7, <1>8, <1>9 DEF IInv

LEMMA NextIInv == IInv /\ [Next]_vars => IInv'
<1> SUFFICES ASSUME IInv, [Next]_vars PROVE IInv'
    OBVIOUS
<1>1. CASE \E g \in Groups : ServerWrites(g)  BY <1>1, WriteIInv
<1>2. CASE HandOver  BY <1>2, HandOverIInv
<1>3. CASE ReadGroup  BY <1>3, ReadIInv
<1>4. CASE ReturnEntries  BY <1>4, ReturnIInv
<1>5. CASE UNCHANGED vars
    <2>1. \A j : Start(j)' = Start(j) /\ Bytes(j)' = Bytes(j)
        BY <1>5 DEF vars, Start, Bytes
    <2>2. TypeOK'  BY <1>5 DEF IInv, TypeOK, vars
    <2>3. Layout'  BY <1>5, <2>1 DEF IInv, Layout, vars
    <2>4. WireLength' /\ ReadSoFar'  BY <1>5, <2>1 DEF IInv, WireLength, ReadSoFar, vars
    <2> QED BY <2>2, <2>3, <2>4 DEF IInv
<1> QED BY <1>1, <1>2, <1>3, <1>4, <1>5 DEF Next

LEMMA SpecIInv == Spec => []IInv
<1> QED BY InitIInv, NextIInv, PTL DEF Spec

----------------------------------------------------------------------------

\* What is read of a packet are groups, and the reader stays inside it.
THEOREM SpecTypeOK == Spec => []TypeOK
<1>1. IInv => TypeOK  BY DEF IInv
<1> QED BY SpecIInv, <1>1, PTL

\* Of any packet, of any groups, cut anywhere, exactly the groups that arrived
\* whole are read, as they were sent.
THEOREM WholeGroups == Spec => []WholeGroupsAreRead
<1> QED BY SpecIInv, WholeGroupsFromIInv, PTL
=============================================================================
