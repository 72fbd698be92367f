-------------------------- MODULE ServerRulesProofs --------------------------
(***************************************************************************)
(* What a query of the server rules yields, for all contents, images and   *)
(* sizes of chunks, and however publications and the query interleave.     *)
(***************************************************************************)
EXTENDS ServerRules, TLAPS

(* Arithmetic of the chunks *)

\* For the provers, which neither divide nor multiply by a variable.
LEMMA QuotientFacts ==
    \A a \in Nat : \A b \in Nat \ {0} :
        a \div b \in Nat /\ (a \div b) * b <= a /\ a < (a \div b) * b + b
OBVIOUS

LEMMA ProductFacts ==
    \A i \in Nat : \A b \in Nat \ {0} : i * b \in Nat /\ (i + 1) * b = i * b + b
OBVIOUS

LEMMA ProductMonotone == \A i, j \in Nat : \A b \in Nat \ {0} : i < j => i * b + b <= j * b
OBVIOUS

\* The bytes b + 1 to e of a sequence.
LEMMA SliceFacts ==
    ASSUME NEW s \in Seq(Byte), NEW b \in Nat, NEW e \in Nat, b < e, e <= Len(s)
    PROVE  /\ SubSeq(s, b + 1, e) \in Seq(Byte)
           /\ Len(SubSeq(s, b + 1, e)) = e - b
           /\ \A q \in 1..(e - b) : SubSeq(s, b + 1, e)[q] = s[b + q]
<1>1. \A i \in (b + 1)..e : s[i] \in Byte  OBVIOUS
<1>2. SubSeq(s, b + 1, e) \in Seq(Byte)  BY <1>1
<1>3. Len(SubSeq(s, b + 1, e)) = e - b  OBVIOUS
<1>4. ASSUME NEW q \in 1..(e - b) PROVE SubSeq(s, b + 1, e)[q] = s[b + q]
    <2>1. SubSeq(s, b + 1, e)[q] = s[(b + 1) + q - 1]  OBVIOUS
    <2>2. (b + 1) + q - 1 = b + q  OBVIOUS
    <2> QED BY <2>1, <2>2
<1> QED BY <1>2, <1>3, <1>4

\* The chunks of n bytes are those that begin before their end.
LEMMA CeilingFacts ==
    ASSUME NEW n \in Nat, NEW i \in Nat
    PROVE  LET chunks == (n + ChunkSize - 1) \div ChunkSize
           IN  chunks \in Nat /\ (i \in 0..(chunks - 1) <=> i * ChunkSize < n)
<1> DEFINE chunks == (n + ChunkSize - 1) \div ChunkSize
<1> ChunkSize \in Nat \ {0}  BY ConstantsAssumption
<1>1. /\ chunks \in Nat
      /\ chunks * ChunkSize <= n + ChunkSize - 1
      /\ n + ChunkSize - 1 < chunks * ChunkSize + ChunkSize
    <2>1. n + ChunkSize - 1 \in Nat  OBVIOUS
    <2> QED BY <2>1, QuotientFacts
<1>2. i * ChunkSize \in Nat /\ chunks * ChunkSize \in Nat  BY <1>1, ProductFacts
<1> HIDE DEF chunks
<1>3. ASSUME i < chunks PROVE i * ChunkSize < n
    <2>1. i * ChunkSize + ChunkSize <= chunks * ChunkSize  BY <1>1, <1>3, ProductMonotone
    <2> QED BY <1>1, <1>2, <2>1
<1>4. ASSUME i * ChunkSize < n PROVE i < chunks
    <2>1. SUFFICES ASSUME chunks <= i PROVE FALSE  BY <1>1
    <2>2. chunks = i \/ chunks * ChunkSize + ChunkSize <= i * ChunkSize
        BY <1>1, <2>1, ProductMonotone
    <2> QED BY <1>1, <1>2, <1>4, <2>2
<1>5. i \in 0..(chunks - 1) <=> i < chunks  BY <1>1
<1> QED BY <1>1, <1>3, <1>4, <1>5 DEF chunks

\* The chunk of a position.
LEMMA PositionFacts ==
    ASSUME NEW p \in Nat \ {0}
    PROVE  LET i == (p - 1) \div ChunkSize
           IN  i \in Nat /\ i * ChunkSize \in Nat /\ p - i * ChunkSize \in 1..ChunkSize
<1> DEFINE i == (p - 1) \div ChunkSize
<1>1. p - 1 \in Nat /\ ChunkSize \in Nat \ {0}  BY ConstantsAssumption
<1>2. i \in Nat /\ i * ChunkSize <= p - 1 /\ p - 1 < i * ChunkSize + ChunkSize
    BY <1>1, QuotientFacts
<1>3. i * ChunkSize \in Nat  BY <1>1, <1>2, ProductFacts
<1> HIDE DEF i
<1>4. p - i * ChunkSize \in 1..ChunkSize  BY <1>1, <1>2, <1>3
<1> QED BY <1>2, <1>3, <1>4 DEF i

----------------------------------------------------------------------------
(* encode_rules *)

LEMMA ImageFacts ==
    ASSUME NEW d \in Contents
    PROVE  /\ Image[d] \in Seq(Byte) /\ Len(Image[d]) \in Nat \ {0}
           /\ PrefixLength < Len(Image[d])
           /\ NumChunks(d) \in Nat \ {0}
<1>1. Image[d] \in Seq(Byte) /\ Len(Image[d]) > PrefixLength /\ PrefixLength \in Nat
    BY ConstantsAssumption
<1>2. Len(Image[d]) \in Nat \ {0}  BY <1>1
<1>3. NumChunks(d) \in Nat /\ (0 \in 0..(NumChunks(d) - 1) <=> 0 * ChunkSize < Len(Image[d]))
    BY <1>2, CeilingFacts DEF NumChunks
<1>4. 0 * ChunkSize = 0  BY ConstantsAssumption
<1> QED BY <1>1, <1>2, <1>3, <1>4

\* A chunk holds the bytes of the image at its positions, and no more.
LEMMA ChunkFacts ==
    ASSUME NEW d \in Contents, NEW i \in 0..(NumChunks(d) - 1)
    PROVE  /\ Chunk(d, i) \in Seq(Byte)
           /\ Len(Chunk(d, i)) <= ChunkSize
           /\ i * ChunkSize + Len(Chunk(d, i)) <= Len(Image[d])
           /\ \A p \in Nat \ {0} : (p - 1) \div ChunkSize = i =>
                 /\ p <= Len(Image[d]) =>
                       /\ p - i * ChunkSize <= Len(Chunk(d, i))
                       /\ Chunk(d, i)[p - i * ChunkSize] = Image[d][p]
                 /\ p > Len(Image[d]) => p - i * ChunkSize > Len(Chunk(d, i))
<1> DEFINE b == i * ChunkSize
           e == Smaller((i + 1) * ChunkSize, Len(Image[d]))
<1>1. /\ Image[d] \in Seq(Byte) /\ Len(Image[d]) \in Nat \ {0}
      /\ NumChunks(d) \in Nat \ {0} /\ i \in Nat /\ ChunkSize \in Nat \ {0}
    BY ImageFacts, ConstantsAssumption
<1>2. b \in Nat /\ (i + 1) * ChunkSize = b + ChunkSize  BY <1>1, ProductFacts
<1>3. b < Len(Image[d])  BY <1>1, CeilingFacts DEF NumChunks
<1> HIDE DEF b
<1>4. /\ e \in Nat /\ b < e /\ e <= Len(Image[d]) /\ e <= b + ChunkSize
      /\ e = b + ChunkSize \/ e = Len(Image[d])
    BY <1>1, <1>2, <1>3 DEF Smaller
<1> HIDE DEF e
<1>5. Chunk(d, i) = SubSeq(Image[d], b + 1, e)  BY DEF Chunk, b, e
<1>6. /\ Chunk(d, i) \in Seq(Byte) /\ Len(Chunk(d, i)) = e - b
      /\ \A q \in 1..(e - b) : Chunk(d, i)[q] = Image[d][b + q]
    <2> DEFINE c == SubSeq(Image[d], b + 1, e)
    <2>1. c \in Seq(Byte) /\ Len(c) = e - b /\ \A q \in 1..(e - b) : c[q] = Image[d][b + q]
        <3>1. Image[d] \in Seq(Byte) /\ b \in Nat /\ e \in Nat /\ b < e /\ e <= Len(Image[d])
            BY <1>1, <1>2, <1>4
        <3> HIDE DEF Byte
        <3> QED BY <3>1, SliceFacts
    <2> QED BY <1>5, <2>1
<1>7. ASSUME NEW p \in Nat \ {0}, (p - 1) \div ChunkSize = i
      PROVE  /\ p <= Len(Image[d]) =>
                   p - b <= Len(Chunk(d, i)) /\ Chunk(d, i)[p - b] = Image[d][p]
             /\ p > Len(Image[d]) => p - b > Len(Chunk(d, i))
    <2>1. p - b \in 1..ChunkSize  BY <1>7, PositionFacts DEF b
    <2>2. p <= Len(Image[d]) => p - b \in 1..(e - b)  BY <1>1, <1>2, <1>4, <2>1
    <2>3. b + (p - b) = p  BY <1>2
    <2>4. p > Len(Image[d]) => p - b > e - b  BY <1>1, <1>2, <1>4
    <2> QED BY <1>6, <2>2, <2>3, <2>4
<1>8. Len(Chunk(d, i)) <= ChunkSize /\ b + Len(Chunk(d, i)) <= Len(Image[d])
    BY <1>1, <1>2, <1>4, <1>6
<1> QED BY <1>6, <1>7, <1>8 DEF b

LEMMA EncodeFacts ==
    ASSUME NEW d \in Contents, NEW k \in Keys(d)
    PROVE  /\ k \in KeysEver
           /\ k = SizeKey => EncodeRules(d)[k] = Len(Image[d])
           /\ k # SizeKey => k \in 0..(NumChunks(d) - 1) /\ EncodeRules(d)[k] = Chunk(d, k)
<1>1. NumChunks(d) \in Nat  BY ImageFacts
<1> QED BY <1>1 DEF Keys, KeysEver, EncodeRules

----------------------------------------------------------------------------
(* decode_rules *)

\* A rule is one that the encoding of f has.
Stem(r, k, f) == k \in Keys(f) /\ r[k] = EncodeRules(f)[k]

LEMMA StemFacts ==
    ASSUME NEW r, NEW k \in Int, NEW f \in Contents, Stem(r, k, f)
    PROVE  k \in 0..(NumChunks(f) - 1) /\ r[k] = Chunk(f, k)
BY EncodeFacts, ConstantsAssumption DEF Stem

\* The buffer holds, chunk by chunk, the bytes of the contents they stem from.
LEMMA CompressedFacts ==
    ASSUME NEW answer_, answer_[SizeKey] \in Nat,
           NEW p \in 1..answer_[SizeKey], NEW f \in Contents,
           Stem(answer_, (p - 1) \div ChunkSize, f)
    PROVE  Compressed(answer_)[p] = ByteOf(f, p)
<1> DEFINE i == (p - 1) \div ChunkSize
<1>1. p \in Nat \ {0} /\ i \in Nat /\ p - i * ChunkSize \in 1..ChunkSize
    BY PositionFacts
<1>2. Compressed(answer_)[p] =
        IF p - i * ChunkSize <= Len(answer_[i]) THEN answer_[i][p - i * ChunkSize] ELSE 0
    BY DEF Compressed
<1>3. Stem(answer_, i, f) /\ i \in Int  BY <1>1
<1>4. i \in 0..(NumChunks(f) - 1) /\ answer_[i] = Chunk(f, i)
    <2> HIDE DEF i
    <2> QED BY <1>3, StemFacts
<1>5. /\ p <= Len(Image[f]) =>
            /\ p - i * ChunkSize <= Len(Chunk(f, i))
            /\ Chunk(f, i)[p - i * ChunkSize] = Image[f][p]
      /\ p > Len(Image[f]) => p - i * ChunkSize > Len(Chunk(f, i))
    BY <1>1, <1>4, ChunkFacts
<1>6. Chunk(f, i) \in Seq(Byte)  BY <1>4, ChunkFacts
<1>7. Len(Chunk(f, i)) \in Nat /\ Len(Image[f]) \in Nat /\ p - i * ChunkSize \in Nat
    BY <1>1, <1>6, ImageFacts
<1> HIDE DEF i
<1>8. CASE p <= Len(Image[f])  BY <1>2, <1>4, <1>5, <1>8 DEF ByteOf
<1>9. CASE p > Len(Image[f])
    <2>1. ~(p - i * ChunkSize <= Len(Chunk(f, i))) /\ ~(p <= Len(Image[f]))
        BY <1>1, <1>5, <1>7, <1>9
    <2> QED BY <1>2, <1>4, <2>1 DEF ByteOf
<1> QED BY <1>1, <1>7, <1>8, <1>9

\* All chunks of what decodes were there.
LEMMA DecodedFacts ==
    ASSUME NEW answer_, DecodeRules(answer_) \in Contents
    PROVE  LET n == (answer_[SizeKey] + ChunkSize - 1) \div ChunkSize
               d == DecodeRules(answer_)
           IN  /\ SizeKey \in DOMAIN answer_
               /\ 0..(n - 1) \subseteq DOMAIN answer_
               /\ IsImage(Compressed(answer_), d)
<1>1. {"missing_size", "missing_chunk", "panic", "undecodable"} \cap Contents = {}
    BY ConstantsAssumption
<1> QED BY <1>1, Zenon DEF DecodeRules

\* If the chunks at the places of what decodes stem from some contents, what
\* decodes is one of these.
LEMMA DecodedFromChunks ==
    ASSUME NEW answer_, Rules(answer_), DecodeRules(answer_) \in Contents,
           NEW S \in SUBSET Contents,
           \A i \in 0..(NumChunks(DecodeRules(answer_)) - 1) :
               i \in DOMAIN answer_ => \E f \in S : Stem(answer_, i, f)
    PROVE  DecodeRules(answer_) \in S
<1> DEFINE d == DecodeRules(answer_)
           n == (answer_[SizeKey] + ChunkSize - 1) \div ChunkSize
<1>1. /\ SizeKey \in DOMAIN answer_ /\ 0..(n - 1) \subseteq DOMAIN answer_
      /\ IsImage(Compressed(answer_), d)
    BY DecodedFacts
<1>2. answer_[SizeKey] \in Nat  BY <1>1 DEF Rules
<1>3. /\ d \in Contents
      /\ \A i \in 0..(NumChunks(d) - 1) : i \in DOMAIN answer_ => \E f \in S : Stem(answer_, i, f)
    OBVIOUS
<1> HIDE DEF d
<1> SUFFICES ASSUME d \notin S PROVE FALSE  BY DEF d
<1>4. PICK i \in 0..(NumChunks(d) - 1) : \A f \in S : ~Agrees(d, f, i)
    <2>1. S \in SUBSET (Contents \ {d})  OBVIOUS
    <2> QED BY <1>3, <2>1, ChecksumAssumption
<1>5. Len(Compressed(answer_)) = answer_[SizeKey]
    BY <1>2 DEF Compressed
<1>6. Len(Image[d]) \in Nat /\ Len(Image[d]) <= answer_[SizeKey]
    BY <1>1, <1>3, <1>5, ImageFacts DEF IsImage
<1>7. NumChunks(d) \in Nat /\ i \in Nat  BY <1>3, ImageFacts
<1>8. i * ChunkSize \in Nat /\ i * ChunkSize < Len(Image[d])
    BY <1>6, <1>7, CeilingFacts, ProductFacts, ConstantsAssumption DEF NumChunks
<1>9. i \in 0..(n - 1)
    <2>1. i * ChunkSize < answer_[SizeKey]  BY <1>2, <1>6, <1>8
    <2> QED BY <1>2, <1>7, <2>1, CeilingFacts
<1>10. PICK f \in S : Stem(answer_, i, f)  BY <1>1, <1>3, <1>9
<1>11. ASSUME NEW p \in 1..Len(Image[d]), p > PrefixLength, (p - 1) \div ChunkSize = i
       PROVE  ByteOf(f, p) = Image[d][p]
    <2>1. p \in 1..answer_[SizeKey]  BY <1>2, <1>6
    <2>2. Compressed(answer_)[p] = Image[d][p]  BY <1>1, <1>11 DEF IsImage
    <2>3. Compressed(answer_)[p] = ByteOf(f, p)
        BY <1>2, <1>10, <1>11, <2>1, CompressedFacts
    <2> QED BY <2>2, <2>3
<1>12. Agrees(d, f, i)  BY <1>11 DEF Agrees
<1> QED BY <1>4, <1>12

\* Rules of one publication decode to it or are not all there.
LEMMA DecodeOfOne ==
    ASSUME NEW answer_, Rules(answer_), NEW d \in Contents,
           \A k \in DOMAIN answer_ : k \in Keys(d) => Stem(answer_, k, d)
    PROVE  /\ Keys(d) \subseteq DOMAIN answer_ => DecodeRules(answer_) = d
           /\ DecodeRules(answer_) \in {d, "missing_size", "missing_chunk"}
<1> DEFINE n == (answer_[SizeKey] + ChunkSize - 1) \div ChunkSize
           Missing(i) == i \notin DOMAIN answer_
           Panics == \E i \in 0..(n - 1) : /\ \A j \in 0..i : ~Missing(j)
                                          /\ Overruns(answer_, i)
           Misses == \E i \in 0..(n - 1) : Missing(i)
           Image_(c) == IsImage(Compressed(answer_), c)
<1>1. CASE SizeKey \notin DOMAIN answer_
    <2>1. DecodeRules(answer_) = "missing_size"  BY <1>1 DEF DecodeRules
    <2>2. SizeKey \in Keys(d)  BY DEF Keys
    <2> QED BY <1>1, <2>1, <2>2
<1>2. CASE SizeKey \in DOMAIN answer_
    <2>1. answer_[SizeKey] = Len(Image[d]) /\ n = NumChunks(d)
        BY <1>2, EncodeFacts DEF Stem, Keys, NumChunks
    <2>2. 0..(n - 1) \subseteq Keys(d) /\ 0..(n - 1) \subseteq Int
        <3>1. NumChunks(d) \in Nat  BY ImageFacts
        <3> QED BY <2>1, <3>1 DEF Keys
    <2>3. Len(Image[d]) \in Nat \ {0} /\ answer_[SizeKey] \in Nat  BY <2>1, ImageFacts
    <2>4. DecodeRules(answer_) =
            IF Panics THEN "panic" ELSE IF Misses THEN "missing_chunk"
            ELSE IF \E c \in Contents : Image_(c) THEN CHOOSE c \in Contents : Image_(c)
            ELSE "undecodable"
        BY <1>2, Zenon DEF DecodeRules
    <2>5. ~Panics
        <3> SUFFICES ASSUME NEW i \in 0..(n - 1), \A j \in 0..i : ~Missing(j),
                            Overruns(answer_, i)
                     PROVE  FALSE
            BY Zenon
        <3>1. i \in Nat /\ i \in 0..(NumChunks(d) - 1) /\ i \in DOMAIN answer_
            <4>1. NumChunks(d) \in Nat  BY ImageFacts
            <4>2. i \in Nat /\ i \in 0..i /\ i \in 0..(NumChunks(d) - 1)  BY <2>1, <4>1
            <4> QED BY <4>2
        <3>2. answer_[i] = Chunk(d, i)  BY <2>2, <3>1, StemFacts
        <3>3. i * ChunkSize + Len(Chunk(d, i)) <= Len(Image[d])  BY <3>1, ChunkFacts
        <3>4. i * ChunkSize + Len(Chunk(d, i)) > Len(Image[d])  BY <2>1, <3>2 DEF Overruns
        <3>5. i * ChunkSize \in Nat /\ Len(Chunk(d, i)) \in Nat
            <4>1. Chunk(d, i) \in Seq(Byte)  BY <3>1, ChunkFacts
            <4> QED BY <3>1, <4>1, ProductFacts, ConstantsAssumption
        <3> QED BY <2>3, <3>3, <3>4, <3>5
    <2>6. CASE Misses
        <3>1. DecodeRules(answer_) = "missing_chunk"  BY <2>4, <2>5, <2>6, Zenon
        <3>2. ~(Keys(d) \subseteq DOMAIN answer_)  BY <2>2, <2>6
        <3> QED BY <3>1, <3>2
    <2>7. CASE ~Misses
        <3>1. 0..(n - 1) \subseteq DOMAIN answer_  BY <2>7
        <3>2. Len(Compressed(answer_)) = Len(Image[d])  BY <2>1, <2>3 DEF Compressed
        <3>3. ASSUME NEW p \in 1..Len(Image[d])
              PROVE  Compressed(answer_)[p] = Image[d][p]
            <4>1. p \in Nat \ {0} /\ p \in 1..answer_[SizeKey]  BY <2>1, <2>3
            <4>2. (p - 1) \div ChunkSize \in 0..(n - 1)
                <5> DEFINE i == (p - 1) \div ChunkSize
                <5>1. i \in Nat /\ i * ChunkSize \in Nat /\ p - i * ChunkSize \in 1..ChunkSize
                    BY <4>1, PositionFacts
                <5> HIDE DEF i
                <5>2. i * ChunkSize < answer_[SizeKey]
                    BY <2>1, <2>3, <4>1, <5>1, ConstantsAssumption
                <5>3. i \in 0..(n - 1)  BY <2>3, <5>1, <5>2, CeilingFacts
                <5> QED BY <5>3 DEF i
            <4>3. Stem(answer_, (p - 1) \div ChunkSize, d)  BY <2>2, <3>1, <4>2
            <4>4. Compressed(answer_)[p] = ByteOf(d, p)
                BY <2>3, <4>1, <4>3, CompressedFacts
            <4> QED BY <4>4 DEF ByteOf
        <3>4. Image_(d)  BY <2>3, <3>2, <3>3 DEF IsImage
        <3>5. DecodeRules(answer_) \in Contents
            <4> DEFINE c == CHOOSE c \in Contents : Image_(c)
            <4>1. c \in Contents  BY <3>4, Zenon
            <4>2. DecodeRules(answer_) = c  BY <2>4, <2>5, <2>7, <3>4, Zenon
            <4> QED BY <4>1, <4>2
        <3>6. DecodeRules(answer_) = d
            <4>1. IsImage(Compressed(answer_), DecodeRules(answer_))  BY <3>5, DecodedFacts
            <4> DEFINE c == DecodeRules(answer_)
            <4>2. ASSUME NEW i \in 0..(NumChunks(c) - 1)
                  PROVE  i \in DOMAIN answer_ => \E f \in {d} : Stem(answer_, i, f)
                <5>1. /\ Len(Image[c]) \in Nat /\ NumChunks(c) \in Nat
                      /\ Len(Image[c]) <= Len(Image[d])
                    BY <3>2, <3>5, <4>1, ImageFacts DEF IsImage
                <5>2. i \in Nat  BY <5>1
                <5>3. i * ChunkSize < Len(Image[c])
                    BY <5>1, <5>2, CeilingFacts DEF NumChunks
                <5>4. i * ChunkSize \in Nat  BY <5>2, ProductFacts, ConstantsAssumption
                <5>5. i * ChunkSize < answer_[SizeKey]  BY <2>1, <2>3, <5>1, <5>3, <5>4
                <5>6. i \in 0..(n - 1)  BY <2>3, <5>2, <5>5, CeilingFacts
                <5> QED BY <2>2, <3>1, <5>6
            <4> QED BY <3>5, <4>2, DecodedFromChunks
        <3> QED BY <3>6
    <2> QED BY <2>6, <2>7
<1> QED BY <1>1, <1>2

----------------------------------------------------------------------------
(* The inductive invariant *)

\* The server: every rule stems from some publication; those of what is being
\* published are there once they are set; in place of one of what was
\* published last there may be that of what is being published.
ServerInv ==
    /\ \A k \in DOMAIN rules : k \in Int => \E f \in begun : Stem(rules, k, f)
    /\ current # None =>
          /\ current \in begun
          /\ \A k \in Keys(current) \ todo : k \in DOMAIN rules /\ Stem(rules, k, current)
    /\ latest # None =>
          /\ latest \in begun
          /\ \A k \in Keys(latest) :
                /\ k \in DOMAIN rules
                /\ \/ Stem(rules, k, latest)
                   \/ current # None /\ Stem(rules, k, current)
    /\ latest = None /\ current = None => DOMAIN rules = {}

\* The chunks at the places of `first` stem from what is recent.
Recent(r) ==
    first # None =>
        \A k \in 0..(NumChunks(first) - 1) : k \in DOMAIN r => \E f \in recent : Stem(r, k, f)

QueryInv ==
    phase = "asking" =>
        /\ recent \subseteq begun
        /\ current # None => current \in recent
        /\ latest # None => latest \in recent
        /\ Recent(rules) /\ Recent(answer)
        /\ \A k \in DOMAIN answer : k \in Int => \E f \in begun : Stem(answer, k, f)
        /\ quiet =>
              /\ current = None /\ first = latest
              /\ \A k \in DOMAIN answer : k \in DOMAIN rules /\ answer[k] = rules[k]

ResultInv ==
    /\ phase # "answered" => result = None
    /\ QuietQueryDecodes
    /\ DecodedIsRecent

IInv == TypeOK /\ ServerInv /\ QueryInv /\ ResultInv

----------------------------------------------------------------------------
(* Every step preserves it *)

LEMMA EncodedType ==
    ASSUME NEW d \in Contents, NEW k \in Keys(d)
    PROVE  /\ k \in KeysEver
           /\ k = SizeKey => EncodeRules(d)[k] \in Nat
           /\ k # SizeKey => EncodeRules(d)[k] \in Seq(Byte) /\ Len(EncodeRules(d)[k]) <= ChunkSize
BY EncodeFacts, ImageFacts, ChunkFacts

LEMMA PutRules ==
    ASSUME NEW r, Rules(r), NEW k \in KeysEver, NEW v,
           k = SizeKey => v \in Nat,
           k # SizeKey => v \in Seq(Byte) /\ Len(v) <= ChunkSize
    PROVE  Rules(Put(r, k, v))
<1> DEFINE q == Put(r, k, v)
<1>1. /\ DOMAIN q = {k} \cup DOMAIN r /\ q[k] = v
      /\ \A x \in DOMAIN r : x # k => q[x] = r[x]
    BY DEF Put
<1> HIDE DEF q
<1>2. DOMAIN q \subseteq KeysEver  BY <1>1 DEF Rules
<1>3. \A x \in DOMAIN q : IF x = SizeKey THEN q[x] \in Nat
                          ELSE q[x] \in Seq(Byte) /\ Len(q[x]) <= ChunkSize
    BY <1>1 DEF Rules
<1>4. Rules(q)  BY <1>2, <1>3 DEF Rules
<1> QED BY <1>4 DEF q

LEMMA InitInv == Init => IInv
<1> SUFFICES ASSUME Init PROVE IInv  OBVIOUS
<1>1. TypeOK
    <2>1. DOMAIN rules = {} /\ DOMAIN answer = {}  BY DEF Init
    <2>2. Rules(rules) /\ Rules(answer)  BY <2>1 DEF Rules
    <2>3. published \in 0..MaxPublications  BY ConstantsAssumption DEF Init
    <2> QED BY <2>2, <2>3 DEF Init, TypeOK
<1>2. ServerInv  BY DEF Init, ServerInv
<1>3. QueryInv  BY DEF Init, QueryInv
<1>4. ResultInv
    BY ConstantsAssumption DEF Init, ResultInv, QuietQueryDecodes, DecodedIsRecent
<1> QED BY <1>1, <1>2, <1>3, <1>4 DEF IInv

LEMMA PublishInv ==
    ASSUME IInv, NEW d \in Contents, Publish(d)
    PROVE  IInv'
<1> USE DEF IInv
<1>1. TypeOK'
    <2>1. published + 1 \in 0..MaxPublications
        BY ConstantsAssumption DEF Publish, TypeOK
    <2>2. recent' \subseteq Contents /\ quiet' \in BOOLEAN  BY DEF Publish, TypeOK
    <2> QED BY <2>1, <2>2, ConstantsAssumption DEF Publish, TypeOK, Rules
<1>2. ServerInv'
    <2>1. latest # None => \A k \in Keys(latest) : k \in DOMAIN rules /\ Stem(rules, k, latest)
        BY DEF Publish, ServerInv
    <2>2. d # None  BY ConstantsAssumption
    <2> QED BY <2>1, <2>2 DEF Publish, ServerInv, Stem
<1>3. QueryInv'
    <2> SUFFICES ASSUME phase = "asking" PROVE QueryInv'  BY DEF Publish, QueryInv
    <2>1. /\ recent' = recent \cup {d} /\ begun' = begun \cup {d}
          /\ current' = d /\ quiet' = FALSE
          /\ UNCHANGED <<rules, latest, phase, answer, first>>
        BY DEF Publish
    <2> QED BY <2>1 DEF QueryInv, Recent, Stem
<1>4. ResultInv'
    <2>1. CASE phase = "asking"
        BY <2>1, ConstantsAssumption
        DEF Publish, ResultInv, QuietQueryDecodes, DecodedIsRecent
    <2>2. CASE phase # "asking"
        BY <2>2 DEF Publish, ResultInv, QuietQueryDecodes, DecodedIsRecent
    <2> QED BY <2>1, <2>2
<1> QED BY <1>1, <1>2, <1>3, <1>4

LEMMA SetKeyValueInv ==
    ASSUME IInv, NEW k \in todo, SetKeyValue(k)
    PROVE  IInv'
<1> USE DEF IInv
<1>1. /\ current \in Contents /\ current # None /\ k \in Keys(current)
      /\ current \in begun /\ begun \subseteq Contents
    BY ConstantsAssumption DEF TypeOK, ServerInv
<1> DEFINE v == EncodeRules(current)[k]
<1>2. rules' = Put(rules, k, v)  BY DEF SetKeyValue
<1>3. UNCHANGED <<current, latest, begun, published, query>> /\ todo' = todo \ {k}
    BY DEF SetKeyValue
<1> HIDE DEF v
<1>4. /\ DOMAIN rules' = {k} \cup DOMAIN rules /\ rules'[k] = v
      /\ \A x \in DOMAIN rules : x # k => rules'[x] = rules[x]
    BY <1>2 DEF Put
<1>5. Stem(rules', k, current)  BY <1>1, <1>4 DEF Stem, v
<1>6. \A x \in DOMAIN rules : \A f \in Contents : x # k /\ Stem(rules, x, f) => Stem(rules', x, f)
    BY <1>4 DEF Stem
<1>7. TypeOK'
    <2>1. /\ k \in KeysEver /\ (k = SizeKey => v \in Nat)
          /\ k # SizeKey => v \in Seq(Byte) /\ Len(v) <= ChunkSize
        BY <1>1, EncodedType DEF v
    <2>2. Rules(rules')  BY <1>2, <2>1, PutRules DEF TypeOK
    <2> QED BY <1>3, <2>2 DEF TypeOK, query, Rules
<1>8. ServerInv'
    <2>1. \A x \in DOMAIN rules' : x \in Int => \E f \in begun : Stem(rules', x, f)
        BY <1>1, <1>4, <1>5, <1>6 DEF ServerInv
    <2>2. \A x \in Keys(current) \ todo' : x \in DOMAIN rules' /\ Stem(rules', x, current)
        BY <1>1, <1>3, <1>4, <1>5, <1>6 DEF ServerInv
    <2>3. ASSUME latest # None, NEW x \in Keys(latest)
          PROVE  x \in DOMAIN rules' /\ (Stem(rules', x, latest) \/ Stem(rules', x, current))
        BY <1>1, <1>4, <1>5, <1>6, <2>3 DEF ServerInv
    <2>4. latest # None => latest \in begun  BY DEF ServerInv
    <2> QED BY <1>1, <1>3, <2>1, <2>2, <2>3, <2>4 DEF ServerInv
<1>9. QueryInv'
    <2> SUFFICES ASSUME phase = "asking" PROVE QueryInv'  BY <1>3 DEF QueryInv, query
    <2>1. /\ recent \subseteq begun /\ current \in recent
          /\ latest # None => latest \in recent
          /\ Recent(rules) /\ Recent(answer) /\ ~quiet
        BY <1>1 DEF QueryInv
    <2>2. Recent(rules)'
        BY <1>1, <1>3, <1>4, <1>5, <1>6, <2>1 DEF Recent, query
    <2>3. Recent(answer)'  BY <1>3, <2>1 DEF Recent, query
    <2>4. \A x \in DOMAIN answer : x \in Int => \E f \in begun : Stem(answer, x, f)
        BY DEF QueryInv
    <2> QED BY <1>3, <2>1, <2>2, <2>3, <2>4 DEF QueryInv, query
<1>10. ResultInv'
    BY <1>3 DEF ResultInv, QuietQueryDecodes, DecodedIsRecent, query
<1> QED BY <1>7, <1>8, <1>9, <1>10

LEMMA PublishedInv ==
    ASSUME IInv, Published
    PROVE  IInv'
<1> USE DEF IInv
<1>1. TypeOK'  BY DEF Published, TypeOK, Rules, query
<1>2. ServerInv'
    <2>1. \A k \in Keys(current) : k \in DOMAIN rules /\ Stem(rules, k, current)
        BY DEF Published, ServerInv
    <2>2. current \in begun /\ current # None  BY DEF Published, ServerInv
    <2> QED BY <2>1, <2>2 DEF Published, ServerInv, Stem
<1>3. QueryInv'
    BY DEF Published, QueryInv, Recent, Stem, query
<1>4. ResultInv'
    BY DEF Published, ResultInv, QuietQueryDecodes, DecodedIsRecent, query
<1> QED BY <1>1, <1>2, <1>3, <1>4

LEMMA AskInv ==
    ASSUME IInv, Ask
    PROVE  IInv'
<1> USE DEF IInv
<1>0. DOMAIN answer' = {}  BY DEF Ask
<1>1. TypeOK'
    <2>1. Rules(answer')  BY <1>0 DEF Rules
    <2>2. recent' \subseteq Contents  BY DEF Ask, TypeOK
    <2> QED BY <2>1, <2>2 DEF Ask, TypeOK, Rules, server
<1>2. ServerInv'  BY DEF Ask, ServerInv, Stem, server
<1>3. QueryInv'
    <2>1. /\ recent' \subseteq begun
          /\ current # None => current \in recent'
          /\ latest # None => latest \in recent'
        BY DEF Ask, ServerInv
    <2>2. Recent(rules)'
        <3> SUFFICES ASSUME latest # None, NEW k \in 0..(NumChunks(latest) - 1)
                     PROVE  \E f \in recent' : Stem(rules, k, f)
            BY DEF Recent, Ask, server, Stem
        <3>1. k \in Keys(latest)  BY DEF Keys
        <3> QED BY <2>1, <3>1 DEF ServerInv
    <2>3. Recent(answer)'  BY <1>0 DEF Recent
    <2> QED BY <1>0, <2>1, <2>2, <2>3 DEF QueryInv, Ask, server
<1>4. ResultInv'
    BY ConstantsAssumption DEF Ask, ResultInv, QuietQueryDecodes, DecodedIsRecent
<1> QED BY <1>1, <1>2, <1>3, <1>4

LEMMA GetRuleInv ==
    ASSUME IInv, NEW k, GetRule(k)
    PROVE  IInv'
<1> USE DEF IInv
<1>1. k \in DOMAIN rules /\ answer' = Put(answer, k, rules[k]) /\ phase = "asking"
    BY DEF GetRule
<1>2. UNCHANGED <<server, phase, first, recent, quiet, result>>  BY DEF GetRule
<1>3. /\ DOMAIN answer' = {k} \cup DOMAIN answer /\ answer'[k] = rules[k]
      /\ \A x \in DOMAIN answer : x # k => answer'[x] = answer[x]
    BY <1>1 DEF Put
<1>4. TypeOK'
    <2>1. Rules(answer')
        <3>1. /\ k \in KeysEver /\ (k = SizeKey => rules[k] \in Nat)
              /\ k # SizeKey => rules[k] \in Seq(Byte) /\ Len(rules[k]) <= ChunkSize
            BY <1>1 DEF TypeOK, Rules
        <3> QED BY <1>1, <3>1, PutRules DEF TypeOK
    <2> QED BY <1>2, <2>1 DEF TypeOK, Rules, server
<1>5. ServerInv'  BY <1>2 DEF ServerInv, Stem, server
<1>6. QueryInv'
    <2>1. /\ recent \subseteq begun
          /\ current # None => current \in recent
          /\ latest # None => latest \in recent
          /\ Recent(rules) /\ Recent(answer)
          /\ \A x \in DOMAIN answer : x \in Int => \E f \in begun : Stem(answer, x, f)
          /\ quiet =>
                /\ current = None /\ first = latest
                /\ \A x \in DOMAIN answer : x \in DOMAIN rules /\ answer[x] = rules[x]
        BY <1>1 DEF QueryInv
    <2>2. \A f : Stem(rules, k, f) => Stem(answer', k, f)  BY <1>3 DEF Stem
    <2>3. \A x \in DOMAIN answer : \A f : x # k /\ Stem(answer, x, f) => Stem(answer', x, f)
        BY <1>3 DEF Stem
    <2>4. Recent(answer)'  BY <1>1, <1>2, <1>3, <2>1, <2>2, <2>3 DEF Recent
    <2>5. Recent(rules)'  BY <1>2, <2>1 DEF Recent, Stem, server
    <2>6. \A x \in DOMAIN answer' : x \in Int => \E f \in begun : Stem(answer', x, f)
        BY <1>1, <1>3, <2>1, <2>2, <2>3 DEF ServerInv
    <2>7. quiet => \A x \in DOMAIN answer' : x \in DOMAIN rules /\ answer'[x] = rules[x]
        BY <1>1, <1>3, <2>1
    <2> QED BY <1>2, <2>1, <2>4, <2>5, <2>6, <2>7 DEF QueryInv, server
<1>7. ResultInv'
    BY <1>1, <1>2, ConstantsAssumption
    DEF ResultInv, QuietQueryDecodes, DecodedIsRecent, server
<1> QED BY <1>4, <1>5, <1>6, <1>7

LEMMA DecodeInv ==
    ASSUME IInv, Decode
    PROVE  IInv'
<1> USE DEF IInv
<1>1. /\ phase = "asking" /\ phase' = "answered" /\ result' = DecodeRules(answer)
      /\ UNCHANGED <<server, answer, first, recent, quiet>>
    BY DEF Decode
<1>2. /\ Rules(answer) /\ first \in Contents \cup {None} /\ recent \subseteq Contents
      /\ begun \subseteq Contents
    BY DEF TypeOK
<1>3. DecodeRules(answer) \in
        Contents \cup {"missing_size", "missing_chunk", "panic", "undecodable"}
    <2> DEFINE Image_(d) == IsImage(Compressed(answer), d)
    <2>1. (\E d \in Contents : Image_(d)) => (CHOOSE d \in Contents : Image_(d)) \in Contents
        BY Zenon
    <2> QED BY <2>1, Zenon DEF DecodeRules
<1>4. TypeOK'  BY <1>1, <1>3 DEF TypeOK, Rules, server
<1>5. ServerInv'  BY <1>1 DEF ServerInv, Stem, server
<1>6. QueryInv'  BY <1>1 DEF QueryInv
<1>7. QuietQueryDecodes'
    <2> SUFFICES ASSUME quiet
                 PROVE  /\ first # None /\ Keys(first) \subseteq DOMAIN answer =>
                              DecodeRules(answer) = first
                        /\ DecodeRules(answer) \in
                              ({first} \ {None}) \cup {"missing_size", "missing_chunk"}
        BY <1>1 DEF QuietQueryDecodes
    <2>1. /\ current = None /\ first = latest
          /\ \A k \in DOMAIN answer : k \in DOMAIN rules /\ answer[k] = rules[k]
        BY <1>1 DEF QueryInv
    <2>2. CASE first = None
        <3>1. SizeKey \notin DOMAIN answer  BY <2>1, <2>2 DEF ServerInv
        <3>2. DecodeRules(answer) = "missing_size"  BY <3>1 DEF DecodeRules
        <3> QED BY <2>2, <3>2
    <2>3. CASE first # None
        <3>1. first \in Contents  BY <1>2, <2>3
        <3>2. \A k \in DOMAIN answer : k \in Keys(first) => Stem(answer, k, first)
            BY <2>1, <2>3 DEF ServerInv, Stem
        <3>3. /\ Keys(first) \subseteq DOMAIN answer => DecodeRules(answer) = first
              /\ DecodeRules(answer) \in {first, "missing_size", "missing_chunk"}
            BY <1>2, <3>1, <3>2, DecodeOfOne
        <3> QED BY <2>3, <3>3
    <2> QED BY <2>2, <2>3
<1>8. DecodedIsRecent'
    <2> DEFINE d == DecodeRules(answer)
    <2> SUFFICES ASSUME d \in Contents
                 PROVE  \/ d \in recent
                        \/ d \in begun /\ (first # None => NumChunks(first) < NumChunks(d))
        BY <1>1 DEF DecodedIsRecent, server
    <2>1. NumChunks(d) \in Nat  BY ImageFacts
    <2>2. d \in begun
        <3>1. \A i \in 0..(NumChunks(d) - 1) :
                i \in DOMAIN answer => \E f \in begun : Stem(answer, i, f)
            <4>1. \A i \in 0..(NumChunks(d) - 1) : i \in Int  BY <2>1
            <4> QED BY <1>1, <4>1 DEF QueryInv
        <3> QED BY <1>2, <3>1, DecodedFromChunks
    <2>3. ASSUME first # None, ~(NumChunks(first) < NumChunks(d))
          PROVE  d \in recent
        <3>1. NumChunks(first) \in Nat  BY <1>2, <2>3, ImageFacts
        <3>2. \A i \in 0..(NumChunks(d) - 1) : i \in 0..(NumChunks(first) - 1)
            BY <2>1, <2>3, <3>1
        <3>3. \A i \in 0..(NumChunks(d) - 1) :
                i \in DOMAIN answer => \E f \in recent : Stem(answer, i, f)
            BY <1>1, <2>3, <3>2 DEF QueryInv, Recent
        <3> QED BY <1>2, <3>3, DecodedFromChunks
    <2> QED BY <2>2, <2>3
<1>9. ResultInv'  BY <1>1, <1>7, <1>8 DEF ResultInv
<1> QED BY <1>4, <1>5, <1>6, <1>9

LEMMA NextInv == IInv /\ [Next]_vars => IInv'
<1> SUFFICES ASSUME IInv, [Next]_vars PROVE IInv'  OBVIOUS
<1>1. ASSUME NEW d \in Contents, Publish(d) PROVE IInv'  BY <1>1, PublishInv
<1>2. ASSUME NEW k \in todo, SetKeyValue(k) PROVE IInv'  BY <1>2, SetKeyValueInv
<1>3. CASE Published  BY <1>3, PublishedInv
<1>4. CASE Ask  BY <1>4, AskInv
<1>5. ASSUME NEW k, GetRule(k) PROVE IInv'  BY <1>5, GetRuleInv
<1>6. CASE Decode  BY <1>6, DecodeInv
<1>7. CASE UNCHANGED vars
    BY <1>7 DEF IInv, TypeOK, Rules, ServerInv, QueryInv, Recent, Stem, ResultInv,
                QuietQueryDecodes, DecodedIsRecent, vars, server, query
<1> QED BY <1>1, <1>2, <1>3, <1>4, <1>5, <1>6, <1>7 DEF Next

LEMMA SpecIInv == Spec => []IInv
BY InitInv, NextInv, PTL DEF Spec

----------------------------------------------------------------------------
(* What follows from it *)

\* The rules stay numbers and chunks of bytes, none longer than RULE_CHUNK_SIZE.
THEOREM SpecTypeOK == Spec => []TypeOK
<1>1. IInv => TypeOK  BY DEF IInv
<1> QED BY <1>1, SpecIInv, PTL

\* A query that no publication runs into decodes to what decode_rules is to
\* yield, or wants for a rule; decode_rules then neither panics nor fails in
\* another way, whatever earlier publications left.
THEOREM QuietQueries == Spec => []QuietQueryDecodes
<1>1. IInv => QuietQueryDecodes  BY DEF IInv, ResultInv
<1> QED BY <1>1, SpecIInv, PTL

\* A query that publications run into never decodes to a mixture, and to an
\* older publication only by chunks left past the end of the latest one.
THEOREM RecentQueries == Spec => []DecodedIsRecent
<1>1. IInv => DecodedIsRecent  BY DEF IInv, ResultInv
<1> QED BY <1>1, SpecIInv, PTL
=============================================================================
