---------------------------- MODULE RpcWireProofs ----------------------------
(***************************************************************************)
(* Facts of the RPC tail, for payloads of any length and any padding: what *)
(* the terminator search may find, and what is read of what was written.   *)
(* Then what is known of bits whose end is missing, or whose last byte     *)
(* was filled up with zeros.                                               *)
(***************************************************************************)
EXTENDS RpcWire, SequenceTheorems, WellFoundedInduction, TLAPS

(* The fact about the constant 0xC8B9 that the search lives on: it shares  *)
(* no overlap with itself shifted by up to seven bits.                     *)
LEMMA NoOverlap ==
    \A d \in 1..7 : \E i \in 1..(16 - d) : Terminator[i + d] # Terminator[i]
  <1>1. Terminator[3] = 0 /\ Terminator[4] = 1 /\ Terminator[5] = 1
          /\ Terminator[1] = 1 /\ Terminator[2] = 0 /\ Terminator[6] = 1
          /\ Terminator[7] = 0 /\ Terminator[8] = 1 /\ Terminator[9] = 0
          /\ Terminator[10] = 0
    BY DEF Terminator
  <1> SUFFICES ASSUME NEW d \in 1..7
               PROVE  \E i \in 1..(16 - d) : Terminator[i + d] # Terminator[i]
    OBVIOUS
  <1>2. CASE d = 1
    BY <1>1, <1>2
  <1>3. CASE d = 2
    BY <1>1, <1>3
  <1>4. CASE d = 3
    <2>1. Terminator[2 + 3] # Terminator[2] /\ 2 \in 1..(16 - 3)
      BY <1>1
    <2>2. QED
      BY <2>1, <1>4
  <1>5. CASE d = 4
    <2>1. Terminator[3 + 4] = Terminator[3] /\ Terminator[2 + 4] # Terminator[2] /\ 2 \in 1..(16 - 4)
      BY <1>1
    <2>2. QED
      BY <2>1, <1>5
  <1>6. CASE d = 5
    <2>1. Terminator[3 + 5] # Terminator[3] /\ 3 \in 1..(16 - 5)
      BY <1>1
    <2>2. QED
      BY <2>1, <1>6
  <1>7. CASE d = 6
    <2>1. Terminator[1 + 6] # Terminator[1] /\ 1 \in 1..(16 - 6)
      BY <1>1
    <2>2. QED
      BY <2>1, <1>7
  <1>8. CASE d = 7
    <2>1. Terminator[2 + 7] = 0 /\ Terminator[3 + 7] = 0 /\ Terminator[1 + 7] = 1
          /\ Terminator[4 + 7] # Terminator[4] /\ 4 \in 1..(16 - 7)
      BY DEF Terminator
    <2>2. QED
      BY <2>1, <1>8
  <1>9. QED
    BY <1>2, <1>3, <1>4, <1>5, <1>6, <1>7, <1>8

(* The terminator is sixteen bits (rpc.rs 47). *)
LEMMA TerminatorBits == Terminator \in Seq(Bit) /\ Len(Terminator) = 16
  BY DEF Terminator, Bit

(* Zero padding is a bit sequence of the length asked for. *)
LEMMA ZerosBits ==
    ASSUME NEW n \in Nat
    PROVE  Zeros(n) \in Seq(Bit) /\ Len(Zeros(n)) = n
  <1>1. Zeros(n) \in Seq(Bit)
    BY DEF Zeros, Bit
  <1>2. Len(Zeros(n)) = n
    BY DEF Zeros
  <1>3. QED
    BY <1>1, <1>2

(* Bit by bit, a tail is payload, terminator, padding. *)
LEMMA TailBits ==
    ASSUME NEW b \in Seq(Bit), NEW t \in Seq(Bit), NEW j \in Seq(Bit)
    PROVE  /\ (b \o t) \o j \in Seq(Bit)
           /\ Len((b \o t) \o j) = Len(b) + Len(t) + Len(j)
           /\ \A i \in 1..Len(b) : ((b \o t) \o j)[i] = b[i]
           /\ \A i \in 1..Len(t) : ((b \o t) \o j)[Len(b) + i] = t[i]
  <1> DEFINE v == b \o t
             w == v \o j
  <1>1. Len(b) \in Nat /\ Len(t) \in Nat /\ Len(j) \in Nat
    BY LenProperties
  <1>2. /\ v \in Seq(Bit) /\ Len(v) = Len(b) + Len(t)
        /\ \A i \in 1..(Len(b) + Len(t)) :
              v[i] = IF i <= Len(b) THEN b[i] ELSE t[i - Len(b)]
    BY ConcatProperties
  <1> HIDE DEF v
  <1>3. /\ w \in Seq(Bit) /\ Len(w) = Len(v) + Len(j)
        /\ \A i \in 1..(Len(v) + Len(j)) :
              w[i] = IF i <= Len(v) THEN v[i] ELSE j[i - Len(v)]
    <2>0. v \in Seq(Bit)
      BY <1>2
    <2>1. /\ v \o j \in Seq(Bit) /\ Len(v \o j) = Len(v) + Len(j)
          /\ \A i \in 1..(Len(v) + Len(j)) :
                (v \o j)[i] = IF i <= Len(v) THEN v[i] ELSE j[i - Len(v)]
      BY <2>0, ConcatProperties
    <2>2. QED
      BY <2>1 DEF w
  <1> HIDE DEF w
  <1>4. \A i \in 1..Len(b) : w[i] = b[i]
    BY <1>1, <1>2, <1>3
  <1>5. ASSUME NEW i \in 1..Len(t)
        PROVE  w[Len(b) + i] = t[i]
    <2>1. /\ Len(b) + i \in 1..(Len(b) + Len(t)) /\ Len(b) + i <= Len(v)
          /\ ~(Len(b) + i <= Len(b)) /\ (Len(b) + i) - Len(b) = i
          /\ Len(b) + i \in 1..(Len(v) + Len(j))
      BY <1>1, <1>2, <1>5
    <2>2. QED
      BY <2>1, <1>2, <1>3
  <1>6. QED
    BY <1>2, <1>3, <1>4, <1>5 DEF v, w

(* What the search may look at in a tail of which at most seven bits       *)
(* follow the terminator: the tail itself, or a prefix of it.              *)
Framed(w, b) ==
    /\ w \in Seq(Bit) /\ b \in Seq(Bit)
    /\ Len(w) <= Len(b) + 16 + 7
    /\ \A i \in 1..Len(b) : i <= Len(w) => w[i] = b[i]
    /\ \A i \in 1..16 : Len(b) + i <= Len(w) => w[Len(b) + i] = Terminator[i]

(* The arithmetic of the search, away from the sequences. *)
LEMMA WindowArithmetic ==
    ASSUME NEW lw \in Nat, NEW lb \in Nat, NEW p \in 0..7,
           p <= lw - 16, lw <= lb + 16 + 7, lw - p - 16 > lb
    PROVE  \E d \in 1..7 :
              \A i \in 1..(16 - d) :
                  /\ i \in 1..16 /\ i + d \in 1..16
                  /\ lb + (i + d) <= lw
                  /\ (lw - p - 16) + i = lb + (i + d)
  <1> DEFINE e == lw - p - 16 - lb
  <1>1. e \in 1..7 /\ lw = lb + e + 16 + p
    OBVIOUS
  <1> HIDE DEF e
  <1>2. ASSUME NEW i \in 1..(16 - e)
        PROVE  /\ i \in 1..16 /\ i + e \in 1..16
               /\ lb + (i + e) <= lw
               /\ (lw - p - 16) + i = lb + (i + e)
    BY <1>1, <1>2
  <1>3. QED
    BY <1>1, <1>2

(* The bits a candidate is made of. *)
LEMMA CandidateBits ==
    ASSUME NEW w \in Seq(Bit), ~TooShort(w), NEW p \in 0..MaxPadding(w)
    PROVE  /\ \A i \in 1..16 : Candidate(w, p)[i] = w[(Len(w) - p - 16) + i]
           /\ Candidate(w, p) \in Seq(Bit) /\ Len(Candidate(w, p)) = 16
           /\ p \in 0..7 /\ p <= Len(w) - 16
  <1> DEFINE lo == Len(w) - p - 15
             hi == Len(w) - p
  <1>1. Len(w) \in Nat /\ Len(w) >= 16
    BY LenProperties DEF TooShort
  <1>2. p \in 0..7 /\ p <= Len(w) - 16
    BY <1>1 DEF MaxPadding
  <1>3. lo \in Int /\ hi \in Int /\ lo <= hi /\ hi - lo + 1 = 16 /\ lo >= 1 /\ hi <= Len(w)
    BY <1>1, <1>2
  <1>4. \A i \in lo..hi : w[i] \in Bit
    BY <1>1, <1>3, ElementOfSeq
  <1>7. \A i \in 1..16 : lo + i - 1 = (Len(w) - p - 16) + i
    BY <1>1, <1>2
  <1>5. Candidate(w, p) = SubSeq(w, lo, hi)
    BY DEF Candidate
  <1> HIDE DEF lo, hi
  <1>6. /\ SubSeq(w, lo, hi) \in Seq(Bit) /\ Len(SubSeq(w, lo, hi)) = 16
        /\ \A i \in 1..16 : SubSeq(w, lo, hi)[i] = w[lo + i - 1]
    BY <1>3, <1>4, SubSeqProperties
  <1>8. \A i \in 1..16 : Candidate(w, p)[i] = w[(Len(w) - p - 16) + i]
    BY <1>5, <1>6, <1>7
  <1>9. QED
    BY <1>2, <1>5, <1>6, <1>8

(* No candidate past the sender's terminator passes for one: this is what  *)
(* the choice of 0xC8B9 buys, and it holds of a shortened tail as well.    *)
LEMMA NoLaterTerminator ==
    ASSUME NEW w, NEW b, Framed(w, b), ~TooShort(w),
           NEW p \in Paddings(w)
    PROVE  Len(w) - p - 16 \in 0..Len(b)
  <1>1. w \in Seq(Bit) /\ Len(w) \in Nat /\ Len(b) \in Nat
    BY LenProperties DEF Framed
  <1>2. p \in 0..MaxPadding(w) /\ Candidate(w, p) = Terminator
    BY DEF Paddings
  <1>3. \A i \in 1..16 : Candidate(w, p)[i] = w[(Len(w) - p - 16) + i]
    BY <1>1, <1>2, CandidateBits
  <1>4. p \in 0..7 /\ p <= Len(w) - 16
    BY <1>1, <1>2, CandidateBits
  <1>5. ASSUME Len(w) - p - 16 > Len(b)
        PROVE  FALSE
    <2>1. Len(w) <= Len(b) + 16 + 7
      BY DEF Framed
    <2>2. PICK d \in 1..7 :
             \A i \in 1..(16 - d) :
                 /\ i \in 1..16 /\ i + d \in 1..16
                 /\ Len(b) + (i + d) <= Len(w)
                 /\ (Len(w) - p - 16) + i = Len(b) + (i + d)
      BY <1>1, <1>4, <1>5, <2>1, WindowArithmetic
    <2>3. PICK i \in 1..(16 - d) : Terminator[i + d] # Terminator[i]
      BY NoOverlap
    <2>4. Terminator[i] = w[Len(b) + (i + d)]
      BY <1>2, <1>3, <2>2
    <2>5. w[Len(b) + (i + d)] = Terminator[i + d]
      BY <1>1, <2>2 DEF Framed
    <2>6. QED
      BY <2>3, <2>4, <2>5
  <1>6. QED
    BY <1>1, <1>4, <1>5

(* A tail with at most seven bits after the terminator is framed, and so   *)
(* is every prefix of it.                                                  *)
LEMMA TailIsFramed ==
    ASSUME NEW b \in Seq(Bit), NEW j \in Seq(Bit), Len(j) <= 7
    PROVE  /\ Framed(b \o Terminator \o j, b)
           /\ Len(b \o Terminator \o j) = Len(b) + 16 + Len(j)
  <1> DEFINE w == b \o Terminator \o j
  <1>1. Len(b) \in Nat /\ Len(j) \in Nat
    BY LenProperties
  <1>2. /\ w \in Seq(Bit) /\ Len(w) = Len(b) + 16 + Len(j)
        /\ \A i \in 1..Len(b) : w[i] = b[i]
        /\ \A i \in 1..16 : w[Len(b) + i] = Terminator[i]
    <2>1. Terminator \in Seq(Bit)
      BY TerminatorBits
    <2>2. /\ w \in Seq(Bit) /\ Len(w) = Len(b) + Len(Terminator) + Len(j)
          /\ \A i \in 1..Len(b) : w[i] = b[i]
          /\ \A i \in 1..Len(Terminator) : w[Len(b) + i] = Terminator[i]
      BY <2>1, TailBits
    <2>3. Len(Terminator) = 16
      BY TerminatorBits
    <2>4. QED
      BY <2>2, <2>3
  <1> HIDE DEF w
  <1>3. Framed(w, b)
    <2>1. Len(w) <= Len(b) + 16 + 7
      BY <1>1, <1>2
    <2>2. QED
      BY <2>1, <1>2 DEF Framed
  <1>4. QED
    BY <1>2, <1>3 DEF w

(* A prefix of a sequence, bit by bit. *)
LEMMA PrefixBits ==
    ASSUME NEW w \in Seq(Bit), NEW n \in 0..Len(w)
    PROVE  /\ SubSeq(w, 1, n) \in Seq(Bit) /\ Len(SubSeq(w, 1, n)) = n
           /\ \A i \in 1..n : SubSeq(w, 1, n)[i] = w[i]
  <1>1. Len(w) \in Nat /\ n \in Nat
    BY LenProperties
  <1>2. \A i \in 1..n : w[i] \in Bit
    BY <1>1, ElementOfSeq
  <1>3. /\ SubSeq(w, 1, n) \in Seq(Bit)
        /\ Len(SubSeq(w, 1, n)) = IF 1 <= n THEN n - 1 + 1 ELSE 0
        /\ \A i \in 1..(n - 1 + 1) : SubSeq(w, 1, n)[i] = w[1 + i - 1]
    BY <1>1, <1>2, SubSeqProperties
  <1>4. QED
    BY <1>1, <1>3

(* Cutting a framed tail short leaves a framed tail. *)
LEMMA PrefixIsFramed ==
    ASSUME NEW w, NEW b, Framed(w, b), NEW n \in 0..Len(w)
    PROVE  Framed(SubSeq(w, 1, n), b)
  <1>1. w \in Seq(Bit) /\ Len(w) \in Nat /\ b \in Seq(Bit) /\ Len(b) \in Nat
    BY LenProperties DEF Framed
  <1> DEFINE lw == Len(w)
             lb == Len(b)
  <1>f. /\ lw <= lb + 16 + 7
        /\ \A i \in 1..lb : i <= lw => w[i] = b[i]
        /\ \A i \in 1..16 : lb + i <= lw => w[lb + i] = Terminator[i]
    BY DEF Framed
  <1>2. /\ SubSeq(w, 1, n) \in Seq(Bit) /\ Len(SubSeq(w, 1, n)) = n
        /\ \A i \in 1..n : SubSeq(w, 1, n)[i] = w[i]
    BY <1>1, PrefixBits
  <1>a. lw \in Nat /\ lb \in Nat /\ n \in 0..lw
    BY <1>1
  <1> HIDE DEF lw, lb
  <1>3. n <= lb + 16 + 7
    BY <1>a, <1>f
  <1>4. ASSUME NEW i \in 1..lb, i <= n
        PROVE  SubSeq(w, 1, n)[i] = b[i]
    <2>1. i <= lw /\ i \in 1..n
      BY <1>a, <1>4
    <2>2. w[i] = b[i]
      BY <1>f, <1>4, <2>1
    <2>3. QED
      BY <1>2, <2>1, <2>2
  <1>5. ASSUME NEW i \in 1..16, lb + i <= n
        PROVE  SubSeq(w, 1, n)[lb + i] = Terminator[i]
    <2>1. lb + i <= lw /\ lb + i \in 1..n
      BY <1>a, <1>5
    <2>2. w[lb + i] = Terminator[i]
      BY <1>f, <1>5, <2>1
    <2>3. QED
      BY <1>2, <2>1, <2>2
  <1>6. QED
    BY <1>1, <1>2, <1>3, <1>4, <1>5 DEF Framed, lb

(* The search is deterministic: it stops at the least padding that fits.   *)
LEMMA FoundIsLeast ==
    ASSUME NEW w \in Seq(Bit), ~TooShort(w), Paddings(w) # {}
    PROVE  FoundPadding(w) \in Paddings(w)
  <1>1. Paddings(w) \subseteq 0..7
    BY CandidateBits DEF Paddings
  <1>2. \E p \in Paddings(w) : \A q \in Paddings(w) : p <= q
    <2> DEFINE P == Paddings(w)
    <2> HIDE DEF P
    <2>1. ASSUME P \subseteq 0..7, \A p \in P : \E q \in P : q < p
          PROVE  P = {}
      <3>0. 0 \notin P
        BY <2>1
      <3>1. 1 \notin P
        BY <2>1, <3>0
      <3>2. 2 \notin P
        BY <2>1, <3>0, <3>1
      <3>3. 3 \notin P
        BY <2>1, <3>0, <3>1, <3>2
      <3>4. 4 \notin P
        BY <2>1, <3>0, <3>1, <3>2, <3>3
      <3>5. 5 \notin P
        BY <2>1, <3>0, <3>1, <3>2, <3>3, <3>4
      <3>6. 6 \notin P
        BY <2>1, <3>0, <3>1, <3>2, <3>3, <3>4, <3>5
      <3>7. 7 \notin P
        BY <2>1, <3>0, <3>1, <3>2, <3>3, <3>4, <3>5, <3>6
      <3>8. QED
        BY <2>1, <3>0, <3>1, <3>2, <3>3, <3>4, <3>5, <3>6, <3>7
    <2>2. P \subseteq 0..7 /\ P # {}
      BY <1>1 DEF P
    <2>3. \E p \in P : \A q \in P : ~(q < p)
      BY <2>1, <2>2
    <2>4. \E p \in P : \A q \in P : p <= q
      BY <2>2, <2>3
    <2>5. QED
      BY <2>4 DEF P
  <1>3. QED
    BY <1>2 DEF FoundPadding

(* Two sequences of the same bits are the same prefix.                     *)
LEMMA FramedPrefix ==
    ASSUME NEW w, NEW b, Framed(w, b), NEW n \in 0..Len(b), n <= Len(w)
    PROVE  SubSeq(w, 1, n) = SubSeq(b, 1, n)
  <1>1. w \in Seq(Bit) /\ Len(w) \in Nat /\ b \in Seq(Bit) /\ Len(b) \in Nat /\ n \in 0..Len(w)
    BY LenProperties DEF Framed
  <1>2. /\ SubSeq(w, 1, n) \in Seq(Bit) /\ Len(SubSeq(w, 1, n)) = n
        /\ \A i \in 1..n : SubSeq(w, 1, n)[i] = w[i]
    BY <1>1, PrefixBits
  <1>3. /\ SubSeq(b, 1, n) \in Seq(Bit) /\ Len(SubSeq(b, 1, n)) = n
        /\ \A i \in 1..n : SubSeq(b, 1, n)[i] = b[i]
    BY <1>1, PrefixBits
  <1>f. \A i \in 1..Len(b) : i <= Len(w) => w[i] = b[i]
    BY DEF Framed
  <1>4. \A i \in 1..n : w[i] = b[i]
    BY <1>1, <1>f
  <1>5. \A i \in 1..Len(SubSeq(w, 1, n)) : SubSeq(w, 1, n)[i] = SubSeq(b, 1, n)[i]
    BY <1>2, <1>3, <1>4
  <1>6. QED
    BY <1>2, <1>3, <1>5, SeqEqual

(* What the reader makes of a framed tail: nothing but a prefix of the     *)
(* sender's payload, and all of it when the terminator is there in full.   *)
LEMMA ReadOfFramed ==
    ASSUME NEW w, NEW b, Framed(w, b)
    PROVE  /\ Parses(w) => \E n \in 0..Len(b) : ReadPayload(w) = BitsToBytes(SubSeq(b, 1, n))
           /\ Len(b) + 16 <= Len(w) => Parses(w) /\ ReadPayload(w) = BitsToBytes(b)
  <1> DEFINE n(p) == Len(w) - p - 16
  <1>1. w \in Seq(Bit) /\ Len(w) \in Nat /\ b \in Seq(Bit) /\ Len(b) \in Nat
          /\ Len(w) <= Len(b) + 16 + 7
    BY LenProperties DEF Framed
  <1>2. ASSUME ~TooShort(w), NEW p \in Paddings(w)
        PROVE  n(p) \in 0..Len(b) /\ SubSeq(w, 1, n(p)) = SubSeq(b, 1, n(p))
    <2>1. n(p) \in 0..Len(b)
      BY <1>2, NoLaterTerminator
    <2>2. p \in 0..7
      BY <1>1, <1>2, CandidateBits DEF Paddings
    <2>3. n(p) <= Len(w)
      BY <1>1, <2>2
    <2> HIDE DEF n
    <2>4. QED
      BY <2>1, <2>3, FramedPrefix
  <1>3. ASSUME Parses(w)
        PROVE  \E m \in 0..Len(b) : ReadPayload(w) = BitsToBytes(SubSeq(b, 1, m))
    <2>1. FoundPadding(w) \in Paddings(w) /\ ~TooShort(w)
      BY <1>1, <1>3, FoundIsLeast DEF Parses
    <2>2. ReadPayload(w) = BitsToBytes(SubSeq(w, 1, n(FoundPadding(w))))
      BY DEF ReadPayload
    <2>3. /\ n(FoundPadding(w)) \in 0..Len(b)
          /\ SubSeq(w, 1, n(FoundPadding(w))) = SubSeq(b, 1, n(FoundPadding(w)))
      BY <1>2, <2>1
    <2> HIDE DEF n
    <2>4. QED
      BY <2>2, <2>3
  <1>4. ASSUME Len(b) + 16 <= Len(w)
        PROVE  Parses(w) /\ ReadPayload(w) = BitsToBytes(b)
    <2> DEFINE k == Len(w) - Len(b) - 16
    <2>1. k \in 0..7 /\ Len(w) - k - 16 = Len(b) /\ k <= Len(w) - 16
      BY <1>1, <1>4
    <2>2. ~TooShort(w)
      BY <1>1, <1>4 DEF TooShort
    <2>3. k \in 0..MaxPadding(w)
      BY <1>1, <2>1 DEF MaxPadding
    <2> HIDE DEF k
    <2>4. /\ Candidate(w, k) \in Seq(Bit) /\ Len(Candidate(w, k)) = 16
          /\ \A i \in 1..16 : Candidate(w, k)[i] = w[Len(b) + i]
      BY <1>1, <2>1, <2>2, <2>3, CandidateBits
    <2>a. \A i \in 1..16 : Len(b) + i <= Len(w)
      BY <1>1, <1>4
    <2>5. \A i \in 1..16 : w[Len(b) + i] = Terminator[i]
      BY <2>a DEF Framed
    <2>6. Candidate(w, k) = Terminator
      <3>1. Terminator \in Seq(Bit) /\ Len(Terminator) = 16
        BY TerminatorBits
      <3>2. \A i \in 1..Len(Candidate(w, k)) : Candidate(w, k)[i] = Terminator[i]
        BY <2>4, <2>5
      <3>3. QED
        BY <3>1, <3>2, <2>4, SeqEqual
    <2>7. k \in Paddings(w)
      BY <2>3, <2>6 DEF Paddings
    <2>8. Parses(w)
      BY <2>2, <2>7 DEF Parses
    <2>9. \A p \in Paddings(w) : p >= k /\ p \in 0..7
      <3> TAKE p \in Paddings(w)
      <3>1. n(p) \in 0..Len(b)
        BY <1>2, <2>2
      <3>2. p \in 0..7
        BY <1>1, <2>2, CandidateBits DEF Paddings
      <3>3. QED
        BY <3>1, <3>2, <1>1, <2>1
    <2>10. FoundPadding(w) = k
      <3>1. \A p \in Paddings(w) : (\A q \in Paddings(w) : p <= q) => p = k
        BY <2>1, <2>7, <2>9
      <3>2. \A q \in Paddings(w) : k <= q
        BY <2>1, <2>9
      <3>3. QED
        BY <2>7, <3>1, <3>2 DEF FoundPadding
    <2>11. Len(b) \in 0..Len(b) /\ Len(b) <= Len(w)
      BY <1>1, <1>4
    <2>12. SubSeq(w, 1, Len(b)) = SubSeq(b, 1, Len(b))
      BY <2>11, FramedPrefix
    <2>13. SubSeq(b, 1, Len(b)) = b
      BY <1>1, SubSeqFull
    <2>14. QED
      BY <2>1, <2>8, <2>10, <2>12, <2>13 DEF ReadPayload
  <1>5. QED
    BY <1>3, <1>4

(* The slack fills up to a whole byte.                                      *)
LEMMA SlackRange ==
    ASSUME NEW n \in Nat
    PROVE  Slack(n) \in 0..7 /\ Slack(n) \in Nat /\ (n + Slack(n)) % 8 = 0
  BY DEF Slack

(* Filling up to whole bytes.                                              *)
LEMMA BytesAreWhole ==
    ASSUME NEW s \in Seq(Bit)
    PROVE  BitsToBytes(s) \in Seq(Bit) /\ Len(BitsToBytes(s)) % 8 = 0
  <1>1. Len(s) \in Nat
    BY LenProperties
  <1>2. Slack(Len(s)) \in 0..7 /\ (Len(s) + Slack(Len(s))) % 8 = 0
    BY <1>1 DEF Slack
  <1>3. Zeros(Slack(Len(s))) \in Seq(Bit) /\ Len(Zeros(Slack(Len(s)))) = Slack(Len(s))
    <2>1. Slack(Len(s)) \in Nat
      BY <1>1, SlackRange
    <2>2. QED
      BY <2>1, ZerosBits
  <1>4. /\ s \o Zeros(Slack(Len(s))) \in Seq(Bit)
        /\ Len(s \o Zeros(Slack(Len(s)))) = Len(s) + Slack(Len(s))
    BY <1>3, ConcatProperties
  <1>5. QED
    BY <1>2, <1>4 DEF BitsToBytes

(* Bits that are whole bytes are not padded. *)
LEMMA WholeBytesStay ==
    ASSUME NEW s \in Seq(Bit), Len(s) % 8 = 0
    PROVE  BitsToBytes(s) = s
  <1>1. Slack(Len(s)) = 0
    BY LenProperties DEF Slack
  <1>2. Zeros(0) = <<>>
    BY DEF Zeros
  <1>3. s \o <<>> = s
    BY ConcatEmptySeq
  <1>4. QED
    BY <1>1, <1>2, <1>3 DEF BitsToBytes

(* The tail the crate writes is framed, ends on a byte, and reads back.    *)
LEMMA WrittenTail ==
    ASSUME NEW s \in Seq(Bit)
    PROVE  /\ Framed(WriteTail(s), s) /\ Len(s) + 16 <= Len(WriteTail(s))
           /\ (HeaderPhase + Len(WriteTail(s))) % 8 = 0
  <1> DEFINE k == Slack(HeaderPhase + Len(s) + 16)
  <1>1. Len(s) \in Nat /\ HeaderPhase + Len(s) + 16 \in Nat
    BY LenProperties DEF HeaderPhase
  <1>2. k \in 0..7 /\ (HeaderPhase + Len(s) + 16 + k) % 8 = 0
    BY <1>1, SlackRange
  <1> HIDE DEF k
  <1>0. k \in Nat
    BY <1>2
  <1>3. Zeros(k) \in Seq(Bit) /\ Len(Zeros(k)) = k
    BY <1>0, ZerosBits
  <1>4. Len(Zeros(k)) <= 7
    BY <1>2, <1>3
  <1>5. /\ Framed(s \o Terminator \o Zeros(k), s)
        /\ Len(s \o Terminator \o Zeros(k)) = Len(s) + 16 + k
    BY <1>3, <1>4, TailIsFramed
  <1>6. HeaderPhase + (Len(s) + 16 + k) = HeaderPhase + Len(s) + 16 + k
    BY <1>1, <1>2 DEF HeaderPhase
  <1>7. QED
    BY <1>1, <1>2, <1>5, <1>6 DEF WriteTail, k

----------------------------------------------------------------------------
(* What of a stream arrives *)

\* The bits agree as far as there are any.
Fits(b, w) == \A i \in 1..Len(w) : i <= Len(b) => b[i] = w[i]

(* What starts with all of w is w and the rest. *)
LEMMA PrefixOfFit ==
    ASSUME NEW b \in Seq(Bit), NEW w \in Seq(Bit), Fits(b, w), Len(w) <= Len(b)
    PROVE  SubSeq(b, 1, Len(w)) = w
  <1> DEFINE s == SubSeq(b, 1, Len(w))
  <1>1. Len(w) \in Nat /\ Len(b) \in Nat
    BY LenProperties
  <1>2. s = [i \in 1..Len(w) |-> b[i]]
    BY <1>1
  <1>3. \A i \in 1..Len(w) : b[i] = w[i]
    BY <1>1 DEF Fits
  <1>4. w = [i \in 1..Len(w) |-> w[i]]
    OBVIOUS
  <1>5. QED
    BY <1>2, <1>3, <1>4

\* The bits b begin as s was written, and are less than a byte longer; if they
\* are all of them, they are not shorter.
Arrived(b, s, all) ==
    /\ b \in Seq(Bit) /\ s \in Seq(Bit)
    /\ Fits(b, s)
    /\ Len(b) < Len(s) + 8
    /\ all => Len(s) <= Len(b)

(* All of the bits. *)
LEMMA WholePrefix ==
    ASSUME NEW b \in Seq(Bit)
    PROVE  SubSeq(b, 1, Len(b)) = b
  <1> DEFINE s == SubSeq(b, 1, Len(b))
  <1>1. Len(b) \in 0..Len(b)
    BY LenProperties
  <1>2. s \in Seq(Bit) /\ Len(s) = Len(b) /\ \A i \in 1..Len(b) : s[i] = b[i]
    BY <1>1, PrefixBits
  <1> HIDE DEF s
  <1>3. s = b
    BY <1>2, SeqEqual
  <1>4. QED
    BY <1>3 DEF s

(* The tail of an event that arrived. *)
LEMMA TailArrived ==
    ASSUME NEW q \in Seq(Bit), NEW b, NEW all \in BOOLEAN, Arrived(b, q \o Terminator, all)
    PROVE  /\ all => Parses(b)
           /\ Parses(b) => \E k \in 0..Len(q) : /\ all => k = Len(q)
                                               /\ ReadPayload(b) = BitsToBytes(SubSeq(q, 1, k))
  <1> DEFINE s == q \o Terminator
  <1>1. Terminator \in Seq(Bit) /\ Len(Terminator) = 16
    BY TerminatorBits
  <1>2. b \in Seq(Bit) /\ Fits(b, s) /\ Len(b) < Len(s) + 8 /\ (all => Len(s) <= Len(b))
    BY DEF Arrived
  <1>3. /\ Len(s) = Len(q) + 16
        /\ \A i \in 1..(Len(q) + Len(Terminator)) : s[i] = IF i <= Len(q) THEN q[i] ELSE Terminator[i - Len(q)]
    <2>1. /\ q \o Terminator \in Seq(Bit) /\ Len(q \o Terminator) = Len(q) + Len(Terminator)
          /\ \A i \in 1..(Len(q) + Len(Terminator)) :
                (q \o Terminator)[i] = IF i <= Len(q) THEN q[i] ELSE Terminator[i - Len(q)]
      BY <1>1, ConcatProperties
    <2>2. QED
      BY <1>1, <2>1
  <1>4. Len(b) \in Nat /\ Len(q) \in Nat
    BY <1>2, LenProperties
  <1> HIDE DEF s
  <1>5. \A i \in 1..Len(q) : i <= Len(b) => b[i] = q[i]
    BY <1>1, <1>2, <1>3, <1>4 DEF Fits
  <1>6. ASSUME NEW i \in 1..16, Len(q) + i <= Len(b)
        PROVE  b[Len(q) + i] = Terminator[i]
    <2>1. Len(q) + i \in 1..Len(s) /\ Len(q) + i \in 1..(Len(q) + Len(Terminator))
          /\ ~(Len(q) + i <= Len(q)) /\ (Len(q) + i) - Len(q) = i
      BY <1>1, <1>3, <1>4
    <2>2. b[Len(q) + i] = s[Len(q) + i]
      BY <1>2, <1>6, <2>1 DEF Fits
    <2>3. s[Len(q) + i] = Terminator[i]
      BY <1>3, <2>1
    <2>4. QED
      BY <2>2, <2>3
  <1>7. Len(b) <= Len(q) + 16 + 7 /\ (all => Len(q) + 16 <= Len(b))
    BY <1>2, <1>3, <1>4
  <1>8. b \in Seq(Bit) /\ q \in Seq(Bit)
    BY <1>2
  <1>9. Framed(b, q)
    BY <1>5, <1>6, <1>7, <1>8 DEF Framed
  <1>10. CASE all
    <2>1. Parses(b) /\ ReadPayload(b) = BitsToBytes(q)
      BY <1>7, <1>9, <1>10, ReadOfFramed
    <2>2. SubSeq(q, 1, Len(q)) = q /\ Len(q) \in 0..Len(q)
      BY <1>4, <1>8, WholePrefix
    <2>3. QED
      BY <2>1, <2>2
  <1>11. CASE ~all
    <2>1. Parses(b) => \E k \in 0..Len(q) : ReadPayload(b) = BitsToBytes(SubSeq(q, 1, k))
      BY <1>9, ReadOfFramed
    <2>2. QED
      BY <1>11, <2>1
  <1>12. QED
    BY <1>10, <1>11

\* The bits but the last so many.
Without(b, z) == SubSeq(b, 1, Len(b) - z)

(* All but the last bits are where they were. *)
LEMMA WithoutBits ==
    ASSUME NEW b \in Seq(Bit), NEW z \in 0..Len(b)
    PROVE  /\ Without(b, z) \in Seq(Bit) /\ Len(Without(b, z)) = Len(b) - z
           /\ \A i \in 1..(Len(b) - z) : Without(b, z)[i] = b[i]
  <1>1. Len(b) \in Nat /\ Len(b) - z \in 0..Len(b)
    BY LenProperties
  <1>2. QED
    BY <1>1, PrefixBits DEF Without

(* Bits of it are the same bits. *)
LEMMA WithoutPart ==
    ASSUME NEW b \in Seq(Bit), NEW z \in 0..Len(b), NEW m \in Nat, NEW n \in Nat,
           1 <= m, n <= Len(b) - z
    PROVE  SubSeq(Without(b, z), m, n) = SubSeq(b, m, n)
  <1> DEFINE c == Without(b, z)
  <1>1. c \in Seq(Bit) /\ Len(c) = Len(b) - z /\ \A i \in 1..(Len(b) - z) : c[i] = b[i]
    BY WithoutBits
  <1>2. Len(b) \in Nat
    BY LenProperties
  <1> HIDE DEF c
  <1>3. \A i \in m..n : c[i] \in Bit /\ b[i] \in Bit /\ c[i] = b[i]
    <2>1. \A i \in m..n : i \in 1..(Len(b) - z) /\ i \in 1..Len(c) /\ i \in 1..Len(b)
      BY <1>1, <1>2
    <2>2. QED
      BY <1>1, <2>1, ElementOfSeq
  <1>4. /\ SubSeq(c, m, n) \in Seq(Bit)
        /\ Len(SubSeq(c, m, n)) = IF m <= n THEN n - m + 1 ELSE 0
        /\ \A i \in 1..(n - m + 1) : SubSeq(c, m, n)[i] = c[m + i - 1]
    BY <1>3, SubSeqProperties
  <1>5. /\ SubSeq(b, m, n) \in Seq(Bit)
        /\ Len(SubSeq(b, m, n)) = IF m <= n THEN n - m + 1 ELSE 0
        /\ \A i \in 1..(n - m + 1) : SubSeq(b, m, n)[i] = b[m + i - 1]
    BY <1>3, SubSeqProperties
  <1> DEFINE u == SubSeq(c, m, n)
             v == SubSeq(b, m, n)
  <1>6. \A i \in 1..Len(u) : u[i] = v[i]
    <2> SUFFICES ASSUME NEW i \in 1..Len(u) PROVE u[i] = v[i]
      OBVIOUS
    <2>1. i \in 1..(n - m + 1) /\ m + i - 1 \in m..n
      BY <1>4
    <2>2. QED
      BY <1>3, <1>4, <1>5, <2>1
  <1>7. u \in Seq(Bit) /\ v \in Seq(Bit) /\ Len(u) = Len(v)
    BY <1>4, <1>5
  <1> HIDE DEF u, v
  <1>8. u = v
    BY <1>6, <1>7, SeqEqual
  <1>9. QED
    BY <1>8 DEF u, v, c

(* The bits that are left of a payload, filled up, are its start and less than a *)
(* byte of zeros; where the payload is of bytes its own zeros fit it too.        *)
LEMMA LeftIsStart ==
    ASSUME NEW s \in Seq(Bit), NEW asBytes \in BOOLEAN, NEW q, q = IF asBytes THEN BitsToBytes(s) ELSE s,
           NEW k \in 0..Len(q)
    PROVE  LET d == BitsToBytes(SubSeq(q, 1, k))
           IN  d \in Seq(Bit) /\ \E z \in 0..Len(d) : z < 8 /\ Fits(Without(d, z), s)
  <1> DEFINE x == SubSeq(q, 1, k)
             z == Slack(k)
             o == Zeros(z)
             d == BitsToBytes(x)
  <1>1. q \in Seq(Bit) /\ \A i \in 1..Len(s) : i <= Len(q) => q[i] = s[i]
    <2>1. CASE asBytes
      <3>1. Len(s) \in Nat
        BY LenProperties
      <3>2. Slack(Len(s)) \in Nat
        BY <3>1, SlackRange
      <3> DEFINE y == Zeros(Slack(Len(s)))
      <3>3. y \in Seq(Bit)
        BY <3>2, ZerosBits
      <3>4. q = s \o y
        BY <2>1 DEF BitsToBytes
      <3> HIDE DEF y
      <3>5. /\ s \o y \in Seq(Bit) /\ Len(s \o y) = Len(s) + Len(y)
            /\ \A i \in 1..(Len(s) + Len(y)) : (s \o y)[i] = IF i <= Len(s) THEN s[i] ELSE y[i - Len(s)]
        BY <3>3, ConcatProperties
      <3>6. Len(y) \in Nat
        BY <3>3, LenProperties
      <3>7. \A i \in 1..Len(s) : i \in 1..(Len(s) + Len(y)) /\ i <= Len(s)
        BY <3>1, <3>6
      <3>8. QED
        BY <3>4, <3>5, <3>7
    <2>2. CASE ~asBytes
      BY <2>2
    <2>3. QED
      BY <2>1, <2>2
  <1> HIDE DEF x
  <1>2. Len(q) \in Nat /\ k \in Nat /\ k <= Len(q)
    BY <1>1, LenProperties
  <1>3. /\ x \in Seq(Bit) /\ Len(x) = k
        /\ \A i \in 1..k : x[i] = q[i]
    BY <1>1, PrefixBits DEF x
  <1>4. z \in Nat /\ z < 8
    <2>1. z \in 0..7 /\ z \in Nat
      BY <1>2, SlackRange
    <2> HIDE DEF z
    <2>2. QED
      BY <2>1
  <1>5. o \in Seq(Bit) /\ Len(o) = z
    <2> HIDE DEF z
    <2>1. QED
      BY <1>4, ZerosBits
  <1>6. d = x \o o
    BY <1>3 DEF BitsToBytes
  <1> HIDE DEF o, d, z
  <1>7. /\ d \in Seq(Bit) /\ Len(d) = k + z
        /\ \A i \in 1..(k + z) : d[i] = IF i <= k THEN x[i] ELSE o[i - k]
    <2>1. /\ x \o o \in Seq(Bit) /\ Len(x \o o) = Len(x) + Len(o)
          /\ \A i \in 1..(Len(x) + Len(o)) : (x \o o)[i] = IF i <= Len(x) THEN x[i] ELSE o[i - Len(x)]
      BY <1>3, <1>5, ConcatProperties
    <2>2. QED
      BY <1>3, <1>5, <1>6, <2>1
  <1>8. z \in 0..Len(d) /\ Len(d) - z = k
    BY <1>2, <1>4, <1>7
  <1>9. /\ Without(d, z) \in Seq(Bit) /\ Len(Without(d, z)) = k
        /\ \A i \in 1..k : Without(d, z)[i] = d[i]
    <2>1. /\ Without(d, z) \in Seq(Bit) /\ Len(Without(d, z)) = Len(d) - z
          /\ \A i \in 1..(Len(d) - z) : Without(d, z)[i] = d[i]
      BY <1>7, <1>8, WithoutBits
    <2>2. QED
      BY <1>8, <2>1
  <1>10. \A i \in 1..k : d[i] = q[i]
    <2>1. \A i \in 1..k : i \in 1..(k + z) /\ i <= k
      BY <1>2, <1>4
    <2>2. QED
      BY <1>3, <1>7, <2>1
  <1>11. Fits(Without(d, z), s)
    <2>1. \A i \in 1..Len(s) : i <= k => i \in 1..k /\ i <= Len(q)
      <3>1. Len(s) \in Nat
        BY LenProperties
      <3>2. QED
        BY <1>2, <3>1
    <2>2. \A i \in 1..Len(s) : i <= k => Without(d, z)[i] = s[i]
      BY <1>1, <1>9, <1>10, <2>1
    <2>3. QED
      BY <1>9, <2>2 DEF Fits
  <1>12. d \in Seq(Bit) /\ \E y \in 0..Len(d) : y < 8 /\ Fits(Without(d, y), s)
    BY <1>4, <1>7, <1>8, <1>11
  <1>13. QED
    BY <1>12 DEF d, x

(* The payload of an event is bits, wherever its terminator is found. *)
LEMMA PayloadBits ==
    ASSUME NEW b \in Seq(Bit), Parses(b)
    PROVE  ReadPayload(b) \in Seq(Bit)
  <1> DEFINE k == FoundPadding(b)
  <1>1. b \in Seq(Bit) /\ ~TooShort(b) /\ Paddings(b) # {}
    BY DEF Parses
  <1>2. k \in Paddings(b)
    BY <1>1, FoundIsLeast
  <1>3. k \in 0..7 /\ k <= Len(b) - 16 /\ Len(b) \in Nat
    <2>1. k \in 0..MaxPadding(b)
      BY <1>2 DEF Paddings
    <2>2. QED
      BY <1>1, <2>1, CandidateBits, LenProperties
  <1> HIDE DEF k
  <1>4. Len(b) - k - 16 \in 0..Len(b)
    BY <1>3
  <1>5. SubSeq(b, 1, Len(b) - k - 16) \in Seq(Bit)
    BY <1>1, <1>4, PrefixBits
  <1>6. QED
    BY <1>5, BytesAreWhole DEF ReadPayload, k

----------------------------------------------------------------------------
(* Numbers: induction, as a statement about sets, and division *)

(* A set of numbers has a least one. *)
LEMMA Least ==
    ASSUME NEW S \in SUBSET Nat, S # {}
    PROVE  \E n \in S : \A m \in S : n <= m
  <1> DEFINE R == OpToRel(<, Nat)
  <1>1. IsWellFoundedOn(R, Nat)
    BY NatLessThanWellFounded
  <1>2. \A x, y \in S : <<y, x>> \in R <=> y < x
    BY DEF OpToRel
  <1> HIDE DEF R
  <1>3. PICK x \in S : \A y \in S : ~(<<y, x>> \in R)
    BY <1>1, WFMin
  <1>4. \A y \in S : y \in Int
    OBVIOUS
  <1>5. \A y \in S : ~(y < x)
    BY <1>2, <1>3
  <1>6. \A y \in S : x <= y
    BY <1>4, <1>5
  <1>7. QED
    BY <1>6

(* A set with 0 and the successors of its numbers has every number. *)
LEMMA Induction ==
    ASSUME NEW S, 0 \in S, \A n \in Nat : n \in S => n + 1 \in S
    PROVE  \A n \in Nat : n \in S
  <1> DEFINE C == {n \in Nat : n \notin S}
  <1> SUFFICES ASSUME C # {} PROVE FALSE
    OBVIOUS
  <1>1. PICK n \in C : \A m \in C : n <= m
    BY Least
  <1>2. n # 0 /\ n - 1 \in Nat
    OBVIOUS
  <1>3. n - 1 \in S
    BY <1>1, <1>2
  <1>4. QED
    BY <1>3, <1>2

(* Division by 128, the step from one byte of a Varint to the next (varint.rs). *)
LEMMA DivMod ==
    ASSUME NEW x \in Int
    PROVE  /\ x \div 128 \in Int /\ x % 128 \in 0..127
           /\ x = 128 * (x \div 128) + (x % 128)
           /\ -128 <= x /\ x < 0 => x \div 128 = -1 /\ x % 128 = x + 128
           /\ 0 <= x /\ x < 128 => x \div 128 = 0 /\ x % 128 = x
  <1>1. x \div 128 \in Int /\ x % 128 \in 0..127 /\ x = 128 * (x \div 128) + (x % 128)
    OBVIOUS
  <1> DEFINE q == x \div 128
             r == x % 128
  <1>2. q \in Int /\ r \in 0..127 /\ x = 128 * q + r
    BY <1>1
  <1> HIDE DEF q, r
  <1>3. /\ -128 <= x /\ x < 0 => q = -1 /\ r = x + 128
        /\ 0 <= x /\ x < 128 => q = 0 /\ r = x
    BY <1>2
  <1>4. QED
    BY <1>1, <1>3 DEF q, r

(* The rest of a division, as the cast of a length makes it. *)
LEMMA ModRange ==
    ASSUME NEW m \in Nat, m > 0, NEW n \in Nat
    PROVE  n % m \in 0..(m - 1) /\ (n < m => n % m = n)
  OBVIOUS

(* Whole bytes in bits of which less than a byte is too much. *)
LEMMA DivEight ==
    ASSUME NEW l \in Nat, NEW k \in Nat, l < 8 * k + 8
    PROVE  LET n == l \div 8
           IN  n \in Nat /\ n <= k /\ 8 * n <= l /\ (8 * k <= l => n = k)
  OBVIOUS
=============================================================================
