---------------------- MODULE ReplicationPacketsProofs ----------------------
(***************************************************************************)
(* For every width of the integers and fields, every value of every field  *)
(* and every mistaken id: what is read of the bytes of a packet.  First    *)
(* what the codecs give back of what they wrote, of integers, of parts, of *)
(* fields and of layouts, whatever is missing or filled in at the end;     *)
(* then that each packet has a layout of which this holds; then the        *)
(* invariants of ReplicationPackets.                                       *)
(***************************************************************************)
EXTENDS ReplicationPackets, RpcWireProofs, FiniteSetTheorems

----------------------------------------------------------------------------
(* The least and the greatest of a set of numbers *)

(* The least of a set, as FiniteSetsExt chooses it. *)
LEMMA MinIn ==
    ASSUME NEW S \in SUBSET Nat, S # {}
    PROVE  Min(S) \in S /\ \A x \in S : Min(S) <= x
  <1>1. \E n \in S : \A m \in S : n <= m
    BY Least
  <1>2. QED
    BY <1>1 DEF Min

(* It is the only one that is no greater than the others. *)
LEMMA MinIs ==
    ASSUME NEW S \in SUBSET Nat, NEW m \in S, \A x \in S : m <= x
    PROVE  Min(S) = m
  <1>1. Min(S) \in S /\ Min(S) <= m
    BY MinIn
  <1>2. m <= Min(S) /\ Min(S) \in Nat
    BY <1>1
  <1>3. QED
    BY <1>1, <1>2

(* Max of a set of numbers up to n is one of them, and the greatest. *)
LEMMA MaxIn ==
    ASSUME NEW n \in Nat, NEW S \in SUBSET (1..n), S # {}
    PROVE  Max(S) \in S /\ \A x \in S : x <= Max(S)
  <1> DEFINE T == {m \in 0..n : n - m \in S}
  <1>1. T # {}
    <2>1. PICK x \in S : TRUE
      OBVIOUS
    <2>2. n - x \in T
      BY <2>1
    <2>3. QED
      BY <2>2
  <1>2. PICK m \in T : \A k \in T : m <= k
    <2>1. T \in SUBSET Nat
      OBVIOUS
    <2> HIDE DEF T
    <2>2. QED
      BY <1>1, <2>1, Least
  <1>3. \A x \in S : n - x \in T /\ x <= n - m
    BY <1>2
  <1>4. \E y \in S : \A x \in S : x <= y
    BY <1>3
  <1>5. QED
    BY <1>4 DEF Max

----------------------------------------------------------------------------
(* Powers of two *)

(* The powers of two, as the recursive function of Varint defines them. *)
LEMMA TwoToDef ==
    TwoTo = [n \in Nat |-> IF n = 0 THEN 1 ELSE 2 * TwoTo[n - 1]]
  <1> DEFINE Upto(f, m) == \A k \in 0..m : f[k] = IF k = 0 THEN 1 ELSE 2 * f[k - 1]
             S == {m \in Nat : \E f : Upto(f, m)}
  <1>1. 0 \in S
    <2>1. Upto([k \in {0} |-> 1], 0)
      OBVIOUS
    <2>2. QED
      BY <2>1
  <1>2. ASSUME NEW m \in Nat, m \in S
        PROVE  m + 1 \in S
    <2>1. PICK f : Upto(f, m)
      BY <1>2
    <2> DEFINE g == [k \in 0..(m + 1) |-> IF k <= m THEN f[k] ELSE 2 * f[m]]
    <2>2. Upto(g, m + 1)
      BY <2>1
    <2> HIDE DEF g
    <2>3. QED
      BY <2>2
  <1>3. \A m \in Nat : \E f : Upto(f, m)
    <2> HIDE DEF S
    <2>1. \A m \in Nat : m \in S
      BY <1>1, <1>2, Induction
    <2>2. QED
      BY <2>1 DEF S
  <1> DEFINE F(m) == CHOOSE f : Upto(f, m)
             h == [n \in Nat |-> F(n)[n]]
  <1>4. \A m \in Nat : Upto(F(m), m)
    BY <1>3
  <1>5. ASSUME NEW m \in Nat
        PROVE  \A k \in Nat : k <= m => F(m)[k] = F(m + 1)[k]
    <2> DEFINE A == F(m)
               B == F(m + 1)
               T == {k \in Nat : k <= m => A[k] = B[k]}
    <2>1. Upto(A, m) /\ Upto(B, m + 1)
      BY <1>4
    <2> HIDE DEF A, B, F
    <2>2. 0 \in T
      BY <2>1
    <2>3. ASSUME NEW k \in Nat, k \in T
          PROVE  k + 1 \in T
      BY <2>1, <2>3
    <2>4. \A k \in Nat : k \in T
      <3> HIDE DEF T
      <3>1. QED
        BY <2>2, <2>3, Induction
    <2>5. QED
      BY <2>4 DEF A, B
  <1>6. \A n \in Nat : h[n] = IF n = 0 THEN 1 ELSE 2 * h[n - 1]
    <2> SUFFICES ASSUME NEW n \in Nat PROVE h[n] = IF n = 0 THEN 1 ELSE 2 * h[n - 1]
      OBVIOUS
    <2>1. CASE n = 0
      <3>1. Upto(F(0), 0)
        BY <1>4
      <3> HIDE DEF F
      <3>2. QED
        BY <3>1, <2>1
    <2>2. CASE n # 0
      <3>1. n - 1 \in Nat /\ (n - 1) + 1 = n
        BY <2>2
      <3>2. F(n - 1)[n - 1] = F(n)[n - 1]
        <4> HIDE DEF F
        <4>1. \A m \in Nat : F(m)[m] = F(m + 1)[m]
          BY <1>5
        <4>2. QED
          BY <3>1, <4>1
      <3>3. Upto(F(n), n)
        BY <1>4
      <3> HIDE DEF F
      <3>4. F(n)[n] = 2 * F(n)[n - 1]
        BY <3>3, <2>2
      <3>5. QED
        BY <3>1, <3>2, <3>4, <2>2
    <2>3. QED
      BY <2>1, <2>2
  <1>7. h = [n \in Nat |-> IF n = 0 THEN 1 ELSE 2 * h[n - 1]]
    BY <1>6
  <1> HIDE DEF h
  <1>8. QED
    BY <1>7 DEF TwoTo

(* One step of the recursion. *)
LEMMA TwoToStep ==
    TwoTo[0] = 1 /\ \A n \in Nat : TwoTo[n + 1] = 2 * TwoTo[n]
  BY TwoToDef

(* A power of two is a positive number. *)
LEMMA TwoToPositive ==
    \A n \in Nat : TwoTo[n] \in Nat /\ TwoTo[n] > 0
  <1> DEFINE S == {n \in Nat : TwoTo[n] \in Nat /\ TwoTo[n] > 0}
  <1>1. 0 \in S
    BY TwoToStep
  <1>2. ASSUME NEW n \in Nat, n \in S PROVE n + 1 \in S
    BY <1>2, TwoToStep
  <1>3. \A n \in Nat : n \in S
    <2> HIDE DEF S
    <2>1. QED
      BY <1>1, <1>2, Induction
  <1>4. QED
    BY <1>3

(* The powers of two grow with the exponent. *)
LEMMA TwoToGrows ==
    \A m, n \in Nat : m <= n => TwoTo[m] <= TwoTo[n]
  <1> SUFFICES ASSUME NEW m \in Nat PROVE \A n \in Nat : m <= n => TwoTo[m] <= TwoTo[n]
    OBVIOUS
  <1> DEFINE S == {n \in Nat : m <= n => TwoTo[m] <= TwoTo[n]}
  <1>1. 0 \in S
    BY TwoToPositive
  <1>2. ASSUME NEW n \in Nat, n \in S PROVE n + 1 \in S
    <2>1. TwoTo[n] \in Nat /\ TwoTo[n + 1] = 2 * TwoTo[n] /\ TwoTo[m] \in Nat
      BY TwoToStep, TwoToPositive
    <2>2. CASE m <= n
      BY <1>2, <2>1, <2>2
    <2>3. CASE m = n + 1
      BY <2>1, <2>3
    <2>4. QED
      BY <2>2, <2>3
  <1>3. \A n \in Nat : n \in S
    <2> HIDE DEF S
    <2>1. QED
      BY <1>1, <1>2, Induction
  <1>4. QED
    BY <1>3
----------------------------------------------------------------------------
(* Digits *)

(* The recursion behind `>>`: what is left after each of n shifts. *)
LEMMA ShiftedSteps ==
    ASSUME NEW v, NEW base, NEW n \in Nat
    PROVE  Shifted(v, base, n)
             = [i \in 0..n |-> IF i = 0 THEN v ELSE Shifted(v, base, n)[i - 1] \div base]
  <1> DEFINE IsIt(f, m) == f = [i \in 0..m |-> IF i = 0 THEN v ELSE f[i - 1] \div base]
             S == {m \in Nat : \E f : IsIt(f, m)}
  <1>1. 0 \in S
    <2>1. IsIt([i \in 0..0 |-> v], 0)
      OBVIOUS
    <2>2. QED
      BY <2>1
  <1>2. ASSUME NEW m \in Nat, m \in S
        PROVE  m + 1 \in S
    <2>1. PICK f : IsIt(f, m)
      BY <1>2
    <2> DEFINE g == [i \in 0..(m + 1) |-> IF i <= m THEN f[i] ELSE f[m] \div base]
    <2>2. \A i \in 0..(m + 1) : g[i] = IF i = 0 THEN v ELSE g[i - 1] \div base
      BY <2>1
    <2>3. IsIt(g, m + 1)
      BY <2>2
    <2>4. \E h : IsIt(h, m + 1)
      BY <2>3
    <2>5. QED
      BY <2>4
  <1> HIDE DEF S
  <1>3. n \in S
    BY <1>1, <1>2, Induction
  <1>4. \E f : IsIt(f, n)
    BY <1>3 DEF S
  <1>5. QED
    BY <1>4 DEF Shifted

Base == {2, 128}

(* The same as equations: each shift divides what the one before it left. *)
LEMMA ShiftedStep ==
    ASSUME NEW v \in Int, NEW base \in Base, NEW n \in Nat
    PROVE  LET left == Shifted(v, base, n)
           IN  /\ left[0] = v
               /\ \A i \in 0..n : left[i] \in Int
               /\ \A i \in 1..n : left[i] = left[i - 1] \div base
  <1> DEFINE left == Shifted(v, base, n)
             S == {i \in Nat : i <= n => left[i] \in Int}
  <1>1. left[0] = v /\ \A i \in 1..n : left[i] = left[i - 1] \div base
    BY ShiftedSteps
  <1> HIDE DEF left
  <1>2. 0 \in S
    BY <1>1
  <1>3. ASSUME NEW i \in Nat, i \in S PROVE i + 1 \in S
    <2> SUFFICES ASSUME i + 1 <= n PROVE left[i + 1] \in Int
      OBVIOUS
    <2>1. left[i] \in Int /\ left[i + 1] = left[i] \div base
      BY <1>1, <1>3
    <2>2. base = 2 \/ base = 128
      BY DEF Base
    <2>3. QED
      BY <2>1, <2>2
  <1>4. \A i \in Nat : i \in S
    <2> HIDE DEF S
    <2>1. QED
      BY <1>2, <1>3, Induction
  <1>5. QED
    BY <1>1, <1>4 DEF left

(* A digit is less than its base, and is the rest of what is left there. *)
LEMMA DigitsRange ==
    ASSUME NEW v \in Int, NEW base \in Base, NEW n \in Nat
    PROVE  /\ Digits(v, base, n) \in Seq(Int) /\ Len(Digits(v, base, n)) = n
           /\ \A i \in 1..n :
                LET d == Digits(v, base, n)[i]
                IN  d \in Int /\ 0 <= d /\ d < base /\ d = Shifted(v, base, n)[i - 1] % base
  <1> DEFINE left == Shifted(v, base, n)
  <1>1. \A i \in 0..n : left[i] \in Int
    BY ShiftedStep
  <1> HIDE DEF left
  <1>2. \A i \in 1..n : left[i - 1] % base \in Int /\ 0 <= left[i - 1] % base /\ left[i - 1] % base < base
    BY <1>1 DEF Base
  <1>3. Digits(v, base, n) = [i \in 1..n |-> left[i - 1] % base]
    BY DEF Digits, left
  <1>4. QED
    BY <1>2, <1>3 DEF left

IsNumbering(from, digits, base, high, n) ==
    from = [i \in 0..n |-> IF i = 0 THEN high ELSE digits[Len(digits) + 1 - i] + base * from[i - 1]]

Numbering(digits, base, high) ==
    CHOOSE from : IsNumbering(from, digits, base, high, Len(digits))

(* The recursion by which a number is put together from its digits. *)
LEMMA NumberSteps ==
    ASSUME NEW digits, NEW base, NEW high, NEW n \in Nat, Len(digits) = n
    PROVE  LET from == Numbering(digits, base, high)
           IN  /\ from[0] = high
               /\ \A i \in 1..n : from[i] = digits[n + 1 - i] + base * from[i - 1]
               /\ Number(digits, base, high) = from[n]
  <1> DEFINE S == {m \in Nat : \E f : IsNumbering(f, digits, base, high, m)}
  <1>1. 0 \in S
    <2>1. IsNumbering([i \in 0..0 |-> high], digits, base, high, 0)
      BY DEF IsNumbering
    <2>2. QED
      BY <2>1
  <1>2. ASSUME NEW m \in Nat, m \in S
        PROVE  m + 1 \in S
    <2>1. PICK f : IsNumbering(f, digits, base, high, m)
      BY <1>2
    <2> DEFINE g == [i \in 0..(m + 1) |->
                       IF i <= m THEN f[i] ELSE digits[n + 1 - (m + 1)] + base * f[m]]
    <2>2. \A i \in 0..(m + 1) :
              g[i] = IF i = 0 THEN high ELSE digits[n + 1 - i] + base * g[i - 1]
      BY <2>1 DEF IsNumbering
    <2>3. IsNumbering(g, digits, base, high, m + 1)
      BY <2>2 DEF IsNumbering
    <2> HIDE DEF g
    <2>4. QED
      BY <2>3
  <1>3. n \in S
    <2> HIDE DEF S
    <2>1. QED
      BY <1>1, <1>2, Induction
  <1> DEFINE from == Numbering(digits, base, high)
  <1>4. IsNumbering(from, digits, base, high, n)
    BY <1>3 DEF Numbering
  <1>5. Number(digits, base, high) = from[n]
    BY DEF Number, Numbering, IsNumbering
  <1> HIDE DEF from
  <1>6. from[0] = high /\ \A i \in 1..n : from[i] = digits[n + 1 - i] + base * from[i - 1]
    BY <1>4 DEF IsNumbering
  <1>7. QED
    BY <1>5, <1>6 DEF from

(* All of its intermediate values are integers. *)
LEMMA NumberIntegers ==
    ASSUME NEW digits \in Seq(Int), NEW base \in Base, NEW high \in Int
    PROVE  LET from == Numbering(digits, base, high)
               n == Len(digits)
           IN  /\ \A i \in 0..n : from[i] \in Int
               /\ from[0] = high
               /\ \A i \in 1..n : from[i] = digits[n + 1 - i] + base * from[i - 1]
               /\ Number(digits, base, high) = from[n]
  <1> DEFINE n == Len(digits)
             from == Numbering(digits, base, high)
             S == {i \in Nat : i <= n => from[i] \in Int}
  <1>1. n \in Nat /\ \A i \in 1..n : digits[i] \in Int
    BY LenProperties, ElementOfSeq
  <1>2. base = 2 \/ base = 128
    BY DEF Base
  <1>3. /\ from[0] = high
        /\ \A i \in 1..n : from[i] = digits[n + 1 - i] + base * from[i - 1]
        /\ Number(digits, base, high) = from[n]
    BY <1>1, NumberSteps
  <1> HIDE DEF n, from
  <1>4. 0 \in S
    BY <1>3
  <1>5. ASSUME NEW i \in Nat, i \in S PROVE i + 1 \in S
    <2> SUFFICES ASSUME i + 1 <= n PROVE from[i + 1] \in Int
      OBVIOUS
    <2>1. i + 1 \in 1..n /\ (i + 1) - 1 = i /\ n + 1 - (i + 1) \in 1..n
      BY <1>1
    <2>2. from[i] \in Int /\ digits[n + 1 - (i + 1)] \in Int
      BY <1>1, <1>5, <2>1
    <2>3. from[i + 1] = digits[n + 1 - (i + 1)] + base * from[i]
      BY <1>3, <2>1
    <2>4. QED
      BY <2>2, <2>3, <1>2
  <1>6. \A i \in Nat : i \in S
    <2> HIDE DEF S
    <2>1. QED
      BY <1>4, <1>5, Induction
  <1>7. \A i \in 0..n : from[i] \in Int
    BY <1>1, <1>6
  <1>8. QED
    BY <1>3, <1>7 DEF n, from

(* The digits of an integer and what is left of it above them make it up. *)
LEMMA NumberOfDigits ==
    ASSUME NEW v \in Int, NEW base \in Base, NEW n \in Nat
    PROVE  Number(Digits(v, base, n), base, Shifted(v, base, n)[n]) = v
  <1> DEFINE left == Shifted(v, base, n)
             digits == Digits(v, base, n)
             high == left[n]
  <1>1. /\ left[0] = v
        /\ \A i \in 0..n : left[i] \in Int
        /\ \A i \in 1..n : left[i] = left[i - 1] \div base
    BY ShiftedStep
  <1>2. Len(digits) = n /\ \A i \in 1..n : digits[i] = left[i - 1] % base
    BY DigitsRange
  <1> HIDE DEF left, digits
  <1> DEFINE from == Numbering(digits, base, high)
  <1>3. /\ from[0] = high
        /\ \A i \in 1..n : from[i] = digits[n + 1 - i] + base * from[i - 1]
        /\ Number(digits, base, high) = from[n]
    <2> HIDE DEF high
    <2>1. from[0] = high
      BY <1>2, NumberSteps
    <2>2. \A i \in 1..n : from[i] = digits[n + 1 - i] + base * from[i - 1]
      BY <1>2, NumberSteps
    <2>3. Number(digits, base, high) = from[n]
      BY <1>2, NumberSteps
    <2>4. QED
      BY <2>1, <2>2, <2>3
  <1> HIDE DEF from
  <1> DEFINE S == {i \in Nat : i <= n => from[i] = left[n - i]}
  <1>4. 0 \in S
    BY <1>3
  <1>5. ASSUME NEW i \in Nat, i \in S PROVE i + 1 \in S
    <2> SUFFICES ASSUME i + 1 <= n PROVE from[i + 1] = left[n - (i + 1)]
      OBVIOUS
    <2> DEFINE x == left[n - i - 1]
    <2>1. n - i \in 1..n /\ (n - i) - 1 \in 0..n
      OBVIOUS
    <2>2. left[n - i] = x \div base /\ x \in Int
      BY <1>1, <2>1
    <2>3. digits[n - i] = x % base
      BY <1>2, <2>1
    <2>4. from[i] = left[n - i]
      BY <1>5, <2>1
    <2>5. from[i + 1] = digits[n - i] + base * from[i]
      <3>1. i + 1 \in 1..n /\ n + 1 - (i + 1) = n - i /\ (i + 1) - 1 = i
        OBVIOUS
      <3>2. from[i + 1] = digits[n + 1 - (i + 1)] + base * from[(i + 1) - 1]
        BY <3>1, <1>3
      <3>3. QED
        BY <3>1, <3>2
    <2> HIDE DEF x
    <2>6. (x % base) + base * (x \div base) = x
      <3>1. base = 2 \/ base = 128
        BY DEF Base
      <3>2. QED
        BY <3>1, <2>2
    <2>7. from[i + 1] = x
      BY <2>2, <2>3, <2>4, <2>5, <2>6
    <2>8. QED
      BY <2>7 DEF x
  <1>6. n \in S
    <2> HIDE DEF S
    <2>1. QED
      BY <1>4, <1>5, Induction
  <1>7. QED
    BY <1>1, <1>3, <1>6 DEF left, digits

(* A digit in front of a number is its rest, and the number is what is left. *)
LEMMA FirstDigit ==
    ASSUME NEW base \in Base, NEW d \in 0..(base - 1), NEW x \in Int
    PROVE  (d + base * x) \div base = x /\ (d + base * x) % base = d
  <1>1. CASE base = 2
    <2>1. d \in 0..1
      BY <1>1
    <2>2. (d + 2 * x) \div 2 = x /\ (d + 2 * x) % 2 = d
      BY <2>1
    <2>3. QED
      BY <1>1, <2>2
  <1>2. CASE base = 128
    <2>1. d \in 0..127
      BY <1>2
    <2>2. (d + 128 * x) \div 128 = x /\ (d + 128 * x) % 128 = d
      BY <2>1
    <2>3. QED
      BY <1>2, <2>2
  <1>3. QED
    BY <1>1, <1>2 DEF Base

(* And an integer is made up of these digits and of nothing else. *)
LEMMA DigitsOfNumber ==
    ASSUME NEW base \in Base, NEW digits \in Seq(Int), NEW high \in Int,
           \A i \in 1..Len(digits) : digits[i] \in 0..(base - 1)
    PROVE  LET v == Number(digits, base, high)
               n == Len(digits)
           IN  /\ v \in Int
               /\ Digits(v, base, n) = digits
               /\ Shifted(v, base, n)[n] = high
  <1> DEFINE n == Len(digits)
             v == Number(digits, base, high)
             from == Numbering(digits, base, high)
             left == Shifted(v, base, n)
  <1>1. n \in Nat /\ \A i \in 1..n : digits[i] \in 0..(base - 1)
    BY LenProperties
  <1>2. base = 2 \/ base = 128
    BY DEF Base
  <1>3. /\ from[0] = high
        /\ \A i \in 1..n : from[i] = digits[n + 1 - i] + base * from[i - 1]
        /\ v = from[n]
        /\ \A i \in 0..n : from[i] \in Int
    BY NumberIntegers
  <1> HIDE DEF n, from
  <1>4. \A i \in 0..n : from[i] \in Int
    BY <1>3
  <1>5. v \in Int
    BY <1>1, <1>3, <1>4
  <1> HIDE DEF v
  <1>6. left[0] = v /\ \A i \in 1..n : left[i] = left[i - 1] \div base
    BY <1>1, <1>5, ShiftedStep
  <1>7. Digits(v, base, n) \in Seq(Int) /\ Len(Digits(v, base, n)) = n
        /\ \A i \in 1..n : Digits(v, base, n)[i] = left[i - 1] % base
    BY <1>1, <1>5, DigitsRange
  <1> HIDE DEF left
  <1>8. ASSUME NEW i \in 0..n, i < n, left[i] = from[n - i]
        PROVE  left[i + 1] = from[n - (i + 1)] /\ left[i] % base = digits[i + 1]
    <2>1. n - i \in 1..n /\ n + 1 - (n - i) = i + 1 /\ (n - i) - 1 = n - (i + 1)
          /\ i + 1 \in 1..n /\ n - (i + 1) \in 0..n /\ (i + 1) - 1 = i
      BY <1>1, <1>8
    <2>2. left[i] = digits[i + 1] + base * from[n - (i + 1)]
      BY <1>3, <1>8, <2>1
    <2>3. left[i + 1] = left[i] \div base
      BY <1>6, <2>1
    <2>4. digits[i + 1] \in 0..(base - 1) /\ from[n - (i + 1)] \in Int
      BY <1>1, <1>4, <2>1
    <2> DEFINE d == digits[i + 1]
               x == from[n - (i + 1)]
    <2>5. (d + base * x) \div base = x /\ (d + base * x) % base = d
      <3>1. d \in 0..(base - 1) /\ x \in Int
        BY <2>4
      <3> HIDE DEF d, x
      <3>2. QED
        BY <3>1, FirstDigit
    <2>6. left[i] = d + base * x
      BY <2>2
    <2> HIDE DEF d, x
    <2>7. left[i + 1] = x /\ left[i] % base = d
      BY <2>3, <2>5, <2>6
    <2>8. QED
      BY <2>7 DEF d, x
  <1> DEFINE T == {i \in Nat : i <= n => left[i] = from[n - i]}
  <1>9. \A i \in 0..n : left[i] = from[n - i]
    <2>1. 0 \in T
      BY <1>1, <1>3, <1>6
    <2>2. ASSUME NEW i \in Nat, i \in T PROVE i + 1 \in T
      BY <1>1, <1>8, <2>2
    <2> HIDE DEF T
    <2>3. \A i \in Nat : i \in T
      BY <2>1, <2>2, Induction
    <2>4. QED
      BY <2>3 DEF T
  <1>10. left[n] = high
    BY <1>1, <1>3, <1>9
  <1>11. \A i \in 1..n : Digits(v, base, n)[i] = digits[i]
    <2> SUFFICES ASSUME NEW i \in 1..n PROVE Digits(v, base, n)[i] = digits[i]
      OBVIOUS
    <2>1. i - 1 \in 0..n /\ i - 1 < n /\ (i - 1) + 1 = i
      BY <1>1
    <2>2. left[i - 1] % base = digits[i]
      BY <1>8, <1>9, <2>1
    <2>3. QED
      BY <1>7, <2>2
  <1>12. Digits(v, base, n) = digits
    <2>1. Len(digits) = n
      BY DEF n
    <2> DEFINE again == Digits(v, base, n)
    <2>2. again \in Seq(Int) /\ Len(again) = n /\ \A i \in 1..n : again[i] = digits[i]
      BY <1>7, <1>11
    <2> HIDE DEF again
    <2>3. again = digits
      BY <2>1, <2>2
    <2>4. QED
      BY <2>3 DEF again
  <1>13. QED
    BY <1>5, <1>10, <1>12 DEF v, n, left

(* Shifting takes the bits off an integer. *)
LEMMA ShiftedBits ==
    ASSUME NEW m \in Nat, NEW v \in 0..(TwoTo[m] - 1)
    PROVE  Shifted(v, 2, m)[m] = 0
  <1> DEFINE left == Shifted(v, 2, m)
             S == {i \in Nat : i <= m => left[i] \in 0..(TwoTo[m - i] - 1)}
  <1>1. TwoTo[m] \in Nat /\ v \in Int
    BY TwoToPositive
  <1>2. /\ left[0] = v
        /\ \A i \in 1..m : left[i] = left[i - 1] \div 2
    BY <1>1, ShiftedStep DEF Base
  <1> HIDE DEF left
  <1>3. 0 \in S
    BY <1>2
  <1>4. ASSUME NEW i \in Nat, i \in S PROVE i + 1 \in S
    <2> SUFFICES ASSUME i + 1 <= m PROVE left[i + 1] \in 0..(TwoTo[m - (i + 1)] - 1)
      OBVIOUS
    <2> DEFINE k == m - (i + 1)
    <2>1. k \in Nat /\ m - i = k + 1
      OBVIOUS
    <2>2. left[i] \in 0..(TwoTo[k + 1] - 1)
      BY <1>4, <2>1
    <2>3. left[i + 1] = left[i] \div 2
      BY <1>2
    <2> HIDE DEF k
    <2>4. TwoTo[k + 1] = 2 * TwoTo[k] /\ TwoTo[k] \in Nat
      BY <2>1, TwoToStep, TwoToPositive
    <2>5. left[i + 1] \in 0..(TwoTo[k] - 1)
      BY <2>2, <2>3, <2>4
    <2>6. QED
      BY <2>5 DEF k
  <1>5. m \in S
    <2> HIDE DEF S
    <2>1. QED
      BY <1>3, <1>4, Induction
  <1>6. left[m] \in 0..0
    BY <1>5, TwoToStep
  <1>7. QED
    BY <1>6 DEF left

(* A fixed-size number is read as it was written. *)
LEMMA ValueOfBits ==
    ASSUME NEW n \in Nat, NEW v \in 0..(TwoTo[n] - 1)
    PROVE  Bits(v, n) \in Seq(Bit) /\ Len(Bits(v, n)) = n /\ BitsValue(Bits(v, n)) = v
  <1>1. TwoTo[n] \in Nat /\ v \in Int
    BY TwoToPositive
  <1>2. 2 \in Base
    BY DEF Base
  <1>3. Bits(v, n) \in Seq(Bit) /\ Len(Bits(v, n)) = n
    <2> DEFINE d == Digits(v, 2, n)
    <2>1. d \in Seq(Int) /\ Len(d) = n /\ \A i \in 1..n : d[i] \in Int /\ 0 <= d[i] /\ d[i] < 2
      BY <1>1, <1>2, DigitsRange
    <2> HIDE DEF d
    <2>2. d \in Seq(Bit)
      BY <2>1 DEF Bit
    <2>3. QED
      BY <2>1, <2>2 DEF Bits, d
  <1>4. Shifted(v, 2, n)[n] = 0
    BY ShiftedBits
  <1>5. Number(Digits(v, 2, n), 2, 0) = v
    BY <1>1, <1>2, <1>4, NumberOfDigits
  <1>6. QED
    BY <1>3, <1>5 DEF Bits, BitsValue

(* And bits are those of the number they are read as. *)
LEMMA BitsOfValue ==
    ASSUME NEW bits \in Seq(Bit)
    PROVE  BitsValue(bits) \in 0..(TwoTo[Len(bits)] - 1) /\ Bits(BitsValue(bits), Len(bits)) = bits
  <1> DEFINE n == Len(bits)
             from == Numbering(bits, 2, 0)
             S == {i \in Nat : i <= n => from[i] \in 0..(TwoTo[i] - 1)}
  <1>1. n \in Nat /\ \A i \in 1..n : bits[i] \in {0, 1}
    BY DEF Bit
  <1>2. /\ from[0] = 0
        /\ \A i \in 1..n : from[i] = bits[n + 1 - i] + 2 * from[i - 1]
        /\ BitsValue(bits) = from[n]
    <2>1. n \in Nat /\ Len(bits) = n
      OBVIOUS
    <2> HIDE DEF n
    <2>2. from[0] = 0
      BY <2>1, NumberSteps
    <2>3. \A i \in 1..n : from[i] = bits[n + 1 - i] + 2 * from[i - 1]
      BY <2>1, NumberSteps
    <2>4. BitsValue(bits) = from[n]
      BY <2>1, NumberSteps DEF BitsValue
    <2>5. QED
      BY <2>2, <2>3, <2>4
  <1> HIDE DEF n, from
  <1>3. 0 \in S
    BY SMTT(60), <1>2, TwoToStep
  <1>4. ASSUME NEW i \in Nat, i \in S PROVE i + 1 \in S
    <2> SUFFICES ASSUME i + 1 <= n PROVE from[i + 1] \in 0..(TwoTo[i + 1] - 1)
      OBVIOUS
    <2>1. i + 1 \in 1..n /\ (i + 1) - 1 = i /\ n + 1 - (i + 1) \in 1..n
      BY <1>1
    <2>2. from[i + 1] = bits[n + 1 - (i + 1)] + 2 * from[i]
      BY <1>2, <2>1
    <2>3. bits[n + 1 - (i + 1)] \in {0, 1}
      BY <1>1, <2>1
    <2>4. TwoTo[i + 1] = 2 * TwoTo[i] /\ TwoTo[i] \in Nat
      BY TwoToStep, TwoToPositive
    <2>5. from[i] \in 0..(TwoTo[i] - 1)
      BY <1>1, <1>4
    <2>6. \A d \in {0, 1}, t \in Nat : \A x \in 0..(t - 1) : d + 2 * x \in 0..(2 * t - 1)
      OBVIOUS
    <2>7. bits[n + 1 - (i + 1)] + 2 * from[i] \in 0..(2 * TwoTo[i] - 1)
      BY <2>3, <2>4, <2>5, <2>6
    <2>8. QED
      BY <2>2, <2>4, <2>7
  <1>5. n \in S
    <2> HIDE DEF S
    <2>1. QED
      BY <1>1, <1>3, <1>4, Induction
  <1>6. BitsValue(bits) \in 0..(TwoTo[n] - 1)
    BY <1>1, <1>2, <1>5
  <1>7. 2 \in Base /\ bits \in Seq(Int) /\ \A i \in 1..Len(bits) : bits[i] \in 0..(2 - 1)
    BY <1>1 DEF Base, Bit, n
  <1>8. Bits(BitsValue(bits), n) = bits
    BY <1>7, DigitsOfNumber DEF Bits, BitsValue, n
  <1>9. QED
    BY <1>6, <1>8 DEF n
----------------------------------------------------------------------------
(* Integer types *)

(* An integer type has 8 to 64 bits, and the unsigned ones have no negative numbers. *)
LEMMA IntegersAreInt ==
    ASSUME NEW t \in IntegerTypes
    PROVE  /\ t.bits \in 8..64 /\ t.signed \in BOOLEAN
           /\ TwoTo[t.bits] \in Nat /\ TwoTo[t.bits - 1] \in Nat
           /\ TwoTo[t.bits] = 2 * TwoTo[t.bits - 1]
           /\ IntegersOf(t) \subseteq Int
           /\ ~t.signed => IntegersOf(t) \subseteq Nat
  <1>1. t.bits \in 8..64 /\ t.signed \in BOOLEAN
    BY DEF IntegerTypes
  <1>2. t.bits - 1 \in Nat /\ t.bits \in Nat /\ (t.bits - 1) + 1 = t.bits
    BY <1>1
  <1>3. TwoTo[t.bits] \in Nat /\ TwoTo[t.bits - 1] \in Nat
    BY <1>2, TwoToPositive
  <1>4. TwoTo[t.bits] = 2 * TwoTo[t.bits - 1]
    BY <1>2, TwoToStep
  <1>5. QED
    BY <1>1, <1>3, <1>4 DEF IntegersOf

(* Seven more bits: 128 times as many numbers. *)
LEMMA TwoToSeven ==
    \A k \in Nat : TwoTo[k + 7] = 128 * TwoTo[k]
  <1> SUFFICES ASSUME NEW k \in Nat PROVE TwoTo[k + 7] = 128 * TwoTo[k]
    OBVIOUS
  <1>1. TwoTo[k] \in Nat /\ TwoTo[k + 1] = 2 * TwoTo[k]
    BY TwoToStep, TwoToPositive
  <1>2. TwoTo[k + 2] = 2 * TwoTo[k + 1] /\ TwoTo[k + 3] = 2 * TwoTo[k + 2]
    <2>1. k + 1 \in Nat /\ k + 2 \in Nat /\ (k + 1) + 1 = k + 2 /\ (k + 2) + 1 = k + 3
      OBVIOUS
    <2>2. QED
      BY <2>1, TwoToStep
  <1>3. TwoTo[k + 4] = 2 * TwoTo[k + 3] /\ TwoTo[k + 5] = 2 * TwoTo[k + 4]
    <2>1. k + 3 \in Nat /\ k + 4 \in Nat /\ (k + 3) + 1 = k + 4 /\ (k + 4) + 1 = k + 5
      OBVIOUS
    <2>2. QED
      BY <2>1, TwoToStep
  <1>4. TwoTo[k + 6] = 2 * TwoTo[k + 5] /\ TwoTo[k + 7] = 2 * TwoTo[k + 6]
    <2>1. k + 5 \in Nat /\ k + 6 \in Nat /\ (k + 5) + 1 = k + 6 /\ (k + 6) + 1 = k + 7
      OBVIOUS
    <2>2. QED
      BY <2>1, TwoToStep
  <1>5. QED
    BY <1>1, <1>2, <1>3, <1>4

(* Shifting keeps the sign and takes seven bits at a time. *)
LEMMA ShiftedGroups ==
    ASSUME NEW m \in Nat, NEW v \in Int, -TwoTo[m] <= v, v < TwoTo[m], NEW n \in Nat
    PROVE  \A i \in 0..n :
             LET left == Shifted(v, 128, n)
             IN  /\ left[i] < 0 <=> v < 0
                 /\ 7 * i <= m => -TwoTo[m - 7 * i] <= left[i] /\ left[i] < TwoTo[m - 7 * i]
  <1> DEFINE left == Shifted(v, 128, n)
             P(i) == /\ left[i] < 0 <=> v < 0
                     /\ 7 * i <= m => -TwoTo[m - 7 * i] <= left[i] /\ left[i] < TwoTo[m - 7 * i]
             S == {i \in Nat : i <= n => P(i)}
  <1>1. /\ left[0] = v
        /\ \A i \in 0..n : left[i] \in Int
        /\ \A i \in 1..n : left[i] = left[i - 1] \div 128
    BY SMTT(60), ShiftedStep DEF Base
  <1> HIDE DEF left
  <1>2. 0 \in S
    BY <1>1
  <1>3. ASSUME NEW i \in Nat, i \in S PROVE i + 1 \in S
    <2> SUFFICES ASSUME i + 1 <= n PROVE P(i + 1)
      OBVIOUS
    <2>1. left[i] \in Int /\ left[i + 1] \in Int /\ left[i + 1] = left[i] \div 128
      BY <1>1
    <2>2. left[i] < 0 <=> v < 0
      BY <1>3
    <2>3. left[i + 1] < 0 <=> left[i] < 0
      BY <2>1
    <2>4. ASSUME 7 * (i + 1) <= m
          PROVE  -TwoTo[m - 7 * (i + 1)] <= left[i + 1] /\ left[i + 1] < TwoTo[m - 7 * (i + 1)]
      <3> DEFINE k == m - 7 * (i + 1)
      <3>1. k \in Nat /\ m - 7 * i = k + 7
        BY <2>4
      <3>2. -TwoTo[k + 7] <= left[i] /\ left[i] < TwoTo[k + 7]
        BY <1>3, <2>4, <3>1
      <3> HIDE DEF k
      <3>3. TwoTo[k + 7] = 128 * TwoTo[k] /\ TwoTo[k] \in Nat
        BY <3>1, TwoToSeven, TwoToPositive
      <3>4. -TwoTo[k] <= left[i + 1] /\ left[i + 1] < TwoTo[k]
        BY <2>1, <3>2, <3>3
      <3>5. QED
        BY <3>4 DEF k
    <2>5. QED
      BY <2>2, <2>3, <2>4
  <1>4. \A i \in Nat : i \in S
    <2> HIDE DEF S
    <2>1. QED
      BY <1>2, <1>3, Induction
  <1>5. QED
    BY <1>4 DEF left

(* How often v is shifted does not change what is left of it before. *)
LEMMA ShiftedAgree ==
    ASSUME NEW v \in Int, NEW base \in Base, NEW n \in Nat, NEW m \in Nat
    PROVE  \A i \in Nat : i <= n /\ i <= m => Shifted(v, base, n)[i] = Shifted(v, base, m)[i]
  <1> DEFINE A == Shifted(v, base, n)
             B == Shifted(v, base, m)
             S == {i \in Nat : i <= n /\ i <= m => A[i] = B[i]}
  <1>1. A[0] = v /\ \A i \in 1..n : A[i] = A[i - 1] \div base
    BY ShiftedStep
  <1>2. B[0] = v /\ \A i \in 1..m : B[i] = B[i - 1] \div base
    BY ShiftedStep
  <1> HIDE DEF A, B
  <1>3. 0 \in S
    BY <1>1, <1>2
  <1>4. ASSUME NEW i \in Nat, i \in S PROVE i + 1 \in S
    <2> SUFFICES ASSUME i + 1 <= n, i + 1 <= m PROVE A[i + 1] = B[i + 1]
      OBVIOUS
    <2>1. i + 1 \in 1..n /\ i + 1 \in 1..m /\ (i + 1) - 1 = i
      OBVIOUS
    <2>2. A[i + 1] = A[i] \div base /\ B[i + 1] = B[i] \div base
      BY <1>1, <1>2, <2>1
    <2>3. QED
      BY <1>4, <2>2
  <1>5. \A i \in Nat : i \in S
    <2> HIDE DEF S
    <2>1. QED
      BY <1>3, <1>4, Induction
  <1>6. QED
    BY <1>5 DEF A, B

(* Ten groups are enough for every type. *)
LEMMA GroupCountIs ==
    ASSUME NEW t \in IntegerTypes, NEW v \in IntegersOf(t)
    PROVE  LET n == GroupCount(t, v)
               left == Shifted(v, 128, n)
           IN  /\ n \in 1..10
               /\ Done(t, left[n - 1] % 128, left[n])
               /\ \A k \in 1..10 :
                     Done(t, Shifted(v, 128, 10)[k - 1] % 128, Shifted(v, 128, 10)[k]) => n <= k
  <1> DEFINE n == GroupCount(t, v)
             left == Shifted(v, 128, 10)
             ends == {k \in 1..10 : Done(t, left[k - 1] % 128, left[k])}
  <1>1. v \in Int /\ t.bits \in 8..64 /\ t.signed \in BOOLEAN
    BY IntegersAreInt
  <1>2. \A i \in 0..10 : left[i] \in Int
    <2>1. \A b \in Base, m \in Nat : \A i \in 0..m : Shifted(v, b, m)[i] \in Int
      BY <1>1, ShiftedStep
    <2>2. 10 \in Nat /\ 128 \in Base
      BY DEF Base
    <2>3. QED
      BY <2>1, <2>2
  <1>3. left[10] = left[9] \div 128
    <2>1. 10 \in Nat /\ 128 \in Base
      BY DEF Base
    <2>2. \A i \in 1..10 : left[i] = left[i - 1] \div 128
      BY SMTT(60), <1>1, <2>1, ShiftedStep
    <2> HIDE DEF left
    <2>3. QED
      BY <2>2
  <1>4. 10 \in ends
    <2>1. CASE t.signed
      <3>1. -TwoTo[63] <= v /\ v < TwoTo[63]
        <4>1. t.bits - 1 \in Nat /\ t.bits - 1 <= 63
          BY <1>1
        <4>2. TwoTo[t.bits - 1] <= TwoTo[63] /\ TwoTo[t.bits - 1] \in Nat /\ TwoTo[63] \in Nat
          BY <4>1, TwoToGrows, TwoToPositive
        <4>3. -TwoTo[t.bits - 1] <= v /\ v < TwoTo[t.bits - 1]
          BY <2>1, <4>2 DEF IntegersOf
        <4>4. QED
          BY <1>1, <4>2, <4>3
      <3>2. -TwoTo[0] <= left[9] /\ left[9] < TwoTo[0]
        <4>1. 9 \in 0..10 /\ 7 * 9 <= 63 /\ 63 - 7 * 9 = 0 /\ 63 \in Nat /\ 10 \in Nat
          OBVIOUS
        <4>2. QED
          BY <1>1, <3>1, <4>1, ShiftedGroups
      <3> HIDE DEF left
      <3>3. left[9] \in {-1, 0}
        BY <1>2, <3>2, TwoToStep
      <3>4. CASE left[9] = 0
        BY <1>3, <3>4 DEF Done
      <3>5. CASE left[9] = -1
        <4>4. left[9] \in Int /\ -128 <= left[9] /\ left[9] < 0
          BY <3>5
        <4>5. left[9] \div 128 = -1 /\ left[9] % 128 = left[9] + 128
          BY <4>4, DivMod
        <4>1. left[10] = -1 /\ left[9] % 128 = 127 /\ 10 - 1 = 9
          BY <1>3, <3>5, <4>5
        <4>2. Done(t, left[10 - 1] % 128, left[10])
          BY <4>1, <2>1 DEF Done
        <4>3. QED
          BY <4>2
      <3>6. QED
        BY <3>3, <3>4, <3>5
    <2>2. CASE ~t.signed
      <3>1. 0 <= v /\ v < TwoTo[70] /\ -TwoTo[70] <= v
        <4>1. t.bits \in Nat /\ t.bits <= 70
          BY <1>1
        <4>2. TwoTo[t.bits] <= TwoTo[70] /\ TwoTo[t.bits] \in Nat /\ TwoTo[70] \in Nat
          BY <4>1, TwoToGrows, TwoToPositive
        <4>3. 0 <= v /\ v < TwoTo[t.bits]
          BY <2>2, <4>2 DEF IntegersOf
        <4>4. QED
          BY <1>1, <4>2, <4>3
      <3>2. ~(left[10] < 0) /\ left[10] < TwoTo[0]
        <4>1. 10 \in 0..10 /\ 7 * 10 <= 70 /\ 70 - 7 * 10 = 0 /\ 70 \in Nat /\ 10 \in Nat
          OBVIOUS
        <4>2. ~(v < 0)
          BY <1>1, <3>1
        <4>3. QED
          BY <1>1, <3>1, <4>1, <4>2, ShiftedGroups
      <3> HIDE DEF left
      <3>3. left[10] = 0
        BY <1>2, <3>2, TwoToStep
      <3>4. QED
        BY <2>2, <3>3 DEF Done
    <2>3. QED
      BY <2>1, <2>2, <1>1
  <1>5. n = Min(ends)
    BY DEF GroupCount, MaxGroups
  <1>6. ends \in SUBSET Nat
    OBVIOUS
  <1> HIDE DEF ends, n
  <1>7. n \in ends /\ \A k \in ends : n <= k
    BY <1>4, <1>5, <1>6, MinIn
  <1>8. n \in 1..10 /\ Done(t, left[n - 1] % 128, left[n])
        /\ \A k \in 1..10 : Done(t, left[k - 1] % 128, left[k]) => n <= k
    BY <1>7 DEF ends
  <1>9. Shifted(v, 128, n)[n - 1] = left[n - 1] /\ Shifted(v, 128, n)[n] = left[n]
    <2>1. n \in Nat /\ 10 \in Nat /\ n - 1 \in Nat /\ n - 1 <= n /\ n - 1 <= 10 /\ n <= 10
      BY <1>8
    <2>2. 128 \in Base
      BY DEF Base
    <2>3. QED
      BY <1>1, <2>1, <2>2, ShiftedAgree
  <1>10. QED
    BY <1>8, <1>9 DEF n
----------------------------------------------------------------------------
(* A Varint on the stream *)

(* The groups of a Varint are numbers of seven bits. *)
LEMMA GroupsRange ==
    ASSUME NEW v \in Int, NEW n \in Nat
    PROVE  /\ Digits(v, 128, n) \in Seq(Int) /\ Len(Digits(v, 128, n)) = n
           /\ \A i \in 1..n : Digits(v, 128, n)[i] \in 0..127
           /\ \A i \in 1..n : Digits(v, 128, n)[i] = Shifted(v, 128, n)[i - 1] % 128
  <1>1. ASSUME NEW b \in Base
        PROVE  /\ Digits(v, b, n) \in Seq(Int) /\ Len(Digits(v, b, n)) = n
               /\ \A i \in 1..n : Digits(v, b, n)[i] \in 0..(b - 1)
               /\ \A i \in 1..n : Digits(v, b, n)[i] = Shifted(v, b, n)[i - 1] % b
    <2> DEFINE d == Digits(v, b, n)
    <2>1. d \in Seq(Int) /\ Len(d) = n
      BY DigitsRange
    <2>2. ASSUME NEW i \in 1..n PROVE d[i] \in 0..(b - 1)
      <3>1. d[i] \in Int /\ 0 <= d[i] /\ d[i] < b
        BY DigitsRange
      <3>2. b \in Int
        BY DEF Base
      <3> HIDE DEF d
      <3>3. QED
        BY <3>1, <3>2
    <2>3. \A i \in 1..n : d[i] = Shifted(v, b, n)[i - 1] % b
      BY DigitsRange
    <2>4. QED
      BY <2>1, <2>2, <2>3
  <1>2. 128 \in Base
    BY DEF Base
  <1>3. Digits(v, 128, n) \in Seq(Int) /\ Len(Digits(v, 128, n)) = n
    BY <1>1, <1>2
  <1>4. \A i \in 1..n : Digits(v, 128, n)[i] \in 0..(128 - 1)
    BY <1>1, <1>2
  <1>5. \A i \in 1..n : Digits(v, 128, n)[i] \in 0..127
    BY <1>4
  <1>6. \A i \in 1..n : Digits(v, 128, n)[i] = Shifted(v, 128, n)[i - 1] % 128
    BY <1>1, <1>2
  <1>7. QED
    BY <1>3, <1>5, <1>6

(* The base of the groups. *)
LEMMA TwoToSevenIs == TwoTo[7] = 128
  <1>1. TwoTo[0 + 7] = 128 * TwoTo[0] /\ TwoTo[0] = 1
    BY TwoToSeven, TwoToStep
  <1>2. QED
    BY <1>1

(* The bits of a Varint: seven of a digit, and whether there is another. *)
LEMMA WriteBits ==
    ASSUME NEW t \in IntegerTypes, NEW v \in IntegersOf(t)
    PROVE  LET n == GroupCount(t, v)
               w == Write(t, v)
           IN  /\ w \in Seq(Bit) /\ Len(w) = 8 * n
               /\ \A i \in 1..n : w[8 * i] = IF i = n THEN 0 ELSE 1
               /\ \A i \in 1..n, j \in 1..7 : w[8 * (i - 1) + j] = Bits(Digits(v, 128, n)[i], 7)[j]
  <1> DEFINE n == GroupCount(t, v)
             w == Write(t, v)
             groups == Digits(v, 128, n)
             bit(i) == IF i % 8 = 0 THEN IF i = 8 * n THEN 0 ELSE 1
                       ELSE Bits(groups[1 + (i \div 8)], 7)[i % 8]
  <1>1. v \in Int /\ n \in 1..10
    BY IntegersAreInt, GroupCountIs
  <1> HIDE DEF n
  <1>2. Len(groups) = n /\ \A i \in 1..n : groups[i] \in 0..127
    <2>1. n \in Nat
      BY <1>1
    <2>2. groups \in Seq(Int) /\ Len(groups) = n
      BY <1>1, <2>1, GroupsRange
    <2>3. \A i \in 1..n : groups[i] \in 0..127
      BY <1>1, <2>1, GroupsRange
    <2>4. QED
      BY <2>2, <2>3
  <1> HIDE DEF groups
  <1>3. w = [i \in 1..(8 * n) |-> bit(i)]
    BY <1>2 DEF Write, GroupBits, n, groups
  <1>4. TwoTo[7] = 128
    BY TwoToSevenIs
  <1>5. \A i \in 1..n : \A j \in 1..7 : Bits(groups[i], 7)[j] \in Bit
    <2> SUFFICES ASSUME NEW i \in 1..n, NEW j \in 1..7 PROVE Bits(groups[i], 7)[j] \in Bit
      OBVIOUS
    <2>1. 7 \in Nat /\ groups[i] \in 0..(TwoTo[7] - 1)
      BY <1>2, <1>4
    <2>2. Bits(groups[i], 7) \in Seq(Bit) /\ Len(Bits(groups[i], 7)) = 7
      BY <2>1, ValueOfBits
    <2>3. QED
      BY <2>2
  <1>6. \A i \in 1..(8 * n) : i % 8 # 0 => 1 + (i \div 8) \in 1..n /\ i % 8 \in 1..7
    BY <1>1
  <1>7. \A i \in 1..(8 * n) : bit(i) \in Bit
    BY <1>5, <1>6 DEF Bit
  <1>8. w \in Seq(Bit) /\ Len(w) = 8 * n
    <2> HIDE DEF bit, w
    <2>1. 8 * n \in Nat
      BY <1>1
    <2>2. QED
      BY <1>3, <1>7, <2>1
  <1>9. ASSUME NEW i \in 1..n PROVE w[8 * i] = IF i = n THEN 0 ELSE 1
    <2>1. 8 * i \in 1..(8 * n) /\ (8 * i) % 8 = 0 /\ (8 * i = 8 * n <=> i = n)
      BY <1>1
    <2> HIDE DEF w
    <2>2. w[8 * i] = bit(8 * i)
      BY <1>3, <2>1
    <2>3. QED
      BY <2>1, <2>2
  <1>10. ASSUME NEW i \in 1..n, NEW j \in 1..7
         PROVE  w[8 * (i - 1) + j] = Bits(groups[i], 7)[j]
    <2> DEFINE k == 8 * (i - 1) + j
    <2>1. k \in 1..(8 * n) /\ k % 8 = j /\ k \div 8 = i - 1
      BY <1>1
    <2> HIDE DEF w, k
    <2>2. w[k] = bit(k)
      BY <1>3, <2>1
    <2>3. k % 8 # 0 /\ 1 + (k \div 8) = i
      BY <2>1
    <2>4. QED
      BY <2>1, <2>2, <2>3 DEF k
  <1>11. QED
    BY <1>8, <1>9, <1>10 DEF n, groups

(* What is taken of a stream that starts with a Varint. *)
LEMMA TakenOfWritten ==
    ASSUME NEW t \in IntegerTypes, NEW v \in IntegersOf(t),
           NEW b \in Seq(Bit), Fits(b, Write(t, v))
    PROVE  LET n == GroupCount(t, v)
           IN  /\ Len(b) < 8 * n => Taken(b) = 0
               /\ 8 * n <= Len(b) => Taken(b) = n /\ GroupsOf(b, n) = Digits(v, 128, n)
  <1> DEFINE n == GroupCount(t, v)
             w == Write(t, v)
             groups == Digits(v, 128, n)
             ends == {k \in 1..10 : 8 * k <= Len(b) /\ b[8 * k] = 0}
  <1>1. v \in Int /\ n \in 1..10 /\ Len(b) \in Nat
    BY IntegersAreInt, GroupCountIs
  <1>2. /\ Len(w) = 8 * n
        /\ \A i \in 1..n : w[8 * i] = IF i = n THEN 0 ELSE 1
        /\ \A i \in 1..n, j \in 1..7 : w[8 * (i - 1) + j] = Bits(groups[i], 7)[j]
    BY WriteBits
  <1>3. groups \in Seq(Int) /\ Len(groups) = n
        /\ \A i \in 1..n : groups[i] \in 0..127
    <2>1. n \in Nat
      BY <1>1
    <2>2. groups \in Seq(Int) /\ Len(groups) = n
      BY <1>1, <2>1, GroupsRange
    <2>3. \A i \in 1..n : groups[i] \in 0..127
      BY ZenonT(60), <1>1, <2>1, GroupsRange
    <2>4. QED
      BY <2>2, <2>3
  <1>4. Taken(b) = IF ends = {} THEN 0 ELSE Min(ends)
    BY DEF Taken, MaxGroups
  <1>5. \A i \in 1..(8 * n) : i <= Len(b) => b[i] = w[i]
    BY <1>2 DEF Fits
  <1> HIDE DEF n, w, groups, ends
  <1>6. \A k \in 1..10 : k < n /\ 8 * k <= Len(b) => b[8 * k] = 1
    BY SMTT(60), <1>1, <1>2, <1>5
  <1>7. ASSUME Len(b) < 8 * n PROVE Taken(b) = 0
    <2>0. \A k \in 1..10 : 8 * k <= Len(b) => b[8 * k] = 1
      BY <1>1, <1>6, <1>7
    <2>1. ends = {}
      BY SMTT(60), <2>0 DEF ends
    <2>2. QED
      BY <1>4, <2>1
  <1>8. ASSUME 8 * n <= Len(b) PROVE Taken(b) = n
    <2>1. n \in ends /\ ends \in SUBSET Nat
      BY <1>1, <1>2, <1>5, <1>8 DEF ends
    <2>2. \A k \in ends : n <= k
      BY <1>1, <1>6 DEF ends
    <2>3. Min(ends) = n
      BY <2>1, <2>2, MinIs
    <2>4. QED
      BY <1>4, <2>1, <2>3
  <1>9. ASSUME 8 * n <= Len(b) PROVE GroupsOf(b, n) = groups
    <2>1. ASSUME NEW i \in 1..n PROVE BitsValue(SubSeq(b, 8 * i - 7, 8 * i - 1)) = groups[i]
      <3> DEFINE s == SubSeq(b, 8 * i - 7, 8 * i - 1)
                 d == Bits(groups[i], 7)
      <3>1. 8 * i - 7 \in 1..Len(b) /\ 8 * i - 1 \in 1..Len(b) /\ 8 * i - 7 <= 8 * i - 1
        BY <1>1, <1>9
      <3>2. s \in Seq(Bit) /\ Len(s) = 7 /\ \A j \in 1..7 : s[j] = b[8 * (i - 1) + j]
        BY <3>1
      <3>3. TwoTo[7] = 128
        BY TwoToSevenIs
      <3>4. groups[i] \in 0..(TwoTo[7] - 1) /\ 7 \in Nat
        BY <1>3, <3>3
      <3>5. d \in Seq(Bit) /\ Len(d) = 7 /\ BitsValue(d) = groups[i]
        BY <3>4, ValueOfBits
      <3>6. \A j \in 1..7 : s[j] = d[j]
        <4> SUFFICES ASSUME NEW j \in 1..7 PROVE s[j] = d[j]
          OBVIOUS
        <4>1. 8 * (i - 1) + j \in 1..(8 * n) /\ 8 * (i - 1) + j <= Len(b)
          BY <1>1, <1>9
        <4> HIDE DEF s, d
        <4>2. s[j] = w[8 * (i - 1) + j]
          BY <3>2, <1>5, <4>1
        <4>3. QED
          BY <1>2, <4>2 DEF d
      <3> HIDE DEF s, d
      <3>7. s = d
        BY <3>2, <3>5, <3>6, SeqEqual
      <3>8. QED
        BY <3>5, <3>7 DEF s
    <2>2. GroupsOf(b, n) = [i \in 1..n |-> groups[i]]
      BY <2>1 DEF GroupsOf
    <2>3. groups = [i \in 1..n |-> groups[i]]
      BY <1>3
    <2>4. QED
      BY <2>2, <2>3
  <1>10. QED
    BY <1>7, <1>8, <1>9 DEF n, groups
(* What an integer with a bit more above its digits is. *)
LEMMA NumberAbove ==
    ASSUME NEW digits \in Seq(Int), NEW high \in Int
    PROVE  Number(digits, 128, high + 1) = Number(digits, 128, high) + TwoTo[7 * Len(digits)]
  <1> DEFINE n == Len(digits)
             A == Numbering(digits, 128, high)
             B == Numbering(digits, 128, high + 1)
             S == {i \in Nat : i <= n => B[i] = A[i] + TwoTo[7 * i]}
  <1>1. n \in Nat /\ 128 \in Base /\ high + 1 \in Int
    BY LenProperties DEF Base
  <1>2. /\ \A i \in 0..n : A[i] \in Int
        /\ A[0] = high
        /\ \A i \in 1..n : A[i] = digits[n + 1 - i] + 128 * A[i - 1]
        /\ Number(digits, 128, high) = A[n]
    BY <1>1, NumberIntegers
  <1>3. /\ B[0] = high + 1
        /\ \A i \in 1..n : B[i] = digits[n + 1 - i] + 128 * B[i - 1]
        /\ Number(digits, 128, high + 1) = B[n]
    BY <1>1, NumberIntegers
  <1>4. \A i \in 1..n : digits[i] \in Int
    BY ElementOfSeq
  <1> HIDE DEF n, A, B
  <1>5. 0 \in S
    <2>1. TwoTo[7 * 0] = 1
      BY TwoToStep
    <2>2. B[0] = A[0] + TwoTo[7 * 0]
      BY <1>2, <1>3, <2>1
    <2>3. QED
      BY <2>2
  <1>6. ASSUME NEW i \in Nat, i \in S PROVE i + 1 \in S
    <2> SUFFICES ASSUME i + 1 <= n PROVE B[i + 1] = A[i + 1] + TwoTo[7 * (i + 1)]
      OBVIOUS
    <2> DEFINE k == n + 1 - (i + 1)
    <2>1. i + 1 \in 1..n /\ (i + 1) - 1 = i /\ k \in 1..n /\ i \in 0..n
      BY <1>1
    <2>2. A[i + 1] = digits[k] + 128 * A[i] /\ B[i + 1] = digits[k] + 128 * B[i]
      BY <1>2, <1>3, <2>1
    <2>3. digits[k] \in Int /\ A[i] \in Int
      BY <1>2, <1>4, <2>1
    <2>4. B[i] = A[i] + TwoTo[7 * i]
      BY <1>6, <2>1
    <2>5. 7 * i \in Nat /\ 7 * (i + 1) = 7 * i + 7
      OBVIOUS
    <2>6. TwoTo[7 * (i + 1)] = 128 * TwoTo[7 * i] /\ TwoTo[7 * i] \in Nat
      BY <2>5, TwoToSeven, TwoToPositive
    <2> HIDE DEF k
    <2>7. QED
      BY SMTT(60), <2>2, <2>3, <2>4, <2>6
  <1>7. n \in S
    <2> HIDE DEF S
    <2>1. QED
      BY <1>1, <1>5, <1>6, Induction
  <1>8. QED
    BY <1>1, <1>2, <1>3, <1>7 DEF n

(* The writer stops soon enough for the sign to be extended, but for a negative *)
(* integer that is not readable. *)
LEMMA ReadableGroups ==
    ASSUME NEW t \in IntegerTypes, NEW r \in IntegerTypes, t.signed, r.signed,
           NEW v \in IntegersOf(t), v < 0, Readable(r, v)
    PROVE  7 * GroupCount(t, v) < r.bits
  <1> DEFINE k == (r.bits - 1) \div 7
             m == 7 * k - 1
             n == GroupCount(t, v)
             left == Shifted(v, 128, 10)
  <1>1. v \in Int /\ r.bits \in 8..64
    BY IntegersAreInt
  <1>2. k \in 1..9 /\ 7 * k < r.bits /\ m \in Nat
    BY <1>1
  <1>3. -TwoTo[m] <= v /\ v < TwoTo[m]
    <2>1. v >= -TwoTo[m]
      BY DEF Readable
    <2>2. TwoTo[m] \in Nat
      BY <1>2, TwoToPositive
    <2> HIDE DEF m
    <2>3. QED
      BY <1>1, <2>1, <2>2
  <1>4. \A i \in 0..10 :
             /\ left[i] < 0 <=> v < 0
             /\ 7 * i <= m => -TwoTo[m - 7 * i] <= left[i] /\ left[i] < TwoTo[m - 7 * i]
    <2>1. 10 \in Nat
      OBVIOUS
    <2> HIDE DEF m
    <2>2. QED
      BY <1>1, <1>2, <1>3, <2>1, ShiftedGroups
  <1>5. left[k - 1] \in Int /\ left[k] = left[k - 1] \div 128
    <2>1. 10 \in Nat /\ 128 \in Base /\ k - 1 \in 0..10 /\ k \in 1..10
      BY <1>2 DEF Base
    <2>2. \A b \in Base, j \in Nat :
             /\ \A i \in 0..j : Shifted(v, b, j)[i] \in Int
             /\ \A i \in 1..j : Shifted(v, b, j)[i] = Shifted(v, b, j)[i - 1] \div b
      BY <1>1, ShiftedStep
    <2> HIDE DEF k
    <2>3. QED
      BY <2>1, <2>2
  <1> HIDE DEF left
  <1>6. -64 <= left[k - 1] /\ left[k - 1] < 0
    <2>1. k - 1 \in 0..10 /\ 7 * (k - 1) <= m /\ m - 7 * (k - 1) = 6
      BY <1>2
    <2>2. TwoTo[6] = 64
      <3>1. TwoTo[6 + 1] = 2 * TwoTo[6] /\ TwoTo[6] \in Nat
        BY TwoToStep, TwoToPositive
      <3>2. 6 + 1 = 7
        OBVIOUS
      <3>3. QED
        BY <3>1, <3>2, TwoToSevenIs
    <2> HIDE DEF k, m
    <2>3. QED
      BY <1>4, <2>1, <2>2
  <1>7. left[k] = -1 /\ left[k - 1] % 128 >= 64
    <2>1. left[k - 1] \div 128 = -1 /\ left[k - 1] % 128 = left[k - 1] + 128
      BY <1>5, <1>6, DivMod
    <2>2. QED
      BY <1>5, <1>6, <2>1
  <1>8. Done(t, left[k - 1] % 128, left[k])
    BY <1>7 DEF Done
  <1>9. n <= k /\ n \in 1..10
    <2>1. k \in 1..10
      BY <1>2
    <2> HIDE DEF k
    <2>2. QED
      BY <1>8, <2>1, GroupCountIs DEF left
  <1>10. QED
    <2> HIDE DEF n, k
    <2>1. 7 * n < r.bits
      BY <1>1, <1>2, <1>9
    <2>2. QED
      BY <2>1 DEF n

(* The width of an integer type, as the integer the arithmetic below is about. *)
LEMMA TypeBits ==
    ASSUME NEW t \in IntegerTypes
    PROVE  /\ t.bits \in Int /\ t.bits \in Nat /\ t.bits - 1 \in Nat
           /\ t.bits <= 64 /\ t.bits - 1 <= 64
  <1>1. t.bits \in 8..64
    BY IntegersAreInt
  <1>2. QED
    BY <1>1

(* A Varint is read as it was written, by a reader whose type holds it; and not *)
(* at all if its end is missing. *)
LEMMA ReadOfWritten ==
    ASSUME NEW t \in IntegerTypes, NEW r \in IntegerTypes, r.signed <=> t.signed,
           NEW v \in IntegersOf(t), v \in IntegersOf(r),
           NEW b \in Seq(Bit), Fits(b, Write(t, v))
    PROVE  LET w == Write(t, v)
           IN  /\ Len(b) < Len(w) => Read(r, b) = None
               /\ Len(w) <= Len(b) => /\ 8 * Taken(b) = Len(w)
                                      /\ Read(r, b) \in {v, None}
                                      /\ Readable(r, v) => Read(r, b) = v
  <1> DEFINE n == GroupCount(t, v)
             w == Write(t, v)
             left == Shifted(v, 128, n)
             groups == Digits(v, 128, n)
             ext == Extension(r, groups)
  <1>1. v \in Int /\ n \in 1..10 /\ n \in Nat /\ Len(b) \in Nat
    BY IntegersAreInt, GroupCountIs
  <1>2. Len(w) = 8 * n
    BY WriteBits
  <1>3. ASSUME Len(b) < Len(w) PROVE Read(r, b) = None
    <2>1. Taken(b) = 0
      BY <1>2, <1>3, TakenOfWritten
    <2>2. QED
      BY <2>1 DEF Read
  <1>4. ASSUME Len(w) <= Len(b)
        PROVE  /\ 8 * Taken(b) = Len(w)
               /\ Read(r, b) \in {v, None}
               /\ Readable(r, v) => Read(r, b) = v
    <2>1. Taken(b) = n /\ GroupsOf(b, n) = groups
      BY <1>2, <1>4, TakenOfWritten
    <2>2. Read(r, b) = IF Number(groups, 128, ext) \in IntegersOf(r)
                       THEN Number(groups, 128, ext) ELSE None
      <3> HIDE DEF n, groups
      <3>1. n # 0
        BY <1>1
      <3>2. QED
        BY <2>1, <3>1 DEF Read
    <2>3. Number(groups, 128, left[n]) = v
      <3>1. 128 \in Base
        BY DEF Base
      <3> HIDE DEF n
      <3>2. QED
        BY <1>1, <3>1, NumberOfDigits
    <2>4. /\ Len(groups) = n /\ groups \in Seq(Int)
          /\ groups[n] = left[n - 1] % 128
      <3>1. n \in 1..n
        BY <1>1
      <3> HIDE DEF n
      <3>2. Len(groups) = n /\ groups \in Seq(Int)
        BY ZenonT(60), <1>1, GroupsRange
      <3>3. groups[n] = left[n - 1] % 128
        BY <1>1, <3>1, GroupsRange
      <3>4. QED
        BY <3>2, <3>3
    <2>5. left[n] = IF t.signed /\ groups[n] >= 64 THEN -1 ELSE 0
      <3>1. Done(t, left[n - 1] % 128, left[n])
        BY GroupCountIs
      <3>2. QED
        BY <2>4, <3>1 DEF Done
    <2>6. ext = IF t.signed /\ 7 * n < r.bits /\ groups[n] >= 64 THEN -1 ELSE 0
      <3> HIDE DEF n, groups
      <3>1. QED
        BY <2>4 DEF Extension
    <2>7. CASE ext = left[n]
      <3>1. Read(r, b) = v
        BY <2>2, <2>3, <2>7
      <3>2. QED
        BY <1>2, <2>1, <3>1
    <2>8. CASE ext # left[n]
      <3>1. t.signed /\ left[n] = -1 /\ ext = 0 /\ ~(7 * n < r.bits)
        <4> HIDE DEF n, groups, left, ext
        <4>1. QED
          BY <2>5, <2>6, <2>8
      <3>2. Number(groups, 128, 0) = v + TwoTo[7 * n]
        <4>1. Number(groups, 128, -1 + 1) = Number(groups, 128, -1) + TwoTo[7 * Len(groups)]
          <5>1. -1 \in Int
            OBVIOUS
          <5> HIDE DEF groups
          <5>2. QED
            BY <2>4, <5>1, NumberAbove
        <4>2. -1 + 1 = 0
          OBVIOUS
        <4> HIDE DEF groups, n, left
        <4>3. QED
          BY <2>3, <2>4, <3>1, <4>1, <4>2
      <3>3. Number(groups, 128, 0) \notin IntegersOf(r)
        <4>1. r.bits \in 8..64 /\ TwoTo[r.bits] = 2 * TwoTo[r.bits - 1]
              /\ TwoTo[r.bits - 1] \in Nat /\ TwoTo[r.bits] \in Nat
          BY IntegersAreInt
        <4>2. TwoTo[r.bits] <= TwoTo[7 * n] /\ TwoTo[7 * n] \in Nat
          <5>1. r.bits \in Nat /\ 7 * n \in Nat /\ r.bits <= 7 * n
            <6>1. r.bits \in Int /\ r.bits \in Nat
              BY TypeBits
            <6> HIDE DEF n
            <6>2. QED
              BY <1>1, <3>1, <6>1
          <5>2. QED
            BY <5>1, TwoToGrows, TwoToPositive
        <4>3. IntegersOf(r) = -TwoTo[r.bits - 1]..(TwoTo[r.bits - 1] - 1)
          BY <3>1 DEF IntegersOf
        <4>4. v >= -TwoTo[r.bits - 1]
          <5>1. v \in -TwoTo[r.bits - 1]..(TwoTo[r.bits - 1] - 1)
            BY <4>3
          <5>2. QED
            BY <5>1, <4>1
        <4> DEFINE x == Number(groups, 128, 0)
        <4>5. x = v + TwoTo[7 * n]
          BY <3>2
        <4> HIDE DEF x, n
        <4>6. x > TwoTo[r.bits - 1] - 1
          BY SMTT(60), <1>1, <4>1, <4>2, <4>4, <4>5
        <4>7. QED
          BY SMTT(60), <4>1, <4>3, <4>5, <4>6, <1>1, <4>2 DEF x
      <3>4. Read(r, b) = None
        BY <2>2, <3>1, <3>3
      <3>5. ~Readable(r, v)
        <4>1. v < 0
          <5>1. left[n] < 0 <=> v < 0
            <6>1. v \in IntegersOf(t) /\ 64 \in Nat
              OBVIOUS
            <6>2. -TwoTo[64] <= v /\ v < TwoTo[64]
              <7>1. t.bits - 1 \in Nat /\ t.bits - 1 <= 64
                BY TypeBits
              <7>2. TwoTo[t.bits - 1] <= TwoTo[64] /\ TwoTo[t.bits - 1] \in Nat /\ TwoTo[64] \in Nat
                BY <6>1, <7>1, TwoToGrows, TwoToPositive
              <7>3. -TwoTo[t.bits - 1] <= v /\ v < TwoTo[t.bits - 1]
                BY <3>1, <7>2 DEF IntegersOf
              <7>4. QED
                BY <1>1, <7>2, <7>3
            <6>3. n \in 0..n
              BY <1>1
            <6> HIDE DEF n
            <6>4. QED
              BY <1>1, <6>1, <6>2, <6>3, ShiftedGroups
          <5>2. QED
            BY <3>1, <5>1
        <4>2. QED
          BY <3>1, <4>1, ReadableGroups
      <3>6. QED
        BY <1>2, <2>1, <3>4, <3>5
    <2>9. QED
      BY <2>7, <2>8
  <1>5. QED
    BY <1>3, <1>4

----------------------------------------------------------------------------
(* Streams *)

(* What the reader has left after n bits. *)
LEMMA AfterBits ==
    ASSUME NEW S, NEW b \in Seq(S), NEW n \in 0..Len(b)
    PROVE  /\ After(b, n) \in Seq(S) /\ Len(After(b, n)) = Len(b) - n
           /\ \A i \in 1..(Len(b) - n) : After(b, n)[i] = b[n + i]
  <1>1. Len(b) \in Nat /\ n \in Nat /\ n + 1 \in 1..(Len(b) + 1)
    BY LenProperties
  <1>2. After(b, n) = [i \in 1..(Len(b) - n) |-> b[i + (n + 1) - 1]]
    BY <1>1 DEF After
  <1>3. \A i \in 1..(Len(b) - n) : i + (n + 1) - 1 = n + i /\ n + i \in 1..Len(b)
    BY <1>1
  <1>4. \A i \in 1..(Len(b) - n) : After(b, n)[i] = b[n + i] /\ b[n + i] \in S
    BY <1>2, <1>3, ElementOfSeq
  <1>5. After(b, n) \in [1..(Len(b) - n) -> S] /\ Len(b) - n \in Nat
    BY <1>1, <1>2, <1>4
  <1> DEFINE m == Len(b) - n
             a == After(b, n)
  <1>6. a \in [1..m -> S] /\ m \in Nat
    BY <1>5
  <1> HIDE DEF m, a
  <1>7. a \in Seq(S) /\ Len(a) = m
    BY <1>6
  <1>8. QED
    BY <1>4, <1>7 DEF a, m

(* Reading nothing leaves everything. *)
LEMMA AfterNothing ==
    ASSUME NEW S, NEW b \in Seq(S)
    PROVE  After(b, 0) = b
  <1>1. 0 \in 0..Len(b) /\ Len(b) - 0 = Len(b) /\ Len(b) \in Nat
    BY LenProperties
  <1>2. /\ After(b, 0) \in Seq(S) /\ Len(After(b, 0)) = Len(b)
        /\ \A i \in 1..Len(b) : After(b, 0)[i] = b[0 + i]
    BY <1>1, AfterBits
  <1>3. \A i \in 1..Len(b) : After(b, 0)[i] = b[i]
    BY <1>1, <1>2
  <1>4. QED
    BY <1>2, <1>3, SeqEqual

(* Reading m bits and then n leaves what reading m + n leaves. *)
LEMMA AfterAfter ==
    ASSUME NEW S, NEW b \in Seq(S), NEW m \in Nat, NEW n \in Nat, m + n <= Len(b)
    PROVE  After(After(b, m), n) = After(b, m + n)
  <1> DEFINE a == After(b, m)
             x == After(a, n)
             y == After(b, m + n)
  <1>0. Len(b) \in Nat
    BY LenProperties
  <1>1. m \in 0..Len(b) /\ m + n \in 0..Len(b)
    BY <1>0
  <1>2. /\ a \in Seq(S) /\ Len(a) = Len(b) - m
        /\ \A i \in 1..(Len(b) - m) : a[i] = b[m + i]
    BY <1>1, AfterBits
  <1>3. /\ y \in Seq(S) /\ Len(y) = Len(b) - (m + n)
        /\ \A i \in 1..(Len(b) - (m + n)) : y[i] = b[(m + n) + i]
    <2> DEFINE k == m + n
    <2>1. k \in 0..Len(b)
      BY <1>1
    <2> HIDE DEF k
    <2>2. /\ After(b, k) \in Seq(S) /\ Len(After(b, k)) = Len(b) - k
          /\ \A i \in 1..(Len(b) - k) : After(b, k)[i] = b[k + i]
      BY <2>1, AfterBits
    <2>3. QED
      BY <2>2 DEF k
  <1> HIDE DEF a
  <1>4. n \in 0..Len(a)
    BY <1>0, <1>2
  <1>5. /\ x \in Seq(S) /\ Len(x) = Len(a) - n
        /\ \A i \in 1..(Len(a) - n) : x[i] = a[n + i]
    BY <1>2, <1>4, AfterBits
  <1> HIDE DEF x, y
  <1>6. Len(x) = Len(y)
    BY <1>0, <1>2, <1>3, <1>5
  <1>7. ASSUME NEW i \in 1..Len(x) PROVE x[i] = y[i]
    <2>1. i \in 1..(Len(a) - n) /\ n + i \in 1..(Len(b) - m) /\ i \in 1..(Len(b) - (m + n))
          /\ m + (n + i) = (m + n) + i
      BY <1>0, <1>2, <1>5
    <2>2. x[i] = a[n + i] /\ a[n + i] = b[m + (n + i)] /\ y[i] = b[(m + n) + i]
      BY <1>2, <1>3, <1>5, <2>1
    <2>3. QED
      BY <2>1, <2>2
  <1>8. x = y
    BY <1>3, <1>5, <1>6, <1>7, SeqEqual
  <1>9. QED
    BY <1>8 DEF x, y, a

(* Bits that begin as two parts in line: the first is there, and the second behind it. *)
LEMMA FitsParts ==
    ASSUME NEW b \in Seq(Bit), NEW u \in Seq(Bit), NEW w \in Seq(Bit), Fits(b, u \o w)
    PROVE  /\ u \o w \in Seq(Bit) /\ Len(u \o w) = Len(u) + Len(w)
           /\ Fits(b, u)
           /\ Len(u) <= Len(b) => Fits(After(b, Len(u)), w)
  <1>1. Len(u) \in Nat /\ Len(w) \in Nat /\ Len(b) \in Nat
    BY LenProperties
  <1>2. /\ u \o w \in Seq(Bit) /\ Len(u \o w) = Len(u) + Len(w)
        /\ \A i \in 1..(Len(u) + Len(w)) : (u \o w)[i] = IF i <= Len(u) THEN u[i] ELSE w[i - Len(u)]
    BY ConcatProperties
  <1>3. \A i \in 1..(Len(u) + Len(w)) :
            i <= Len(b) => b[i] = IF i <= Len(u) THEN u[i] ELSE w[i - Len(u)]
    BY <1>2 DEF Fits
  <1>4. Fits(b, u)
    BY <1>1, <1>3 DEF Fits
  <1>5. ASSUME Len(u) <= Len(b) PROVE Fits(After(b, Len(u)), w)
    <2>1. Len(u) \in 0..Len(b)
      BY <1>1, <1>5
    <2>2. /\ Len(After(b, Len(u))) = Len(b) - Len(u)
          /\ \A i \in 1..(Len(b) - Len(u)) : After(b, Len(u))[i] = b[Len(u) + i]
      BY <2>1, AfterBits
    <2> SUFFICES ASSUME NEW i \in 1..Len(w), i <= Len(After(b, Len(u)))
                 PROVE  After(b, Len(u))[i] = w[i]
      BY DEF Fits
    <2>3. i \in 1..(Len(b) - Len(u))
      BY <1>1, <2>2
    <2>4. Len(u) + i \in 1..(Len(u) + Len(w)) /\ Len(u) + i <= Len(b) /\ ~(Len(u) + i <= Len(u))
          /\ (Len(u) + i) - Len(u) = i
      BY <1>1, <2>3
    <2>5. b[Len(u) + i] = w[i]
      BY <1>3, <2>4
    <2>6. QED
      BY <2>2, <2>3, <2>5
  <1>6. QED
    BY <1>2, <1>4, <1>5

(* A value and what is left after it are not the error of the reader. *)
LEMMA NotFailed == \A v, rest : <<v, rest>> # Failed
  BY DEF Failed

----------------------------------------------------------------------------
(* Parts *)

IsFixed(c) == c.kind = "fixed" /\ c.bits \in Nat \ {0} /\ c.values \subseteq Unsigned(c.bits)

IsFlags(c) == c.kind = "flags" /\ c.bits \in Nat \ {0}

IsVarint(c) == c.kind = "varint" /\ c.type \in IntegerTypes

IsBytesCodec(c) ==
    /\ c.kind = "bytes" /\ c.values \subseteq Byte
    /\ c.written \in IntegerTypes /\ c.read \in IntegerTypes
    /\ ~c.written.signed /\ ~c.read.signed
    /\ c.read.bits <= c.written.bits

IsTuple(c) == c.kind = "tuple" /\ IsFixed(c.first) /\ IsFixed(c.second)

IsPart(c) == IsFixed(c) \/ IsFlags(c) \/ IsVarint(c) \/ IsBytesCodec(c) \/ IsTuple(c)

(* A reader of w, which stands for v, on a stream that agrees with it: it fails *)
(* or gives v and what is behind w; it fails if the end of w is missing, and    *)
(* only then if it is sure.                                                     *)
Gives(result, v, b, w, sure) ==
    /\ w \in Seq(Bit)
    /\ result = Failed \/ (Len(w) <= Len(b) /\ result = <<v, After(b, Len(w))>>)
    /\ sure /\ Len(w) <= Len(b) => result # Failed

(* What was given is the value, and the bits behind it are left. *)
LEMMA GivesResult ==
    ASSUME NEW result, NEW v, NEW b, NEW w, NEW sure, Gives(result, v, b, w, sure)
    PROVE  result # Failed => /\ Len(w) <= Len(b) /\ result = <<v, After(b, Len(w))>>
                              /\ result[1] = v /\ result[2] = After(b, Len(w))
  BY DEF Gives

(* BitAligned, BitBool and enumerations are read as they were written. *)
LEMMA FixedRead ==
    ASSUME NEW c, IsFixed(c), NEW v \in c.values,
           NEW b \in Seq(Bit), Fits(b, Bits(v, c.bits))
    PROVE  /\ Gives(ReadFixed(c, b), v, b, Bits(v, c.bits), TRUE)
           /\ Len(Bits(v, c.bits)) = c.bits
  <1> DEFINE n == c.bits
             w == Bits(v, n)
  <1>1. n \in Nat /\ v \in 0..(TwoTo[n] - 1)
    BY DEF IsFixed, Unsigned
  <1>2. w \in Seq(Bit) /\ Len(w) = n /\ BitsValue(w) = v
    BY <1>1, ValueOfBits
  <1>3. Len(b) \in Nat
    BY LenProperties
  <1>4. CASE Len(b) < n
    <2>1. ReadFixed(c, b) = Failed
      BY <1>4 DEF ReadFixed
    <2> HIDE DEF w, n
    <2>2. ~(Len(w) <= Len(b))
      BY <1>1, <1>2, <1>3, <1>4
    <2>3. QED
      BY <1>2, <2>1, <2>2 DEF Gives, w, n
  <1>5. CASE ~(Len(b) < n)
    <2>1. n <= Len(b)
      BY <1>1, <1>3, <1>5
    <2>2. SubSeq(b, 1, n) = w
      BY <1>2, <2>1, PrefixOfFit
    <2>3. ReadFixed(c, b) = <<v, After(b, n)>>
      BY <1>2, <1>5, <2>2 DEF ReadFixed
    <2>4. QED
      BY <1>2, <2>1, <2>3, NotFailed DEF Gives
  <1>6. QED
    BY <1>2, <1>4, <1>5

(* A BitField is read as it was written, as it has no bits that are no flags. *)
LEMMA FlagsRead ==
    ASSUME NEW c, IsFlags(c), NEW v, HoldsPart(c, v),
           NEW b \in Seq(Bit), Fits(b, Bits(v, c.bits))
    PROVE  /\ Gives(ReadFlags(c, b), v, b, Bits(v, c.bits), TRUE)
           /\ Len(Bits(v, c.bits)) = c.bits
  <1> DEFINE n == c.bits
             w == Bits(v, n)
             kept == [i \in 1..n |-> IF i \in c.flags THEN b[i] ELSE 0]
  <1>1. /\ n \in Nat /\ v \in 0..(TwoTo[n] - 1)
        /\ \A i \in 1..n : i \in c.flags \/ w[i] = 0
    BY DEF IsFlags, HoldsPart, Unsigned
  <1>2. w \in Seq(Bit) /\ Len(w) = n /\ BitsValue(w) = v
    BY <1>1, ValueOfBits
  <1>3. Len(b) \in Nat
    BY LenProperties
  <1>4. CASE Len(b) < n
    <2>1. ReadFlags(c, b) = Failed
      BY <1>4 DEF ReadFlags
    <2> HIDE DEF w, n
    <2>2. ~(Len(w) <= Len(b))
      BY <1>1, <1>2, <1>3, <1>4
    <2>3. QED
      BY <1>2, <2>1, <2>2 DEF Gives, w, n
  <1>5. CASE ~(Len(b) < n)
    <2>1. n <= Len(b)
      BY <1>1, <1>3, <1>5
    <2>2. kept = w
      <3> HIDE DEF w
      <3>1. \A i \in 1..n : b[i] = w[i]
        BY <1>1, <1>2, <1>3, <2>1 DEF Fits, w
      <3>2. w = [i \in 1..n |-> w[i]]
        BY <1>2
      <3>3. QED
        BY <1>1, <3>1, <3>2
    <2>3. ReadFlags(c, b) = <<v, After(b, n)>>
      BY <1>2, <1>5, <2>2 DEF ReadFlags
    <2>4. QED
      BY <1>2, <2>1, <2>3, NotFailed DEF Gives
  <1>6. QED
    BY <1>2, <1>4, <1>5

(* A Varint is read as it was written or, with its sign past the type, refused. *)
LEMMA VarintRead ==
    ASSUME NEW t \in IntegerTypes, NEW r \in IntegerTypes, r.signed <=> t.signed,
           NEW v \in IntegersOf(t), v \in IntegersOf(r),
           NEW b \in Seq(Bit), Fits(b, Write(t, v))
    PROVE  /\ Gives(ReadVarint(r, b), v, b, Write(t, v), Readable(r, v))
           /\ Len(Write(t, v)) >= 8
  <1> DEFINE w == Write(t, v)
  <1>1. w \in Seq(Bit) /\ Len(w) = 8 * GroupCount(t, v) /\ GroupCount(t, v) \in 1..10
    BY WriteBits, GroupCountIs
  <1>2. Len(w) \in Nat /\ Len(b) \in Nat /\ Len(w) >= 8
    BY <1>1
  <1>3. /\ Len(b) < Len(w) => Read(r, b) = None
        /\ Len(w) <= Len(b) => /\ 8 * Taken(b) = Len(w)
                               /\ Read(r, b) \in {v, None}
                               /\ Readable(r, v) => Read(r, b) = v
    BY ReadOfWritten
  <1>4. v # None
    BY IntegersAreInt, NoneAssumption
  <1> HIDE DEF w
  <1>5. CASE Read(r, b) = None
    <2>1. ReadVarint(r, b) = Failed
      BY <1>5 DEF ReadVarint
    <2>2. ~(Readable(r, v) /\ Len(w) <= Len(b))
      BY <1>3, <1>4, <1>5
    <2>3. QED
      BY <1>1, <1>2, <2>1, <2>2 DEF Gives, w
  <1>6. CASE Read(r, b) # None
    <2>1. Len(w) <= Len(b) /\ 8 * Taken(b) = Len(w) /\ Read(r, b) = v
      BY <1>2, <1>3, <1>6
    <2>2. ReadVarint(r, b) = <<v, After(b, Len(w))>>
      BY <1>6, <2>1 DEF ReadVarint
    <2>3. QED
      BY <1>1, <1>2, <2>1, <2>2, NotFailed DEF Gives, w
  <1>7. QED
    BY <1>5, <1>6

(* Bytes *)

Octets(v) == IsVector(v) /\ \A i \in 1..Len(v) : v[i] \in Byte

(* A byte is a number of eight bits. *)
LEMMA ByteValue == \A v \in Byte : v \in 0..(TwoTo[8] - 1)
  <1>1. TwoTo[7 + 1] = 2 * TwoTo[7]
    BY TwoToStep
  <1>2. TwoTo[8] = 256
    BY <1>1, TwoToSevenIs
  <1>3. QED
    BY <1>2 DEF Byte

(* Bytes, written one after the other, eight bits each. *)
LEMMA ByteBitsAre ==
    ASSUME NEW v, Octets(v)
    PROVE  /\ Len(v) \in Nat
           /\ ByteBits(v) \in Seq(Bit) /\ Len(ByteBits(v)) = 8 * Len(v)
           /\ \A i \in 1..Len(v) : \A j \in 1..8 : ByteBits(v)[8 * i - 8 + j] = Bits(v[i], 8)[j]
  <1> DEFINE n == Len(v)
             w == ByteBits(v)
             bit(i) == Bits(v[1 + ((i - 1) \div 8)], 8)[1 + ((i - 1) % 8)]
  <1>1. n \in Nat /\ \A i \in 1..n : v[i] \in Byte
    BY DEF Octets, IsVector
  <1>2. w = [i \in 1..(8 * n) |-> bit(i)]
    BY DEF ByteBits
  <1> HIDE DEF n, w
  <1>3. ASSUME NEW i \in 1..n PROVE Bits(v[i], 8) \in Seq(Bit) /\ Len(Bits(v[i], 8)) = 8
    <2>1. v[i] \in 0..(TwoTo[8] - 1) /\ 8 \in Nat
      BY <1>1, ByteValue
    <2>2. QED
      BY <2>1, ValueOfBits
  <1>4. ASSUME NEW i \in 1..n, NEW j \in 1..8 PROVE Bits(v[i], 8)[j] \in Bit
    BY <1>3
  <1>5. \A i \in 1..(8 * n) : 1 + ((i - 1) \div 8) \in 1..n /\ 1 + ((i - 1) % 8) \in 1..8
    BY <1>1
  <1>6. \A i \in 1..(8 * n) : bit(i) \in Bit
    BY <1>4, <1>5
  <1>7. w \in Seq(Bit) /\ Len(w) = 8 * n
    <2> HIDE DEF bit
    <2>1. 8 * n \in Nat
      BY <1>1
    <2>2. QED
      BY <1>2, <1>6, <2>1
  <1>8. ASSUME NEW i \in 1..n, NEW j \in 1..8 PROVE w[8 * i - 8 + j] = Bits(v[i], 8)[j]
    <2> DEFINE k == 8 * i - 8 + j
    <2>1. k \in 1..(8 * n) /\ (k - 1) \div 8 = i - 1 /\ (k - 1) % 8 = j - 1
      BY <1>1
    <2> HIDE DEF k
    <2>2. w[k] = bit(k)
      BY <1>2, <2>1
    <2>3. 1 + ((k - 1) \div 8) = i /\ 1 + ((k - 1) % 8) = j
      BY <2>1
    <2>4. QED
      BY <2>2, <2>3 DEF k
  <1>9. QED
    BY <1>1, <1>7, <1>8 DEF n, w

(* Each byte that is there is read as it was. *)
LEMMA ByteRead ==
    ASSUME NEW v, Octets(v), NEW b \in Seq(Bit), Fits(b, ByteBits(v)),
           NEW i \in 1..Len(v), 8 * i <= Len(b)
    PROVE  BitsValue(SubSeq(b, 8 * i - 7, 8 * i)) = v[i]
  <1> DEFINE s == SubSeq(b, 8 * i - 7, 8 * i)
             d == Bits(v[i], 8)
             w == ByteBits(v)
  <1>1. /\ Len(v) \in Nat
        /\ w \in Seq(Bit) /\ Len(w) = 8 * Len(v)
        /\ \A k \in 1..Len(v) : \A j \in 1..8 : w[8 * k - 8 + j] = Bits(v[k], 8)[j]
    BY ByteBitsAre
  <1>2. Len(b) \in Nat /\ i \in Nat
    BY <1>1
  <1>3. 8 * i - 7 \in 1..Len(b) /\ 8 * i \in 1..Len(b)
    BY <1>1, <1>2
  <1>4. s \in Seq(Bit) /\ Len(s) = 8 /\ \A j \in 1..8 : s[j] = b[8 * i - 8 + j]
    BY <1>3
  <1>5. d \in Seq(Bit) /\ Len(d) = 8 /\ BitsValue(d) = v[i]
    <2>1. v[i] \in 0..(TwoTo[8] - 1) /\ 8 \in Nat
      BY ByteValue DEF Octets
    <2>2. QED
      BY <2>1, ValueOfBits
  <1>6. \A k \in 1..(8 * Len(v)) : k <= Len(b) => b[k] = w[k]
    BY <1>1 DEF Fits
  <1> HIDE DEF s, w
  <1>7. ASSUME NEW j \in 1..8 PROVE s[j] = d[j]
    <2>1. 8 * i - 8 + j \in 1..(8 * Len(v)) /\ 8 * i - 8 + j <= Len(b)
      BY <1>1, <1>2
    <2>2. b[8 * i - 8 + j] = w[8 * i - 8 + j]
      BY <1>6, <2>1
    <2>3. QED
      BY <1>1, <1>4, <2>2
  <1> HIDE DEF d
  <1>8. s = d
    BY <1>4, <1>5, <1>7, SeqEqual
  <1>9. QED
    BY <1>5, <1>8 DEF s

(* So many bytes are read as they were written. *)
LEMMA BytesRead ==
    ASSUME NEW values \in SUBSET Byte, NEW v, IsBytes(v, values),
           NEW b \in Seq(Bit), Fits(b, ByteBits(v))
    PROVE  Gives(ReadBytes(values, Len(v), b), v, b, ByteBits(v), TRUE)
  <1> DEFINE n == Len(v)
             w == ByteBits(v)
             bytes == [i \in 1..n |-> BitsValue(SubSeq(b, 8 * i - 7, 8 * i))]
  <1>1. Octets(v)
    BY DEF IsBytes, Octets
  <1>2. n \in Nat /\ w \in Seq(Bit) /\ Len(w) = 8 * n /\ Len(b) \in Nat
    BY <1>1, ByteBitsAre
  <1>3. CASE Len(b) < 8 * n
    <2>1. ReadBytes(values, n, b) = Failed
      BY <1>3 DEF ReadBytes
    <2> HIDE DEF w, n
    <2>2. ~(Len(w) <= Len(b))
      BY <1>2, <1>3
    <2>3. QED
      BY <1>2, <2>1, <2>2 DEF Gives, w, n
  <1>4. CASE ~(Len(b) < 8 * n)
    <2>1. 8 * n <= Len(b)
      BY <1>2, <1>4
    <2>2. ASSUME NEW i \in 1..n PROVE BitsValue(SubSeq(b, 8 * i - 7, 8 * i)) = v[i] /\ v[i] \in values
      <3>1. 8 * i <= Len(b)
        BY <1>2, <2>1
      <3>2. QED
        BY <1>1, <3>1, ByteRead DEF IsBytes
    <2>3. bytes = v
      <3>1. v = [i \in 1..n |-> v[i]]
        BY DEF IsBytes, IsVector
      <3> HIDE DEF n
      <3>2. QED
        BY <2>2, <3>1
    <2>4. \A i \in 1..n : bytes[i] \in values
      BY <2>2
    <2>5. ReadBytes(values, n, b) = <<v, After(b, 8 * n)>>
      BY <1>4, <2>3, <2>4 DEF ReadBytes
    <2> HIDE DEF w, n
    <2>6. QED
      BY <1>2, <2>1, <2>5, NotFailed DEF Gives, w, n
  <1>5. QED
    BY <1>3, <1>4

(* One after the other *)

(* What is given behind a part that was read is given behind both. *)
LEMMA GivesBehind ==
    ASSUME NEW b \in Seq(Bit), NEW u \in Seq(Bit), Len(u) <= Len(b),
           NEW result, NEW v, NEW w, NEW sure, Gives(result, v, After(b, Len(u)), w, sure)
    PROVE  Gives(result, v, b, u \o w, sure)
  <1> DEFINE a == After(b, Len(u))
  <1>1. Len(u) \in Nat /\ Len(b) \in Nat /\ w \in Seq(Bit) /\ Len(w) \in Nat
    BY LenProperties DEF Gives
  <1>2. Len(a) = Len(b) - Len(u)
    <2>1. Len(u) \in 0..Len(b)
      BY <1>1
    <2>2. QED
      BY <2>1, AfterBits
  <1>3. u \o w \in Seq(Bit) /\ Len(u \o w) = Len(u) + Len(w)
    BY <1>1, ConcatProperties
  <1>4. ASSUME Len(w) <= Len(a) PROVE After(a, Len(w)) = After(b, Len(u \o w))
    <2>1. Len(u) + Len(w) <= Len(b)
      BY <1>1, <1>2, <1>4
    <2>2. QED
      BY <1>1, <1>3, <2>1, AfterAfter
  <1>5. Len(w) <= Len(a) <=> Len(u \o w) <= Len(b)
    BY <1>1, <1>2, <1>3
  <1>6. /\ result = Failed \/ (Len(w) <= Len(a) /\ result = <<v, After(a, Len(w))>>)
        /\ sure /\ Len(w) <= Len(a) => result # Failed
    BY DEF Gives
  <1> HIDE DEF a
  <1>7. result = Failed \/ (Len(u \o w) <= Len(b) /\ result = <<v, After(b, Len(u \o w))>>)
    BY <1>4, <1>5, <1>6
  <1>8. sure /\ Len(u \o w) <= Len(b) => result # Failed
    BY <1>5, <1>6
  <1>9. QED
    BY <1>3, <1>7, <1>8 DEF Gives

(* A part that is refused leaves nothing for the one behind it. *)
LEMMA GivesNothing ==
    ASSUME NEW b \in Seq(Bit), NEW u, NEW x, NEW first,
           Gives(Failed, x, b, u, first), NEW w \in Seq(Bit), NEW v, NEW sure, sure => first
    PROVE  Gives(Failed, v, b, u \o w, sure)
  <1>1. u \in Seq(Bit) /\ Len(u) \in Nat /\ Len(b) \in Nat /\ Len(w) \in Nat
    BY LenProperties DEF Gives
  <1>2. u \o w \in Seq(Bit) /\ Len(u \o w) = Len(u) + Len(w)
    BY <1>1, ConcatProperties
  <1>3. ~(first /\ Len(u) <= Len(b))
    BY DEF Gives
  <1>4. ~(sure /\ Len(u \o w) <= Len(b))
    BY <1>1, <1>2, <1>3
  <1>5. QED
    BY <1>2, <1>4 DEF Gives

(* Lengths *)

(* A length is written `as` its type, as whole bytes. *)
LEMMA LengthIs ==
    ASSUME NEW t \in IntegerTypes, ~t.signed, NEW n \in Nat
    PROVE  /\ n % TwoTo[t.bits] \in IntegersOf(t)
           /\ LengthBits(t, n) \in Seq(Bit) /\ Len(LengthBits(t, n)) >= 8
           /\ Len(LengthBits(t, n)) % 8 = 0
           /\ n \in IntegersOf(t) => LengthBits(t, n) = Write(t, n)
  <1> DEFINE m == TwoTo[t.bits]
             k == n % m
  <1>1. m \in Nat /\ m > 0 /\ IntegersOf(t) = 0..(m - 1)
    <2>1. t.bits \in Nat
      BY TypeBits
    <2>2. QED
      BY <2>1, TwoToPositive DEF IntegersOf
  <1> HIDE DEF m
  <1>2. k \in 0..(m - 1) /\ (n < m => k = n)
    BY <1>1, ModRange
  <1>3. k \in IntegersOf(t)
    BY <1>1, <1>2
  <1> DEFINE w == Write(t, k)
             c == GroupCount(t, k)
  <1> HIDE DEF k
  <1>4. w \in Seq(Bit) /\ Len(w) = 8 * c /\ c \in 1..10
    BY <1>3, WriteBits, GroupCountIs
  <1>5. LengthBits(t, n) = w
    BY DEF LengthBits, m, k
  <1> HIDE DEF w, c
  <1>6. Len(w) >= 8 /\ Len(w) % 8 = 0
    BY <1>4
  <1>7. n \in IntegersOf(t) => k = n
    BY <1>1, <1>2
  <1>8. QED
    BY <1>3, <1>4, <1>5, <1>6, <1>7 DEF k, m, w

(* A length is read by a reader that holds it. *)
LEMMA LengthRead ==
    ASSUME NEW t \in IntegerTypes, NEW r \in IntegerTypes, ~t.signed, ~r.signed,
           r.bits <= t.bits, NEW n \in IntegersOf(r),
           NEW b \in Seq(Bit), Fits(b, LengthBits(t, n))
    PROVE  n \in Nat /\ Gives(ReadVarint(r, b), n, b, LengthBits(t, n), TRUE)
  <1>1. n \in Nat
    BY IntegersAreInt
  <1>2. n \in IntegersOf(t)
    <2>1. t.bits \in Nat /\ r.bits \in Nat
      BY TypeBits
    <2>2. TwoTo[r.bits] <= TwoTo[t.bits] /\ TwoTo[r.bits] \in Nat /\ TwoTo[t.bits] \in Nat
      BY <2>1, TwoToGrows, TwoToPositive
    <2>3. n < TwoTo[r.bits]
      <3>1. n \in 0..(TwoTo[r.bits] - 1)
        BY DEF IntegersOf
      <3>2. QED
        BY <3>1, <2>2
    <2>4. n \in 0..(TwoTo[t.bits] - 1)
      BY <1>1, <2>2, <2>3
    <2>5. QED
      BY <2>4 DEF IntegersOf
  <1>3. LengthBits(t, n) = Write(t, n)
    BY <1>1, <1>2, LengthIs
  <1>4. Gives(ReadVarint(r, b), n, b, Write(t, n), Readable(r, n))
    BY <1>2, <1>3, VarintRead
  <1>5. Readable(r, n) <=> TRUE
    BY DEF Readable
  <1>6. QED
    BY <1>1, <1>3, <1>4, <1>5 DEF Gives

(* `?` in the readers of two parts: an error of either is the result. *)
LEMMA ThenIs ==
    /\ \A c, b : c.kind = "bytes" =>
          ReadPart(c, b) = IF ReadVarint(c.read, b) = Failed THEN Failed
                           ELSE ReadBytes(c.values, ReadVarint(c.read, b)[1], ReadVarint(c.read, b)[2])
    /\ \A c, b : c.kind = "tuple" =>
          ReadPart(c, b) =
            LET r == ReadFixed(c.first, b)
                s == ReadFixed(c.second, r[2])
            IN  IF r = Failed \/ s = Failed THEN Failed ELSE << <<r[1], s[1]>>, s[2]>>
  <1>1. ASSUME NEW c, NEW b, c.kind = "bytes"
        PROVE  ReadPart(c, b) = IF ReadVarint(c.read, b) = Failed THEN Failed
                           ELSE ReadBytes(c.values, ReadVarint(c.read, b)[1], ReadVarint(c.read, b)[2])
    BY <1>1 DEF ReadPart, Then
  <1>2. ASSUME NEW c, NEW b, c.kind = "tuple"
        PROVE  ReadPart(c, b) =
            LET r == ReadFixed(c.first, b)
                s == ReadFixed(c.second, r[2])
            IN  IF r = Failed \/ s = Failed THEN Failed ELSE << <<r[1], s[1]>>, s[2]>>
    BY <1>2 DEF ReadPart, Then
  <1>3. QED
    BY <1>1, <1>2

(* The reader of each kind of part. *)
LEMMA PartIs ==
    ASSUME NEW c, NEW b
    PROVE  /\ c.kind = "fixed" => ReadPart(c, b) = ReadFixed(c, b)
           /\ c.kind = "flags" => ReadPart(c, b) = ReadFlags(c, b)
           /\ c.kind = "varint" => ReadPart(c, b) = ReadVarint(c.type, b)
  BY DEF ReadPart

(* The writer of each kind of part. *)
LEMMA PartBits ==
    ASSUME NEW c, NEW v
    PROVE  /\ c.kind = "fixed" => WritePart(c, v) = Bits(v, c.bits)
           /\ c.kind = "flags" => WritePart(c, v) = Bits(v, c.bits)
           /\ c.kind = "varint" => WritePart(c, v) = Write(c.type, v)
           /\ c.kind = "bytes" => WritePart(c, v) = LengthBits(c.written, Len(v)) \o ByteBits(v)
           /\ c.kind = "tuple" =>
                 WritePart(c, v) = Bits(v[1], c.first.bits) \o Bits(v[2], c.second.bits)
  BY DEF WritePart

(* What a reader gives of any stream: something of which T is known, and a rest. *)
Leaves(result, b) ==
    result = Failed \/ (result = <<result[1], result[2]>> /\ result[2] \in Seq(Bit)
                           /\ Len(result[2]) <= Len(b))

(* A value of the codec, whatever the bits: from_bits of enumerations refuses the others. *)
LEMMA FixedTyped ==
    ASSUME NEW c, IsFixed(c), NEW b \in Seq(Bit), ReadFixed(c, b) # Failed
    PROVE  Leaves(ReadFixed(c, b), b) /\ ReadFixed(c, b)[1] \in c.values
  <1> DEFINE v == BitsValue(SubSeq(b, 1, c.bits))
  <1>1. c.bits \in Nat /\ Len(b) \in Nat
    BY LenProperties DEF IsFixed
  <1>2. ~(Len(b) < c.bits) /\ v \in c.values /\ ReadFixed(c, b) = <<v, After(b, c.bits)>>
    BY DEF ReadFixed
  <1>3. c.bits \in 0..Len(b)
    BY <1>1, <1>2
  <1>4. After(b, c.bits) \in Seq(Bit) /\ Len(After(b, c.bits)) = Len(b) - c.bits
    BY <1>3, AfterBits
  <1>5. Len(After(b, c.bits)) <= Len(b)
    BY <1>1, <1>4
  <1>6. QED
    BY <1>2, <1>4, <1>5 DEF Leaves

(* Only flags are kept of a BitField (from_bits_truncate). *)
LEMMA FlagsTyped ==
    ASSUME NEW c, IsFlags(c), NEW b \in Seq(Bit), ReadFlags(c, b) # Failed
    PROVE  Leaves(ReadFlags(c, b), b) /\ HoldsPart(c, ReadFlags(c, b)[1])
  <1> DEFINE n == c.bits
             kept == [i \in 1..n |-> IF i \in c.flags THEN b[i] ELSE 0]
             v == BitsValue(kept)
  <1>1. n \in Nat /\ Len(b) \in Nat
    BY LenProperties DEF IsFlags
  <1>2. ~(Len(b) < n) /\ ReadFlags(c, b) = <<v, After(b, n)>>
    BY DEF ReadFlags
  <1>3. n \in 0..Len(b)
    BY <1>1, <1>2
  <1>4. After(b, n) \in Seq(Bit) /\ Len(After(b, n)) = Len(b) - n
    BY <1>3, AfterBits
  <1>5. Len(After(b, n)) <= Len(b)
    BY <1>1, <1>4
  <1>6. kept \in Seq(Bit) /\ Len(kept) = n /\ \A i \in 1..n : i \in c.flags \/ kept[i] = 0
    <2>1. \A i \in 1..n : b[i] \in Bit
      <3>1. \A i \in 1..n : i \in 1..Len(b)
        BY <1>3
      <3>2. QED
        BY <3>1, ElementOfSeq
    <2>2. 0 \in Bit
      BY DEF Bit
    <2>3. kept \in [1..n -> Bit]
      BY <2>1, <2>2
    <2> HIDE DEF n
    <2>4. kept \in Seq(Bit) /\ Len(kept) = n
      BY <1>1, <2>3
    <2>5. QED
      BY <2>4
  <1> HIDE DEF kept
  <1>7. v \in 0..(TwoTo[n] - 1) /\ Bits(v, n) = kept
    BY <1>6, BitsOfValue
  <1>8. HoldsPart(c, v)
    BY <1>6, <1>7 DEF HoldsPart, Unsigned, IsFlags
  <1>9. QED
    BY <1>2, <1>4, <1>5, <1>8 DEF Leaves

(* A Varint that is read is a number of its type. *)
LEMMA VarintTyped ==
    ASSUME NEW t, NEW b \in Seq(Bit), ReadVarint(t, b) # Failed
    PROVE  Leaves(ReadVarint(t, b), b) /\ ReadVarint(t, b)[1] \in IntegersOf(t)
  <1> DEFINE v == Read(t, b)
             n == 8 * Taken(b)
             ends == {k \in 1..MaxGroups : 8 * k <= Len(b) /\ b[8 * k] = 0}
  <1>1. v # None /\ ReadVarint(t, b) = <<v, After(b, n)>>
    BY DEF ReadVarint
  <1>2. v \in IntegersOf(t) /\ Taken(b) # 0
    BY <1>1 DEF Read
  <1>3. ends # {} /\ Taken(b) = Min(ends)
    BY <1>2 DEF Taken
  <1>4. Taken(b) \in ends
    <2>1. ends \in SUBSET Nat
      BY DEF MaxGroups
    <2> HIDE DEF ends
    <2>2. QED
      BY <1>3, <2>1, MinIn
  <1>5. Taken(b) \in Nat /\ 8 * Taken(b) <= Len(b) /\ Len(b) \in Nat
    BY <1>4, LenProperties DEF MaxGroups
  <1>6. n \in 0..Len(b)
    BY <1>5
  <1>7. After(b, n) \in Seq(Bit) /\ Len(After(b, n)) = Len(b) - n
    BY <1>6, AfterBits
  <1>8. Len(After(b, n)) <= Len(b)
    BY <1>5, <1>7
  <1>9. QED
    BY <1>1, <1>2, <1>7, <1>8 DEF Leaves

(* As many bytes as the length says, each of them allowed (from_utf8). *)
LEMMA BytesTyped ==
    ASSUME NEW values, NEW n \in Nat, NEW b \in Seq(Bit), ReadBytes(values, n, b) # Failed
    PROVE  /\ Leaves(ReadBytes(values, n, b), b) /\ IsBytes(ReadBytes(values, n, b)[1], values)
           /\ Len(ReadBytes(values, n, b)[1]) = n
  <1> DEFINE bytes == [i \in 1..n |-> BitsValue(SubSeq(b, 8 * i - 7, 8 * i))]
  <1>1. /\ ~(Len(b) < 8 * n) /\ (\A i \in 1..n : bytes[i] \in values)
        /\ ReadBytes(values, n, b) = <<bytes, After(b, 8 * n)>>
    BY DEF ReadBytes
  <1>2. 8 * n \in 0..Len(b) /\ Len(b) \in Nat
    BY <1>1, LenProperties
  <1>3. After(b, 8 * n) \in Seq(Bit) /\ Len(After(b, 8 * n)) = Len(b) - 8 * n
    BY <1>2, AfterBits
  <1>4. Len(After(b, 8 * n)) <= Len(b)
    BY <1>2, <1>3
  <1>5. Len(bytes) = n
    OBVIOUS
  <1>6. IsBytes(bytes, values)
    <2>1. bytes = [i \in 1..n |-> bytes[i]]
      OBVIOUS
    <2> HIDE DEF bytes
    <2>2. QED
      BY <1>1, <1>5, <2>1 DEF IsBytes, IsVector
  <1>7. QED
    BY <1>1, <1>3, <1>4, <1>5, <1>6 DEF Leaves

(* A part that is read is of its type, with lengths that the reader takes. *)
LEMMA PartTyped ==
    ASSUME NEW c, IsPart(c), NEW b \in Seq(Bit), ReadPart(c, b) # Failed
    PROVE  /\ Leaves(ReadPart(c, b), b) /\ HoldsPart(c, ReadPart(c, b)[1])
           /\ PartFits(c, ReadPart(c, b)[1])
  <1>1. CASE IsFixed(c)
    <2>1. c.kind = "fixed" /\ ReadPart(c, b) = ReadFixed(c, b)
      BY <1>1, PartIs DEF IsFixed
    <2>2. Leaves(ReadFixed(c, b), b) /\ ReadFixed(c, b)[1] \in c.values
      BY <1>1, <2>1, FixedTyped
    <2>3. QED
      BY <2>1, <2>2 DEF HoldsPart, PartFits
  <1>2. CASE IsFlags(c)
    <2>1. c.kind = "flags" /\ ReadPart(c, b) = ReadFlags(c, b)
      BY <1>2, PartIs DEF IsFlags
    <2>2. QED
      BY <1>2, <2>1, FlagsTyped DEF PartFits
  <1>3. CASE IsVarint(c)
    <2>1. c.kind = "varint" /\ ReadPart(c, b) = ReadVarint(c.type, b)
      BY <1>3, PartIs DEF IsVarint
    <2>2. Leaves(ReadVarint(c.type, b), b) /\ ReadVarint(c.type, b)[1] \in IntegersOf(c.type)
      BY <2>1, VarintTyped
    <2>3. QED
      BY <2>1, <2>2 DEF HoldsPart, PartFits
  <1>4. CASE IsBytesCodec(c)
    <2> DEFINE r == ReadVarint(c.read, b)
               n == r[1]
               rest == r[2]
               s == ReadBytes(c.values, n, rest)
    <2>1. /\ c.kind = "bytes" /\ c.read \in IntegerTypes /\ ~c.read.signed
          /\ ReadPart(c, b) = IF r = Failed THEN Failed ELSE s
      BY <1>4, ThenIs DEF IsBytesCodec
    <2>2. r # Failed /\ ReadPart(c, b) = s /\ s # Failed
      BY <2>1
    <2>3. Leaves(r, b) /\ n \in IntegersOf(c.read)
      BY <2>2, VarintTyped
    <2>4. n \in Nat /\ rest \in Seq(Bit) /\ Len(rest) <= Len(b)
      BY <2>1, <2>2, <2>3, IntegersAreInt DEF Leaves
    <2> HIDE DEF r, n, rest
    <2>5. Leaves(s, rest) /\ IsBytes(s[1], c.values) /\ Len(s[1]) = n
      BY <2>2, <2>4, BytesTyped
    <2> HIDE DEF s
    <2>6. Leaves(s, b)
      <3>1. s = <<s[1], s[2]>> /\ s[2] \in Seq(Bit) /\ Len(s[2]) <= Len(rest)
        BY <2>2, <2>5 DEF Leaves
      <3>2. Len(s[2]) <= Len(b)
        BY <2>4, <3>1, LenProperties
      <3>3. QED
        BY <3>1, <3>2 DEF Leaves
    <2>7. HoldsPart(c, s[1]) /\ PartFits(c, s[1])
      BY <2>1, <2>3, <2>5 DEF HoldsPart, PartFits
    <2>8. QED
      BY <2>2, <2>6, <2>7
  <1>5. CASE IsTuple(c)
    <2> DEFINE r == ReadFixed(c.first, b)
               s == ReadFixed(c.second, r[2])
    <2>1. /\ c.kind = "tuple" /\ IsFixed(c.first) /\ IsFixed(c.second)
          /\ ReadPart(c, b) = IF r = Failed \/ s = Failed THEN Failed ELSE << <<r[1], s[1]>>, s[2]>>
      BY <1>5, ThenIs DEF IsTuple
    <2>2. r # Failed /\ s # Failed /\ ReadPart(c, b) = << <<r[1], s[1]>>, s[2]>>
      BY <2>1
    <2>3. Leaves(r, b) /\ r[1] \in c.first.values
      BY <2>1, <2>2, FixedTyped
    <2>4. r[2] \in Seq(Bit) /\ Len(r[2]) <= Len(b)
      BY <2>2, <2>3 DEF Leaves
    <2> HIDE DEF r
    <2>5. Leaves(s, r[2]) /\ s[1] \in c.second.values
      BY <2>1, <2>2, <2>4, FixedTyped
    <2> HIDE DEF s
    <2>6. s[2] \in Seq(Bit) /\ Len(s[2]) <= Len(b)
      <3>1. s[2] \in Seq(Bit) /\ Len(s[2]) <= Len(r[2])
        BY <2>2, <2>5 DEF Leaves
      <3>2. QED
        BY <2>4, <3>1, LenProperties
    <2>7. HoldsPart(c, <<r[1], s[1]>>) /\ PartFits(c, <<r[1], s[1]>>)
      BY <2>1, <2>3, <2>5 DEF HoldsPart, PartFits
    <2>8. QED
      BY <2>2, <2>6, <2>7 DEF Leaves
  <1>6. QED
    BY <1>1, <1>2, <1>3, <1>4, <1>5 DEF IsPart

(* What is written of a part: bits, one at least. *)
LEMMA PartWritten ==
    ASSUME NEW c, IsPart(c), NEW v, HoldsPart(c, v)
    PROVE  WritePart(c, v) \in Seq(Bit) /\ Len(WritePart(c, v)) >= 1
  <1>0. ASSUME NEW f, IsFixed(f), NEW x \in f.values
        PROVE  Bits(x, f.bits) \in Seq(Bit) /\ Len(Bits(x, f.bits)) = f.bits /\ f.bits >= 1
    <2>1. f.bits \in Nat /\ f.bits >= 1 /\ x \in 0..(TwoTo[f.bits] - 1)
      BY <1>0 DEF IsFixed, Unsigned
    <2>2. QED
      BY <2>1, ValueOfBits
  <1>1. CASE IsFixed(c)
    <2>1. c.kind = "fixed" /\ v \in c.values /\ WritePart(c, v) = Bits(v, c.bits)
      BY <1>1, PartBits DEF IsFixed, HoldsPart
    <2>2. QED
      BY <1>0, <1>1, <2>1
  <1>2. CASE IsFlags(c)
    <2>1. c.kind = "flags" /\ WritePart(c, v) = Bits(v, c.bits)
      BY <1>2, PartBits DEF IsFlags
    <2>2. c.bits \in Nat /\ c.bits >= 1 /\ v \in 0..(TwoTo[c.bits] - 1)
      BY <1>2 DEF IsFlags, HoldsPart, Unsigned
    <2>3. Bits(v, c.bits) \in Seq(Bit) /\ Len(Bits(v, c.bits)) = c.bits
      BY <2>2, ValueOfBits
    <2>4. QED
      BY <2>1, <2>2, <2>3
  <1>3. CASE IsVarint(c)
    <2>1. c.kind = "varint" /\ c.type \in IntegerTypes /\ WritePart(c, v) = Write(c.type, v)
          /\ v \in IntegersOf(c.type)
      BY <1>3, PartBits DEF IsVarint, HoldsPart
    <2>2. Write(c.type, v) \in Seq(Bit) /\ Len(Write(c.type, v)) = 8 * GroupCount(c.type, v)
          /\ GroupCount(c.type, v) \in 1..10
      BY <2>1, WriteBits, GroupCountIs
    <2>3. QED
      BY <2>1, <2>2
  <1>4. CASE IsBytesCodec(c)
    <2> DEFINE u == LengthBits(c.written, Len(v))
               w == ByteBits(v)
    <2>1. c.kind = "bytes" /\ WritePart(c, v) = u \o w
      BY <1>4, PartBits DEF IsBytesCodec
    <2>2. Octets(v)
      BY <1>4, <2>1 DEF HoldsPart, IsBytes, Octets, IsBytesCodec
    <2>3. Len(v) \in Nat /\ w \in Seq(Bit)
      BY <2>2, ByteBitsAre
    <2>4. u \in Seq(Bit) /\ Len(u) >= 8
      BY <1>4, <2>3, LengthIs DEF IsBytesCodec
    <2> HIDE DEF u, w
    <2>5. u \o w \in Seq(Bit) /\ Len(u \o w) = Len(u) + Len(w) /\ Len(w) \in Nat /\ Len(u) \in Nat
      BY <2>3, <2>4, ConcatProperties, LenProperties
    <2>6. QED
      BY <2>1, <2>4, <2>5
  <1>5. CASE IsTuple(c)
    <2> DEFINE u == Bits(v[1], c.first.bits)
               w == Bits(v[2], c.second.bits)
    <2>1. c.kind = "tuple" /\ WritePart(c, v) = u \o w
      BY <1>5, PartBits DEF IsTuple
    <2>2. v[1] \in c.first.values /\ v[2] \in c.second.values
      BY <2>1 DEF HoldsPart
    <2>3. u \in Seq(Bit) /\ Len(u) >= 1
      BY <1>0, <1>5, <2>2 DEF IsTuple
    <2>4. w \in Seq(Bit)
      BY <1>0, <1>5, <2>2 DEF IsTuple
    <2> HIDE DEF u, w
    <2>5. u \o w \in Seq(Bit) /\ Len(u \o w) = Len(u) + Len(w) /\ Len(w) \in Nat /\ Len(u) \in Nat
      BY <2>3, <2>4, ConcatProperties, LenProperties
    <2>6. QED
      BY <2>1, <2>3, <2>5
  <1>6. QED
    BY <1>1, <1>2, <1>3, <1>4, <1>5 DEF IsPart

(* All of a part's integers can be read again. *)
Sure(c, v) == c.kind = "varint" => Readable(c.type, v)

(* VarBytes and VarString: a length that the reader takes and the bytes behind it. *)
LEMMA BytesPartRead ==
    ASSUME NEW c, IsBytesCodec(c), NEW v, IsBytes(v, c.values), Len(v) \in IntegersOf(c.read),
           NEW b \in Seq(Bit), Fits(b, WritePart(c, v))
    PROVE  Gives(ReadPart(c, b), v, b, WritePart(c, v), TRUE)
  <1> DEFINE u == LengthBits(c.written, Len(v))
             w == ByteBits(v)
             r == ReadVarint(c.read, b)
             n == Len(v)
  <1>1. /\ c.written \in IntegerTypes /\ c.read \in IntegerTypes
        /\ ~c.written.signed /\ ~c.read.signed /\ c.read.bits <= c.written.bits
        /\ c.values \in SUBSET Byte
    BY DEF IsBytesCodec
  <1>2. WritePart(c, v) = u \o w
    BY PartBits DEF IsBytesCodec
  <1>3. ReadPart(c, b) = IF r = Failed THEN Failed ELSE ReadBytes(c.values, r[1], r[2])
    BY ThenIs DEF IsBytesCodec
  <1>4. Octets(v)
    BY DEF IsBytes, Octets, IsBytesCodec
  <1>5. n \in Nat /\ w \in Seq(Bit)
    BY <1>4, ByteBitsAre
  <1>6. u \in Seq(Bit)
    BY <1>1, <1>5, LengthIs
  <1> HIDE DEF u, w
  <1>7. Fits(b, u) /\ (Len(u) <= Len(b) => Fits(After(b, Len(u)), w))
    BY <1>2, <1>5, <1>6, FitsParts
  <1> HIDE DEF n
  <1>8. Gives(r, n, b, u, TRUE)
    BY <1>1, <1>7, LengthRead DEF n, u
  <1> HIDE DEF r
  <1>9. CASE r = Failed
    <2>1. Gives(Failed, v, b, u \o w, TRUE)
      BY <1>5, <1>8, <1>9, GivesNothing
    <2>2. QED
      BY <1>2, <1>3, <1>9, <2>1
  <1>10. CASE r # Failed
    <2>1. Len(u) <= Len(b) /\ r[1] = n /\ r[2] = After(b, Len(u))
      BY <1>8, <1>10, GivesResult
    <2>2. After(b, Len(u)) \in Seq(Bit)
      BY <1>6, <2>1, AfterBits, LenProperties
    <2>3. Gives(ReadBytes(c.values, n, After(b, Len(u))), v, After(b, Len(u)), w, TRUE)
      BY <1>1, <1>7, <2>1, <2>2, BytesRead DEF n, w
    <2>4. Gives(ReadBytes(c.values, n, After(b, Len(u))), v, b, u \o w, TRUE)
      BY <1>6, <2>1, <2>3, GivesBehind
    <2>5. QED
      BY <1>2, <1>3, <1>10, <2>1, <2>4
  <1>11. QED
    BY <1>9, <1>10

(* A tuple, one part after the other. *)
LEMMA TupleRead ==
    ASSUME NEW c, IsTuple(c), NEW v, HoldsPart(c, v),
           NEW b \in Seq(Bit), Fits(b, WritePart(c, v))
    PROVE  Gives(ReadPart(c, b), v, b, WritePart(c, v), TRUE)
  <1> DEFINE u == Bits(v[1], c.first.bits)
             w == Bits(v[2], c.second.bits)
             r == ReadFixed(c.first, b)
             s == ReadFixed(c.second, r[2])
  <1>1. IsFixed(c.first) /\ IsFixed(c.second) /\ c.kind = "tuple"
    BY DEF IsTuple
  <1>2. WritePart(c, v) = u \o w
    BY <1>1, PartBits
  <1>3. ReadPart(c, b) = IF r = Failed \/ s = Failed THEN Failed ELSE << <<r[1], s[1]>>, s[2]>>
    BY <1>1, ThenIs
  <1>4. v[1] \in c.first.values /\ v[2] \in c.second.values /\ v = <<v[1], v[2]>>
    BY <1>1 DEF HoldsPart
  <1>5. u \in Seq(Bit) /\ w \in Seq(Bit)
    <2>1. ASSUME NEW f, IsFixed(f), NEW x \in f.values PROVE Bits(x, f.bits) \in Seq(Bit)
      <3>1. f.bits \in Nat /\ x \in 0..(TwoTo[f.bits] - 1)
        BY <2>1 DEF IsFixed, Unsigned
      <3>2. QED
        BY <3>1, ValueOfBits
    <2>2. QED
      BY <1>1, <1>4, <2>1
  <1> HIDE DEF u, w
  <1>6. Fits(b, u) /\ (Len(u) <= Len(b) => Fits(After(b, Len(u)), w))
    BY <1>2, <1>5, FitsParts
  <1>7. Gives(r, v[1], b, u, TRUE)
    BY <1>1, <1>4, <1>6, FixedRead DEF u
  <1> HIDE DEF r
  <1>8. CASE r = Failed
    <2>1. Gives(Failed, v, b, u \o w, TRUE)
      BY <1>5, <1>7, <1>8, GivesNothing
    <2>2. QED
      BY <1>2, <1>3, <1>8, <2>1
  <1>9. CASE r # Failed
    <2> DEFINE a == After(b, Len(u))
    <2>1. Len(u) <= Len(b) /\ r[1] = v[1] /\ r[2] = a
      <3>1. Len(u) <= Len(b) /\ r = <<v[1], After(b, Len(u))>>
        BY <1>7, <1>9 DEF Gives
      <3>2. QED
        BY <3>1
    <2>2. a \in Seq(Bit)
      BY <1>5, <2>1, AfterBits, LenProperties
    <2>3. Gives(s, v[2], a, w, TRUE)
      BY <1>1, <1>4, <1>6, <2>1, <2>2, FixedRead DEF w
    <2> HIDE DEF a, s
    <2>4. ReadPart(c, b) = IF s = Failed THEN Failed ELSE <<v, s[2]>>
      <3>1. ReadPart(c, b) = IF s = Failed THEN Failed ELSE << <<v[1], s[1]>>, s[2]>>
        BY <1>3, <1>9, <2>1
      <3>2. s # Failed => s[1] = v[2]
        BY <2>3, GivesResult
      <3>3. QED
        BY <1>4, <3>1, <3>2
    <2>5. Gives(ReadPart(c, b), v, a, w, TRUE)
      <3>1. CASE s = Failed
        BY <2>3, <2>4, <3>1 DEF Gives
      <3>2. CASE s # Failed
        <4>1. Len(w) <= Len(a) /\ s[2] = After(a, Len(w))
          BY <2>3, <3>2, GivesResult
        <4>3. ReadPart(c, b) = <<v, After(a, Len(w))>>
          BY <2>4, <3>2, <4>1
        <4>2. QED
          BY <1>5, <4>1, <4>3, NotFailed DEF Gives
      <3>3. QED
        BY <3>1, <3>2
    <2>6. Gives(ReadPart(c, b), v, b, u \o w, TRUE)
      BY <1>5, <2>1, <2>5, GivesBehind DEF a
    <2>7. QED
      BY <1>2, <2>6
  <1>10. QED
    BY <1>8, <1>9

(* A part is read as what was written. *)
LEMMA PartRead ==
    ASSUME NEW c, IsPart(c), NEW v, HoldsPart(c, v), PartFits(c, v),
           NEW b \in Seq(Bit), Fits(b, WritePart(c, v))
    PROVE  Gives(ReadPart(c, b), v, b, WritePart(c, v), Sure(c, v))
  <1>1. CASE IsFixed(c)
    <2>1. c.kind = "fixed" /\ ReadPart(c, b) = ReadFixed(c, b) /\ WritePart(c, v) = Bits(v, c.bits)
          /\ v \in c.values
      BY <1>1, PartIs, PartBits DEF IsFixed, HoldsPart
    <2>2. Gives(ReadFixed(c, b), v, b, Bits(v, c.bits), TRUE)
      BY <1>1, <2>1, FixedRead
    <2>3. QED
      BY <2>1, <2>2 DEF Gives
  <1>2. CASE IsFlags(c)
    <2>1. c.kind = "flags" /\ ReadPart(c, b) = ReadFlags(c, b) /\ WritePart(c, v) = Bits(v, c.bits)
      BY <1>2, PartIs, PartBits DEF IsFlags
    <2>2. Gives(ReadFlags(c, b), v, b, Bits(v, c.bits), TRUE)
      BY <1>2, <2>1, FlagsRead
    <2>3. QED
      BY <2>1, <2>2 DEF Gives
  <1>3. CASE IsVarint(c)
    <2>1. /\ c.kind = "varint" /\ ReadPart(c, b) = ReadVarint(c.type, b)
          /\ WritePart(c, v) = Write(c.type, v) /\ v \in IntegersOf(c.type) /\ c.type \in IntegerTypes
      BY <1>3, PartIs, PartBits DEF IsVarint, HoldsPart
    <2>2. Gives(ReadVarint(c.type, b), v, b, Write(c.type, v), Readable(c.type, v))
      BY <2>1, VarintRead
    <2>3. QED
      BY <2>1, <2>2 DEF Gives, Sure
  <1>4. CASE IsBytesCodec(c)
    <2>1. Gives(ReadPart(c, b), v, b, WritePart(c, v), TRUE)
      BY <1>4, BytesPartRead DEF IsBytesCodec, HoldsPart, PartFits
    <2>2. QED
      BY <2>1 DEF Gives
  <1>5. CASE IsTuple(c)
    <2>1. Gives(ReadPart(c, b), v, b, WritePart(c, v), TRUE)
      BY <1>5, TupleRead
    <2>2. QED
      BY <2>1 DEF Gives
  <1>6. QED
    BY <1>1, <1>2, <1>3, <1>4, <1>5 DEF IsPart

IsWriting(f, c, v, n) ==
    f = [i \in 0..n |-> IF i = 0 THEN <<>> ELSE f[i - 1] \o WritePart(c, v[i])]

Writing(c, v, n) == CHOOSE f : IsWriting(f, c, v, n)

(* The recursion by which a Vec is written. *)
LEMMA ManyWritten ==
    ASSUME NEW c, NEW v, NEW n \in Nat, Len(v) = n
    PROVE  LET f == Writing(c, v, n)
           IN  /\ f[0] = <<>>
               /\ \A i \in 1..n : f[i] = f[i - 1] \o WritePart(c, v[i])
               /\ WriteMany(c, v) = f[n]
  <1> DEFINE S == {m \in Nat : \E f : IsWriting(f, c, v, m)}
  <1>1. 0 \in S
    <2>1. IsWriting([i \in 0..0 |-> <<>>], c, v, 0)
      BY DEF IsWriting
    <2>2. QED
      BY <2>1
  <1>2. ASSUME NEW m \in Nat, m \in S
        PROVE  m + 1 \in S
    <2>1. PICK f : IsWriting(f, c, v, m)
      BY <1>2
    <2> DEFINE g == [i \in 0..(m + 1) |-> IF i <= m THEN f[i] ELSE f[m] \o WritePart(c, v[m + 1])]
    <2>2. \A i \in 0..(m + 1) : g[i] = IF i = 0 THEN <<>> ELSE g[i - 1] \o WritePart(c, v[i])
      BY <2>1 DEF IsWriting
    <2>3. IsWriting(g, c, v, m + 1)
      BY <2>2 DEF IsWriting
    <2> HIDE DEF g
    <2>4. QED
      BY <2>3
  <1>3. n \in S
    <2> HIDE DEF S
    <2>1. QED
      BY <1>1, <1>2, Induction
  <1> DEFINE f == Writing(c, v, n)
  <1>4. IsWriting(f, c, v, n)
    BY <1>3 DEF Writing
  <1>5. WriteMany(c, v) = f[n]
    BY DEF WriteMany, Writing, IsWriting
  <1> HIDE DEF f
  <1>6. f[0] = <<>>
    BY <1>4 DEF IsWriting
  <1>7. ASSUME NEW i \in 1..n PROVE f[i] = f[i - 1] \o WritePart(c, v[i])
    <2>1. i \in 0..n /\ i # 0
      OBVIOUS
    <2>2. QED
      BY <1>4, <2>1 DEF IsWriting
  <1>8. QED
    BY <1>5, <1>6, <1>7 DEF f

NothingRead(b) == << <<>>, b>>

ReadNext(c, result) ==
    IF result = Failed THEN Failed
    ELSE LET next == ReadPart(c, result[2])
         IN  IF next = Failed THEN Failed ELSE <<Append(result[1], next[1]), next[2]>>

IsReading(f, c, b, n) ==
    f = [i \in 0..n |-> IF i = 0 THEN NothingRead(b) ELSE ReadNext(c, f[i - 1])]

Reading(c, b, n) == CHOOSE f : IsReading(f, c, b, n)

(* The recursion by which it is read, with the check of the count before it. *)
LEMMA ManyReadSteps ==
    ASSUME NEW c, NEW b, NEW n \in Nat
    PROVE  LET f == Reading(c, b, n)
           IN  /\ f[0] = NothingRead(b)
               /\ \A i \in 1..n : f[i] = ReadNext(c, f[i - 1])
               /\ ReadMany(c, n, b) = IF n > Len(b) THEN Failed ELSE f[n]
  <1> DEFINE S == {m \in Nat : \E f : IsReading(f, c, b, m)}
  <1>1. 0 \in S
    <2>1. IsReading([i \in 0..0 |-> NothingRead(b)], c, b, 0)
      BY DEF IsReading
    <2>2. QED
      BY <2>1
  <1>2. ASSUME NEW m \in Nat, m \in S
        PROVE  m + 1 \in S
    <2>1. PICK f : IsReading(f, c, b, m)
      BY <1>2
    <2> DEFINE g == [i \in 0..(m + 1) |-> IF i <= m THEN f[i] ELSE ReadNext(c, f[m])]
    <2>2. \A i \in 0..(m + 1) : g[i] = IF i = 0 THEN NothingRead(b) ELSE ReadNext(c, g[i - 1])
      BY <2>1 DEF IsReading
    <2>3. IsReading(g, c, b, m + 1)
      BY <2>2 DEF IsReading
    <2> HIDE DEF g
    <2>4. QED
      BY <2>3
  <1>3. n \in S
    <2> HIDE DEF S
    <2>1. QED
      BY <1>1, <1>2, Induction
  <1> DEFINE f == Reading(c, b, n)
  <1>4. IsReading(f, c, b, n)
    BY <1>3 DEF Reading
  <1>5. ReadMany(c, n, b) = IF n > Len(b) THEN Failed ELSE f[n]
    BY DEF ReadMany, ReadNext, Then, NothingRead, Reading, IsReading
  <1> HIDE DEF f
  <1>6. f[0] = NothingRead(b)
    BY <1>4 DEF IsReading
  <1>7. ASSUME NEW i \in 1..n PROVE f[i] = ReadNext(c, f[i - 1])
    <2>1. i \in 0..n /\ i # 0
      OBVIOUS
    <2>2. QED
      BY <1>4, <2>1 DEF IsReading
  <1>8. QED
    BY <1>5, <1>6, <1>7 DEF f

AreWriting(f, L, p, n) ==
    f = [i \in 0..n |-> IF i = 0 THEN <<>> ELSE f[i - 1] \o WriteField(L[i], p)]

FieldsWriting(L, p, n) == CHOOSE f : AreWriting(f, L, p, n)

(* The recursion by which the fields of a packet are written. *)
LEMMA FieldsWritten ==
    ASSUME NEW L, NEW p, NEW n \in Nat, Len(L) = n
    PROVE  LET f == FieldsWriting(L, p, n)
           IN  /\ f[0] = <<>>
               /\ \A i \in 1..n : f[i] = f[i - 1] \o WriteField(L[i], p)
               /\ WriteFields(L, p) = f[n]
  <1> DEFINE S == {m \in Nat : \E f : AreWriting(f, L, p, m)}
  <1>1. 0 \in S
    <2>1. AreWriting([i \in 0..0 |-> <<>>], L, p, 0)
      BY DEF AreWriting
    <2>2. QED
      BY <2>1
  <1>2. ASSUME NEW m \in Nat, m \in S
        PROVE  m + 1 \in S
    <2>1. PICK f : AreWriting(f, L, p, m)
      BY <1>2
    <2> DEFINE g == [i \in 0..(m + 1) |-> IF i <= m THEN f[i] ELSE f[m] \o WriteField(L[m + 1], p)]
    <2>2. \A i \in 0..(m + 1) : g[i] = IF i = 0 THEN <<>> ELSE g[i - 1] \o WriteField(L[i], p)
      BY <2>1 DEF AreWriting
    <2>3. AreWriting(g, L, p, m + 1)
      BY <2>2 DEF AreWriting
    <2> HIDE DEF g
    <2>4. QED
      BY <2>3
  <1>3. n \in S
    <2> HIDE DEF S
    <2>1. QED
      BY <1>1, <1>2, Induction
  <1> DEFINE f == FieldsWriting(L, p, n)
  <1>4. AreWriting(f, L, p, n)
    BY <1>3 DEF FieldsWriting
  <1>5. WriteFields(L, p) = f[n]
    BY DEF WriteFields, FieldsWriting, AreWriting
  <1> HIDE DEF f
  <1>6. f[0] = <<>>
    BY <1>4 DEF AreWriting
  <1>7. ASSUME NEW i \in 1..n PROVE f[i] = f[i - 1] \o WriteField(L[i], p)
    <2>1. i \in 0..n /\ i # 0
      OBVIOUS
    <2>2. QED
      BY <1>4, <2>1 DEF AreWriting
  <1>8. QED
    BY <1>5, <1>6, <1>7 DEF f

NoFieldRead(b) == << [x \in {} |-> None], b>>

NextField(field, result) ==
    IF result = Failed THEN Failed ELSE ReadField(field, result[1], result[2])

AreReading(f, L, b, n) ==
    f = [i \in 0..n |-> IF i = 0 THEN NoFieldRead(b) ELSE NextField(L[i], f[i - 1])]

FieldsReading(L, b, n) == CHOOSE f : AreReading(f, L, b, n)

(* The recursion by which they are read. *)
LEMMA FieldsReadSteps ==
    ASSUME NEW L, NEW b, NEW n \in Nat, Len(L) = n
    PROVE  LET f == FieldsReading(L, b, n)
           IN  /\ f[0] = NoFieldRead(b)
               /\ \A i \in 1..n : f[i] = NextField(L[i], f[i - 1])
               /\ ReadFields(L, b) = f[n]
  <1> DEFINE S == {m \in Nat : \E f : AreReading(f, L, b, m)}
  <1>1. 0 \in S
    <2>1. AreReading([i \in 0..0 |-> NoFieldRead(b)], L, b, 0)
      BY DEF AreReading
    <2>2. QED
      BY <2>1
  <1>2. ASSUME NEW m \in Nat, m \in S
        PROVE  m + 1 \in S
    <2>1. PICK f : AreReading(f, L, b, m)
      BY <1>2
    <2> DEFINE g == [i \in 0..(m + 1) |-> IF i <= m THEN f[i] ELSE NextField(L[m + 1], f[m])]
    <2>2. \A i \in 0..(m + 1) : g[i] = IF i = 0 THEN NoFieldRead(b) ELSE NextField(L[i], g[i - 1])
      BY <2>1 DEF AreReading
    <2>3. AreReading(g, L, b, m + 1)
      BY <2>2 DEF AreReading
    <2> HIDE DEF g
    <2>4. QED
      BY <2>3
  <1>3. n \in S
    <2> HIDE DEF S
    <2>1. QED
      BY <1>1, <1>2, Induction
  <1> DEFINE f == FieldsReading(L, b, n)
  <1>4. AreReading(f, L, b, n)
    BY <1>3 DEF FieldsReading
  <1>5. ReadFields(L, b) = f[n]
    BY DEF ReadFields, NextField, Then, NoFieldRead, FieldsReading, AreReading
  <1> HIDE DEF f
  <1>6. f[0] = NoFieldRead(b)
    BY <1>4 DEF AreReading
  <1>7. ASSUME NEW i \in 1..n PROVE f[i] = NextField(L[i], f[i - 1])
    <2>1. i \in 0..n /\ i # 0
      OBVIOUS
    <2>2. QED
      BY <1>4, <2>1 DEF AreReading
  <1>8. QED
    BY <1>5, <1>6, <1>7 DEF f

(* An element more. *)
LEMMA AppendVector ==
    ASSUME NEW v, IsVector(v), NEW x
    PROVE  /\ IsVector(Append(v, x)) /\ Len(Append(v, x)) = Len(v) + 1
           /\ Append(v, x)[Len(v) + 1] = x
           /\ \A i \in 1..Len(v) : Append(v, x)[i] = v[i]
  <1> DEFINE S == {v[i] : i \in 1..Len(v)} \cup {x}
             a == Append(v, x)
  <1>1. Len(v) \in Nat /\ v \in Seq(S) /\ x \in S
    BY DEF IsVector
  <1> HIDE DEF S
  <1>2. a \in Seq(S) /\ Len(a) = Len(v) + 1
    BY <1>1, AppendProperties
  <1>3. \A i \in 1..(Len(v) + 1) : a[i] = IF i <= Len(v) THEN v[i] ELSE x
    BY <1>1, AppendProperties
  <1> HIDE DEF a
  <1>4. a = [i \in 1..Len(a) |-> a[i]] /\ Len(a) \in Nat
    BY <1>1, <1>2
  <1>5. IsVector(a)
    BY <1>4 DEF IsVector
  <1>6. QED
    BY <1>1, <1>2, <1>3, <1>5 DEF a

AreParts(c, v) == IsVector(v) /\ \A i \in 1..Len(v) : HoldsPart(c, v[i]) /\ PartFits(c, v[i])

(* A Vec that is read has as many elements as it was asked for, each of its type. *)
LEMMA ManyTyped ==
    ASSUME NEW c, IsPart(c), NEW n \in Nat, NEW b \in Seq(Bit), ReadMany(c, n, b) # Failed
    PROVE  /\ Leaves(ReadMany(c, n, b), b) /\ AreParts(c, ReadMany(c, n, b)[1])
           /\ Len(ReadMany(c, n, b)[1]) = n
  <1> DEFINE f == Reading(c, b, n)
             Good(r, i) == r = Failed \/ (Leaves(r, b) /\ AreParts(c, r[1]) /\ Len(r[1]) = i)
             S == {i \in Nat : i <= n => Good(f[i], i)}
  <1>1. /\ f[0] = NothingRead(b)
        /\ \A i \in 1..n : f[i] = ReadNext(c, f[i - 1])
        /\ ReadMany(c, n, b) = IF n > Len(b) THEN Failed ELSE f[n]
    BY ManyReadSteps
  <1> HIDE DEF f
  <1>2. 0 \in S
    <2>1. IsVector(<< >>) /\ Len(<< >>) = 0
      BY DEF IsVector
    <2>2. AreParts(c, << >>)
      BY <2>1 DEF AreParts
    <2>3. Len(b) <= Len(b)
      BY LenProperties
    <2>4. f[0] = <<f[0][1], f[0][2]>> /\ f[0][1] = << >> /\ f[0][2] = b
      BY <1>1 DEF NothingRead
    <2>5. Leaves(f[0], b)
      BY <2>3, <2>4 DEF Leaves
    <2>6. QED
      BY <2>1, <2>2, <2>4, <2>5
  <1>3. ASSUME NEW i \in Nat, i \in S PROVE i + 1 \in S
    <2> SUFFICES ASSUME i + 1 <= n, f[i + 1] # Failed PROVE Good(f[i + 1], i + 1)
      OBVIOUS
    <2> DEFINE r == f[i]
               s == ReadPart(c, r[2])
    <2>1. f[i + 1] = ReadNext(c, r)
      BY <1>1
    <2>2. r # Failed /\ s # Failed /\ f[i + 1] = <<Append(r[1], s[1]), s[2]>>
      BY <2>1 DEF ReadNext
    <2>3. Leaves(r, b) /\ AreParts(c, r[1]) /\ Len(r[1]) = i
      BY <1>3, <2>2
    <2> HIDE DEF r
    <2>4. r[2] \in Seq(Bit) /\ Len(r[2]) <= Len(b)
      BY <2>2, <2>3 DEF Leaves
    <2>5. Leaves(s, r[2]) /\ HoldsPart(c, s[1]) /\ PartFits(c, s[1])
      BY <2>2, <2>4, PartTyped
    <2> HIDE DEF s
    <2>6. s[2] \in Seq(Bit) /\ Len(s[2]) <= Len(b)
      <3>1. s[2] \in Seq(Bit) /\ Len(s[2]) <= Len(r[2])
        BY <2>2, <2>5 DEF Leaves
      <3>2. QED
        BY <2>4, <3>1, LenProperties
    <2>7. Leaves(f[i + 1], b)
      BY <2>2, <2>6 DEF Leaves
    <2> DEFINE a == Append(r[1], s[1])
    <2>8. /\ IsVector(a) /\ Len(a) = i + 1 /\ a[i + 1] = s[1]
          /\ \A k \in 1..i : a[k] = r[1][k]
      BY <2>3, AppendVector DEF AreParts
    <2> HIDE DEF a
    <2>9. AreParts(c, a)
      <3> SUFFICES ASSUME NEW k \in 1..Len(a) PROVE HoldsPart(c, a[k]) /\ PartFits(c, a[k])
        BY <2>8 DEF AreParts
      <3>1. CASE k = i + 1
        BY <2>5, <2>8, <3>1
      <3>2. CASE k # i + 1
        <4>1. k \in 1..i
          BY <2>8, <3>2
        <4>2. QED
          BY <2>3, <2>8, <4>1 DEF AreParts
      <3>3. QED
        BY <3>1, <3>2
    <2>10. f[i + 1][1] = a
      BY <2>2 DEF a
    <2>11. QED
      BY <2>7, <2>8, <2>9, <2>10
  <1>4. n \in S
    <2> HIDE DEF S
    <2>1. QED
      BY <1>2, <1>3, Induction
  <1>5. ReadMany(c, n, b) = f[n] /\ f[n] # Failed
    BY <1>1
  <1>6. QED
    BY <1>4, <1>5

(* Each element of a Vec is written as a bit at least. *)
LEMMA ManyBits ==
    ASSUME NEW c, IsPart(c), NEW v, IsVector(v), \A i \in 1..Len(v) : HoldsPart(c, v[i])
    PROVE  /\ WriteMany(c, v) \in Seq(Bit) /\ Len(WriteMany(c, v)) >= Len(v)
           /\ \A i \in 0..Len(v) : /\ Writing(c, v, Len(v))[i] \in Seq(Bit)
                                   /\ Len(Writing(c, v, Len(v))[i]) >= i
  <1> DEFINE n == Len(v)
             f == Writing(c, v, n)
             S == {i \in Nat : i <= n => f[i] \in Seq(Bit) /\ Len(f[i]) >= i}
  <1>1. n \in Nat
    BY DEF IsVector
  <1>2. /\ f[0] = <<>>
        /\ \A i \in 1..n : f[i] = f[i - 1] \o WritePart(c, v[i])
        /\ WriteMany(c, v) = f[n]
    BY <1>1, ManyWritten
  <1> HIDE DEF f
  <1>3. 0 \in S
    <2>1. f[0] \in Seq(Bit) /\ Len(f[0]) = 0
      BY <1>2
    <2>2. QED
      BY <2>1
  <1>4. ASSUME NEW i \in Nat, i \in S PROVE i + 1 \in S
    <2> SUFFICES ASSUME i + 1 <= n PROVE f[i + 1] \in Seq(Bit) /\ Len(f[i + 1]) >= i + 1
      OBVIOUS
    <2> DEFINE w == WritePart(c, v[i + 1])
               u == f[i]
    <2>0. i + 1 \in 1..n /\ (i + 1) - 1 = i
      BY <1>1
    <2>1. i + 1 \in 1..n /\ f[i + 1] = u \o w
      BY <1>2, <2>0
    <2>2. u \in Seq(Bit) /\ Len(u) >= i
      BY <1>1, <1>4, <2>1
    <2>3. w \in Seq(Bit) /\ Len(w) >= 1
      BY <2>1, PartWritten
    <2> HIDE DEF u, w
    <2>4. u \o w \in Seq(Bit) /\ Len(u \o w) = Len(u) + Len(w) /\ Len(u) \in Nat /\ Len(w) \in Nat
      BY <2>2, <2>3, ConcatProperties, LenProperties
    <2>5. QED
      BY <2>1, <2>2, <2>3, <2>4
  <1>5. \A i \in Nat : i \in S
    <2> HIDE DEF S
    <2>1. QED
      BY <1>3, <1>4, Induction
  <1>6. \A i \in 0..n : f[i] \in Seq(Bit) /\ Len(f[i]) >= i
    BY <1>1, <1>5
  <1>7. n \in 0..n
    BY <1>1
  <1>8. QED
    BY <1>2, <1>6, <1>7 DEF f

(* A vector is read as it was, but for signed integers. *)
LEMMA ManyRead ==
    ASSUME NEW c, IsPart(c), IsVarint(c) => ~c.type.signed, NEW v, AreParts(c, v),
           NEW b \in Seq(Bit), Fits(b, WriteMany(c, v))
    PROVE  Gives(ReadMany(c, Len(v), b), v, b, WriteMany(c, v), TRUE)
  <1> DEFINE n == Len(v)
             f == Reading(c, b, n)
             W == Writing(c, v, n)
             part(i) == [k \in 1..i |-> v[k]]
             Good(i) == i <= n /\ Fits(b, W[i]) => Gives(f[i], part(i), b, W[i], TRUE)
             S == {i \in Nat : Good(i)}
  <1>1. n \in Nat /\ v = part(n)
    BY DEF AreParts, IsVector
  <1>2. \A i \in 1..n : HoldsPart(c, v[i]) /\ PartFits(c, v[i]) /\ Sure(c, v[i])
    <2> SUFFICES ASSUME NEW i \in 1..n PROVE HoldsPart(c, v[i]) /\ PartFits(c, v[i]) /\ Sure(c, v[i])
      OBVIOUS
    <2>1. HoldsPart(c, v[i]) /\ PartFits(c, v[i])
      BY DEF AreParts
    <2>2. ASSUME c.kind = "varint" PROVE Readable(c.type, v[i])
      <3>1. IsVarint(c)
        BY <2>2 DEF IsPart, IsVarint, IsFixed, IsFlags, IsBytesCodec, IsTuple
      <3>2. ~c.type.signed /\ v[i] \in IntegersOf(c.type)
        BY <2>1, <2>2, <3>1 DEF HoldsPart
      <3>3. QED
        BY <3>2 DEF Readable
    <2>3. QED
      BY <2>1, <2>2 DEF Sure
  <1>3. /\ W[0] = <<>>
        /\ \A i \in 1..n : W[i] = W[i - 1] \o WritePart(c, v[i])
        /\ WriteMany(c, v) = W[n]
    BY <1>1, ManyWritten
  <1>4. \A i \in 0..n : W[i] \in Seq(Bit) /\ Len(W[i]) >= i
    <2>1. IsVector(v)
      BY DEF AreParts
    <2>2. QED
      BY <1>2, <2>1, ManyBits
  <1>5. /\ f[0] = NothingRead(b)
        /\ \A i \in 1..n : f[i] = ReadNext(c, f[i - 1])
        /\ ReadMany(c, n, b) = IF n > Len(b) THEN Failed ELSE f[n]
    BY <1>1, ManyReadSteps
  <1>6. Len(b) \in Nat
    BY LenProperties
  <1> HIDE DEF f, W, n
  <1>7. 0 \in S
    <2>1. part(0) = << >> /\ After(b, 0) = b
      BY AfterNothing
    <2>2. << >> \in Seq(Bit) /\ Len(<< >>) = 0
      OBVIOUS
    <2>3. Gives(NothingRead(b), << >>, b, << >>, TRUE)
      BY <1>6, <2>1, <2>2, NotFailed DEF Gives, NothingRead
    <2> HIDE DEF part
    <2>4. Gives(f[0], part(0), b, W[0], TRUE)
      BY <1>3, <1>5, <2>1, <2>3
    <2>5. QED
      BY <2>4
  <1>8. ASSUME NEW i \in Nat, i \in S PROVE i + 1 \in S
    <2> HIDE DEF part
    <2>a. Good(i)
      BY <1>8
    <2> SUFFICES ASSUME i + 1 <= n, Fits(b, W[i + 1])
                 PROVE  Gives(f[i + 1], part(i + 1), b, W[i + 1], TRUE)
      <3>1. Good(i + 1)
        OBVIOUS
      <3> HIDE DEF Good
      <3>2. QED
        BY <3>1
    <2> DEFINE w == WritePart(c, v[i + 1])
               u == W[i]
               r == f[i]
               s == ReadPart(c, r[2])
    <2>1. i + 1 \in 1..n /\ i \in 0..n /\ i <= n /\ (i + 1) - 1 = i
      BY <1>1
    <2>2. W[i + 1] = u \o w /\ f[i + 1] = ReadNext(c, r)
      <3>1. W[i + 1] = u \o w
        BY <1>3, <2>1
      <3>2. f[i + 1] = ReadNext(c, r)
        BY <1>5, <2>1
      <3>3. QED
        BY <3>1, <3>2
    <2>3. u \in Seq(Bit) /\ w \in Seq(Bit)
      BY <1>2, <1>4, <2>1, PartWritten
    <2> HIDE DEF u, w
    <2>4. Fits(b, u) /\ (Len(u) <= Len(b) => Fits(After(b, Len(u)), w))
      BY <2>2, <2>3, FitsParts
    <2>5. Gives(r, part(i), b, u, TRUE)
      BY <2>a, <2>1, <2>4 DEF u
    <2> HIDE DEF r
    <2>6. CASE r = Failed
      <3>1. Gives(Failed, part(i + 1), b, u \o w, TRUE)
        BY <2>3, <2>5, <2>6, GivesNothing
      <3>2. f[i + 1] = Failed
        BY <2>2, <2>6 DEF ReadNext
      <3>3. QED
        BY <2>2, <3>1, <3>2
    <2>7. CASE r # Failed
      <3> DEFINE a == After(b, Len(u))
      <3>1. Len(u) <= Len(b) /\ r = <<part(i), a>>
        BY <2>5, <2>7 DEF Gives
      <3>2. a \in Seq(Bit) /\ r[1] = part(i) /\ r[2] = a
        BY <2>3, <3>1, AfterBits, LenProperties
      <3>3. Gives(s, v[i + 1], a, w, Sure(c, v[i + 1]))
        BY <1>2, <2>1, <2>4, <3>1, <3>2, PartRead DEF w
      <3>4. Sure(c, v[i + 1])
        BY <1>2, <2>1
      <3> HIDE DEF a, s
      <3>5. f[i + 1] = IF s = Failed THEN Failed ELSE <<Append(part(i), s[1]), s[2]>>
        BY <2>2, <2>7, <3>2 DEF ReadNext, s
      <3>6. Append(part(i), v[i + 1]) = part(i + 1)
        <4>1. Len(part(i)) = i /\ part(i) = [k \in 1..i |-> v[k]] /\ part(i + 1) = [k \in 1..(i + 1) |-> v[k]]
          BY DEF part
        <4>2. IsVector(part(i))
          BY <4>1 DEF IsVector
        <4>3. /\ IsVector(Append(part(i), v[i + 1])) /\ Len(Append(part(i), v[i + 1])) = i + 1
              /\ Append(part(i), v[i + 1])[i + 1] = v[i + 1]
              /\ \A k \in 1..i : Append(part(i), v[i + 1])[k] = part(i)[k]
          BY <4>1, <4>2, AppendVector
        <4> DEFINE p == Append(part(i), v[i + 1])
        <4> HIDE DEF p
        <4>4. p = [k \in 1..(i + 1) |-> p[k]]
          BY <4>3 DEF IsVector, p
        <4>5. \A k \in 1..(i + 1) : p[k] = v[k]
          <5>1. \A k \in 1..i : p[k] = v[k]
            BY <4>1, <4>3 DEF p
          <5>2. p[i + 1] = v[i + 1]
            BY <4>3 DEF p
          <5>3. QED
            BY <5>1, <5>2
        <4>6. QED
          BY <4>1, <4>4, <4>5 DEF p
      <3>7. Gives(f[i + 1], part(i + 1), a, w, TRUE)
        <4>1. CASE s = Failed
          BY <3>3, <3>4, <3>5, <4>1 DEF Gives
        <4>2. CASE s # Failed
          <5>1. Len(w) <= Len(a) /\ s = <<v[i + 1], After(a, Len(w))>>
            BY <3>3, <4>2 DEF Gives
          <5>2. f[i + 1] = <<part(i + 1), After(a, Len(w))>>
            BY <3>5, <3>6, <4>2, <5>1
          <5>3. QED
            BY <2>3, <5>1, <5>2, NotFailed DEF Gives
        <4>3. QED
          BY <4>1, <4>2
      <3>8. Gives(f[i + 1], part(i + 1), b, u \o w, TRUE)
        BY <2>3, <3>1, <3>7, GivesBehind DEF a
      <3>9. QED
        BY <2>2, <3>8
    <2>8. QED
      BY <2>6, <2>7
  <1>9. n \in S
    <2> HIDE DEF S
    <2>1. QED
      BY <1>1, <1>7, <1>8, Induction
  <1>10. Gives(f[n], v, b, W[n], TRUE)
    <2> HIDE DEF part
    <2>0. Good(n)
      <3> HIDE DEF Good
      <3>1. QED
        BY <1>9
    <2>1. Gives(f[n], part(n), b, W[n], TRUE)
      <3>1. n <= n /\ Fits(b, W[n])
        BY <1>1, <1>3
      <3>2. QED
        BY <2>0, <3>1
    <2>2. QED
      BY <1>1, <2>1
  <1>11. CASE n > Len(b)
    <2>1. ~(Len(W[n]) <= Len(b)) /\ W[n] \in Seq(Bit)
      BY <1>1, <1>4, <1>6, <1>11
    <2>2. Gives(Failed, v, b, W[n], TRUE)
      BY <2>1 DEF Gives
    <2>3. QED
      BY <1>3, <1>5, <1>11, <2>2 DEF n
  <1>12. CASE ~(n > Len(b))
    BY <1>3, <1>5, <1>10, <1>12 DEF n
  <1>13. QED
    BY <1>11, <1>12

(* Maps *)

(* The keys of a map in some order, each of them there, as a HashMap iterates. *)
LEMMA KeysAre ==
    ASSUME NEW m, IsFiniteSet(DOMAIN m)
    PROVE  LET n == Cardinality(DOMAIN m)
               keys == Keys(m)
           IN  /\ n \in Nat
               /\ keys \in [1..n -> DOMAIN m]
               /\ \A k \in DOMAIN m : \E i \in 1..n : keys[i] = k
  <1> DEFINE S == DOMAIN m
             n == Cardinality(S)
             keys == Keys(m)
             IsOrder(f) == f \in [1..n -> S] /\ \A k \in S : \E i \in DOMAIN f : f[i] = k
  <1> HIDE DEF S
  <1>1. n \in Nat /\ ExistsBijection(1..n, S)
    BY FS_CardinalityType DEF S
  <1> HIDE DEF n
  <1>2. PICK g : g \in Bijection(1..n, S)
    BY <1>1 DEF ExistsBijection
  <1>3. IsOrder(g)
    BY <1>2 DEF Bijection, Injection, Surjection
  <1>4. \E f \in [1..n -> S] : \A k \in S : \E i \in DOMAIN f : f[i] = k
    BY <1>3
  <1>5. IsOrder(keys)
    BY <1>4 DEF Keys, n, S
  <1> HIDE DEF keys
  <1>6. keys \in [1..n -> S] /\ \A k \in S : \E i \in 1..n : keys[i] = k
    BY <1>5
  <1>7. QED
    BY <1>1, <1>6 DEF S, n, keys

IsMap(v) == v = [k \in DOMAIN v |-> v[k]] /\ IsFiniteSet(DOMAIN v)

(* The pairs of a map are one for each key, and make the map again. *)
LEMMA PairsAre ==
    ASSUME NEW c, NEW v, IsMap(v), \A k \in DOMAIN v : HoldsPart(c, <<k, v[k]>>)
    PROVE  /\ Cardinality(DOMAIN v) \in Nat /\ Len(Pairs(v)) = Cardinality(DOMAIN v)
           /\ IsVector(Pairs(v)) /\ \A i \in 1..Len(Pairs(v)) : HoldsPart(c, Pairs(v)[i])
           /\ MapOf(Pairs(v)) = v
  <1> DEFINE S == DOMAIN v
             n == Cardinality(S)
             keys == Keys(v)
             pairs == Pairs(v)
             at(k) == {i \in DOMAIN pairs : pairs[i][1] = k}
  <1>1. n \in Nat /\ keys \in [1..n -> S] /\ \A k \in S : \E i \in 1..n : keys[i] = k
    BY KeysAre DEF IsMap
  <1>2. pairs = [i \in DOMAIN keys |-> <<keys[i], v[keys[i]]>>]
    BY DEF Pairs
  <1> HIDE DEF n, keys, pairs
  <1>3. pairs = [i \in 1..n |-> <<keys[i], v[keys[i]]>>] /\ Len(pairs) = n
    BY <1>1, <1>2
  <1>4. pairs = [i \in 1..Len(pairs) |-> pairs[i]]
    BY <1>3
  <1>5. IsVector(pairs)
    BY <1>1, <1>3, <1>4 DEF IsVector
  <1>6. \A i \in 1..n : pairs[i] = <<keys[i], v[keys[i]]>> /\ pairs[i][1] = keys[i] /\ keys[i] \in S
    BY <1>1, <1>3
  <1>7. \A i \in 1..n : HoldsPart(c, pairs[i])
    BY <1>6
  <1>8. {pairs[i][1] : i \in DOMAIN pairs} = S
    BY <1>1, <1>3, <1>6
  <1>9. ASSUME NEW k \in S PROVE pairs[Max(at(k))][2] = v[k]
    <2>1. DOMAIN pairs = 1..n
      BY <1>3
    <2>2. at(k) \in SUBSET (1..n)
      BY <2>1
    <2>3. at(k) # {}
      <3>1. PICK i \in 1..n : keys[i] = k
        BY <1>1
      <3>2. i \in at(k)
        BY <1>6, <2>1, <3>1
      <3>3. QED
        BY <3>2
    <2> DEFINE A == at(k)
    <2> HIDE DEF A
    <2>4. Max(A) \in A
      BY <1>1, <2>2, <2>3, MaxIn DEF A
    <2>5. Max(A) \in 1..n /\ pairs[Max(A)][1] = k
      BY <2>1, <2>4 DEF A
    <2>6. pairs[Max(A)] = <<k, v[k]>>
      BY <1>6, <2>5
    <2>7. QED
      BY <2>6 DEF A
  <1>10. MapOf(pairs) = v
    <2>1. MapOf(pairs) = [k \in S |-> pairs[Max(at(k))][2]]
      BY <1>8 DEF MapOf
    <2> HIDE DEF at
    <2>2. MapOf(pairs) = [k \in S |-> v[k]]
      BY <1>9, <2>1
    <2>3. QED
      BY <2>2 DEF IsMap
  <1>11. QED
    BY <1>1, <1>3, <1>5, <1>7, <1>10 DEF n, pairs

(* Pairs that were read are a map, of no more keys. *)
LEMMA MapTyped ==
    ASSUME NEW c, IsTuple(c), NEW n \in Nat, NEW pairs, AreParts(c, pairs), Len(pairs) = n
    PROVE  /\ IsMap(MapOf(pairs))
           /\ Cardinality(DOMAIN MapOf(pairs)) \in Nat /\ Cardinality(DOMAIN MapOf(pairs)) <= n
           /\ \A k \in DOMAIN MapOf(pairs) : HoldsPart(c, <<k, MapOf(pairs)[k]>>)
  <1> DEFINE S == {pairs[i][1] : i \in DOMAIN pairs}
             at(k) == {i \in DOMAIN pairs : pairs[i][1] = k}
             m == MapOf(pairs)
             first == [i \in 1..n |-> pairs[i][1]]
  <1>1. pairs = [i \in 1..n |-> pairs[i]] /\ \A i \in 1..n : HoldsPart(c, pairs[i])
    BY DEF AreParts, IsVector
  <1>2. DOMAIN pairs = 1..n
    BY <1>1
  <1>3. \A i \in 1..n : pairs[i] = <<pairs[i][1], pairs[i][2]>>
    <2> SUFFICES ASSUME NEW i \in 1..n PROVE pairs[i] = <<pairs[i][1], pairs[i][2]>>
      OBVIOUS
    <2>1. pairs[i] \in c.first.values \X c.second.values
      BY <1>1 DEF HoldsPart, IsTuple
    <2>2. QED
      BY <2>1
  <1>4. m = [k \in S |-> pairs[Max(at(k))][2]]
    BY DEF MapOf
  <1>5. IsFiniteSet(1..n) /\ Cardinality(1..n) = n
    <2>1. 1 \in Int /\ n \in Int
      OBVIOUS
    <2>2. IsFiniteSet(1..n) /\ Cardinality(1..n) = IF 1 > n THEN 0 ELSE n - 1 + 1
      BY <2>1, FS_Interval
    <2>3. QED
      BY <2>2
  <1>6. IsFiniteSet(S) /\ Cardinality(S) <= n /\ Cardinality(S) \in Nat
    <2>1. first \in Surjection(1..n, S)
      BY <1>2 DEF Surjection
    <2> HIDE DEF S, first
    <2>2. IsFiniteSet(S) /\ Cardinality(S) <= Cardinality(1..n)
      BY <1>5, <2>1, FS_Surjection
    <2>3. QED
      BY <1>5, <2>2, FS_CardinalityType
  <1>7. ASSUME NEW k \in S PROVE HoldsPart(c, <<k, m[k]>>)
    <2> DEFINE A == at(k)
    <2>1. A \in SUBSET (1..n) /\ A # {}
      BY <1>2
    <2>2. m[k] = pairs[Max(A)][2]
      BY <1>4
    <2>3. \A i \in A : i \in 1..n /\ pairs[i][1] = k
      BY <1>2
    <2> HIDE DEF A, m, S
    <2>4. Max(A) \in A
      BY <2>1, MaxIn
    <2>5. pairs[Max(A)] = <<k, m[k]>>
      BY <1>3, <2>2, <2>3, <2>4
    <2>6. QED
      BY <1>1, <2>3, <2>4, <2>5
  <1> HIDE DEF S, at
  <1>8. DOMAIN m = S
    BY <1>4
  <1>9. m = [k \in DOMAIN m |-> m[k]]
    BY <1>4
  <1> HIDE DEF m
  <1>10. IsMap(m)
    BY <1>6, <1>8, <1>9 DEF IsMap
  <1>11. QED
    BY <1>6, <1>7, <1>8, <1>10 DEF m

(* Values *)

\* What may be repeated or wrapped: a part, but no signed integer.
IsElement(c) == IsPart(c) /\ (IsVarint(c) => ~c.type.signed)

IsUnsigned(t) == t \in IntegerTypes /\ ~t.signed

IsSized(c) == c.kind = "sized" /\ IsUnsigned(c.type) /\ IsElement(c.of)

IsCounted(c) == c.kind = "counted" /\ IsElement(c.of)

IsRest(c) == c.kind = "rest" /\ c.values \subseteq Byte

IsMapCodec(c) == c.kind = "map" /\ IsUnsigned(c.type) /\ IsTuple(c.pair)

IsNullable(c) == c.kind = "nullable" /\ IsElement(c.of)

IsOption(c) == c.kind = "option" /\ IsElement(c.of)

IsCodec(c) ==
    \/ IsPart(c) \/ IsSized(c) \/ IsCounted(c) \/ IsRest(c)
    \/ IsMapCodec(c) \/ IsNullable(c) \/ IsOption(c)

(* The kinds of parts. *)
LEMMA PartKind ==
    \A c : IsPart(c) => c.kind \in {"fixed", "flags", "varint", "bytes", "tuple"}
  BY DEF IsPart, IsFixed, IsFlags, IsVarint, IsBytesCodec, IsTuple

(* No element of a collection is a signed Varint: all of them can be read again. *)
LEMMA ElementSure ==
    ASSUME NEW c, IsElement(c), NEW v, HoldsPart(c, v)
    PROVE  Sure(c, v)
  <1> SUFFICES ASSUME c.kind = "varint" PROVE Readable(c.type, v)
    BY DEF Sure
  <1>1. IsVarint(c)
    BY DEF IsElement, IsPart, IsVarint, IsFixed, IsFlags, IsBytesCodec, IsTuple
  <1>2. ~c.type.signed /\ v \in IntegersOf(c.type)
    BY <1>1 DEF HoldsPart, IsElement
  <1>3. QED
    BY <1>2 DEF Readable

(* The bit in front of a Nullable. *)
LEMMA BitBoolIs == IsFixed(BitBool) /\ BitBool.values = {0, 1} /\ BitBool.bits = 1
  <1>1. TwoTo[0] = 1 /\ TwoTo[0 + 1] = 2 * TwoTo[0]
    BY TwoToStep
  <1>2. TwoTo[1] = 2
    BY <1>1
  <1>3. BitBool = [kind |-> "fixed", bits |-> 1, values |-> {0, 1}]
    BY DEF BitBool, Fixed
  <1>4. {0, 1} \subseteq 0..(TwoTo[1] - 1)
    BY <1>2
  <1>5. QED
    BY <1>3, <1>4 DEF IsFixed, Unsigned

(* Its two values, as the writer of Nullable puts them. *)
LEMMA BitBoolBits == Bits(0, 1) = <<0>> /\ Bits(1, 1) = <<1>>
  <1>1. 2 \in Base /\ 1 \in Nat /\ 0 \in Int
    BY DEF Base
  <1>2. ASSUME NEW v \in {0, 1} PROVE Bits(v, 1) = <<v>>
    <2> DEFINE w == Bits(v, 1)
    <2>1. v \in BitBool.values
      BY BitBoolIs
    <2>2. w \in Seq(Int) /\ Len(w) = 1 /\ w[1] = Shifted(v, 2, 1)[1 - 1] % 2
      <3>0. \A b \in Base, m \in Nat, x \in Int :
               /\ Digits(x, b, m) \in Seq(Int) /\ Len(Digits(x, b, m)) = m
               /\ \A i \in 1..m : Digits(x, b, m)[i] = Shifted(x, b, m)[i - 1] % b
        BY DigitsRange
      <3>1. v \in Int
        OBVIOUS
      <3>2. w = Digits(v, 2, 1)
        BY DEF Bits
      <3>3. 1 \in 1..1
        OBVIOUS
      <3> DEFINE one == 1
                 two == 2
      <3>4. one \in Nat /\ two \in Base /\ one \in 1..one
        BY <1>1
      <3>5. Digits(v, two, one) \in Seq(Int) /\ Len(Digits(v, two, one)) = one
            /\ Digits(v, two, one)[one] = Shifted(v, two, one)[one - 1] % two
        <4> HIDE DEF one, two
        <4>1. QED
          BY <3>0, <3>1, <3>4
      <3>6. QED
        BY <3>2, <3>5
    <2>3. Shifted(v, 2, 1)[0] = v
      <3>0. \A b \in Base, m \in Nat, x \in Int : Shifted(x, b, m)[0] = x
        BY ShiftedStep
      <3> DEFINE one == 1
                 two == 2
      <3>4. one \in Nat /\ two \in Base /\ v \in Int
        BY <1>1
      <3>5. Shifted(v, two, one)[0] = v
        <4> HIDE DEF one, two
        <4>1. QED
          BY <3>0, <3>4
      <3>6. QED
        BY <3>5
    <2>4. w[1] = v
      BY <2>2, <2>3
    <2> HIDE DEF w
    <2>5. w = <<v>>
      BY <2>2, <2>4
    <2>6. QED
      BY <2>5 DEF w
  <1>3. QED
    BY <1>2

(* None is no value of a part. *)
LEMMA PartIsSome ==
    ASSUME NEW c, IsPart(c), NEW v, HoldsPart(c, v)
    PROVE  v # None
  <1>1. \A n \in Nat : Unsigned(n) \subseteq Int
    BY TwoToPositive DEF Unsigned
  <1>2. CASE IsFixed(c)
    <2>1. v \in Unsigned(c.bits) /\ c.bits \in Nat
      BY <1>2 DEF IsFixed, HoldsPart
    <2>2. v \in Int
      BY <1>1, <2>1
    <2>3. QED
      BY <2>2, NoneAssumption
  <1>3. CASE IsFlags(c)
    <2>1. v \in Unsigned(c.bits) /\ c.bits \in Nat
      BY <1>3 DEF IsFlags, HoldsPart
    <2>2. v \in Int
      BY <1>1, <2>1
    <2>3. QED
      BY <2>2, NoneAssumption
  <1>4. CASE IsVarint(c)
    <2>1. v \in IntegersOf(c.type) /\ c.type \in IntegerTypes
      BY <1>4 DEF IsVarint, HoldsPart
    <2>2. v \in Int
      BY <2>1, IntegersAreInt
    <2>3. QED
      BY <2>2, NoneAssumption
  <1>5. CASE IsBytesCodec(c)
    <2>1. IsBytes(v, c.values) /\ c.values \subseteq Byte
      BY <1>5 DEF IsBytesCodec, HoldsPart
    <2>2. Len(v) \in Nat /\ v = [i \in 1..Len(v) |-> v[i]]
      BY <2>1 DEF IsBytes, IsVector
    <2>3. \A i \in 1..Len(v) : v[i] \in Int
      <3>1. Byte \subseteq Int
        BY DEF Byte
      <3>2. \A i \in 1..Len(v) : v[i] \in c.values
        BY <2>1 DEF IsBytes
      <3>3. QED
        BY <2>1, <3>1, <3>2
    <2>5. v \in Seq(Int)
      BY <2>2, <2>3
    <2>4. QED
      BY <2>5, NoneAssumption
  <1>6. CASE IsTuple(c)
    <2>1. /\ v \in c.first.values \X c.second.values
          /\ c.first.bits \in Nat /\ c.second.bits \in Nat
          /\ c.first.values \subseteq Unsigned(c.first.bits)
          /\ c.second.values \subseteq Unsigned(c.second.bits)
      BY <1>6 DEF IsTuple, IsFixed, HoldsPart
    <2>2. v = <<v[1], v[2]>> /\ v[1] \in Int /\ v[2] \in Int
      BY <1>1, <2>1
    <2>3. v \in Seq(Int)
      <3>1. \A x, y \in Int : <<x, y>> \in Seq(Int)
        OBVIOUS
      <3>2. QED
        BY <2>2, <3>1
    <2>4. QED
      BY <2>3, NoneAssumption
  <1>7. QED
    BY <1>2, <1>3, <1>4, <1>5, <1>6 DEF IsPart

ReadNested(c, b, n) == IF n = Failed THEN Failed ELSE ReadMany(c, n[1], n[2])

(* The reader of each kind of codec. *)
LEMMA ValueReadIs ==
    ASSUME NEW c, NEW p, NEW b
    PROVE  /\ c.kind \in {"fixed", "flags", "varint", "bytes", "tuple", "option"} =>
                 ReadValue(c, p, b) = ReadPart(IF c.kind = "option" THEN c.of ELSE c, b)
           /\ c.kind = "counted" => ReadValue(c, p, b) = ReadMany(c.of, p[c.count], b)
           /\ c.kind = "sized" => ReadValue(c, p, b) = ReadNested(c.of, b, ReadVarint(c.type, b))
           /\ c.kind = "rest" => ReadValue(c, p, b) = ReadBytes(c.values, Len(b) \div 8, b)
           /\ c.kind = "map" =>
                 LET r == ReadNested(c.pair, b, ReadVarint(c.type, b))
                 IN  ReadValue(c, p, b) = IF r = Failed THEN Failed ELSE <<MapOf(r[1]), r[2]>>
           /\ c.kind = "nullable" =>
                 LET r == ReadFixed(BitBool, b)
                 IN  ReadValue(c, p, b) =
                        IF r = Failed THEN Failed
                        ELSE IF r[1] = 0 THEN <<None, r[2]>> ELSE ReadPart(c.of, r[2])
  <1>1. c.kind \in {"fixed", "flags", "varint", "bytes", "tuple", "option"} =>
                 ReadValue(c, p, b) = ReadPart(IF c.kind = "option" THEN c.of ELSE c, b)
    BY DEF ReadValue
  <1>2. c.kind = "counted" => ReadValue(c, p, b) = ReadMany(c.of, p[c.count], b)
    BY DEF ReadValue
  <1>3. c.kind = "sized" => ReadValue(c, p, b) = ReadNested(c.of, b, ReadVarint(c.type, b))
    BY DEF ReadValue, Then, ReadNested
  <1>4. c.kind = "rest" => ReadValue(c, p, b) = ReadBytes(c.values, Len(b) \div 8, b)
    BY DEF ReadValue
  <1>5. c.kind = "map" =>
                 LET r == ReadNested(c.pair, b, ReadVarint(c.type, b))
                 IN  ReadValue(c, p, b) = IF r = Failed THEN Failed ELSE <<MapOf(r[1]), r[2]>>
    BY DEF ReadValue, Then, ReadNested
  <1>6. c.kind = "nullable" =>
                 LET r == ReadFixed(BitBool, b)
                 IN  ReadValue(c, p, b) =
                        IF r = Failed THEN Failed
                        ELSE IF r[1] = 0 THEN <<None, r[2]>> ELSE ReadPart(c.of, r[2])
    BY DEF ReadValue, ReadNullable, Then
  <1>7. QED
    BY <1>1, <1>2, <1>3, <1>4, <1>5, <1>6

(* The writer of each kind of codec. *)
LEMMA ValueWriteIs ==
    ASSUME NEW c, NEW v
    PROVE  /\ c.kind \in {"fixed", "flags", "varint", "bytes", "tuple"} =>
                 WriteValue(c, v) = WritePart(c, v)
           /\ c.kind = "sized" => WriteValue(c, v) = LengthBits(c.type, Len(v)) \o WriteMany(c.of, v)
           /\ c.kind = "counted" => WriteValue(c, v) = WriteMany(c.of, v)
           /\ c.kind = "rest" => WriteValue(c, v) = ByteBits(v)
           /\ c.kind = "map" =>
                 WriteValue(c, v) = LengthBits(c.type, Cardinality(DOMAIN v)) \o WriteMany(c.pair, Pairs(v))
           /\ c.kind = "nullable" =>
                 WriteValue(c, v) = IF v = None THEN <<0>> ELSE <<1>> \o WritePart(c.of, v)
           /\ c.kind = "option" => WriteValue(c, v) = IF v = None THEN <<>> ELSE WritePart(c.of, v)
  BY DEF WriteValue

(* A length, and so many parts *)

NestedBits(t, c, v) == LengthBits(t, Len(v)) \o WriteMany(c, v)

(* A collection with its length in front is read with so many elements. *)
LEMMA NestedTyped ==
    ASSUME NEW c, IsPart(c), NEW t, IsUnsigned(t), NEW b \in Seq(Bit),
           ReadNested(c, b, ReadVarint(t, b)) # Failed
    PROVE  LET r == ReadNested(c, b, ReadVarint(t, b))
           IN  Leaves(r, b) /\ AreParts(c, r[1]) /\ Len(r[1]) \in IntegersOf(t)
  <1> DEFINE n == ReadVarint(t, b)
             r == ReadMany(c, n[1], n[2])
  <1>1. n # Failed /\ ReadNested(c, b, n) = r /\ r # Failed
    BY DEF ReadNested
  <1>2. Leaves(n, b) /\ n[1] \in IntegersOf(t)
    BY <1>1, VarintTyped
  <1>3. n[1] \in Nat /\ n[2] \in Seq(Bit) /\ Len(n[2]) <= Len(b)
    BY <1>1, <1>2, IntegersAreInt DEF Leaves, IsUnsigned
  <1> HIDE DEF n
  <1>4. Leaves(r, n[2]) /\ AreParts(c, r[1]) /\ Len(r[1]) = n[1]
    BY <1>1, <1>3, ManyTyped
  <1> HIDE DEF r
  <1>5. Leaves(r, b)
    <2>1. r = <<r[1], r[2]>> /\ r[2] \in Seq(Bit) /\ Len(r[2]) <= Len(n[2])
      BY <1>1, <1>4 DEF Leaves
    <2>2. Len(r[2]) <= Len(b)
      BY <1>3, <2>1, LenProperties
    <2>3. QED
      BY <2>1, <2>2 DEF Leaves
  <1>6. QED
    BY <1>1, <1>2, <1>4, <1>5 DEF n

(* It is written as bits. *)
LEMMA NestedWritten ==
    ASSUME NEW c, IsPart(c), NEW t, IsUnsigned(t), NEW v, IsVector(v),
           \A i \in 1..Len(v) : HoldsPart(c, v[i])
    PROVE  NestedBits(t, c, v) \in Seq(Bit)
  <1>1. Len(v) \in Nat
    BY DEF IsVector
  <1>2. LengthBits(t, Len(v)) \in Seq(Bit)
    BY <1>1, LengthIs DEF IsUnsigned
  <1>3. WriteMany(c, v) \in Seq(Bit)
    BY ManyBits
  <1>4. QED
    BY <1>2, <1>3, ConcatProperties DEF NestedBits

(* It is read as it was written, if its length is a number of the type. *)
LEMMA NestedRead ==
    ASSUME NEW c, IsElement(c), NEW t, IsUnsigned(t), NEW v, AreParts(c, v),
           Len(v) \in IntegersOf(t), NEW b \in Seq(Bit), Fits(b, NestedBits(t, c, v))
    PROVE  Gives(ReadNested(c, b, ReadVarint(t, b)), v, b, NestedBits(t, c, v), TRUE)
  <1> DEFINE n == Len(v)
             r == ReadVarint(t, b)
             u == LengthBits(t, n)
             w == WriteMany(c, v)
             m == ReadMany(c, n, After(b, Len(u)))
  <1>1. n \in Nat /\ IsVector(v) /\ IsPart(c) /\ (IsVarint(c) => ~c.type.signed)
    BY DEF AreParts, IsVector, IsElement
  <1>2. u \in Seq(Bit)
    BY <1>1, LengthIs DEF IsUnsigned
  <1>3. w \in Seq(Bit)
    <2>1. \A i \in 1..Len(v) : HoldsPart(c, v[i])
      BY DEF AreParts
    <2>2. QED
      BY <1>1, <2>1, ManyBits
  <1>4. NestedBits(t, c, v) = u \o w
    BY DEF NestedBits
  <1> HIDE DEF u, w
  <1>5. Fits(b, u) /\ (Len(u) <= Len(b) => Fits(After(b, Len(u)), w))
    BY <1>2, <1>3, <1>4, FitsParts
  <1> HIDE DEF n
  <1>6. Gives(r, n, b, u, TRUE)
    <2>1. t \in IntegerTypes /\ ~t.signed /\ t.bits <= t.bits
      BY TypeBits DEF IsUnsigned
    <2>2. Fits(b, LengthBits(t, n)) /\ n \in IntegersOf(t)
      BY <1>5 DEF u, n
    <2>3. Gives(ReadVarint(t, b), n, b, LengthBits(t, n), TRUE)
      BY <2>1, <2>2, LengthRead
    <2>4. QED
      BY <2>3 DEF u
  <1> HIDE DEF r
  <1>7. CASE r = Failed
    <2>1. Gives(Failed, v, b, u \o w, TRUE)
      BY <1>3, <1>6, <1>7, GivesNothing
    <2>2. ReadNested(c, b, r) = Failed
      BY <1>7 DEF ReadNested
    <2>3. QED
      BY <1>4, <2>1, <2>2 DEF r
  <1>8. CASE r # Failed
    <2>1. Len(u) <= Len(b) /\ r = <<n, After(b, Len(u))>>
      BY <1>6, <1>8 DEF Gives
    <2>2. After(b, Len(u)) \in Seq(Bit)
      BY <1>2, <2>1, AfterBits, LenProperties
    <2>3. ReadNested(c, b, r) = m
      BY <1>8, <2>1 DEF ReadNested
    <2>4. Gives(m, v, After(b, Len(u)), w, TRUE)
      BY <1>1, <1>5, <2>1, <2>2, ManyRead DEF n, w
    <2> HIDE DEF m
    <2>5. Gives(m, v, b, u \o w, TRUE)
      BY <1>2, <2>1, <2>4, GivesBehind
    <2>6. QED
      BY <1>4, <2>3, <2>5 DEF r
  <1>9. QED
    BY <1>7, <1>8

(* A value that is read is of its type, with lengths that can be read again. *)
LEMMA ValueTyped ==
    ASSUME NEW c, IsCodec(c), NEW p, NEW b \in Seq(Bit), ReadValue(c, p, b) # Failed,
           c.kind = "counted" => p[c.count] \in Nat
    PROVE  LET r == ReadValue(c, p, b)
           IN  /\ Leaves(r, b) /\ Holds(c, r[1]) /\ LengthsFit(c, r[1])
               /\ c.kind = "counted" => Len(r[1]) = p[c.count]
  <1> DEFINE r == ReadValue(c, p, b)
  <1>1. CASE IsPart(c)
    <2>1. c.kind \in {"fixed", "flags", "varint", "bytes", "tuple"}
      BY <1>1, PartKind
    <2>2. r = ReadPart(c, b)
      BY <2>1, ValueReadIs
    <2>3. Leaves(r, b) /\ HoldsPart(c, r[1]) /\ PartFits(c, r[1])
      BY <1>1, <2>2, PartTyped
    <2> HIDE DEF r
    <2>4. Holds(c, r[1]) /\ LengthsFit(c, r[1])
      BY <2>1, <2>3 DEF Holds, LengthsFit
    <2>5. QED
      BY <2>1, <2>3, <2>4 DEF r
  <1>2. CASE IsSized(c)
    <2>1. r = ReadNested(c.of, b, ReadVarint(c.type, b)) /\ IsPart(c.of) /\ IsUnsigned(c.type)
          /\ c.kind = "sized"
      BY <1>2, ValueReadIs DEF IsSized, IsElement
    <2>2. Leaves(r, b) /\ AreParts(c.of, r[1]) /\ Len(r[1]) \in IntegersOf(c.type)
      BY <2>1, NestedTyped
    <2> HIDE DEF r
    <2>3. Holds(c, r[1]) /\ LengthsFit(c, r[1])
      BY <2>1, <2>2 DEF Holds, LengthsFit, AreParts, HoldsPart, PartFits
    <2>4. QED
      BY <2>1, <2>2, <2>3 DEF r
  <1>3. CASE IsCounted(c)
    <2>1. r = ReadMany(c.of, p[c.count], b) /\ IsPart(c.of) /\ c.kind = "counted" /\ p[c.count] \in Nat
      BY <1>3, ValueReadIs DEF IsCounted, IsElement
    <2>2. Leaves(r, b) /\ AreParts(c.of, r[1]) /\ Len(r[1]) = p[c.count]
      BY SMTT(60), <2>1, ManyTyped
    <2> HIDE DEF r
    <2>3. Holds(c, r[1]) /\ LengthsFit(c, r[1])
      BY <2>1, <2>2 DEF Holds, LengthsFit, AreParts, HoldsPart, PartFits
    <2>4. QED
      BY <2>2, <2>3 DEF r
  <1>4. CASE IsRest(c)
    <2>1. r = ReadBytes(c.values, Len(b) \div 8, b) /\ c.kind = "rest"
      BY <1>4, ValueReadIs DEF IsRest
    <2>2. Len(b) \div 8 \in Nat
      BY LenProperties
    <2>3. Leaves(r, b) /\ IsBytes(r[1], c.values)
      BY <2>1, <2>2, BytesTyped
    <2> HIDE DEF r
    <2>4. Holds(c, r[1]) /\ LengthsFit(c, r[1])
      BY <2>1, <2>3 DEF Holds, LengthsFit, HoldsPart, PartFits
    <2>5. QED
      BY <2>1, <2>3, <2>4 DEF r
  <1>5. CASE IsMapCodec(c)
    <2> DEFINE s == ReadNested(c.pair, b, ReadVarint(c.type, b))
               m == MapOf(s[1])
    <2>1. r = (IF s = Failed THEN Failed ELSE <<m, s[2]>>) /\ IsPart(c.pair) /\ IsTuple(c.pair)
          /\ IsUnsigned(c.type) /\ c.kind = "map"
      BY <1>5, ValueReadIs DEF IsMapCodec, IsPart
    <2>2. s # Failed /\ r = <<m, s[2]>>
      BY <2>1
    <2>3. Leaves(s, b) /\ AreParts(c.pair, s[1]) /\ Len(s[1]) \in IntegersOf(c.type)
      BY <2>1, <2>2, NestedTyped
    <2>4. Len(s[1]) \in Nat
      BY <2>3 DEF AreParts, IsVector
    <2> HIDE DEF s
    <2>5. /\ IsMap(m) /\ Cardinality(DOMAIN m) \in Nat /\ Cardinality(DOMAIN m) <= Len(s[1])
          /\ \A k \in DOMAIN m : HoldsPart(c.pair, <<k, m[k]>>)
      BY <2>1, <2>3, <2>4, MapTyped
    <2> HIDE DEF m
    <2>6. Cardinality(DOMAIN m) \in IntegersOf(c.type)
      <3> DEFINE top == TwoTo[c.type.bits] - 1
      <3>1. IntegersOf(c.type) = 0..top /\ top \in Int
        BY <2>1, IntegersAreInt DEF IsUnsigned, IntegersOf
      <3> HIDE DEF top
      <3>2. QED
        BY <2>3, <2>4, <2>5, <3>1
    <2> HIDE DEF r
    <2>7. r[1] = m
      BY <2>2
    <2>8. Holds(c, m) /\ LengthsFit(c, m)
      BY <2>1, <2>5, <2>6 DEF Holds, LengthsFit, HoldsPart, PartFits, IsMap
    <2>9. Leaves(r, b)
      BY <2>2, <2>3 DEF Leaves
    <2>10. QED
      BY <2>1, <2>7, <2>8, <2>9 DEF r
  <1>6. CASE IsNullable(c)
    <2> DEFINE s == ReadFixed(BitBool, b)
               q == ReadPart(c.of, s[2])
    <2>1. r = (IF s = Failed THEN Failed ELSE IF s[1] = 0 THEN <<None, s[2]>> ELSE q)
          /\ IsPart(c.of) /\ c.kind = "nullable"
      BY <1>6, ValueReadIs DEF IsNullable, IsElement
    <2>2. s # Failed
      BY <2>1
    <2>3. Leaves(s, b)
      BY <2>2, FixedTyped, BitBoolIs
    <2> HIDE DEF s
    <2>4. s[2] \in Seq(Bit) /\ Len(s[2]) <= Len(b)
      BY <2>2, <2>3 DEF Leaves
    <2>5. CASE s[1] = 0
      <3> HIDE DEF r
      <3>1. r = <<None, s[2]>> /\ r[1] = None /\ r[2] = s[2]
        BY <2>1, <2>2, <2>5
      <3>2. Leaves(r, b)
        BY <2>4, <3>1 DEF Leaves
      <3>3. Holds(c, None) /\ LengthsFit(c, None)
        BY <2>1 DEF Holds, LengthsFit, HoldsPart, PartFits
      <3>4. QED
        BY <2>1, <3>1, <3>2, <3>3 DEF r
    <2>6. CASE s[1] # 0
      <3>1. r = q /\ q # Failed
        BY <2>1, <2>2, <2>6
      <3>2. Leaves(q, s[2]) /\ HoldsPart(c.of, q[1]) /\ PartFits(c.of, q[1])
        BY <2>1, <2>4, <3>1, PartTyped
      <3> HIDE DEF q, r
      <3>3. Leaves(q, b)
        <4>1. q = <<q[1], q[2]>> /\ q[2] \in Seq(Bit) /\ Len(q[2]) <= Len(s[2])
          BY <3>1, <3>2 DEF Leaves
        <4>2. Len(q[2]) <= Len(b)
          BY <2>4, <4>1, LenProperties
        <4>3. QED
          BY <4>1, <4>2 DEF Leaves
      <3>4. Holds(c, q[1]) /\ LengthsFit(c, q[1])
        BY <2>1, <3>2 DEF Holds, LengthsFit, HoldsPart, PartFits
      <3>5. QED
        BY <2>1, <3>1, <3>3, <3>4 DEF r
    <2>7. QED
      BY <2>5, <2>6
  <1>7. CASE IsOption(c)
    <2>1. r = ReadPart(c.of, b) /\ IsPart(c.of) /\ c.kind = "option"
      BY <1>7, ValueReadIs DEF IsOption, IsElement
    <2>2. Leaves(r, b) /\ HoldsPart(c.of, r[1]) /\ PartFits(c.of, r[1])
      BY <2>1, PartTyped
    <2> HIDE DEF r
    <2>3. Holds(c, r[1]) /\ LengthsFit(c, r[1])
      BY <2>1, <2>2 DEF Holds, LengthsFit, HoldsPart, PartFits
    <2>4. QED
      BY <2>1, <2>2, <2>3 DEF r
  <1>8. QED
    BY <1>1, <1>2, <1>3, <1>4, <1>5, <1>6, <1>7 DEF IsCodec

(* A value is written as bits. *)
LEMMA ValueWritten ==
    ASSUME NEW c, IsCodec(c), NEW v, Holds(c, v) \/ (IsOption(c) /\ v = None)
    PROVE  WriteValue(c, v) \in Seq(Bit)
  <1> DEFINE w == WriteValue(c, v)
  <1>0. <<0>> \in Seq(Bit) /\ <<1>> \in Seq(Bit) /\ << >> \in Seq(Bit)
    BY DEF Bit
  <1>1. CASE IsPart(c)
    <2>1. c.kind \in {"fixed", "flags", "varint", "bytes", "tuple"}
      BY <1>1, PartKind
    <2>2. Holds(c, v)
      BY <2>1 DEF IsOption
    <2>3. HoldsPart(c, v) /\ w = WritePart(c, v)
      BY <2>1, <2>2, ValueWriteIs DEF Holds
    <2>4. QED
      BY <1>1, <2>3, PartWritten
  <1>2. CASE IsSized(c)
    <2>1. w = NestedBits(c.type, c.of, v) /\ IsPart(c.of) /\ IsUnsigned(c.type) /\ Holds(c, v)
      BY <1>2, ValueWriteIs DEF IsSized, IsElement, NestedBits, IsOption
    <2>2. IsVector(v) /\ \A i \in 1..Len(v) : HoldsPart(c.of, v[i])
      BY <1>2, <2>1 DEF Holds, IsSized
    <2>3. QED
      BY <2>1, <2>2, NestedWritten
  <1>3. CASE IsCounted(c)
    <2>1. w = WriteMany(c.of, v) /\ IsPart(c.of) /\ Holds(c, v)
      BY <1>3, ValueWriteIs DEF IsCounted, IsElement, IsOption
    <2>2. IsVector(v) /\ \A i \in 1..Len(v) : HoldsPart(c.of, v[i])
      BY <1>3, <2>1 DEF Holds, IsCounted
    <2>3. QED
      BY <2>1, <2>2, ManyBits
  <1>4. CASE IsRest(c)
    <2>1. w = ByteBits(v) /\ Holds(c, v)
      BY <1>4, ValueWriteIs DEF IsRest, IsOption
    <2>2. Octets(v)
      BY <1>4, <2>1 DEF Holds, IsBytes, Octets, IsRest
    <2>3. QED
      BY <2>1, <2>2, ByteBitsAre
  <1>5. CASE IsMapCodec(c)
    <2>1. /\ w = LengthBits(c.type, Cardinality(DOMAIN v)) \o WriteMany(c.pair, Pairs(v))
          /\ IsPart(c.pair) /\ IsUnsigned(c.type) /\ Holds(c, v)
      BY <1>5, ValueWriteIs DEF IsMapCodec, IsPart, IsOption
    <2>2. IsMap(v) /\ \A k \in DOMAIN v : HoldsPart(c.pair, <<k, v[k]>>)
      BY <1>5, <2>1 DEF Holds, IsMapCodec, IsMap
    <2>3. /\ Len(Pairs(v)) = Cardinality(DOMAIN v) /\ IsVector(Pairs(v))
          /\ \A i \in 1..Len(Pairs(v)) : HoldsPart(c.pair, Pairs(v)[i])
      BY <2>2, PairsAre
    <2>4. NestedBits(c.type, c.pair, Pairs(v)) \in Seq(Bit)
      BY <2>1, <2>3, NestedWritten
    <2>5. QED
      BY <2>1, <2>3, <2>4 DEF NestedBits
  <1>6. CASE IsNullable(c)
    <2>1. w = (IF v = None THEN <<0>> ELSE <<1>> \o WritePart(c.of, v)) /\ IsPart(c.of) /\ Holds(c, v)
      BY <1>6, ValueWriteIs DEF IsNullable, IsElement, IsOption
    <2>2. CASE v = None
      BY <1>0, <2>1, <2>2
    <2>3. CASE v # None
      <3>1. HoldsPart(c.of, v)
        BY <1>6, <2>1, <2>3 DEF Holds, IsNullable
      <3>2. WritePart(c.of, v) \in Seq(Bit)
        BY <2>1, <3>1, PartWritten
      <3>3. QED
        BY <1>0, <2>1, <2>3, <3>2, ConcatProperties
    <2>4. QED
      BY <2>2, <2>3
  <1>7. CASE IsOption(c)
    <2>1. w = (IF v = None THEN << >> ELSE WritePart(c.of, v)) /\ IsPart(c.of)
      BY <1>7, ValueWriteIs DEF IsOption, IsElement
    <2>2. CASE v = None
      BY <1>0, <2>1, <2>2
    <2>3. CASE v # None
      <3>1. HoldsPart(c.of, v)
        BY <1>7, <2>3 DEF Holds, IsOption
      <3>2. WritePart(c.of, v) \in Seq(Bit)
        BY <2>1, <3>1, PartWritten
      <3>3. QED
        BY <2>1, <2>3, <3>2
    <2>4. QED
      BY <2>2, <2>3
  <1>8. QED
    BY <1>1, <1>2, <1>3, <1>4, <1>5, <1>6, <1>7 DEF IsCodec

(* A value, but the rest of a packet, is read as it was written. *)
LEMMA ValueRead ==
    ASSUME NEW c, IsCodec(c), ~IsRest(c), NEW v, Holds(c, v), LengthsFit(c, v), NEW p,
           c.kind = "counted" => p[c.count] = Len(v),
           NEW b \in Seq(Bit), Fits(b, WriteValue(c, v))
    PROVE  Gives(ReadValue(c, p, b), v, b, WriteValue(c, v), Sure(c, v))
  <1> DEFINE r == ReadValue(c, p, b)
             w == WriteValue(c, v)
  <1>0. <<0>> \in Seq(Bit) /\ <<1>> \in Seq(Bit) /\ << >> \in Seq(Bit)
    BY DEF Bit
  <1>1. CASE IsPart(c)
    <2>1. c.kind \in {"fixed", "flags", "varint", "bytes", "tuple"}
      BY <1>1, PartKind
    <2>2. HoldsPart(c, v) /\ PartFits(c, v)
      BY DEF Holds, LengthsFit
    <2>3. w = WritePart(c, v) /\ r = ReadPart(c, b)
      BY <2>1, ValueWriteIs, ValueReadIs
    <2>4. Fits(b, WritePart(c, v))
      BY <2>3
    <2>5. Gives(ReadPart(c, b), v, b, WritePart(c, v), Sure(c, v))
      BY <1>1, <2>2, <2>4, PartRead
    <2>6. QED
      BY <2>3, <2>5
  <1>2. CASE IsSized(c)
    <2>1. w = NestedBits(c.type, c.of, v) /\ IsElement(c.of) /\ IsUnsigned(c.type) /\ c.kind = "sized"
          /\ r = ReadNested(c.of, b, ReadVarint(c.type, b))
      BY <1>2, ValueWriteIs, ValueReadIs DEF IsSized, NestedBits
    <2>2. AreParts(c.of, v) /\ Len(v) \in IntegersOf(c.type)
      BY <2>1 DEF Holds, LengthsFit, AreParts
    <2>3. Gives(ReadNested(c.of, b, ReadVarint(c.type, b)), v, b, NestedBits(c.type, c.of, v), TRUE)
      BY <2>1, <2>2, NestedRead
    <2>4. QED
      BY <2>1, <2>3 DEF Gives
  <1>3. CASE IsCounted(c)
    <2>1. w = WriteMany(c.of, v) /\ IsElement(c.of) /\ c.kind = "counted"
      BY <1>3, ValueWriteIs DEF IsCounted
    <2>2. r = ReadMany(c.of, Len(v), b)
      BY <2>1, ValueReadIs
    <2>3. AreParts(c.of, v) /\ IsPart(c.of) /\ (IsVarint(c.of) => ~c.of.type.signed)
      BY <2>1 DEF Holds, LengthsFit, AreParts, IsElement
    <2>4. Fits(b, WriteMany(c.of, v))
      BY <2>1
    <2>5. Gives(ReadMany(c.of, Len(v), b), v, b, WriteMany(c.of, v), TRUE)
      BY <2>3, <2>4, ManyRead
    <2>6. QED
      BY <2>1, <2>2, <2>5 DEF Gives
  <1>5. CASE IsMapCodec(c)
    <2> DEFINE n == Cardinality(DOMAIN v)
               pairs == Pairs(v)
               s == ReadNested(c.pair, b, ReadVarint(c.type, b))
    <2>1. /\ w = LengthBits(c.type, n) \o WriteMany(c.pair, pairs)
          /\ IsTuple(c.pair) /\ IsUnsigned(c.type) /\ c.kind = "map"
          /\ r = IF s = Failed THEN Failed ELSE <<MapOf(s[1]), s[2]>>
      BY <1>5, ValueWriteIs, ValueReadIs DEF IsMapCodec
    <2>2. IsElement(c.pair)
      BY <2>1 DEF IsElement, IsPart, IsTuple, IsVarint
    <2>3. IsMap(v) /\ (\A k \in DOMAIN v : HoldsPart(c.pair, <<k, v[k]>>)) /\ n \in IntegersOf(c.type)
      BY <2>1 DEF Holds, LengthsFit, IsMap
    <2>4. /\ Len(pairs) = n /\ IsVector(pairs)
          /\ \A i \in 1..Len(pairs) : HoldsPart(c.pair, pairs[i])
      BY <2>3, PairsAre
    <2>5. MapOf(pairs) = v
      BY <2>3, PairsAre
    <2> HIDE DEF pairs, n
    <2>6. AreParts(c.pair, pairs)
      BY <2>1, <2>4 DEF AreParts, PartFits, IsTuple
    <2>7. w = NestedBits(c.type, c.pair, pairs)
      BY <2>1, <2>4 DEF NestedBits
    <2>8. Gives(s, pairs, b, NestedBits(c.type, c.pair, pairs), TRUE)
      <3>1. Fits(b, NestedBits(c.type, c.pair, pairs)) /\ Len(pairs) \in IntegersOf(c.type)
        BY <2>3, <2>4, <2>7
      <3>2. QED
        BY <2>1, <2>2, <2>6, <3>1, NestedRead
    <2> HIDE DEF s, w, r
    <2>9. s # Failed => s[1] = pairs /\ s = <<pairs, After(b, Len(w))>>
      BY <2>7, <2>8 DEF Gives
    <2>10. s # Failed => r = <<v, After(b, Len(w))>>
      BY <2>1, <2>5, <2>9
    <2>11. Gives(s, pairs, b, w, TRUE)
      BY <2>7, <2>8
    <2>12. Gives(r, v, b, w, TRUE)
      BY <2>1, <2>10, <2>11, NotFailed DEF Gives
    <2>13. QED
      BY <2>12 DEF Gives, w, r
  <1>6. CASE IsNullable(c)
    <2> DEFINE s == ReadFixed(BitBool, b)
               q == ReadPart(c.of, s[2])
               x == IF v = None THEN 0 ELSE 1
               u == Bits(x, 1)
               t == IF v = None THEN << >> ELSE WritePart(c.of, v)
    <2>1. r = (IF s = Failed THEN Failed ELSE IF s[1] = 0 THEN <<None, s[2]>> ELSE q)
          /\ IsElement(c.of) /\ IsPart(c.of) /\ c.kind = "nullable"
      BY <1>6, ValueReadIs DEF IsNullable, IsElement
    <2>2. v # None => HoldsPart(c.of, v) /\ PartFits(c.of, v) /\ Sure(c.of, v)
      <3>1. v # None => HoldsPart(c.of, v) /\ PartFits(c.of, v)
        BY <2>1 DEF Holds, LengthsFit
      <3>2. QED
        BY <2>1, <3>1, ElementSure
    <2>3. u \in Seq(Bit) /\ t \in Seq(Bit)
      <3>1. t \in Seq(Bit)
        BY <1>0, <2>1, <2>2, PartWritten
      <3>2. u \in Seq(Bit)
        BY <1>0, BitBoolBits
      <3>3. QED
        BY <3>1, <3>2
    <2>4. w = u \o t
      <3>1. w = IF v = None THEN <<0>> ELSE <<1>> \o WritePart(c.of, v)
        BY <2>1, ValueWriteIs
      <3>2. <<0>> \o << >> = <<0>>
        OBVIOUS
      <3>3. CASE v = None
        BY <3>1, <3>2, <3>3, BitBoolBits
      <3>4. CASE v # None
        BY <3>1, <3>4, BitBoolBits
      <3>5. QED
        BY <3>3, <3>4
    <2>5. x \in {0, 1} /\ (x = 0 <=> v = None)
      OBVIOUS
    <2> HIDE DEF u, t, x, w
    <2>6. Fits(b, u) /\ (Len(u) <= Len(b) => Fits(After(b, Len(u)), t))
      <3>1. Fits(b, u \o t)
        BY <2>4 DEF w
      <3>2. QED
        BY <2>3, <3>1, FitsParts
    <2>7. Gives(s, x, b, u, TRUE)
      BY <2>5, <2>6, FixedRead, BitBoolIs DEF u
    <2> HIDE DEF s, r
    <2>8. CASE s = Failed
      <3>1. Gives(Failed, v, b, u \o t, TRUE)
        BY <2>3, <2>7, <2>8, GivesNothing
      <3>2. r = Failed
        BY <2>1, <2>8
      <3>3. QED
        BY <2>4, <3>1, <3>2 DEF Gives, w, r
    <2>9. CASE s # Failed
      <3> DEFINE a == After(b, Len(u))
      <3>1. Len(u) <= Len(b) /\ s = <<x, a>>
        BY <2>7, <2>9 DEF Gives
      <3>2. a \in Seq(Bit)
        BY <2>3, <3>1, AfterBits, LenProperties
      <3>3. r = IF x = 0 THEN <<None, a>> ELSE q
        BY <2>1, <2>9, <3>1
      <3>4. q = ReadPart(c.of, a)
        BY <3>1
      <3>5. Len(u) <= Len(b) => Fits(a, t)
        BY <2>6
      <3> HIDE DEF a, q
      <3>6. Gives(r, v, a, t, TRUE)
        <4>1. CASE x = 0
          <5>1. v = None /\ t = << >>
            BY <2>5, <4>1 DEF t
          <5>2. After(a, 0) = a /\ Len(<< >>) = 0 /\ Len(a) >= 0
            BY <3>2, AfterNothing, LenProperties
          <5>3. r = <<v, After(a, Len(t))>>
            BY <3>3, <4>1, <5>1, <5>2
          <5>4. Len(t) <= Len(a)
            BY <3>2, <5>1, <5>2, LenProperties
          <5>5. QED
            BY <2>3, <5>3, <5>4, NotFailed DEF Gives
        <4>2. CASE x # 0
          <5>1. v # None /\ t = WritePart(c.of, v)
            BY <2>5, <4>2 DEF t
          <5>2. Fits(a, WritePart(c.of, v))
            BY <3>1, <3>5, <5>1
          <5>3. Gives(ReadPart(c.of, a), v, a, WritePart(c.of, v), Sure(c.of, v))
            BY <2>1, <2>2, <3>2, <5>1, <5>2, PartRead
          <5>4. Sure(c.of, v)
            BY <2>2, <5>1
          <5>5. r = ReadPart(c.of, a)
            BY <3>3, <3>4, <4>2
          <5>6. QED
            BY <5>1, <5>3, <5>4, <5>5 DEF Gives
        <4>3. QED
          BY <4>1, <4>2
      <3>7. Gives(r, v, b, u \o t, TRUE)
        BY <2>3, <3>1, <3>6, GivesBehind DEF a
      <3>8. QED
        BY <2>4, <3>7 DEF Gives, w, r
    <2>10. QED
      BY <2>8, <2>9
  <1>7. CASE IsOption(c)
    <2>1. c.kind = "option" /\ IsElement(c.of) /\ IsPart(c.of)
      BY <1>7 DEF IsOption, IsElement
    <2>2. HoldsPart(c.of, v) /\ PartFits(c.of, v)
      BY <2>1 DEF Holds, LengthsFit
    <2>3. v # None
      BY <2>1, <2>2, PartIsSome
    <2>4. r = ReadPart(c.of, b) /\ w = WritePart(c.of, v)
      BY <2>1, <2>3, ValueReadIs, ValueWriteIs
    <2>5. Fits(b, WritePart(c.of, v))
      BY <2>4
    <2>6. Gives(ReadPart(c.of, b), v, b, WritePart(c.of, v), Sure(c.of, v)) /\ Sure(c.of, v)
      BY <2>1, <2>2, <2>5, PartRead, ElementSure
    <2>7. QED
      BY <2>4, <2>6 DEF Gives
  <1>8. QED
    BY <1>1, <1>2, <1>3, <1>5, <1>6, <1>7 DEF IsCodec

(* The bytes that are there, and the most that may follow behind so many. *)
WholeBytes(b) == Len(b) \div 8

LessThanAByteMore(b, v) == Len(b) < 8 * Len(v) + 8

(* The bytes v at the end of a packet, of which n are there. *)
RestGives(c, v, p, b, n) ==
    /\ n \in 0..Len(v)
    /\ ReadValue(c, p, b) = <<[i \in 1..n |-> v[i]], After(b, 8 * n)>>
    /\ 8 * Len(v) <= Len(b) => [i \in 1..n |-> v[i]] = v

(* read_all gives the bytes that were written, or those of them that are left. *)
LEMMA RestRead ==
    ASSUME NEW c, IsRest(c), NEW v, IsBytes(v, c.values), NEW p,
           NEW b \in Seq(Bit), Fits(b, ByteBits(v)), LessThanAByteMore(b, v)
    PROVE  RestGives(c, v, p, b, WholeBytes(b))
  <1> DEFINE n == Len(b) \div 8
             bytes == [i \in 1..n |-> BitsValue(SubSeq(b, 8 * i - 7, 8 * i))]
  <1>1. Len(b) \in Nat /\ Len(v) \in Nat /\ v = [i \in 1..Len(v) |-> v[i]]
        /\ \A i \in 1..Len(v) : v[i] \in c.values
    BY LenProperties DEF IsBytes, IsVector
  <1>b. Len(b) < 8 * Len(v) + 8
    BY SMTT(60) DEF LessThanAByteMore
  <1>a. n \in Nat /\ n <= Len(v) /\ 8 * n <= Len(b) /\ (8 * Len(v) <= Len(b) => n = Len(v))
    BY <1>1, <1>b, DivEight
  <1>2. n \in 0..Len(v) /\ ~(Len(b) < 8 * n) /\ (8 * Len(v) <= Len(b) => n = Len(v))
    <2> HIDE DEF n
    <2>1. QED
      BY <1>1, <1>a
  <1>3. Octets(v)
    BY DEF Octets, IsBytes, IsRest
  <1>4. ASSUME NEW i \in 1..n
        PROVE  BitsValue(SubSeq(b, 8 * i - 7, 8 * i)) = v[i] /\ v[i] \in c.values
    <2>1. i \in 1..Len(v) /\ 8 * i <= Len(b)
      <3> HIDE DEF n
      <3>1. QED
        BY <1>1, <1>a
    <2>2. QED
      BY <1>1, <1>3, <2>1, ByteRead
  <1>5. ReadValue(c, p, b) = ReadBytes(c.values, n, b)
    BY ValueReadIs DEF IsRest
  <1>6. bytes = [i \in 1..n |-> v[i]] /\ \A i \in 1..n : bytes[i] \in c.values
    BY <1>4
  <1>7. ReadBytes(c.values, n, b) = <<bytes, After(b, 8 * n)>>
    BY <1>2, <1>6 DEF ReadBytes
  <1>10. n = WholeBytes(b)
    BY DEF WholeBytes
  <1> HIDE DEF n, bytes
  <1>8. 8 * Len(v) <= Len(b) => [i \in 1..n |-> v[i]] = v
    BY <1>1, <1>2
  <1>9. QED
    BY <1>2, <1>5, <1>6, <1>7, <1>8, <1>10 DEF RestGives

(* Layouts *)

\* A count holds every number of its type.
IsCountCodec(c) ==
    \/ c.kind = "fixed" /\ c.bits \in Nat \ {0} /\ c.values = Unsigned(c.bits)
    \/ IsVarint(c) /\ ~c.type.signed

\* A condition, and a count, is about fields before the one that needs them.
IsFieldAt(L, i) ==
    /\ IsCodec(L[i].codec)
    /\ L[i].codec.kind = "rest" => i = Len(L) /\ L[i].cond = <<>>
    /\ \A k \in DOMAIN L[i].cond : \E j \in 1..(i - 1) : L[j].name = L[i].cond[k].name
    /\ L[i].codec.kind = "counted" =>
          \E j \in 1..(i - 1) :
              L[j].name = L[i].codec.count /\ L[j].cond = <<>> /\ IsCountCodec(L[j].codec)
    /\ IF L[i].codec.kind = "option" THEN L[i].default = None
       ELSE L[i].cond # <<>> => Holds(L[i].codec, L[i].default)

IsLayout(L) ==
    /\ IsVector(L)
    /\ \A i, j \in 1..Len(L) : L[i].name = L[j].name => i = j
    /\ \A i \in 1..Len(L) : IsFieldAt(L, i)

HoldsField(f, v) == Holds(f.codec, v) \/ (f.codec.kind = "option" /\ v = None)

Agree(f, p, q) ==
    /\ p[f.name] = q[f.name]
    /\ \A k \in DOMAIN f.cond : p[f.cond[k].name] = q[f.cond[k].name]
    /\ f.codec.kind = "counted" => p[f.codec.count] = q[f.codec.count]

(* A layout is a sequence of fields. *)
LEMMA LayoutDomain ==
    ASSUME NEW L, IsLayout(L)
    PROVE  Len(L) \in Nat /\ DOMAIN L = 1..Len(L) /\ FieldNames(L) = {L[i].name : i \in 1..Len(L)}
  <1>1. Len(L) \in Nat /\ L = [i \in 1..Len(L) |-> L[i]]
    BY DEF IsLayout, IsVector
  <1>2. DOMAIN L = 1..Len(L)
    BY <1>1
  <1>3. QED
    BY <1>1, <1>2 DEF FieldNames

(* Whether a field is in step depends on it, its condition and its count only. *)
LEMMA InStepAgree ==
    ASSUME NEW f, NEW p, NEW q, Agree(f, p, q), FieldInStep(f, p)
    PROVE  FieldInStep(f, q)
  <1>1. IsThere(f, p) <=> IsThere(f, q)
    BY DEF IsThere, Agree
  <1>2. p[f.name] = q[f.name] /\ (f.codec.kind = "counted" => p[f.codec.count] = q[f.codec.count])
    BY DEF Agree
  <1>3. CASE IsThere(f, p)
    BY <1>1, <1>2, <1>3 DEF FieldInStep
  <1>4. CASE ~IsThere(f, p)
    BY <1>1, <1>2, <1>4 DEF FieldInStep
  <1>5. QED
    BY <1>3, <1>4

\* The fields up to the i-th.
NamesTo(L, i) == {L[j].name : j \in 1..i}

Only(L, p, i) == [x \in NamesTo(L, i) |-> p[x]]

(* The names of the fields up to the next one; no two fields share one. *)
LEMMA NamesGrow ==
    ASSUME NEW L, IsLayout(L), NEW i \in Nat, i + 1 <= Len(L)
    PROVE  /\ NamesTo(L, i + 1) = NamesTo(L, i) \cup {L[i + 1].name}
           /\ L[i + 1].name \notin NamesTo(L, i)
  <1>1. Len(L) \in Nat
    BY LayoutDomain
  <1>2. 1..(i + 1) = (1..i) \cup {i + 1}
    OBVIOUS
  <1>3. NamesTo(L, i + 1) = NamesTo(L, i) \cup {L[i + 1].name}
    BY <1>2 DEF NamesTo
  <1>4. \A j \in 1..i : j \in 1..Len(L) /\ i + 1 \in 1..Len(L) /\ j # i + 1
    BY <1>1
  <1>5. \A j \in 1..i : L[j].name # L[i + 1].name
    BY <1>4 DEF IsLayout
  <1>6. QED
    BY <1>3, <1>5 DEF NamesTo

(* What a field needs of the packet is in the fields before it. *)
LEMMA NeedsBefore ==
    ASSUME NEW L, IsLayout(L), NEW i \in 1..Len(L)
    PROVE  /\ \A k \in DOMAIN L[i].cond : L[i].cond[k].name \in NamesTo(L, i - 1)
           /\ L[i].codec.kind = "counted" => L[i].codec.count \in NamesTo(L, i - 1)
  <1>1. IsFieldAt(L, i)
    BY DEF IsLayout
  <1>2. \A k \in DOMAIN L[i].cond : L[i].cond[k].name \in NamesTo(L, i - 1)
    BY <1>1 DEF IsFieldAt, NamesTo
  <1>3. L[i].codec.kind = "counted" => L[i].codec.count \in NamesTo(L, i - 1)
    BY <1>1 DEF IsFieldAt, NamesTo
  <1>4. QED
    BY <1>2, <1>3

(* What is read so far of a packet is in step. *)
PartInStep(L, q, i) == DOMAIN q = NamesTo(L, i) /\ \A j \in 1..i : FieldInStep(L[j], q)

(* A field in step, put behind those before it, leaves them in step. *)
LEMMA PartGrows ==
    ASSUME NEW L, IsLayout(L), NEW i \in Nat, i + 1 <= Len(L), NEW q, PartInStep(L, q, i), NEW v,
           FieldInStep(L[i + 1], Put(q, L[i + 1].name, v))
    PROVE  PartInStep(L, Put(q, L[i + 1].name, v), i + 1)
  <1> DEFINE n == L[i + 1].name
             t == Put(q, n, v)
  <1>1. DOMAIN t = DOMAIN q \cup {n} /\ \A x \in DOMAIN q : x # n => t[x] = q[x]
    BY DEF Put
  <1>2. NamesTo(L, i + 1) = NamesTo(L, i) \cup {n} /\ n \notin NamesTo(L, i) /\ DOMAIN q = NamesTo(L, i)
    BY NamesGrow DEF PartInStep
  <1> HIDE DEF t
  <1>3. \A x \in NamesTo(L, i) : t[x] = q[x]
    BY <1>1, <1>2
  <1>4. ASSUME NEW j \in 1..i PROVE FieldInStep(L[j], t)
    <2>1. j \in 1..Len(L) /\ Len(L) \in Nat
      BY LayoutDomain
    <2>2. \A k \in 1..(j - 1) : k \in 1..i
      OBVIOUS
    <2>3. \A x \in NamesTo(L, j - 1) : x \in NamesTo(L, i)
      BY <2>2 DEF NamesTo
    <2>4. L[j].name \in NamesTo(L, i)
      BY DEF NamesTo
    <2>5. \A k \in DOMAIN L[j].cond : L[j].cond[k].name \in NamesTo(L, j - 1)
      BY <2>1, NeedsBefore
    <2>6. L[j].codec.kind = "counted" => L[j].codec.count \in NamesTo(L, j - 1)
      BY <2>1, NeedsBefore
    <2>7. Agree(L[j], q, t)
      BY <1>3, <2>3, <2>4, <2>5, <2>6 DEF Agree
    <2>8. FieldInStep(L[j], q)
      BY DEF PartInStep
    <2>9. QED
      BY <2>7, <2>8, InStepAgree
  <1>5. \A j \in 1..(i + 1) : FieldInStep(L[j], t)
    <2>1. \A j \in 1..(i + 1) : j \in 1..i \/ j = i + 1
      OBVIOUS
    <2>2. FieldInStep(L[i + 1], t)
      BY DEF t
    <2>3. QED
      BY <1>4, <2>1, <2>2
  <1>6. QED
    BY <1>1, <1>2, <1>5 DEF PartInStep, t

(* A count is a natural number. *)
LEMMA CountIsNat ==
    ASSUME NEW L, IsLayout(L), NEW i \in 1..Len(L), L[i].codec.kind = "counted", NEW q,
           \A j \in 1..(i - 1) : FieldInStep(L[j], q)
    PROVE  q[L[i].codec.count] \in Nat
  <1>1. PICK j \in 1..(i - 1) :
            L[j].name = L[i].codec.count /\ L[j].cond = <<>> /\ IsCountCodec(L[j].codec)
    BY DEF IsLayout, IsFieldAt
  <1>2. IsThere(L[j], q)
    BY <1>1 DEF IsThere
  <1>3. HoldsPart(L[j].codec, q[L[j].name])
    BY <1>2 DEF FieldInStep, Holds
  <1>4. CASE IsVarint(L[j].codec) /\ ~L[j].codec.type.signed
    <2>1. q[L[j].name] \in IntegersOf(L[j].codec.type)
      BY <1>3, <1>4 DEF IsVarint, HoldsPart
    <2>2. QED
      BY <1>1, <1>4, <2>1, IntegersAreInt DEF IsVarint
  <1>5. CASE /\ L[j].codec.kind = "fixed" /\ L[j].codec.bits \in Nat \ {0}
             /\ L[j].codec.values = Unsigned(L[j].codec.bits)
    <2>1. q[L[j].name] \in Unsigned(L[j].codec.bits)
      BY <1>3, <1>5 DEF HoldsPart
    <2>2. q[L[j].name] \in Nat
      <3>1. TwoTo[L[j].codec.bits] \in Nat
        BY <1>5, TwoToPositive
      <3>2. QED
        BY <2>1, <3>1 DEF Unsigned
    <2>3. QED
      BY <1>1, <2>2
  <1>6. QED
    BY <1>1, <1>4, <1>5 DEF IsCountCodec

(* The reader of a field: what is not there gets its default. *)
LEMMA FieldReadIs ==
    ASSUME NEW f, NEW p, NEW b
    PROVE  LET r == ReadValue(f.codec, p, b)
           IN  /\ ~IsThere(f, p) => ReadField(f, p, b) = <<Put(p, f.name, f.default), b>>
               /\ IsThere(f, p) =>
                     ReadField(f, p, b) = IF r = Failed THEN Failed ELSE <<Put(p, f.name, r[1]), r[2]>>
  <1>1. ~IsThere(f, p) => ReadField(f, p, b) = <<Put(p, f.name, f.default), b>>
    BY DEF ReadField
  <1>2. LET r == ReadValue(f.codec, p, b)
        IN  IsThere(f, p) =>
                     ReadField(f, p, b) = IF r = Failed THEN Failed ELSE <<Put(p, f.name, r[1]), r[2]>>
    BY DEF ReadField, Then
  <1>3. QED
    BY <1>1, <1>2

(* A field that is read is in step with those before it. *)
LEMMA FieldTyped ==
    ASSUME NEW L, IsLayout(L), NEW i \in Nat, i + 1 <= Len(L), NEW q, PartInStep(L, q, i),
           NEW b \in Seq(Bit), ReadField(L[i + 1], q, b) # Failed
    PROVE  LET r == ReadField(L[i + 1], q, b)
           IN  Leaves(r, b) /\ PartInStep(L, r[1], i + 1)
  <1> DEFINE f == L[i + 1]
             r == ReadField(f, q, b)
             s == ReadValue(f.codec, q, b)
  <1>1. i + 1 \in 1..Len(L) /\ (i + 1) - 1 = i /\ Len(L) \in Nat
    BY LayoutDomain
  <1>2. IsFieldAt(L, i + 1)
    BY <1>1 DEF IsLayout
  <1>3. IsCodec(f.codec)
    BY <1>2 DEF IsFieldAt
  <1>4. DOMAIN q = NamesTo(L, i) /\ \A j \in 1..i : FieldInStep(L[j], q)
    BY DEF PartInStep
  <1>5. f.name \notin NamesTo(L, i)
    BY NamesGrow
  <1>6. /\ \A k \in DOMAIN f.cond : f.cond[k].name \in NamesTo(L, i)
        /\ f.codec.kind = "counted" => f.codec.count \in NamesTo(L, i)
    <2>1. /\ \A k \in DOMAIN L[i + 1].cond : L[i + 1].cond[k].name \in NamesTo(L, (i + 1) - 1)
          /\ L[i + 1].codec.kind = "counted" => L[i + 1].codec.count \in NamesTo(L, (i + 1) - 1)
      BY <1>1, NeedsBefore
    <2>2. QED
      BY <1>1, <2>1
  <1>7. ASSUME NEW v
        PROVE  LET t == Put(q, f.name, v)
               IN  /\ t[f.name] = v
                   /\ \A x \in NamesTo(L, i) : t[x] = q[x]
                   /\ IsThere(f, t) <=> IsThere(f, q)
    <2> DEFINE t == Put(q, f.name, v)
    <2>1. t[f.name] = v /\ \A x \in NamesTo(L, i) : t[x] = q[x]
      BY <1>4, <1>5 DEF Put
    <2> HIDE DEF t
    <2>2. \A k \in DOMAIN f.cond : t[f.cond[k].name] = q[f.cond[k].name]
      BY <1>6, <2>1
    <2>3. IsThere(f, t) <=> IsThere(f, q)
      BY <2>2 DEF IsThere
    <2>4. QED
      BY <2>1, <2>3 DEF t
  <1> HIDE DEF f
  <1>8. CASE ~IsThere(f, q)
    <2> DEFINE t == Put(q, f.name, f.default)
    <2>1. r = <<t, b>>
      BY <1>8, FieldReadIs
    <2>2. t[f.name] = f.default /\ ~IsThere(f, t)
      BY <1>7, <1>8
    <2> HIDE DEF t, r
    <2>3. FieldInStep(f, t)
      BY <2>2 DEF FieldInStep
    <2>4. PartInStep(L, t, i + 1)
      BY <2>3, PartGrows DEF t, f
    <2>5. Len(b) <= Len(b)
      BY LenProperties
    <2>6. r[1] = t /\ Leaves(r, b)
      BY <2>1, <2>5 DEF Leaves
    <2>7. QED
      BY <2>4, <2>6 DEF r, f
  <1>9. CASE IsThere(f, q)
    <2> DEFINE t == Put(q, f.name, s[1])
    <2>1. r = IF s = Failed THEN Failed ELSE <<t, s[2]>>
      BY <1>9, FieldReadIs
    <2>2. s # Failed /\ r = <<t, s[2]>>
      BY <2>1 DEF f
    <2>3. f.codec.kind = "counted" => q[f.codec.count] \in Nat
      <3> SUFFICES ASSUME f.codec.kind = "counted" PROVE q[f.codec.count] \in Nat
        OBVIOUS
      <3>1. \A j \in 1..((i + 1) - 1) : FieldInStep(L[j], q)
        BY <1>1, <1>4
      <3>2. QED
        BY <1>1, <3>1, CountIsNat DEF f
    <2>4. /\ Leaves(s, b) /\ Holds(f.codec, s[1]) /\ LengthsFit(f.codec, s[1])
          /\ f.codec.kind = "counted" => Len(s[1]) = q[f.codec.count]
      BY <1>3, <2>2, <2>3, ValueTyped
    <2> HIDE DEF s
    <2>5. t[f.name] = s[1] /\ IsThere(f, t) /\ \A x \in NamesTo(L, i) : t[x] = q[x]
      BY <1>7, <1>9
    <2> HIDE DEF t, r
    <2>6. f.codec.kind = "counted" => t[f.codec.count] = q[f.codec.count]
      BY <1>6, <2>5
    <2>7. FieldInStep(f, t)
      BY <2>4, <2>5, <2>6 DEF FieldInStep
    <2>8. PartInStep(L, t, i + 1)
      BY <2>7, PartGrows DEF t, f
    <2>9. r[1] = t /\ Leaves(r, b)
      BY <2>2, <2>4 DEF Leaves
    <2>10. QED
      BY <2>8, <2>9 DEF r, f
  <1>10. QED
    BY <1>8, <1>9

(* Whatever the bits are, fields that were read are in step. *)
LEMMA FieldsTyped ==
    ASSUME NEW L, IsLayout(L), NEW b \in Seq(Bit), ReadFields(L, b) # Failed
    PROVE  Leaves(ReadFields(L, b), b) /\ InStep(L, ReadFields(L, b)[1])
  <1> DEFINE n == Len(L)
             f == FieldsReading(L, b, n)
             Good(i) == i <= n /\ f[i] # Failed => Leaves(f[i], b) /\ PartInStep(L, f[i][1], i)
             S == {i \in Nat : Good(i)}
  <1>1. n \in Nat /\ DOMAIN L = 1..n /\ FieldNames(L) = NamesTo(L, n)
    BY LayoutDomain DEF NamesTo
  <1>2. /\ f[0] = NoFieldRead(b)
        /\ \A i \in 1..n : f[i] = NextField(L[i], f[i - 1])
        /\ ReadFields(L, b) = f[n]
    BY <1>1, FieldsReadSteps
  <1> HIDE DEF f, n
  <1>3. 0 \in S
    <2> DEFINE q == [x \in {} |-> None]
    <2>1. f[0] = <<q, b>> /\ f[0][1] = q /\ f[0][2] = b
      BY <1>2 DEF NoFieldRead
    <2>2. PartInStep(L, q, 0)
      BY DEF PartInStep, NamesTo
    <2>3. Len(b) <= Len(b)
      BY LenProperties
    <2> HIDE DEF q
    <2>4. Leaves(f[0], b) /\ PartInStep(L, f[0][1], 0)
      BY <2>1, <2>2, <2>3 DEF Leaves
    <2>5. QED
      BY <2>4
  <1>4. ASSUME NEW i \in Nat, i \in S PROVE i + 1 \in S
    <2>1. Good(i)
      BY <1>4
    <2> SUFFICES ASSUME i + 1 <= n, f[i + 1] # Failed
                 PROVE  Leaves(f[i + 1], b) /\ PartInStep(L, f[i + 1][1], i + 1)
      <3>1. Good(i + 1)
        OBVIOUS
      <3> HIDE DEF Good
      <3>2. QED
        BY <3>1
    <2> DEFINE r == f[i]
               s == ReadField(L[i + 1], r[1], r[2])
    <2>2. i + 1 \in 1..n /\ (i + 1) - 1 = i /\ i <= n
      BY <1>1
    <2>3. f[i + 1] = NextField(L[i + 1], r)
      BY <1>2, <2>2
    <2>4. r # Failed /\ f[i + 1] = s /\ s # Failed
      BY <2>3 DEF NextField
    <2>5. Leaves(r, b) /\ PartInStep(L, r[1], i)
      BY <2>1, <2>2, <2>4
    <2> HIDE DEF r
    <2>6. r[2] \in Seq(Bit) /\ Len(r[2]) <= Len(b)
      BY <2>4, <2>5 DEF Leaves
    <2>7. Leaves(s, r[2]) /\ PartInStep(L, s[1], i + 1)
      BY <2>4, <2>5, <2>6, FieldTyped DEF n
    <2> HIDE DEF s
    <2>8. Leaves(s, b)
      <3>1. s = <<s[1], s[2]>> /\ s[2] \in Seq(Bit) /\ Len(s[2]) <= Len(r[2])
        BY <2>4, <2>7 DEF Leaves
      <3>2. Len(s[2]) <= Len(b)
        BY <2>6, <3>1, LenProperties
      <3>3. QED
        BY <3>1, <3>2 DEF Leaves
    <2>9. QED
      BY <2>4, <2>7, <2>8
  <1>5. Good(n)
    <2> HIDE DEF Good
    <2>1. n \in S
      <3> HIDE DEF S
      <3>1. QED
        BY <1>1, <1>3, <1>4, Induction
    <2>2. QED
      BY <2>1
  <1>6. Leaves(f[n], b) /\ PartInStep(L, f[n][1], n)
    BY <1>1, <1>2, <1>5
  <1>7. InStep(L, f[n][1])
    BY <1>1, <1>6 DEF InStep, PartInStep
  <1>8. QED
    BY <1>2, <1>6, <1>7

(* A packet whose fields are of their types is written as bits. *)
LEMMA FieldsBits ==
    ASSUME NEW L, IsLayout(L), NEW p, \A i \in 1..Len(L) : HoldsField(L[i], p[L[i].name])
    PROVE  /\ WriteFields(L, p) \in Seq(Bit)
           /\ \A i \in 0..Len(L) : FieldsWriting(L, p, Len(L))[i] \in Seq(Bit)
           /\ \A i \in 1..Len(L) : WriteField(L[i], p) \in Seq(Bit)
  <1> DEFINE n == Len(L)
             W == FieldsWriting(L, p, n)
             S == {i \in Nat : i <= n => W[i] \in Seq(Bit)}
  <1>1. n \in Nat
    BY LayoutDomain
  <1>2. /\ W[0] = <<>>
        /\ \A i \in 1..n : W[i] = W[i - 1] \o WriteField(L[i], p)
        /\ WriteFields(L, p) = W[n]
    BY <1>1, FieldsWritten
  <1>3. ASSUME NEW i \in 1..n PROVE WriteField(L[i], p) \in Seq(Bit)
    <2> DEFINE v == p[L[i].name]
               c == L[i].codec
    <2>1. IsCodec(c)
      BY DEF IsLayout, IsFieldAt
    <2>2. Holds(c, v) \/ (IsOption(c) /\ v = None)
      <3>1. Holds(c, v) \/ (c.kind = "option" /\ v = None)
        BY DEF HoldsField
      <3>2. c.kind = "option" => IsOption(c)
        BY <2>1, PartKind DEF IsCodec, IsOption, IsSized, IsCounted, IsRest, IsMapCodec, IsNullable
      <3>3. QED
        BY <3>1, <3>2
    <2>3. WriteValue(c, v) \in Seq(Bit)
      BY <2>1, <2>2, ValueWritten
    <2>4. QED
      BY <2>3 DEF WriteField
  <1> HIDE DEF W, n
  <1>4. 0 \in S
    <2>1. W[0] \in Seq(Bit)
      BY <1>2
    <2>2. QED
      BY <2>1
  <1>5. ASSUME NEW i \in Nat, i \in S PROVE i + 1 \in S
    <2> SUFFICES ASSUME i + 1 <= n PROVE W[i + 1] \in Seq(Bit)
      OBVIOUS
    <2>1. i + 1 \in 1..n /\ (i + 1) - 1 = i
      BY <1>1
    <2>2. W[i] \in Seq(Bit)
      BY <1>1, <1>5, <2>1
    <2>3. WriteField(L[i + 1], p) \in Seq(Bit)
      BY <1>3, <2>1
    <2>4. W[i + 1] = W[i] \o WriteField(L[i + 1], p)
      BY <1>2, <2>1
    <2>5. QED
      BY <2>2, <2>3, <2>4, ConcatProperties
  <1>6. \A i \in Nat : i \in S
    <2> HIDE DEF S
    <2>1. QED
      BY <1>4, <1>5, Induction
  <1>7. \A i \in 0..n : W[i] \in Seq(Bit)
    BY <1>1, <1>6
  <1>8. n \in 0..n
    BY <1>1
  <1>9. QED
    BY <1>2, <1>3, <1>7, <1>8 DEF W, n

FieldsInStep(L, p) == \A i \in 1..Len(L) : FieldInStep(L[i], p)

(* A packet in step has values of the types of its fields. *)
LEMMA InStepHolds ==
    ASSUME NEW L, IsLayout(L), NEW p, FieldsInStep(L, p)
    PROVE  \A i \in 1..Len(L) : HoldsField(L[i], p[L[i].name])
  <1> SUFFICES ASSUME NEW i \in 1..Len(L) PROVE HoldsField(L[i], p[L[i].name])
    OBVIOUS
  <1>1. FieldInStep(L[i], p) /\ IsFieldAt(L, i)
    BY DEF FieldsInStep, IsLayout
  <1>2. CASE IsThere(L[i], p)
    BY <1>1, <1>2 DEF FieldInStep, HoldsField
  <1>3. CASE ~IsThere(L[i], p)
    <2>1. p[L[i].name] = L[i].default
      BY <1>1, <1>3 DEF FieldInStep
    <2>2. L[i].cond # <<>>
      BY <1>3 DEF IsThere
    <2>3. QED
      BY <1>1, <2>1, <2>2 DEF IsFieldAt, HoldsField
  <1>4. QED
    BY <1>2, <1>3

(* The fields up to the next one are those before it and itself. *)
LEMMA OnlyIs ==
    ASSUME NEW L, IsLayout(L), NEW p, NEW i \in Nat, i + 1 <= Len(L)
    PROVE  Put(Only(L, p, i), L[i + 1].name, p[L[i + 1].name]) = Only(L, p, i + 1)
  <1> DEFINE n == L[i + 1].name
             q == Only(L, p, i)
  <1>1. NamesTo(L, i + 1) = NamesTo(L, i) \cup {n} /\ n \notin NamesTo(L, i)
    BY NamesGrow
  <1>2. DOMAIN q = NamesTo(L, i) /\ \A x \in NamesTo(L, i) : q[x] = p[x]
    BY DEF Only
  <1> HIDE DEF q, n
  <1>3. Put(q, n, p[n]) = [x \in NamesTo(L, i) \cup {n} |-> IF x = n THEN p[n] ELSE q[x]]
    BY <1>2 DEF Put
  <1>4. \A x \in NamesTo(L, i) \cup {n} : (IF x = n THEN p[n] ELSE q[x]) = p[x]
    BY <1>2
  <1>5. Put(q, n, p[n]) = [x \in NamesTo(L, i) \cup {n} |-> p[x]]
    BY <1>3, <1>4
  <1>6. QED
    BY <1>1, <1>5 DEF Only, q, n

(* A field is read as it was written, behind those before it. *)
LEMMA FieldRead ==
    ASSUME NEW L, IsLayout(L), NEW p, FieldsInStep(L, p), NEW i \in Nat, i + 1 <= Len(L),
           L[i + 1].codec.kind # "rest", ReadsAsWritten(L[i + 1]), NEW b \in Seq(Bit), Fits(b, WriteField(L[i + 1], p))
    PROVE  Gives(ReadField(L[i + 1], Only(L, p, i), b), Only(L, p, i + 1), b,
                 WriteField(L[i + 1], p), Sure(L[i + 1].codec, p[L[i + 1].name]))
  <1> DEFINE f == L[i + 1]
             q == Only(L, p, i)
             t == Only(L, p, i + 1)
             v == p[f.name]
             w == WriteField(f, p)
             r == ReadField(f, q, b)
             s == ReadValue(f.codec, q, b)
  <1>1. i + 1 \in 1..Len(L) /\ (i + 1) - 1 = i /\ Len(L) \in Nat
    BY LayoutDomain
  <1>2. IsCodec(f.codec) /\ ~IsRest(f.codec)
    BY <1>1 DEF IsLayout, IsFieldAt, IsRest
  <1>3. /\ \A k \in DOMAIN f.cond : f.cond[k].name \in NamesTo(L, i)
        /\ f.codec.kind = "counted" => f.codec.count \in NamesTo(L, i)
    <2>1. /\ \A k \in DOMAIN L[i + 1].cond : L[i + 1].cond[k].name \in NamesTo(L, (i + 1) - 1)
          /\ L[i + 1].codec.kind = "counted" => L[i + 1].codec.count \in NamesTo(L, (i + 1) - 1)
      BY <1>1, NeedsBefore
    <2>2. QED
      BY <1>1, <2>1
  <1>4. \A x \in NamesTo(L, i) : q[x] = p[x]
    BY DEF Only
  <1>5. Put(q, f.name, v) = t
    BY OnlyIs
  <1>6. FieldInStep(f, p)
    BY <1>1 DEF FieldsInStep
  <1>7. w \in Seq(Bit)
    <2>1. \A k \in 1..Len(L) : HoldsField(L[k], p[L[k].name])
      BY InStepHolds
    <2>2. QED
      BY <1>1, <2>1, FieldsBits
  <1> HIDE DEF q, f, t
  <1>8. IsThere(f, q) <=> IsThere(f, p)
    BY <1>3, <1>4 DEF IsThere
  <1>9. CASE ~IsThere(f, p)
    <2>1. v = f.default /\ w = << >>
      <3>1. f.cond # <<>>
        BY <1>9 DEF IsThere
      <3>2. f.codec.kind = "option" /\ f.default = None
        BY <1>1, <3>1 DEF ReadsAsWritten, IsLayout, IsFieldAt, f
      <3>3. v = f.default
        BY <1>6, <1>9 DEF FieldInStep
      <3>4. QED
        BY <3>2, <3>3, ValueWriteIs DEF WriteField
    <2>2. ~IsThere(f, q)
      BY <1>8, <1>9
    <2>3. r = <<Put(q, f.name, f.default), b>>
      BY <2>2, FieldReadIs
    <2>4. r = <<t, b>>
      BY <1>5, <2>1, <2>3
    <2>5. After(b, Len(w)) = b /\ Len(w) <= Len(b)
      BY <2>1, AfterNothing, LenProperties
    <2> HIDE DEF r, w, v
    <2>6. r = <<t, After(b, Len(w))>>
      BY <2>4, <2>5
    <2>7. Gives(r, t, b, w, Sure(f.codec, v))
      BY <1>7, <2>5, <2>6, NotFailed DEF Gives
    <2>8. QED
      BY <2>7 DEF r, w, v, t, f, q
  <1>10. CASE IsThere(f, p)
    <2>1. /\ Holds(f.codec, v) /\ LengthsFit(f.codec, v)
          /\ f.codec.kind = "counted" => Len(v) = p[f.codec.count]
      BY <1>6, <1>10 DEF FieldInStep
    <2>2. w = WriteValue(f.codec, v)
      BY DEF WriteField
    <2>3. f.codec.kind = "counted" => q[f.codec.count] = Len(v)
      BY <1>3, <1>4, <2>1
    <2>4. r = IF s = Failed THEN Failed ELSE <<Put(q, f.name, s[1]), s[2]>>
      BY <1>8, <1>10, FieldReadIs
    <2>5. Fits(b, WriteValue(f.codec, v))
      BY <2>2 DEF f
    <2> HIDE DEF v, r
    <2>6. Gives(s, v, b, WriteValue(f.codec, v), Sure(f.codec, v))
      BY <1>2, <2>1, <2>3, <2>5, ValueRead
    <2> HIDE DEF s, w
    <2>7. s # Failed => Len(w) <= Len(b) /\ s = <<v, After(b, Len(w))>>
      BY <2>2, <2>6 DEF Gives
    <2>8. s # Failed => r = <<t, After(b, Len(w))>>
      BY <1>5, <2>4, <2>7 DEF v
    <2>9. Gives(s, v, b, w, Sure(f.codec, v))
      BY <2>2, <2>6
    <2>10. Gives(r, t, b, w, Sure(f.codec, v))
      <3>1. CASE s = Failed
        BY <2>4, <2>9, <3>1 DEF Gives
      <3>2. CASE s # Failed
        BY <1>7, <2>7, <2>8, <3>2, NotFailed DEF Gives
      <3>3. QED
        BY <3>1, <3>2
    <2>11. QED
      BY <2>10 DEF r, w, v, t, f, q
  <1>11. QED
    BY <1>9, <1>10

(* The fields before the bytes at the end are read as they were written. *)
LEMMA FieldsRead ==
    ASSUME NEW L, IsLayout(L), NEW p, FieldsInStep(L, p), NEW m \in 0..Len(L),
           \A i \in 1..m : L[i].codec.kind # "rest", FieldsReadAsWritten(L, m),
           NEW b \in Seq(Bit), Fits(b, FieldsWriting(L, p, Len(L))[m])
    PROVE  Gives(FieldsReading(L, b, Len(L))[m], Only(L, p, m), b,
                 FieldsWriting(L, p, Len(L))[m], ReadableFields(L, p))
  <1> DEFINE n == Len(L)
             f == FieldsReading(L, b, n)
             W == FieldsWriting(L, p, n)
             sure == ReadableFields(L, p)
             Good(i) == i <= m /\ Fits(b, W[i]) => Gives(f[i], Only(L, p, i), b, W[i], sure)
             S == {i \in Nat : Good(i)}
  <1>1. n \in Nat /\ m \in Nat /\ m <= n
    BY LayoutDomain
  <1>2. /\ W[0] = <<>>
        /\ \A i \in 1..n : W[i] = W[i - 1] \o WriteField(L[i], p)
    <2>1. /\ W[0] = <<>>
          /\ \A i \in 1..n : W[i] = W[i - 1] \o WriteField(L[i], p)
          /\ WriteFields(L, p) = W[n]
      BY <1>1, FieldsWritten
    <2>2. QED
      BY <2>1
  <1>3. /\ f[0] = NoFieldRead(b)
        /\ \A i \in 1..n : f[i] = NextField(L[i], f[i - 1])
    BY <1>1, FieldsReadSteps
  <1>4. \A i \in 1..n : HoldsField(L[i], p[L[i].name])
    BY InStepHolds
  <1>5. /\ \A i \in 0..n : W[i] \in Seq(Bit)
        /\ \A i \in 1..n : WriteField(L[i], p) \in Seq(Bit)
    BY <1>4, FieldsBits
  <1>6. sure => \A i \in 1..n : Sure(L[i].codec, p[L[i].name])
    BY LayoutDomain DEF ReadableFields, Sure
  <1> HIDE DEF n, f, W, sure
  <1>7. 0 \in S
    <2> DEFINE q == [x \in {} |-> None]
    <2>1. f[0] = <<q, b>> /\ Only(L, p, 0) = q
      BY <1>3 DEF NoFieldRead, Only, NamesTo
    <2>2. After(b, 0) = b /\ Len(<< >>) = 0 /\ << >> \in Seq(Bit) /\ Len(b) >= 0
      BY AfterNothing, LenProperties
    <2> HIDE DEF q
    <2>3. Gives(<<q, b>>, q, b, << >>, sure)
      BY <2>2, NotFailed, LenProperties DEF Gives
    <2>4. Gives(f[0], Only(L, p, 0), b, W[0], sure)
      BY <1>2, <2>1, <2>3
    <2>5. Good(0)
      BY <2>4
    <2> HIDE DEF Good
    <2>6. QED
      BY <2>5
  <1>8. ASSUME NEW i \in Nat, i \in S PROVE i + 1 \in S
    <2>1. Good(i)
      BY <1>8
    <2> SUFFICES ASSUME i + 1 <= m, Fits(b, W[i + 1])
                 PROVE  Gives(f[i + 1], Only(L, p, i + 1), b, W[i + 1], sure)
      <3>1. Good(i + 1)
        OBVIOUS
      <3> HIDE DEF Good
      <3>2. QED
        BY <3>1
    <2> DEFINE w == WriteField(L[i + 1], p)
               u == W[i]
               r == f[i]
               q == Only(L, p, i)
               t == Only(L, p, i + 1)
               s == ReadField(L[i + 1], r[1], r[2])
    <2>2. i + 1 \in 1..n /\ i \in 0..n /\ (i + 1) - 1 = i /\ i <= m /\ i + 1 \in 1..m
      BY <1>1
    <2>3. W[i + 1] = u \o w
      BY <1>2, <2>2
    <2>4. f[i + 1] = IF r = Failed THEN Failed ELSE s
      <3>1. f[i + 1] = NextField(L[i + 1], r)
        BY <1>3, <2>2
      <3>2. QED
        BY <3>1 DEF NextField
    <2>5. u \in Seq(Bit) /\ w \in Seq(Bit)
      BY <1>5, <2>2
    <2> HIDE DEF u, w
    <2>6. Fits(b, u) /\ (Len(u) <= Len(b) => Fits(After(b, Len(u)), w))
      <3>1. Fits(b, u \o w)
        BY <2>3
      <3>2. QED
        BY <2>5, <3>1, FitsParts
    <2> HIDE DEF q, t
    <2>7. Gives(r, q, b, u, sure)
      BY <2>1, <2>2, <2>6 DEF u, q
    <2> HIDE DEF r
    <2>8. CASE r = Failed
      <3>1. Gives(Failed, t, b, u \o w, sure)
        BY <2>5, <2>7, <2>8, GivesNothing
      <3>2. f[i + 1] = Failed
        BY <2>4, <2>8
      <3>3. QED
        BY <2>3, <3>1, <3>2 DEF t
    <2>9. CASE r # Failed
      <3> DEFINE a == After(b, Len(u))
      <3>1. Len(u) <= Len(b) /\ r = <<q, a>>
        BY <2>7, <2>9 DEF Gives
      <3>2. a \in Seq(Bit)
        BY <2>5, <3>1, AfterBits, LenProperties
      <3>3. Len(u) <= Len(b) => Fits(a, w)
        BY <2>6
      <3>4. s = ReadField(L[i + 1], q, a)
        BY <3>1
      <3> HIDE DEF a, s
      <3>5. /\ L[i + 1].codec.kind # "rest" /\ ReadsAsWritten(L[i + 1])
            /\ Fits(a, WriteField(L[i + 1], p)) /\ i + 1 <= Len(L)
        BY <2>2, <3>1, <3>3, <1>1 DEF w, n, FieldsReadAsWritten
      <3>6. Gives(ReadField(L[i + 1], Only(L, p, i), a), Only(L, p, i + 1), a,
                  WriteField(L[i + 1], p), Sure(L[i + 1].codec, p[L[i + 1].name]))
        BY <3>2, <3>5, FieldRead
      <3>7. Gives(s, t, a, w, Sure(L[i + 1].codec, p[L[i + 1].name]))
        BY <3>4, <3>6 DEF q, t, w
      <3>8. Gives(s, t, a, w, sure)
        <4>1. sure => Sure(L[i + 1].codec, p[L[i + 1].name])
          BY <1>6, <2>2
        <4>2. QED
          BY <3>7, <4>1 DEF Gives
      <3>9. Gives(s, t, b, u \o w, sure)
        BY <2>5, <3>1, <3>8, GivesBehind DEF a
      <3>10. QED
        BY <2>3, <2>4, <2>9, <3>9 DEF t
    <2>10. QED
      BY <2>8, <2>9
  <1>9. Good(m)
    <2> HIDE DEF Good
    <2>1. m \in S
      <3> HIDE DEF S
      <3>1. QED
        BY <1>1, <1>7, <1>8, Induction
    <2>2. QED
      BY <2>1
  <1>10. m <= m /\ Fits(b, W[m])
    BY <1>1 DEF W, n
  <1>11. QED
    BY <1>9, <1>10 DEF n, f, W, sure

AllReadAsWritten(L) == FieldsReadAsWritten(L, Len(L))

IsPlain(L) == \A i \in 1..Len(L) : L[i].codec.kind # "rest"

(* A layout of which no field ends with the packet. *)
LEMMA PlainRead ==
    ASSUME NEW L, IsLayout(L), IsPlain(L), AllReadAsWritten(L), NEW p, FieldsInStep(L, p),
           NEW b \in Seq(Bit), Fits(b, WriteFields(L, p))
    PROVE  Gives(ReadFields(L, b), [x \in FieldNames(L) |-> p[x]], b, WriteFields(L, p),
                 ReadableFields(L, p))
  <1> DEFINE n == Len(L)
  <1>1. n \in Nat /\ n \in 0..n /\ FieldNames(L) = NamesTo(L, n)
    BY LayoutDomain DEF NamesTo
  <1>2. WriteFields(L, p) = FieldsWriting(L, p, n)[n]
    BY <1>1, FieldsWritten
  <1>3. ReadFields(L, b) = FieldsReading(L, b, n)[n]
    BY <1>1, FieldsReadSteps
  <1>4. FieldsReadAsWritten(L, n) /\ \A i \in 1..n : L[i].codec.kind # "rest"
    BY DEF IsPlain, AllReadAsWritten
  <1>5. Fits(b, FieldsWriting(L, p, n)[n])
    BY <1>2
  <1>6. Gives(FieldsReading(L, b, n)[n], Only(L, p, n), b, FieldsWriting(L, p, n)[n], ReadableFields(L, p))
    BY <1>1, <1>4, <1>5, FieldsRead
  <1>7. QED
    BY <1>1, <1>2, <1>3, <1>6 DEF Only

(* What is read of a packet, or of the start of one: its fields, of the bytes at *)
(* the end perhaps fewer.                                                        *)
Recovers(L, p, b, r) ==
    /\ r # Failed =>
          /\ DOMAIN r[1] = FieldNames(L)
          /\ \A i \in 1..Len(L) :
                \/ r[1][L[i].name] = p[L[i].name]
                \/ /\ Len(b) < Len(WriteFields(L, p)) /\ L[i].codec.kind = "rest"
                   /\ \E k \in 0..Len(p[L[i].name]) :
                         r[1][L[i].name] = [j \in 1..k |-> p[L[i].name][j]]
    /\ ReadableFields(L, p) /\ Len(WriteFields(L, p)) <= Len(b) => r # Failed

(* Whatever has been cut off or filled in at the end, a layout is read as it was *)
(* written, fails, or is short of bytes in its last field only, if none of its   *)
(* fields is written whether it will be read or not.                             *)
LEMMA LayoutRead ==
    ASSUME NEW L, IsLayout(L), AllReadAsWritten(L), NEW p, FieldsInStep(L, p),
           NEW b \in Seq(Bit), Fits(b, WriteFields(L, p)), Len(b) < Len(WriteFields(L, p)) + 8
    PROVE  Recovers(L, p, b, ReadFields(L, b))
  <1> DEFINE n == Len(L)
             r == ReadFields(L, b)
             W == WriteFields(L, p)
  <1>1. n \in Nat /\ FieldNames(L) = NamesTo(L, n)
    BY LayoutDomain DEF NamesTo
  <1>2. CASE IsPlain(L)
    <2>1. Gives(r, [x \in FieldNames(L) |-> p[x]], b, W, ReadableFields(L, p))
      BY <1>2, PlainRead
    <2> HIDE DEF r, W
    <2>2. r # Failed => r = << [x \in FieldNames(L) |-> p[x]], After(b, Len(W))>>
      BY <2>1 DEF Gives
    <2>3. r # Failed => r[1] = [x \in FieldNames(L) |-> p[x]]
      BY <2>2
    <2>4. \A i \in 1..n : L[i].name \in FieldNames(L)
      BY <1>1 DEF NamesTo
    <2>5. r # Failed => DOMAIN r[1] = FieldNames(L) /\ \A i \in 1..n : r[1][L[i].name] = p[L[i].name]
      BY <2>3, <2>4
    <2>6. ReadableFields(L, p) /\ Len(W) <= Len(b) => r # Failed
      BY <2>1 DEF Gives
    <2>7. QED
      BY <2>5, <2>6 DEF Recovers, r, W
  <1>3. CASE ~IsPlain(L)
    <2> DEFINE f == L[n]
               v == p[f.name]
               m == n - 1
               q == Only(L, p, m)
               u == FieldsWriting(L, p, n)[m]
               w == WriteField(f, p)
               x == FieldsReading(L, b, n)[m]
               s == ReadField(f, x[1], x[2])
    <2>1. PICK k \in 1..n : L[k].codec.kind = "rest"
      BY <1>3 DEF IsPlain
    <2>2. k = n
      BY <2>1 DEF IsLayout, IsFieldAt
    <2>3. n \in 1..n /\ m \in Nat /\ m \in 0..n /\ m + 1 = n /\ n >= 1
      BY <1>1, <2>2
    <2>4. f.codec.kind = "rest" /\ f.cond = <<>> /\ IsRest(f.codec)
      <3>1. f.codec.kind = "rest"
        BY SMTT(60), <2>1, <2>2
      <3>2. f.cond = <<>> /\ IsCodec(f.codec)
        BY <2>3, <3>1 DEF IsLayout, IsFieldAt
      <3>3. IsRest(f.codec)
        BY <3>1, <3>2, PartKind DEF IsCodec, IsRest, IsSized, IsCounted, IsMapCodec, IsNullable, IsOption
      <3>4. QED
        BY <3>1, <3>2, <3>3
    <2>5. FieldsReadAsWritten(L, m) /\ \A i \in 1..m : L[i].codec.kind # "rest"
      <3>1. \A i \in 1..m : i \in 1..n /\ i # n
        <4>1. m < n /\ m \in Nat /\ n \in Nat
          BY <2>3
        <4> HIDE DEF m, n
        <4>2. QED
          BY <4>1
      <3>2. QED
        BY <3>1 DEF IsLayout, IsFieldAt, AllReadAsWritten, FieldsReadAsWritten
    <2>6. IsThere(f, p) /\ \A z : IsThere(f, z)
      BY <2>4 DEF IsThere
    <2>7. IsBytes(v, f.codec.values) /\ w = ByteBits(v)
      <3>1. FieldInStep(f, p)
        BY <2>3 DEF FieldsInStep
      <3>2. IsBytes(v, f.codec.values)
        BY <2>4, <2>6, <3>1 DEF FieldInStep, Holds
      <3>3. w = ByteBits(v)
        BY <2>4, ValueWriteIs DEF WriteField
      <3>4. QED
        BY <3>2, <3>3
    <2>8. Len(v) \in Nat /\ w \in Seq(Bit) /\ Len(w) = 8 * Len(v)
      <3>1. Octets(v)
        BY <2>4, <2>7 DEF Octets, IsBytes, IsRest
      <3>2. QED
        BY <2>7, <3>1, ByteBitsAre
    <2>9. W = u \o w /\ r = IF x = Failed THEN Failed ELSE s
      <3>1. n - 1 = m /\ n \in 1..n
        BY <2>3
      <3>2. W = FieldsWriting(L, p, n)[n]
            /\ FieldsWriting(L, p, n)[n] = FieldsWriting(L, p, n)[n - 1] \o WriteField(L[n], p)
        BY ZenonT(60), <1>1, <2>3, FieldsWritten
      <3>3. r = FieldsReading(L, b, n)[n]
            /\ FieldsReading(L, b, n)[n] = NextField(L[n], FieldsReading(L, b, n)[n - 1])
        BY ZenonT(60), <1>1, <2>3, FieldsReadSteps
      <3>4. QED
        BY <3>2, <3>3 DEF NextField
    <2>10. u \in Seq(Bit)
      <3>1. \A i \in 1..Len(L) : HoldsField(L[i], p[L[i].name])
        BY InStepHolds
      <3>2. \A i \in 0..n : FieldsWriting(L, p, n)[i] \in Seq(Bit)
        BY <3>1, FieldsBits
      <3>3. QED
        BY <2>3, <3>2
    <2> HIDE DEF u, w, W
    <2>11. /\ Fits(b, u) /\ (Len(u) <= Len(b) => Fits(After(b, Len(u)), w))
           /\ Len(W) = Len(u) + Len(w) /\ Len(u) \in Nat /\ Len(b) \in Nat
      <3>1. Fits(b, u \o w)
        BY <2>9 DEF W
      <3>2. Fits(b, u) /\ (Len(u) <= Len(b) => Fits(After(b, Len(u)), w))
        BY <2>8, <2>10, <3>1, FitsParts
      <3>3. Len(u \o w) = Len(u) + Len(w)
        BY <2>8, <2>10, ConcatProperties
      <3>4. QED
        BY <2>9, <2>10, <3>2, <3>3, LenProperties
    <2> HIDE DEF x, q
    <2>12. Gives(x, q, b, u, ReadableFields(L, p))
      <3>1. Fits(b, FieldsWriting(L, p, n)[m])
        BY <2>11 DEF u
      <3> HIDE DEF m
      <3>2. Gives(FieldsReading(L, b, n)[m], Only(L, p, m), b,
                  FieldsWriting(L, p, n)[m], ReadableFields(L, p))
        BY <2>3, <2>5, <3>1, FieldsRead
      <3>3. QED
        BY <3>2 DEF x, q, u
    <2> HIDE DEF r, s
    <2>13. CASE x = Failed
      <3>1. r = Failed
        BY <2>9, <2>13
      <3>2. ~(ReadableFields(L, p) /\ Len(u) <= Len(b))
        BY <2>12, <2>13 DEF Gives
      <3>3. Len(W) <= Len(b) => Len(u) <= Len(b)
        BY <2>8, <2>11
      <3>4. QED
        BY <3>1, <3>2, <3>3 DEF Recovers, r, W
    <2>14. CASE x # Failed
      <3> DEFINE a == After(b, Len(u))
                 e == WholeBytes(a)
                 z == [i \in 1..e |-> v[i]]
                 t == Put(q, f.name, z)
      <3>1. Len(u) <= Len(b) /\ x = <<q, a>>
        BY <2>12, <2>14 DEF Gives
      <3>2. a \in Seq(Bit) /\ Len(a) = Len(b) - Len(u)
        BY SMTT(60), <2>10, <2>11, <3>1, AfterBits, LenProperties
      <3>3. Fits(a, ByteBits(v))
        BY <2>7, <2>11, <3>1
      <3> HIDE DEF a
      <3>4. Len(a) < 8 * Len(v) + 8
        BY <2>8, <2>11, <3>2 DEF W
      <3>5. /\ e \in 0..Len(v)
            /\ ReadValue(f.codec, q, a) = <<z, After(a, 8 * e)>>
            /\ 8 * Len(v) <= Len(a) => z = v
        <4> DEFINE c == f.codec
        <4>1. c.kind = "rest" /\ IsRest(c) /\ IsBytes(v, c.values)
          BY <2>4, <2>7
        <4> HIDE DEF c, v
        <4>2. LessThanAByteMore(a, v)
          BY <3>4 DEF LessThanAByteMore
        <4>3. RestGives(c, v, q, a, WholeBytes(a))
          BY <4>1, <4>2, <3>2, <3>3, RestRead
        <4>4. QED
          BY <4>3 DEF c, RestGives
      <3>6. s = ReadField(f, q, a)
        BY <3>1 DEF s
      <3>7. r = <<t, After(a, 8 * e)>>
        <4> HIDE DEF e, z
        <4>1. ReadValue(f.codec, q, a) # Failed
          BY <3>5, NotFailed
        <4>2. s = <<Put(q, f.name, z), After(a, 8 * e)>>
          BY <2>6, <3>5, <3>6, <4>1, FieldReadIs
        <4>3. QED
          BY <2>9, <2>14, <4>2
      <3> HIDE DEF e
      <3>8. r # Failed /\ r[1] = t
        BY <3>7, NotFailed
      <3>9. NamesTo(L, n) = NamesTo(L, m) \cup {f.name} /\ f.name \notin NamesTo(L, m)
        <4>1. m + 1 <= Len(L)
          BY <2>3
        <4>2. NamesTo(L, m + 1) = NamesTo(L, m) \cup {L[m + 1].name} /\ L[m + 1].name \notin NamesTo(L, m)
          <5> HIDE DEF m
          <5>1. QED
            BY <2>3, <4>1, NamesGrow
        <4>3. QED
          BY <2>3, <4>2
      <3>10. /\ DOMAIN t = NamesTo(L, n) /\ t[f.name] = z
             /\ \A y \in NamesTo(L, m) : t[y] = p[y]
        <4>1. DOMAIN q = NamesTo(L, m) /\ \A y \in NamesTo(L, m) : q[y] = p[y]
          BY DEF Only, q
        <4> HIDE DEF z, m
        <4>2. QED
          BY <3>9, <4>1 DEF Put
      <3> HIDE DEF t
      <3>11. ASSUME NEW i \in 1..n
             PROVE  \/ t[L[i].name] = p[L[i].name]
                    \/ /\ Len(b) < Len(W) /\ L[i].codec.kind = "rest"
                       /\ \E j \in 0..Len(p[L[i].name]) :
                             t[L[i].name] = [y \in 1..j |-> p[L[i].name][y]]
        <4>1. CASE i # n
          <5>1. i \in 1..m
            BY <1>1, <4>1
          <5>2. L[i].name \in NamesTo(L, m)
            BY <5>1 DEF NamesTo
          <5>3. QED
            BY <3>10, <5>2
        <4>2. CASE i = n
          <5>1. L[i].codec.kind = "rest" /\ L[i].name = f.name /\ p[L[i].name] = v
            BY <2>4, <4>2
          <5>2. CASE Len(b) < Len(W)
            <6>1. \E j \in 0..Len(v) : z = [y \in 1..j |-> v[y]]
              BY <3>5
            <6>2. t[L[i].name] = z
              BY <3>10, <5>1
            <6> HIDE DEF z
            <6>3. \E j \in 0..Len(v) : t[L[i].name] = [y \in 1..j |-> v[y]]
              BY <6>1, <6>2
            <6>4. p[L[i].name] = v
              BY <5>1
            <6> HIDE DEF v
            <6>5. QED
              BY <5>1, <5>2, <6>3, <6>4
          <5>3. CASE ~(Len(b) < Len(W))
            <6>1. 8 * Len(v) <= Len(a)
              BY <2>8, <2>11, <3>2, <5>3
            <6>2. z = v
              BY <3>5, <6>1
            <6>3. QED
              BY <3>10, <5>1, <6>2
          <5>4. QED
            BY <5>2, <5>3
        <4>3. QED
          BY <4>1, <4>2
      <3>12. QED
        BY <1>1, <3>8, <3>10, <3>11 DEF Recovers, r, W
    <2>15. QED
      BY <2>13, <2>14
  <1>4. QED
    BY <1>2, <1>3

----------------------------------------------------------------------------
(* The first fields of a packet *)

\* All fields are read, and each as it then is in the packet.
ReadTo(L, b, i) ==
    LET r == FieldsReading(L, b, Len(L))[i]
        q == ReadFields(L, b)[1]
    IN  /\ r # Failed /\ r[2] \in Seq(Bit)
        /\ DOMAIN r[1] = NamesTo(L, i)
        /\ \A j \in 1..i : r[1][L[j].name] = q[L[j].name]

(* What was read of a packet stays. *)
LEMMA ReadStays ==
    ASSUME NEW L, IsLayout(L), NEW b \in Seq(Bit), ReadFields(L, b) # Failed
    PROVE  \A i \in 0..Len(L) : ReadTo(L, b, i)
  <1> DEFINE n == Len(L)
             f == FieldsReading(L, b, n)
             q == ReadFields(L, b)[1]
             Was(i) == i <= n => f[n - i] # Failed
             Good(i) == i <= n => f[i][2] \in Seq(Bit) /\ PartInStep(L, f[i][1], i)
             Same1(k, i) == \A j \in 1..i : f[k][1][L[j].name] = f[i][1][L[j].name]
             Stays(k) == k <= n => \A i \in 0..k : Same1(k, i)
  <1>1. n \in Nat /\ DOMAIN L = 1..n
    BY LayoutDomain
  <1>2. /\ f[0] = NoFieldRead(b)
        /\ \A i \in 1..n : f[i] = NextField(L[i], f[i - 1])
        /\ ReadFields(L, b) = f[n]
    BY <1>1, FieldsReadSteps
  <1> HIDE DEF f, n
  <1>3. \A i \in 0..n : f[i] # Failed
    <2> DEFINE S == {i \in Nat : Was(i)}
    <2>1. 0 \in S
      BY <1>1, <1>2
    <2>2. ASSUME NEW i \in Nat, i \in S PROVE i + 1 \in S
      <3>1. ASSUME i + 1 <= n PROVE f[n - (i + 1)] # Failed
        <4>1. f[n - i] # Failed
          BY <1>1, <2>2, <3>1
        <4>2. n - i \in 1..n /\ (n - i) - 1 = n - (i + 1)
          BY <1>1, <3>1
        <4>3. f[n - i] = NextField(L[n - i], f[n - (i + 1)])
          BY <1>2, <4>2
        <4>4. QED
          BY <4>1, <4>3 DEF NextField
      <3>2. QED
        BY <3>1
    <2>3. \A i \in Nat : i \in S
      <3> HIDE DEF S
      <3>1. QED
        BY <2>1, <2>2, Induction
    <2> SUFFICES ASSUME NEW i \in 0..n PROVE f[i] # Failed
      OBVIOUS
    <2>4. n - i \in Nat /\ n - i <= n /\ n - (n - i) = i
      BY <1>1
    <2>5. Was(n - i)
      BY <2>3, <2>4
    <2>6. QED
      BY <2>4, <2>5
  <1>4. ASSUME NEW i \in Nat, i + 1 <= n
        PROVE  /\ i + 1 \in 1..n /\ i \in 0..n /\ i + 1 \in 0..n
               /\ f[i + 1] = ReadField(L[i + 1], f[i][1], f[i][2])
    <2>1. i + 1 \in 1..n /\ i \in 0..n /\ i + 1 \in 0..n /\ (i + 1) - 1 = i
      BY <1>1, <1>4
    <2>2. f[i + 1] = NextField(L[i + 1], f[i])
      BY <1>2, <2>1
    <2>3. QED
      BY <1>3, <2>1, <2>2 DEF NextField
  <1>5. \A i \in 0..n : Good(i)
    <2> DEFINE S == {i \in Nat : Good(i)}
    <2>1. 0 \in S
      <3> DEFINE z == [x \in {} |-> None]
      <3>1. f[0][1] = z /\ f[0][2] = b
        BY <1>2 DEF NoFieldRead
      <3>2. PartInStep(L, z, 0)
        BY DEF PartInStep, NamesTo
      <3> HIDE DEF z
      <3>3. QED
        BY <3>1, <3>2
    <2>2. ASSUME NEW i \in Nat, i \in S PROVE i + 1 \in S
      <3>1. ASSUME i + 1 <= n PROVE f[i + 1][2] \in Seq(Bit) /\ PartInStep(L, f[i + 1][1], i + 1)
        <4> DEFINE r == f[i]
                   s == ReadField(L[i + 1], r[1], r[2])
        <4>1. r[2] \in Seq(Bit) /\ PartInStep(L, r[1], i)
          BY <1>1, <2>2, <3>1
        <4>2. f[i + 1] = s /\ s # Failed
          BY <1>3, <1>4, <3>1
        <4> HIDE DEF r
        <4>3. Leaves(s, r[2]) /\ PartInStep(L, s[1], i + 1)
          BY <3>1, <4>1, <4>2, FieldTyped DEF n
        <4> HIDE DEF s
        <4>4. QED
          BY <4>2, <4>3 DEF Leaves
      <3>2. QED
        BY <3>1
    <2>3. \A i \in Nat : i \in S
      <3> HIDE DEF S
      <3>1. QED
        BY <2>1, <2>2, Induction
    <2>4. QED
      BY <2>3
  <1>6. Stays(n)
    <2> DEFINE S == {k \in Nat : Stays(k)}
    <2>1. 0 \in S
      <3>1. Stays(0)
        OBVIOUS
      <3>2. QED
        BY <3>1
    <2>2. ASSUME NEW k \in Nat, k \in S PROVE k + 1 \in S
      <3>1. ASSUME k + 1 <= n, NEW i \in 0..(k + 1) PROVE Same1(k + 1, i)
        <4>1. CASE i = k + 1
          BY <4>1
        <4>2. CASE i # k + 1
          <5>1. i \in 0..k /\ k <= n
            BY <1>1, <3>1, <4>2
          <5>2. Same1(k, i)
            BY <2>2, <5>1
          <5>3. \E v : f[k + 1][1] = Put(f[k][1], L[k + 1].name, v)
            <6> DEFINE r == f[k]
                       e == L[k + 1]
                       s == ReadValue(e.codec, r[1], r[2])
            <6>1. f[k + 1] = ReadField(e, r[1], r[2]) /\ f[k + 1] # Failed
              BY <1>3, <1>4, <3>1
            <6> HIDE DEF r, e
            <6>2. \/ f[k + 1] = <<Put(r[1], e.name, e.default), r[2]>>
                  \/ f[k + 1] = <<Put(r[1], e.name, s[1]), s[2]>>
              BY <6>1, FieldReadIs
            <6> HIDE DEF s
            <6>3. \E v : f[k + 1][1] = Put(r[1], e.name, v)
              BY <6>2
            <6>4. QED
              BY <6>3 DEF r, e
          <5>4. PICK v : f[k + 1][1] = Put(f[k][1], L[k + 1].name, v)
            BY <5>3
          <5>5. DOMAIN f[k][1] = NamesTo(L, k) /\ L[k + 1].name \notin NamesTo(L, k)
            <6>1. k \in 0..n /\ k + 1 <= Len(L)
              BY <1>1, <3>1, <5>1 DEF n
            <6>2. PartInStep(L, f[k][1], k)
              BY <1>5, <5>1, <6>1
            <6>3. QED
              BY <6>1, <6>2, NamesGrow DEF PartInStep
          <5>6. ASSUME NEW j \in 1..i PROVE f[k + 1][1][L[j].name] = f[i][1][L[j].name]
            <6>1. j \in 1..k
              BY <5>1
            <6>2. L[j].name \in NamesTo(L, k)
              BY <6>1 DEF NamesTo
            <6>3. f[k + 1][1][L[j].name] = f[k][1][L[j].name]
              BY <5>4, <5>5, <6>2 DEF Put
            <6>4. QED
              BY <5>2, <6>3
          <5>7. QED
            BY <5>6
        <4>3. QED
          BY <4>1, <4>2
      <3>2. Stays(k + 1)
        <4> HIDE DEF Same1
        <4>1. QED
          BY <3>1
      <3>3. QED
        BY <3>2
    <2>3. n \in S
      <3> HIDE DEF S
      <3>1. QED
        BY <1>1, <2>1, <2>2, Induction
    <2>4. QED
      BY <2>3
  <1>7. ASSUME NEW i \in 0..n PROVE ReadTo(L, b, i)
    <2>1. f[i] # Failed
      BY <1>3
    <2>2. f[i][2] \in Seq(Bit) /\ DOMAIN f[i][1] = NamesTo(L, i)
      BY <1>1, <1>5 DEF PartInStep
    <2>3. Same1(n, i)
      BY <1>1, <1>6
    <2>4. \A j \in 1..i : f[i][1][L[j].name] = ReadFields(L, b)[1][L[j].name]
      BY <1>2, <2>3
    <2>5. QED
      BY <2>1, <2>2, <2>4 DEF ReadTo, f, n
  <1>8. QED
    BY <1>7 DEF n

(* Bits that are the start of a packet are the start of each of its first fields. *)
LEMMA FirstFieldsFit ==
    ASSUME NEW L, IsLayout(L), NEW p, FieldsInStep(L, p), NEW b \in Seq(Bit), Fits(b, WriteFields(L, p))
    PROVE  \A i \in 0..Len(L) : Fits(b, FieldsWriting(L, p, Len(L))[i])
  <1> DEFINE n == Len(L)
             W == FieldsWriting(L, p, n)
             S == {i \in Nat : i <= n => Fits(b, W[n - i])}
  <1>1. n \in Nat
    BY LayoutDomain
  <1>2. /\ W[0] = <<>>
        /\ \A i \in 1..n : W[i] = W[i - 1] \o WriteField(L[i], p)
        /\ WriteFields(L, p) = W[n]
    BY <1>1, FieldsWritten
  <1>3. \A i \in 1..Len(L) : HoldsField(L[i], p[L[i].name])
    BY InStepHolds
  <1>4. /\ \A i \in 0..n : W[i] \in Seq(Bit)
        /\ \A i \in 1..n : WriteField(L[i], p) \in Seq(Bit)
    BY <1>3, FieldsBits
  <1> HIDE DEF W, n
  <1>5. 0 \in S
    BY <1>1, <1>2
  <1>6. ASSUME NEW i \in Nat, i \in S PROVE i + 1 \in S
    <2>1. ASSUME i + 1 <= n PROVE Fits(b, W[n - (i + 1)])
      <3>1. n - i \in 1..n /\ n - (i + 1) \in 0..n /\ (n - i) - 1 = n - (i + 1) /\ i <= n
        BY <1>1, <2>1
      <3>2. Fits(b, W[n - i])
        BY <1>6, <3>1
      <3>3. W[n - i] = W[n - (i + 1)] \o WriteField(L[n - i], p)
        BY <1>2, <3>1
      <3> DEFINE u == W[n - (i + 1)]
                 w == WriteField(L[n - i], p)
      <3>4. u \in Seq(Bit) /\ w \in Seq(Bit) /\ Fits(b, u \o w)
        BY <1>4, <3>1, <3>2, <3>3
      <3> HIDE DEF u, w
      <3>5. Fits(b, u)
        BY <3>4, FitsParts
      <3>6. QED
        BY <3>5 DEF u
    <2>2. QED
      BY <2>1
  <1>7. \A i \in Nat : i \in S
    <2> HIDE DEF S
    <2>1. QED
      BY <1>5, <1>6, Induction
  <1> SUFFICES ASSUME NEW i \in 0..n PROVE Fits(b, W[i])
    BY DEF W, n
  <1>8. n - i \in Nat /\ n - i <= n /\ n - (n - i) = i
    BY <1>1
  <1>9. n - i \in S
    BY <1>7, <1>8
  <1>10. QED
    BY <1>8, <1>9

SameTo(L, p, q, m) == \A i \in 1..m : q[L[i].name] = p[L[i].name]

(* In a packet that is read the fields are as they were, up to one that is *)
(* written whether it will be read or not.                                 *)
LEMMA StartRead ==
    ASSUME NEW L, IsLayout(L), NEW p, FieldsInStep(L, p), NEW m \in 0..Len(L),
           \A i \in 1..m : L[i].codec.kind # "rest", FieldsReadAsWritten(L, m),
           NEW b \in Seq(Bit), Fits(b, WriteFields(L, p)), ReadFields(L, b) # Failed
    PROVE  SameTo(L, p, ReadFields(L, b)[1], m)
  <1> DEFINE w == FieldsWriting(L, p, Len(L))[m]
             r == FieldsReading(L, b, Len(L))[m]
  <1>1. Fits(b, w)
    BY FirstFieldsFit
  <1>2. Gives(r, Only(L, p, m), b, w, ReadableFields(L, p))
    BY <1>1, FieldsRead
  <1>3. ReadTo(L, b, m)
    BY ReadStays
  <1>4. r # Failed /\ \A j \in 1..m : r[1][L[j].name] = ReadFields(L, b)[1][L[j].name]
    BY <1>3 DEF ReadTo
  <1>5. \A i \in 1..m : Only(L, p, m)[L[i].name] = p[L[i].name]
    BY DEF Only, NamesTo
  <1> HIDE DEF r, w
  <1>6. r[1] = Only(L, p, m)
    BY <1>2, <1>4 DEF Gives
  <1>7. QED
    BY <1>4, <1>5, <1>6 DEF SameTo

\* Bits of which each pattern is a value.
IsTotal(c) == c.kind = "fixed" /\ c.bits \in Nat \ {0} /\ c.values = Unsigned(c.bits)

AreTotal(L) == \A i \in 1..Len(L) : IsTotal(L[i].codec)

(* They are read if there are enough of them. *)
LEMMA TotalFieldRead ==
    ASSUME NEW f, IsTotal(f.codec), NEW p, NEW b \in Seq(Bit), f.codec.bits <= Len(b)
    PROVE  LET r == ReadField(f, p, b)
           IN  r # Failed /\ r[2] \in Seq(Bit) /\ Len(b) <= Len(r[2]) + f.codec.bits
  <1> DEFINE n == f.codec.bits
             v == BitsValue(SubSeq(b, 1, n))
             s == ReadValue(f.codec, p, b)
             r == ReadField(f, p, b)
             a == After(b, n)
  <1>1. n \in Nat /\ Len(b) \in Nat /\ n \in 0..Len(b) /\ f.codec.kind = "fixed"
    BY LenProperties DEF IsTotal
  <1>2. v \in f.codec.values
    <2>1. SubSeq(b, 1, n) \in Seq(Bit) /\ Len(SubSeq(b, 1, n)) = n
      <3> HIDE DEF n
      <3>1. QED
        BY <1>1, SubSeqProperties
    <2>2. v \in 0..(TwoTo[n] - 1)
      BY <2>1, BitsOfValue
    <2>3. QED
      BY <2>2 DEF IsTotal, Unsigned
  <1>3. s = <<v, a>>
    <2>1. ReadFixed(f.codec, b) = <<v, After(b, n)>>
      BY <1>1, <1>2 DEF ReadFixed
    <2>2. s = ReadPart(f.codec, b)
      BY <1>1, ValueReadIs
    <2>3. ReadPart(f.codec, b) = ReadFixed(f.codec, b)
      BY <1>1, PartIs
    <2>4. QED
      BY <2>1, <2>2, <2>3
  <1>4. a \in Seq(Bit) /\ Len(a) = Len(b) - n
    <2> HIDE DEF n
    <2>1. QED
      BY <1>1, AfterBits
  <1>5. r = <<Put(p, f.name, f.default), b>> \/ r = <<Put(p, f.name, v), a>>
    <2> HIDE DEF v, a, s
    <2>1. s # Failed /\ s[1] = v /\ s[2] = a
      BY <1>3, NotFailed
    <2>2. QED
      BY <2>1, FieldReadIs DEF s
  <1> HIDE DEF a, v, n, r
  <1>6. r # Failed /\ (r[2] = b \/ r[2] = a)
    BY <1>5, NotFailed
  <1>7. Len(b) <= Len(b) + n /\ Len(b) <= Len(a) + n
    BY <1>1, <1>4
  <1>8. r[2] \in Seq(Bit) /\ Len(b) <= Len(r[2]) + n
    BY <1>4, <1>6, <1>7
  <1>9. QED
    BY <1>6, <1>8 DEF r, n

(* A packet of such fields is read if there are as many bits as it was written *)
(* with: the reader leaves fields out, and takes no more bits than the writer. *)
LEMMA TotalRead ==
    ASSUME NEW L, IsLayout(L), AreTotal(L), NEW p, FieldsInStep(L, p),
           NEW b \in Seq(Bit), Len(WriteFields(L, p)) <= Len(b)
    PROVE  ReadFields(L, b) # Failed
  <1> DEFINE n == Len(L)
             f == FieldsReading(L, b, n)
             W == FieldsWriting(L, p, n)
             l(i) == Len(W[i])
             Good(i) == f[i] # Failed /\ f[i][2] \in Seq(Bit) /\ Len(b) <= Len(f[i][2]) + l(i)
  <1>1. n \in Nat
    BY LayoutDomain
  <1>2. /\ W[0] = <<>>
        /\ \A i \in 1..n : W[i] = W[i - 1] \o WriteField(L[i], p)
        /\ WriteFields(L, p) = W[n]
    BY <1>1, FieldsWritten
  <1>3. /\ f[0] = NoFieldRead(b)
        /\ \A i \in 1..n : f[i] = NextField(L[i], f[i - 1])
        /\ ReadFields(L, b) = f[n]
    BY <1>1, FieldsReadSteps
  <1>4. \A i \in 1..Len(L) : HoldsField(L[i], p[L[i].name])
    BY InStepHolds
  <1>5. /\ \A i \in 0..n : W[i] \in Seq(Bit)
        /\ \A i \in 1..n : WriteField(L[i], p) \in Seq(Bit)
    BY <1>4, FieldsBits
  <1>6. \A i \in 1..n : IsTotal(L[i].codec) /\ HoldsField(L[i], p[L[i].name])
    BY <1>4 DEF AreTotal
  <1> HIDE DEF f, W, n
  <1>7. Len(b) \in Nat /\ \A i \in 0..n : l(i) \in Nat
    BY <1>5, LenProperties
  <1>8. ASSUME NEW i \in 1..n
        PROVE  /\ L[i].codec.bits \in Nat /\ i - 1 \in 0..n /\ i \in 0..n
               /\ l(i) = l(i - 1) + L[i].codec.bits
    <2> DEFINE c == L[i].codec
               v == p[L[i].name]
               w == WriteField(L[i], p)
    <2>1. IsTotal(c) /\ HoldsField(L[i], v)
      BY <1>6
    <2>2. c.kind = "fixed" /\ c.bits \in Nat /\ v \in 0..(TwoTo[c.bits] - 1)
      BY <2>1 DEF IsTotal, HoldsField, Holds, HoldsPart, Unsigned
    <2>3. w = Bits(v, c.bits)
      <3>1. w = WriteValue(c, v)
        BY DEF WriteField
      <3> HIDE DEF w, v, c
      <3>2. QED
        BY <2>2, <3>1, ValueWriteIs, PartBits
    <2>4. Len(w) = c.bits
      <3> HIDE DEF w, v, c
      <3>1. QED
        BY <2>2, <2>3, ValueOfBits
    <2>5. i - 1 \in 0..n /\ i \in 0..n
      BY <1>1
    <2>6. W[i - 1] \in Seq(Bit) /\ w \in Seq(Bit) /\ W[i] = W[i - 1] \o w
      BY <1>2, <1>5, <2>5
    <2>7. Len(W[i]) = Len(W[i - 1]) + Len(w)
      BY <2>6, ConcatProperties
    <2>8. QED
      BY <2>2, <2>4, <2>5, <2>7
  <1> HIDE DEF l
  <1>9. \A i \in 0..n : l(i) <= l(n)
    <2> DEFINE S == {k \in Nat : k <= n => l(n - k) <= l(n)}
    <2>1. 0 \in S
      BY <1>1, <1>7
    <2>2. ASSUME NEW k \in Nat, k \in S PROVE k + 1 \in S
      <3>1. ASSUME k + 1 <= n PROVE l(n - (k + 1)) <= l(n)
        <4> DEFINE i == n - k
        <4>1. i \in 1..n /\ i - 1 = n - (k + 1) /\ n \in 0..n
          BY <1>1, <3>1
        <4>2. l(i) <= l(n)
          BY <1>1, <2>2, <3>1
        <4> HIDE DEF i
        <4>3. l(i) = l(i - 1) + L[i].codec.bits /\ L[i].codec.bits \in Nat
              /\ i - 1 \in 0..n /\ i \in 0..n
          BY <1>8, <4>1
        <4>4. l(i - 1) \in Nat /\ l(i) \in Nat /\ l(n) \in Nat
          BY <1>7, <4>1, <4>3
        <4>5. l(i - 1) <= l(n)
          BY <4>2, <4>3, <4>4
        <4>6. QED
          BY <4>1, <4>5
      <3>2. QED
        BY <3>1
    <2>3. \A k \in Nat : k \in S
      <3> HIDE DEF S
      <3>1. QED
        BY <2>1, <2>2, Induction
    <2> SUFFICES ASSUME NEW i \in 0..n PROVE l(i) <= l(n)
      OBVIOUS
    <2>4. n - i \in Nat /\ n - i <= n /\ n - (n - i) = i
      BY <1>1
    <2>5. n - i \in S
      BY <2>3, <2>4
    <2>6. QED
      BY <2>4, <2>5
  <1>10. l(n) <= Len(b)
    BY <1>2 DEF l
  <1> DEFINE S == {i \in Nat : i <= n => Good(i)}
  <1>11. 0 \in S
    <2>1. f[0] # Failed /\ f[0][2] = b
      BY <1>3, NotFailed DEF NoFieldRead
    <2>2. l(0) \in Nat
      BY <1>1, <1>7
    <2>3. Len(b) <= Len(b) + l(0)
      BY <1>7, <2>2
    <2>4. QED
      BY <2>1, <2>3
  <1>12. ASSUME NEW i \in Nat, i \in S PROVE i + 1 \in S
    <2>1. ASSUME i + 1 <= n PROVE Good(i + 1)
      <3> DEFINE e == L[i + 1]
                 q == f[i][1]
                 a == f[i][2]
                 m == e.codec.bits
                 r == ReadField(e, q, a)
      <3>1. i + 1 \in 1..n /\ (i + 1) - 1 = i /\ i <= n /\ n \in 0..n
        BY <1>1, <2>1
      <3>2. f[i] # Failed /\ a \in Seq(Bit) /\ Len(b) <= Len(a) + l(i)
        BY <1>12, <3>1
      <3>3. m \in Nat /\ l(i + 1) = l(i) + m /\ i \in 0..n /\ i + 1 \in 0..n
        BY <1>8, <3>1
      <3>4. f[i + 1] = r
        BY <1>3, <3>1, <3>2 DEF NextField
      <3>5. IsTotal(e.codec)
        BY <1>6, <3>1
      <3> HIDE DEF a, q, m, e
      <3>6. l(i) \in Nat /\ l(i + 1) \in Nat /\ l(n) \in Nat /\ Len(a) \in Nat /\ l(i + 1) <= l(n)
        BY <1>7, <1>9, <3>1, <3>2, <3>3, LenProperties
      <3>7. m <= Len(a)
        BY <1>7, <1>10, <3>2, <3>3, <3>6
      <3>8. r # Failed /\ r[2] \in Seq(Bit) /\ Len(a) <= Len(r[2]) + m
        BY <3>2, <3>5, <3>7, TotalFieldRead DEF m
      <3> HIDE DEF r
      <3>9. Len(r[2]) \in Nat
        BY <3>8, LenProperties
      <3>10. Len(b) <= Len(r[2]) + l(i + 1)
        BY <1>7, <3>2, <3>3, <3>6, <3>8, <3>9
      <3>11. QED
        BY <3>4, <3>8, <3>10
    <2>2. QED
      BY <2>1
  <1>13. \A i \in Nat : i \in S
    <2> HIDE DEF S
    <2>1. QED
      BY <1>11, <1>12, Induction
  <1>14. Good(n)
    BY <1>1, <1>13
  <1>15. QED
    BY <1>3, <1>14

----------------------------------------------------------------------------
(* The layouts of the packets *)

(* The powers of two that enumerations are compared with. *)
LEMMA SmallPowers ==
    TwoTo[1] = 2 /\ TwoTo[2] = 4 /\ TwoTo[3] = 8 /\ TwoTo[4] = 16 /\ TwoTo[5] = 32
  <1>1. TwoTo[0] = 1 /\ TwoTo[0 + 1] = 2 * TwoTo[0] /\ TwoTo[1 + 1] = 2 * TwoTo[1]
        /\ TwoTo[2 + 1] = 2 * TwoTo[2] /\ TwoTo[3 + 1] = 2 * TwoTo[3]
        /\ TwoTo[4 + 1] = 2 * TwoTo[4]
    BY TwoToStep
  <1>2. QED
    BY <1>1

(* Numbers of so many bits, and those of an enumeration. *)
LEMMA FixedParts ==
    /\ IsFixed(Wide) /\ IsFixed(Octet) /\ IsFixed(Length) /\ IsFixed(BitBool)
    /\ IsFixed(GameMode) /\ IsFixed(ContextKind) /\ IsFixed(JoinResult)
    /\ IsFixed(UseActionResult) /\ IsFixed(MyStringHash) /\ IsFixed(Vector3D)
  <1>1. \A n \in Nat \ {0} : IsFixed(Fixed(n, Unsigned(n)))
    BY DEF Fixed, IsFixed
  <1>2. WideBits \in Nat \ {0} /\ OctetBits \in Nat \ {0}
    BY TypesAssumption
  <1>3. IsFixed(Wide) /\ IsFixed(Octet) /\ IsFixed(Length) /\ IsFixed(MyStringHash) /\ IsFixed(Vector3D)
    BY <1>1, <1>2 DEF Wide, Octet, Length, MyStringHash, Vector3D
  <1>4. ASSUME NEW n \in Nat \ {0}, NEW k \in Nat, k < TwoTo[n]
        PROVE  IsFixed(Fixed(n, 0..k))
    <2>1. 0..k \subseteq Unsigned(n)
      BY <1>4, TwoToPositive DEF Unsigned
    <2>2. QED
      BY <2>1 DEF Fixed, IsFixed
  <1>5. IsFixed(Fixed(2, 0..3)) /\ IsFixed(Fixed(5, 0..22)) /\ IsFixed(Fixed(3, 0..6))
    <2>1. 3 < TwoTo[2] /\ 22 < TwoTo[5] /\ 6 < TwoTo[3]
      BY SmallPowers
    <2>2. \A n, k : n \in {2, 3, 5} /\ k \in {3, 6, 22} => n \in Nat \ {0} /\ k \in Nat
      OBVIOUS
    <2>3. \A n, k : n \in {2, 3, 5} /\ k \in {3, 6, 22} /\ k < TwoTo[n] => IsFixed(Fixed(n, 0..k))
      BY <1>4, <2>2
    <2>4. QED
      BY <2>1, <2>3, Zenon
  <1>6. QED
    BY <1>3, <1>5, BitBoolIs DEF GameMode, BitBool, ContextKind, JoinResult, UseActionResult

(* Codecs that are no count, no Option and do not end with the packet. *)
IsSimple(c) == IsCodec(c) /\ c.kind \notin {"counted", "rest", "option"}

\* Fields that are there without a condition, and have what they need.
IsUnconditional(L) ==
    /\ IsLayout(L)
    /\ \A i \in 1..Len(L) :
          L[i].cond = <<>> /\ (IsSimple(L[i].codec) \/ IsRest(L[i].codec))

(* The parts that the packets are made of. *)
LEMMA Elements ==
    /\ IsElement(Wide) /\ IsElement(Octet) /\ IsElement(Length) /\ IsElement(BitBool)
    /\ IsElement(GameMode) /\ IsElement(ContextKind) /\ IsElement(JoinResult)
    /\ IsElement(UseActionResult) /\ IsElement(MyStringHash) /\ IsElement(Vector3D)
    /\ IsElement(VarU32) /\ IsElement(VarBytes) /\ IsElement(VarString)
    /\ IsElement(BitField) /\ IsElement(Tuple(Wide, Wide))
  <1>1. \A c : IsFixed(c) => IsElement(c)
    BY DEF IsFixed, IsElement, IsPart, IsVarint
  <1>2. IsElement(VarU32)
    BY TypesAssumption DEF VarU32, Variable, IsElement, IsPart, IsVarint
  <1>3. IsElement(VarBytes) /\ IsElement(VarString)
    <2>1. U64 \in IntegerTypes /\ U32 \in IntegerTypes /\ U32.bits \in Int /\ U64.bits \in Int
          /\ ~U64.signed /\ ~U32.signed /\ U64.bits >= U32.bits
      BY TypesAssumption DEF IntegerTypes
    <2>2. IsBytesCodec(VarBytes) /\ IsBytesCodec(VarString)
      BY <2>1 DEF VarBytes, VarString, Bytes, IsBytesCodec, Byte
    <2>3. QED
      BY <2>2 DEF IsElement, IsPart, IsBytesCodec, IsVarint
  <1>4. IsElement(BitField)
    BY TypesAssumption DEF BitField, Flags, IsFlags, IsElement, IsPart, IsVarint
  <1>5. IsElement(Tuple(Wide, Wide))
    BY FixedParts DEF Tuple, IsTuple, IsElement, IsPart, IsVarint
  <1>6. QED
    BY <1>1, <1>2, <1>3, <1>4, <1>5, FixedParts

(* The codecs made of them. *)
LEMMA SimpleCodecs ==
    /\ \A c : IsElement(c) => /\ IsSimple(c) /\ IsSimple(Nullable(c)) /\ IsSimple(VarVec(c))
                              /\ IsCodec(Option(c)) /\ \A n : IsCodec(Counted(n, c))
    /\ IsSimple(VarMap(Tuple(Wide, Wide))) /\ IsSimple(Variable(I32))
    /\ \A values : values \subseteq Byte => IsCodec(Rest(values))
  <1>1. ASSUME NEW c, IsElement(c)
        PROVE  /\ IsSimple(c) /\ IsSimple(Nullable(c)) /\ IsSimple(VarVec(c))
               /\ IsCodec(Option(c)) /\ \A n : IsCodec(Counted(n, c))
    <2>1. IsSimple(c)
      BY <1>1, PartKind DEF IsSimple, IsCodec, IsElement
    <2>2. IsSimple(Nullable(c))
      BY <1>1 DEF IsSimple, IsCodec, Nullable, IsNullable
    <2>3. IsSimple(VarVec(c))
      BY <1>1, TypesAssumption DEF IsSimple, IsCodec, VarVec, Sized, IsSized, IsUnsigned
    <2>4. IsCodec(Option(c)) /\ \A n : IsCodec(Counted(n, c))
      BY <1>1 DEF IsCodec, Option, IsOption, Counted, IsCounted
    <2>5. QED
      BY <2>1, <2>2, <2>3, <2>4
  <1>2. IsSimple(VarMap(Tuple(Wide, Wide)))
    <2>1. IsTuple(Tuple(Wide, Wide))
      BY FixedParts DEF Tuple, IsTuple
    <2>2. QED
      BY <2>1, TypesAssumption DEF IsSimple, IsCodec, VarMap, Map, IsMapCodec, IsUnsigned
  <1>3. IsSimple(Variable(I32))
    BY TypesAssumption DEF IsSimple, IsCodec, IsPart, IsVarint, Variable
  <1>4. \A values : values \subseteq Byte => IsCodec(Rest(values))
    BY DEF IsCodec, Rest, IsRest
  <1>5. QED
    BY <1>1, <1>2, <1>3, <1>4

(* A layout of simple fields, and one that begins with them. *)
LEMMA SimpleField ==
    ASSUME NEW L, NEW i, IsSimple(L[i].codec), L[i].cond = <<>>
    PROVE  IsFieldAt(L, i)
  <1>1. DOMAIN L[i].cond = {}
    OBVIOUS
  <1>2. QED
    BY <1>1 DEF IsSimple, IsFieldAt

(* None of their fields is written but when it is read. *)
LEMMA UnconditionalWritten ==
    ASSUME NEW L, IsUnconditional(L)
    PROVE  IsLayout(L) /\ AllReadAsWritten(L)
  BY DEF IsUnconditional, AllReadAsWritten, FieldsReadAsWritten, ReadsAsWritten

\* So many simple fields that are always there.
AreSimpleFields(L, n) ==
    /\ IsVector(L) /\ Len(L) = n
    /\ \A i, j \in 1..n : L[i].name = L[j].name => i = j
    /\ \A i \in 1..n : IsSimple(L[i].codec) /\ L[i].cond = <<>>

(* They are a layout. *)
LEMMA SimpleLayout ==
    ASSUME NEW L, NEW n, AreSimpleFields(L, n)
    PROVE  IsUnconditional(L) /\ IsLayout(L) /\ AllReadAsWritten(L) /\ IsPlain(L)
  <1>1. IsLayout(L)
    BY SimpleField DEF AreSimpleFields, IsLayout
  <1>2. IsPlain(L)
    BY DEF AreSimpleFields, IsSimple, IsPlain
  <1>3. QED
    BY <1>1, <1>2, UnconditionalWritten DEF AreSimpleFields, IsUnconditional

(* The codecs of the fields that are simple. *)
LEMMA AreSimple ==
    /\ IsSimple(Wide) /\ IsSimple(Octet) /\ IsSimple(Length) /\ IsSimple(BitBool)
    /\ IsSimple(GameMode) /\ IsSimple(ContextKind) /\ IsSimple(JoinResult)
    /\ IsSimple(UseActionResult) /\ IsSimple(VarU32) /\ IsSimple(VarBytes)
    /\ IsSimple(BitField) /\ IsSimple(Variable(I32)) /\ IsSimple(VarMap(Tuple(Wide, Wide)))
    /\ IsSimple(Nullable(Wide)) /\ IsSimple(Nullable(Vector3D)) /\ IsSimple(Nullable(MyStringHash))
    /\ IsSimple(Nullable(VarString)) /\ IsSimple(Nullable(VarBytes))
    /\ IsSimple(VarVec(Wide)) /\ IsSimple(VarVec(VarString)) /\ IsSimple(VarVec(Tuple(Wide, Wide)))
    /\ IsSimple(VarVec(Guid))
  BY Elements, SimpleCodecs DEF Guid

(* Fields that are there under a condition on one before them. *)
LEMMA OptionField ==
    ASSUME NEW L, NEW i, NEW e, IsElement(e), NEW j \in 1..(i - 1), NEW in, NEW n,
           L[i] = FieldIf(n, Option(e), <<If(L[j].name, in)>>, None)
    PROVE  IsFieldAt(L, i)
  <1>1. L[i].codec = Option(e) /\ L[i].default = None /\ L[i].cond = <<If(L[j].name, in)>>
    BY DEF FieldIf
  <1>2. IsCodec(L[i].codec) /\ L[i].codec.kind = "option"
    BY <1>1, SimpleCodecs DEF Option
  <1>3. \A k \in DOMAIN L[i].cond : L[i].cond[k].name = L[j].name
    BY <1>1 DEF If
  <1>4. QED
    BY <1>1, <1>2, <1>3 DEF IsFieldAt

(* A field that is there under a condition, and its default. *)
LEMMA ConditionalField ==
    ASSUME NEW L, NEW i, IsSimple(L[i].codec), Holds(L[i].codec, L[i].default),
           \A k \in DOMAIN L[i].cond : \E j \in 1..(i - 1) : L[j].name = L[i].cond[k].name
    PROVE  IsFieldAt(L, i)
  BY DEF IsSimple, IsFieldAt

(* A vector whose length is in a field before it. *)
LEMMA CountedField ==
    ASSUME NEW L, NEW i, NEW e, IsElement(e), NEW n, L[i] = Field(n, Counted(L[i - 1].name, e)),
           i - 1 \in 1..(i - 1), L[i - 1].cond = <<>>, IsCountCodec(L[i - 1].codec)
    PROVE  IsFieldAt(L, i)
  <1>1. L[i].codec = Counted(L[i - 1].name, e) /\ L[i].cond = <<>>
    BY DEF Field
  <1>2. IsCodec(L[i].codec) /\ L[i].codec.kind = "counted" /\ L[i].codec.count = L[i - 1].name
    BY <1>1, SimpleCodecs DEF Counted
  <1>3. DOMAIN L[i].cond = {}
    BY <1>1
  <1>4. QED
    BY <1>1, <1>2, <1>3 DEF IsFieldAt

(* The fields with `update`: of a type u8, or Varints without a sign. *)
LEMMA CountCodecs == IsCountCodec(Octet) /\ IsCountCodec(Length) /\ IsCountCodec(VarU32)
  <1>1. IsCountCodec(Octet) /\ IsCountCodec(Length)
    BY TypesAssumption DEF IsCountCodec, Octet, Length, Fixed
  <1>2. IsCountCodec(VarU32)
    BY TypesAssumption DEF IsCountCodec, VarU32, Variable, IsVarint
  <1>3. QED
    BY <1>1, <1>2

(* The bytes at the end. *)
LEMMA LastField ==
    ASSUME NEW L, NEW i, i = Len(L), NEW n, NEW values, values \subseteq Byte,
           L[i] = Field(n, Rest(values))
    PROVE  IsFieldAt(L, i)
  <1>1. L[i].codec = Rest(values) /\ L[i].cond = <<>>
    BY DEF Field
  <1>2. IsCodec(L[i].codec) /\ L[i].codec.kind = "rest"
    BY <1>1, SimpleCodecs DEF Rest
  <1>3. DOMAIN L[i].cond = {}
    BY <1>1
  <1>4. QED
    BY <1>1, <1>2, <1>3 DEF IsFieldAt

(* Two layouts, one behind the other. *)
LEMMA LayoutsInLine ==
    ASSUME NEW L, IsLayout(L), IsPlain(L), NEW M, IsLayout(M),
           FieldNames(L) \cap FieldNames(M) = {}
    PROVE  /\ IsLayout(L \o M) /\ FieldNames(L \o M) = FieldNames(L) \cup FieldNames(M)
           /\ IsPlain(M) => IsPlain(L \o M)
           /\ Len(L \o M) = Len(L) + Len(M)
           /\ \A i \in 1..Len(L) : (L \o M)[i] = L[i]
           /\ \A i \in 1..Len(M) : (L \o M)[Len(L) + i] = M[i]
  <1> DEFINE m == Len(L)
             n == Len(M)
             K == L \o M
             S == {L[i] : i \in 1..m} \cup {M[i] : i \in 1..n}
  <1>1. m \in Nat /\ n \in Nat
    BY LayoutDomain
  <1>2. L = [i \in 1..m |-> L[i]] /\ M = [i \in 1..n |-> M[i]]
    BY DEF IsLayout, IsVector
  <1>3. L \in Seq(S) /\ M \in Seq(S)
    <2> HIDE DEF m, n
    <2>1. \A i \in 1..m : L[i] \in S
      OBVIOUS
    <2>2. \A i \in 1..n : M[i] \in S
      OBVIOUS
    <2> HIDE DEF S
    <2>3. [i \in 1..m |-> L[i]] \in Seq(S) /\ [i \in 1..n |-> M[i]] \in Seq(S)
      BY <1>1, <2>1, <2>2
    <2>4. QED
      BY <1>2, <2>3
  <1> HIDE DEF S
  <1>4. /\ K \in Seq(S) /\ Len(K) = m + n
        /\ \A i \in 1..(m + n) : K[i] = IF i <= m THEN L[i] ELSE M[i - m]
    BY <1>3, ConcatProperties
  <1> HIDE DEF m, n, K
  <1>5. \A i \in 1..m : i \in 1..(m + n) /\ K[i] = L[i]
    BY <1>1, <1>4
  <1>6. \A i \in 1..n : m + i \in 1..(m + n) /\ K[m + i] = M[i]
    <2> SUFFICES ASSUME NEW i \in 1..n PROVE m + i \in 1..(m + n) /\ K[m + i] = M[i]
      OBVIOUS
    <2>1. m + i \in 1..(m + n) /\ ~(m + i <= m) /\ (m + i) - m = i
      BY <1>1
    <2>2. QED
      BY <1>4, <2>1
  <1>7. \A k \in 1..(m + n) : k \in 1..m \/ \E i \in 1..n : k = m + i
    <2> SUFFICES ASSUME NEW k \in 1..(m + n), k \notin 1..m PROVE \E i \in 1..n : k = m + i
      OBVIOUS
    <2>1. k - m \in 1..n /\ k = m + (k - m)
      BY <1>1
    <2>2. QED
      BY <2>1
  <1>8. IsVector(K)
    <2>1. K = [i \in 1..Len(K) |-> K[i]] /\ Len(K) \in Nat
      BY <1>4, LenProperties
    <2>2. QED
      BY <2>1 DEF IsVector
  <1>9. /\ \A i \in 1..m : L[i].name \in FieldNames(L)
        /\ \A i \in 1..n : M[i].name \in FieldNames(M)
    BY LayoutDomain DEF m, n
  <1>10. FieldNames(K) = FieldNames(L) \cup FieldNames(M)
    <2>1. FieldNames(K) = {K[i].name : i \in 1..(m + n)}
      <3>1. DOMAIN K = 1..(m + n)
        BY <1>4, LenProperties
      <3>2. QED
        BY <3>1 DEF FieldNames
    <2>2. FieldNames(L) = {L[i].name : i \in 1..m} /\ FieldNames(M) = {M[i].name : i \in 1..n}
      BY LayoutDomain DEF m, n
    <2>3. \A i \in 1..(m + n) : K[i].name \in FieldNames(L) \cup FieldNames(M)
      BY <1>5, <1>6, <1>7, <1>9
    <2>4. \A x \in FieldNames(L) : \E i \in 1..(m + n) : K[i].name = x
      BY <1>5, <2>2
    <2>5. \A x \in FieldNames(M) : \E i \in 1..(m + n) : K[i].name = x
      BY <1>6, <2>2
    <2>6. QED
      BY <2>1, <2>3, <2>4, <2>5
  <1>11. ASSUME NEW i \in 1..(m + n), NEW j \in 1..(m + n), K[i].name = K[j].name
         PROVE  i = j
    <2>1. CASE i \in 1..m /\ j \in 1..m
      BY <1>5, <1>11, <2>1 DEF IsLayout, m
    <2>2. CASE i \notin 1..m /\ j \notin 1..m
      <3>1. PICK k \in 1..n : i = m + k
        BY <1>7, <2>2
      <3>2. PICK l \in 1..n : j = m + l
        BY <1>7, <2>2
      <3>3. M[k].name = M[l].name
        BY <1>6, <1>11, <3>1, <3>2
      <3>4. k = l
        BY <3>3 DEF IsLayout, n
      <3>5. QED
        BY <3>1, <3>2, <3>4
    <2>3. CASE i \in 1..m /\ j \notin 1..m
      <3>1. PICK l \in 1..n : j = m + l
        BY <1>7, <2>3
      <3>2. L[i].name = M[l].name
        BY <1>5, <1>6, <1>11, <2>3, <3>1
      <3>3. QED
        BY <1>9, <2>3, <3>2
    <2>4. CASE i \notin 1..m /\ j \in 1..m
      <3>1. PICK k \in 1..n : i = m + k
        BY <1>7, <2>4
      <3>2. L[j].name = M[k].name
        BY <1>5, <1>6, <1>11, <2>4, <3>1
      <3>3. QED
        BY <1>9, <2>4, <3>2
    <2>5. QED
      BY <2>1, <2>2, <2>3, <2>4
  <1>12. ASSUME NEW i \in 1..m PROVE IsFieldAt(K, i)
    <2>1. K[i] = L[i] /\ L[i].codec.kind # "rest" /\ \A j \in 1..(i - 1) : K[j] = L[j]
      <3>1. \A j \in 1..(i - 1) : j \in 1..m
        BY <1>1
      <3>2. QED
        BY <1>5, <3>1 DEF IsPlain, m
    <2>2. IsFieldAt(L, i)
      BY DEF IsLayout, m
    <2>3. QED
      BY <2>1, <2>2 DEF IsFieldAt
  <1>13. ASSUME NEW i \in 1..n PROVE IsFieldAt(K, m + i)
    <2>1. K[m + i] = M[i]
      BY <1>6
    <2>2. \A j \in 1..(i - 1) : m + j \in 1..((m + i) - 1) /\ K[m + j] = M[j]
      <3>1. \A j \in 1..(i - 1) : m + j \in 1..((m + i) - 1) /\ j \in 1..n
        BY <1>1
      <3>2. QED
        BY <1>6, <3>1
    <2>3. i = n => m + i = Len(K)
      BY <1>4
    <2>4. IsFieldAt(M, i)
      BY DEF IsLayout, n
    <2>5. QED
      BY SMTT(60), <2>1, <2>2, <2>3, <2>4 DEF IsFieldAt, n
  <1>14. IsLayout(K)
    <2>1. \A i \in 1..(m + n) : IsFieldAt(K, i)
      BY <1>7, <1>12, <1>13
    <2>2. QED
      BY <1>4, <1>8, <1>11, <2>1 DEF IsLayout
  <1>15. IsPlain(M) => IsPlain(K)
    <2>1. IsPlain(M) => \A i \in 1..n : M[i].codec.kind # "rest"
      BY DEF IsPlain, n
    <2>2. \A i \in 1..m : L[i].codec.kind # "rest"
      BY DEF IsPlain, m
    <2>3. IsPlain(M) => \A i \in 1..(m + n) : K[i].codec.kind # "rest"
      BY <1>5, <1>6, <1>7, <2>1, <2>2
    <2>4. QED
      BY <1>4, <2>3 DEF IsPlain
  <1>16. QED
    BY <1>4, <1>5, <1>6, <1>10, <1>14, <1>15 DEF m, n, K

(* The packets of the replication layer of which each field is always there. *)
LEMMA ReplicationDestroyLayout == IsUnconditional(ReplicationDestroyPacket)
  <1>1. AreSimpleFields(ReplicationDestroyPacket, 1)
    BY AreSimple DEF AreSimpleFields, IsVector, ReplicationDestroyPacket, Field, NetworkId
  <1>2. QED
    BY <1>1, SimpleLayout

(* ReplicationReadyPacket (replication.rs). *)
LEMMA ReplicationReadyLayout == IsUnconditional(ReplicationReadyPacket)
  <1>1. AreSimpleFields(ReplicationReadyPacket, 3)
    BY AreSimple DEF AreSimpleFields, IsVector, ReplicationReadyPacket, Field, NetworkId
  <1>2. QED
    BY <1>1, SimpleLayout

(* ClientReadyPacket (replication.rs). *)
LEMMA ClientReadyLayout == IsUnconditional(ClientReadyPacket)
  <1>1. AreSimpleFields(ClientReadyPacket, 4)
    BY AreSimple DEF AreSimpleFields, IsVector, ClientReadyPacket, Field
  <1>2. QED
    BY <1>1, SimpleLayout

(* JoinResultPacket (replication.rs). *)
LEMMA JoinResultLayout == IsUnconditional(JoinResultPacket)
  <1>1. AreSimpleFields(JoinResultPacket, 3)
    BY AreSimple DEF AreSimpleFields, IsVector, JoinResultPacket, Field
  <1>2. QED
    BY <1>1, SimpleLayout

(* PlayerDataPacket (replication.rs). *)
LEMMA PlayerDataLayout == IsUnconditional(PlayerDataPacket)
  <1>1. AreSimpleFields(PlayerDataPacket, 4)
    BY AreSimple DEF AreSimpleFields, IsVector, PlayerDataPacket, Field
  <1>2. QED
    BY <1>1, SimpleLayout

(* The header of an event. *)
LEMMA TargetsLayout == IsLayout(Targets) /\ AllReadAsWritten(Targets) /\ IsPlain(Targets)
  <1>1. AreSimpleFields(Targets, 2)
    BY AreSimple DEF AreSimpleFields, IsVector, Targets, Field, NetworkId
  <1>2. QED
    BY <1>1, SimpleLayout

(* The position of an event, behind its number. *)
LEMMA PositionLayout == IsLayout(Position) /\ AllReadAsWritten(Position) /\ IsPlain(Position)
  <1>1. AreSimpleFields(Position, 1)
    BY AreSimple DEF AreSimpleFields, IsVector, Position, Field
  <1>2. QED
    BY <1>1, SimpleLayout

(* The payloads of events. *)
LEMMA ModMessageServerReliableLayout == IsUnconditional(ModMessageServerReliablePayload)
  <1>1. AreSimpleFields(ModMessageServerReliablePayload, 3)
    BY AreSimple DEF AreSimpleFields, IsVector, ModMessageServerReliablePayload, Field
  <1>2. QED
    BY <1>1, SimpleLayout

(* The dictionary of pings (static_events). *)
LEMMA SendPingsAndRefreshLayout == IsUnconditional(SendPingsAndRefreshPayload)
  <1>1. AreSimpleFields(SendPingsAndRefreshPayload, 1)
    BY AreSimple DEF AreSimpleFields, IsVector, SendPingsAndRefreshPayload, Field
  <1>2. QED
    BY <1>1, SimpleLayout

(* DoDamageSlimBlockBatch (static_events). *)
LEMMA DoDamageSlimBlockBatchLayout == IsUnconditional(DoDamageSlimBlockBatchPayload)
  <1>1. AreSimpleFields(DoDamageSlimBlockBatchPayload, 5)
    BY AreSimple DEF AreSimpleFields, IsVector, DoDamageSlimBlockBatchPayload, Field, Vector3I
  <1>2. QED
    BY <1>1, SimpleLayout

(* AdminSettingsChangedClient (static_events). *)
LEMMA AdminSettingsChangedClientLayout == IsUnconditional(AdminSettingsChangedClientPayload)
  <1>1. AreSimpleFields(AdminSettingsChangedClientPayload, 2)
    BY AreSimple DEF AreSimpleFields, IsVector, AdminSettingsChangedClientPayload, Field
  <1>2. QED
    BY <1>1, SimpleLayout

(* UseFailureStatic (static_events). *)
LEMMA UseFailureStaticLayout == IsUnconditional(UseFailureStaticPayload)
  <1>1. AreSimpleFields(UseFailureStaticPayload, 4)
    BY AreSimple DEF AreSimpleFields, IsVector, UseFailureStaticPayload, Field
  <1>2. QED
    BY <1>1, SimpleLayout

(* The payloads of events that are made of vectors. *)
LEMMA ReportCompilationResultsLayout == IsUnconditional(ReportCompilationResultsPayload)
  <1>1. AreSimpleFields(ReportCompilationResultsPayload, 2)
    BY AreSimple DEF AreSimpleFields, IsVector, ReportCompilationResultsPayload, Field
  <1>2. QED
    BY <1>1, SimpleLayout

(* RefreshPlayersGrids (static_events). *)
LEMMA RefreshPlayersGridsLayout == IsUnconditional(RefreshPlayersGridsPayload)
  <1>1. AreSimpleFields(RefreshPlayersGridsPayload, 4)
    BY AreSimple DEF AreSimpleFields, IsVector, RefreshPlayersGridsPayload, Field
  <1>2. QED
    BY <1>1, SimpleLayout

(* RemoveSpecificOwnershipChangeRequests (static_events). *)
LEMMA RemoveSpecificOwnershipChangeRequestsLayout == IsUnconditional(RemoveSpecificOwnershipChangeRequestsPayload)
  <1>1. AreSimpleFields(RemoveSpecificOwnershipChangeRequestsPayload, 2)
    BY AreSimple DEF AreSimpleFields, IsVector, RemoveSpecificOwnershipChangeRequestsPayload, Field
  <1>2. QED
    BY <1>1, SimpleLayout

(* WorldDataPacket, the longest (replication.rs). *)
LEMMA WorldDataLayout == IsUnconditional(WorldDataPacket)
  <1> DEFINE L == WorldDataPacket
  <1>1. IsVector(L) /\ Len(L) = 15
    <2>1. Len(L) = 15 /\ DOMAIN L = 1..15
      BY DEF WorldDataPacket
    <2>2. L = [i \in DOMAIN L |-> L[i]]
      BY DEF WorldDataPacket
    <2> HIDE DEF L
    <2>3. QED
      BY <2>1, <2>2 DEF IsVector
  <1>2. \A i, j \in 1..15 : L[i].name = L[j].name => i = j
    BY SMTT(60) DEF WorldDataPacket, Field
  <1>3. \A i \in 1..15 : IsSimple(L[i].codec) /\ L[i].cond = <<>>
    BY AreSimple DEF WorldDataPacket, Field
  <1> HIDE DEF L
  <1>4. AreSimpleFields(L, 15)
    BY <1>1, <1>2, <1>3 DEF AreSimpleFields
  <1>5. QED
    BY <1>4, SimpleLayout DEF L

(* ClientConnectedPacket (replication.rs). *)
LEMMA ClientConnectedLayout == IsUnconditional(ClientConnectedPacket)
  <1>1. AreSimpleFields(ClientConnectedPacket, 8)
    BY AreSimple DEF AreSimpleFields, IsVector, ClientConnectedPacket, Field
  <1>2. QED
    BY <1>1, SimpleLayout

(* The packets with a vector whose length is in a field. *)
LEMMA ReplicationStreamBeginLayout == IsLayout(ReplicationStreamBeginPacket) /\ IsPlain(ReplicationStreamBeginPacket)
  <1> DEFINE L == ReplicationStreamBeginPacket
  <1>1. IsVector(L) /\ Len(L) = 5
    BY DEF ReplicationStreamBeginPacket, IsVector
  <1>2. \A i, j \in 1..5 : L[i].name = L[j].name => i = j
    BY DEF ReplicationStreamBeginPacket, Field
  <1>3. \A i \in 1..4 : IsSimple(L[i].codec) /\ L[i].cond = <<>>
    BY AreSimple DEF ReplicationStreamBeginPacket, Field, NetworkId
  <1>4. L[4] = Field("state_group_count", Octet)
        /\ L[5] = Field("state_group_ids", Counted("state_group_count", VarU32))
    BY DEF ReplicationStreamBeginPacket, NetworkId
  <1> HIDE DEF L
  <1>5. IsFieldAt(L, 5)
    BY <1>4, CountedField, CountCodecs, Elements DEF Field
  <1>6. IsLayout(L)
    BY <1>1, <1>2, <1>3, <1>5, SimpleField DEF IsLayout
  <1>7. L[5].codec.kind # "rest"
    BY <1>4 DEF Field, Counted
  <1>8. QED
    BY <1>1, <1>3, <1>6, <1>7 DEF L, IsSimple, IsPlain

(* ReplicationIslandDonePacket: entities behind their count (replication.rs). *)
LEMMA ReplicationIslandDoneLayout == IsLayout(ReplicationIslandDonePacket)
  <1> DEFINE L == ReplicationIslandDonePacket
  <1>1. IsVector(L) /\ Len(L) = 3
    BY DEF ReplicationIslandDonePacket, IsVector
  <1>2. \A i, j \in 1..3 : L[i].name = L[j].name => i = j
    BY DEF ReplicationIslandDonePacket, Field
  <1>3. \A i \in 1..2 : IsSimple(L[i].codec) /\ L[i].cond = <<>>
    BY AreSimple DEF ReplicationIslandDonePacket, Field
  <1>4. L[2] = Field("entity_count", Length) /\ L[3] = Field("entities", Counted("entity_count", Wide))
    BY DEF ReplicationIslandDonePacket
  <1> HIDE DEF L
  <1>5. IsFieldAt(L, 3)
    BY <1>4, CountedField, CountCodecs, Elements DEF Field
  <1>6. QED
    BY <1>1, <1>2, <1>3, <1>5, SimpleField DEF L, IsLayout

(* ServerDataPacket: hashes behind their count (replication.rs). *)
LEMMA ServerDataLayout == IsLayout(ServerDataPacket)
  <1> DEFINE L == ServerDataPacket
  <1>1. IsVector(L) /\ Len(L) = 2
    BY DEF ServerDataPacket, IsVector
  <1>2. \A i, j \in 1..2 : L[i].name = L[j].name => i = j
    BY DEF ServerDataPacket, Field
  <1>3. L[1] = Field("count", VarU32) /\ L[2] = Field("hash_table", Counted("count", Wide))
    BY DEF ServerDataPacket
  <1> HIDE DEF L
  <1>4. IsFieldAt(L, 1)
    BY <1>3, AreSimple, SimpleField DEF Field
  <1>5. IsFieldAt(L, 2)
    BY <1>3, CountedField, CountCodecs, Elements DEF Field
  <1>6. QED
    BY <1>1, <1>2, <1>4, <1>5 DEF L, IsLayout

(* ClientAckPacket: acknowledgements behind their count (replication.rs). *)
LEMMA ClientAckLayout == IsLayout(ClientAckPacket)
  <1> DEFINE L == ClientAckPacket
  <1>1. IsVector(L) /\ Len(L) = 5
    BY DEF ClientAckPacket, IsVector
  <1>2. \A i, j \in 1..5 : L[i].name = L[j].name => i = j
    BY DEF ClientAckPacket, Field
  <1>3. \A i \in 1..4 : IsSimple(L[i].codec) /\ L[i].cond = <<>>
    BY AreSimple DEF ClientAckPacket, Field
  <1>4. L[4] = Field("ack_packet_count", Octet)
        /\ L[5] = Field("ack_packets", Counted("ack_packet_count", Octet))
    BY DEF ClientAckPacket
  <1> HIDE DEF L
  <1>5. IsFieldAt(L, 5)
    BY <1>4, CountedField, CountCodecs, Elements DEF Field
  <1>6. QED
    BY <1>1, <1>2, <1>3, <1>5, SimpleField DEF L, IsLayout

(* The packets with fields under a condition. *)
LEMMA ReplicationRequestLayout == IsLayout(ReplicationRequestPacket)
  <1> DEFINE L == ReplicationRequestPacket
  <1>1. IsVector(L) /\ Len(L) = 7
    BY DEF ReplicationRequestPacket, IsVector
  <1>2. \A i, j \in 1..7 : L[i].name = L[j].name => i = j
    BY DEF ReplicationRequestPacket, Field, FieldIf
  <1>3. \A i \in 1..4 : IsSimple(L[i].codec) /\ L[i].cond = <<>>
    BY AreSimple DEF ReplicationRequestPacket, Field
  <1>4. L[2].name = "add" /\ L[3].name = "has_medical_room" /\ L[4].name = "has_interacted_entity"
    BY DEF ReplicationRequestPacket, Field
  <1>5. /\ L[5] = FieldIf("layer", Option(Octet), <<If("add", {1})>>, None)
        /\ L[6] = FieldIf("medical_room_id", Option(Wide), <<If("has_medical_room", {1})>>, None)
        /\ L[7] = FieldIf("interacted_entity_id", Option(Wide), <<If("has_interacted_entity", {1})>>, None)
    BY DEF ReplicationRequestPacket
  <1> HIDE DEF L
  <1>6. IsFieldAt(L, 5)
    <2>1. 2 \in 1..(5 - 1) /\ IsElement(Octet)
      BY Elements
    <2>2. \E n : L[5] = FieldIf(n, Option(Octet), <<If(L[2].name, {1})>>, None)
      BY <1>4, <1>5
    <2>3. QED
      BY <2>1, <2>2, OptionField, Zenon
  <1>7. IsFieldAt(L, 6)
    <2>1. 3 \in 1..(6 - 1) /\ IsElement(Wide)
      BY Elements
    <2>2. \E n : L[6] = FieldIf(n, Option(Wide), <<If(L[3].name, {1})>>, None)
      BY <1>4, <1>5
    <2>3. QED
      BY <2>1, <2>2, OptionField, Zenon
  <1>8. IsFieldAt(L, 7)
    <2>1. 4 \in 1..(7 - 1) /\ IsElement(Wide)
      BY Elements
    <2>2. \E n : L[7] = FieldIf(n, Option(Wide), <<If(L[4].name, {1})>>, None)
      BY <1>4, <1>5
    <2>3. QED
      BY <2>1, <2>2, OptionField, Zenon
  <1>9. \A i \in 1..4 : IsFieldAt(L, i)
    BY <1>3, SimpleField
  <1>10. \A i \in 1..7 : i \in 1..4 \/ i = 5 \/ i = 6 \/ i = 7
    OBVIOUS
  <1>11. \A i \in 1..7 : IsFieldAt(L, i)
    BY <1>6, <1>7, <1>8, <1>9, <1>10
  <1>12. QED
    BY <1>1, <1>2, <1>11 DEF L, IsLayout

(* The state in a ClientUpdatePacket, half of it under conditions (replication.rs). *)
LEMMA ClientStateLayout == IsLayout(ClientState) /\ IsPlain(ClientState)
  <1> DEFINE L == ClientState
             controlled == <<If("has_controlled_entity", {1})>>
             both == <<If("has_controlled_entity", {1}), If("context_by_page", {1, 2, 3})>>
  <1>0. ClientState = << Field("has_controlled_entity", BitBool),
           FieldIf("has_spectator_camera_position", BitBool,
                   <<If("has_controlled_entity", {0})>>, 0),
           FieldIf("position", Wide, <<If("has_spectator_camera_position", {1})>>, 0),
           FieldIf("controlled_entity_id", Wide, controlled, 0),
           FieldIf("has_control", BitBool, controlled, 0),
           Field("magic", Wide),
           FieldIf("context_by_page", ContextKind, controlled, 0),
           FieldIf("interacted_entity_id", Wide, both, 0) >>
    BY DEF ClientState
  <1>1. IsVector(L) /\ Len(L) = 8
    BY <1>0 DEF IsVector
  <1>2. \A i, j \in 1..8 : L[i].name = L[j].name => i = j
    BY <1>0 DEF Field, FieldIf
  <1>3. \A i \in 1..8 : IsSimple(L[i].codec) /\ L[i].codec.kind = "fixed"
    <2>1. Wide.kind = "fixed" /\ BitBool.kind = "fixed" /\ ContextKind.kind = "fixed"
      BY DEF Wide, BitBool, ContextKind, Fixed
    <2>2. IsSimple(Wide) /\ IsSimple(BitBool) /\ IsSimple(ContextKind)
      BY AreSimple
    <2> HIDE DEF controlled, both
    <2>3. \A i \in 1..8 : L[i].codec \in {Wide, BitBool, ContextKind}
      BY <1>0 DEF Field, FieldIf
    <2>4. QED
      BY <2>1, <2>2, <2>3
  <1>4. \A i \in 1..8 : Holds(L[i].codec, L[i].default) \/ L[i].cond = <<>>
    <2>1. 0 \in Wide.values /\ 0 \in BitBool.values /\ 0 \in ContextKind.values
      BY TypesAssumption, TwoToPositive DEF Wide, Unsigned, BitBool, ContextKind, Fixed
    <2>2. ASSUME NEW c, c.kind = "fixed", 0 \in c.values PROVE Holds(c, 0)
      BY <2>2 DEF Holds, HoldsPart
    <2>3. Wide.kind = "fixed" /\ BitBool.kind = "fixed" /\ ContextKind.kind = "fixed"
      BY DEF Wide, BitBool, ContextKind, Fixed
    <2>4. Holds(Wide, 0) /\ Holds(BitBool, 0) /\ Holds(ContextKind, 0)
      BY <2>1, <2>2, <2>3
    <2> HIDE DEF controlled, both
    <2>5. QED
      BY <1>0, <2>4 DEF Field, FieldIf
  <1>5. ASSUME NEW i \in 1..8, NEW k \in DOMAIN L[i].cond
        PROVE  \E j \in 1..(i - 1) : L[j].name = L[i].cond[k].name
    <2>1. L[1].name = "has_controlled_entity" /\ L[2].name = "has_spectator_camera_position"
          /\ L[7].name = "context_by_page"
      BY <1>0 DEF Field, FieldIf
    <2>2. L[1].cond = <<>> /\ L[6].cond = <<>>
      BY <1>0 DEF Field
    <2>3. /\ L[2].cond = <<If("has_controlled_entity", {0})>>
          /\ L[3].cond = <<If("has_spectator_camera_position", {1})>>
          /\ L[4].cond = controlled /\ L[5].cond = controlled /\ L[7].cond = controlled
          /\ L[8].cond = both
      BY <1>0 DEF FieldIf
    <2> HIDE DEF L
    <2>4. i \in {2, 4, 5, 7} => L[i].cond[k].name = L[1].name /\ 1 \in 1..(i - 1)
      BY <2>1, <2>3 DEF If
    <2>5. i = 3 => L[i].cond[k].name = L[2].name /\ 2 \in 1..(i - 1)
      BY <2>1, <2>3 DEF If
    <2>6. i = 8 => (L[i].cond[k].name = L[1].name \/ L[i].cond[k].name = L[7].name)
                   /\ 1 \in 1..(i - 1) /\ 7 \in 1..(i - 1)
      BY <2>1, <2>3 DEF If
    <2>7. i # 1 /\ i # 6
      BY <2>2
    <2>8. i \in {2, 4, 5, 7} \/ i = 3 \/ i = 8
      BY <2>7
    <2>9. QED
      BY <2>4, <2>5, <2>6, <2>8
  <1> HIDE DEF L
  <1>6. ASSUME NEW i \in 1..8 PROVE IsFieldAt(L, i)
    <2>1. CASE L[i].cond = <<>>
      BY <1>3, <2>1, SimpleField
    <2>2. CASE Holds(L[i].codec, L[i].default)
      BY <1>3, <1>5, <2>2, ConditionalField
    <2>3. QED
      BY <1>4, <2>1, <2>2
  <1>7. IsLayout(L)
    BY <1>1, <1>2, <1>6 DEF IsLayout
  <1>8. IsPlain(L)
    BY <1>1, <1>3 DEF IsPlain
  <1>9. QED
    BY <1>7, <1>8 DEF L

(* Every pattern of bits is a value of these. *)
LEMMA AreTotals == IsTotal(Octet) /\ IsTotal(Wide) /\ IsTotal(BitBool) /\ IsTotal(ContextKind)
  <1>1. \A n \in Nat \ {0} : IsTotal(Fixed(n, Unsigned(n)))
    BY DEF Fixed, IsTotal
  <1>2. Unsigned(1) = {0, 1} /\ Unsigned(2) = 0..3 /\ 1 \in Nat \ {0} /\ 2 \in Nat \ {0}
    BY SmallPowers DEF Unsigned
  <1>3. BitBool = Fixed(1, Unsigned(1)) /\ ContextKind = Fixed(2, Unsigned(2))
    BY <1>2 DEF BitBool, ContextKind
  <1>4. IsTotal(Octet) /\ IsTotal(Wide)
    BY <1>1, TypesAssumption DEF Octet, Wide
  <1>5. QED
    BY <1>1, <1>2, <1>3, <1>4

(* A packet that ends with another layout, and those that end with bytes. *)
LEMMA ClientUpdateLayout == IsLayout(ClientUpdatePacket) /\ AreTotal(ClientUpdatePacket)
  <1> DEFINE L == << Field("packet_id", Octet), Field("server_timestamp", Wide),
                     Field("client_timestamp", Wide) >>
  <1>1. IsUnconditional(L) /\ IsPlain(L)
    <2>1. AreSimpleFields(L, 3)
      BY AreSimple DEF AreSimpleFields, IsVector, Field
    <2>2. QED
      BY <2>1, SimpleLayout
  <1>2. FieldNames(L) = {"packet_id", "server_timestamp", "client_timestamp"}
    BY DEF FieldNames, Field
  <1>3. FieldNames(ClientState) \subseteq
            {"has_controlled_entity", "has_spectator_camera_position", "position",
             "controlled_entity_id", "has_control", "magic", "context_by_page",
             "interacted_entity_id"}
    BY DEF FieldNames, ClientState, Field, FieldIf
  <1>4. FieldNames(L) \cap FieldNames(ClientState) = {}
    BY <1>2, <1>3
  <1>5. Len(L) = 3 /\ \A i \in 1..3 : IsTotal(L[i].codec)
    BY AreTotals DEF Field
  <1>6. Len(ClientState) = 8 /\ \A i \in 1..8 : IsTotal(ClientState[i].codec)
    BY AreTotals DEF ClientState, Field, FieldIf
  <1> HIDE DEF L
  <1> DEFINE K == L \o ClientState
  <1>7. /\ IsLayout(K) /\ Len(K) = 3 + 8
        /\ (\A i \in 1..3 : K[i] = L[i]) /\ \A i \in 1..8 : K[3 + i] = ClientState[i]
    <2>1. IsLayout(L) /\ IsPlain(L) /\ IsLayout(ClientState)
      BY <1>1, ClientStateLayout, UnconditionalWritten
    <2> DEFINE M == ClientState
    <2>2. IsLayout(M) /\ FieldNames(L) \cap FieldNames(M) = {} /\ Len(L) = 3 /\ Len(M) = 8
      BY <1>4, <1>5, <1>6, <2>1
    <2> HIDE DEF M
    <2>3. /\ IsLayout(L \o M) /\ Len(L \o M) = Len(L) + Len(M)
          /\ \A i \in 1..Len(L) : (L \o M)[i] = L[i]
          /\ \A i \in 1..Len(M) : (L \o M)[Len(L) + i] = M[i]
      BY <2>1, <2>2, LayoutsInLine
    <2>4. QED
      BY <2>2, <2>3 DEF M
  <1> HIDE DEF K
  <1>8. \A k \in 1..(3 + 8) : k \in 1..3 \/ \E i \in 1..8 : k = 3 + i
    <2>1. \A k \in 1..11 : k \in 1..3 \/ (k - 3 \in 1..8 /\ k = 3 + (k - 3))
      OBVIOUS
    <2>2. QED
      BY <2>1
  <1>9. AreTotal(K)
    BY <1>5, <1>6, <1>7, <1>8 DEF AreTotal
  <1>10. QED
    BY <1>7, <1>9 DEF ClientUpdatePacket, K, L

(* A layout of the bytes that are left, and no more. *)
LEMMA BytesAtTheEnd ==
    ASSUME NEW n
    PROVE  /\ IsUnconditional(<< Field(n, Rest(Byte)) >>)
           /\ FieldNames(<< Field(n, Rest(Byte)) >>) = {n}
  <1> DEFINE L == << Field(n, Rest(Byte)) >>
  <1>1. IsVector(L) /\ Len(L) = 1 /\ L[1] = Field(n, Rest(Byte))
    BY DEF IsVector
  <1>2. FieldNames(L) = {n}
    BY DEF FieldNames, Field
  <1> HIDE DEF L
  <1>3. IsFieldAt(L, 1)
    BY <1>1, LastField
  <1>4. \A i \in 1..Len(L) : i = 1
    BY <1>1
  <1>5. IsLayout(L)
    BY <1>1, <1>3, <1>4 DEF IsLayout
  <1>6. L[1].cond = <<>> /\ IsRest(L[1].codec)
    BY <1>1 DEF Field, Rest, IsRest
  <1>7. QED
    BY <1>2, <1>4, <1>5, <1>6 DEF L, IsUnconditional

(* ReplicationCreatePacket: the header of a stream, and bytes (replication.rs). *)
LEMMA ReplicationCreateLayout == IsLayout(ReplicationCreatePacket)
  <1> DEFINE L == ReplicationStreamBeginPacket
             M == << Field("data", Rest(Byte)) >>
  <1>1. FieldNames(L) = {"type_id", "network_id", "parent_id", "state_group_count", "state_group_ids"}
    BY DEF FieldNames, ReplicationStreamBeginPacket, Field
  <1>2. ReplicationCreatePacket = L \o M
    BY DEF ReplicationCreatePacket, ReplicationStreamBeginPacket
  <1>3. IsLayout(M) /\ FieldNames(L) \cap FieldNames(M) = {}
    BY <1>1, BytesAtTheEnd, UnconditionalWritten
  <1> HIDE DEF L, M
  <1>4. IsLayout(L \o M)
    BY <1>3, ReplicationStreamBeginLayout, LayoutsInLine DEF L
  <1>5. QED
    BY <1>2, <1>4

(* ServerStatePacket: its state groups are the bytes that are left (replication.rs). *)
LEMMA ServerStateLayout == IsLayout(ServerStatePacket)
  <1> DEFINE L == ServerStatePacket
  <1>1. IsVector(L) /\ Len(L) = 10
    BY DEF ServerStatePacket, IsVector
  <1>2. \A i, j \in 1..10 : L[i].name = L[j].name => i = j
    BY DEF ServerStatePacket, Field
  <1>3. \A i \in 1..9 : IsSimple(L[i].codec) /\ L[i].cond = <<>>
    BY AreSimple DEF ServerStatePacket, Field, StatisticsState
  <1>4. L[10] = Field("state_groups", Rest(Byte))
    BY DEF ServerStatePacket
  <1> HIDE DEF L
  <1>5. IsFieldAt(L, 10)
    BY <1>1, <1>4, LastField
  <1>6. \A i \in 1..10 : i \in 1..9 \/ i = 10
    OBVIOUS
  <1>7. QED
    BY <1>1, <1>2, <1>3, <1>5, <1>6, SimpleField DEF L, IsLayout

(* Packets with no field, and with a single one (control.rs). *)
LEMMA SingleFieldLayouts ==
    /\ IsUnconditional(<<>>)
    /\ IsUnconditional(<< Field("client_id", Wide) >>)
    /\ IsUnconditional(<< Field("password_hash", VarBytes) >>)
  <1>1. IsUnconditional(<<>>)
    BY DEF IsUnconditional, IsLayout, IsVector
  <1>2. \A c : IsSimple(c) => \A n : AreSimpleFields(<<Field(n, c)>>, 1)
    BY DEF AreSimpleFields, IsVector, Field
  <1>3. QED
    BY <1>1, <1>2, AreSimple, SimpleLayout

(* Vectors, Options and state groups are written as they are read, too. *)
LEMMA OthersWritten ==
    /\ AllReadAsWritten(ReplicationStreamBeginPacket) /\ AllReadAsWritten(ReplicationCreatePacket)
    /\ AllReadAsWritten(ReplicationIslandDonePacket) /\ AllReadAsWritten(ReplicationRequestPacket)
    /\ AllReadAsWritten(ServerDataPacket) /\ AllReadAsWritten(ServerStatePacket)
    /\ AllReadAsWritten(ClientAckPacket)
  <1> USE DEF AllReadAsWritten, FieldsReadAsWritten, ReadsAsWritten
  <1>1. AllReadAsWritten(ReplicationStreamBeginPacket)
    BY DEF ReplicationStreamBeginPacket, Field
  <1>2. AllReadAsWritten(ReplicationCreatePacket)
    BY DEF ReplicationCreatePacket, ReplicationStreamBeginPacket, Field
  <1>3. AllReadAsWritten(ReplicationIslandDonePacket)
    BY DEF ReplicationIslandDonePacket, Field
  <1>4. AllReadAsWritten(ReplicationRequestPacket)
    BY DEF ReplicationRequestPacket, Field, FieldIf, Option
  <1>5. AllReadAsWritten(ServerDataPacket)
    BY DEF ServerDataPacket, Field
  <1>6. AllReadAsWritten(ServerStatePacket)
    BY DEF ServerStatePacket, Field
  <1>7. AllReadAsWritten(ClientAckPacket)
    BY DEF ClientAckPacket, Field
  <1>8. QED
    BY <1>1, <1>2, <1>3, <1>4, <1>5, <1>6, <1>7

\* Its fields are written if they are read, but for those of a ClientState.
IsWhole(L) == IsLayout(L) /\ (AllReadAsWritten(L) \/ L = ClientUpdatePacket)

(* The packets of the replication layer: known by their id, which is not that *)
(* of Rpc, and each with a layout.                                            *)
LEMMA PacketIs ==
    /\ \A n \in DOMAIN Packet : /\ Packet[n].channel = "replication"
                                /\ Packet[n].id \in 0..255 /\ Packet[n].id # Rpc
                                /\ IsWhole(Packet[n].layout)
    /\ \A m, n \in DOMAIN Packet : Packet[m].id = Packet[n].id => m = n
  <1>1. ASSUME NEW n \in DOMAIN Packet
        PROVE  /\ Packet[n].channel = "replication"
               /\ Packet[n].id \in 0..255 /\ Packet[n].id # Rpc
    <2>1. Packet[n].channel = "replication"
      BY DEF Packet, Replication
    <2>2. Packet[n].id \in {0, 2, 4, 5, 6, 7, 8, 9, 10, 11, 12, 13, 14, 17, 18, 19, 21}
      BY DEF Packet, Replication
    <2>3. QED
      BY <2>1, <2>2 DEF Rpc
  <1>2. ASSUME NEW n \in DOMAIN Packet PROVE IsWhole(Packet[n].layout)
    <2> DEFINE Layouts ==
            { <<>>, ReplicationCreatePacket, ReplicationDestroyPacket, ServerDataPacket,
              ServerStatePacket, ClientReadyPacket, ClientUpdatePacket, ReplicationReadyPacket,
              ReplicationStreamBeginPacket, JoinResultPacket, WorldDataPacket,
              ClientConnectedPacket, ClientAckPacket, ReplicationIslandDonePacket,
              ReplicationRequestPacket, PlayerDataPacket }
    <2>1. \A L \in Layouts : IsWhole(L)
      BY SingleFieldLayouts, ReplicationCreateLayout, ReplicationDestroyLayout, ServerDataLayout,
         ServerStateLayout, ClientReadyLayout, ClientUpdateLayout, ReplicationReadyLayout,
         ReplicationStreamBeginLayout, JoinResultLayout, WorldDataLayout, ClientConnectedLayout,
         ClientAckLayout, ReplicationIslandDoneLayout, ReplicationRequestLayout, PlayerDataLayout,
         OthersWritten, UnconditionalWritten
         DEF IsWhole
    <2>2. Packet[n].layout \in Layouts
      BY DEF Packet, Replication
    <2> HIDE DEF Layouts
    <2>3. QED
      BY <2>1, <2>2
  <1>3. \A m, n \in DOMAIN Packet : Packet[m].id = Packet[n].id => m = n
    BY DEF Packet, Replication
  <1>4. QED
    BY <1>1, <1>2, <1>3

(* The packets of the control channel. *)
LEMMA ControlPayloadIs ==
    /\ \A n \in DOMAIN ControlPayload : /\ ControlPayload[n].channel = "control"
                                        /\ ControlPayload[n].id \in 0..255
                                        /\ IsUnconditional(ControlPayload[n].layout)
    /\ \A m, n \in DOMAIN ControlPayload : ControlPayload[m].id = ControlPayload[n].id => m = n
  <1>1. ASSUME NEW n \in DOMAIN ControlPayload
        PROVE  ControlPayload[n].channel = "control" /\ ControlPayload[n].id \in 0..255
    BY DEF ControlPayload, Control
  <1>2. ASSUME NEW n \in DOMAIN ControlPayload PROVE IsUnconditional(ControlPayload[n].layout)
    BY SingleFieldLayouts DEF ControlPayload, Control
  <1>3. \A m, n \in DOMAIN ControlPayload : ControlPayload[m].id = ControlPayload[n].id => m = n
    BY DEF ControlPayload, Control
  <1>4. QED
    BY <1>1, <1>2, <1>3

\* The names of the fields in the header of an event.
HeaderNames == {"network_id", "blocked_by_network_id", "position"}

(* The events, whose fields are not called as those of the header. *)
LEMMA StaticEventPayloadIs ==
    /\ \A n \in DOMAIN StaticEventPayload :
          /\ StaticEventPayload[n].channel = "static_event"
          /\ StaticEventPayload[n].id \in 0..255
          /\ IsUnconditional(StaticEventPayload[n].layout)
          /\ FieldNames(StaticEventPayload[n].layout) \cap HeaderNames = {}
    /\ \A m, n \in DOMAIN StaticEventPayload :
          StaticEventPayload[m].id = StaticEventPayload[n].id => m = n
  <1>1. ASSUME NEW n \in DOMAIN StaticEventPayload
        PROVE  StaticEventPayload[n].channel = "static_event" /\ StaticEventPayload[n].id \in 0..255
    <2>1. StaticEventPayload[n].channel = "static_event"
      BY DEF StaticEventPayload, Event
    <2>2. StaticEventPayload[n].id \in 0..9
      BY DEF StaticEventPayload, Event
    <2>3. QED
      BY <2>1, <2>2
  <1>2. IsUnconditional(<<Field("payload", Rest(Byte))>>)
    BY BytesAtTheEnd
  <1>3. ASSUME NEW n \in DOMAIN StaticEventPayload
        PROVE  /\ IsUnconditional(StaticEventPayload[n].layout)
               /\ FieldNames(StaticEventPayload[n].layout) \cap HeaderNames = {}
    <2>1. FieldNames(ModMessageServerReliablePayload) = {"id", "message", "recipient"}
      BY DEF FieldNames, ModMessageServerReliablePayload, Field
    <2>2. FieldNames(SendPingsAndRefreshPayload) = {"dictionary"}
      BY DEF FieldNames, SendPingsAndRefreshPayload, Field
    <2>3. FieldNames(DoDamageSlimBlockBatchPayload) = {"grid_id", "blocks", "damage_type", "attacker_id", "extra_info"}
      BY DEF FieldNames, DoDamageSlimBlockBatchPayload, Field
    <2>4. FieldNames(ReportCompilationResultsPayload) = {"success", "messages"}
      BY DEF FieldNames, ReportCompilationResultsPayload, Field
    <2>5. FieldNames(RefreshPlayersGridsPayload) = {"indentity_id", "grids", "grid_ids", "total_pcu"}
      BY DEF FieldNames, RefreshPlayersGridsPayload, Field
    <2>6. FieldNames(AdminSettingsChangedClientPayload) = {"settings", "steam_id"}
      BY DEF FieldNames, AdminSettingsChangedClientPayload, Field
    <2>7. FieldNames(UseFailureStaticPayload) = {"use_action", "used_by_id", "use_result", "entity_id"}
      BY DEF FieldNames, UseFailureStaticPayload, Field
    <2>8. FieldNames(RemoveSpecificOwnershipChangeRequestsPayload) = {"block_ids", "batches"}
      BY DEF FieldNames, RemoveSpecificOwnershipChangeRequestsPayload, Field
    <2> DEFINE Layouts ==
            { <<>>, ModMessageServerReliablePayload, SendPingsAndRefreshPayload,
              DoDamageSlimBlockBatchPayload, ReportCompilationResultsPayload,
              RefreshPlayersGridsPayload, AdminSettingsChangedClientPayload,
              UseFailureStaticPayload, RemoveSpecificOwnershipChangeRequestsPayload,
              <<Field("payload", Rest(Byte))>> }
    <2>9. FieldNames(<<>>) = {} /\ FieldNames(<<Field("payload", Rest(Byte))>>) = {"payload"}
      BY BytesAtTheEnd DEF FieldNames
    <2>10. \A L \in Layouts : FieldNames(L) \cap HeaderNames = {}
      BY <2>1, <2>2, <2>3, <2>4, <2>5, <2>6, <2>7, <2>8, <2>9 DEF HeaderNames
    <2>11. \A L \in Layouts : IsUnconditional(L)
      BY <1>2, SingleFieldLayouts, ModMessageServerReliableLayout, SendPingsAndRefreshLayout,
         DoDamageSlimBlockBatchLayout, ReportCompilationResultsLayout, RefreshPlayersGridsLayout,
         AdminSettingsChangedClientLayout, UseFailureStaticLayout,
         RemoveSpecificOwnershipChangeRequestsLayout
    <2>12. StaticEventPayload[n].layout \in Layouts
      BY DEF StaticEventPayload, Event
    <2> HIDE DEF Layouts
    <2>13. QED
      BY <2>10, <2>11, <2>12
  <1>5. \A m, n \in DOMAIN StaticEventPayload :
            StaticEventPayload[m].id = StaticEventPayload[n].id => m = n
    BY DEF StaticEventPayload, Event
  <1>6. QED
    BY <1>1, <1>3, <1>5

(* Two functions of which no argument is one of both. *)
IsMerge(h, f, g) ==
    /\ DOMAIN h = DOMAIN f \cup DOMAIN g
    /\ \A x \in DOMAIN f : h[x] = f[x]
    /\ \A x \in DOMAIN g : h[x] = g[x]

(* Merging two functions that share no argument. *)
LEMMA MergeIs ==
    ASSUME NEW f, NEW g, DOMAIN f \cap DOMAIN g = {}
    PROVE  IsMerge(Merge(f, g), f, g)
  BY DEF Merge, IsMerge

(* No name is that of packets of two channels. *)
LEMMA PacketsAre ==
    /\ DOMAIN Packets = DOMAIN Packet \cup DOMAIN ControlPayload \cup DOMAIN StaticEventPayload
    /\ \A n \in DOMAIN Packet : Packets[n] = Packet[n]
    /\ \A n \in DOMAIN ControlPayload : Packets[n] = ControlPayload[n]
    /\ \A n \in DOMAIN StaticEventPayload : Packets[n] = StaticEventPayload[n]
  <1> DEFINE both == Merge(Packet, ControlPayload)
  <1>1. /\ DOMAIN Packet \cap DOMAIN ControlPayload = {}
        /\ DOMAIN Packet \cap DOMAIN StaticEventPayload = {}
        /\ DOMAIN ControlPayload \cap DOMAIN StaticEventPayload = {}
    BY DEF Packet, ControlPayload, StaticEventPayload
  <1>2. IsMerge(both, Packet, ControlPayload)
    BY <1>1, MergeIs
  <1>3. Packets = Merge(both, StaticEventPayload)
    BY DEF Packets
  <1> HIDE DEF both
  <1>4. DOMAIN both \cap DOMAIN StaticEventPayload = {}
    BY <1>1, <1>2 DEF IsMerge
  <1>5. IsMerge(Packets, both, StaticEventPayload)
    BY <1>3, <1>4, MergeIs
  <1>6. QED
    BY <1>2, <1>5 DEF IsMerge

(* A packet is known by its channel and id, and has a layout. *)
LEMMA EachPacket ==
    /\ \A n \in DOMAIN Packets :
          /\ Packets[n].channel \in {"replication", "control", "static_event"}
          /\ Packets[n].id \in 0..255
          /\ Packets[n].channel = "replication" => Packets[n].id # Rpc
          /\ IsWhole(Packets[n].layout) /\ IsLayout(Packets[n].layout)
          /\ IsEvent(n) => /\ IsUnconditional(Packets[n].layout)
                            /\ FieldNames(Packets[n].layout) \cap HeaderNames = {}
    /\ \A m, n \in DOMAIN Packets :
          Packets[m].channel = Packets[n].channel /\ Packets[m].id = Packets[n].id => m = n
  <1>1. ASSUME NEW n \in DOMAIN Packets
        PROVE  \/ n \in DOMAIN Packet /\ Packets[n] = Packet[n] /\ Packets[n].channel = "replication"
               \/ n \in DOMAIN ControlPayload /\ Packets[n] = ControlPayload[n] /\ Packets[n].channel = "control"
               \/ n \in DOMAIN StaticEventPayload /\ Packets[n] = StaticEventPayload[n]
                  /\ Packets[n].channel = "static_event"
    BY PacketsAre, PacketIs, ControlPayloadIs, StaticEventPayloadIs
  <1>2. ASSUME NEW n \in DOMAIN Packets
        PROVE  /\ Packets[n].channel \in {"replication", "control", "static_event"}
               /\ Packets[n].id \in 0..255
               /\ Packets[n].channel = "replication" => Packets[n].id # Rpc
               /\ IsWhole(Packets[n].layout) /\ IsLayout(Packets[n].layout)
               /\ IsEvent(n) => /\ IsUnconditional(Packets[n].layout)
                                 /\ FieldNames(Packets[n].layout) \cap HeaderNames = {}
    BY <1>1, PacketIs, ControlPayloadIs, StaticEventPayloadIs, UnconditionalWritten DEF IsEvent, IsWhole
  <1>3. ASSUME NEW m \in DOMAIN Packets, NEW n \in DOMAIN Packets,
               Packets[m].channel = Packets[n].channel, Packets[m].id = Packets[n].id
        PROVE  m = n
    BY <1>1, <1>3, PacketIs, ControlPayloadIs, StaticEventPayloadIs
  <1>4. QED
    BY <1>2, <1>3

(* The header of an event, its number aside. *)
LEMMA HeaderIs ==
    /\ FieldNames(Targets) = {"network_id", "blocked_by_network_id"}
    /\ FieldNames(Position) = {"position"}
    /\ FieldNames(Targets \o Position) = HeaderNames
    /\ IsLayout(Targets \o Position) /\ IsPlain(Targets \o Position)
  <1>1. FieldNames(Targets) = {"network_id", "blocked_by_network_id"}
    BY DEF FieldNames, Targets, Field
  <1>2. FieldNames(Position) = {"position"}
    BY DEF FieldNames, Position, Field
  <1>3. FieldNames(Targets) \cap FieldNames(Position) = {}
    BY <1>1, <1>2
  <1>4. /\ FieldNames(Targets \o Position) = FieldNames(Targets) \cup FieldNames(Position)
        /\ IsLayout(Targets \o Position) /\ IsPlain(Targets \o Position)
    BY <1>3, TargetsLayout, PositionLayout, LayoutsInLine
  <1>5. QED
    BY <1>1, <1>2, <1>4 DEF HeaderNames

(* The fields of a packet, those in the header of an event among them. *)
LEMMA LayoutIs ==
    ASSUME NEW n \in DOMAIN Packets
    PROVE  /\ IsLayout(LayoutOf[n])
           /\ ~IsEvent(n) => LayoutOf[n] = Packets[n].layout
           /\ IsEvent(n) => LayoutOf[n] = (Targets \o Position) \o Packets[n].layout
  <1>1. LayoutOf[n] = IF IsEvent(n) THEN (Targets \o Position) \o Packets[n].layout ELSE Packets[n].layout
    BY DEF LayoutOf
  <1>2. CASE ~IsEvent(n)
    BY <1>1, <1>2, EachPacket
  <1>3. CASE IsEvent(n)
    <2>1. IsLayout(Packets[n].layout) /\ FieldNames(Targets \o Position) \cap FieldNames(Packets[n].layout) = {}
      BY <1>3, EachPacket, HeaderIs
    <2>2. IsLayout((Targets \o Position) \o Packets[n].layout)
      BY <2>1, HeaderIs, LayoutsInLine
    <2>3. QED
      BY <1>1, <1>3, <2>2
  <1>4. QED
    BY <1>2, <1>3

----------------------------------------------------------------------------
(* What is read is in step *)

(* What a field needs of a packet are the packet's own fields. *)
LEMMA SameFields ==
    ASSUME NEW L, IsLayout(L), NEW i \in 1..Len(L), NEW p, NEW q,
           \A x \in FieldNames(L) : p[x] = q[x]
    PROVE  Agree(L[i], p, q)
  <1>1. \A x \in NamesTo(L, i - 1) : x \in FieldNames(L)
    <2>1. Len(L) \in Nat /\ FieldNames(L) = {L[j].name : j \in 1..Len(L)}
      BY LayoutDomain
    <2>2. \A j \in 1..(i - 1) : j \in 1..Len(L)
      BY <2>1
    <2>3. QED
      BY <2>1, <2>2 DEF NamesTo
  <1>2. L[i].name \in FieldNames(L)
    BY LayoutDomain
  <1>3. \A k \in DOMAIN L[i].cond : L[i].cond[k].name \in NamesTo(L, i - 1)
    BY NeedsBefore
  <1>4. L[i].codec.kind = "counted" => L[i].codec.count \in NamesTo(L, i - 1)
    BY NeedsBefore
  <1>5. QED
    BY <1>1, <1>2, <1>3, <1>4 DEF Agree

(* Two packets, one behind the other, are one packet. *)
LEMMA MergeInStep ==
    ASSUME NEW L, IsLayout(L), IsPlain(L), NEW M, IsLayout(M),
           FieldNames(L) \cap FieldNames(M) = {}, NEW p, InStep(L, p), NEW q, InStep(M, q)
    PROVE  InStep(L \o M, Merge(p, q)) /\ IsMerge(Merge(p, q), p, q)
  <1> DEFINE m == Len(L)
             n == Len(M)
             K == L \o M
             h == Merge(p, q)
  <1>1. m \in Nat /\ n \in Nat /\ DOMAIN L = 1..m /\ DOMAIN M = 1..n
    BY LayoutDomain
  <1>2. DOMAIN p = FieldNames(L) /\ DOMAIN q = FieldNames(M)
    BY DEF InStep
  <1>3. IsMerge(h, p, q)
    BY <1>2, MergeIs
  <1> HIDE DEF h
  <1>4. DOMAIN h = FieldNames(L) \cup FieldNames(M)
        /\ (\A x \in FieldNames(L) : p[x] = h[x]) /\ (\A x \in FieldNames(M) : q[x] = h[x])
    BY <1>2, <1>3 DEF IsMerge
  <1>5. IsLayout(K) /\ FieldNames(K) = FieldNames(L) \cup FieldNames(M) /\ Len(K) = m + n
    BY LayoutsInLine
  <1>6. (\A i \in 1..m : K[i] = L[i]) /\ (\A i \in 1..n : K[m + i] = M[i])
    BY LayoutsInLine
  <1> HIDE DEF K
  <1>7. ASSUME NEW i \in 1..m PROVE FieldInStep(K[i], h)
    <2>1. FieldInStep(L[i], p)
      BY <1>1 DEF InStep
    <2>2. Agree(L[i], p, h)
      BY <1>4, SameFields
    <2>3. FieldInStep(L[i], h)
      BY <2>1, <2>2, InStepAgree
    <2>4. QED
      BY <1>6, <2>3
  <1>8. ASSUME NEW i \in 1..n PROVE FieldInStep(K[m + i], h)
    <2>1. FieldInStep(M[i], q)
      BY <1>1 DEF InStep
    <2>2. Agree(M[i], q, h)
      BY <1>4, SameFields
    <2>3. FieldInStep(M[i], h)
      BY <2>1, <2>2, InStepAgree
    <2>4. QED
      BY <1>6, <2>3
  <1>9. ASSUME NEW k \in 1..(m + n) PROVE FieldInStep(K[k], h)
    <2>1. CASE k \in 1..m
      BY <1>7, <2>1
    <2>2. CASE k \notin 1..m
      <3> HIDE DEF m, n
      <3>1. k - m \in 1..n /\ m + (k - m) = k
        BY <1>1, <2>2
      <3>2. QED
        BY <1>8, <3>1
    <2>3. QED
      BY <2>1, <2>2
  <1>10. DOMAIN K = 1..(m + n)
    BY <1>5, LayoutDomain
  <1>11. QED
    BY <1>3, <1>4, <1>5, <1>9, <1>10 DEF InStep, K, h

\* A packet that was read.
ReadWell(r) ==
    /\ r[1] \in DOMAIN Packets
    /\ InStep(LayoutOf[r[1]], r[2])
    /\ IsEvent(r[1]) => r[2]["network_id"] = 0

(* The packet with an id has that id. *)
LEMMA NamedIs ==
    ASSUME NEW channel, NEW number, NamesOf(channel, number) # {}
    PROVE  /\ NameOf(channel, number) \in DOMAIN Packets
           /\ Packets[NameOf(channel, number)].channel = channel
           /\ Packets[NameOf(channel, number)].id = number
  <1>1. NameOf(channel, number) \in NamesOf(channel, number)
    BY DEF NameOf
  <1>2. QED
    BY <1>1 DEF NamesOf

(* A packet of either channel that is read is in step. *)
LEMMA NamedTyped ==
    ASSUME NEW channel, channel # "static_event", NEW number, NEW b \in Seq(Bit),
           ReadNamed(channel, number, b) # Failed
    PROVE  ReadWell(ReadNamed(channel, number, b))
  <1> DEFINE n == NameOf(channel, number)
             r == ReadFields(Packets[n].layout, b)
  <1>1. NamesOf(channel, number) # {} /\ r # Failed /\ ReadNamed(channel, number, b) = <<n, r[1]>>
    BY DEF ReadNamed, Then
  <1>2. n \in DOMAIN Packets /\ Packets[n].channel = channel
    BY <1>1, NamedIs
  <1>3. ~IsEvent(n) /\ LayoutOf[n] = Packets[n].layout /\ IsLayout(LayoutOf[n])
    BY <1>2, LayoutIs DEF IsEvent
  <1>4. InStep(LayoutOf[n], r[1])
    BY <1>1, <1>3, FieldsTyped
  <1> HIDE DEF n, r
  <1>5. QED
    BY <1>1, <1>2, <1>3, <1>4 DEF ReadWell

(* The header of an event and the event in it. *)
LEMMA EventTyped ==
    ASSUME NEW header, InStep(Targets \o Position, header), NEW number,
           NEW b \in Seq(Bit), ParseStaticEvent(header, number, b) # Failed
    PROVE  ReadWell(ParseStaticEvent(header, number, b))
  <1> DEFINE n == NameOf("static_event", number)
             L == Packets[n].layout
             r == ReadFields(L, b)
             h == Merge(header, r[1])
  <1>1. /\ header["network_id"] = 0 /\ NamesOf("static_event", number) # {}
        /\ r # Failed /\ ParseStaticEvent(header, number, b) = <<n, h>>
    BY DEF ParseStaticEvent, Then
  <1>2. n \in DOMAIN Packets /\ IsEvent(n)
    BY <1>1, NamedIs DEF IsEvent
  <1>3. IsLayout(L) /\ FieldNames(Targets \o Position) \cap FieldNames(L) = {}
    BY <1>2, EachPacket, HeaderIs
  <1>4. InStep(L, r[1])
    BY <1>1, <1>3, FieldsTyped
  <1>5. InStep((Targets \o Position) \o L, h) /\ IsMerge(h, header, r[1])
    BY <1>3, <1>4, HeaderIs, MergeInStep
  <1>6. LayoutOf[n] = (Targets \o Position) \o L
    BY <1>2, LayoutIs
  <1>7. h["network_id"] = 0
    <2>1. "network_id" \in DOMAIN header
      BY HeaderIs DEF InStep, HeaderNames
    <2> HIDE DEF h, r
    <2>2. QED
      BY <1>1, <1>5, <2>1 DEF IsMerge
  <1>8. InStep(LayoutOf[n], h)
    BY <1>5, <1>6
  <1> HIDE DEF n, L, r, h
  <1>9. QED
    BY <1>1, <1>2, <1>7, <1>8 DEF ReadWell

(* An RPC packet whose event is read is in step. *)
LEMMA RpcTyped ==
    ASSUME NEW b \in Seq(Bit), ReadRpc(b) # Failed
    PROVE  ReadWell(ReadRpc(b))
  <1> DEFINE c == Fixed(EventIdBits, Unsigned(EventIdBits))
             t == ReadFields(Targets, b)
             e == ReadFixed(c, t[2])
             o == ReadFields(Position, e[2])
             h == Merge(t[1], o[1])
  <1>1. /\ t # Failed /\ e # Failed /\ o # Failed /\ Parses(o[2])
        /\ ReadRpc(b) = ParseStaticEvent(h, e[1], ReadPayload(o[2]))
    BY DEF ReadRpc, Then
  <1>2. t[2] \in Seq(Bit) /\ InStep(Targets, t[1])
    BY <1>1, TargetsLayout, FieldsTyped DEF Leaves
  <1>3. e[2] \in Seq(Bit)
    <2>1. IsFixed(c)
      BY DEF Fixed, IsFixed, EventIdBits
    <2> HIDE DEF c, t
    <2>2. Leaves(e, t[2])
      BY <1>1, <1>2, <2>1, FixedTyped
    <2>3. QED
      BY <1>1, <2>2 DEF Leaves
  <1> HIDE DEF c, t, e
  <1>4. o[2] \in Seq(Bit) /\ InStep(Position, o[1])
    BY <1>1, <1>3, PositionLayout, FieldsTyped DEF Leaves
  <1> HIDE DEF o
  <1>5. InStep(Targets \o Position, h)
    <2>1. FieldNames(Targets) \cap FieldNames(Position) = {}
      BY HeaderIs
    <2>2. QED
      BY <1>2, <1>4, <2>1, TargetsLayout, PositionLayout, MergeInStep
  <1>6. ReadPayload(o[2]) \in Seq(Bit)
    BY <1>1, <1>4, PayloadBits
  <1> HIDE DEF h
  <1>7. QED
    BY <1>1, <1>5, <1>6, EventTyped

(* Whatever bytes there are, a packet that is read is in step. *)
LEMMA ReadTyped ==
    ASSUME NEW channel, channel # "static_event", NEW b \in Seq(Bit),
           ReadPacket(channel, b) # Failed
    PROVE  ReadWell(ReadPacket(channel, b))
  <1> DEFINE k == IF channel = "control" THEN 16 ELSE 8
             number == BitsValue(SubSeq(b, 1, k))
             a == After(b, 16)
  <1>1. ~(Len(b) < 16)
        /\ ReadPacket(channel, b) = IF channel # "control" /\ number = Rpc THEN ReadRpc(a)
                                    ELSE ReadNamed(channel, number, a)
    BY DEF ReadPacket
  <1>2. a \in Seq(Bit)
    <2>1. 16 \in 0..Len(b)
      BY <1>1, LenProperties
    <2>2. QED
      BY <2>1, AfterBits
  <1> HIDE DEF a, number
  <1>3. QED
    BY <1>1, <1>2, RpcTyped, NamedTyped

----------------------------------------------------------------------------
(* The packets a caller builds *)

NothingBuilt == {[x \in {} |-> None]}

BuiltUpon(built, field) == {Put(f, field.name, v) : f \in built, v \in Fillings(field)}

AreBuilding(f, L, n) ==
    f = [i \in 0..n |-> IF i = 0 THEN NothingBuilt ELSE BuiltUpon(f[i - 1], L[i])]

Building(L, n) == CHOOSE f : AreBuilding(f, L, n)

(* The recursion by which a caller fills a packet in. *)
LEMMA BuiltSteps ==
    ASSUME NEW L, NEW n \in Nat, Len(L) = n
    PROVE  LET f == Building(L, n)
           IN  /\ f[0] = NothingBuilt
               /\ \A i \in 1..n : f[i] = BuiltUpon(f[i - 1], L[i])
               /\ Built(L) = f[n]
  <1> DEFINE S == {m \in Nat : \E f : AreBuilding(f, L, m)}
  <1>1. 0 \in S
    <2>1. AreBuilding([i \in 0..0 |-> NothingBuilt], L, 0)
      BY DEF AreBuilding
    <2>2. QED
      BY <2>1
  <1>2. ASSUME NEW m \in Nat, m \in S
        PROVE  m + 1 \in S
    <2>1. PICK f : AreBuilding(f, L, m)
      BY <1>2
    <2> DEFINE g == [i \in 0..(m + 1) |-> IF i <= m THEN f[i] ELSE BuiltUpon(f[m], L[m + 1])]
    <2>2. \A i \in 0..(m + 1) : g[i] = IF i = 0 THEN NothingBuilt ELSE BuiltUpon(g[i - 1], L[i])
      BY <2>1 DEF AreBuilding
    <2>3. AreBuilding(g, L, m + 1)
      BY <2>2 DEF AreBuilding
    <2> HIDE DEF g
    <2>4. QED
      BY <2>3
  <1>3. n \in S
    <2> HIDE DEF S
    <2>1. QED
      BY <1>1, <1>2, Induction
  <1> DEFINE f == Building(L, n)
  <1>4. AreBuilding(f, L, n)
    BY <1>3 DEF Building
  <1>5. Built(L) = f[n]
    BY DEF Built, BuiltUpon, NothingBuilt, Building, AreBuilding
  <1> HIDE DEF f
  <1>6. f[0] = NothingBuilt
    BY <1>4 DEF AreBuilding
  <1>7. ASSUME NEW i \in 1..n PROVE f[i] = BuiltUpon(f[i - 1], L[i])
    <2>1. i \in 0..n /\ i # 0
      OBVIOUS
    <2>2. QED
      BY <1>4, <2>1 DEF AreBuilding
  <1>8. QED
    BY <1>5, <1>6, <1>7 DEF f

(* A packet with a value for each field up to the i-th. *)
FilledTo(L, p, i) ==
    DOMAIN p = NamesTo(L, i) /\ \A j \in 1..i : p[L[j].name] \in Fillings(L[j])

(* A packet that was built has one of the fillings in each field. *)
LEMMA BuiltIs ==
    ASSUME NEW L, IsLayout(L), NEW p \in Built(L)
    PROVE  FilledTo(L, p, Len(L))
  <1> DEFINE n == Len(L)
             f == Building(L, n)
             Good(i) == i <= n => \A q \in f[i] : FilledTo(L, q, i)
             S == {i \in Nat : Good(i)}
  <1>1. n \in Nat
    BY LayoutDomain
  <1>2. /\ f[0] = NothingBuilt
        /\ \A i \in 1..n : f[i] = BuiltUpon(f[i - 1], L[i])
        /\ Built(L) = f[n]
    BY <1>1, BuiltSteps
  <1> HIDE DEF n, f
  <1>3. 0 \in S
    <2>1. \A q \in f[0] : FilledTo(L, q, 0)
      BY <1>2 DEF NothingBuilt, FilledTo, NamesTo
    <2>2. QED
      BY <2>1
  <1>4. ASSUME NEW i \in Nat, i \in S PROVE i + 1 \in S
    <2> SUFFICES ASSUME i + 1 <= n, NEW q \in f[i + 1] PROVE FilledTo(L, q, i + 1)
      <3>1. Good(i + 1)
        OBVIOUS
      <3> HIDE DEF Good
      <3>2. QED
        BY <3>1
    <2> DEFINE m == L[i + 1].name
    <2>1. i + 1 \in 1..n /\ (i + 1) - 1 = i /\ i <= n
      BY <1>1
    <2>2. f[i + 1] = BuiltUpon(f[i], L[i + 1])
      BY <1>2, <2>1
    <2>3. PICK r \in f[i], v \in Fillings(L[i + 1]) : q = Put(r, m, v)
      BY <2>2 DEF BuiltUpon
    <2>4. FilledTo(L, r, i)
      BY <1>4, <2>1
    <2>5. NamesTo(L, i + 1) = NamesTo(L, i) \cup {m} /\ m \notin NamesTo(L, i)
      BY <2>1, NamesGrow DEF n
    <2>6. DOMAIN q = NamesTo(L, i + 1) /\ q[m] = v /\ \A x \in NamesTo(L, i) : q[x] = r[x]
      BY <2>3, <2>4, <2>5 DEF FilledTo, Put
    <2>7. ASSUME NEW j \in 1..(i + 1) PROVE q[L[j].name] \in Fillings(L[j])
      <3>1. CASE j = i + 1
        BY <2>6, <3>1
      <3>2. CASE j # i + 1
        <4>1. j \in 1..i
          BY <3>2
        <4>2. L[j].name \in NamesTo(L, i)
          BY <4>1 DEF NamesTo
        <4>3. QED
          BY <2>4, <2>6, <4>1, <4>2 DEF FilledTo
      <3>3. QED
        BY <3>1, <3>2
    <2>8. QED
      BY <2>6, <2>7 DEF FilledTo
  <1>5. n \in S
    <2> HIDE DEF S
    <2>1. QED
      BY <1>1, <1>3, <1>4, Induction
  <1>6. \A q \in f[n] : FilledTo(L, q, n)
    BY <1>1, <1>5
  <1>7. QED
    BY <1>2, <1>6 DEF n

----------------------------------------------------------------------------
(* The types of the fields *)

FieldsHold(L, p) == \A i \in 1..Len(L) : HoldsField(L[i], p[L[i].name])

Typed(n, p) ==
    /\ n \in DOMAIN Packets
    /\ DOMAIN p = FieldNames(LayoutOf[n])
    /\ FieldsHold(LayoutOf[n], p)

(* A packet that was built has values of the types of its fields. *)
LEMMA BuiltTyped ==
    ASSUME NEW n \in DOMAIN Packets, NEW p \in Built(LayoutOf[n])
    PROVE  Typed(n, p)
  <1> DEFINE L == LayoutOf[n]
  <1>1. IsLayout(L)
    BY LayoutIs
  <1>2. Len(L) \in Nat /\ DOMAIN L = 1..Len(L) /\ FieldNames(L) = NamesTo(L, Len(L))
    BY <1>1, LayoutDomain DEF NamesTo
  <1>3. FilledTo(L, p, Len(L))
    BY <1>1, BuiltIs
  <1>4. \A i \in DOMAIN L : \A v \in Sample(L[i].codec) : Holds(L[i].codec, v)
    BY SampleAssumption
  <1> HIDE DEF L
  <1>5. ASSUME NEW i \in 1..Len(L) PROVE HoldsField(L[i], p[L[i].name])
    <2>1. IsFieldAt(L, i)
      BY <1>1 DEF IsLayout
    <2>2. p[L[i].name] \in Fillings(L[i])
      BY <1>3 DEF FilledTo
    <2>3. CASE p[L[i].name] \in Sample(L[i].codec)
      BY <1>2, <1>4, <2>3 DEF HoldsField
    <2>4. CASE /\ L[i].codec.kind = "option" \/ L[i].cond # <<>>
               /\ p[L[i].name] = L[i].default
      BY <2>1, <2>4 DEF IsFieldAt, HoldsField
    <2>5. QED
      BY <2>2, <2>3, <2>4 DEF Fillings
  <1>6. QED
    BY <1>2, <1>3, <1>5 DEF Typed, FilledTo, FieldsHold, L

(* So has a packet that is in step. *)
LEMMA InStepTyped ==
    ASSUME NEW n \in DOMAIN Packets, NEW p, InStep(LayoutOf[n], p)
    PROVE  Typed(n, p)
  <1>1. IsLayout(LayoutOf[n])
    BY LayoutIs
  <1>2. FieldsInStep(LayoutOf[n], p)
    BY <1>1, LayoutDomain DEF InStep, FieldsInStep
  <1>3. QED
    BY <1>1, <1>2, InStepHolds DEF Typed, FieldsHold, InStep

(* Of two layouts in line each has its own fields. *)
LEMMA FieldsHoldInLine ==
    ASSUME NEW L, IsLayout(L), IsPlain(L), NEW M, IsLayout(M),
           FieldNames(L) \cap FieldNames(M) = {}, NEW p, FieldsHold(L \o M, p)
    PROVE  FieldsHold(L, p) /\ FieldsHold(M, p)
  <1> DEFINE m == Len(L)
             n == Len(M)
             K == L \o M
  <1>1. m \in Nat /\ n \in Nat
    BY LayoutDomain
  <1>2. Len(K) = m + n /\ (\A i \in 1..m : K[i] = L[i]) /\ (\A i \in 1..n : K[m + i] = M[i])
    BY LayoutsInLine
  <1>3. \A k \in 1..(m + n) : HoldsField(K[k], p[K[k].name])
    BY <1>2 DEF FieldsHold
  <1> HIDE DEF K, m, n
  <1>4. \A i \in 1..m : i \in 1..(m + n)
    BY <1>1
  <1>5. \A i \in 1..n : m + i \in 1..(m + n)
    BY <1>1
  <1>6. \A i \in 1..m : HoldsField(L[i], p[L[i].name])
    BY <1>2, <1>3, <1>4
  <1>7. \A i \in 1..n : HoldsField(M[i], p[M[i].name])
    BY <1>2, <1>3, <1>5
  <1>8. QED
    BY <1>6, <1>7 DEF FieldsHold, m, n

(* The fields of an event have the types of the layouts they are in. *)
LEMMA TypedParts ==
    ASSUME NEW n, NEW p, Typed(n, p)
    PROVE  /\ FieldsHold(Packets[n].layout, p)
           /\ IsEvent(n) => FieldsHold(Targets, p) /\ FieldsHold(Position, p)
  <1>1. n \in DOMAIN Packets /\ FieldsHold(LayoutOf[n], p) /\ IsLayout(Packets[n].layout)
    BY EachPacket DEF Typed
  <1>2. CASE ~IsEvent(n)
    BY <1>1, <1>2, LayoutIs
  <1>3. CASE IsEvent(n)
    <2>1. FieldsHold((Targets \o Position) \o Packets[n].layout, p)
      BY <1>1, <1>3, LayoutIs
    <2>2. FieldNames(Targets \o Position) \cap FieldNames(Packets[n].layout) = {}
      BY <1>1, <1>3, EachPacket, HeaderIs
    <2>3. FieldsHold(Targets \o Position, p) /\ FieldsHold(Packets[n].layout, p)
      BY <1>1, <2>1, <2>2, HeaderIs, FieldsHoldInLine
    <2>4. FieldNames(Targets) \cap FieldNames(Position) = {}
      BY HeaderIs
    <2>5. FieldsHold(Targets, p) /\ FieldsHold(Position, p)
      BY <2>3, <2>4, TargetsLayout, PositionLayout, FieldsHoldInLine
    <2>6. QED
      BY <2>3, <2>5
  <1>4. QED
    BY <1>2, <1>3

----------------------------------------------------------------------------
(* The bytes written *)

(* An id, as the number of a header and as that of an event. *)
LEMMA EventNumber ==
    ASSUME NEW v \in 0..255
    PROVE  /\ Bits(v, EventIdBits) \in Seq(Bit) /\ Len(Bits(v, EventIdBits)) = EventIdBits
           /\ BitsValue(Bits(v, EventIdBits)) = v /\ v \in Unsigned(EventIdBits)
           /\ Bits(v, 8) \in Seq(Bit) /\ Len(Bits(v, 8)) = 8 /\ BitsValue(Bits(v, 8)) = v
  <1> DEFINE k == 8
  <1>1. TwoTo[7 + 1] = 2 * TwoTo[7]
    BY TwoToStep
  <1>2. TwoTo[k] = 256 /\ k \in Nat
    BY <1>1, TwoToSevenIs
  <1>3. EventIdBits \in Nat /\ k <= EventIdBits
    BY DEF EventIdBits
  <1> HIDE DEF k
  <1>4. TwoTo[k] <= TwoTo[EventIdBits] /\ TwoTo[EventIdBits] \in Nat
    BY <1>2, <1>3, TwoToGrows, TwoToPositive
  <1>5. v \in 0..(TwoTo[EventIdBits] - 1) /\ v \in 0..(TwoTo[k] - 1)
    BY <1>2, <1>4
  <1>6. /\ Bits(v, EventIdBits) \in Seq(Bit) /\ Len(Bits(v, EventIdBits)) = EventIdBits
        /\ BitsValue(Bits(v, EventIdBits)) = v
    BY <1>3, <1>5, ValueOfBits
  <1>7. Bits(v, k) \in Seq(Bit) /\ Len(Bits(v, k)) = k /\ BitsValue(Bits(v, k)) = v
    BY <1>2, <1>5, ValueOfBits
  <1>8. QED
    BY <1>5, <1>6, <1>7 DEF Unsigned, k

(* Both headers are two bytes. *)
LEMMA HeaderBitsAre ==
    ASSUME NEW n \in DOMAIN Packets
    PROVE  HeaderBits(n) \in Seq(Bit) /\ Len(HeaderBits(n)) = 16
  <1>1. \A v \in 0..255 : \A k \in {8, 16} : Bits(v, k) \in Seq(Bit) /\ Len(Bits(v, k)) = k
    <2>1. ASSUME NEW v \in 0..255
          PROVE  /\ Bits(v, 8) \in Seq(Bit) /\ Len(Bits(v, 8)) = 8
                 /\ Bits(v, 16) \in Seq(Bit) /\ Len(Bits(v, 16)) = 16
      BY EventNumber DEF EventIdBits
    <2>2. QED
      BY <2>1
  <1>2. Packets[n].id \in 0..255 /\ Rpc \in 0..255 /\ 1 \in 0..255
    BY EachPacket DEF Rpc
  <1> DEFINE u == Bits(IF IsEvent(n) THEN Rpc ELSE Packets[n].id, 8)
             w == Bits(1, 8)
  <1>3. u \in Seq(Bit) /\ Len(u) = 8 /\ w \in Seq(Bit) /\ Len(w) = 8
    BY <1>1, <1>2
  <1>4. HeaderBits(n) = IF Packets[n].channel = "control" THEN Bits(Packets[n].id, 16) ELSE u \o w
    BY DEF HeaderBits
  <1> HIDE DEF u, w
  <1>5. u \o w \in Seq(Bit) /\ Len(u \o w) = 16
    <2>1. u \o w \in Seq(Bit) /\ Len(u \o w) = Len(u) + Len(w)
      BY <1>3, ConcatProperties
    <2>2. QED
      BY <1>3, <2>1
  <1>6. QED
    BY <1>1, <1>2, <1>4, <1>5

(* The stream is finished with whole bytes. *)
LEMMA FilledBits ==
    ASSUME NEW s \in Seq(Bit)
    PROVE  /\ Filled(s) \in Seq(Bit) /\ Len(Filled(s)) % 8 = 0 /\ Filled(s) = BitsToBytes(s)
  <1>1. Filled(s) = BitsToBytes(s)
    BY DEF Filled, BitsToBytes, Zeros, Slack
  <1>2. QED
    BY <1>1, BytesAreWhole

\* The payload of an event, as bits or as bytes.
PayloadOf(n, p, asBytes) ==
    LET data == WriteFields(Packets[n].layout, p)
    IN  IF asBytes THEN BitsToBytes(data) ELSE data

(* A packet is written as bits, under whatever id, in step or not. *)
LEMMA WriteBitsOf ==
    ASSUME NEW n, NEW p, Typed(n, p), NEW m \in DOMAIN Packets, NEW asBytes \in BOOLEAN
    PROVE  WriteAs(n, m, p, asBytes) \in Seq(Bit)
  <1> DEFINE data == WriteFields(Packets[n].layout, p)
             payload == PayloadOf(n, p, asBytes)
             k == IF IsEvent(m) THEN m ELSE n
  <1>1. n \in DOMAIN Packets /\ k \in DOMAIN Packets
    BY DEF Typed
  <1>2. data \in Seq(Bit)
    BY <1>1, TypedParts, EachPacket, FieldsBits DEF FieldsHold
  <1>3. payload \in Seq(Bit)
    BY <1>2, BytesAreWhole DEF PayloadOf
  <1>4. Terminator \in Seq(Bit) /\ HeaderBits(m) \in Seq(Bit)
    BY SMTT(60), TerminatorBits, HeaderBitsAre
  <1>5. Bits(Packets[k].id, EventIdBits) \in Seq(Bit)
    <2>1. Packets[k].id \in 0..255
      BY <1>1, EachPacket
    <2>2. QED
      BY <2>1, EventNumber
  <1>6. IsEvent(n) => WriteFields(Targets, p) \in Seq(Bit) /\ WriteFields(Position, p) \in Seq(Bit)
    BY TypedParts, TargetsLayout, PositionLayout, FieldsBits DEF FieldsHold
  <1>7. WriteAs(n, m, p, asBytes) =
            HeaderBits(m) \o IF ~IsEvent(n) THEN data ELSE WriteRpc(Packets[k].id, p, payload)
    BY DEF WriteAs, PayloadOf
  <1> HIDE DEF data, payload, k
  <1>8. IsEvent(n) => WriteRpc(Packets[k].id, p, payload) \in Seq(Bit)
    BY <1>3, <1>4, <1>5, <1>6, ConcatProperties DEF WriteRpc
  <1>9. QED
    BY <1>2, <1>4, <1>7, <1>8, ConcatProperties

(* A length, as the number of a count. *)
LEMMA CountHolds ==
    ASSUME NEW c, IsCountCodec(c), NEW n \in Nat
    PROVE  LET m == TwoTo[IF c.kind = "fixed" THEN c.bits ELSE c.type.bits]
           IN  Holds(c, n % m)
  <1>1. CASE c.kind = "fixed" /\ c.bits \in Nat \ {0} /\ c.values = Unsigned(c.bits)
    <2> DEFINE m == TwoTo[c.bits]
    <2>1. m \in Nat /\ m > 0
      BY <1>1, TwoToPositive
    <2>2. n % m \in 0..(m - 1)
      <3> HIDE DEF m
      <3>1. QED
        BY <2>1, ModRange
    <2>3. n % m \in c.values
      BY <1>1, <2>2 DEF Unsigned
    <2> HIDE DEF m
    <2>4. Holds(c, n % m)
      BY <1>1, <2>3 DEF Holds, HoldsPart
    <2>5. QED
      BY <1>1, <2>4 DEF m
  <1>2. CASE IsVarint(c) /\ ~c.type.signed
    <2> DEFINE m == TwoTo[c.type.bits]
    <2>1. n % m \in IntegersOf(c.type)
      BY <1>2, LengthIs DEF IsVarint
    <2> HIDE DEF m
    <2>2. Holds(c, n % m)
      BY <1>2, <2>1 DEF Holds, HoldsPart, IsVarint
    <2>3. QED
      BY <1>2, <2>2 DEF m, IsVarint
  <1>3. QED
    BY <1>1, <1>2 DEF IsCountCodec

(* update() leaves numbers of their types in the counts. *)
LEMMA UpdateTyped ==
    ASSUME Typed(name, fields), Update
    PROVE  Typed(name, fields')
  <1> DEFINE L == LayoutOf[name]
             counted(x) == \E i \in Counts : CountOf(i) = x
             one(x) == CHOOSE i \in Counts : CountOf(i) = x
             new(x) == Len(fields[L[one(x)].name]) % Room(one(x))
  <1>1. IsLayout(L) /\ name \in DOMAIN Packets /\ DOMAIN fields = FieldNames(L)
        /\ FieldsHold(L, fields)
    BY LayoutIs DEF Typed
  <1>2. Len(L) \in Nat /\ DOMAIN L = 1..Len(L) /\ FieldNames(L) = {L[j].name : j \in 1..Len(L)}
    BY <1>1, LayoutDomain
  <1>3. fields' = [x \in DOMAIN fields |-> IF counted(x) THEN new(x) ELSE fields[x]]
    BY DEF Update, Layout
  <1>4. /\ \A i : i \in Counts <=> i \in 1..Len(L) /\ L[i].codec.kind = "counted"
        /\ \A i : CountOf(i) = L[i].codec.count
        /\ \A i : Room(i) = LET j == CHOOSE j \in DOMAIN L : L[j].name = CountOf(i)
                            IN  TwoTo[IF L[j].codec.kind = "fixed" THEN L[j].codec.bits
                                      ELSE L[j].codec.type.bits]
    BY SMTT(60), <1>2 DEF Counts, CountOf, Room, Layout
  <1>5. ASSUME NEW k \in 1..Len(L), counted(L[k].name)
        PROVE  Holds(L[k].codec, new(L[k].name))
    <2> DEFINE i == one(L[k].name)
               c == L[k].codec
               vs == fields[L[i].name]
    <2>1. i \in Counts /\ CountOf(i) = L[k].name
      BY SMTT(60), <1>5
    <2> HIDE DEF L, i
    <2>2. i \in 1..Len(L) /\ L[i].codec.kind = "counted" /\ L[i].codec.count = L[k].name
      BY <1>4, <2>1
    <2>3. IsFieldAt(L, i)
      BY <1>1, <2>2 DEF IsLayout
    <2>4. PICK j \in 1..(i - 1) : L[j].name = L[k].name /\ IsCountCodec(L[j].codec)
      BY <2>2, <2>3 DEF IsFieldAt
    <2>5. j \in 1..Len(L)
      BY <1>2, <2>2
    <2>6. j = k
      BY <1>1, <2>4, <2>5 DEF IsLayout
    <2>7. IsCountCodec(c)
      BY SMTT(60), <2>4, <2>6
    <2>8. Room(i) = TwoTo[IF c.kind = "fixed" THEN c.bits ELSE c.type.bits]
      <3> DEFINE l == CHOOSE l \in DOMAIN L : L[l].name = CountOf(i)
      <3>1. l \in DOMAIN L /\ L[l].name = CountOf(i)
        BY <1>2, <2>1
      <3>2. l = k
        <4> HIDE DEF l
        <4>1. QED
          BY SMTT(60), <1>1, <1>2, <2>1, <3>1 DEF IsLayout
      <3>3. Room(i) = TwoTo[IF L[l].codec.kind = "fixed" THEN L[l].codec.bits ELSE L[l].codec.type.bits]
        BY <1>4
      <3>4. QED
        BY <3>2, <3>3
    <2>9. Len(vs) \in Nat
      <3>1. HoldsField(L[i], vs)
        BY <1>1, <2>2 DEF FieldsHold
      <3>2. QED
        BY <2>2, <3>1 DEF HoldsField, Holds, IsVector
    <2> HIDE DEF c, vs
    <2>10. Holds(c, Len(vs) % TwoTo[IF c.kind = "fixed" THEN c.bits ELSE c.type.bits])
      BY <2>7, <2>9, CountHolds
    <2>11. QED
      BY <2>8, <2>10 DEF c, vs, i
  <1> HIDE DEF new, one, counted
  <1>6. ASSUME NEW k \in 1..Len(L) PROVE HoldsField(L[k], fields'[L[k].name])
    <2>1. L[k].name \in DOMAIN fields
      BY <1>1, <1>2
    <2>2. CASE counted(L[k].name)
      BY <1>3, <1>5, <2>1, <2>2 DEF HoldsField
    <2>3. CASE ~counted(L[k].name)
      BY <1>1, <1>3, <2>1, <2>3 DEF FieldsHold
    <2>4. QED
      BY <2>2, <2>3
  <1>7. DOMAIN fields' = FieldNames(L)
    BY <1>1, <1>3
  <1>8. QED
    BY <1>1, <1>6, <1>7 DEF Typed, FieldsHold

----------------------------------------------------------------------------
(* The invariant *)

IsSent(p) ==
    /\ p = [name |-> p.name, id |-> p.id, fields |-> p.fields]
    /\ p.id \in DOMAIN Packets
    /\ Typed(p.name, p.fields)

\* The bytes of a packet, and what a cut may leave of them.
BytesOf(p, asBytes) == Filled(WriteAs(p.name, p.id, p.fields, asBytes))

IsCut(bytes, of) == \E n \in 0..(Len(of) \div 8) - 1 : bytes = SubSeq(of, 1, 8 * n)

Arrives(bytes, p, all) ==
    \E asBytes \in BOOLEAN :
        IF all THEN bytes = BytesOf(p, asBytes) ELSE IsCut(bytes, BytesOf(p, asBytes))

\* Of a packet that was read all is known that holds of any bytes.
PacketTyped == Typed(name, fields) /\ id \in DOMAIN Packets

ReadInStep == phase = "read" => ReadWell(<<name, fields>>) /\ id = name

SentKept == IF phase = "built" THEN sent = None ELSE IsSent(sent)

WireKept ==
    /\ wire \in Seq(Bit) /\ Len(wire) % 8 = 0
    /\ whole \in BOOLEAN
    /\ phase = "built" => wire = <<>> /\ whole = TRUE
    /\ phase = "written" => Arrives(wire, sent, whole)

Inv ==
    /\ phase \in {"built", "written", "read", "failed"}
    /\ PacketTyped
    /\ ReadInStep
    /\ SentKept
    /\ WireKept
    /\ phase \in {"read", "failed"} => wire = <<>>

(* Nothing on the wire is whole bytes. *)
LEMMA EmptyWire == <<>> \in Seq(Bit) /\ Len(<<>>) % 8 = 0
  OBVIOUS

(* The invariant holds of the packets a caller may build. *)
LEMMA InitInv == Init => Inv
  <1> SUFFICES ASSUME Init PROVE Inv
    OBVIOUS
  <1>1. name \in DOMAIN Packets /\ fields \in Built(LayoutOf[name])
    BY DEF Init
  <1>2. Typed(name, fields)
    BY <1>1, BuiltTyped
  <1>3. id \in DOMAIN Packets
    BY MistakenAssumption DEF Init
  <1>4. phase = "built" /\ sent = None /\ wire = <<>> /\ whole = TRUE
    BY DEF Init
  <1>5. QED
    BY <1>2, <1>3, <1>4, EmptyWire DEF Inv, PacketTyped, ReadInStep, SentKept, WireKept

(* What is written of a packet are whole bytes. *)
LEMMA BytesOfAre ==
    ASSUME NEW p, IsSent(p), NEW asBytes \in BOOLEAN
    PROVE  BytesOf(p, asBytes) \in Seq(Bit) /\ Len(BytesOf(p, asBytes)) % 8 = 0
  <1>1. WriteAs(p.name, p.id, p.fields, asBytes) \in Seq(Bit)
    BY WriteBitsOf DEF IsSent
  <1>2. QED
    BY <1>1, FilledBits DEF BytesOf

(* What a cut leaves: whole bytes, at least one of them gone. *)
LEMMA CutIs ==
    ASSUME NEW b \in Seq(Bit), NEW n \in 0..(Len(b) \div 8) - 1
    PROVE  /\ SubSeq(b, 1, 8 * n) \in Seq(Bit) /\ Len(SubSeq(b, 1, 8 * n)) = 8 * n
           /\ 8 * n % 8 = 0 /\ 8 * n \in 0..Len(b) /\ 8 * n + 8 <= Len(b)
           /\ \A i \in 1..(8 * n) : SubSeq(b, 1, 8 * n)[i] = b[i]
  <1>1. Len(b) \in Nat
    BY LenProperties
  <1>2. n \in Nat /\ n + 1 <= Len(b) \div 8 /\ 8 * (Len(b) \div 8) <= Len(b)
    BY <1>1
  <1>3. 8 * n \in 0..Len(b) /\ 8 * n + 8 <= Len(b) /\ 8 * n % 8 = 0
    BY <1>1, <1>2
  <1>4. b \in Seq(Bit)
    OBVIOUS
  <1>5. /\ SubSeq(b, 1, 8 * n) \in Seq(Bit) /\ Len(SubSeq(b, 1, 8 * n)) = 8 * n
        /\ \A i \in 1..(8 * n) : SubSeq(b, 1, 8 * n)[i] = b[i]
    BY <1>3, <1>4, PrefixBits
  <1>6. QED
    BY <1>3, <1>5

(* Every step keeps the invariant. *)
LEMMA NextInv == Inv /\ [Next]_vars => Inv'
  <1> SUFFICES ASSUME Inv, [Next]_vars PROVE Inv'
    OBVIOUS
  <1> USE DEF Inv, PacketTyped, ReadInStep, SentKept, WireKept
  <1>1. CASE UNCHANGED vars
    BY <1>1 DEF vars, Arrives, IsSent
  <1>2. CASE Update
    <2>1. Typed(name, fields')
      BY <1>2, UpdateTyped
    <2>2. phase = "built" /\ UNCHANGED <<name, id, phase, sent, wire, whole>>
      BY <1>2 DEF Update
    <2>3. QED
      BY <2>1, <2>2, EmptyWire
  <1>3. CASE WritePacket
    <2>1. /\ phase' = "written" /\ sent' = [name |-> name, id |-> id, fields |-> fields]
          /\ whole' = TRUE /\ UNCHANGED <<name, id, fields>>
      BY <1>3 DEF WritePacket
    <2>2. PICK asBytes \in BOOLEAN : wire' = Filled(WriteAs(name, id, fields, asBytes))
      BY <1>3 DEF WritePacket
    <2>3. sent'.name = name /\ sent'.id = id /\ sent'.fields = fields
      BY <2>1
    <2>4. IsSent(sent')
      BY <2>1, <2>3 DEF IsSent
    <2>5. wire' = BytesOf(sent', asBytes)
      BY <2>2, <2>3 DEF BytesOf
    <2>6. wire' \in Seq(Bit) /\ Len(wire') % 8 = 0
      BY <2>4, <2>5, BytesOfAre
    <2>7. Arrives(wire', sent', whole')
      BY <2>1, <2>5 DEF Arrives
    <2>8. QED
      BY <2>1, <2>4, <2>6, <2>7
  <1>4. CASE Cut
    <2>1. phase = "written" /\ whole /\ whole' = FALSE /\ UNCHANGED <<name, id, fields, phase, sent>>
      BY <1>4 DEF Cut
    <2>2. PICK n \in 0..(Len(wire) \div 8) - 1 : wire' = SubSeq(wire, 1, 8 * n)
      BY <1>4 DEF Cut
    <2>3. wire' \in Seq(Bit) /\ Len(wire') % 8 = 0
      BY <2>2, CutIs
    <2>4. PICK asBytes \in BOOLEAN : wire = BytesOf(sent, asBytes)
      BY <2>1 DEF Arrives
    <2>5. IsCut(wire', BytesOf(sent, asBytes))
      BY <2>2, <2>4 DEF IsCut
    <2>6. Arrives(wire', sent', whole')
      BY <2>1, <2>5 DEF Arrives
    <2>7. QED
      BY <2>1, <2>3, <2>6
  <1>5. CASE Receive
    <2> DEFINE r == ReadPacket(ChannelOf(sent.id), wire)
    <2>1. phase = "written" /\ wire' = <<>> /\ UNCHANGED <<sent, whole>>
      BY <1>5 DEF Receive
    <2>2. \/ phase' = "failed" /\ UNCHANGED <<name, id, fields>>
          \/ r # Failed /\ phase' = "read" /\ name' = r[1] /\ id' = r[1] /\ fields' = r[2]
      BY <1>5 DEF Receive
    <2>3. IsSent(sent')
      BY <2>1 DEF IsSent
    <2>4. CASE phase' = "failed" /\ UNCHANGED <<name, id, fields>>
      BY <2>1, <2>3, <2>4, EmptyWire
    <2>5. CASE r # Failed /\ phase' = "read" /\ name' = r[1] /\ id' = r[1] /\ fields' = r[2]
      <3>1. ChannelOf(sent.id) # "static_event"
        BY DEF ChannelOf
      <3>2. ReadWell(r)
        BY <2>5, <3>1, ReadTyped
      <3> HIDE DEF r
      <3>3. ReadWell(<<name', fields'>>)
        BY <2>5, <3>2 DEF ReadWell
      <3>4. Typed(name', fields') /\ name' \in DOMAIN Packets
        BY <3>3, InStepTyped DEF ReadWell
      <3>5. QED
        BY <2>1, <2>3, <2>5, <3>3, <3>4, EmptyWire
    <2>6. QED
      BY <2>2, <2>4, <2>5
  <1>6. CASE Forward
    BY <1>6, EmptyWire DEF Forward
  <1>7. QED
    BY <1>1, <1>2, <1>3, <1>4, <1>5, <1>6 DEF Next

(* The invariant of the packets, for all types, sizes and values of the fields. *)
THEOREM Invariance == Spec => []Inv
  BY InitInv, NextInv, PTL DEF Spec

(* The type invariant of the packets (replication.rs, control.rs, rpc.rs). *)
THEOREM TypeSafety == Spec => []TypeOK
  <1>1. Inv => TypeOK
    <2> SUFFICES ASSUME Inv PROVE TypeOK
      OBVIOUS
    <2> USE DEF Inv, PacketTyped, SentKept, WireKept
    <2>1. name \in DOMAIN Packets /\ DOMAIN fields = FieldNames(Layout)
      BY DEF Typed, Layout
    <2>2. sent # None => sent.name \in DOMAIN Packets /\ sent.id \in DOMAIN Packets
      BY DEF IsSent, Typed
    <2>3. QED
      BY <2>1, <2>2 DEF TypeOK, Bit
  <1>2. QED
    BY <1>1, Invariance, PTL

(* Whatever bytes arrive - of stale counts, of an Option against its flag, of        *)
(* another packet, cut - the counts and the conditions of a packet that was read are *)
(* in step (replication.rs; crate-compat/src/deku.rs).                               *)
THEOREM ReadInStepAlways == Spec => []WhatIsReadIsInStep
  <1>1. Inv => WhatIsReadIsInStep
    BY DEF Inv, ReadInStep, ReadWell, WhatIsReadIsInStep, WellFormed
  <1>2. QED
    BY <1>1, Invariance, PTL

----------------------------------------------------------------------------
(* What arrives of a packet *)

(* The bytes that finish the stream are those of the packet, and less than a byte. *)
LEMMA FilledArrives ==
    ASSUME NEW s \in Seq(Bit)
    PROVE  Arrived(Filled(s), s, TRUE)
  <1> DEFINE k == Slack(Len(s))
             z == Zeros(k)
  <1>1. Len(s) \in Nat
    BY LenProperties
  <1>2. k \in 0..7 /\ k \in Nat
    BY <1>1, SlackRange
  <1>3. z \in Seq(Bit) /\ Len(z) = k
    BY <1>2, ZerosBits
  <1>4. Filled(s) = s \o z
    BY FilledBits DEF BitsToBytes
  <1> HIDE DEF z
  <1>5. /\ s \o z \in Seq(Bit) /\ Len(s \o z) = Len(s) + k
        /\ \A i \in 1..(Len(s) + Len(z)) : (s \o z)[i] = IF i <= Len(s) THEN s[i] ELSE z[i - Len(s)]
    BY <1>3, ConcatProperties
  <1>6. Fits(s \o z, s)
    BY <1>1, <1>2, <1>3, <1>5 DEF Fits
  <1>7. QED
    BY <1>1, <1>2, <1>4, <1>5, <1>6 DEF Arrived

(* What a cut leaves of them begins as the packet does. *)
LEMMA CutArrives ==
    ASSUME NEW s \in Seq(Bit), NEW b, IsCut(b, Filled(s))
    PROVE  Arrived(b, s, FALSE)
  <1> DEFINE w == Filled(s)
  <1>1. w \in Seq(Bit) /\ Fits(w, s) /\ Len(w) < Len(s) + 8
    BY FilledArrives DEF Arrived
  <1>2. PICK n \in 0..(Len(w) \div 8) - 1 : b = SubSeq(w, 1, 8 * n)
    BY DEF IsCut
  <1> HIDE DEF w
  <1> DEFINE m == 8 * n
  <1>3. b \in Seq(Bit) /\ Len(b) = m /\ m \in 0..Len(w) /\ \A i \in 1..m : b[i] = w[i]
    BY <1>1, <1>2, CutIs
  <1> HIDE DEF m
  <1>4. Len(w) \in Nat /\ Len(s) \in Nat
    BY <1>1, LenProperties
  <1>5. Fits(b, s)
    BY <1>1, <1>3, <1>4 DEF Fits
  <1>6. QED
    BY <1>1, <1>3, <1>4, <1>5 DEF Arrived

(* What arrives begins as what was written. *)
LEMMA ArrivesIs ==
    ASSUME NEW p, IsSent(p), NEW all \in BOOLEAN, NEW b, Arrives(b, p, all)
    PROVE  \E asBytes \in BOOLEAN : Arrived(b, WriteAs(p.name, p.id, p.fields, asBytes), all)
  <1>1. PICK asBytes \in BOOLEAN :
            IF all THEN b = BytesOf(p, asBytes) ELSE IsCut(b, BytesOf(p, asBytes))
    BY DEF Arrives
  <1> DEFINE s == WriteAs(p.name, p.id, p.fields, asBytes)
  <1>2. s \in Seq(Bit)
    BY WriteBitsOf DEF IsSent
  <1>3. BytesOf(p, asBytes) = Filled(s)
    BY DEF BytesOf
  <1> HIDE DEF s
  <1>4. Arrived(b, s, all)
    BY <1>1, <1>2, <1>3, FilledArrives, CutArrives
  <1>5. QED
    BY <1>4 DEF s

----------------------------------------------------------------------------
(* The headers *)

(* The id of a packet is nobody else's: it is found by it. *)
LEMMA NameIs ==
    ASSUME NEW n \in DOMAIN Packets
    PROVE  /\ NamesOf(Packets[n].channel, Packets[n].id) # {}
           /\ NameOf(Packets[n].channel, Packets[n].id) = n
  <1> DEFINE channel == Packets[n].channel
             number == Packets[n].id
  <1>1. n \in NamesOf(channel, number)
    BY DEF NamesOf
  <1> HIDE DEF channel, number
  <1>2. /\ NameOf(channel, number) \in DOMAIN Packets
        /\ Packets[NameOf(channel, number)].channel = channel
        /\ Packets[NameOf(channel, number)].id = number
    BY <1>1, NamedIs
  <1>3. NameOf(channel, number) = n
    BY <1>2, EachPacket DEF channel, number
  <1>4. QED
    BY <1>1, <1>3 DEF channel, number

\* The number that the reader takes from a header.
NumberIn(b, channel) == BitsValue(SubSeq(b, 1, IF channel = "control" THEN 16 ELSE 8))

(* The number in a header is the id that was written there, or that of Rpc. *)
LEMMA NumberRead ==
    ASSUME NEW n \in DOMAIN Packets, NEW b \in Seq(Bit), Fits(b, HeaderBits(n)), 16 <= Len(b)
    PROVE  NumberIn(b, ChannelOf(n)) = IF IsEvent(n) THEN Rpc ELSE Packets[n].id
  <1> DEFINE k == IF IsEvent(n) THEN Rpc ELSE Packets[n].id
             u == Bits(k, 8)
             w == Bits(1, 8)
             H == HeaderBits(n)
  <1>1. H \in Seq(Bit) /\ Len(H) = 16
    BY HeaderBitsAre
  <1>2. k \in 0..255 /\ 1 \in 0..255
    BY EachPacket DEF Rpc
  <1>3. SubSeq(b, 1, Len(H)) = H
    BY <1>1, PrefixOfFit
  <1>4. CASE Packets[n].channel = "control"
    <2>1. k = Packets[n].id /\ ChannelOf(n) = "control"
      BY <1>4 DEF IsEvent, ChannelOf
    <2>2. H = Bits(k, 16)
      BY <1>4, <2>1 DEF HeaderBits
    <2>3. BitsValue(Bits(k, EventIdBits)) = k
      BY <1>2, EventNumber
    <2>4. BitsValue(SubSeq(b, 1, 16)) = k
      BY <1>1, <1>3, <2>2, <2>3 DEF EventIdBits
    <2>5. NumberIn(b, ChannelOf(n)) = BitsValue(SubSeq(b, 1, 16))
      BY <2>1 DEF NumberIn
    <2>6. QED
      BY <2>4, <2>5
  <1>5. CASE Packets[n].channel # "control"
    <2>1. ChannelOf(n) # "control"
      BY <1>5 DEF ChannelOf
    <2>2. H = u \o w
      BY <1>5 DEF HeaderBits
    <2>3. u \in Seq(Bit) /\ Len(u) = 8 /\ BitsValue(u) = k /\ w \in Seq(Bit)
      BY <1>2, EventNumber
    <2> HIDE DEF u, w, H, k
    <2>4. Fits(b, u)
      <3>1. Fits(b, u \o w)
        BY <2>2 DEF H
      <3>2. QED
        BY <2>3, <3>1, FitsParts
    <2>5. Len(u) <= Len(b)
      BY <2>3, LenProperties
    <2>6. SubSeq(b, 1, Len(u)) = u
      BY <2>3, <2>4, <2>5, PrefixOfFit
    <2>7. BitsValue(SubSeq(b, 1, 8)) = k
      BY <2>3, <2>6
    <2>8. NumberIn(b, ChannelOf(n)) = BitsValue(SubSeq(b, 1, 8))
      BY <2>1 DEF NumberIn
    <2>9. QED
      BY <2>7, <2>8 DEF k
  <1>6. QED
    BY <1>4, <1>5

\* What the reader does with a packet that has its header.
ReadBehind(channel, number, b) ==
    IF channel # "control" /\ number = Rpc THEN ReadRpc(b) ELSE ReadNamed(channel, number, b)

(* Behind the header is what was written behind it. *)
LEMMA HeaderRead ==
    ASSUME NEW n \in DOMAIN Packets, NEW w \in Seq(Bit), NEW b, NEW all,
           Arrived(b, HeaderBits(n) \o w, all)
    PROVE  LET r == ReadPacket(ChannelOf(n), b)
               number == IF IsEvent(n) THEN Rpc ELSE Packets[n].id
           IN  /\ r = Failed /\ ~all
               \/ /\ r = ReadBehind(ChannelOf(n), number, After(b, 16))
                  /\ Arrived(After(b, 16), w, all)
  <1> DEFINE H == HeaderBits(n)
             channel == ChannelOf(n)
             a == After(b, 16)
  <1>1. H \in Seq(Bit) /\ Len(H) = 16
    BY HeaderBitsAre
  <1>2. /\ b \in Seq(Bit) /\ Fits(b, H \o w) /\ Len(b) < Len(H \o w) + 8
        /\ all => Len(H \o w) <= Len(b)
    BY DEF Arrived
  <1> HIDE DEF H
  <1>3. /\ H \o w \in Seq(Bit) /\ Len(H \o w) = Len(H) + Len(w)
        /\ Fits(b, H)
        /\ Len(H) <= Len(b) => Fits(After(b, Len(H)), w)
    <2>1. H \in Seq(Bit) /\ w \in Seq(Bit) /\ b \in Seq(Bit) /\ Fits(b, H \o w)
      BY <1>1, <1>2
    <2>2. QED
      BY <2>1, FitsParts
  <1>4. Len(b) \in Nat /\ Len(w) \in Nat
    BY <1>2, LenProperties
  <1>5. ReadPacket(channel, b) =
            IF Len(b) < 16 THEN Failed ELSE ReadBehind(channel, NumberIn(b, channel), a)
    BY DEF ReadPacket, ReadBehind, NumberIn
  <1>6. CASE Len(b) < 16
    <2>1. ~all
      BY <1>1, <1>2, <1>3, <1>4, <1>6
    <2>2. QED
      BY <1>5, <1>6, <2>1
  <1>7. CASE ~(Len(b) < 16)
    <2>1. 16 <= Len(b) /\ 16 \in 0..Len(b)
      BY <1>4, <1>7
    <2>2. NumberIn(b, channel) = IF IsEvent(n) THEN Rpc ELSE Packets[n].id
      BY <1>2, <1>3, <2>1, NumberRead DEF H
    <2>3. a \in Seq(Bit) /\ Len(a) = Len(b) - 16
      BY <1>2, <2>1, AfterBits
    <2>4. Fits(a, w)
      BY <1>1, <1>3, <2>1
    <2> HIDE DEF a
    <2>5. Arrived(a, w, all)
      BY <1>1, <1>2, <1>3, <1>4, <2>3, <2>4 DEF Arrived
    <2>6. ReadPacket(channel, b) = ReadBehind(channel, IF IsEvent(n) THEN Rpc ELSE Packets[n].id, a)
      BY <1>5, <1>7, <2>2
    <2>7. QED
      BY <2>5, <2>6 DEF a
  <1>8. QED
    BY <1>6, <1>7

----------------------------------------------------------------------------
(* What is read of what was written *)

\* Either the field was returned, or an end of it is missing with the end of
\* the packet.
FieldReturned(field, p, q, all) ==
    \/ q[field.name] = p[field.name]
    \/ /\ ~all /\ field.codec.kind = "rest"
       /\ \E k \in 0..Len(p[field.name]) : q[field.name] = [j \in 1..k |-> p[field.name][j]]

Returned(n, p, r, all) ==
    /\ r # Failed =>
          /\ r[1] = n
          /\ \A i \in 1..Len(LayoutOf[n]) :
                FieldsReadAsWritten(LayoutOf[n], i) => FieldReturned(LayoutOf[n][i], p, r[2], all)
    /\ all /\ ReadableFields(LayoutOf[n], p) => r # Failed

(* A packet of the replication layer or of the control channel, cut or not. *)
LEMMA NamedReturned ==
    ASSUME NEW n \in DOMAIN Packets, ~IsEvent(n), NEW p, FieldsInStep(LayoutOf[n], p),
           NEW b, NEW all \in BOOLEAN, Arrived(b, WriteFields(Packets[n].layout, p), all)
    PROVE  Returned(n, p, ReadBehind(ChannelOf(n), Packets[n].id, b), all)
  <1> DEFINE L == Packets[n].layout
             w == WriteFields(L, p)
             r == ReadFields(L, b)
             x == ReadBehind(ChannelOf(n), Packets[n].id, b)
             Kept == \A i \in 1..Len(L) :
                        r # Failed /\ FieldsReadAsWritten(L, i) => FieldReturned(L[i], p, r[1], all)
             Read1 == all /\ ReadableFields(L, p) => r # Failed
  <1>1. LayoutOf[n] = L /\ IsWhole(L) /\ IsLayout(L)
    BY LayoutIs, EachPacket
  <1>2. ChannelOf(n) = Packets[n].channel /\ ~(ChannelOf(n) # "control" /\ Packets[n].id = Rpc)
    BY EachPacket DEF ChannelOf, IsEvent
  <1>3. NamesOf(Packets[n].channel, Packets[n].id) # {} /\ NameOf(Packets[n].channel, Packets[n].id) = n
    BY NameIs
  <1>4. x = ReadNamed(Packets[n].channel, Packets[n].id, b)
    BY <1>2 DEF ReadBehind
  <1>5. x = IF r = Failed THEN Failed ELSE <<n, r[1]>>
    BY <1>3, <1>4 DEF ReadNamed, Then
  <1>6. b \in Seq(Bit) /\ Fits(b, w) /\ Len(b) < Len(w) + 8 /\ (all => Len(w) <= Len(b))
    BY DEF Arrived
  <1>7. w \in Seq(Bit) /\ Len(w) \in Nat /\ Len(b) \in Nat
    BY <1>6, LenProperties DEF Arrived
  <1>8. ASSUME AllReadAsWritten(L) PROVE Kept /\ Read1
    <2>1. Recovers(L, p, b, r)
      BY <1>1, <1>6, <1>8, LayoutRead
    <2> HIDE DEF r, L, w
    <2>2. Len(b) < Len(w) => ~all
      BY <1>6, <1>7
    <2>3. \A i \in 1..Len(L) : r # Failed => FieldReturned(L[i], p, r[1], all)
      BY <2>1, <2>2 DEF Recovers, FieldReturned, w
    <2>4. all /\ ReadableFields(L, p) => r # Failed
      BY <1>6, <2>1 DEF Recovers, w
    <2>5. QED
      BY <2>3, <2>4
  <1>9. ASSUME L = ClientUpdatePacket PROVE Kept /\ Read1
    <2>1. AreTotal(L)
      BY <1>9, ClientUpdateLayout
    <2>2. all => r # Failed
      BY <1>1, <1>6, <2>1, TotalRead
    <2>3. ASSUME NEW i \in 1..Len(L), r # Failed, FieldsReadAsWritten(L, i)
          PROVE  FieldReturned(L[i], p, r[1], all)
      <3>1. i \in 0..Len(L) /\ i \in 1..i /\ \A j \in 1..i : j \in 1..Len(L)
        BY <1>1, LayoutDomain
      <3>2. \A j \in 1..i : L[j].codec.kind # "rest"
        BY <2>1, <3>1 DEF AreTotal, IsTotal
      <3>3. SameTo(L, p, r[1], i)
        BY <1>1, <1>6, <2>3, <3>1, <3>2, StartRead
      <3>4. QED
        BY <3>1, <3>3 DEF SameTo, FieldReturned
    <2>4. QED
      BY <2>2, <2>3
  <1>10. Kept /\ Read1
    <2> HIDE DEF Kept, Read1
    <2>1. QED
      BY <1>1, <1>8, <1>9 DEF IsWhole
  <1> HIDE DEF r, x
  <1>11. x # Failed => r # Failed /\ x[1] = n /\ x[2] = r[1]
    BY <1>5
  <1>12. r # Failed => x # Failed
    BY <1>5, NotFailed
  <1> HIDE DEF L
  <1>13. Returned(n, p, x, all)
    BY <1>1, <1>10, <1>11, <1>12 DEF Returned
  <1>14. QED
    BY <1>13 DEF x

(* Each of two layouts in line has its own fields, and what they need. *)
LEMMA InStepInLine ==
    ASSUME NEW L, IsLayout(L), IsPlain(L), NEW M, IsLayout(M),
           FieldNames(L) \cap FieldNames(M) = {}, NEW p, FieldsInStep(L \o M, p)
    PROVE  /\ FieldsInStep(L, p) /\ FieldsInStep(M, p)
           /\ ReadableFields(L \o M, p) => ReadableFields(L, p) /\ ReadableFields(M, p)
  <1> DEFINE m == Len(L)
             n == Len(M)
             K == L \o M
             good(f) == f.codec.kind = "varint" => Readable(f.codec.type, p[f.name])
  <1>1. m \in Nat /\ n \in Nat /\ DOMAIN L = 1..m /\ DOMAIN M = 1..n
    BY LayoutDomain
  <1>2. Len(K) = m + n /\ (\A i \in 1..m : K[i] = L[i]) /\ (\A i \in 1..n : K[m + i] = M[i])
    BY LayoutsInLine
  <1>3. DOMAIN K = 1..(m + n)
    BY <1>2, LayoutsInLine, LayoutDomain
  <1>4. \A k \in 1..(m + n) : FieldInStep(K[k], p)
    BY <1>2 DEF FieldsInStep
  <1>5. /\ ReadableFields(K, p) => \A k \in 1..(m + n) : good(K[k])
        /\ (\A k \in 1..m : good(L[k])) => ReadableFields(L, p)
        /\ (\A k \in 1..n : good(M[k])) => ReadableFields(M, p)
    BY <1>1, <1>3 DEF ReadableFields
  <1> HIDE DEF K, m, n, good
  <1>6. \A i \in 1..m : i \in 1..(m + n)
    BY <1>1
  <1>7. \A i \in 1..n : m + i \in 1..(m + n)
    BY <1>1
  <1>8. \A i \in 1..m : FieldInStep(L[i], p)
    BY <1>2, <1>4, <1>6
  <1>9. \A i \in 1..n : FieldInStep(M[i], p)
    BY <1>2, <1>4, <1>7
  <1>10. ReadableFields(K, p) => (\A k \in 1..m : good(L[k])) /\ \A k \in 1..n : good(M[k])
    BY <1>2, <1>5, <1>6, <1>7
  <1>11. QED
    BY <1>5, <1>8, <1>9, <1>10 DEF FieldsInStep, m, n, K

\* The fields of an event, by the layouts they are in.
EventParts(n, p) ==
    /\ FieldsInStep(Targets, p) /\ FieldsInStep(Position, p) /\ FieldsInStep(Packets[n].layout, p)
    /\ ReadableFields(LayoutOf[n], p) =>
          /\ ReadableFields(Targets, p) /\ ReadableFields(Position, p)
          /\ ReadableFields(Packets[n].layout, p)

(* The header of an event and its payload are in step, each by itself. *)
LEMMA EventPartsAre ==
    ASSUME NEW n \in DOMAIN Packets, IsEvent(n), NEW p, FieldsInStep(LayoutOf[n], p)
    PROVE  EventParts(n, p)
  <1> DEFINE H == Targets \o Position
             L == Packets[n].layout
  <1>1. LayoutOf[n] = H \o L /\ IsLayout(L) /\ FieldNames(H) \cap FieldNames(L) = {}
    BY EachPacket, HeaderIs, LayoutIs
  <1>2. IsLayout(H) /\ IsPlain(H) /\ FieldNames(Targets) \cap FieldNames(Position) = {}
    BY HeaderIs
  <1>3. FieldsInStep(H \o L, p)
    BY <1>1
  <1> HIDE DEF H, L
  <1>4. /\ FieldsInStep(H, p) /\ FieldsInStep(L, p)
        /\ ReadableFields(H \o L, p) => ReadableFields(H, p) /\ ReadableFields(L, p)
    BY <1>1, <1>2, <1>3, InStepInLine
  <1>5. FieldsInStep(Targets \o Position, p)
    BY <1>4 DEF H
  <1>6. /\ FieldsInStep(Targets, p) /\ FieldsInStep(Position, p)
        /\ ReadableFields(Targets \o Position, p) => ReadableFields(Targets, p) /\ ReadableFields(Position, p)
    BY <1>2, <1>5, TargetsLayout, PositionLayout, InStepInLine
  <1>7. QED
    BY <1>1, <1>4, <1>6 DEF EventParts, H, L

\* The fields in the header of an event.
HeaderOf(p) == [x \in HeaderNames |-> p[x]]

\* What the parts of an event are written as.
EventNumberBits(n) == Bits(Packets[n].id, EventIdBits)

(* The parts of an event are written as bits. *)
LEMMA EventBits ==
    ASSUME NEW n \in DOMAIN Packets, IsEvent(n), NEW p, EventParts(n, p)
    PROVE  /\ WriteFields(Targets, p) \in Seq(Bit)
           /\ EventNumberBits(n) \in Seq(Bit)
           /\ WriteFields(Position, p) \in Seq(Bit)
           /\ WriteFields(Packets[n].layout, p) \in Seq(Bit)
  <1>1. IsLayout(Packets[n].layout) /\ Packets[n].id \in 0..255
    BY EachPacket
  <1>2. \A L : IsLayout(L) /\ FieldsInStep(L, p) => WriteFields(L, p) \in Seq(Bit)
    BY InStepHolds, FieldsBits
  <1>3. EventNumberBits(n) \in Seq(Bit)
    BY <1>1, EventNumber DEF EventNumberBits
  <1>4. QED
    BY <1>1, <1>2, <1>3, TargetsLayout, PositionLayout DEF EventParts

(* Each part of the header is read behind the one before it. *)
LEMMA RpcArrived ==
    ASSUME NEW n \in DOMAIN Packets, IsEvent(n), NEW p, EventParts(n, p),
           NEW q \in Seq(Bit), NEW b, NEW all \in BOOLEAN,
           Arrived(b, WriteRpc(Packets[n].id, p, q), all)
    PROVE  \/ ReadRpc(b) = Failed /\ ~(all /\ ReadableFields(LayoutOf[n], p))
           \/ \E k \in 0..Len(q) :
                 /\ all => k = Len(q)
                 /\ ReadRpc(b) = ParseStaticEvent(HeaderOf(p), Packets[n].id, BitsToBytes(SubSeq(q, 1, k)))
  <1> DEFINE c == Fixed(EventIdBits, Unsigned(EventIdBits))
             number == Packets[n].id
             T == WriteFields(Targets, p)
             N == EventNumberBits(n)
             P == WriteFields(Position, p)
             TN == T \o N
             TNP == TN \o P
             E == q \o Terminator
             t == ReadFields(Targets, b)
             e == ReadFixed(c, t[2])
             o == ReadFields(Position, e[2])
             sure == ReadableFields(LayoutOf[n], p)
             Given(x) == \E k \in 0..Len(q) :
                 (all => k = Len(q)) /\ x = ParseStaticEvent(HeaderOf(p), number, BitsToBytes(SubSeq(q, 1, k)))
             tp == [x \in FieldNames(Targets) |-> p[x]]
             pp == [x \in FieldNames(Position) |-> p[x]]
  <1>1. T \in Seq(Bit) /\ N \in Seq(Bit) /\ P \in Seq(Bit)
    BY EventBits
  <1>2. E \in Seq(Bit) /\ Terminator \in Seq(Bit)
    BY TerminatorBits, ConcatProperties
  <1>3. WriteRpc(number, p, q) = TNP \o E
    <2>1. WriteRpc(number, p, q) = (TNP \o q) \o Terminator
      BY DEF WriteRpc, EventNumberBits
    <2> HIDE DEF T, N, P
    <2>2. TN \in Seq(Bit)
      BY <1>1, ConcatProperties
    <2> HIDE DEF TN
    <2>3. TNP \in Seq(Bit)
      BY <1>1, <2>2, ConcatProperties
    <2> HIDE DEF TNP
    <2>4. (TNP \o q) \o Terminator = TNP \o (q \o Terminator)
      BY <1>2, <2>3, ConcatAssociative
    <2>5. QED
      BY <2>1, <2>4
  <1>4. /\ FieldsInStep(Targets, p) /\ FieldsInStep(Position, p)
        /\ sure => ReadableFields(Targets, p) /\ ReadableFields(Position, p)
    BY DEF EventParts
  <1>5. ReadRpc(b) = IF t = Failed \/ e = Failed \/ o = Failed \/ ~Parses(o[2]) THEN Failed
                     ELSE ParseStaticEvent(Merge(t[1], o[1]), e[1], ReadPayload(o[2]))
    BY DEF ReadRpc, Then
  <1>6. b \in Seq(Bit) /\ Fits(b, TNP \o E) /\ Len(b) < Len(TNP \o E) + 8 /\ (all => Len(TNP \o E) <= Len(b))
    BY <1>3 DEF Arrived
  <1> HIDE DEF T, N, P, E
  <1>7. TN \in Seq(Bit) /\ Len(TN) = Len(T) + Len(N)
    BY <1>1, ConcatProperties
  <1> HIDE DEF TN
  <1>8. TNP \in Seq(Bit) /\ Len(TNP) = Len(TN) + Len(P)
    BY <1>1, <1>7, ConcatProperties
  <1> HIDE DEF TNP
  <1>9. /\ TNP \o E \in Seq(Bit) /\ Len(TNP \o E) = Len(TNP) + Len(E)
        /\ Fits(b, TNP)
        /\ Len(TNP) <= Len(b) => Fits(After(b, Len(TNP)), E)
    BY <1>2, <1>6, <1>8, FitsParts
  <1>10. /\ TN \o P \in Seq(Bit) /\ Len(TN \o P) = Len(TN) + Len(P)
         /\ Fits(b, TN)
         /\ Len(TN) <= Len(b) => Fits(After(b, Len(TN)), P)
    <2>1. Fits(b, TN \o P)
      BY <1>9 DEF TNP
    <2>2. QED
      BY <1>1, <1>6, <1>7, <2>1, FitsParts
  <1>11. /\ T \o N \in Seq(Bit) /\ Len(T \o N) = Len(T) + Len(N)
         /\ Fits(b, T)
         /\ Len(T) <= Len(b) => Fits(After(b, Len(T)), N)
    <2>1. Fits(b, T \o N)
      BY <1>10 DEF TN
    <2>2. QED
      BY <1>1, <1>6, <2>1, FitsParts
  <1>12. /\ Len(T) \in Nat /\ Len(N) \in Nat /\ Len(P) \in Nat /\ Len(E) \in Nat /\ Len(b) \in Nat
         /\ all => Len(T) <= Len(b) /\ Len(TN) <= Len(b) /\ Len(TNP) <= Len(b)
    <2>1. Len(T) \in Nat /\ Len(N) \in Nat /\ Len(P) \in Nat /\ Len(E) \in Nat /\ Len(b) \in Nat
      BY <1>1, <1>2, <1>6, LenProperties
    <2>2. QED
      BY <2>1, <1>6, <1>7, <1>8, <1>9
  <1>13. Gives(t, tp, b, T, ReadableFields(Targets, p))
    <2>1. Fits(b, WriteFields(Targets, p))
      BY <1>11 DEF T
    <2>2. QED
      BY <1>4, <1>6, <2>1, TargetsLayout, PlainRead DEF T
  <1> HIDE DEF t, tp, Given
  <1> SUFFICES (ReadRpc(b) = Failed /\ ~(all /\ sure)) \/ Given(ReadRpc(b))
    BY DEF Given
  <1>14. CASE t = Failed
    <2>1. ~(all /\ sure)
      BY <1>4, <1>12, <1>13, <1>14 DEF Gives
    <2>2. QED
      BY <1>5, <1>14, <2>1
  <1>15. CASE t # Failed
    <2>1. t = <<tp, After(b, Len(T))>> /\ Len(T) <= Len(b)
      BY <1>13, <1>15 DEF Gives
    <2> DEFINE a == After(b, Len(T))
    <2>2. t[1] = tp /\ t[2] = a
      BY <2>1
    <2>3. a \in Seq(Bit) /\ Fits(a, N)
      <3>1. Len(T) \in 0..Len(b)
        BY <1>12, <2>1
      <3>2. QED
        BY <1>6, <1>11, <2>1, <3>1, AfterBits
    <2> HIDE DEF a
    <2>4. IsFixed(c) /\ number \in c.values /\ N = Bits(number, c.bits)
      <3>1. number \in 0..255
        BY EachPacket
      <3>2. number \in Unsigned(EventIdBits)
        BY <3>1, EventNumber
      <3>3. QED
        BY <3>2 DEF Fixed, IsFixed, EventIdBits, N, EventNumberBits
    <2>5. Gives(e, number, a, N, TRUE)
      <3>1. e = ReadFixed(c, a)
        BY <2>2
      <3>2. Fits(a, Bits(number, c.bits))
        BY <2>3, <2>4
      <3> HIDE DEF c, e, number
      <3>3. Gives(ReadFixed(c, a), number, a, Bits(number, c.bits), TRUE)
        BY <2>3, <2>4, <3>2, FixedRead
      <3>4. QED
        BY <2>4, <3>1, <3>3
    <2> HIDE DEF c, e, number
    <2>6. Gives(e, number, b, TN, TRUE)
      <3>1. Gives(e, number, After(b, Len(T)), N, TRUE)
        BY <2>5 DEF a
      <3>2. Gives(e, number, b, T \o N, TRUE)
        BY <1>1, <1>6, <2>1, <3>1, GivesBehind
      <3>3. QED
        BY <3>2 DEF TN
    <2>7. CASE e = Failed
      <3>1. ~all
        BY <1>12, <2>6, <2>7 DEF Gives
      <3>2. QED
        BY <1>5, <2>7, <3>1
    <2>8. CASE e # Failed
      <3> DEFINE d == After(b, Len(TN))
      <3>1. e[1] = number /\ e[2] = d /\ Len(TN) <= Len(b)
        BY <2>6, <2>8 DEF Gives
      <3>2. d \in Seq(Bit) /\ Fits(d, P)
        <4>1. Len(TN) \in 0..Len(b)
          BY <1>12, <1>7, <3>1
        <4>2. QED
          BY <1>6, <1>10, <3>1, <4>1, AfterBits
      <3>3. Gives(o, pp, d, P, ReadableFields(Position, p))
        <4>1. o = ReadFields(Position, d)
          BY <3>1
        <4>2. Fits(d, WriteFields(Position, p))
          BY <3>2 DEF P
        <4> HIDE DEF d, o
        <4>3. Gives(ReadFields(Position, d), [x \in FieldNames(Position) |-> p[x]], d,
                    WriteFields(Position, p), ReadableFields(Position, p))
          BY <1>4, <3>2, <4>2, PositionLayout, PlainRead
        <4>4. QED
          BY <4>1, <4>3 DEF P
      <3> HIDE DEF d, o, pp
      <3>4. Gives(o, pp, b, TNP, ReadableFields(Position, p))
        <4>1. Gives(o, pp, After(b, Len(TN)), P, ReadableFields(Position, p))
          BY <3>3 DEF d
        <4>2. Gives(o, pp, b, TN \o P, ReadableFields(Position, p))
          BY <1>6, <1>7, <3>1, <4>1, GivesBehind
        <4>3. QED
          BY <4>2 DEF TNP
      <3>5. CASE o = Failed
        <4>1. ~(all /\ sure)
          BY <1>4, <1>12, <3>4, <3>5 DEF Gives
        <4>2. QED
          BY <1>5, <3>5, <4>1
      <3>6. CASE o # Failed
        <4> DEFINE z == After(b, Len(TNP))
        <4>1. o = <<pp, z>> /\ Len(TNP) <= Len(b)
          BY <3>4, <3>6 DEF Gives
        <4>2. o[1] = pp /\ o[2] = z
          BY <4>1
        <4>3. Len(TNP) \in 0..Len(b)
          BY <1>7, <1>8, <1>12, <4>1
        <4>4. z \in Seq(Bit) /\ Len(z) = Len(b) - Len(TNP)
          BY <1>6, <4>3, AfterBits
        <4>5. Fits(z, E)
          BY <1>9, <4>1
        <4> HIDE DEF z
        <4>6. Arrived(z, E, all)
          BY SMTT(60), <1>2, <1>6, <1>7, <1>8, <1>9, <1>12, <4>4, <4>5 DEF Arrived
        <4>7. /\ all => Parses(z)
              /\ Parses(z) => \E k \in 0..Len(q) : /\ all => k = Len(q)
                                                  /\ ReadPayload(z) = BitsToBytes(SubSeq(q, 1, k))
          BY <4>6, TailArrived DEF E
        <4>8. Merge(tp, pp) = HeaderOf(p)
          <5>1. /\ DOMAIN tp = FieldNames(Targets) /\ DOMAIN pp = FieldNames(Position)
                /\ \A x \in FieldNames(Targets) : tp[x] = p[x]
                /\ \A x \in FieldNames(Position) : pp[x] = p[x]
            BY DEF tp, pp
          <5>2. FieldNames(Targets) \cup FieldNames(Position) = HeaderNames
            BY HeaderIs DEF HeaderNames
          <5>3. QED
            BY <5>1, <5>2 DEF Merge, HeaderOf
        <4>9. CASE ~Parses(z)
          BY <1>5, <4>2, <4>7, <4>9
        <4>10. CASE Parses(z)
          <5>1. PICK k \in 0..Len(q) : (all => k = Len(q)) /\ ReadPayload(z) = BitsToBytes(SubSeq(q, 1, k))
            BY <4>7, <4>10
          <5>2. ReadRpc(b) = ParseStaticEvent(HeaderOf(p), number, BitsToBytes(SubSeq(q, 1, k)))
            BY <1>5, <1>15, <2>2, <2>8, <3>1, <3>6, <4>2, <4>8, <4>10, <5>1
          <5>3. QED
            BY <5>1, <5>2 DEF Given
        <4>11. QED
          BY <4>9, <4>10
      <3>7. QED
        BY <3>5, <3>6
    <2>9. QED
      BY <2>7, <2>8
  <1>16. QED
    BY <1>14, <1>15

(* A static event that arrived whole. *)
LEMMA EventReturned ==
    ASSUME NEW n \in DOMAIN Packets, IsEvent(n), NEW p, FieldsInStep(LayoutOf[n], p),
           p["network_id"] = 0, NEW asBytes \in BOOLEAN, NEW b,
           Arrived(b, WriteRpc(Packets[n].id, p, PayloadOf(n, p, asBytes)), TRUE)
    PROVE  Returned(n, p, ReadRpc(b), TRUE)
  <1> DEFINE L == Packets[n].layout
             data == WriteFields(L, p)
             q == PayloadOf(n, p, asBytes)
             z == Filled(data)
             h == HeaderOf(p)
             r == ReadFields(L, z)
             x == ReadRpc(b)
             m == Merge(h, r[1])
  <1>1. EventParts(n, p)
    BY EventPartsAre
  <1>2. data \in Seq(Bit)
    BY <1>1, EventBits
  <1>3. q \in Seq(Bit) /\ BitsToBytes(q) = z
    <2>1. /\ z \in Seq(Bit) /\ Len(z) % 8 = 0 /\ z = BitsToBytes(data)
      BY <1>2, FilledBits
    <2>2. q = IF asBytes THEN BitsToBytes(data) ELSE data
      BY DEF PayloadOf
    <2> HIDE DEF data, q, z
    <2>3. BitsToBytes(z) = z
      BY <2>1, WholeBytesStay
    <2>4. QED
      BY <1>2, <2>1, <2>2, <2>3
  <1>4. IsLayout(L) /\ AllReadAsWritten(L) /\ FieldsInStep(L, p)
    BY <1>1, EachPacket, UnconditionalWritten DEF EventParts
  <1>5. Arrived(z, data, TRUE)
    BY <1>2, FilledArrives
  <1>6. z \in Seq(Bit) /\ Fits(z, data) /\ Len(z) < Len(data) + 8 /\ Len(data) <= Len(z)
        /\ Len(z) \in Nat /\ Len(data) \in Nat
    BY <1>2, <1>5, LenProperties DEF Arrived
  <1>7. Recovers(L, p, z, r)
    BY <1>4, <1>6, LayoutRead
  <1>8. ReadableFields(LayoutOf[n], p) => r # Failed
    BY <1>1, <1>6, <1>7 DEF Recovers, EventParts
  <1>9. r # Failed => /\ DOMAIN r[1] = FieldNames(L)
                      /\ \A y \in FieldNames(L) : r[1][y] = p[y]
    <2> SUFFICES ASSUME r # Failed
                 PROVE  DOMAIN r[1] = FieldNames(L) /\ \A y \in FieldNames(L) : r[1][y] = p[y]
      OBVIOUS
    <2> HIDE DEF r, data, z
    <2>1. DOMAIN r[1] = FieldNames(L) /\ \A i \in 1..Len(L) : r[1][L[i].name] = p[L[i].name]
      BY <1>6, <1>7 DEF Recovers, data
    <2>2. FieldNames(L) = {L[i].name : i \in 1..Len(L)}
      BY SMTT(60), <1>4, LayoutDomain
    <2>3. QED
      BY <2>1, <2>2
  <1>10. \/ x = Failed /\ ~ReadableFields(LayoutOf[n], p)
         \/ x = ParseStaticEvent(h, Packets[n].id, z)
    <2> HIDE DEF q
    <2>1. PICK all \in BOOLEAN : all = TRUE
      OBVIOUS
    <2>2. Arrived(b, WriteRpc(Packets[n].id, p, q), all)
      BY <2>1 DEF q
    <2>3. \/ ReadRpc(b) = Failed /\ ~(all /\ ReadableFields(LayoutOf[n], p))
          \/ \E k \in 0..Len(q) :
                /\ all => k = Len(q)
                /\ ReadRpc(b) = ParseStaticEvent(HeaderOf(p), Packets[n].id, BitsToBytes(SubSeq(q, 1, k)))
      BY <1>1, <1>3, <2>2, RpcArrived
    <2>4. SubSeq(q, 1, Len(q)) = q
      BY <1>3, WholePrefix
    <2>5. QED
      BY <1>3, <2>1, <2>3, <2>4
  <1>11. ParseStaticEvent(h, Packets[n].id, z) = IF r = Failed THEN Failed ELSE <<n, m>>
    <2>1. Packets[n].channel = "static_event"
      BY DEF IsEvent
    <2>2. NamesOf("static_event", Packets[n].id) # {} /\ NameOf("static_event", Packets[n].id) = n
      BY <2>1, NameIs
    <2>3. h["network_id"] = 0
      BY DEF HeaderOf, HeaderNames
    <2> HIDE DEF h, z
    <2>4. QED
      BY <2>2, <2>3 DEF ParseStaticEvent, Then
  <1>12. ASSUME r # Failed, NEW y \in FieldNames(LayoutOf[n]) PROVE m[y] = p[y]
    <2>1. FieldNames(L) \cap HeaderNames = {}
      BY EachPacket
    <2>2. DOMAIN h = HeaderNames /\ \A k \in HeaderNames : h[k] = p[k]
      BY DEF HeaderOf
    <2> HIDE DEF h, r
    <2>3. IsMerge(m, h, r[1])
      BY <1>9, <1>12, <2>1, <2>2, MergeIs
    <2>4. FieldNames(LayoutOf[n]) = HeaderNames \cup FieldNames(L)
      <3>1. LayoutOf[n] = (Targets \o Position) \o L
        BY LayoutIs
      <3>2. FieldNames((Targets \o Position) \o L) = FieldNames(Targets \o Position) \cup FieldNames(L)
        BY <1>4, <2>1, HeaderIs, LayoutsInLine
      <3>3. QED
        BY <3>1, <3>2, HeaderIs
    <2> HIDE DEF m, L
    <2>5. CASE y \in HeaderNames
      BY <2>2, <2>3, <2>5 DEF IsMerge
    <2>6. CASE y \in FieldNames(L)
      BY <1>9, <1>12, <2>3, <2>6 DEF IsMerge
    <2>7. QED
      BY <2>4, <2>5, <2>6
  <1> HIDE DEF r, m, x, h, z
  <1>13. x # Failed => r # Failed /\ x = <<n, m>>
    BY <1>10, <1>11
  <1>14. r # Failed /\ ReadableFields(LayoutOf[n], p) => x # Failed
    BY <1>10, <1>11, NotFailed
  <1>15. ASSUME x # Failed, NEW i \in 1..Len(LayoutOf[n])
         PROVE  FieldReturned(LayoutOf[n][i], p, x[2], TRUE)
    <2>1. LayoutOf[n][i].name \in FieldNames(LayoutOf[n])
      <3>1. IsLayout(LayoutOf[n])
        BY LayoutIs
      <3>2. FieldNames(LayoutOf[n]) = {LayoutOf[n][k].name : k \in 1..Len(LayoutOf[n])}
        BY <3>1, LayoutDomain
      <3>3. QED
        BY <3>2
    <2>2. x[1] = n /\ x[2] = m
      BY <1>13, <1>15
    <2>3. m[LayoutOf[n][i].name] = p[LayoutOf[n][i].name]
      BY <1>12, <1>13, <1>15, <2>1
    <2>4. QED
      BY <2>2, <2>3 DEF FieldReturned
  <1>16. Returned(n, p, x, TRUE)
    <2>1. x # Failed => x[1] = n
      BY <1>13
    <2>2. ReadableFields(LayoutOf[n], p) => x # Failed
      BY <1>8, <1>14
    <2>3. QED
      BY <1>15, <2>1, <2>2 DEF Returned
  <1>17. QED
    BY <1>16 DEF x

\* What is behind the header of a packet.
BehindHeader(n, f, asBytes) ==
    IF ~IsEvent(n) THEN WriteFields(Packets[n].layout, f)
    ELSE WriteRpc(Packets[n].id, f, PayloadOf(n, f, asBytes))

(* A packet that is well formed is read, behind its header, as the packet it is. *)
LEMMA SentRead ==
    ASSUME NEW p, IsSent(p), WellFormed(p), NEW all \in BOOLEAN, NEW b, Arrives(b, p, all)
    PROVE  LET r == ReadPacket(ChannelOf(p.id), b)
               a == After(b, 16)
               n == p.name
           IN  /\ p.id = n /\ n \in DOMAIN Packets /\ FieldsInStep(LayoutOf[n], p.fields)
               /\ IsEvent(n) => p.fields["network_id"] = 0
               /\ \/ r = Failed /\ ~all
                  \/ \E asBytes \in BOOLEAN :
                        /\ Arrived(a, BehindHeader(n, p.fields, asBytes), all)
                        /\ r = IF IsEvent(n) THEN ReadRpc(a)
                               ELSE ReadBehind(ChannelOf(n), Packets[n].id, a)
  <1> DEFINE n == p.name
             f == p.fields
             number == IF IsEvent(n) THEN Rpc ELSE Packets[n].id
             a == After(b, 16)
             r == ReadPacket(ChannelOf(n), b)
  <1>1. p.id = n /\ InStep(LayoutOf[n], f) /\ (IsEvent(n) => f["network_id"] = 0)
    BY DEF WellFormed
  <1>2. Typed(n, f) /\ n \in DOMAIN Packets
    BY DEF IsSent, Typed
  <1>3. FieldsInStep(LayoutOf[n], f)
    BY <1>1, <1>2, LayoutIs, LayoutDomain DEF InStep, FieldsInStep
  <1>4. PICK asBytes \in BOOLEAN : Arrived(b, WriteAs(p.name, p.id, p.fields, asBytes), all)
    BY ArrivesIs
  <1> DEFINE w == BehindHeader(n, f, asBytes)
  <1>5. WriteAs(n, p.id, f, asBytes) = HeaderBits(n) \o w
    BY <1>1 DEF WriteAs, PayloadOf, BehindHeader
  <1>6. w \in Seq(Bit)
    <2>1. CASE ~IsEvent(n)
      BY <1>2, <2>1, TypedParts, EachPacket, FieldsBits DEF FieldsHold, BehindHeader
    <2>2. CASE IsEvent(n)
      <3> DEFINE L == Packets[n].layout
      <3>1. EventParts(n, f)
        BY <1>2, <1>3, <2>2, EventPartsAre
      <3>2. WriteFields(L, f) \in Seq(Bit) /\ WriteFields(Targets, f) \in Seq(Bit)
            /\ EventNumberBits(n) \in Seq(Bit) /\ WriteFields(Position, f) \in Seq(Bit)
        BY <1>2, <2>2, <3>1, EventBits
      <3>3. Terminator \in Seq(Bit) /\ PayloadOf(n, f, asBytes) \in Seq(Bit)
        BY <3>2, TerminatorBits, BytesAreWhole DEF PayloadOf
      <3> HIDE DEF n, f
      <3>4. WriteRpc(Packets[n].id, f, PayloadOf(n, f, asBytes)) \in Seq(Bit)
        BY <3>2, <3>3, ConcatProperties DEF WriteRpc, EventNumberBits
      <3>5. QED
        BY <2>2, <3>4 DEF BehindHeader
    <2>3. QED
      BY <2>1, <2>2
  <1>7. Arrived(b, HeaderBits(n) \o w, all)
    BY <1>4, <1>5
  <1> HIDE DEF w
  <1>8. \/ r = Failed /\ ~all
        \/ r = ReadBehind(ChannelOf(n), number, a) /\ Arrived(a, w, all)
    BY <1>2, <1>6, <1>7, HeaderRead
  <1>9. ReadBehind(ChannelOf(n), number, a)
          = IF IsEvent(n) THEN ReadRpc(a) ELSE ReadBehind(ChannelOf(n), Packets[n].id, a)
    <2>1. IsEvent(n) => ChannelOf(n) # "control" /\ number = Rpc
      BY DEF ChannelOf, IsEvent
    <2>2. QED
      BY <2>1 DEF ReadBehind
  <1>10. \/ r = Failed /\ ~all
         \/ \E s \in BOOLEAN :
               /\ Arrived(a, BehindHeader(n, f, s), all)
               /\ r = IF IsEvent(n) THEN ReadRpc(a) ELSE ReadBehind(ChannelOf(n), Packets[n].id, a)
    <2> HIDE DEF r, a, number
    <2>1. QED
      BY <1>8, <1>9 DEF w
  <1>11. QED
    BY <1>1, <1>2, <1>3, <1>10

(* A packet that is well formed is read, or refused, for what it is. *)
LEMMA SentReturned ==
    ASSUME NEW p, IsSent(p), WellFormed(p), NEW all \in BOOLEAN, all \/ ~IsEvent(p.name),
           NEW b, Arrives(b, p, all)
    PROVE  Returned(p.name, p.fields, ReadPacket(ChannelOf(p.id), b), all)
  <1> DEFINE n == p.name
             f == p.fields
             a == After(b, 16)
             r == ReadPacket(ChannelOf(p.id), b)
  <1>1. /\ p.id = n /\ n \in DOMAIN Packets /\ FieldsInStep(LayoutOf[n], f)
        /\ IsEvent(n) => f["network_id"] = 0
        /\ \/ r = Failed /\ ~all
           \/ \E asBytes \in BOOLEAN :
                 /\ Arrived(a, BehindHeader(n, f, asBytes), all)
                 /\ r = IF IsEvent(n) THEN ReadRpc(a) ELSE ReadBehind(ChannelOf(n), Packets[n].id, a)
    BY SentRead
  <1> HIDE DEF r, a
  <1>2. CASE r = Failed /\ ~all
    BY <1>2 DEF Returned, r
  <1>3. CASE ~(r = Failed /\ ~all)
    <2>1. PICK asBytes \in BOOLEAN :
              /\ Arrived(a, BehindHeader(n, f, asBytes), all)
              /\ r = IF IsEvent(n) THEN ReadRpc(a) ELSE ReadBehind(ChannelOf(n), Packets[n].id, a)
      BY <1>1, <1>3
    <2>2. CASE ~IsEvent(n)
      <3>1. Arrived(a, WriteFields(Packets[n].layout, f), all)
        BY <2>1, <2>2 DEF BehindHeader
      <3>2. Returned(n, f, ReadBehind(ChannelOf(n), Packets[n].id, a), all)
        BY <1>1, <2>2, <3>1, NamedReturned
      <3>3. QED
        BY <2>1, <2>2, <3>2 DEF r
    <2>3. CASE IsEvent(n)
      <3>1. Arrived(a, WriteRpc(Packets[n].id, f, PayloadOf(n, f, asBytes)), TRUE) /\ all = TRUE
        BY <2>1, <2>3 DEF BehindHeader
      <3>2. Returned(n, f, ReadRpc(a), TRUE)
        BY <1>1, <2>3, <3>1, EventReturned
      <3>3. QED
        BY <2>1, <2>3, <3>1, <3>2 DEF r
    <2>4. QED
      BY <2>2, <2>3
  <1>4. QED
    BY <1>2, <1>3

----------------------------------------------------------------------------
(* The round trip *)

\* Of a well-formed packet, whole or no event, is known what the reader made.
SentIsReturned ==
    phase \in {"read", "failed"} /\ WellFormed(sent) /\ (whole \/ ~IsEvent(sent.name)) =>
        Returned(sent.name, sent.fields,
                 IF phase = "failed" THEN Failed ELSE <<name, fields>>, whole)

RoundTripInv == Inv /\ SentIsReturned

(* Nothing was read yet of a packet that a caller builds. *)
LEMMA RoundTripInit == Init => RoundTripInv
  <1>1. Init => SentIsReturned
    BY DEF Init, SentIsReturned
  <1>2. QED
    BY <1>1, InitInv DEF RoundTripInv

(* Every step keeps it: it is the reader's that matters. *)
LEMMA RoundTripNext == RoundTripInv /\ [Next]_vars => RoundTripInv'
  <1> SUFFICES ASSUME RoundTripInv, [Next]_vars PROVE SentIsReturned'
    BY NextInv DEF RoundTripInv
  <1> USE DEF RoundTripInv
  <1>1. CASE UNCHANGED vars
    BY <1>1 DEF vars, SentIsReturned, WellFormed
  <1>2. CASE Update
    BY <1>2 DEF Update, SentIsReturned
  <1>3. CASE WritePacket
    BY <1>3 DEF WritePacket, SentIsReturned
  <1>4. CASE Cut
    BY <1>4 DEF Cut, SentIsReturned
  <1>5. CASE Receive
    <2> DEFINE r == ReadPacket(ChannelOf(sent.id), wire)
    <2>1. phase = "written" /\ UNCHANGED <<sent, whole>>
      BY <1>5 DEF Receive
    <2>2. \/ r = Failed /\ phase' = "failed"
          \/ r # Failed /\ phase' = "read" /\ name' = r[1] /\ fields' = r[2]
      BY <1>5 DEF Receive
    <2>3. IsSent(sent) /\ whole \in BOOLEAN /\ Arrives(wire, sent, whole)
      BY <2>1 DEF Inv, SentKept, WireKept
    <2> HIDE DEF r
    <2> SUFFICES ASSUME WellFormed(sent), whole \/ ~IsEvent(sent.name)
                 PROVE  Returned(sent.name, sent.fields,
                                 IF phase' = "failed" THEN Failed ELSE <<name', fields'>>, whole)
      BY <2>1 DEF SentIsReturned, WellFormed
    <2>4. Returned(sent.name, sent.fields, r, whole)
      BY <2>3, SentReturned DEF r
    <2>5. CASE r = Failed /\ phase' = "failed"
      BY <2>4, <2>5
    <2>6. CASE r # Failed /\ phase' = "read" /\ name' = r[1] /\ fields' = r[2]
      <3> DEFINE q == <<name', fields'>>
      <3>1. q[1] = r[1] /\ q[2] = r[2] /\ q # Failed
        BY <2>6, NotFailed
      <3> HIDE DEF q
      <3>2. Returned(sent.name, sent.fields, q, whole)
        BY <2>4, <2>6, <3>1 DEF Returned
      <3>3. QED
        BY <2>6, <3>2 DEF q
    <2>7. QED
      BY <2>2, <2>5, <2>6
  <1>6. CASE Forward
    BY <1>6 DEF Forward, SentIsReturned
  <1>7. QED
    BY <1>1, <1>2, <1>3, <1>4, <1>5, <1>6 DEF Next

(* The round trip, as an invariant of the packets. *)
THEOREM RoundTripInvariance == Spec => []RoundTripInv
  BY RoundTripInit, RoundTripNext, PTL DEF Spec

(* The first bytes of a vector are a prefix of it. *)
LEMMA StartIsPrefix ==
    ASSUME NEW v, IsVector(v), NEW k \in 0..Len(v), NEW u, u = [j \in 1..k |-> v[j]]
    PROVE  IsPrefix(u, v)
  <1> DEFINE S == {v[i] : i \in 1..Len(v)}
  <1>1. Len(v) \in Nat /\ k \in Nat /\ k <= Len(v)
    BY DEF IsVector
  <1>2. \A i \in 1..Len(v) : v[i] \in S
    OBVIOUS
  <1> HIDE DEF S
  <1>3. v \in Seq(S)
    BY <1>1, <1>2 DEF IsVector
  <1>4. u \in Seq(S) /\ Len(u) = k /\ \A i \in 1..k : u[i] = v[i] /\ u[i] \in S /\ v[i] \in S
    BY <1>1, <1>2
  <1>5. /\ SubSeq(v, 1, k) \in Seq(S)
        /\ Len(SubSeq(v, 1, k)) = IF 1 <= k THEN k - 1 + 1 ELSE 0
        /\ \A i \in 1..(k - 1 + 1) : SubSeq(v, 1, k)[i] = v[1 + i - 1]
    BY <1>1, <1>4, SubSeqProperties
  <1>6. /\ SubSeq(u, 1, k) \in Seq(S)
        /\ Len(SubSeq(u, 1, k)) = IF 1 <= k THEN k - 1 + 1 ELSE 0
        /\ \A i \in 1..(k - 1 + 1) : SubSeq(u, 1, k)[i] = u[1 + i - 1]
    BY <1>1, <1>4, SubSeqProperties
  <1>7. Len(SubSeq(v, 1, k)) = k /\ Len(SubSeq(u, 1, k)) = k
        /\ \A i \in 1..k : SubSeq(v, 1, k)[i] = v[i] /\ SubSeq(u, 1, k)[i] = u[i]
    BY <1>1, <1>5, <1>6
  <1>8. SubSeq(u, 1, k) = SubSeq(v, 1, k)
    BY <1>4, <1>5, <1>6, <1>7, SeqEqual
  <1>9. QED
    BY <1>1, <1>4, <1>8 DEF IsPrefix

(* A packet whose counts and conditions are in step is never read as another one:  *)
(* whole, each field is what was written; cut, and no event, only the bytes at the *)
(* end of it are fewer.  Of a ClientUpdate this is so up to has_controlled_entity  *)
(* (replication.rs, control.rs, rpc.rs; crate-compat/src).                         *)
THEOREM NeverAnotherPacketAlways == Spec => []NeverAnotherPacket
  <1>1. RoundTripInv => NeverAnotherPacket
    <2> SUFFICES ASSUME RoundTripInv, phase = "read", WellFormed(sent), whole \/ ~IsEvent(sent.name)
                 PROVE  /\ name = sent.name
                        /\ \A i \in DOMAIN Layout :
                              \/ ~FieldsReadAsWritten(Layout, i)
                              \/ Same(i)
                              \/ /\ ~whole /\ Layout[i].codec.kind = "rest"
                                 /\ IsPrefix(fields[Layout[i].name], sent.fields[Layout[i].name])
      BY DEF NeverAnotherPacket
    <2> DEFINE r == <<name, fields>>
    <2>1. Returned(sent.name, sent.fields, r, whole)
      BY DEF RoundTripInv, SentIsReturned
    <2>2. r # Failed /\ r[1] = name /\ r[2] = fields
      BY NotFailed
    <2> HIDE DEF r
    <2>3. name = sent.name
      BY <2>1, <2>2 DEF Returned
    <2>4. DOMAIN Layout = 1..Len(Layout) /\ Layout = LayoutOf[sent.name] /\ IsLayout(Layout)
      BY <2>3, LayoutIs, LayoutDomain DEF Layout, RoundTripInv, Inv, PacketTyped, Typed
    <2>5. ASSUME NEW i \in DOMAIN Layout, FieldsReadAsWritten(Layout, i)
          PROVE  \/ Same(i)
                 \/ /\ ~whole /\ Layout[i].codec.kind = "rest"
                    /\ IsPrefix(fields[Layout[i].name], sent.fields[Layout[i].name])
      <3> DEFINE v == sent.fields[Layout[i].name]
                 u == fields[Layout[i].name]
      <3>1. FieldReturned(Layout[i], sent.fields, fields, whole)
        BY <2>1, <2>2, <2>4, <2>5 DEF Returned
      <3>2. CASE u = v
        BY <3>2 DEF Same
      <3>3. CASE /\ ~whole /\ Layout[i].codec.kind = "rest"
                 /\ \E k \in 0..Len(v) : u = [j \in 1..k |-> v[j]]
        <4>1. PICK k \in 0..Len(v) : u = [j \in 1..k |-> v[j]]
          BY <3>3
        <4>2. IsVector(v)
          <5>1. FieldsInStep(Layout, sent.fields)
            BY <2>4, LayoutDomain DEF WellFormed, InStep, FieldsInStep
          <5>2. HoldsField(Layout[i], v)
            BY <2>4, <5>1, InStepHolds
          <5>3. QED
            BY <3>3, <5>2 DEF HoldsField, Holds, IsBytes
        <4> HIDE DEF u, v
        <4>3. IsPrefix(u, v)
          BY <4>1, <4>2, StartIsPrefix
        <4>4. QED
          BY <3>3, <4>3 DEF u, v
      <3>4. QED
        BY <3>1, <3>2, <3>3 DEF FieldReturned
    <2>6. QED
      BY <2>3, <2>5
  <1>2. QED
    BY <1>1, RoundTripInvariance, PTL

(* A whole packet in step is refused only for a signed Varint that no reader takes *)
(* (crate-compat/src/varint.rs).                                                   *)
THEOREM ReadableIsReadAlways == Spec => []ReadableIsRead
  <1>1. RoundTripInv => ReadableIsRead
    BY DEF RoundTripInv, SentIsReturned, ReadableIsRead, Returned
  <1>2. QED
    BY <1>1, RoundTripInvariance, PTL

----------------------------------------------------------------------------
(* What the last bits do not matter for *)

(* Taking bits off either end. *)
LEMMA WithoutAfter ==
    ASSUME NEW b \in Seq(Bit), NEW n \in 0..Len(b), NEW z \in 0..(Len(b) - n)
    PROVE  /\ z \in 0..Len(b)
           /\ After(Without(b, z), n) = Without(After(b, n), z)
  <1> DEFINE c == Without(b, z)
             a == After(b, n)
             u == After(c, n)
             v == Without(a, z)
  <1>1. Len(b) \in Nat /\ z \in 0..Len(b)
    BY LenProperties
  <1>2. c \in Seq(Bit) /\ Len(c) = Len(b) - z /\ \A i \in 1..(Len(b) - z) : c[i] = b[i]
    BY <1>1, WithoutBits
  <1>3. a \in Seq(Bit) /\ Len(a) = Len(b) - n /\ \A i \in 1..(Len(b) - n) : a[i] = b[n + i]
    BY AfterBits
  <1> HIDE DEF c, a
  <1>4. n \in 0..Len(c)
    BY <1>1, <1>2
  <1>5. u \in Seq(Bit) /\ Len(u) = Len(c) - n /\ \A i \in 1..(Len(c) - n) : u[i] = c[n + i]
    BY <1>2, <1>4, AfterBits
  <1>6. z \in 0..Len(a)
    BY <1>3
  <1>7. v \in Seq(Bit) /\ Len(v) = Len(a) - z /\ \A i \in 1..(Len(a) - z) : v[i] = a[i]
    BY <1>3, <1>6, WithoutBits
  <1> HIDE DEF u, v
  <1>8. Len(u) = Len(v)
    BY <1>1, <1>2, <1>3, <1>5, <1>7
  <1>9. ASSUME NEW i \in 1..Len(u) PROVE u[i] = v[i]
    <2>1. i \in 1..(Len(c) - n) /\ i \in 1..(Len(a) - z)
      BY <1>1, <1>2, <1>3, <1>5
    <2>2. n + i \in 1..(Len(b) - z) /\ i \in 1..(Len(b) - n)
      BY <1>1, <1>2, <2>1
    <2>3. u[i] = c[n + i] /\ v[i] = a[i] /\ c[n + i] = b[n + i] /\ a[i] = b[n + i]
      BY <1>2, <1>3, <1>5, <1>7, <2>1, <2>2
    <2>4. QED
      BY <2>3
  <1>10. u = v
    BY <1>5, <1>7, <1>8, <1>9, SeqEqual
  <1>11. QED
    BY <1>1, <1>10 DEF u, v, c, a

\* If r, read from some bits, left the last z, then s, read without these, is the same.
Narrows(r, s, z) ==
    r # Failed /\ z <= Len(r[2]) => s = <<r[1], Without(r[2], z)>>

(* A fixed number of bits. *)
LEMMA FixedNarrows ==
    ASSUME NEW c, IsFixed(c), NEW b \in Seq(Bit), NEW z \in 0..Len(b)
    PROVE  Narrows(ReadFixed(c, b), ReadFixed(c, Without(b, z)), z)
  <1> DEFINE d == Without(b, z)
             n == c.bits
             v == BitsValue(SubSeq(b, 1, n))
             r == ReadFixed(c, b)
  <1> SUFFICES ASSUME r # Failed, z <= Len(r[2])
               PROVE  ReadFixed(c, d) = <<r[1], Without(r[2], z)>>
    BY DEF Narrows
  <1>1. n \in Nat /\ Len(b) \in Nat
    BY LenProperties DEF IsFixed
  <1>2. ~(Len(b) < n) /\ v \in c.values /\ r = <<v, After(b, n)>>
    BY DEF ReadFixed
  <1> HIDE DEF r
  <1>3. n \in 0..Len(b) /\ Len(After(b, n)) = Len(b) - n
    <2>1. n \in 0..Len(b)
      BY <1>1, <1>2
    <2> HIDE DEF n
    <2>2. QED
      BY <2>1, AfterBits
  <1>4. z \in 0..(Len(b) - n)
    BY <1>1, <1>2, <1>3
  <1>5. After(d, n) = Without(After(b, n), z)
    BY <1>3, <1>4, WithoutAfter
  <1>6. SubSeq(d, 1, n) = SubSeq(b, 1, n)
    <2>1. 1 \in Nat /\ 1 <= 1 /\ n <= Len(b) - z
      BY <1>1, <1>4
    <2> HIDE DEF n
    <2>2. QED
      BY <1>1, <2>1, WithoutPart
  <1>7. Len(d) = Len(b) - z
    BY WithoutBits
  <1>8. ~(Len(d) < n)
    BY <1>1, <1>4, <1>7
  <1> HIDE DEF d
  <1>9. QED
    BY <1>2, <1>5, <1>6, <1>8 DEF ReadFixed

(* A bit field. *)
LEMMA FlagsNarrows ==
    ASSUME NEW c, IsFlags(c), NEW b \in Seq(Bit), NEW z \in 0..Len(b)
    PROVE  Narrows(ReadFlags(c, b), ReadFlags(c, Without(b, z)), z)
  <1> DEFINE d == Without(b, z)
             n == c.bits
             kept(e) == [i \in 1..n |-> IF i \in c.flags THEN e[i] ELSE 0]
             r == ReadFlags(c, b)
  <1> SUFFICES ASSUME r # Failed, z <= Len(r[2])
               PROVE  ReadFlags(c, d) = <<r[1], Without(r[2], z)>>
    BY DEF Narrows
  <1>1. n \in Nat /\ Len(b) \in Nat
    BY LenProperties DEF IsFlags
  <1>2. ~(Len(b) < n) /\ r = <<BitsValue(kept(b)), After(b, n)>>
    BY DEF ReadFlags
  <1> HIDE DEF r
  <1>3. n \in 0..Len(b) /\ Len(After(b, n)) = Len(b) - n
    <2>1. n \in 0..Len(b)
      BY <1>1, <1>2
    <2> HIDE DEF n
    <2>2. QED
      BY <2>1, AfterBits
  <1>4. z \in 0..(Len(b) - n)
    BY <1>1, <1>2, <1>3
  <1>5. After(d, n) = Without(After(b, n), z)
    BY <1>3, <1>4, WithoutAfter
  <1>6. Len(d) = Len(b) - z /\ \A i \in 1..(Len(b) - z) : d[i] = b[i]
    BY WithoutBits
  <1> HIDE DEF d
  <1>7. ~(Len(d) < n)
    BY <1>1, <1>4, <1>6
  <1>8. kept(d) = kept(b)
    <2>1. \A i \in 1..n : d[i] = b[i]
      BY <1>1, <1>4, <1>6
    <2>2. QED
      BY <2>1
  <1>9. ReadFlags(c, d) = <<BitsValue(kept(d)), After(d, n)>>
    BY <1>7 DEF ReadFlags
  <1>10. QED
    BY <1>2, <1>5, <1>8, <1>9

(* A Varint ends with the same byte. *)
LEMMA TakenWithout ==
    ASSUME NEW b \in Seq(Bit), NEW z \in 0..Len(b), Taken(b) # 0, z <= Len(b) - 8 * Taken(b)
    PROVE  Taken(Without(b, z)) = Taken(b) /\ Taken(b) \in 1..MaxGroups
  <1> DEFINE d == Without(b, z)
             E(e) == {k \in 1..MaxGroups : 8 * k <= Len(e) /\ e[8 * k] = 0}
             n == Taken(b)
  <1>1. Len(b) \in Nat
    BY LenProperties
  <1>2. E(b) \in SUBSET Nat /\ E(d) \in SUBSET Nat
    BY DEF MaxGroups
  <1>3. E(b) # {} /\ n = Min(E(b))
    BY DEF Taken
  <1>4. n \in E(b) /\ \A k \in E(b) : n <= k
    <2> HIDE DEF E
    <2>1. QED
      BY <1>2, <1>3, MinIn
  <1>5. Len(d) = Len(b) - z /\ \A i \in 1..(Len(b) - z) : d[i] = b[i]
    BY WithoutBits
  <1>6. n \in 1..MaxGroups /\ n \in Nat /\ 1 <= n /\ n <= 10 /\ b[8 * n] = 0
    BY <1>4 DEF MaxGroups
  <1> HIDE DEF d
  <1>7. 8 * n <= Len(d)
    BY <1>1, <1>5, <1>6
  <1>8. n \in E(d)
    <2>1. 8 * n \in 1..(Len(b) - z)
      BY <1>1, <1>5, <1>6, <1>7
    <2>2. QED
      BY <1>5, <1>6, <1>7, <2>1
  <1>9. ASSUME NEW k \in E(d) PROVE k \in E(b)
    <2>1. k \in 1..MaxGroups /\ 8 * k <= Len(d) /\ d[8 * k] = 0
      BY <1>9
    <2>2. k \in Nat /\ 1 <= k
      BY <2>1 DEF MaxGroups
    <2>3. 8 * k <= Len(b) /\ 8 * k \in 1..(Len(b) - z)
      BY <1>1, <1>5, <2>1, <2>2
    <2>4. b[8 * k] = 0
      BY <1>5, <2>1, <2>3
    <2>5. QED
      BY <2>1, <2>3, <2>4
  <1>10. \A k \in E(d) : n <= k
    BY <1>4, <1>9
  <1>11. Taken(d) = Min(E(d))
    BY <1>8 DEF Taken
  <1> HIDE DEF E, n
  <1>12. Min(E(d)) = n
    BY <1>2, <1>8, <1>10, MinIs
  <1>13. QED
    BY <1>6, <1>11, <1>12 DEF n, d

(* A Varint takes a byte at least; without what is behind it, it is the same. *)
LEMMA VarintNarrows ==
    ASSUME NEW t, NEW b \in Seq(Bit), NEW z \in 0..Len(b)
    PROVE  /\ Narrows(ReadVarint(t, b), ReadVarint(t, Without(b, z)), z)
           /\ ReadVarint(t, b) # Failed => Len(ReadVarint(t, b)[2]) + 8 <= Len(b)
  <1> DEFINE d == Without(b, z)
             n == Taken(b)
             r == ReadVarint(t, b)
             G(e) == [i \in 1..n |-> BitsValue(SubSeq(e, 8 * i - 7, 8 * i - 1))]
  <1> SUFFICES ASSUME r # Failed
               PROVE  /\ z <= Len(r[2]) => ReadVarint(t, d) = <<r[1], Without(r[2], z)>>
                      /\ Len(r[2]) + 8 <= Len(b)
    BY DEF Narrows
  <1>1. Read(t, b) # None /\ r = <<Read(t, b), After(b, 8 * n)>>
    BY DEF ReadVarint
  <1>2. n # 0
    BY <1>1 DEF Read
  <1>3. 0 \in 0..Len(b) /\ Len(b) \in Nat
    BY LenProperties
  <1>4. n \in 1..MaxGroups /\ 8 * n <= Len(b)
    <2> DEFINE E == {k \in 1..MaxGroups : 8 * k <= Len(b) /\ b[8 * k] = 0}
    <2>1. E # {} /\ n = Min(E)
      BY <1>2 DEF Taken
    <2>2. E \in SUBSET Nat
      BY DEF MaxGroups
    <2>3. n \in E
      <3> HIDE DEF E
      <3>1. QED
        BY <2>1, <2>2, MinIn
    <2>4. QED
      BY <2>3
  <1>5. n \in Nat /\ 1 <= n /\ 8 * n \in 0..Len(b)
    BY <1>3, <1>4 DEF MaxGroups
  <1>6. Len(After(b, 8 * n)) = Len(b) - 8 * n
    BY <1>5, AfterBits
  <1>7. Len(r[2]) + 8 <= Len(b)
    BY <1>1, <1>3, <1>5, <1>6
  <1>8. ASSUME z <= Len(r[2]) PROVE ReadVarint(t, d) = <<r[1], Without(r[2], z)>>
    <2>1. z \in 0..(Len(b) - 8 * n) /\ z <= Len(b) - 8 * n
      BY <1>1, <1>3, <1>5, <1>6, <1>8
    <2>2. Taken(d) = n
      BY <1>2, <2>1, TakenWithout
    <2>3. After(d, 8 * n) = Without(After(b, 8 * n), z)
      BY <1>5, <2>1, WithoutAfter
    <2>4. G(d) = G(b)
      <3>1. ASSUME NEW i \in 1..n
            PROVE  SubSeq(d, 8 * i - 7, 8 * i - 1) = SubSeq(b, 8 * i - 7, 8 * i - 1)
        <4>1. 8 * i - 7 \in Nat /\ 8 * i - 1 \in Nat /\ 1 <= 8 * i - 7 /\ 8 * i - 1 <= Len(b) - z
          BY <1>3, <1>5, <2>1
        <4>2. QED
          BY <4>1, WithoutPart
      <3> HIDE DEF d
      <3>2. QED
        BY <3>1
    <2>5. GroupsOf(b, Taken(b)) = G(b) /\ GroupsOf(d, Taken(d)) = G(d)
      BY <2>2 DEF GroupsOf
    <2>6. Read(t, d) = Read(t, b)
      <3> HIDE DEF G, d, n
      <3>1. Taken(d) = Taken(b) /\ GroupsOf(d, Taken(d)) = GroupsOf(b, Taken(b))
        BY <2>2, <2>4, <2>5 DEF n
      <3>2. QED
        BY <3>1 DEF Read
    <2> HIDE DEF d, r
    <2>7. ReadVarint(t, d) = <<Read(t, b), After(d, 8 * n)>>
      <3>1. Read(t, d) # None
        BY <1>1, <2>6
      <3>2. QED
        BY <2>2, <2>6, <3>1 DEF ReadVarint
    <2>8. QED
      BY <1>1, <2>3, <2>7
  <1>9. QED
    BY <1>7, <1>8

(* As many bytes. *)
LEMMA BytesNarrows ==
    ASSUME NEW values, NEW n \in Nat, NEW b \in Seq(Bit), NEW z \in 0..Len(b)
    PROVE  Narrows(ReadBytes(values, n, b), ReadBytes(values, n, Without(b, z)), z)
  <1> DEFINE d == Without(b, z)
             r == ReadBytes(values, n, b)
             B(e) == [i \in 1..n |-> BitsValue(SubSeq(e, 8 * i - 7, 8 * i))]
  <1> SUFFICES ASSUME r # Failed, z <= Len(r[2])
               PROVE  ReadBytes(values, n, d) = <<r[1], Without(r[2], z)>>
    BY DEF Narrows
  <1>1. ~(Len(b) < 8 * n) /\ (\A i \in 1..n : B(b)[i] \in values) /\ r = <<B(b), After(b, 8 * n)>>
    BY DEF ReadBytes
  <1>2. Len(b) \in Nat /\ 8 * n \in 0..Len(b)
    BY <1>1, LenProperties
  <1>3. Len(After(b, 8 * n)) = Len(b) - 8 * n
    BY <1>2, AfterBits
  <1> HIDE DEF r
  <1>4. z \in 0..(Len(b) - 8 * n)
    BY <1>1, <1>2, <1>3
  <1>5. After(d, 8 * n) = Without(After(b, 8 * n), z)
    BY <1>2, <1>4, WithoutAfter
  <1>6. Len(d) = Len(b) - z
    BY WithoutBits
  <1>7. ~(Len(d) < 8 * n)
    BY <1>2, <1>4, <1>6
  <1>8. B(d) = B(b)
    <2>1. ASSUME NEW i \in 1..n
          PROVE  SubSeq(d, 8 * i - 7, 8 * i) = SubSeq(b, 8 * i - 7, 8 * i)
      <3>1. 8 * i - 7 \in Nat /\ 8 * i \in Nat /\ 1 <= 8 * i - 7 /\ 8 * i <= Len(b) - z
        BY <1>2, <1>4
      <3>2. QED
        BY <3>1, WithoutPart
    <2> HIDE DEF d
    <2>2. QED
      BY <2>1
  <1> HIDE DEF d
  <1>9. ReadBytes(values, n, d) = <<B(d), After(d, 8 * n)>>
    <2>1. \A i \in 1..n : B(d)[i] \in values
      BY <1>1, <1>8
    <2>2. QED
      BY <1>7, <2>1 DEF ReadBytes
  <1>10. QED
    BY <1>1, <1>5, <1>8, <1>9

(* A part takes a bit at least; without what is behind it, it is the same. *)
LEMMA PartNarrows ==
    ASSUME NEW c, IsPart(c), NEW b \in Seq(Bit), NEW z \in 0..Len(b)
    PROVE  /\ Narrows(ReadPart(c, b), ReadPart(c, Without(b, z)), z)
           /\ ReadPart(c, b) # Failed => Len(ReadPart(c, b)[2]) + 1 <= Len(b)
  <1> DEFINE d == Without(b, z)
  <1>0. Len(b) \in Nat
    BY LenProperties
  <1>1. CASE IsFixed(c)
    <2>1. \A e : ReadPart(c, e) = ReadFixed(c, e)
      BY <1>1, PartIs DEF IsFixed
    <2>2. Narrows(ReadFixed(c, b), ReadFixed(c, d), z)
      BY <1>1, FixedNarrows
    <2>3. ASSUME ReadFixed(c, b) # Failed PROVE Len(ReadFixed(c, b)[2]) + 1 <= Len(b)
      <3>1. ~(Len(b) < c.bits) /\ ReadFixed(c, b)[2] = After(b, c.bits)
        BY <2>3 DEF ReadFixed
      <3>2. c.bits \in 0..Len(b) /\ c.bits >= 1
        BY <1>0, <1>1, <3>1 DEF IsFixed
      <3>3. Len(After(b, c.bits)) = Len(b) - c.bits
        BY <3>2, AfterBits
      <3>4. QED
        BY <1>0, <3>1, <3>2, <3>3
    <2>4. QED
      BY <2>1, <2>2, <2>3
  <1>2. CASE IsFlags(c)
    <2>1. \A e : ReadPart(c, e) = ReadFlags(c, e)
      BY <1>2, PartIs DEF IsFlags
    <2>2. Narrows(ReadFlags(c, b), ReadFlags(c, d), z)
      BY <1>2, FlagsNarrows
    <2>3. ASSUME ReadFlags(c, b) # Failed PROVE Len(ReadFlags(c, b)[2]) + 1 <= Len(b)
      <3>1. ~(Len(b) < c.bits) /\ ReadFlags(c, b)[2] = After(b, c.bits)
        BY <2>3 DEF ReadFlags
      <3>2. c.bits \in 0..Len(b) /\ c.bits >= 1
        BY <1>0, <1>2, <3>1 DEF IsFlags
      <3>3. Len(After(b, c.bits)) = Len(b) - c.bits
        BY <3>2, AfterBits
      <3>4. QED
        BY <1>0, <3>1, <3>2, <3>3
    <2>4. QED
      BY <2>1, <2>2, <2>3
  <1>3. CASE IsVarint(c)
    <2>1. \A e : ReadPart(c, e) = ReadVarint(c.type, e)
      BY <1>3, PartIs DEF IsVarint
    <2>2. /\ Narrows(ReadVarint(c.type, b), ReadVarint(c.type, d), z)
          /\ ReadVarint(c.type, b) # Failed => Len(ReadVarint(c.type, b)[2]) + 8 <= Len(b)
      BY VarintNarrows
    <2>3. ReadVarint(c.type, b) # Failed => Len(ReadVarint(c.type, b)[2]) + 1 <= Len(b)
      <3>1. ReadVarint(c.type, b) # Failed => Len(ReadVarint(c.type, b)[2]) \in Nat
        BY VarintTyped, LenProperties DEF Leaves
      <3>2. QED
        BY <1>0, <2>2, <3>1
    <2>4. QED
      BY <2>1, <2>2, <2>3
  <1>4. CASE IsBytesCodec(c)
    <2> DEFINE t == c.read
               r == ReadVarint(t, b)
               s == ReadBytes(c.values, r[1], r[2])
               q == ReadVarint(t, d)
    <2>1. /\ t \in IntegerTypes /\ ~t.signed
          /\ ReadPart(c, b) = IF r = Failed THEN Failed ELSE s
          /\ ReadPart(c, d) = IF q = Failed THEN Failed ELSE ReadBytes(c.values, q[1], q[2])
      BY <1>4, ThenIs DEF IsBytesCodec
    <2>2. Narrows(r, q, z) /\ (r # Failed => Len(r[2]) + 8 <= Len(b))
      BY VarintNarrows
    <2> SUFFICES ASSUME r # Failed, s # Failed
                 PROVE  Narrows(s, ReadPart(c, d), z) /\ Len(s[2]) + 1 <= Len(b)
      BY <2>1 DEF Narrows
    <2>3. r[1] \in Nat /\ r[2] \in Seq(Bit)
      <3>1. Leaves(r, b) /\ r[1] \in IntegersOf(t)
        BY VarintTyped
      <3>2. QED
        BY <2>1, <3>1, IntegersAreInt DEF Leaves
    <2>4. s[2] \in Seq(Bit) /\ Len(s[2]) <= Len(r[2])
      <3> HIDE DEF r
      <3>1. Leaves(s, r[2])
        BY <2>3, BytesTyped
      <3>2. QED
        BY <3>1 DEF Leaves
    <2>5. Len(s[2]) \in Nat /\ Len(r[2]) \in Nat
      BY <2>3, <2>4, LenProperties
    <2> HIDE DEF r, q
    <2>6. Len(s[2]) + 1 <= Len(b)
      BY <1>0, <2>2, <2>4, <2>5
    <2>7. ASSUME z <= Len(s[2]) PROVE ReadPart(c, d) = <<s[1], Without(s[2], z)>>
      <3>1. z <= Len(r[2]) /\ z \in 0..Len(r[2])
        BY <1>0, <2>4, <2>5, <2>7
      <3>2. q = <<r[1], Without(r[2], z)>>
        BY <2>2, <3>1 DEF Narrows
      <3>3. q # Failed /\ q[1] = r[1] /\ q[2] = Without(r[2], z)
        BY <3>2, NotFailed
      <3>4. Narrows(s, ReadBytes(c.values, r[1], Without(r[2], z)), z)
        BY <2>3, <3>1, BytesNarrows
      <3>5. ReadPart(c, d) = ReadBytes(c.values, r[1], Without(r[2], z))
        BY <2>1, <3>3
      <3> HIDE DEF s
      <3>6. QED
        BY <2>7, <3>4, <3>5 DEF Narrows, s
    <2>8. QED
      BY <2>6, <2>7 DEF Narrows
  <1>5. CASE IsTuple(c)
    <2> DEFINE r == ReadFixed(c.first, b)
               s == ReadFixed(c.second, r[2])
               q == ReadFixed(c.first, d)
               u == ReadFixed(c.second, q[2])
    <2>1. /\ IsFixed(c.first) /\ IsFixed(c.second)
          /\ ReadPart(c, b) = IF r = Failed \/ s = Failed THEN Failed ELSE << <<r[1], s[1]>>, s[2]>>
          /\ ReadPart(c, d) = IF q = Failed \/ u = Failed THEN Failed ELSE << <<q[1], u[1]>>, u[2]>>
      BY <1>5, ThenIs DEF IsTuple
    <2>2. Narrows(r, q, z)
      BY <2>1, FixedNarrows
    <2> SUFFICES ASSUME r # Failed, s # Failed
                 PROVE  /\ z <= Len(s[2]) => ReadPart(c, d) = << <<r[1], s[1]>>, Without(s[2], z)>>
                        /\ Len(s[2]) + 1 <= Len(b)
      BY <2>1 DEF Narrows
    <2>3. ~(Len(b) < c.first.bits) /\ r[2] = After(b, c.first.bits)
      BY DEF ReadFixed
    <2>4. c.first.bits \in 0..Len(b) /\ c.first.bits >= 1
      BY <1>0, <2>1, <2>3 DEF IsFixed
    <2>5. r[2] \in Seq(Bit) /\ Len(r[2]) = Len(b) - c.first.bits
      BY <2>3, <2>4, AfterBits
    <2> HIDE DEF r, q
    <2>6. s[2] \in Seq(Bit) /\ Len(s[2]) <= Len(r[2])
      <3>1. Leaves(s, r[2])
        BY <2>1, <2>5, FixedTyped
      <3>2. QED
        BY <3>1 DEF Leaves
    <2>7. Len(s[2]) \in Nat /\ Len(r[2]) \in Nat
      BY <2>5, <2>6, LenProperties
    <2>8. Len(s[2]) + 1 <= Len(b)
      BY SMTT(60), <1>0, <2>4, <2>5, <2>6, <2>7
    <2>9. ASSUME z <= Len(s[2])
          PROVE  ReadPart(c, d) = << <<r[1], s[1]>>, Without(s[2], z)>>
      <3>1. z <= Len(r[2]) /\ z \in 0..Len(r[2])
        BY <1>0, <2>6, <2>7, <2>9
      <3>2. q = <<r[1], Without(r[2], z)>>
        BY <2>2, <3>1 DEF Narrows
      <3>3. q # Failed /\ q[1] = r[1] /\ q[2] = Without(r[2], z)
        BY <3>2, NotFailed
      <3>4. Narrows(s, ReadFixed(c.second, Without(r[2], z)), z)
        BY <2>1, <2>5, <3>1, FixedNarrows
      <3>5. u = ReadFixed(c.second, Without(r[2], z))
        BY <3>3
      <3> HIDE DEF s, u
      <3>6. u = <<s[1], Without(s[2], z)>>
        BY <2>9, <3>4, <3>5 DEF Narrows, s
      <3>7. u # Failed /\ u[1] = s[1] /\ u[2] = Without(s[2], z)
        BY <3>6, NotFailed
      <3>8. QED
        BY <2>1, <3>3, <3>7
    <2>10. QED
      BY <2>8, <2>9
  <1>6. QED
    BY <1>1, <1>2, <1>3, <1>4, <1>5 DEF IsPart

(* A Vec. *)
LEMMA ManyNarrows ==
    ASSUME NEW c, IsPart(c), NEW n \in Nat, NEW b \in Seq(Bit), NEW z \in 0..Len(b)
    PROVE  Narrows(ReadMany(c, n, b), ReadMany(c, n, Without(b, z)), z)
  <1> DEFINE d == Without(b, z)
             f == Reading(c, b, n)
             g == Reading(c, d, n)
             Good(r, s, i) == r # Failed => /\ r[2] \in Seq(Bit) /\ Len(r[2]) + i <= Len(b)
                                            /\ Narrows(r, s, z)
             S == {i \in Nat : i <= n => Good(f[i], g[i], i)}
  <1>0. Len(b) \in Nat
    BY LenProperties
  <1>1. /\ f[0] = NothingRead(b)
        /\ \A i \in 1..n : f[i] = ReadNext(c, f[i - 1])
        /\ ReadMany(c, n, b) = IF n > Len(b) THEN Failed ELSE f[n]
    BY ManyReadSteps
  <1>2. /\ g[0] = NothingRead(d)
        /\ \A i \in 1..n : g[i] = ReadNext(c, g[i - 1])
        /\ ReadMany(c, n, d) = IF n > Len(d) THEN Failed ELSE g[n]
    BY ManyReadSteps
  <1> HIDE DEF f, g
  <1>3. 0 \in S
    <2>1. f[0][1] = << >> /\ f[0][2] = b
      BY <1>1 DEF NothingRead
    <2>2. g[0] = << << >>, d>>
      BY <1>2 DEF NothingRead
    <2>3. Narrows(f[0], g[0], z)
      BY <2>1, <2>2 DEF Narrows
    <2>4. QED
      BY <1>0, <2>1, <2>3
  <1>4. ASSUME NEW i \in Nat, i \in S PROVE i + 1 \in S
    <2> SUFFICES ASSUME i + 1 <= n PROVE Good(f[i + 1], g[i + 1], i + 1)
      <3> HIDE DEF Good
      <3>1. QED
        OBVIOUS
    <2> SUFFICES ASSUME f[i + 1] # Failed
                 PROVE  /\ f[i + 1][2] \in Seq(Bit) /\ Len(f[i + 1][2]) + (i + 1) <= Len(b)
                        /\ Narrows(f[i + 1], g[i + 1], z)
      OBVIOUS
    <2> DEFINE r == f[i]
               s == ReadPart(c, r[2])
               q == g[i]
    <2>0. i + 1 \in 1..n /\ (i + 1) - 1 = i /\ i <= n
      BY <1>4
    <2>1. f[i + 1] = ReadNext(c, r) /\ g[i + 1] = ReadNext(c, q)
      BY <1>1, <1>2, <2>0
    <2>2. r # Failed /\ s # Failed /\ f[i + 1] = <<Append(r[1], s[1]), s[2]>>
      BY <2>1 DEF ReadNext
    <2>3. r[2] \in Seq(Bit) /\ Len(r[2]) + i <= Len(b) /\ Narrows(r, q, z)
      BY <1>4, <2>0, <2>2
    <2> HIDE DEF r, q
    <2>4. Leaves(s, r[2])
      BY <2>2, <2>3, PartTyped
    <2>5. s[2] \in Seq(Bit)
      BY <2>2, <2>4 DEF Leaves
    <2>6. Len(s[2]) + 1 <= Len(r[2])
      <3>1. \E y \in 0..Len(r[2]) : TRUE
        BY <2>3, LenProperties
      <3>2. ReadPart(c, r[2]) # Failed
        BY <2>2
      <3>3. Len(ReadPart(c, r[2])[2]) + 1 <= Len(r[2])
        BY <2>3, <3>1, <3>2, PartNarrows
      <3>4. QED
        BY <3>3
    <2>7. Len(s[2]) \in Nat /\ Len(r[2]) \in Nat
      BY <2>3, <2>5, LenProperties
    <2>8. Len(s[2]) + (i + 1) <= Len(b)
      <3>1. \A x, y, k, m \in Nat : x + 1 <= y /\ y + k <= m => x + (k + 1) <= m
        OBVIOUS
      <3>2. Len(r[2]) + i <= Len(b)
        BY <2>3
      <3> HIDE DEF s
      <3>3. QED
        BY <1>0, <2>6, <2>7, <3>1, <3>2
    <2>9. ASSUME z <= Len(s[2])
          PROVE  g[i + 1] = <<Append(r[1], s[1]), Without(s[2], z)>>
      <3>1. z <= Len(r[2]) /\ z \in 0..Len(r[2])
        BY <1>0, <2>6, <2>7, <2>9
      <3>2. q = <<r[1], Without(r[2], z)>>
        BY <2>2, <2>3, <3>1 DEF Narrows
      <3>3. q # Failed /\ q[1] = r[1] /\ q[2] = Without(r[2], z)
        BY <3>2, NotFailed
      <3> DEFINE u == ReadPart(c, Without(r[2], z))
      <3>4. Narrows(s, u, z)
        BY <2>3, <3>1, PartNarrows
      <3> HIDE DEF s, u
      <3>5. u = <<s[1], Without(s[2], z)>>
        BY <2>2, <2>9, <3>4 DEF Narrows
      <3>6. u # Failed /\ u[1] = s[1] /\ u[2] = Without(s[2], z)
        BY <3>5, NotFailed
      <3>7. g[i + 1] = <<Append(q[1], u[1]), u[2]>>
        BY <2>1, <3>3, <3>6 DEF ReadNext, u
      <3>8. QED
        BY <3>3, <3>6, <3>7
    <2> HIDE DEF s
    <2>10. f[i + 1][1] = Append(r[1], s[1]) /\ f[i + 1][2] = s[2]
      BY <2>2
    <2>11. Narrows(f[i + 1], g[i + 1], z)
      BY <2>9, <2>10 DEF Narrows
    <2>12. QED
      BY <2>5, <2>8, <2>10, <2>11
  <1>5. n \in S
    <2> HIDE DEF S
    <2>1. QED
      BY <1>3, <1>4, Induction
  <1> SUFFICES ASSUME ReadMany(c, n, b) # Failed, z <= Len(ReadMany(c, n, b)[2])
               PROVE  ReadMany(c, n, d) = <<ReadMany(c, n, b)[1], Without(ReadMany(c, n, b)[2], z)>>
    BY DEF Narrows
  <1>6. ReadMany(c, n, b) = f[n] /\ f[n] # Failed
    BY <1>1
  <1>7. f[n][2] \in Seq(Bit) /\ Len(f[n][2]) + n <= Len(b) /\ Narrows(f[n], g[n], z)
    BY <1>5, <1>6
  <1>8. z <= Len(f[n][2])
    BY <1>6
  <1>9. g[n] = <<f[n][1], Without(f[n][2], z)>>
    BY <1>6, <1>7, <1>8 DEF Narrows
  <1>10. Len(d) = Len(b) - z
    BY WithoutBits
  <1>11. Len(f[n][2]) \in Nat
    BY <1>7, LenProperties
  <1> HIDE DEF d
  <1>12. ~(n > Len(d))
    BY <1>0, <1>7, <1>8, <1>10, <1>11
  <1>13. QED
    BY <1>2, <1>6, <1>9, <1>12

(* A Vec behind its length. *)
LEMMA NestedNarrows ==
    ASSUME NEW c, IsPart(c), NEW t, IsUnsigned(t), NEW b \in Seq(Bit), NEW z \in 0..Len(b)
    PROVE  LET r == ReadNested(c, b, ReadVarint(t, b))
               d == Without(b, z)
           IN  /\ Narrows(r, ReadNested(c, d, ReadVarint(t, d)), z)
               /\ r # Failed => Len(b) >= 8
  <1> DEFINE d == Without(b, z)
             r == ReadVarint(t, b)
             q == ReadVarint(t, d)
             s == ReadMany(c, r[1], r[2])
             u == ReadMany(c, q[1], q[2])
  <1>0. Len(b) \in Nat
    BY LenProperties
  <1>1. /\ ReadNested(c, b, r) = IF r = Failed THEN Failed ELSE s
        /\ ReadNested(c, d, q) = IF q = Failed THEN Failed ELSE u
    BY DEF ReadNested
  <1>2. Narrows(r, q, z) /\ (r # Failed => Len(r[2]) + 8 <= Len(b))
    BY VarintNarrows
  <1> SUFFICES ASSUME r # Failed, s # Failed
               PROVE  /\ z <= Len(s[2]) => ReadNested(c, d, q) = <<s[1], Without(s[2], z)>>
                      /\ Len(b) >= 8
    BY <1>1 DEF Narrows
  <1>3. r[1] \in Nat /\ r[2] \in Seq(Bit)
    <2>1. Leaves(r, b) /\ r[1] \in IntegersOf(t)
      BY VarintTyped
    <2>2. QED
      BY <2>1, IntegersAreInt DEF Leaves, IsUnsigned
  <1> HIDE DEF r, q
  <1>4. s[2] \in Seq(Bit) /\ Len(s[2]) <= Len(r[2])
    <2>1. Leaves(s, r[2])
      BY <1>3, ManyTyped
    <2>2. QED
      BY <2>1 DEF Leaves
  <1>5. Len(s[2]) \in Nat /\ Len(r[2]) \in Nat
    BY <1>3, <1>4, LenProperties
  <1>6. Len(b) >= 8
    BY <1>0, <1>2, <1>5
  <1>7. ASSUME z <= Len(s[2]) PROVE ReadNested(c, d, q) = <<s[1], Without(s[2], z)>>
    <2>1. z <= Len(r[2]) /\ z \in 0..Len(r[2])
      BY <1>0, <1>4, <1>5, <1>7
    <2>2. q = <<r[1], Without(r[2], z)>>
      BY <1>2, <2>1 DEF Narrows
    <2>3. q # Failed /\ q[1] = r[1] /\ q[2] = Without(r[2], z)
      BY <2>2, NotFailed
    <2>4. Narrows(s, ReadMany(c, r[1], Without(r[2], z)), z)
      BY <1>3, <2>1, ManyNarrows
    <2>5. u = ReadMany(c, r[1], Without(r[2], z))
      BY <2>3
    <2> HIDE DEF s, u
    <2>6. u = <<s[1], Without(s[2], z)>>
      BY <1>7, <2>4, <2>5 DEF Narrows, s
    <2>7. QED
      BY <1>1, <2>3, <2>6
  <1>8. QED
    BY <1>6, <1>7

(* A field of an event, but for the bytes of an event that is not known. *)
LEMMA ValueNarrows ==
    ASSUME NEW c, IsSimple(c), NEW p, NEW b \in Seq(Bit), NEW z \in 0..Len(b)
    PROVE  Narrows(ReadValue(c, p, b), ReadValue(c, p, Without(b, z)), z)
  <1> DEFINE d == Without(b, z)
  <1>0. Len(b) \in Nat
    BY LenProperties
  <1>1. CASE IsPart(c)
    <2>1. \A e : ReadValue(c, p, e) = ReadPart(c, e)
      BY <1>1, PartKind, ValueReadIs
    <2>2. Narrows(ReadPart(c, b), ReadPart(c, d), z)
      BY <1>1, PartNarrows
    <2>3. QED
      BY <2>1, <2>2
  <1>2. CASE IsSized(c)
    <2>1. \A e : ReadValue(c, p, e) = ReadNested(c.of, e, ReadVarint(c.type, e))
      BY <1>2, ValueReadIs DEF IsSized
    <2>2. IsUnsigned(c.type) /\ IsPart(c.of)
      BY <1>2 DEF IsSized, IsElement
    <2>3. Narrows(ReadNested(c.of, b, ReadVarint(c.type, b)),
                  ReadNested(c.of, d, ReadVarint(c.type, d)), z)
      BY <2>2, NestedNarrows
    <2>4. QED
      BY <2>1, <2>3
  <1>3. CASE IsMapCodec(c)
    <2> DEFINE r == ReadNested(c.pair, b, ReadVarint(c.type, b))
               q == ReadNested(c.pair, d, ReadVarint(c.type, d))
    <2>1. /\ ReadValue(c, p, b) = IF r = Failed THEN Failed ELSE <<MapOf(r[1]), r[2]>>
          /\ ReadValue(c, p, d) = IF q = Failed THEN Failed ELSE <<MapOf(q[1]), q[2]>>
      BY <1>3, ValueReadIs DEF IsMapCodec
    <2>2. IsUnsigned(c.type) /\ IsPart(c.pair)
      BY <1>3 DEF IsMapCodec, IsPart
    <2>3. Narrows(r, q, z)
      BY <2>2, NestedNarrows
    <2> HIDE DEF r, q
    <2> SUFFICES ASSUME r # Failed, z <= Len(r[2])
                 PROVE  ReadValue(c, p, d) = <<MapOf(r[1]), Without(r[2], z)>>
      BY <2>1 DEF Narrows
    <2>4. q = <<r[1], Without(r[2], z)>>
      BY <2>3 DEF Narrows
    <2>5. q # Failed /\ q[1] = r[1] /\ q[2] = Without(r[2], z)
      BY <2>4, NotFailed
    <2>6. QED
      BY <2>1, <2>5
  <1>4. CASE IsNullable(c)
    <2> DEFINE r == ReadFixed(BitBool, b)
               q == ReadFixed(BitBool, d)
               s == ReadPart(c.of, r[2])
    <2>1. /\ ReadValue(c, p, b) = IF r = Failed THEN Failed
                                  ELSE IF r[1] = 0 THEN <<None, r[2]>> ELSE s
          /\ ReadValue(c, p, d) = IF q = Failed THEN Failed
                                  ELSE IF q[1] = 0 THEN <<None, q[2]>> ELSE ReadPart(c.of, q[2])
      BY <1>4, ValueReadIs DEF IsNullable
    <2>2. IsPart(c.of)
      BY <1>4 DEF IsNullable, IsElement
    <2>3. Narrows(r, q, z)
      BY BitBoolIs, FixedNarrows
    <2> SUFFICES ASSUME r # Failed PROVE Narrows(ReadValue(c, p, b), ReadValue(c, p, d), z)
      BY <2>1 DEF Narrows
    <2>4. r[2] \in Seq(Bit)
      <3>1. Leaves(r, b)
        BY BitBoolIs, FixedTyped
      <3>2. QED
        BY <3>1 DEF Leaves
    <2> HIDE DEF r, q
    <2>5. ASSUME z <= Len(r[2])
          PROVE  q # Failed /\ q[1] = r[1] /\ q[2] = Without(r[2], z)
      <3>1. q = <<r[1], Without(r[2], z)>>
        BY <2>3, <2>5 DEF Narrows
      <3>2. QED
        BY <3>1, NotFailed
    <2>6. CASE r[1] = 0
      BY <2>1, <2>5, <2>6 DEF Narrows
    <2>7. CASE r[1] # 0
      <3> SUFFICES ASSUME s # Failed, z <= Len(s[2])
                   PROVE  ReadValue(c, p, d) = <<s[1], Without(s[2], z)>>
        BY <2>1, <2>7 DEF Narrows
      <3>1. Leaves(s, r[2])
        BY <2>2, <2>4, PartTyped
      <3>2. s[2] \in Seq(Bit) /\ Len(s[2]) <= Len(r[2])
        BY <3>1 DEF Leaves
      <3>3. z <= Len(r[2]) /\ z \in 0..Len(r[2])
        <4>1. Len(s[2]) \in Nat /\ Len(r[2]) \in Nat
          BY <2>4, <3>2, LenProperties
        <4>2. QED
          BY <1>0, <3>2, <4>1
      <3> DEFINE u == ReadPart(c.of, Without(r[2], z))
      <3>4. Narrows(s, u, z)
        BY <2>2, <2>4, <3>3, PartNarrows
      <3>5. ReadValue(c, p, d) = u
        BY <2>1, <2>5, <2>7, <3>3
      <3> HIDE DEF s, u
      <3>6. QED
        BY <3>4, <3>5 DEF Narrows
    <2>8. QED
      BY <2>6, <2>7
  <1>5. IsPart(c) \/ IsSized(c) \/ IsMapCodec(c) \/ IsNullable(c)
    BY DEF IsSimple, IsCodec, IsCounted, IsRest, IsOption
  <1>6. QED
    BY <1>1, <1>2, <1>3, <1>4, <1>5

----------------------------------------------------------------------------
(* A value that was read is written in no more bits *)

\* What is written of a value that was read, and what is left, is no more than there was.
NoLonger(w, r, b) == w \in Seq(Bit) /\ r[2] \in Seq(Bit) /\ Len(w) + Len(r[2]) <= Len(b)

(* A value of a fixed number of bits is written as so many. *)
LEMMA FixedNoLonger ==
    ASSUME NEW c, IsFixed(c), NEW b \in Seq(Bit), ReadFixed(c, b) # Failed
    PROVE  NoLonger(Bits(ReadFixed(c, b)[1], c.bits), ReadFixed(c, b), b)
  <1> DEFINE r == ReadFixed(c, b)
             n == c.bits
  <1>1. n \in Nat /\ Len(b) \in Nat
    BY LenProperties DEF IsFixed
  <1>2. ~(Len(b) < n) /\ r[2] = After(b, n) /\ r[1] \in c.values
    BY DEF ReadFixed
  <1>3. n \in 0..Len(b)
    BY <1>1, <1>2
  <1>4. r[1] \in 0..(TwoTo[n] - 1)
    BY <1>2 DEF IsFixed, Unsigned
  <1> HIDE DEF r, n
  <1>5. Bits(r[1], n) \in Seq(Bit) /\ Len(Bits(r[1], n)) = n
    BY <1>1, <1>4, ValueOfBits
  <1>6. After(b, n) \in Seq(Bit) /\ Len(After(b, n)) = Len(b) - n
    BY <1>3, AfterBits
  <1>7. NoLonger(Bits(r[1], n), r, b)
    BY <1>1, <1>2, <1>5, <1>6 DEF NoLonger
  <1>8. QED
    BY <1>7 DEF r, n

(* Less than a byte has no room for a Varint, and so for nothing with a length. *)
LEMMA PartNoLonger ==
    ASSUME NEW c, IsPart(c), NEW b \in Seq(Bit), Len(b) < 8, ReadPart(c, b) # Failed
    PROVE  NoLonger(WritePart(c, ReadPart(c, b)[1]), ReadPart(c, b), b)
  <1>0. Len(b) \in Nat
    BY LenProperties
  <1>1. ASSUME NEW t, ReadVarint(t, b) # Failed PROVE FALSE
    <2>1. \E z \in 0..Len(b) : TRUE
      BY <1>0
    <2>2. Len(ReadVarint(t, b)[2]) + 8 <= Len(b)
      BY <1>1, <2>1, VarintNarrows
    <2>3. Len(ReadVarint(t, b)[2]) \in Nat
      BY <1>1, VarintTyped, LenProperties DEF Leaves
    <2>4. QED
      BY <1>0, <2>2, <2>3
  <1>2. CASE IsFixed(c)
    <2>1. c.kind = "fixed" /\ ReadPart(c, b) = ReadFixed(c, b)
      BY <1>2, PartIs DEF IsFixed
    <2>2. \A v : WritePart(c, v) = Bits(v, c.bits)
      BY <2>1, PartBits
    <2>3. NoLonger(Bits(ReadFixed(c, b)[1], c.bits), ReadFixed(c, b), b)
      BY <1>2, <2>1, FixedNoLonger
    <2>4. QED
      BY <2>1, <2>2, <2>3
  <1>3. CASE IsFlags(c)
    <2> DEFINE r == ReadFlags(c, b)
               n == c.bits
    <2>1. c.kind = "flags" /\ ReadPart(c, b) = r /\ n \in Nat
      BY <1>3, PartIs DEF IsFlags
    <2>2. \A v : WritePart(c, v) = Bits(v, n)
      BY <2>1, PartBits
    <2>3. ~(Len(b) < n) /\ r[2] = After(b, n)
      BY <2>1 DEF ReadFlags
    <2>4. r[1] \in 0..(TwoTo[n] - 1)
      <3>1. HoldsPart(c, r[1])
        BY <1>3, <2>1, FlagsTyped
      <3>2. QED
        BY <2>1, <3>1 DEF HoldsPart, Unsigned
    <2>5. n \in 0..Len(b)
      BY <1>0, <2>1, <2>3
    <2> HIDE DEF r, n
    <2>6. Bits(r[1], n) \in Seq(Bit) /\ Len(Bits(r[1], n)) = n
      BY <2>1, <2>4, ValueOfBits
    <2>7. After(b, n) \in Seq(Bit) /\ Len(After(b, n)) = Len(b) - n
      BY <2>5, AfterBits
    <2>8. QED
      BY <1>0, <2>1, <2>2, <2>3, <2>6, <2>7 DEF NoLonger
  <1>4. CASE IsVarint(c)
    BY <1>1, <1>4, PartIs DEF IsVarint
  <1>5. CASE IsBytesCodec(c)
    BY <1>1, <1>5, ThenIs DEF IsBytesCodec
  <1>6. CASE IsTuple(c)
    <2> DEFINE r == ReadFixed(c.first, b)
               s == ReadFixed(c.second, r[2])
               x == Bits(r[1], c.first.bits)
               y == Bits(s[1], c.second.bits)
    <2>1. /\ c.kind = "tuple" /\ IsFixed(c.first) /\ IsFixed(c.second)
          /\ ReadPart(c, b) = IF r = Failed \/ s = Failed THEN Failed ELSE << <<r[1], s[1]>>, s[2]>>
      BY <1>6, ThenIs DEF IsTuple
    <2>2. r # Failed /\ s # Failed /\ ReadPart(c, b) = << <<r[1], s[1]>>, s[2]>>
      BY <2>1
    <2>3. NoLonger(x, r, b)
      BY <2>1, <2>2, FixedNoLonger
    <2>4. NoLonger(y, s, r[2])
      <3>1. r[2] \in Seq(Bit)
        BY <2>3 DEF NoLonger
      <3> HIDE DEF r
      <3>2. QED
        BY <2>1, <2>2, <3>1, FixedNoLonger
    <2>5. WritePart(c, <<r[1], s[1]>>) = x \o y
      <3> DEFINE v == <<r[1], s[1]>>
      <3>1. v[1] = r[1] /\ v[2] = s[1]
        OBVIOUS
      <3> HIDE DEF v, r, s
      <3>2. WritePart(c, v) = Bits(v[1], c.first.bits) \o Bits(v[2], c.second.bits)
        BY <2>1, PartBits
      <3>3. QED
        BY <3>1, <3>2 DEF v
    <2> HIDE DEF r, s, x, y
    <2>6. x \o y \in Seq(Bit) /\ Len(x \o y) = Len(x) + Len(y)
      BY <2>3, <2>4, ConcatProperties DEF NoLonger
    <2>7. /\ Len(x) \in Nat /\ Len(y) \in Nat /\ Len(r[2]) \in Nat /\ Len(s[2]) \in Nat
          /\ Len(x) + Len(r[2]) <= Len(b) /\ Len(y) + Len(s[2]) <= Len(r[2]) /\ s[2] \in Seq(Bit)
      <3>1. /\ x \in Seq(Bit) /\ r[2] \in Seq(Bit) /\ Len(x) + Len(r[2]) <= Len(b)
            /\ y \in Seq(Bit) /\ s[2] \in Seq(Bit) /\ Len(y) + Len(s[2]) <= Len(r[2])
        BY <2>3, <2>4 DEF NoLonger
      <3>2. QED
        BY <3>1, LenProperties
    <2>8. Len(x \o y) + Len(s[2]) <= Len(b)
      <3> DEFINE i == Len(x)
                 j == Len(y)
                 k == Len(r[2])
                 l == Len(s[2])
                 m == Len(b)
      <3>0. i \in Nat /\ j \in Nat /\ k \in Nat /\ l \in Nat /\ m \in Nat /\ i + k <= m /\ j + l <= k
        BY <1>0, <2>7
      <3> HIDE DEF i, j, k, l, m
      <3>1. i + j + l <= m
        BY <3>0
      <3>2. Len(x) + Len(y) + Len(s[2]) <= Len(b)
        BY <3>1 DEF i, j, l, m
      <3>3. QED
        BY <2>6, <3>2
    <2>9. ReadPart(c, b)[1] = <<r[1], s[1]>> /\ ReadPart(c, b)[2] = s[2]
      BY <2>2
    <2>10. QED
      BY <2>5, <2>6, <2>7, <2>8, <2>9 DEF NoLonger
  <1>7. QED
    BY <1>2, <1>3, <1>4, <1>5, <1>6 DEF IsPart

(* Nor for a Vec or a map. *)
LEMMA ValueNoLonger ==
    ASSUME NEW c, IsSimple(c) \/ IsRest(c), NEW p, NEW b \in Seq(Bit), Len(b) < 8,
           ReadValue(c, p, b) # Failed
    PROVE  NoLonger(WriteValue(c, ReadValue(c, p, b)[1]), ReadValue(c, p, b), b)
  <1>0. Len(b) \in Nat
    BY LenProperties
  <1>1. ASSUME NEW of, IsPart(of), NEW t, IsUnsigned(t), ReadNested(of, b, ReadVarint(t, b)) # Failed
        PROVE  FALSE
    <2>1. \E z \in 0..Len(b) : TRUE
      BY <1>0
    <2>2. Len(b) >= 8
      BY <1>1, <2>1, NestedNarrows
    <2>3. QED
      BY <1>0, <2>2
  <1>2. CASE IsPart(c)
    <2>1. ReadValue(c, p, b) = ReadPart(c, b) /\ \A v : WriteValue(c, v) = WritePart(c, v)
      BY <1>2, PartKind, ValueReadIs, ValueWriteIs
    <2>2. NoLonger(WritePart(c, ReadPart(c, b)[1]), ReadPart(c, b), b)
      BY <1>2, <2>1, PartNoLonger
    <2>3. QED
      BY <2>1, <2>2
  <1>3. CASE IsSized(c)
    <2>1. ReadValue(c, p, b) = ReadNested(c.of, b, ReadVarint(c.type, b))
      BY <1>3, ValueReadIs DEF IsSized
    <2>2. IsUnsigned(c.type) /\ IsPart(c.of)
      BY <1>3 DEF IsSized, IsElement
    <2>3. QED
      BY <1>1, <2>1, <2>2
  <1>4. CASE IsMapCodec(c)
    <2> DEFINE r == ReadNested(c.pair, b, ReadVarint(c.type, b))
    <2>1. ReadValue(c, p, b) = IF r = Failed THEN Failed ELSE <<MapOf(r[1]), r[2]>>
      BY <1>4, ValueReadIs DEF IsMapCodec
    <2>2. IsUnsigned(c.type) /\ IsPart(c.pair)
      BY <1>4 DEF IsMapCodec, IsPart
    <2>3. QED
      BY <1>1, <2>1, <2>2
  <1>5. CASE IsNullable(c)
    <2> DEFINE r == ReadFixed(BitBool, b)
               s == ReadPart(c.of, r[2])
               x == ReadValue(c, p, b)
    <2>1. /\ x = IF r = Failed THEN Failed ELSE IF r[1] = 0 THEN <<None, r[2]>> ELSE s
          /\ \A v : WriteValue(c, v) = IF v = None THEN <<0>> ELSE <<1>> \o WritePart(c.of, v)
      BY <1>5, ValueReadIs, ValueWriteIs DEF IsNullable
    <2>2. IsPart(c.of) /\ r # Failed
      BY <1>5, <2>1 DEF IsNullable, IsElement
    <2>3. r[2] \in Seq(Bit) /\ Len(r[2]) + 1 = Len(b)
      <3>1. ~(Len(b) < 1) /\ r[2] = After(b, 1)
        BY <2>2, BitBoolIs DEF ReadFixed
      <3>2. \E n \in 0..Len(b) : n = 1
        BY <1>0, <3>1
      <3>3. After(b, 1) \in Seq(Bit) /\ Len(After(b, 1)) = Len(b) - 1
        BY <3>2, AfterBits
      <3>4. QED
        BY <1>0, <3>1, <3>3
    <2>4. 0 \in Bit /\ 1 \in Bit
      BY DEF Bit
    <2>5. CASE r[1] = 0
      <3>1. x[1] = None /\ x[2] = r[2]
        BY <2>1, <2>2, <2>5
      <3>2. WriteValue(c, x[1]) = <<0>> /\ <<0>> \in Seq(Bit) /\ Len(<<0>>) = 1
        BY <2>1, <2>4, <3>1
      <3> HIDE DEF x, r
      <3>3. Len(WriteValue(c, x[1])) + Len(x[2]) <= Len(b)
        <4>1. Len(r[2]) \in Nat
          BY <2>3, LenProperties
        <4>2. QED
          BY <1>0, <2>3, <3>1, <3>2, <4>1
      <3>4. QED
        BY <2>3, <3>1, <3>2, <3>3 DEF NoLonger, x
    <2>6. CASE r[1] # 0
      <3>1. x = s /\ s # Failed
        BY <2>1, <2>2, <2>6
      <3> HIDE DEF r
      <3>2. Len(r[2]) < 8
        <4>1. Len(r[2]) \in Nat
          BY <2>3, LenProperties
        <4>2. QED
          BY <1>0, <2>3, <4>1
      <3> DEFINE w == WritePart(c.of, s[1])
      <3>3. NoLonger(w, s, r[2])
        BY <2>2, <2>3, <3>1, <3>2, PartNoLonger
      <3>4. s[1] # None
        <4>1. HoldsPart(c.of, s[1])
          BY <2>2, <2>3, <3>1, PartTyped
        <4>2. QED
          BY <2>2, <4>1, PartIsSome
      <3>5. WriteValue(c, x[1]) = <<1>> \o w
        BY <2>1, <3>1, <3>4
      <3>6. <<1>> \in Seq(Bit) /\ Len(<<1>>) = 1
        BY <2>4
      <3> HIDE DEF w, s, x
      <3>7. <<1>> \o w \in Seq(Bit) /\ Len(<<1>> \o w) = 1 + Len(w)
        BY <3>3, <3>6, ConcatProperties DEF NoLonger
      <3>8. /\ Len(w) \in Nat /\ Len(s[2]) \in Nat /\ Len(r[2]) \in Nat
            /\ Len(w) + Len(s[2]) <= Len(r[2]) /\ s[2] \in Seq(Bit)
        <4>1. w \in Seq(Bit) /\ s[2] \in Seq(Bit) /\ Len(w) + Len(s[2]) <= Len(r[2])
          BY <3>3 DEF NoLonger
        <4>2. QED
          BY <2>3, <4>1, LenProperties
      <3>9. 1 + Len(w) + Len(s[2]) <= Len(b)
        <4>1. \A i, j, k, m \in Nat : i + j <= k /\ k + 1 = m => 1 + i + j <= m
          OBVIOUS
        <4>2. QED
          BY <1>0, <2>3, <3>8, <4>1
      <3>10. NoLonger(WriteValue(c, x[1]), x, b)
        BY <3>1, <3>5, <3>7, <3>8, <3>9 DEF NoLonger
      <3>11. QED
        BY <3>10 DEF x
    <2>7. QED
      BY <2>5, <2>6
  <1>6. CASE IsRest(c)
    <2> DEFINE bytes == [i \in 1..0 |-> BitsValue(SubSeq(b, 8 * i - 7, 8 * i))]
               x == ReadValue(c, p, b)
    <2>1. x = ReadBytes(c.values, Len(b) \div 8, b) /\ Len(b) \div 8 = 0
      BY <1>0, <1>6, ValueReadIs DEF IsRest
    <2>2. x[1] = bytes /\ x[2] = After(b, 8 * 0)
      BY <2>1 DEF ReadBytes
    <2>3. bytes = << >>
      OBVIOUS
    <2>4. x[1] = << >> /\ x[2] = b
      BY <2>2, <2>3, AfterNothing
    <2>5. WriteValue(c, << >>) = ByteBits(<< >>)
      BY <1>6, ValueWriteIs DEF IsRest
    <2>6. ByteBits(<< >>) \in Seq(Bit) /\ Len(ByteBits(<< >>)) = 0
      <3>1. Octets(<< >>) /\ Len(<< >>) = 0
        BY DEF Octets, IsVector
      <3>2. QED
        BY <3>1, ByteBitsAre
    <2> HIDE DEF x
    <2>7. NoLonger(WriteValue(c, x[1]), x, b)
      BY <1>0, <2>4, <2>5, <2>6 DEF NoLonger
    <2>8. QED
      BY <2>7 DEF x
  <1>7. IsPart(c) \/ IsSized(c) \/ IsMapCodec(c) \/ IsNullable(c) \/ IsRest(c)
    BY DEF IsSimple, IsCodec, IsCounted, IsRest, IsOption
  <1>8. QED
    BY <1>2, <1>3, <1>4, <1>5, <1>6, <1>7

----------------------------------------------------------------------------
(* The fields of an event, one after another *)

(* A field without a condition is read, and written, as its value is. *)
LEMMA EventFieldIs ==
    ASSUME NEW L, IsUnconditional(L), NEW i \in 1..Len(L), NEW p
    PROVE  /\ WriteField(L[i], p) = WriteValue(L[i].codec, p[L[i].name])
           /\ \A b : ReadField(L[i], p, b) # Failed =>
                 LET r == ReadValue(L[i].codec, p, b)
                 IN  r # Failed /\ ReadField(L[i], p, b) = <<Put(p, L[i].name, r[1]), r[2]>>
  <1>1. L[i].cond = <<>>
    BY DEF IsUnconditional
  <1>2. IsThere(L[i], p)
    BY <1>1 DEF IsThere
  <1>3. WriteField(L[i], p) = WriteValue(L[i].codec, p[L[i].name])
    BY DEF WriteField
  <1>4. ASSUME NEW b, ReadField(L[i], p, b) # Failed
        PROVE  LET r == ReadValue(L[i].codec, p, b)
               IN  r # Failed /\ ReadField(L[i], p, b) = <<Put(p, L[i].name, r[1]), r[2]>>
    BY <1>2, <1>4, FieldReadIs
  <1>5. QED
    BY <1>3, <1>4

\* The fields behind the first so many.
Behind(L, k) == SubSeq(L, k + 1, Len(L))

(* They are the fields of the layout. *)
LEMMA BehindIs ==
    ASSUME NEW L, IsVector(L), NEW k \in 0..Len(L)
    PROVE  Len(Behind(L, k)) = Len(L) - k /\ \A i \in 1..(Len(L) - k) : Behind(L, k)[i] = L[k + i]
  <1> DEFINE S == {L[i] : i \in 1..Len(L)}
             n == Len(L)
  <1>1. n \in Nat
    BY DEF IsVector
  <1>2. \A i \in 1..n : L[i] \in S
    OBVIOUS
  <1>3. L = [i \in 1..n |-> L[i]]
    BY DEF IsVector
  <1> HIDE DEF S, n
  <1>4. L \in Seq(S)
    BY <1>1, <1>2, <1>3
  <1>5. After(L, k) = Behind(L, k)
    BY DEF After, Behind
  <1>6. QED
    BY <1>4, <1>5, AfterBits DEF n

(* The fields are written one behind the other. *)
LEMMA WritingGrows ==
    ASSUME NEW L, NEW p, Len(L) \in Nat
    PROVE  \A i \in 1..Len(L) :
             FieldsWriting(L, p, Len(L))[i] = FieldsWriting(L, p, Len(L))[i - 1] \o WriteField(L[i], p)
  <1> DEFINE n == Len(L)
             W == FieldsWriting(L, p, n)
  <1>1. n \in Nat
    OBVIOUS
  <1>2. /\ W[0] = <<>>
        /\ \A i \in 1..n : W[i] = W[i - 1] \o WriteField(L[i], p)
        /\ WriteFields(L, p) = W[n]
    BY <1>1, FieldsWritten
  <1>3. QED
    BY <1>2

(* When less than a byte is left, no more than that is read of all fields behind. *)
LEMMA BehindNoLonger ==
    ASSUME NEW L, IsUnconditional(L), NEW b \in Seq(Bit), ReadFields(L, b) # Failed,
           NEW k \in 0..Len(L), Len(FieldsReading(L, b, Len(L))[k][2]) < 8
    PROVE  Len(WriteFields(Behind(L, k), ReadFields(L, b)[1])) < 8
  <1> DEFINE n == Len(L)
             f == FieldsReading(L, b, n)
             q == ReadFields(L, b)[1]
             M == Behind(L, k)
             m == n - k
             g == FieldsWriting(M, q, m)
             Good(i) == i <= m => g[i] \in Seq(Bit) /\ Len(g[i]) + Len(f[k + i][2]) <= Len(f[k][2])
             S == {i \in Nat : Good(i)}
  <1>1. n \in Nat /\ IsVector(L) /\ IsLayout(L)
    BY LayoutDomain DEF IsUnconditional, IsLayout
  <1>2. Len(M) = m /\ \A i \in 1..m : M[i] = L[k + i]
    BY <1>1, BehindIs
  <1>3. m \in Nat /\ k \in Nat
    BY <1>1
  <1>4. /\ g[0] = <<>>
        /\ \A i \in 1..m : g[i] = g[i - 1] \o WriteField(M[i], q)
        /\ WriteFields(M, q) = g[m]
    <2> HIDE DEF M, m, q
    <2>1. Len(M) = m /\ m \in Nat
      BY <1>2, <1>3
    <2>2. g[0] = <<>>
      BY <2>1, FieldsWritten
    <2>3. \A i \in 1..m : g[i] = g[i - 1] \o WriteField(M[i], q)
      <3>1. Len(M) \in Nat
        BY <2>1
      <3>2. \A i \in 1..Len(M) : FieldsWriting(M, q, Len(M))[i] = FieldsWriting(M, q, Len(M))[i - 1] \o WriteField(M[i], q)
        BY <3>1, WritingGrows
      <3>3. QED
        BY <2>1, <3>2
    <2>4. WriteFields(M, q) = g[m]
      BY <2>1, FieldsWritten
    <2>5. QED
      BY <2>2, <2>3, <2>4
  <1>5. \A i \in 1..n : f[i] = NextField(L[i], f[i - 1])
    BY <1>1, FieldsReadSteps
  <1>6. \A i \in 0..n : /\ f[i] # Failed /\ f[i][2] \in Seq(Bit)
                        /\ DOMAIN f[i][1] = NamesTo(L, i)
                        /\ \A j \in 1..i : f[i][1][L[j].name] = q[L[j].name]
    BY <1>1, ReadStays DEF ReadTo
  <1>7. Len(f[k][2]) < 8 /\ Len(f[k][2]) \in Nat
    BY <1>6, LenProperties
  <1> HIDE DEF f, g, q
  <1>8. 0 \in S
    <2>1. g[0] \in Seq(Bit) /\ Len(g[0]) = 0
      BY <1>4
    <2>2. Good(0)
      BY <1>3, <1>7, <2>1
    <2>3. QED
      BY <2>2
  <1>9. ASSUME NEW i \in Nat, i \in S PROVE i + 1 \in S
    <2>1. ASSUME i + 1 <= m
          PROVE  g[i + 1] \in Seq(Bit) /\ Len(g[i + 1]) + Len(f[k + (i + 1)][2]) <= Len(f[k][2])
      <3> DEFINE j == k + (i + 1)
                 r == f[k + i]
                 e == L[j]
                 v == ReadValue(e.codec, r[1], r[2])
                 w == WriteValue(e.codec, v[1])
      <3>1. /\ j \in 1..n /\ j \in 0..n /\ j - 1 = k + i /\ k + i \in 0..n
            /\ i + 1 \in 1..m /\ (i + 1) - 1 = i /\ i <= m
        BY <1>1, <1>3, <2>1
      <3>2. g[i] \in Seq(Bit) /\ Len(g[i]) + Len(r[2]) <= Len(f[k][2])
        BY <1>9, <3>1
      <3>3. r[2] \in Seq(Bit) /\ r # Failed /\ f[j] # Failed
        BY <1>6, <3>1
      <3>4. f[j] = ReadField(e, r[1], r[2])
        <4>1. f[j] = NextField(L[j], f[j - 1])
          BY <1>5, <3>1
        <4>2. QED
          BY <3>1, <3>3, <4>1 DEF NextField
      <3>5. g[i + 1] = g[i] \o WriteField(e, q)
        <4>1. g[i + 1] = g[i] \o WriteField(M[i + 1], q)
          BY <1>4, <3>1
        <4>2. M[i + 1] = e
          BY <1>2, <3>1
        <4>3. QED
          BY <4>1, <4>2
      <3>6. IsSimple(e.codec) \/ IsRest(e.codec)
        BY <3>1 DEF IsUnconditional
      <3>7. v # Failed /\ f[j] = <<Put(r[1], e.name, v[1]), v[2]>>
        <4>1. ASSUME NEW x, NEW c, ReadField(e, x, c) # Failed
              PROVE  /\ ReadValue(e.codec, x, c) # Failed
                     /\ ReadField(e, x, c) = <<Put(x, e.name, ReadValue(e.codec, x, c)[1]), ReadValue(e.codec, x, c)[2]>>
          <5> HIDE DEF j
          <5>1. QED
            BY <3>1, <4>1, EventFieldIs
        <4> HIDE DEF r, e
        <4>2. ReadField(e, r[1], r[2]) # Failed
          BY <3>3, <3>4
        <4>3. QED
          BY <3>4, <4>1, <4>2
      <3>8. q[e.name] = v[1] /\ f[j][2] = v[2]
        <4>1. f[j][1][e.name] = q[e.name]
          BY <1>6, <3>1
        <4> HIDE DEF v, r, j
        <4>2. f[j][1] = Put(r[1], e.name, v[1]) /\ f[j][2] = v[2]
          BY <3>7
        <4>3. Put(r[1], e.name, v[1])[e.name] = v[1]
          BY DEF Put
        <4>4. QED
          BY <4>1, <4>2, <4>3
      <3>9. WriteField(e, q) = w
        <4> HIDE DEF v, j
        <4>1. WriteField(e, q) = WriteValue(e.codec, q[e.name])
          BY <3>1, EventFieldIs
        <4>2. QED
          BY <3>8, <4>1
      <3>10. Len(g[i]) \in Nat /\ Len(r[2]) \in Nat /\ Len(r[2]) < 8
        <4>1. Len(g[i]) \in Nat /\ Len(r[2]) \in Nat
          BY <3>2, <3>3, LenProperties
        <4> DEFINE x == Len(g[i])
                   s == Len(r[2])
                   t == Len(f[k][2])
        <4>2. x \in Nat /\ s \in Nat /\ t \in Nat /\ x + s <= t /\ t < 8
          BY <1>7, <3>2, <4>1
        <4> HIDE DEF x, s, t
        <4>3. s < 8
          BY <4>2
        <4>4. QED
          BY <4>1, <4>3 DEF s
      <3>11. NoLonger(w, v, r[2])
        <4> HIDE DEF r, e
        <4>1. QED
          BY <3>3, <3>6, <3>7, <3>10, ValueNoLonger
      <3> HIDE DEF r, e, v, w, j
      <3>12. w \in Seq(Bit) /\ v[2] \in Seq(Bit) /\ Len(w) + Len(v[2]) <= Len(r[2])
        BY <3>11 DEF NoLonger
      <3>13. Len(w) \in Nat /\ Len(v[2]) \in Nat
        BY <3>12, LenProperties
      <3>14. g[i] \o w \in Seq(Bit) /\ Len(g[i] \o w) = Len(g[i]) + Len(w)
        BY <3>2, <3>12, ConcatProperties
      <3>15. g[i + 1] \in Seq(Bit) /\ Len(g[i + 1]) = Len(g[i]) + Len(w)
        BY <3>5, <3>9, <3>14
      <3>16. (Len(g[i]) + Len(w)) + Len(v[2]) <= Len(f[k][2])
        <4> DEFINE x == Len(g[i])
                   y == Len(w)
                   z == Len(v[2])
                   s == Len(r[2])
                   t == Len(f[k][2])
        <4>1. x \in Nat /\ y \in Nat /\ z \in Nat /\ s \in Nat /\ t \in Nat /\ y + z <= s /\ x + s <= t
          BY <1>7, <3>2, <3>10, <3>12, <3>13
        <4> HIDE DEF x, y, z, s, t
        <4>2. (x + y) + z <= t
          BY <4>1
        <4>3. QED
          BY <4>2 DEF x, y, z, t
      <3>17. QED
        BY <3>8, <3>15, <3>16 DEF j
    <2> HIDE DEF f, g, q, m
    <2>2. i + 1 <= m => g[i + 1] \in Seq(Bit) /\ Len(g[i + 1]) + Len(f[k + (i + 1)][2]) <= Len(f[k][2])
      BY <2>1
    <2>3. Good(i + 1)
      BY <2>2
    <2>4. i + 1 \in Nat
      BY <1>9
    <2> HIDE DEF Good
    <2>5. QED
      BY <2>3, <2>4
  <1>10. Good(m)
    <2>1. m \in S
      <3> HIDE DEF S, m
      <3>1. QED
        BY <1>3, <1>8, <1>9, Induction
    <2> HIDE DEF Good, m
    <2>2. QED
      BY <2>1
  <1>11. g[m] \in Seq(Bit) /\ Len(g[m]) + Len(f[k + m][2]) <= Len(f[k][2]) /\ k + m = n /\ n \in 0..n
    <2>1. m <= m /\ k + m = n /\ n \in 0..n
      BY <1>1, <1>3
    <2>2. g[m] \in Seq(Bit) /\ Len(g[m]) + Len(f[k + m][2]) <= Len(f[k][2])
      BY <1>10, <2>1
    <2>3. QED
      BY <2>1, <2>2
  <1>12. Len(g[m]) \in Nat /\ Len(f[n][2]) \in Nat
    BY <1>6, <1>11, LenProperties
  <1>13. Len(g[m]) < 8
    <2> DEFINE x == Len(g[m])
               s == Len(f[n][2])
               t == Len(f[k][2])
    <2>1. x \in Nat /\ s \in Nat /\ t \in Nat /\ x + s <= t /\ t < 8
      <3> HIDE DEF m, n
      <3>1. QED
        BY <1>7, <1>11, <1>12 DEF n
    <2> HIDE DEF x, s, t
    <2>2. x < 8
      BY <2>1
    <2>3. QED
      BY <2>2 DEF x
  <1> HIDE DEF m, n
  <1>14. QED
    BY <1>4, <1>13 DEF q, M

(* Nothing is behind the last field. *)
LEMMA BehindLast ==
    ASSUME NEW L, IsVector(L), NEW q
    PROVE  Len(WriteFields(Behind(L, Len(L)), q)) < 8
  <1>1. Len(L) \in 0..Len(L) /\ Len(L) - Len(L) = 0
    BY DEF IsVector
  <1>2. Len(Behind(L, Len(L))) = 0
    BY <1>1, BehindIs
  <1>3. WriteFields(Behind(L, Len(L)), q) = <<>>
    <2> DEFINE M == Behind(L, Len(L))
    <2>1. \E n \in Nat : Len(M) = n /\ n = 0
      BY <1>2
    <2> HIDE DEF M
    <2>2. PICK n \in Nat : Len(M) = n /\ n = 0
      BY <2>1
    <2>3. FieldsWriting(M, q, n)[0] = <<>> /\ WriteFields(M, q) = FieldsWriting(M, q, n)[n]
      BY <2>2, FieldsWritten
    <2>4. WriteFields(M, q) = <<>>
      BY <2>2, <2>3
    <2>5. QED
      BY <2>4 DEF M
  <1>4. QED
    BY <1>3

\* The start of a packet is kept: the fields before one of them are as they were,
\* and those behind it take less than a byte.
KeptBut(L, p, q, k) == SameTo(L, p, q, k - 1) /\ Len(WriteFields(Behind(L, k), q)) < 8

StartKept(L, p, q) == \E k \in 0..Len(L) : KeptBut(L, p, q, k)

(* What is behind a field that there are bits for is read as it was written. *)
LEMMA FieldsHeld ==
    ASSUME NEW L, IsUnconditional(L), NEW p, FieldsInStep(L, p), NEW m \in 0..Len(L),
           \A i \in 1..m : L[i].codec.kind # "rest", NEW b \in Seq(Bit), NEW z \in 0..Len(b),
           Fits(Without(b, z), FieldsWriting(L, p, Len(L))[m]),
           FieldsWriting(L, p, Len(L))[m] \in Seq(Bit),
           Len(FieldsWriting(L, p, Len(L))[m]) <= Len(Without(b, z)),
           ReadFields(L, b) # Failed
    PROVE  /\ FieldsReading(L, b, Len(L))[m]
                = <<Only(L, p, m), After(b, Len(FieldsWriting(L, p, Len(L))[m]))>>
           /\ SameTo(L, p, ReadFields(L, b)[1], m)
  <1> DEFINE w == FieldsWriting(L, p, Len(L))[m]
             r == FieldsReading(L, b, Len(L))[m]
             s == Without(b, z)
  <1>1. /\ s \in Seq(Bit) /\ Len(s) = Len(b) - z
        /\ \A i \in 1..(Len(b) - z) : s[i] = b[i]
    BY WithoutBits
  <1>2. Len(b) \in Nat /\ Len(w) \in Nat /\ Len(w) <= Len(b) - z
    BY <1>1, LenProperties
  <1>3. Fits(b, w)
    <2> HIDE DEF w, s
    <2>1. \A i \in 1..Len(w) : i \in 1..(Len(b) - z) /\ i <= Len(s)
      BY <1>1, <1>2
    <2>2. \A i \in 1..Len(w) : i <= Len(s) => s[i] = w[i]
      BY DEF Fits, w, s
    <2>3. \A i \in 1..Len(w) : b[i] = w[i]
      BY <1>1, <2>1, <2>2
    <2>4. QED
      BY <2>3 DEF Fits
  <1>4. IsLayout(L) /\ FieldsReadAsWritten(L, m)
    BY LayoutDomain DEF IsUnconditional, FieldsReadAsWritten, ReadsAsWritten
  <1>5. Gives(r, Only(L, p, m), b, w, ReadableFields(L, p))
    BY <1>3, <1>4, FieldsRead
  <1>6. ReadTo(L, b, m)
    BY <1>4, ReadStays
  <1>7. r # Failed /\ \A j \in 1..m : r[1][L[j].name] = ReadFields(L, b)[1][L[j].name]
    BY <1>6 DEF ReadTo
  <1>8. r = <<Only(L, p, m), After(b, Len(w))>>
    <2> HIDE DEF r, w
    <2>1. QED
      BY <1>5, <1>7 DEF Gives
  <1>9. \A i \in 1..m : Only(L, p, m)[L[i].name] = p[L[i].name]
    BY DEF Only, NamesTo
  <1>10. r[1] = Only(L, p, m)
    <2> HIDE DEF r
    <2>1. QED
      BY <1>8
  <1>11. QED
    <2> HIDE DEF r, w
    <2>1. \A i \in 1..m : ReadFields(L, b)[1][L[i].name] = p[L[i].name]
      BY <1>7, <1>9, <1>10
    <2>2. QED
      BY <1>8, <2>1 DEF r, w, SameTo

----------------------------------------------------------------------------
(* The payload of an event that was cut *)

(* If the end of a field is missing and it is read nevertheless, it takes bits of *)
(* those that were put behind: fewer are left.                                    *)
LEMMA FieldTakesMore ==
    ASSUME NEW L, IsUnconditional(L), NEW p, FieldsInStep(L, p), NEW m \in Nat, m + 1 <= Len(L),
           \A i \in 1..(m + 1) : L[i].codec.kind # "rest", NEW b \in Seq(Bit), NEW z \in 0..Len(b),
           Fits(Without(b, z), WriteFields(L, p)),
           Len(FieldsWriting(L, p, Len(L))[m]) <= Len(Without(b, z)),
           ~ (Len(FieldsWriting(L, p, Len(L))[m + 1]) <= Len(Without(b, z))),
           ReadFields(L, b) # Failed
    PROVE  Len(FieldsReading(L, b, Len(L))[m + 1][2]) < z
  <1> DEFINE n == Len(L)
             u == FieldsWriting(L, p, n)[m]
             e == L[m + 1]
             w == WriteField(e, p)
             s == Without(b, z)
             l == Len(u)
             a == After(b, l)
             t == FieldsReading(L, b, n)[m + 1]
             x == Only(L, p, m)
             r == ReadValue(e.codec, x, a)
  <1>1. /\ s \in Seq(Bit) /\ Len(s) = Len(b) - z
        /\ \A i \in 1..(Len(b) - z) : s[i] = b[i]
    BY WithoutBits
  <1>2. IsLayout(L) /\ n \in Nat /\ m \in 0..n /\ m + 1 \in 0..n /\ m + 1 \in 1..n /\ (m + 1) - 1 = m
    BY LayoutDomain DEF IsUnconditional
  <1>3. FieldsWriting(L, p, n)[m + 1] = u \o w
    <2>1. \A i \in 1..Len(L) :
             FieldsWriting(L, p, Len(L))[i] = FieldsWriting(L, p, Len(L))[i - 1] \o WriteField(L[i], p)
      BY <1>2, WritingGrows
    <2>2. QED
      BY <1>2, <2>1
  <1>4. u \in Seq(Bit) /\ w \in Seq(Bit)
    <2>1. \A i \in 1..Len(L) : HoldsField(L[i], p[L[i].name])
      BY <1>2, InStepHolds
    <2>2. \A i \in 0..n : FieldsWriting(L, p, n)[i] \in Seq(Bit)
      BY <1>2, <2>1, FieldsBits
    <2>3. \A i \in 1..n : WriteField(L[i], p) \in Seq(Bit)
      BY <1>2, <2>1, FieldsBits
    <2>4. QED
      BY <1>2, <2>2, <2>3
  <1>5. Fits(s, u) /\ Fits(s, u \o w)
    <2>1. \A i \in 0..n : Fits(s, FieldsWriting(L, p, n)[i])
      BY <1>1, <1>2, FirstFieldsFit
    <2>2. QED
      BY <1>2, <1>3, <2>1
  <1>6. l <= Len(s) /\ l \in Nat /\ Len(w) \in Nat /\ Len(b) \in Nat
    BY <1>4, LenProperties
  <1>7. Len(u \o w) = l + Len(w) /\ Fits(After(s, l), w)
    <2> HIDE DEF u, w, s
    <2>1. Len(u \o w) = l + Len(w)
      BY <1>4, ConcatProperties
    <2>2. l <= Len(s) => Fits(After(s, l), w)
      BY <1>1, <1>4, <1>5, FitsParts
    <2>3. QED
      BY <1>6, <2>1, <2>2
  <1>8. ~ (l + Len(w) <= Len(s))
    BY <1>3, <1>7
  <1>9. FieldsReading(L, b, n)[m] = <<x, a>>
    <2>1. Fits(Without(b, z), FieldsWriting(L, p, Len(L))[m])
      BY <1>5
    <2>2. FieldsWriting(L, p, Len(L))[m] \in Seq(Bit)
      BY <1>4
    <2>3. m \in 0..Len(L) /\ \A i \in 1..m : L[i].codec.kind # "rest"
      <3>1. \A i \in 1..m : i \in 1..(m + 1)
        OBVIOUS
      <3>2. QED
        BY <1>2, <3>1
    <2>4. FieldsReading(L, b, Len(L))[m]
            = <<Only(L, p, m), After(b, Len(FieldsWriting(L, p, Len(L))[m]))>>
      BY <2>1, <2>2, <2>3, FieldsHeld
    <2>5. QED
      BY <2>4
  <1>10. t # Failed /\ t = ReadField(e, x, a)
    <2>1. ReadTo(L, b, m + 1)
      BY <1>2, ReadStays
    <2>2. t # Failed
      BY <2>1 DEF ReadTo
    <2>3. t = NextField(L[m + 1], FieldsReading(L, b, n)[m])
      BY <1>2, FieldsReadSteps
    <2> HIDE DEF t, x, a, e
    <2>4. t = NextField(e, <<x, a>>)
      BY <1>9, <2>3 DEF e
    <2>5. QED
      BY <2>2, <2>4, NotFailed DEF NextField
  <1>11. r # Failed /\ t = <<Put(x, e.name, r[1]), r[2]>>
    <2>1. ASSUME NEW y, NEW c, ReadField(e, y, c) # Failed
          PROVE  /\ ReadValue(e.codec, y, c) # Failed
                 /\ ReadField(e, y, c) = <<Put(y, e.name, ReadValue(e.codec, y, c)[1]), ReadValue(e.codec, y, c)[2]>>
      BY <1>2, <2>1, EventFieldIs
    <2> HIDE DEF t, x, a, e
    <2>2. ReadField(e, x, a) # Failed
      BY <1>10
    <2>3. QED
      BY <1>10, <2>1, <2>2
  <1>12. IsSimple(e.codec) /\ e.codec.kind # "rest" /\ e.cond = <<>>
    <2>1. m + 1 \in 1..(m + 1)
      BY <1>2
    <2>2. e.codec.kind # "rest"
      BY <2>1
    <2>3. QED
      BY <1>2, <2>2 DEF IsUnconditional, IsRest
  <1>13. l \in 0..Len(b) /\ z \in 0..(Len(b) - l) /\ z \in Nat
    <2> HIDE DEF l, s
    <2>1. QED
      BY SMTT(60), <1>1, <1>6
  <1>14. /\ z \in 0..Len(b) /\ After(s, l) = Without(a, z)
         /\ a \in Seq(Bit) /\ Len(a) = Len(b) - l /\ After(s, l) \in Seq(Bit) /\ Len(After(s, l)) = Len(s) - l
    <2> HIDE DEF l, s
    <2>1. After(Without(b, z), l) = Without(After(b, l), z)
      BY <1>13, WithoutAfter
    <2>2. a \in Seq(Bit) /\ Len(a) = Len(b) - l
      BY <1>13, AfterBits
    <2>3. l \in 0..Len(s)
      BY <1>6
    <2>4. After(s, l) \in Seq(Bit) /\ Len(After(s, l)) = Len(s) - l
      BY <1>1, <2>3, AfterBits
    <2>5. QED
      BY <2>1, <2>2, <2>4 DEF s
  <1>15. z \in 0..Len(a)
    <2> HIDE DEF a, l
    <2>1. QED
      BY <1>13, <1>14
  <1>16. Narrows(r, ReadValue(e.codec, x, Without(a, z)), z)
    <2> HIDE DEF a, x, e
    <2>1. QED
      BY <1>12, <1>14, <1>15, ValueNarrows
  <1>17. Len(r[2]) \in Nat
    <2>1. ReadTo(L, b, m + 1)
      BY <1>2, ReadStays
    <2>2. t[2] \in Seq(Bit)
      BY <2>1 DEF ReadTo
    <2> HIDE DEF r, t, e, x
    <2>3. t[2] = r[2]
      BY <1>11
    <2>4. QED
      BY <2>2, <2>3, LenProperties
  <1>18. ~ (z <= Len(r[2]))
    <2> DEFINE c == After(s, l)
               q == ReadField(e, x, c)
    <2> SUFFICES ASSUME z <= Len(r[2]) PROVE FALSE
      OBVIOUS
    <2>1. ReadValue(e.codec, x, c) # Failed
      <3> HIDE DEF r, c, e, x, a
      <3>1. ReadValue(e.codec, x, c) = <<r[1], Without(r[2], z)>>
        BY <1>11, <1>14, <1>16 DEF Narrows, c
      <3>2. QED
        BY <3>1, NotFailed
    <2>2. q # Failed
      <3>1. IsThere(e, x)
        BY <1>12 DEF IsThere
      <3> HIDE DEF e, x, c
      <3>2. q = IF ReadValue(e.codec, x, c) = Failed THEN Failed
                ELSE <<Put(x, e.name, ReadValue(e.codec, x, c)[1]), ReadValue(e.codec, x, c)[2]>>
        BY <3>1, FieldReadIs
      <3>3. QED
        BY <2>1, <3>2, NotFailed
    <2>3. Gives(ReadField(L[m + 1], Only(L, p, m), c), Only(L, p, m + 1), c,
                WriteField(L[m + 1], p), Sure(L[m + 1].codec, p[L[m + 1].name]))
      <3> HIDE DEF c, s
      <3>1. c \in Seq(Bit) /\ Fits(c, WriteField(L[m + 1], p))
        BY <1>7, <1>14 DEF c
      <3>2. L[m + 1].codec.kind # "rest" /\ ReadsAsWritten(L[m + 1])
        BY <1>12 DEF ReadsAsWritten
      <3>3. QED
        BY <1>2, <3>1, <3>2, FieldRead
    <2>4. Len(w) <= Len(c)
      <3> HIDE DEF c
      <3>1. QED
        BY <2>2, <2>3 DEF Gives
    <2> HIDE DEF w, s, l
    <2>5. Len(w) <= Len(s) - l
      BY <1>14, <2>4
    <2>6. l + Len(w) <= Len(s)
      <3>1. Len(s) \in Nat
        BY <1>1, LenProperties
      <3>2. QED
        BY <1>6, <2>5, <3>1
    <2>7. QED
      BY <1>8, <2>6
  <1>19. t[2] = r[2]
    <2> HIDE DEF r, t, e, x
    <2>1. QED
      BY <1>11
  <1>20. Len(t[2]) < z
    <2> HIDE DEF r, t
    <2>1. QED
      BY <1>13, <1>17, <1>18, <1>19
  <1>21. QED
    BY <1>20

(* A payload whose end was cut, and filled with less than a byte, keeps its start. *)
LEMMA PayloadKept ==
    ASSUME NEW L, IsUnconditional(L), NEW p, FieldsInStep(L, p), NEW b \in Seq(Bit), NEW z \in 0..Len(b),
           z < 8, Fits(Without(b, z), WriteFields(L, p)), ReadFields(L, b) # Failed
    PROVE  StartKept(L, p, ReadFields(L, b)[1])
  <1> DEFINE n == Len(L)
             q == ReadFields(L, b)[1]
             W == FieldsWriting(L, p, n)
             s == Without(b, z)
             A == {m \in 1..n : L[m].codec.kind # "rest" /\ ~ (Len(W[m]) <= Len(s))}
             Plain(m) == \A i \in 1..m : L[i].codec.kind # "rest"
  <1>1. IsLayout(L) /\ IsVector(L) /\ n \in Nat
    BY LayoutDomain DEF IsUnconditional, IsLayout
  <1>2. \A i \in 1..n : L[i].codec.kind = "rest" => i = n
    BY <1>1 DEF IsLayout, IsFieldAt
  <1>3. s \in Seq(Bit) /\ Len(s) \in Nat
    <2>1. s \in Seq(Bit)
      BY WithoutBits
    <2>2. QED
      BY <2>1, LenProperties
  <1>4. \A i \in 0..n : W[i] \in Seq(Bit)
    <2>1. \A i \in 1..Len(L) : HoldsField(L[i], p[L[i].name])
      BY <1>1, InStepHolds
    <2>2. QED
      BY <1>1, <2>1, FieldsBits
  <1>5. \A i \in 0..n : Fits(s, W[i])
    BY <1>1, <1>3, FirstFieldsFit
  <1>6. W[0] = <<>>
    BY <1>1, FieldsWritten
  <1>7. ASSUME NEW m \in 0..n, Plain(m), Len(W[m]) <= Len(s)
        PROVE  SameTo(L, p, q, m)
    <2>1. Fits(Without(b, z), FieldsWriting(L, p, Len(L))[m])
      BY <1>5
    <2>2. FieldsWriting(L, p, Len(L))[m] \in Seq(Bit)
      BY <1>4
    <2>3. Len(FieldsWriting(L, p, Len(L))[m]) <= Len(Without(b, z))
      BY <1>7
    <2>4. m \in 0..Len(L) /\ \A i \in 1..m : L[i].codec.kind # "rest"
      BY <1>7
    <2>5. SameTo(L, p, ReadFields(L, b)[1], m)
      BY <2>1, <2>2, <2>3, <2>4, FieldsHeld
    <2>6. QED
      BY <2>5
  <1>8. CASE A = {}
    <2> DEFINE m == IF Plain(n) THEN n ELSE n - 1
    <2>1. /\ m \in 0..n /\ Plain(m) /\ \A i \in 1..(n - 1) : i \in 1..m
      <3>1. CASE Plain(n)
        BY <1>1, <3>1
      <3>2. CASE ~ Plain(n)
        <4>1. PICK i \in 1..n : L[i].codec.kind = "rest"
          BY <3>2
        <4>2. n \in 1..n /\ n - 1 \in 0..n
          BY <1>1, <1>2, <4>1
        <4>3. \A j \in 1..(n - 1) : j \in 1..n /\ j # n
          BY <1>1, <4>2
        <4>4. Plain(n - 1)
          BY <1>2, <4>3
        <4>5. QED
          BY <3>2, <4>2, <4>4
      <3>3. QED
        BY <3>1, <3>2
    <2> HIDE DEF m
    <2>2. Len(W[m]) <= Len(s)
      <3>1. CASE m = 0
        BY <1>3, <1>6, <3>1
      <3>2. CASE m # 0
        <4>1. m \in 1..n /\ m \in 1..m
          BY <1>1, <2>1, <3>2
        <4>2. L[m].codec.kind # "rest" /\ m \notin A
          BY <1>8, <2>1, <4>1
        <4>3. QED
          BY <4>1, <4>2
      <3>3. QED
        BY <3>1, <3>2
    <2>3. SameTo(L, p, q, m)
      BY <1>7, <2>1, <2>2
    <2>4. Len(WriteFields(Behind(L, n), q)) < 8
      BY <1>1, BehindLast
    <2>5. n \in 0..Len(L) /\ SameTo(L, p, q, n - 1)
      BY <1>1, <2>1, <2>3 DEF SameTo
    <2> HIDE DEF q, n
    <2>6. StartKept(L, p, q)
      BY <2>4, <2>5 DEF StartKept, KeptBut
    <2>7. QED
      BY <2>6 DEF q
  <1>9. CASE A # {}
    <2>1. A \in SUBSET Nat
      OBVIOUS
    <2>2. PICK m \in A : \A i \in A : m <= i
      <3> HIDE DEF A
      <3>1. QED
        BY <1>9, <2>1, Least
    <2> DEFINE k == m - 1
    <2>3. /\ m \in 1..n /\ L[m].codec.kind # "rest" /\ ~ (Len(W[m]) <= Len(s))
          /\ k \in Nat /\ k + 1 = m /\ k + 1 <= n /\ k \in 0..n /\ m \in 0..n
      BY <1>1
    <2>4. Plain(m)
      <3>1. \A i \in 1..m : i \in 1..n /\ (i = n => i = m)
        BY <1>1, <2>3
      <3>2. QED
        BY <1>2, <2>3, <3>1
    <2>5. Plain(k)
      <3>1. \A i \in 1..k : i \in 1..m
        BY <2>3
      <3>2. QED
        BY <2>4, <3>1
    <2>6. Len(W[k]) <= Len(s)
      <3>1. CASE k = 0
        BY <1>3, <1>6, <3>1
      <3>2. CASE k # 0
        <4>1. k \in 1..n /\ k \in 1..k /\ ~ (m <= k)
          BY <1>1, <2>3, <3>2
        <4>2. L[k].codec.kind # "rest" /\ k \notin A
          BY <2>2, <2>5, <4>1
        <4>3. QED
          BY <4>1, <4>2
      <3>3. QED
        BY <3>1, <3>2
    <2>7. SameTo(L, p, q, k)
      BY <1>7, <2>3, <2>5, <2>6
    <2>8. Len(FieldsReading(L, b, n)[m][2]) < z
      <3> HIDE DEF k, n
      <3>1. \A i \in 1..(k + 1) : L[i].codec.kind # "rest"
        BY <2>3, <2>4
      <3>2. k + 1 <= Len(L)
        BY <2>3 DEF n
      <3>3. Len(FieldsWriting(L, p, Len(L))[k]) <= Len(Without(b, z))
        BY <2>6 DEF n
      <3>4. ~ (Len(FieldsWriting(L, p, Len(L))[k + 1]) <= Len(Without(b, z)))
        BY <2>3 DEF n
      <3>5. Len(FieldsReading(L, b, Len(L))[k + 1][2]) < z
        BY <2>3, <3>1, <3>2, <3>3, <3>4, FieldTakesMore
      <3>6. QED
        BY <2>3, <3>5 DEF n
    <2>9. Len(FieldsReading(L, b, n)[m][2]) < 8
      <3>1. ReadTo(L, b, m)
        BY <1>1, <2>3, ReadStays
      <3>2. FieldsReading(L, b, n)[m][2] \in Seq(Bit)
        BY <3>1 DEF ReadTo
      <3> DEFINE x == Len(FieldsReading(L, b, n)[m][2])
      <3>3. x \in Nat
        BY <3>2, LenProperties
      <3>4. z \in Nat /\ x < z
        <4>1. Len(b) \in Nat
          BY LenProperties
        <4> HIDE DEF x
        <4>2. z \in Nat
          BY <4>1
        <4>3. QED
          BY <2>8, <4>2 DEF x
      <3> HIDE DEF x
      <3>5. x < 8
        BY <3>3, <3>4
      <3>6. QED
        BY <3>5 DEF x
    <2>10. Len(WriteFields(Behind(L, m), ReadFields(L, b)[1])) < 8
      <3>1. m \in 0..Len(L) /\ Len(FieldsReading(L, b, Len(L))[m][2]) < 8
        BY <2>3, <2>9
      <3>2. QED
        BY <3>1, BehindNoLonger
    <2>11. m \in 0..Len(L) /\ SameTo(L, p, q, m - 1)
      BY <2>3, <2>7
    <2>12. Len(WriteFields(Behind(L, m), q)) < 8
      BY <2>10
    <2> HIDE DEF q, n
    <2>13. StartKept(L, p, q)
      BY <2>11, <2>12 DEF StartKept, KeptBut
    <2>14. QED
      BY <2>13 DEF q
  <1>10. QED
    BY <1>8, <1>9

----------------------------------------------------------------------------
(* An event behind its header *)

(* Fields that are written the same make a packet that is. *)
LEMMA WrittenAlike ==
    ASSUME NEW L, NEW M, Len(L) \in Nat, Len(M) = Len(L), NEW p, NEW q,
           \A i \in 1..Len(L) : WriteField(L[i], p) = WriteField(M[i], q)
    PROVE  WriteFields(L, p) = WriteFields(M, q)
  <1> DEFINE n == Len(L)
             U == FieldsWriting(L, p, n)
             V == FieldsWriting(M, q, n)
             S == {i \in Nat : i <= n => U[i] = V[i]}
  <1>1. /\ U[0] = <<>>
        /\ \A i \in 1..n : U[i] = U[i - 1] \o WriteField(L[i], p)
        /\ WriteFields(L, p) = U[n]
    BY FieldsWritten
  <1>2. /\ V[0] = <<>>
        /\ \A i \in 1..n : V[i] = V[i - 1] \o WriteField(M[i], q)
        /\ WriteFields(M, q) = V[n]
    BY FieldsWritten
  <1>3. \A i \in 1..n : WriteField(L[i], p) = WriteField(M[i], q)
    OBVIOUS
  <1>4. n \in Nat
    OBVIOUS
  <1> HIDE DEF U, V, n
  <1>5. 0 \in S
    BY <1>1, <1>2
  <1>6. ASSUME NEW i \in Nat, i \in S PROVE i + 1 \in S
    <2>1. ASSUME i + 1 <= n PROVE U[i + 1] = V[i + 1]
      <3>1. i + 1 \in 1..n /\ (i + 1) - 1 = i /\ i <= n
        BY <1>4, <2>1
      <3>2. U[i + 1] = U[i] \o WriteField(L[i + 1], p) /\ V[i + 1] = V[i] \o WriteField(M[i + 1], q)
        BY <1>1, <1>2, <3>1
      <3>3. U[i] = V[i]
        BY <1>6, <3>1
      <3>4. QED
        BY <1>3, <3>1, <3>2, <3>3
    <2>2. QED
      BY <2>1
  <1>7. n \in S
    <2> HIDE DEF S
    <2>1. QED
      BY <1>4, <1>5, <1>6, Induction
  <1>8. U[n] = V[n]
    BY <1>4, <1>7
  <1>9. QED
    BY <1>1, <1>2, <1>8

(* What is behind a header that was kept is kept. *)
LEMMA KeptBehindHeader ==
    ASSUME NEW L, IsLayout(L), Len(L) >= 1, NEW M, IsUnconditional(M),
           NEW K, IsVector(K), Len(K) = Len(L) + Len(M),
           \A i \in 1..Len(L) : K[i] = L[i], \A i \in 1..Len(M) : K[Len(L) + i] = M[i],
           NEW p, NEW h, DOMAIN h = FieldNames(L), \A x \in FieldNames(L) : h[x] = p[x],
           NEW g, DOMAIN g = FieldNames(M), NEW m, IsMerge(m, h, g), StartKept(M, p, g)
    PROVE  \E k \in 1..Len(K) : KeptBut(K, p, m, k)
  <1> DEFINE l == Len(L)
             n == Len(M)
  <1>1. IsLayout(M) /\ IsVector(M)
    BY DEF IsUnconditional, IsLayout
  <1>2. l \in Nat /\ n \in Nat /\ l >= 1 /\ Len(K) = l + n
    BY <1>1, LayoutDomain
  <1>3. /\ \A i \in 1..l : L[i].name \in FieldNames(L)
        /\ \A i \in 1..n : M[i].name \in FieldNames(M)
    <2>1. FieldNames(L) = {L[i].name : i \in 1..Len(L)} /\ FieldNames(M) = {M[i].name : i \in 1..Len(M)}
      BY <1>1, LayoutDomain
    <2>2. QED
      BY <2>1
  <1>4. /\ \A i \in 1..l : K[i] = L[i]
        /\ \A i \in 1..n : K[l + i] = M[i]
    OBVIOUS
  <1>5. PICK k \in 0..n : KeptBut(M, p, g, k)
    BY DEF StartKept
  <1>6. \A i \in 1..(k - 1) : g[M[i].name] = p[M[i].name]
    BY <1>5 DEF KeptBut, SameTo
  <1>7. Len(WriteFields(Behind(M, k), g)) < 8
    BY <1>5 DEF KeptBut
  <1>8. \A i \in 1..l : m[L[i].name] = p[L[i].name]
    BY <1>3 DEF IsMerge
  <1>9. \A i \in 1..n : m[M[i].name] = g[M[i].name]
    BY <1>3 DEF IsMerge
  <1>10. ASSUME NEW i \in 1..n, NEW q PROVE WriteField(M[i], q) = WriteValue(M[i].codec, q[M[i].name])
    BY EventFieldIs
  <1> HIDE DEF l, n
  <1> DEFINE j == l + k
  <1>11. j \in 1..Len(K) /\ j \in 0..Len(K) /\ Len(K) - j = n - k /\ k \in Nat
    <2>1. k \in 0..n
      BY <1>5
    <2> DEFINE x == Len(K)
    <2>2. x = l + n /\ l \in Nat /\ n \in Nat /\ l >= 1
      BY <1>2
    <2> HIDE DEF x
    <2>3. k \in Nat /\ k <= n
      BY <2>1, <2>2
    <2>4. l + k \in 1..x /\ l + k \in 0..x /\ x - (l + k) = n - k
      BY <2>2, <2>3
    <2>5. QED
      BY <2>3, <2>4 DEF x
  <1>12. SameTo(K, p, m, j - 1)
    <2>1. ASSUME NEW i \in 1..(j - 1) PROVE m[K[i].name] = p[K[i].name]
      <3>1. CASE i <= l
        <4>1. i \in 1..l
          BY <1>2, <1>11, <3>1
        <4>2. QED
          BY <1>4, <1>8, <4>1
      <3>2. CASE ~(i <= l)
        <4>1. PICK o \in 1..(k - 1) : i = l + o /\ o \in 1..n
          <5>1. i - l \in 1..(k - 1) /\ i = l + (i - l) /\ i - l \in 1..n
            BY <1>2, <1>11, <3>2
          <5>2. QED
            BY <5>1
        <4>2. K[i] = M[o]
          BY <1>4, <4>1
        <4>3. QED
          BY <1>6, <1>9, <4>1, <4>2
      <3>3. QED
        BY <3>1, <3>2
    <2> HIDE DEF j
    <2>2. QED
      BY <2>1 DEF SameTo
  <1>13. /\ Len(Behind(K, j)) = n - k
         /\ \A i \in 1..(n - k) : Behind(K, j)[i] = K[j + i]
    <2> HIDE DEF j
    <2>1. Len(Behind(K, j)) = Len(K) - j /\ \A i \in 1..(Len(K) - j) : Behind(K, j)[i] = K[j + i]
      BY <1>11, BehindIs
    <2>2. QED
      BY <1>11, <2>1
  <1>14. /\ Len(Behind(M, k)) = n - k
         /\ \A i \in 1..(n - k) : Behind(M, k)[i] = M[k + i]
    <2>1. k \in 0..Len(M)
      BY DEF n
    <2>2. Len(Behind(M, k)) = Len(M) - k /\ \A i \in 1..(Len(M) - k) : Behind(M, k)[i] = M[k + i]
      BY <1>1, <2>1, BehindIs
    <2>3. QED
      BY <2>2 DEF n
  <1>15. ASSUME NEW i \in 1..(n - k)
         PROVE  WriteField(Behind(K, j)[i], m) = WriteField(Behind(M, k)[i], g)
    <2>1. k + i \in 1..n /\ j + i = l + (k + i)
      BY <1>2, <1>11
    <2>2. K[j + i] = M[k + i]
      <3> HIDE DEF j
      <3>1. K[l + (k + i)] = M[k + i]
        BY <1>4, <2>1
      <3>2. QED
        BY <2>1, <3>1
    <2>3. WriteField(M[k + i], m) = WriteField(M[k + i], g)
      BY <1>9, <1>10, <2>1
    <2>4. Behind(K, j)[i] = M[k + i] /\ Behind(M, k)[i] = M[k + i]
      BY <1>13, <1>14, <2>2
    <2>5. QED
      BY <2>3, <2>4
  <1>16. WriteFields(Behind(K, j), m) = WriteFields(Behind(M, k), g)
    <2> DEFINE A == Behind(K, j)
               B == Behind(M, k)
    <2>1. n - k \in Nat
      BY <1>2
    <2>2. Len(A) \in Nat /\ Len(B) = Len(A) /\ \A i \in 1..Len(A) : WriteField(A[i], m) = WriteField(B[i], g)
      BY <1>13, <1>14, <1>15, <2>1
    <2> HIDE DEF A, B
    <2>3. WriteFields(A, m) = WriteFields(B, g)
      BY <2>2, WrittenAlike
    <2>4. QED
      BY <2>3 DEF A, B
  <1>17. KeptBut(K, p, m, j)
    <2>1. Len(WriteFields(Behind(K, j), m)) < 8
      BY <1>7, <1>16
    <2> HIDE DEF j
    <2>2. QED
      BY <1>12, <2>1 DEF KeptBut
  <1> HIDE DEF j
  <1>18. QED
    BY <1>11, <1>17

\* What is known of an event that was cut and is read.
StartReturned(n, p, r) ==
    r # Failed => r[1] = n /\ \E k \in 1..Len(LayoutOf[n]) : KeptBut(LayoutOf[n], p, r[2], k)

(* An event whose end is missing: its header is there, and its payload keeps its start. *)
LEMMA CutEventReturned ==
    ASSUME NEW n \in DOMAIN Packets, IsEvent(n), NEW p, FieldsInStep(LayoutOf[n], p),
           p["network_id"] = 0, NEW asBytes \in BOOLEAN, NEW b,
           Arrived(b, WriteRpc(Packets[n].id, p, PayloadOf(n, p, asBytes)), FALSE)
    PROVE  StartReturned(n, p, ReadRpc(b))
  <1> DEFINE M == Packets[n].layout
             data == WriteFields(M, p)
             q == PayloadOf(n, p, asBytes)
             h == HeaderOf(p)
  <1> SUFFICES ASSUME ReadRpc(b) # Failed PROVE StartReturned(n, p, ReadRpc(b))
    BY DEF StartReturned
  <1>1. EventParts(n, p)
    BY EventPartsAre
  <1>2. data \in Seq(Bit)
    BY <1>1, EventBits
  <1>3. q = IF asBytes THEN BitsToBytes(data) ELSE data
    BY DEF PayloadOf
  <1>4. q \in Seq(Bit)
    BY <1>2, <1>3, BytesAreWhole
  <1>5. IsUnconditional(M) /\ FieldsInStep(M, p) /\ FieldNames(M) \cap HeaderNames = {}
    BY <1>1, EachPacket DEF EventParts
  <1>6. PICK k \in 0..Len(q) :
            ReadRpc(b) = ParseStaticEvent(h, Packets[n].id, BitsToBytes(SubSeq(q, 1, k)))
    <2> HIDE DEF q
    <2>1. PICK all \in BOOLEAN : all = FALSE
      OBVIOUS
    <2>2. Arrived(b, WriteRpc(Packets[n].id, p, q), all)
      BY <2>1 DEF q
    <2>3. \/ ReadRpc(b) = Failed /\ ~(all /\ ReadableFields(LayoutOf[n], p))
          \/ \E k \in 0..Len(q) :
                /\ all => k = Len(q)
                /\ ReadRpc(b) = ParseStaticEvent(HeaderOf(p), Packets[n].id, BitsToBytes(SubSeq(q, 1, k)))
      BY <1>1, <1>4, <2>2, RpcArrived
    <2>4. QED
      BY <2>3
  <1> DEFINE d == BitsToBytes(SubSeq(q, 1, k))
             r == ReadFields(M, d)
             m == Merge(h, r[1])
  <1>7. d \in Seq(Bit) /\ \E z \in 0..Len(d) : z < 8 /\ Fits(Without(d, z), data)
    <2> HIDE DEF q, data
    <2>1. k \in 0..Len(q)
      OBVIOUS
    <2>2. QED
      BY <1>2, <1>3, <2>1, LeftIsStart
  <1> HIDE DEF d
  <1>8. ReadRpc(b) = ParseStaticEvent(h, Packets[n].id, d)
    BY <1>6 DEF d
  <1>9. ParseStaticEvent(h, Packets[n].id, d) = IF r = Failed THEN Failed ELSE <<n, m>>
    <2>1. Packets[n].channel = "static_event"
      BY DEF IsEvent
    <2>2. NamesOf("static_event", Packets[n].id) # {} /\ NameOf("static_event", Packets[n].id) = n
      BY <2>1, NameIs
    <2>3. h["network_id"] = 0
      BY DEF HeaderOf, HeaderNames
    <2> HIDE DEF h
    <2>4. QED
      BY <2>2, <2>3 DEF ParseStaticEvent, Then
  <1>10. r # Failed /\ ReadRpc(b) = <<n, m>>
    <2> HIDE DEF r, m
    <2>1. QED
      BY <1>8, <1>9
  <1>11. StartKept(M, p, r[1])
    <2>1. PICK z \in 0..Len(d) : z < 8 /\ Fits(Without(d, z), data)
      BY <1>7
    <2>2. Fits(Without(d, z), WriteFields(M, p)) /\ z < 8
      BY <2>1
    <2>3. ReadFields(M, d) # Failed
      BY <1>10
    <2> HIDE DEF M
    <2>4. StartKept(M, p, ReadFields(M, d)[1])
      BY <1>5, <1>7, <2>2, <2>3, PayloadKept
    <2>5. QED
      BY <2>4
  <1>12. DOMAIN r[1] = FieldNames(M)
    <2>1. IsLayout(M) /\ d \in Seq(Bit) /\ ReadFields(M, d) # Failed
      BY <1>5, <1>7, <1>10 DEF IsUnconditional
    <2> HIDE DEF M
    <2>2. InStep(M, ReadFields(M, d)[1])
      BY <2>1, FieldsTyped
    <2>3. QED
      BY <2>2 DEF InStep
  <1>13. DOMAIN h = HeaderNames /\ \A x \in HeaderNames : h[x] = p[x]
    BY DEF HeaderOf
  <1> HIDE DEF h, r
  <1>14. IsMerge(m, h, r[1])
    BY <1>5, <1>12, <1>13, MergeIs
  <1> DEFINE H == Targets \o Position
             K == LayoutOf[n]
  <1>15. /\ IsLayout(H) /\ IsPlain(H) /\ FieldNames(H) = HeaderNames /\ K = H \o M
         /\ IsLayout(K) /\ IsLayout(M) /\ IsVector(K)
    BY <1>5, HeaderIs, LayoutIs DEF IsLayout, IsUnconditional
  <1>16. Len(H) >= 1
    <2>1. Len(H) \in Nat /\ FieldNames(H) = {H[i].name : i \in 1..Len(H)}
      BY <1>15, LayoutDomain
    <2>2. "position" \in FieldNames(H)
      BY <1>15 DEF HeaderNames
    <2> HIDE DEF H
    <2>3. PICK i \in 1..Len(H) : H[i].name = "position"
      BY <2>1, <2>2
    <2>4. QED
      BY <2>1, <2>3
  <1> HIDE DEF H, K, M, m
  <1>17. /\ Len(K) = Len(H) + Len(M)
         /\ \A i \in 1..Len(H) : K[i] = H[i]
         /\ \A i \in 1..Len(M) : K[Len(H) + i] = M[i]
    <2>1. FieldNames(H) \cap FieldNames(M) = {}
      BY <1>5, <1>15
    <2>2. /\ Len(H \o M) = Len(H) + Len(M)
          /\ \A i \in 1..Len(H) : (H \o M)[i] = H[i]
          /\ \A i \in 1..Len(M) : (H \o M)[Len(H) + i] = M[i]
      <3>1. Len(H \o M) = Len(H) + Len(M)
        BY <1>15, <2>1, LayoutsInLine
      <3>2. \A i \in 1..Len(H) : (H \o M)[i] = H[i]
        BY <1>15, <2>1, LayoutsInLine
      <3>3. \A i \in 1..Len(M) : (H \o M)[Len(H) + i] = M[i]
        BY <1>15, <2>1, LayoutsInLine
      <3>4. QED
        BY <3>1, <3>2, <3>3
    <2>3. QED
      BY <1>15, <2>2
  <1>18. DOMAIN h = FieldNames(H) /\ \A x \in FieldNames(H) : h[x] = p[x]
    BY <1>13, <1>15
  <1>19. \E i \in 1..Len(K) : KeptBut(K, p, m, i)
    <2> DEFINE g == r[1]
    <2>1. IsLayout(H) /\ Len(H) >= 1 /\ IsUnconditional(M) /\ IsVector(K) /\ Len(K) = Len(H) + Len(M)
      BY <1>5, <1>15, <1>16, <1>17
    <2>2. DOMAIN g = FieldNames(M) /\ IsMerge(m, h, g) /\ StartKept(M, p, g)
      BY <1>11, <1>12, <1>14
    <2>3. (\A i \in 1..Len(H) : K[i] = H[i]) /\ (\A i \in 1..Len(M) : K[Len(H) + i] = M[i])
      BY <1>17
    <2>4. DOMAIN h = FieldNames(H) /\ (\A x \in FieldNames(H) : h[x] = p[x])
      BY <1>18
    <2> HIDE DEF g
    <2>5. QED
      BY <2>1, <2>2, <2>3, <2>4, KeptBehindHeader
  <1>20. ReadRpc(b)[1] = n /\ ReadRpc(b)[2] = m
    BY <1>10
  <1>21. QED
    BY <1>19, <1>20 DEF StartReturned, K

(* An event that is well formed, and was cut, keeps its start if it is read. *)
LEMMA CutReturned ==
    ASSUME NEW p, IsSent(p), WellFormed(p), IsEvent(p.name), NEW b, Arrives(b, p, FALSE)
    PROVE  StartReturned(p.name, p.fields, ReadPacket(ChannelOf(p.id), b))
  <1> DEFINE n == p.name
             f == p.fields
             a == After(b, 16)
             r == ReadPacket(ChannelOf(p.id), b)
  <1>1. PICK all \in BOOLEAN : all = FALSE
    OBVIOUS
  <1>2. /\ p.id = n /\ n \in DOMAIN Packets /\ FieldsInStep(LayoutOf[n], f)
        /\ IsEvent(n) => f["network_id"] = 0
        /\ \/ r = Failed /\ ~all
           \/ \E asBytes \in BOOLEAN :
                 /\ Arrived(a, BehindHeader(n, f, asBytes), all)
                 /\ r = IF IsEvent(n) THEN ReadRpc(a) ELSE ReadBehind(ChannelOf(n), Packets[n].id, a)
    <2>1. Arrives(b, p, all)
      BY <1>1
    <2>2. QED
      BY <2>1, SentRead
  <1> HIDE DEF r, a
  <1>3. CASE r = Failed
    BY <1>3 DEF StartReturned, r
  <1>4. CASE r # Failed
    <2>1. PICK asBytes \in BOOLEAN :
              Arrived(a, BehindHeader(n, f, asBytes), all) /\ r = ReadRpc(a)
      BY <1>2, <1>4
    <2>2. Arrived(a, WriteRpc(Packets[n].id, f, PayloadOf(n, f, asBytes)), FALSE)
      BY <1>1, <2>1 DEF BehindHeader
    <2>3. StartReturned(n, f, ReadRpc(a))
      BY <1>2, <2>2, CutEventReturned
    <2>4. QED
      BY <2>1, <2>3 DEF r
  <1>5. QED
    BY <1>3, <1>4

----------------------------------------------------------------------------
(* Events that were cut *)

\* Of a well-formed event whose end is missing is known what start of it was kept.
StartIsReturned ==
    phase = "read" /\ WellFormed(sent) /\ ~whole /\ IsEvent(sent.name) =>
        StartReturned(sent.name, sent.fields, <<name, fields>>)

CutInv == Inv /\ StartIsReturned

(* Nothing was read yet of a packet that a caller builds. *)
LEMMA CutInit == Init => CutInv
  <1>1. Init => StartIsReturned
    BY DEF Init, StartIsReturned
  <1>2. QED
    BY <1>1, InitInv DEF CutInv

(* Only the reader makes it anew. *)
LEMMA CutNext == CutInv /\ [Next]_vars => CutInv'
  <1> SUFFICES ASSUME CutInv, [Next]_vars PROVE StartIsReturned'
    BY NextInv DEF CutInv
  <1> USE DEF CutInv
  <1>1. CASE UNCHANGED vars
    BY <1>1 DEF vars, StartIsReturned, WellFormed
  <1>2. CASE Update
    BY <1>2 DEF Update, StartIsReturned
  <1>3. CASE WritePacket
    BY <1>3 DEF WritePacket, StartIsReturned
  <1>4. CASE Cut
    BY <1>4 DEF Cut, StartIsReturned
  <1>5. CASE Receive
    <2> DEFINE r == ReadPacket(ChannelOf(sent.id), wire)
    <2>1. phase = "written" /\ UNCHANGED <<sent, whole>>
      BY <1>5 DEF Receive
    <2>2. \/ phase' = "failed"
          \/ r # Failed /\ name' = r[1] /\ fields' = r[2]
      BY <1>5 DEF Receive
    <2>3. IsSent(sent) /\ whole \in BOOLEAN /\ Arrives(wire, sent, whole)
      BY <2>1 DEF Inv, SentKept, WireKept
    <2> HIDE DEF r
    <2> SUFFICES ASSUME phase' = "read", WellFormed(sent), ~whole, IsEvent(sent.name)
                 PROVE  StartReturned(sent.name, sent.fields, <<name', fields'>>)
      BY <2>1 DEF StartIsReturned, WellFormed
    <2>4. Arrives(wire, sent, FALSE)
      BY <2>3
    <2>5. StartReturned(sent.name, sent.fields, r)
      BY <2>3, <2>4, CutReturned DEF r
    <2>6. r # Failed /\ name' = r[1] /\ fields' = r[2]
      BY <2>2
    <2> DEFINE q == <<name', fields'>>
    <2>7. q[1] = r[1] /\ q[2] = r[2]
      BY <2>6
    <2> HIDE DEF q
    <2>8. StartReturned(sent.name, sent.fields, q)
      BY <2>5, <2>6, <2>7 DEF StartReturned
    <2>9. QED
      BY <2>8 DEF q
  <1>6. CASE Forward
    BY <1>6 DEF Forward, StartIsReturned
  <1>7. QED
    BY <1>1, <1>2, <1>3, <1>4, <1>5, <1>6 DEF Next

(* The start of a cut event, as an invariant of the packets. *)
THEOREM CutInvariance == Spec => []CutInv
  BY CutInit, CutNext, PTL DEF Spec

(* An event whose end is missing is read, if at all, under its own name, with all *)
(* fields before some field as they were, and behind that one less than a byte    *)
(* was made up (rpc.rs, bits_to_bytes; crate-compat/src/direct_serialize).        *)
THEOREM CutEventKeepsItsStartAlways == Spec => []CutEventKeepsItsStart
  <1>1. CutInv => CutEventKeepsItsStart
    <2> SUFFICES ASSUME CutInv, phase = "read", WellFormed(sent), ~whole, IsEvent(sent.name)
                 PROVE  /\ name = sent.name
                        /\ \E k \in DOMAIN Layout :
                              /\ \A i \in 1..(k - 1) : Same(i)
                              /\ Len(WriteFields(SubSeq(Layout, k + 1, Len(Layout)), fields)) < 8
      BY DEF CutEventKeepsItsStart
    <2> DEFINE r == <<name, fields>>
    <2>1. StartReturned(sent.name, sent.fields, r)
      BY DEF CutInv, StartIsReturned
    <2>2. r # Failed /\ r[1] = name /\ r[2] = fields
      BY NotFailed
    <2> HIDE DEF r
    <2>3. name = sent.name
      BY <2>1, <2>2 DEF StartReturned
    <2>4. Layout = LayoutOf[sent.name] /\ DOMAIN Layout = 1..Len(Layout)
      BY <2>3, LayoutIs, LayoutDomain DEF Layout, CutInv, Inv, PacketTyped, Typed
    <2>5. PICK k \in 1..Len(Layout) : KeptBut(Layout, sent.fields, fields, k)
      BY <2>1, <2>2, <2>4 DEF StartReturned
    <2>6. \A i \in 1..(k - 1) : Same(i)
      BY <2>5 DEF KeptBut, SameTo, Same
    <2>7. Len(WriteFields(SubSeq(Layout, k + 1, Len(Layout)), fields)) < 8
      BY <2>5 DEF KeptBut, Behind
    <2>8. QED
      BY <2>3, <2>4, <2>6, <2>7
  <1>2. QED
    BY <1>1, CutInvariance, PTL
=============================================================================
