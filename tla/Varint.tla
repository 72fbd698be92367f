------------------------------- MODULE Varint -------------------------------
(***************************************************************************)
(* Varint (crate-compat/src/deku.rs): an integer in groups of seven bits,  *)
(* low group first, each byte but the last with its top bit set.  The      *)
(* reader may be of another width than the writer: the length of a string  *)
(* is written as u64 and read as u32.  Both ends are here as the bits of   *)
(* the stream, the lowest of a byte first.                                 *)
(***************************************************************************)
EXTENDS Integers, Sequences, FiniteSetsExt

CONSTANT None

ASSUME NoneAssumption == None \notin Int /\ None \notin Seq(Int)

TwoTo[n \in Nat] == IF n = 0 THEN 1 ELSE 2 * TwoTo[n - 1]

\* The integer types Varint is implemented for.
IntegerTypes == [signed : BOOLEAN, bits : 8..64]

\* The integers of a type.
IntegersOf(t) ==
    IF t.signed THEN -TwoTo[t.bits - 1]..(TwoTo[t.bits - 1] - 1) ELSE 0..(TwoTo[t.bits] - 1)

----------------------------------------------------------------------------
(* Digits of a base of 2 or 128, the lowest first *)

\* What is left of v when so many digits are shifted out.
Shifted(v, base, n) ==
    LET left[i \in 0..n] == IF i = 0 THEN v ELSE left[i - 1] \div base IN left

Digits(v, base, n) == LET left == Shifted(v, base, n) IN [i \in 1..n |-> left[i - 1] % base]

\* The integer with these digits, and `high` left when they are shifted out.
Number(digits, base, high) ==
    LET n == Len(digits)
        from[i \in 0..n] == IF i = 0 THEN high ELSE digits[n + 1 - i] + base * from[i - 1]
    IN  from[n]

Bits(v, n) == Digits(v, 2, n)

BitsValue(bits) == Number(bits, 2, 0)

\* No type has more.
MaxGroups == 10

----------------------------------------------------------------------------
(* write_varint *)

\* A slip of the signed writer, for a mutation run: it stops as the unsigned
\* one does, and for -1, without a look at the sign bit.
DoneBySize(t, group, left) == left = 0 \/ (t.signed /\ left = -1)

\* Done when what is left is the sign of the group just taken.
Done(t, group, left) ==
    left = IF t.signed /\ group >= 64 THEN -1 ELSE 0

GroupCount(t, v) ==
    LET left == Shifted(v, 128, MaxGroups)
    IN  Min({n \in 1..MaxGroups : Done(t, left[n - 1] % 128, left[n])})

\* Groups, each with a bit that says whether there are more.
GroupBits(groups) ==
    LET n == Len(groups)
    IN  [i \in 1..(8 * n) |->
            IF i % 8 = 0 THEN IF i = 8 * n THEN 0 ELSE 1
            ELSE Bits(groups[1 + (i \div 8)], 7)[i % 8]]

Write(t, v) == GroupBits(Digits(v, 128, GroupCount(t, v)))

----------------------------------------------------------------------------
(* read_varint *)

\* Bytes read up to the first without the top bit; 0 if the stream ends or ten
\* bytes go by before it.
Taken(bits) ==
    LET ends == {n \in 1..MaxGroups : 8 * n <= Len(bits) /\ bits[8 * n] = 0}
    IN  IF ends = {} THEN 0 ELSE Min(ends)

GroupsOf(bits, n) == [i \in 1..n |-> BitsValue(SubSeq(bits, 8 * i - 7, 8 * i - 1))]

\* The sign is extended where the groups leave bits of the type free.
Extension(t, groups) ==
    IF t.signed /\ 7 * Len(groups) < t.bits /\ groups[Len(groups)] >= 64 THEN -1 ELSE 0

\* None is the Err of the reader: the stream ended, too many bytes, or a value
\* the type does not hold.
Read(t, bits) ==
    LET groups == GroupsOf(bits, Taken(bits))
        v == Number(groups, 128, Extension(t, groups))
    IN  IF Taken(bits) # 0 /\ v \in IntegersOf(t) THEN v ELSE None

\* The integers a reader of type t takes off a whole stream. Where the groups
\* of a negative one fill the type, its sign is not extended (deku.rs 205).
Readable(t, v) ==
    v \in IntegersOf(t) /\ (t.signed => v >= -TwoTo[7 * ((t.bits - 1) \div 7) - 1])
=============================================================================
