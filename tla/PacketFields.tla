---------------------------- MODULE PacketFields ----------------------------
(***************************************************************************)
(* How a packet goes over the bit stream, field by field: what deku's      *)
(* derive makes of the structs of crate-transport/src/replication.rs and   *)
(* control.rs with the codecs of crate-compat/src.                         *)
(*                                                                         *)
(* A packet is a function from the names of its fields to their values; a  *)
(* layout is the sequence of its fields, each with its codec and the       *)
(* condition (`cond`) under which it is read.  The wire is a sequence of   *)
(* bits, the lowest of a byte first.  Fixed-size fields have fewer bits    *)
(* than in the code; what matters of them is that they are there, or not,  *)
(* and with which values a field may be read at all.                       *)
(***************************************************************************)
EXTENDS Varint, FiniteSets

CONSTANTS
    U64, U32, I32,     \* integer types, [signed, bits]
    WideBits,          \* bits of a BitAligned that stands for itself only
    OctetBits          \* bits of a count of type u8

ASSUME TypesAssumption ==
    /\ {U64, U32, I32} \subseteq IntegerTypes
    /\ ~U64.signed /\ ~U32.signed /\ I32.signed
    /\ WideBits \in Nat \ {0} /\ OctetBits \in Nat \ {0}
    /\ U64.bits >= U32.bits

(* Codecs: the parts a field may be made of *)

\* BitAligned, BitBool and enumerations: so many bits, one of these values.
Fixed(bits, values) == [kind |-> "fixed", bits |-> bits, values |-> values]

\* A BitField: of all its bits those are kept that are flags.
Flags(bits, flags) == [kind |-> "flags", bits |-> bits, flags |-> flags]

Variable(t) == [kind |-> "varint", type |-> t]

\* VarBytes and VarString: their length, written as one type and read as
\* another, and so many bytes with these values.
Bytes(written, read, values) ==
    [kind |-> "bytes", written |-> written, read |-> read, values |-> values]

\* Tuple and Guid, one after the other.
Tuple(first, second) == [kind |-> "tuple", first |-> first, second |-> second]

(* Codecs of parts *)

\* A Vec with its length in front of it, and one whose length is in a field.
Sized(t, of) == [kind |-> "sized", type |-> t, of |-> of]

Counted(count, of) == [kind |-> "counted", count |-> count, of |-> of]

\* read_all
Rest(values) == [kind |-> "rest", values |-> values]

\* A VarMap, which is a map from keys to values here and a sequence of pairs, in
\* any order, on the wire.
Map(t, pair) == [kind |-> "map", type |-> t, pair |-> pair]

\* Nullable has a bit of its own; an Option has none.
Nullable(of) == [kind |-> "nullable", of |-> of]

Option(of) == [kind |-> "option", of |-> of]

(* Codecs of the fields *)

Unsigned(bits) == 0..(TwoTo[bits] - 1)

BitBool == Fixed(1, {0, 1})

Wide == Fixed(WideBits, Unsigned(WideBits))

Octet == Fixed(OctetBits, Unsigned(OctetBits))

\* A count of type i32, which no packet is long enough to overflow.
Length == Fixed(4, Unsigned(4))

Byte == 0..255

VarU32 == Variable(U32)

NetworkId == VarU32

VarVec(of) == Sized(U32, of)

VarMap(pair) == Map(U32, pair)

VarBytes == Bytes(U32, U32, Byte)

\* Of the characters of one byte; a byte that is none of them is refused.
VarString == Bytes(U64, U32, 0..127)

(* Fields *)

Field(n, codec) == [name |-> n, codec |-> codec, cond |-> <<>>, default |-> None]

\* Read only if each of these fields has one of these values, else `default`.
FieldIf(n, codec, cond, default) ==
    [name |-> n, codec |-> codec, cond |-> cond, default |-> default]

\* Its reader takes it to be there.
IsThere(field, packet) ==
    \A i \in DOMAIN field.cond : packet[field.cond[i].name] \in field.cond[i].in

\* The writer has not the condition (WriteField): a field with one is written as
\* it is read if it is an Option, whose None is no bit at all.
ReadsAsWritten(field) == field.cond = <<>> \/ field.codec.kind = "option"

FieldsReadAsWritten(layout, n) == \A i \in 1..n : ReadsAsWritten(layout[i])

FieldNames(layout) == {layout[i].name : i \in DOMAIN layout}

----------------------------------------------------------------------------
(* Writing *)

\* A length, `as` the type it is written as.
LengthBits(t, n) == Write(t, n % TwoTo[t.bits])

ByteBits(bytes) ==
    [i \in 1..(8 * Len(bytes)) |-> Bits(bytes[1 + ((i - 1) \div 8)], 8)[1 + ((i - 1) % 8)]]

WritePart(codec, v) ==
    CASE codec.kind \in {"fixed", "flags"} -> Bits(v, codec.bits)
      [] codec.kind = "varint" -> Write(codec.type, v)
      [] codec.kind = "bytes" -> LengthBits(codec.written, Len(v)) \o ByteBits(v)
      [] codec.kind = "tuple" -> Bits(v[1], codec.first.bits) \o Bits(v[2], codec.second.bits)

WriteMany(codec, v) ==
    LET upTo[i \in 0..Len(v)] == IF i = 0 THEN <<>> ELSE upTo[i - 1] \o WritePart(codec, v[i])
    IN  upTo[Len(v)]

\* The order of a HashMap.
Keys(map) ==
    CHOOSE keys \in [1..Cardinality(DOMAIN map) -> DOMAIN map] :
        \A k \in DOMAIN map : \E i \in DOMAIN keys : keys[i] = k

Pairs(map) == LET keys == Keys(map) IN [i \in DOMAIN keys |-> <<keys[i], map[keys[i]]>>]

WriteValue(codec, v) ==
    CASE codec.kind = "sized" -> LengthBits(codec.type, Len(v)) \o WriteMany(codec.of, v)
      [] codec.kind = "counted" -> WriteMany(codec.of, v)
      [] codec.kind = "rest" -> ByteBits(v)
      [] codec.kind = "map" ->
            LengthBits(codec.type, Cardinality(DOMAIN v)) \o WriteMany(codec.pair, Pairs(v))
      [] codec.kind = "nullable" -> IF v = None THEN <<0>> ELSE <<1>> \o WritePart(codec.of, v)
      [] codec.kind = "option" -> IF v = None THEN <<>> ELSE WritePart(codec.of, v)
      [] OTHER -> WritePart(codec, v)

\* A `cond` without `skip` is for the reader: deku's derive writes the field
\* whatever the condition says of it.
WriteField(field, packet) == WriteValue(field.codec, packet[field.name])

WriteFields(layout, packet) ==
    LET upTo[i \in 0..Len(layout)] ==
            IF i = 0 THEN <<>> ELSE upTo[i - 1] \o WriteField(layout[i], packet)
    IN  upTo[Len(layout)]

\* A slip of the last byte, for a mutation run: its bits are not flushed.
Unfilled(bits) == SubSeq(bits, 1, Len(bits) - (Len(bits) % 8))

\* Finishing the stream fills up the last byte.
Filled(bits) == bits \o [i \in 1..((8 - (Len(bits) % 8)) % 8) |-> 0]

----------------------------------------------------------------------------
(* Reading: a value and the bits after it, or Failed *)

Failed == <<>>

\* `?`
Then(result, Next(_, _)) == IF result = Failed THEN Failed ELSE Next(result[1], result[2])

After(bits, n) == SubSeq(bits, n + 1, Len(bits))

ReadFixed(codec, bits) ==
    LET v == BitsValue(SubSeq(bits, 1, codec.bits))
    IN  IF Len(bits) < codec.bits \/ v \notin codec.values THEN Failed
        ELSE <<v, After(bits, codec.bits)>>

\* from_bits_truncate
ReadFlags(codec, bits) ==
    IF Len(bits) < codec.bits THEN Failed
    ELSE <<BitsValue([i \in 1..codec.bits |-> IF i \in codec.flags THEN bits[i] ELSE 0]),
           After(bits, codec.bits)>>

ReadVarint(t, bits) ==
    LET v == Read(t, bits)
    IN  IF v = None THEN Failed ELSE <<v, After(bits, 8 * Taken(bits))>>

ReadBytes(values, n, bits) ==
    LET bytes == [i \in 1..n |-> BitsValue(SubSeq(bits, 8 * i - 7, 8 * i))]
    IN  IF Len(bits) < 8 * n \/ \E i \in 1..n : bytes[i] \notin values THEN Failed
        ELSE <<bytes, After(bits, 8 * n)>>

ReadPart(codec, bits) ==
    CASE codec.kind = "fixed" -> ReadFixed(codec, bits)
      [] codec.kind = "flags" -> ReadFlags(codec, bits)
      [] codec.kind = "varint" -> ReadVarint(codec.type, bits)
      [] codec.kind = "bytes" ->
            Then(ReadVarint(codec.read, bits), LAMBDA n, rest : ReadBytes(codec.values, n, rest))
      [] codec.kind = "tuple" ->
            Then(ReadFixed(codec.first, bits), LAMBDA first, rest :
                Then(ReadFixed(codec.second, rest), LAMBDA second, after :
                    << <<first, second>>, after>>))

\* A slip for a mutation run: as many elements as are there, up to the count.
ReadUpTo(codec, n, bits) ==
    LET many[i \in 0..n] ==
            IF i = 0 THEN << <<>>, bits>>
            ELSE LET next == ReadPart(codec, many[i - 1][2])
                 IN  IF next = Failed THEN many[i - 1]
                     ELSE <<Append(many[i - 1][1], next[1]), next[2]>>
    IN  IF n > Len(bits) THEN << <<>>, bits>> ELSE many[n]

\* An element has a bit at least. The readers of collections make room for all
\* n of them first; where there is not the memory for it, the process may end
\* instead of Failed.
ReadMany(codec, n, bits) ==
    LET many[i \in 0..n] ==
            IF i = 0 THEN << <<>>, bits>>
            ELSE Then(many[i - 1], LAMBDA vs, rest :
                     Then(ReadPart(codec, rest), LAMBDA v, after : <<Append(vs, v), after>>))
    IN  IF n > Len(bits) THEN Failed ELSE many[n]

\* The last of two pairs with the same key stays.
MapOf(pairs) ==
    [k \in {pairs[i][1] : i \in DOMAIN pairs} |->
        pairs[Max({i \in DOMAIN pairs : pairs[i][1] = k})][2]]

ReadNullable(of, bits) ==
    Then(ReadFixed(BitBool, bits), LAMBDA there, rest :
        IF there = 0 THEN <<None, rest>> ELSE ReadPart(of, rest))

\* How many elements: a field read before, the length in front of them, or all
\* that is left of them.
ReadValue(codec, packet, bits) ==
    CASE codec.kind = "counted" -> ReadMany(codec.of, packet[codec.count], bits)
      [] codec.kind = "sized" ->
            Then(ReadVarint(codec.type, bits), LAMBDA n, rest : ReadMany(codec.of, n, rest))
      [] codec.kind = "rest" -> ReadBytes(codec.values, Len(bits) \div 8, bits)
      [] codec.kind = "map" ->
            Then(ReadVarint(codec.type, bits), LAMBDA n, rest :
                Then(ReadMany(codec.pair, n, rest), LAMBDA pairs, after : <<MapOf(pairs), after>>))
      [] codec.kind = "nullable" -> ReadNullable(codec.of, bits)
      [] codec.kind = "option" -> ReadPart(codec.of, bits)
      [] OTHER -> ReadPart(codec, bits)

Merge(packet, other) ==
    [x \in DOMAIN packet \cup DOMAIN other |-> IF x \in DOMAIN packet THEN packet[x] ELSE other[x]]

Put(packet, n, v) == [x \in DOMAIN packet \cup {n} |-> IF x = n THEN v ELSE packet[x]]

\* A slip of the derive, for a mutation run: no default for what is not there.
ReadFieldThere(field, packet, bits) ==
    IF ~IsThere(field, packet) THEN <<packet, bits>>
    ELSE Then(ReadValue(field.codec, packet, bits), LAMBDA v, rest :
             <<Put(packet, field.name, v), rest>>)

\* A condition looks at the fields read so far.
ReadField(field, packet, bits) ==
    IF ~IsThere(field, packet) THEN <<Put(packet, field.name, field.default), bits>>
    ELSE Then(ReadValue(field.codec, packet, bits), LAMBDA v, rest :
             <<Put(packet, field.name, v), rest>>)

ReadFields(layout, bits) ==
    LET upTo[i \in 0..Len(layout)] ==
            IF i = 0 THEN << [x \in {} |-> None], bits>>
            ELSE Then(upTo[i - 1], LAMBDA packet, rest : ReadField(layout[i], packet, rest))
    IN  upTo[Len(layout)]

----------------------------------------------------------------------------
(* What a packet may say: counts and conditions that are in step with the   *)
(* rest of it.                                                              *)

IsVector(v) == Len(v) \in Nat /\ v = [i \in 1..Len(v) |-> v[i]]

IsBytes(v, values) == IsVector(v) /\ \A i \in 1..Len(v) : v[i] \in values

HoldsPart(codec, v) ==
    /\ codec.kind = "fixed" => v \in codec.values
    /\ codec.kind = "flags" =>
          v \in Unsigned(codec.bits) /\ \A i \in 1..codec.bits :
              i \in codec.flags \/ Bits(v, codec.bits)[i] = 0
    /\ codec.kind = "varint" => v \in IntegersOf(codec.type)
    /\ codec.kind = "bytes" => IsBytes(v, codec.values)
    /\ codec.kind = "tuple" => v \in codec.first.values \X codec.second.values

\* v is of the type of the field.
Holds(codec, v) ==
    /\ codec.kind \in {"counted", "sized"} =>
          IsVector(v) /\ \A i \in 1..Len(v) : HoldsPart(codec.of, v[i])
    /\ codec.kind = "rest" => IsBytes(v, codec.values)
    /\ codec.kind = "map" =>
          /\ v = [k \in DOMAIN v |-> v[k]] /\ IsFiniteSet(DOMAIN v)
          /\ \A k \in DOMAIN v : HoldsPart(codec.pair, <<k, v[k]>>)
    /\ codec.kind = "nullable" => v = None \/ HoldsPart(codec.of, v)
    /\ codec.kind = "option" => HoldsPart(codec.of, v)
    /\ HoldsPart(codec, v)

\* The lengths in it are numbers the reader takes.
PartFits(codec, v) == codec.kind = "bytes" => Len(v) \in IntegersOf(codec.read)

LengthsFit(codec, v) ==
    /\ codec.kind = "sized" => Len(v) \in IntegersOf(codec.type)
    /\ codec.kind \in {"counted", "sized"} => \A i \in 1..Len(v) : PartFits(codec.of, v[i])
    /\ codec.kind = "map" => Cardinality(DOMAIN v) \in IntegersOf(codec.type)
    /\ codec.kind = "nullable" => v = None \/ PartFits(codec.of, v)
    /\ codec.kind = "option" => PartFits(codec.of, v)
    /\ PartFits(codec, v)

FieldInStep(field, packet) ==
    LET v == packet[field.name]
    IN  IF IsThere(field, packet)
        THEN /\ Holds(field.codec, v) /\ LengthsFit(field.codec, v)
             /\ field.codec.kind = "counted" => Len(v) = packet[field.codec.count]
        ELSE v = field.default

InStep(layout, packet) ==
    /\ DOMAIN packet = FieldNames(layout)
    /\ \A i \in DOMAIN layout : FieldInStep(layout[i], packet)

\* All its integers can be read again.
ReadableFields(layout, packet) ==
    \A i \in DOMAIN layout :
        layout[i].codec.kind = "varint" =>
            Readable(layout[i].codec.type, packet[layout[i].name])
=============================================================================
