----------------------------- MODULE StateGroups -----------------------------
(***************************************************************************)
(* StateGroups::read_entries (crate-transport/src/replication.rs): the     *)
(* state groups that end a server state packet, each with a terminator, a  *)
(* network id, a size in bits and that many bits, filled up to a byte.     *)
(* There is no count: the reader goes on until a terminator is missing or  *)
(* the bytes run out, and says nothing of what it could not read.          *)
(*                                                                         *)
(* The bytes are those from the first group on; the reader takes them off  *)
(* the bit stream before it looks at them, and the up to 7 bits after them *)
(* are dropped.  One step of the reader is one iteration of its loop.      *)
(***************************************************************************)
EXTENDS Integers, Sequences

CONSTANTS
    Groups,       \* the state groups a server may send
    MaxGroups     \* bound on the groups of a packet

Byte == 0..255

Word == {x \in Nat : x < 65536}

DataBytes(size) == (size + 7) \div 8

\* Weights of the groups of a varint and of the bytes of a size.
Weight == <<1, 128, 16384, 2097152, 268435456>>

ByteWeight == <<1, 256, 65536, 16777216>>

StateGroupEntry == [network_id : Nat, size_bits : Int, data : Seq(Byte)]

\* Ids are u32, sizes i32 and not negative, with room for the rounding.
ASSUME GroupsAssumption ==
    /\ Groups \subseteq StateGroupEntry
    /\ \A g \in Groups :
          /\ g.network_id \div Weight[5] < 16
          /\ g.size_bits \in Nat /\ (g.size_bits + 7) \div ByteWeight[4] < 128
          /\ Len(g.data) = DataBytes(g.size_bits)
ASSUME MaxGroupsAssumption == MaxGroups \in Nat

VARIABLES
    is_streaming,       \* of the server state packet
    phase,              \* of the packet: sent, read, or read to the end
    sent,               \* its groups
    ends,               \* where each of them ends
    wire,               \* the bytes; once handed over, those that arrived
    pos,                \* how many of them are read
    entries,            \* the groups read
    final_terminator    \* returned with them; from_reader_with_ctx drops it

vars == <<is_streaming, phase, sent, ends, wire, pos, entries, final_terminator>>

----------------------------------------------------------------------------
(* The sender, as read_entries takes it to write *)

Terminator == <<185, 200>>      \* 51385, low byte first

IdLength(v) ==
    CHOOSE n \in 1..5 : /\ n < 5 => v < Weight[n + 1]
                        /\ n > 1 => v >= Weight[n]

IdBytes(v) ==
    [i \in 1..IdLength(v) |->
        ((v \div Weight[i]) % 128) + (IF i < IdLength(v) THEN 128 ELSE 0)]

SizeWidth(streaming) == IF streaming THEN 4 ELSE 2

SizeBytes(size, streaming) ==
    [i \in 1..SizeWidth(streaming) |-> (size \div ByteWeight[i]) % 256]

GroupBytes(g, streaming) ==
    Terminator \o IdBytes(g.network_id) \o SizeBytes(g.size_bits, streaming) \o g.data

\* The captured packet ends in the terminator of the groups (replication.rs
\* 613-627), as the game's writer does; to_writer of this crate puts two bytes 0
\* behind the last group.
Endings == {Terminator, <<0, 0>>}

Init ==
    /\ is_streaming \in BOOLEAN
    /\ phase = "sent"
    /\ sent = <<>> /\ ends = <<>> /\ wire = <<>>
    /\ pos = 0 /\ entries = <<>> /\ final_terminator = 0

\* Groups of more than an i16 of bits go into streaming packets only.
ServerWrites(g) ==
    /\ phase = "sent" /\ Len(sent) < MaxGroups
    /\ is_streaming \/ g.size_bits < 32768
    /\ wire' = wire \o GroupBytes(g, is_streaming)
    /\ sent' = Append(sent, g)
    /\ ends' = Append(ends, Len(wire'))
    /\ UNCHANGED <<is_streaming, phase, pos, entries, final_terminator>>

\* Some bytes at the end of the packet may be missing.
HandOver ==
    /\ phase = "sent"
    /\ \E ending \in Endings : \E n \in 0..Len(wire) + 2 :
          wire' = SubSeq(wire \o ending, 1, n)
    /\ phase' = "read"
    /\ UNCHANGED <<is_streaming, sent, ends, pos, entries, final_terminator>>

----------------------------------------------------------------------------
(* The reader. p counts the bytes before the part in question. *)

TwoBytes(p) == wire[p + 1] + 256 * wire[p + 2]

\* C#: while (BytePosition + 2 < ByteLength) { CheckTerminator(); ... }
AtGroup == pos + 2 < Len(wire) /\ TwoBytes(pos) = 51385

\* At most 5 bytes, up to the first without the top bit.
IdEnds(p) ==
    {n \in 1..5 : p + n <= Len(wire) /\ (n = 5 \/ wire[p + n] < 128)}

IdRead(p) == CHOOSE n \in IdEnds(p) : \A m \in IdEnds(p) : n <= m

\* A slip of the loop, for a mutation run: the top bits stay.
IdValueUnmasked(p, n) ==
    LET Part(i) == IF i > n THEN 0 ELSE wire[p + i] * Weight[i]
    IN  Part(1) + Part(2) + Part(3) + Part(4) + Part(5)

\* The bits of a fifth group past the 32nd are shifted out.
IdValue(p, n) ==
    LET Part(i) == IF i > n THEN 0
                   ELSE (wire[p + i] % (IF i = 5 THEN 16 ELSE 128)) * Weight[i]
    IN  Part(1) + Part(2) + Part(3) + Part(4) + Part(5)

\* The top byte of an i16 or an i32.
Signed(b) == IF b < 128 THEN b ELSE b - 256

SizeValue(p) ==
    IF is_streaming
    THEN TwoBytes(p) + 65536 * wire[p + 3] + 16777216 * Signed(wire[p + 4])
    ELSE wire[p + 1] + 256 * Signed(wire[p + 2])

\* Bytes before the size and before the data of the group at pos.
SizeAt == pos + 2 + IdRead(pos + 2)

DataAt == SizeAt + SizeWidth(is_streaming)

\* A slip of the rounding, for a mutation run: the last bits are forgotten.
WholeBytesOnly(p) == SizeValue(p) \div 8

\* How many bytes of data the size at p announces.
DataLength(p) == (SizeValue(p) + 7) \div 8

\* The group at pos is there to its end. (A negative size, which no sender
\* here writes, has the code slice past its bytes; nothing is said of that.)
GroupArrived ==
    /\ AtGroup /\ IdEnds(pos + 2) # {}
    /\ DataAt <= Len(wire)
    /\ DataAt + DataLength(SizeAt) <= Len(wire)

ReadGroup ==
    /\ phase = "read" /\ GroupArrived
    /\ LET end == DataAt + DataLength(SizeAt)
       IN  /\ entries' = Append(entries,
                 [network_id |-> IdValue(pos + 2, IdRead(pos + 2)),
                  size_bits |-> SizeValue(SizeAt),
                  data |-> SubSeq(wire, DataAt + 1, end)])
           /\ pos' = end
    /\ UNCHANGED <<is_streaming, phase, sent, ends, wire, final_terminator>>

\* A slip of the early returns, for a mutation run: the loop goes round again.
ReturnAtEnd ==
    /\ phase = "read" /\ pos + 2 >= Len(wire)
    /\ phase' = "done"
    /\ final_terminator' = IF pos + 2 <= Len(wire) THEN TwoBytes(pos) ELSE 0
    /\ UNCHANGED <<is_streaming, sent, ends, wire, pos, entries>>

\* Every return of read_entries, early or not.
ReturnEntries ==
    /\ phase = "read" /\ ~GroupArrived
    /\ phase' = "done"
    /\ final_terminator' =
          IF pos + 2 <= Len(wire) /\ ~AtGroup THEN TwoBytes(pos) ELSE 0
    /\ UNCHANGED <<is_streaming, sent, ends, wire, pos, entries>>

Next ==
    \/ \E g \in Groups : ServerWrites(g)
    \/ HandOver \/ ReadGroup \/ ReturnEntries

\* A reader that was called runs to its end.
Spec == Init /\ [][Next]_vars /\ WF_vars(ReadGroup \/ ReturnEntries)

----------------------------------------------------------------------------
(* Properties *)

TypeOK ==
    /\ is_streaming \in BOOLEAN
    /\ phase \in {"sent", "read", "done"}
    /\ sent \in Seq(Groups)
    /\ ends \in Seq(Nat)
    /\ wire \in Seq(Byte)
    /\ pos \in 0..Len(wire)
    /\ entries \in Seq(Groups)
    /\ final_terminator \in Word

\* Exactly the groups that arrived whole are read, in order and unchanged: a
\* packet that lost its end never yields part of a group, a group at a wrong
\* place, or fewer groups than it holds, wherever it was cut, whatever bytes
\* of ids and data look like terminators.
WholeGroupsAreRead ==
    /\ \A k \in 1..Len(entries) : k <= Len(sent) /\ entries[k] = sent[k]
    /\ phase = "done" =>
          \A k \in 1..Len(sent) : ends[k] <= Len(wire) <=> k <= Len(entries)

\* The reader comes to an end on every packet.
EveryPacketIsRead == phase = "read" ~> phase = "done"

\* The note in the test of the captured packet (replication.rs 670-674): "In a
\* complete packet, we would expect to either see no state groups (with
\* terminator != 51385) or complete state groups followed by a non-51385
\* terminator value." The packet above it (613-627) is complete, holds one
\* group, and that is followed by 51385, which the reader returns.
CompletePacketEndsOtherwise ==
    phase = "done" /\ sent # <<>> /\ entries = sent /\ Len(wire) = pos + 2
        => final_terminator # 51385
=============================================================================
