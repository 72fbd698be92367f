----------------------------- MODULE PacketFrame -----------------------------
(***************************************************************************)
(* PacketFrame (crate-transport/src/packet.rs) around an RPC packet: built *)
(* or parsed, perhaps edited, serialised with a fresh checksum, damaged on *)
(* the way, parsed and validated by a peer that runs this crate.  The game *)
(* sends frames too, with its checksum over the bytes as they are sent.    *)
(***************************************************************************)
EXTENDS RpcWire

CONSTANTS
    Heads,          \* packet_index, packet_count and the whole bytes of inner
                    \* before the RPC tail
    GamePayloads,   \* bit sequences the game may send as an RPC payload
    OwnPayloads,    \* byte vectors the application may put into a frame
    Zero,           \* checksum 0, of a frame that was never serialised
    AllOnes,        \* 0xffffffff, which the game puts into unprotected frames
    Garbled,        \* a checksum damaged on the wire
    None,
    MaxDamages      \* bound on the damages of a behaviour

\* CRC_32_ISO_HDLC, as if no two inputs had the same checksum.
Crc(head, bits) == [head |-> head, bits |-> bits]

Checksums ==
    [head : Heads, bits : Seq(Bit)] \cup {Zero, AllOnes, Garbled}

MessageTypes == {"Unprotected", "TamperResistant"}

Bytes == {p \in Seq(Bit) : Len(p) % 8 = 0}

Frames == [type : MessageTypes, checksum : Checksums, head : Heads, payload : Bytes]

Wires == [type : MessageTypes, checksum : Checksums, head : Heads, tail : Seq(Bit)]

Sendings == [by : {"crate", "game"}, head : Heads, bits : Seq(Bit)]

ASSUME PayloadsAssumption ==
    GamePayloads \subseteq Seq(Bit) /\ OwnPayloads \subseteq Bytes
ASSUME SentinelsAssumption ==
    \A c \in {Zero, AllOnes, Garbled} : c \notin [head : Heads, bits : Seq(Bit)]
ASSUME NoneAssumption == None \notin Frames \cup Wires \cup Sendings
ASSUME MaxDamagesAssumption == MaxDamages \in Nat

VARIABLES
    frame,     \* the PacketFrame at hand, None before the first
    wire,      \* the serialised frame under way: its fields and the bits of the
               \* RPC tail; None when there is none
    sent,      \* what its sender put into it
    intact,    \* FALSE once it was damaged
    damages    \* how many damages there were

vars == <<frame, wire, sent, intact, damages>>

Init ==
    /\ frame = None
    /\ wire = None
    /\ sent = None
    /\ intact = TRUE
    /\ damages = 0

----------------------------------------------------------------------------
\* A slip of compute_checksum, for a mutation run: without the inner packet.
ChecksumOfHead(f) == Crc(f.head, <<>>)

\* compute_checksum serialises the inner packet again, into a Writer that is
\* not finalized.
ComputeChecksum(f) == Crc(f.head, Flushed(f.payload))

\* A slip of write_checksum, for a mutation run: the field as it stands.
ChecksumField(f) == f.checksum

\* write_checksum, the writer of the checksum field.
WrittenChecksum(f) == ComputeChecksum(f)

ValidateChecksum(f) == f.type = "Unprotected" \/ f.checksum = ComputeChecksum(f)

\* A slip of the inner reader, for a mutation run: the last byte not filled up.
ReadFrameUnfilled(w) ==
    [type |-> w.type, checksum |-> w.checksum, head |-> w.head,
     payload |-> SubSeq(w.tail, 1, Len(w.tail) - FoundPadding(w.tail) - 16)]

\* The frame from_reader returns: the checksum is kept and not looked at.
ReadFrame(w) ==
    [type |-> w.type, checksum |-> w.checksum, head |-> w.head,
     payload |-> ReadPayload(w.tail)]

----------------------------------------------------------------------------
\* PacketFrame::unprotected and ::tamper_resistant.
New(type, head, bytes) ==
    /\ wire = None
    /\ frame' = [type |-> type, checksum |-> Zero, head |-> head, payload |-> bytes]
    /\ UNCHANGED <<wire, sent, intact, damages>>

\* All fields of a frame but its checksum are public.
Edit(type, head, bytes) ==
    /\ wire = None /\ frame # None
    /\ frame' = [type |-> type, checksum |-> frame.checksum, head |-> head, payload |-> bytes]
    /\ UNCHANGED <<wire, sent, intact, damages>>

\* to_bytes leaves the frame as it is.
ToBytes ==
    /\ wire = None /\ frame # None
    /\ wire' = [type |-> frame.type, checksum |-> WrittenChecksum(frame),
                head |-> frame.head, tail |-> WriteTail(frame.payload)]
    /\ sent' = [by |-> "crate", head |-> frame.head, bits |-> frame.payload]
    /\ intact' = TRUE
    /\ UNCHANGED <<frame, damages>>

\* The game's checksum is of the bytes it sends: the frame captured from it in
\* packet.rs 224-232 carries the CRC-32 of its own bytes 6 to the end. Parsing
\* keeps nothing between frames, so one frame of the game starts a behaviour.
GameSends(type, head, bits) ==
    /\ wire = None /\ frame = None
    /\ \E junk \in [1..Slack(HeaderPhase + Len(bits) + 16) -> Bit] :
          LET tail == bits \o Terminator \o junk
          IN  wire' = [type |-> type,
                       checksum |-> IF type = "Unprotected" THEN AllOnes ELSE Crc(head, tail),
                       head |-> head, tail |-> tail]
    /\ sent' = [by |-> "game", head |-> head, bits |-> bits]
    /\ intact' = TRUE
    /\ UNCHANGED <<frame, damages>>

\* A bit of the tail, something before it, the checksum, or the message type.
Damaged(w) ==
    {[w EXCEPT !.tail[i] = 1 - @] : i \in 1..Len(w.tail)}
    \cup {[w EXCEPT !.head = h] : h \in Heads \ {w.head}}
    \cup {[w EXCEPT !.checksum = Garbled]}
    \cup {[w EXCEPT !.type = t] : t \in MessageTypes \ {w.type}}

Damage ==
    /\ wire # None /\ damages < MaxDamages
    /\ wire' \in Damaged(wire)
    /\ intact' = FALSE
    /\ damages' = damages + 1
    /\ UNCHANGED <<frame, sent>>

\* An inner packet that does not parse fails the frame; the caller keeps what
\* it had.
FromReader ==
    /\ wire # None
    /\ frame' = IF Parses(wire.tail) THEN ReadFrame(wire) ELSE frame
    /\ wire' = None /\ sent' = None /\ intact' = TRUE
    /\ UNCHANGED damages

Next ==
    \/ \E t \in MessageTypes, h \in Heads :
          \/ \E bytes \in OwnPayloads : New(t, h, bytes) \/ Edit(t, h, bytes)
          \/ \E bits \in GamePayloads : GameSends(t, h, bits)
    \/ ToBytes \/ Damage \/ FromReader

Spec == Init /\ [][Next]_vars

----------------------------------------------------------------------------
(* Properties *)

TypeOK ==
    /\ frame \in Frames \cup {None}
    /\ wire \in Wires \cup {None}
    /\ sent \in Sendings \cup {None}
    /\ wire = None <=> sent = None
    /\ intact \in BOOLEAN
    /\ damages \in 0..MaxDamages

\* Whatever the application did to a frame before it serialised it, built it,
\* received it, edited it under an old checksum, a peer that runs this crate
\* gets the frame it sent and validates it: the checksum computed from the
\* serialised inner packet (packet.rs 98-122) is the one computed from the
\* parsed one.
OwnFrameValidates ==
    wire # None /\ intact /\ sent.by = "crate" =>
        /\ Parses(wire.tail)
        /\ ValidateChecksum(ReadFrame(wire))
        /\ ReadFrame(wire).head = sent.head
        /\ ReadFrame(wire).payload = sent.bits

\* A tamper-resistant frame that validates is the one that was sent, although
\* the checksum is never compared with the bytes received but with those of
\* the parsed frame, and although the reader looks for the terminator where
\* it can find it: no damage that validates changes what the frame says.
ValidatedIsSent ==
    wire # None /\ Parses(wire.tail) /\ wire.type = "TamperResistant"
    /\ ValidateChecksum(ReadFrame(wire)) =>
        /\ ReadFrame(wire).head = sent.head
        /\ ReadFrame(wire).payload = BitsToBytes(sent.bits)

\* The doc of validate_checksum (packet.rs 126-128): true if "the packet is
\* tamper-resistant and the checksum matches". The checksum the game put into
\* an intact frame is of all its bytes; that of compute_checksum lacks the
\* last one, which is never whole.
GenuineFrameValidates ==
    wire # None /\ intact /\ sent.by = "game" => ValidateChecksum(ReadFrame(wire))
=============================================================================
