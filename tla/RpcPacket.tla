------------------------------ MODULE RpcPacket ------------------------------
(***************************************************************************)
(* RawRpcPacket between the game and this crate: the game puts a payload   *)
(* of any number of bits on the wire, with whatever its buffer held as     *)
(* padding; the crate parses, and may serialise what it parsed or a packet *)
(* of its own, which it or a peer parses again.  A caller may also hand    *)
(* from_bytes a slice that is cut short.                                   *)
(***************************************************************************)
EXTENDS RpcWire

CONSTANTS
    GamePayloads,   \* bit sequences the game may send as a payload
    OwnPayloads,    \* byte vectors the application may build a packet from
    None

ASSUME GamePayloadsAssumption == GamePayloads \subseteq Seq(Bit)
ASSUME OwnPayloadsAssumption ==
    OwnPayloads \subseteq {p \in Seq(Bit) : Len(p) % 8 = 0}
ASSUME NoneAssumption == None \notin Seq(Bit)

VARIABLES
    wire,      \* the tail of the packet last put on the wire
    sent,      \* the payload bits it was made from, None before the first
    intact,    \* FALSE once the tail was cut
    payload,   \* RawRpcPacket.payload of the last parse or construction
    result     \* of the last from_bytes

vars == <<wire, sent, intact, payload, result>>

Results == {"none", "ok", "too_short", "no_terminator"}

Init ==
    /\ wire = <<>>
    /\ sent = None
    /\ intact = FALSE
    /\ payload = None
    /\ result = "none"

\* One packet of the game starts a behaviour: parsing keeps nothing between
\* packets.
GameSends(bits) ==
    /\ sent = None
    /\ \E junk \in [1..Slack(HeaderPhase + Len(bits) + 16) -> Bit] :
          wire' = bits \o Terminator \o junk
    /\ sent' = bits
    /\ intact' = TRUE
    /\ UNCHANGED <<payload, result>>

\* A slice that ends `bytes` bytes early; the header itself stays.
CutShort(bytes) ==
    /\ sent # None /\ result = "none"
    /\ 8 * bytes <= Len(wire)
    /\ wire' = SubSeq(wire, 1, Len(wire) - 8 * bytes)
    /\ intact' = FALSE
    /\ UNCHANGED <<sent, payload, result>>

FromBytes ==
    /\ sent # None /\ result = "none"
    /\ \/ /\ TooShort(wire)
          /\ result' = "too_short"
          /\ payload' = None
       \/ /\ ~TooShort(wire) /\ Paddings(wire) = {}
          /\ result' = "no_terminator"
          /\ payload' = None
       \/ /\ Parses(wire)
          /\ result' = "ok"
          /\ payload' = ReadPayload(wire)
    /\ UNCHANGED <<wire, sent, intact>>

\* The application fills in a RawRpcPacket itself.
Construct(bytes) ==
    /\ payload' = bytes
    /\ result' = "none"
    /\ UNCHANGED <<wire, sent, intact>>

ToBytes ==
    /\ payload # None
    /\ wire' = WriteTail(payload)
    /\ sent' = payload
    /\ intact' = TRUE
    /\ result' = "none"
    /\ UNCHANGED payload

Next ==
    \/ \E bits \in GamePayloads : GameSends(bits)
    \/ \E bytes \in 1..3 : CutShort(bytes)
    \/ FromBytes
    \/ \E bytes \in OwnPayloads : Construct(bytes)
    \/ ToBytes

Spec == Init /\ [][Next]_vars

----------------------------------------------------------------------------
(* Properties *)

TypeOK ==
    /\ wire \in Seq(Bit)
    /\ sent \in Seq(Bit) \cup {None}
    /\ intact \in BOOLEAN
    /\ payload \in Seq(Bit) \cup {None}
    /\ payload # None => Len(payload) % 8 = 0
    /\ result \in Results

\* The unframed payload comes back: the backward search for the terminator
\* (rpc.rs 110-131) stops at the one the sender wrote, whatever the payload
\* ends in and whatever junk fills the padding, so an intact packet is never
\* rejected and its payload is the sent bits filled up to a byte.
IntactPayloadComesBack ==
    /\ result = "ok" /\ intact => payload = BitsToBytes(sent)
    /\ result \in {"too_short", "no_terminator"} => ~intact

\* A slice that was cut can still be accepted, when the payload happens to
\* contain the terminator near the cut; what is then read is a prefix of the
\* payload and never reaches into the real terminator or the padding.
AcceptedIsPrefix ==
    result = "ok" =>
        \E n \in 0..Len(sent) : payload = BitsToBytes(SubSeq(sent, 1, n))

\* What the crate serialises it parses back unchanged, for every packet it
\* holds, parsed or built.
RewriteIsStable ==
    payload # None =>
        /\ (HeaderPhase + Len(WriteTail(payload))) % 8 = 0
        /\ Parses(WriteTail(payload))
        /\ ReadPayload(WriteTail(payload)) = payload
=============================================================================
