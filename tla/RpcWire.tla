------------------------------- MODULE RpcWire -------------------------------
(***************************************************************************)
(* The tail of an RPC packet (crate-transport/src/rpc.rs): payload,        *)
(* terminator and padding, as the bits that follow the header.             *)
(*                                                                         *)
(* A byte vector is the sequence of its bits, least significant first, so  *)
(* its length is a multiple of 8.  The header is two Varints (whole        *)
(* bytes), a u16, and a Nullable position of 1 or 1 + 192 bits: it always  *)
(* leaves the stream one bit past a byte boundary, and nothing else of it  *)
(* matters here.                                                           *)
(***************************************************************************)
EXTENDS Integers, Sequences

Bit == {0, 1}

\* A slip of the constant, for a mutation run: a value whose bits overlap a
\* shifted copy of themselves.
PeriodicTerminator == <<1, 0, 1, 0, 1, 0, 1, 0, 1, 0, 1, 0, 1, 0, 1, 0>>

\* TERMINATOR = 51385 = 0xC8B9, least significant bit first.
Terminator == <<1, 0, 0, 1, 1, 1, 0, 1, 0, 0, 0, 1, 0, 0, 1, 1>>

HeaderPhase == 1

Zeros(n) == [i \in 1..n |-> 0]

\* A slip of Slack, for a mutation run: the bits past the boundary instead of
\* those missing.
SlackPast(n) == n % 8

\* Bits missing up to the next byte boundary after n bits.
Slack(n) == (8 - (n % 8)) % 8

\* bits_to_bytes: the last chunk is filled up with zeros.
BitsToBytes(bits) == bits \o Zeros(Slack(Len(bits)))

\* A slip of the bound, for a mutation run: `0..7` where the code has `0..=7`.
SixPaddingBits(bits) == IF Len(bits) - 16 < 6 THEN Len(bits) - 16 ELSE 6

MaxPadding(bits) == IF Len(bits) - 16 < 7 THEN Len(bits) - 16 ELSE 7

\* The 16 bits that end `padding` bits before the end.
Candidate(bits, padding) ==
    SubSeq(bits, Len(bits) - padding - 15, Len(bits) - padding)

Paddings(bits) ==
    {p \in 0..MaxPadding(bits) : Candidate(bits, p) = Terminator}

\* The search of the reader stops at the fewest padding bits.
FoundPadding(bits) ==
    CHOOSE p \in Paddings(bits) : \A q \in Paddings(bits) : p <= q

TooShort(bits) == Len(bits) < 16

Parses(bits) == ~TooShort(bits) /\ Paddings(bits) # {}

\* RawRpcPacket::from_bytes, the payload of a tail that parses.
ReadPayload(bits) ==
    BitsToBytes(SubSeq(bits, 1, Len(bits) - FoundPadding(bits) - 16))

\* What to_writer has put into the buffer of a Writer that is not finalized:
\* the whole bytes. compute_checksum of a frame goes no further; for
\* RawRpcPacket::to_bytes it is the slip of a mutation run.
Flushed(payload) ==
    LET bits == payload \o Terminator
    IN  SubSeq(bits, 1, Len(bits) - ((HeaderPhase + Len(bits)) % 8))

\* RawRpcPacket::to_bytes: payload bytes, terminator, and the zeros of
\* Writer::finalize.
WriteTail(payload) ==
    payload \o Terminator \o Zeros(Slack(HeaderPhase + Len(payload) + 16))
=============================================================================
