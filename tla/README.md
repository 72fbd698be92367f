# Verification of space_enginee.rs

TLA+ models, TLC runs and TLAPS proofs for the Rust implementation of the
Space Engineers network protocol in this repository (`crate-transport`,
`crate-compat`). Paths below are relative to `src/`.

The repository is a library: it parses and serialises packets, translates
version-specific ids to stable hashes and back, and shows, in
`examples/parse_rpc.rs`, how a client tracks replicated objects with it. There
are no threads, no timers and no persistence. What is hard is elsewhere: framing
that is found by searching, a checksum taken over a second serialisation, tables
loaded from whatever file is on disk, packets whose counts and conditions are fields
like any other, server rules published and asked for one by one, and a client whose
events carry nothing but an id and may arrive before or after the object they are for.

## 1. Inventory

| Component | State | Operations | Talks to | Hard part | Correct when |
|---|---|---|---|---|---|
| Replicated-object client (`crate-transport/examples/parse_rpc.rs`) | type by network id, grids with event counts, characters | `on_replication_create`, `on_replication_destroy`, `receive_packet` | version schema (ids to hashes), RPC packets, generated events | unordered and lost events, id reuse, three maps kept in step | it shows some past world of the server, and goes only forward |
| Version schema (`protocol/version/mod.rs`) | two flat tables, one event table per type | `load`/`from_json`, decode and encode per table | used by RPC packets and the client | gaps, repeated ids and hashes, a per-group local | answers only what the file says, but for the 0 of a gap; both directions agree, but for the hash 0 |
| RPC packets (`rpc.rs`) | none; a packet is a value | `from_bytes`, `to_bytes`, `resolve_*` | inside packet frames | terminator found backwards through junk, bits rounded to bytes | an intact payload comes back; what is written can be read |
| Packet frames (`packet.rs`) | a frame with a private checksum | `new`, field edits, `to_bytes`, parse, `validate_checksum` | wraps RPC and replication packets | checksum of the parsed frame, not of the bytes | own frames validate, damaged ones do not |
| State groups (`replication.rs` 233-402) | none | reader with early returns, writer | inside `ServerStatePacket` | no count, truncation is silent, sizes in two widths, ids and data that look like terminators | exactly what arrived whole is read |
| Replication packets (`replication.rs`), control packets (`control.rs`) | none; packets are values with public fields | `from_bytes`, `to_bytes`, `update` | inside packet frames | counts, flags and ids that are fields beside what they speak of, Options against their flags, packets that end early | what is read could have been written, and is never another packet as far as its fields are written as they are read |
| Server rules (`server_data.rs`) | none; the rules are Steam's | `encode_rules`, `decode_rules` | Steam key-value store | rules of two publications in one query, chunks left from a longer publication, missing rules | a query decodes what was published lately or fails |
| Bit codecs (`crate-compat/src/deku.rs`, `nullable.rs`, `bitfield.rs`, `collections.rs`) | none | read, write | everything above | unaligned bytes, sign extension of `Varint`, streams that end early, readers narrower than the writer, a map under a count of pairs | reading inverts writing or fails |
| BCL time types (`crate-compat/src/bcl.rs`) | none | conversions to and from `Duration` | generated types | units, lost sub-seconds | |
| Generated protocol (`protocol/static_events`, `instance_events`, `replicated_types.rs`) | none | `from_hash`, `parse_payload`, `accept` | client, bit codecs | payloads are all codecs nested in each other | dispatches to the event of the hash, its payload is read as written |
| Code generator (`codegen/Plugin`) | tables of the running game | writes schema files and Rust code | produces the inputs of the above | `ushort` casts, hash of names | |
| Math, directions, XML, compression, game data types | none | conversions | | floating point, external crates | |

What flows between them: bytes enter as a packet frame, whose inner packet is
parsed by the frame's reader; an RPC packet's event id is resolved by a schema, for
an instance event in the table of the type that the client recorded when a
replication create arrived; the payload is parsed by the generated event and
handed to a visitor, which counts.

## 2. Modules

| Module | Models | State in the code |
|---|---|---|
| `LookupTable` | `InstanceEventSchema` and the two flat tables: `LoadEntry`, `Decode`, `DecodeSlot`, `Encode`; `Put`, `Remove` for hash maps | `*_to_hash` is `slots`, `*_to_id`/`*_to_index` is `ids` |
| `VersionSchema` | the loaders, one action per entry of the file | the tables of `Version`, the local `instance_schema`; `section`/`group` are the place in the file, `loaded` is history: exactly the pairs each table was built from |
| `RpcWire` | the tail of an RPC packet: payload, terminator, padding; the search; the writer | pure operators |
| `RpcPacket` | game, crate and caller around `RpcWire` | `payload`, `result` of `from_bytes`; `wire`, `sent`, `intact` are the environment |
| `PacketFrame` | frames around an RPC packet, their checksum, the wire | `frame` is `PacketFrame`; `wire`, `sent`, `intact`, `damages` are the environment |
| `Varint` | `write_varint` and `read_varint` of both signs | pure operators |
| `PacketFields` | what deku's derive makes of a struct: fields with codecs and conditions, their writer and reader (`BitAligned`, `BitBool`, `Varint`, `VarVec`, `VarBytes`, `VarString`, `VarMap`, `Tuple`, `BitField`, `Nullable`, enumerations, `count`, `cond`, `read_all`) | pure operators |
| `EventPayloads` | ten static events with one payload for every codec that payloads use | layouts |
| `ReplicationPackets` | the packets of the replication and control channels and those events inside RPC packets: a caller who builds, updates, writes and forwards them, a wire that cuts them, the reader | `name`, `id`, `fields` are the packet value; `phase`, `sent`, `wire`, `whole` are the environment |
| `ServerRules` | `encode_rules` and `decode_rules` between a server that publishes rule by rule and a client that asks rule by rule | `rules` is Steam's store; `current`, `todo` the publication, `latest`, `begun` history; `phase`, `answer`, `result` the query, `first`, `recent`, `quiet` history |
| `StateGroups` | `StateGroups::read_entries`, one step per iteration of its loop, every early return in `ReturnEntries` | `wire` is `remaining_bytes`; `pos`, `entries`, `final_terminator`; `sent` and `ends` are history |
| `LaggingReplica` | the abstract promise of a replicating client | |
| `ReplicationClient` | `GameClient`/`ReplicationState` and a server (`MockServer` generalised) | `type_by_network_id`, `grids`, `characters`; `world`, `past`, `log`, `pos`, `loose` are server and transport |
| `MC*` | constants for TLC | |
| `*Proofs` | theorems of the module they are named for; `RpcWireProofs` holds the lemmas that `RpcPacketProofs`, `PacketFrameProofs` and `ReplicationPacketsProofs` share; `ReplicationClientProofs` ends with the refinement, `ReplicationPacketsProofs` is for `Varint`, `PacketFields` and `EventPayloads` too | |

`ReplicationClient` uses the tables of `LookupTable` with the properties that
`VersionSchemaProofs` proves of every unambiguous file (its `TablesAssumption`).
`RpcPacket` and `PacketFrame` share `RpcWire`. `ReplicationPackets` extends
`EventPayloads`, `PacketFields` and `Varint`, and composes them with `RpcWire`: an event is
written into an RPC packet under `Packet::Rpc`, found again by the search for the
terminator and parsed from bytes that were filled up. `StateGroups` does not use `Varint`:
`read_entries` decodes its network ids with a loop of its own, on bytes, of at
most five groups and without an error.

Operators named after a slip (`LoadEntrySwapped`, `CreateUncounted`,
`ReadUpTo`, ...) are wrong versions of the definition that follows them.
Nothing uses them: substituting one for the definition shows that a property can
fail. `RpcWire!Flushed` is both: what `compute_checksum` really hashes, and the
slip of a `to_bytes` that forgets `finalize`.

### Abstractions

- **Bits.** A byte vector is the sequence of its bits, least significant first.
  In `RpcPacket` and `PacketFrame`, of the RPC header only its length modulo 8 matters for what follows: two varints
  (whole bytes), a `u16`, and a position of 1 or 1 + 192 bits, hence
  `HeaderPhase == 1`. Inside a frame whole bytes precede it, so the phase is the same.
- **deku's writer** (an external crate) emits whole bytes as they fill up and the
  remaining bits only in `finalize`, which `to_bytes` calls and `compute_checksum`
  does not. This is how the code uses it, and the captured frame in `packet.rs`
  agrees: its checksum is the CRC-32 of all its bytes from the seventh on.
- **CRC-32** is injective (`Crc` is the record of its input). A damaged checksum is
  the value `Garbled`, equal to no computed one. Chance collisions are left out.
- **Network ids, types and hashes** are numbers or model values. Event hashes
  are put into the classes the client tells apart: known to `from_hash`
  (`GridEvents`), with a payload (`PayloadEvents`), with a visitor method the client
  overrides (`VisitedEvents`), reliable in the schema (`ReliableEvents`).
- **The transport** between server and client is not in this repository. Messages
  that the schema calls reliable arrive once and in order; the others are lost or
  arrive at any later time. All events the client counts are reliable in
  `embedded_schema.json` (`EventsAssumption`).
- **State groups** are written by the game, not by this crate, so `ServerWrites` is
  external: a group is what `read_entries` takes it to be, its bits filled up to a byte.
  Sizes are not negative, and larger than an `i16` only in streaming packets. The up
  to seven bits of the stream after its last whole byte are dropped, as the code
  does, and not represented.
- **Fields of packets.** A codec of fixed size (`BitAligned`, floats, vectors) has
  `WideBits` bits, or `OctetBits` where it is a count of type `u8`: what matters of it is
  that it is there, and what it says where it is a flag or a count. Records of such
  fields only (`StatisticsState`, an entity of `ReplicationIslandDone`, the player builder) are
  one of them. Varints keep their groups of seven bits, in types of 20 bits (`u64`) and 16
  bits (`u32`, `i32`): three groups at most, the last of which the type cuts. Strings are of
  one-byte characters, a `VarMap` is a function. Enumerations keep their bits and
  their legal values. A position is one byte instead of 24; a string hash has 16 bits, so that
  a terminator can be inside it. The game puts an event's payload on the wire bit by bit, this
  crate as bytes (`asBytes`); junk behind the terminator is `RpcPacket`'s.
- **deku's derive** is an external crate and not vendored here: `PacketFields` states what we take
  it to do. It writes the fields in order, all of them: a `cond` without `skip` is for
  the reader. It reads them in order with the conditions evaluated over what was read,
  and gives a field that is not there its default. An `Option` writes its value or nothing, so
  in a packet in step it is written as it is read; the six conditional fields of `ClientState` that
  are no `Option`s (`replication.rs` 165-186) are written and, if their flag is off, not
  read. No test of the repository writes a `ClientState`. `update` sets the counts from the vectors, `as` their type. A packet is a function
  from names to values; what does not fit is `Failed`, and `Then` is the `?` of the readers.
  No operator of these modules is recursive: loops over elements and fields are recursive
  functions on `0..n`, and codecs do not nest deeper than a part (`ReadPart`) in a field (`ReadValue`).
- **Memory.** The readers of collections make room for all the elements that a length on the
  wire announces before they read one (`deku.rs` 1283, `collections.rs` 206). Where there is not the memory,
  the process may end; in `ReadMany` such a length is `Failed`, as it is where there is.
- **`ServerStatePacket`** carries its `state_groups` as bytes up to the end. What
  `ReplicationPackets` says of it is said of these bytes; what `read_entries` makes of them, which
  drops what it cannot parse, is `StateGroups`. This crate's writer adds a terminator 0 to them,
  so a packet sent on is not the same bytes.
- **Server rules.** Settings are model values and their compressed images short
  byte sequences; base64, the decimal size and protobuf are one-to-one and left out.
  `ChecksumAssumption` stands for gzip's length and CRC: no image is made of chunks of
  others alone. The order of `set` is that of a hash map, any; the client gets
  whatever rules are there at the time, one by one.
- **A schema file** is a sequence of entries chosen freely, so it may repeat ids,
  hashes and groups. Names, declaring types and `is_reliable` are not kept by the code
  beside the tables and not modelled.

## 3. Runs

| Run | Shows | Bounds, and why they are enough |
|---|---|---|
| `replication_client` | the client shows the server's worlds one after the other and catches up (`ReplicaSpec`, `CatchesUp`), its maps agree, reliable events find their objects | 2 ids, 3 types (grid, character, unhandled), 4 reliable messages, 1 loose: enough for create, destroy, and an event between, before or after them. The unhandled type numbers its events differently from the grid; the grid's table has a gap |
| `replication_reuse` | the same without what depends on an id being given once | 4 messages: create, destroy and create again with another type, and a loose event from the first life |
| `rpc_packet` | search, cut slices, rewriting | payload lengths of every residue modulo 8, with and without the terminator's bits inside, at its end and overlapping its start; every junk; cuts of 1 to 3 bytes, past the terminator and into the payload |
| `packet_frame` | own frames validate; nothing damaged validates as something else | 2 heads, 4 game payloads of different padding, 2 own ones, 2 damages: a damage of the tail and one of type or checksum |
| `schema` | every table, asked by its own methods, answers what the file says: a gap of an instance table answers 0 (`GapAnswer`), a hash 0 of a flat table encodes and decodes to nothing (`Decoded`), and these are the only exceptions | 3 ids, 3 hashes (one is 0), 2 groups, 3 entries: a repeated id, a repeated hash and a gap, in one table or across two |
| `replication_packets` | no packet becomes another (`NeverAnotherPacket`; a `ClientUpdate` up to `has_controlled_entity`), of an event that was cut no more is made up than zeros can say (`CutEventKeepsItsStart`), every readable one is read, what is read is in step and can be written | all 17 packets of the replication channel made of fields, 4 control packets, 10 events with every header (target or none, position or none) and as bits or bytes; every mix of counts, flags and options, in step and not; twelve packets under another one's id, of the same and of another kind; each packet updated or not, cut after every byte, forwarded; varints of every number of groups, with the sign bit and at the ends of the type; vectors longer than an `OctetBits` count can say; the bits of a terminator in a hash, in a string and in the bytes of an unknown event |
| `server_rules` | a query decodes what was published lately; undisturbed, what was published last | 3 settings: two of three chunks, of which the first is the same, and one of one chunk; chunks of 3 bytes; 3 publications, so that a longer one is overwritten by a shorter and a leftover chunk comes back; every order of the rules on both sides |
| `state_groups` | exactly the whole groups are read, every read ends | up to 3 groups of 4: ids of one, two, three and five bytes, among them 51385; no data, a part of a byte, the bytes of a terminator, the bytes of a whole empty group; both widths, cut after every byte |
| `frame_genuine` (violation) | `GenuineFrameValidates` fails | one frame |
| `schema_gap` (violation) | `UnknownInstanceIdIsNone` fails | one group, 2 entries |
| `replication_signed` (violation) | `SignedIsRead` fails | one `PlayerData` whose serial id is below -8192, in a type of 16 bits |
| `state_groups_ending` (violation) | `CompletePacketEndsOtherwise` fails | one group |

Deadlock is checked in `rpc_packet`, `packet_frame` and `server_rules`. A schema file
ends, the server of the client runs stops at its bound, `read_entries` returns, and a
packet that was not read is the end of its run, so there it is not.

`AnswersWereLoaded`, `EncodeThenDecode`, `DecodeThenEncode` and `EveryEntryAnswers` quantify over all tables
there are and use for each the method the code has for it (`DecodeIn`, `EncodeIn`). "Every packet" in
`state_groups` is every packet of non-negative sizes. `packet_frame` damages the head and
the tail of a frame apart: damage that moves the boundary between the RPC header and the
payload is not covered.

Every message the client model can send is bounded by `MaxMessages` and `MaxLoose`,
every schema by `MaxEntries`, damage by `MaxDamages`, publications by
`MaxPublications`, the groups of a packet by `MaxGroups`.

### What the violations say

- **`GenuineFrameValidates`.** `compute_checksum` (`packet.rs` 109-122) serialises
  the parsed inner packet into a `Writer` that is never finalized. An RPC packet
  never ends on a byte boundary before padding unless its payload happens to, so the
  last byte, part of the terminator or of the padding, is missing from what is hashed; the
  game's checksum covers it. `validate_checksum` therefore rejects every genuine
  tamper-resistant RPC frame. `GenuineNeverValidates` proves it for every payload and
  every padding. Frames of this crate validate with this crate, because both sides
  leave out the same byte.
- **`UnknownInstanceIdIsNone`.** The loader pads a table with 0. The flat tables
  answer a padding slot with "unknown", `InstanceEventSchema::decode_event_id` answers 0.
  The embedded schema has no gaps.
- **`SignedIsRead`.** `read_varint` of a signed type extends the sign only while the
  groups leave bits of the type free (`deku.rs` 205). A negative value whose groups
  reach its width (`i8` below -64, `i16` below -2^13, `i32` below -2^27, `i64` below
  -2^62) is written and then refused by `try_from`. It never becomes another value:
  `NeverAnotherPacket` holds, and `ReadableIsRead` says which values are safe. The
  only field of a packet it bites is `player_serial_id` of `PlayerData`.
- **`CompletePacketEndsOtherwise`.** The note in the test of the captured server state
  packet (`replication.rs` 670-674) takes that packet for truncated and expects a
  complete one to end in something other than 51385. It is complete: one group of
  138 bytes, then 51385, which `read_entries` returns because exactly two bytes are
  left, without having looked at them. The writer of this crate ends its packets in 0
  (`replication.rs` 266). `Endings` has both.

### What TLC counterexamples taught

With `ReuseIds` and a loose message, `ReplicaIsPast` fails: an unreliable event fired
at an object that has been destroyed arrives when its id belongs to a second object of
another type, its event id is decoded in that type's table, names a counted
event there and is counted. Nothing in the packet would let the client notice
(`blocked_by_network_id` is parsed and never used). The example excludes it: "Each
network_id corresponds to a specific instance of a replicated type"
(`parse_rpc.rs` 366). So `ReuseIds` is FALSE in `replication_client`, the theorems
`ReplicaPast` and `ReplicaRefines` assume `OneLife == ~ReuseIds \/ MaxLoose = 0`, and
`replication_reuse` checks what does not need it.

A query that overlaps a publication can do worse than fail. With the size of a
shorter publication and a chunk of a longer one, `decode_rules` copies past the end of
its buffer and panics (`server_data.rs` 148); with the size of the longer one back
and its last chunk left over, it can decode what was published before last; with chunks
of both it finds bytes that do not decompress. `DecodedIsRecent` is what remains true of
every query, `QuietQueryDecodes` what is true of one that nothing overlaps: it never panics
and never meets undecodable bytes.

A cut RPC packet is usually refused, for want of its terminator. `RpcPacket` shows that it
is accepted if the terminator's bits are in the payload, near the cut; with the fields
of the events in it, `ReplicationPackets` shows what this means for them. The payload is filled up
with zeros to a byte (`rpc.rs` 167), and these stand in for what was lost: a
`DoDamageSlimBlockBatch` whose `extra_info` is the hash 0x645C (in the code: any hash with these low 15
bits) and that is cut behind them is read, with `extra_info` absent. Only so much is
ever made up as seven zeros can say: `CutEventKeepsItsStart` allows one field that differs (a
last byte, a vector or string that became empty, a `None`) and less than a byte of fields
after it, and no event is read as another one. `NeverAnotherPacket` says of everything else
that it is read as itself or refused; there only a last field without a length of its own
(`read_all`) may end early.

`parse_static_event`, which the model uses, refuses a packet with a target (`rpc.rs` 266).
`StaticRpcPacket` does not look at it (`rpc.rs` 333) and leaves `is_static_event` to its caller.

Even a `ClientUpdate` that is in step comes back as another one. Its reader skips `position` and
what follows when their flags are off, its writer does not: the bits of a field that was
written and not read are taken for those of the next field. So `NeverAnotherPacket` excepts
the fields behind the first that is not written as it is read (`FieldsReadAsWritten`); up
to `has_controlled_entity` the packet is read as itself. It is always read, `ReadableIsRead`: all its fields
are of fixed size and legal whatever their bits, and the reader takes no more of them
than were written. No line of the repository claims more of a packet that this
crate writes, so this is no disagreement of the code with its documents.

A packet whose fields are not in step (a stale count, an `Option` against its flag, data
under another id) may well be read, as something else: the fields are public and the
writer does not compare them. What TLC shows is that the reader cannot *produce*
such a packet (`WhatIsReadIsInStep`), so everything that was received can be forwarded.

### Fairness

In the client runs only `WF(DeliverReliable)`: a reliable channel delivers what it holds and a
single-threaded client handles each message to the end. Nothing is assumed of the
server, which may stop at any time, or of loose messages, which may all be lost. In `state_groups`
`WF(ReadGroup \/ ReturnEntries)`: `read_entries` is a synchronous call that waits for
nothing, so it takes its next step; writing and cutting the packet have no fairness.

## 4. Proofs

All theorems are of the form `Spec => []Inv` for arbitrary constants, under the named
ASSUMEs of the modules.

- **`VersionSchemaProofs`.** `TableInv` says of a table and exactly the pairs it was built from that
  every slot holds a pair of its id or, where no pair has the id, the padding; that every way
  back leads to a pair; and that every pair left its id in the vector and its hash in the
  map. `LoadEntry` preserves it whatever the entry (`LoadEntryInv`), and `IInv` has it of
  both flat tables, of every finished group and of the group being read. `DecodedId` and
  `EncodedHash` turn it into what each table's own methods answer, from which the properties
  follow. `AnswersWereLoaded` alone is not inductive: it says nothing of the group being read.
- **`RpcWireProofs`.** The heart is `NoOverlap`: the terminator 0xC8B9 does not match itself
  shifted by 1 to 7 bits whatever bits follow it. Hence the backward search through at
  most 7 bits of junk cannot stop early (`ReadOfFramed`), and what the crate writes
  reads back (`WrittenTail`). The mutant `PeriodicTerminator` shows it is the constant that
  matters. `TailArrived` says the same of bits whose end is missing (`Arrived`): if a terminator is
  found, the payload is a start of what was sent. The module also holds what other proofs
  share: `Least` and `Induction`, and facts about division (`DivMod`, `ModRange`, `DivEight`).
- **`RpcPacketProofs`.** The invariant relates `wire` to `sent`: framed and padded while
  intact, a prefix of that otherwise; and, after a parse, `payload` to both.
- **`PacketFrameProofs`.** The invariant relates the checksum on the wire to its
  sender: the crate's is of the flushed bits of what it sent, the game's of its whole
  tail. `FlushedInjective`: two payloads of whole bytes with the same flushed bits
  are the same, although the last byte is missing. `GameChecksumIsOther`:
  the game's tail is longer than any flushed one that could equal it.
- **`ReplicationClientProofs`.** The invariant adds to the properties a history: each
  message of `log` is what led from one world of `past` to the next, and was legal there.
  The refinement is at its end. For `ReplicaIsPast` one must know that no loose message
  is ever counted: each stems from a create in the log (`Stale`) and names an event that is
  not reliable in that type's table; with one life per id the type the client has for the id
  is that one. `ReplicaRefines` then maps every delivery to `Show`, every
  reliable send to `Change` and the rest to a stutter.

- **`StateGroupsProofs`.** The invariant adds two parts to the properties. `Layout`:
  the bytes of group *k* stand at its place in `wire`, as far as they arrived;
  `ReadSoFar`: the reader stands at the end of a group, and has read those before it.
  Together they say that the reader never looks for a group inside another one,
  which is why bytes of ids and data that look like terminators do no harm.
  `IdIsRead` and `SizeIsRead` invert the encodings of id and size for every value, and
  `GroupIsRead` combines them: a group at `pos` is taken to have arrived exactly
  when its last byte has.

- **`ServerRulesProofs`.** `ServerInv`: every chunk set stems from a publication begun
  (`Stem`); what is being published is there, but for `todo`; in place of a rule of what
  was published last there may be one of what is being published. `QueryInv`: at the places
  of `first` the rules and the answer stem from what is `recent`, and an undisturbed
  answer is part of the rules. `QuietQueries` then follows from the arithmetic of chunks
  (they tile the image, the last one ends with it: `ChunkFacts`, `DecodeOfOne`), and
  `RecentQueries` from `ChecksumAssumption` (`DecodedFromChunks`).

- **`ReplicationPacketsProofs`**, from the integers up. The proofs hold for all widths
  (`TypesAssumption`: types of 8 to 64 bits, no `u64` narrower than `u32`), all values that a
  caller may fill in (`SampleAssumption`: of the type of the field, not in step with the others)
  and all mistaken ids (`MistakenAssumption`: of the same channel).
  - *Integers.* `ReadOfWritten`: what `write_varint` wrote is read as the same value by
    every type of that sign that holds it, wherever in the stream, and if a bit of it is missing the
    reader fails; it also fails where the sign is past the width (`Readable`), and gives no other value.
    The proof is about digits: groups determine the integer with what is left of
    it (`Digits`, `Number`), and the byte without the top bit is the last of those written.
  - *Parts, vectors, maps, fields.* `Gives` is the contract of every reader: on bits that
    agree with what was written, as far as they go, it fails or gives the value and the bits
    behind it, and it fails if any is missing. `PartRead`, `ManyRead`, `PairsAre` (a map comes back from
    its pairs in any order) and `ValueRead` hand it on.
  - *Layouts.* `IsLayout` asks of a layout that counts and conditions name fields before them
    and that what has no length of its own is last. `LayoutRead` says of a packet of such a
    layout what `Gives` says of a value, if all its fields are written as they are read
    (`AllReadAsWritten`: without a condition, or `Option`s). `EachPacket` shows that all the layouts of the
    two channels and the events are such, but for `ClientUpdatePacket` (`IsWhole`). Of that one
    `StartRead` gives the fields before the first that is not written as it is read, and
    `TotalRead` that it is read at all: its codecs fail only for want of bits
    (`AreTotal`), and the reader takes at most the bits the writer made.
  - *What any bytes give.* `FieldsTyped` and `ReadTyped`: whatever is on the wire, what is read has the
    fields of its layout, of their types, and counts, conditions and lengths in step. With it
    `Inv` is inductive and gives `TypeOK` and `WhatIsReadIsInStep`.
  - *The round trip.* `NeverAnotherPacket` and `ReadableIsRead` speak of `sent`, of which `Inv`
    says what of it is on the wire (`Arrives`: the filled bytes of `WriteAs`, or a start of
    them). `SentReturned` goes through header, id and, for an event, targets, event id, position
    and the search for the terminator (`RpcWireProofs`, shared with `RpcPacket`), and ends in
    `NamedReturned`, which takes `LayoutRead` or, for the `ClientUpdate`, the other two; `RoundTripInv`
    adds what it says of the packet that was read (`Returned`).
  - *The start of a cut event.* The zeros that fill its last byte are not what was written, so
    that `Gives` says nothing of fields that reach into them. Two facts about every reader
    do. `Narrows`: one that leaves bits behind what it takes gives the same without the last of
    them. So a field whose bits all arrived is read as it was written (`FieldsHeld`), and the
    first whose bits did not takes some of the zeros (`FieldTakesMore`), of which there are at most seven.
    `NoLonger`: what is read is written in no more bits than it was read from. So all fields
    behind that one take less than a byte (`BehindNoLonger`, `PayloadKept`). The header and
    the terminator come from `RpcArrived`, which also serves `SentReturned`: if the event is
    read, its header arrived whole and its payload is a start of what was sent.
    `CutEventReturned` puts the two together. They hold for layouts
    without counts and conditions (`IsUnconditional`), and `EachPacket` shows
    that the events have such layouts. `CutInv` is `Inv` with what this says of the
    packet that was read.

  Induction is by sets of numbers (`Least`, `Induction`): each use names the set
  of the numbers of which a fact holds, so no theorem with an operator for a
  parameter is needed.

Only model-checked: liveness (`CatchesUp`, the fairness half of `ReplicaSpec`,
`EveryPacketIsRead`), which the provers cannot handle, and the violations other
than `GenuineNeverValidates`. Every safety property of a passing run is stated by a theorem.

## 5. Not modelled

- **The writer of state groups**: it hands slices of several bytes to deku's
  `write_bits_order`, whose order for those `crate-compat/src/deku.rs` 112-117 avoids as
  unreliable; deku is not in this repository, so the bytes cannot be told from it.
- **`StaticRpcPacket`**, which reads the same bytes as `RawRpcPacket` and
  `parse_static_event` without asking for the target.
- **`WorldPacket`**, an XML document under compression, and the generated **player
  builder** of `PlayerData`; `VarProtoObject`, whose bytes are protobuf; the serde and
  protobuf sides of all types, which only name their fields.
- **The other 497 static events and the instance events** of all types: some 25 000
  lines of generated code, one pattern (a struct of codecs, a line of `from_hash`, a line
  of `accept`) over other names. `EventPayloads` has one for every codec, so that
  a further one would repeat what is checked; a table of all of them would be a second
  copy of the generator's output. This is why most lines of the repository are not
  mapped, as are the generated **game data types** (`crate-sys`), which have no
  behaviour of their own.
- In the fields: non-ASCII UTF-8, negative counts of type `i32`, and enumerations without
  `bit_order = "lsb"` such as `Direction`, whose order of bits is deku's default and
  cannot be told from this repository.
- **`TimeSpan`, `DateTime`, `Decimal`**: of fixed size on the wire, arithmetic on one
  value otherwise.
- **Fragmented frames**: the crate reads `packet_index` and `packet_count` and has no
  reassembly.
- **`embedded_version`** slices the version out of the embedded JSON (`mod.rs` 280-286) and keeps
  nothing; opening and parsing the file (`mod.rs` 167-172) is the choice of entries; **math** quantises floats; **XML** and
  **compression** call external crates; the **C# plugin** runs inside the game.
- In the example: the option 1-4 parsers, `EventCounter` and the multi-version lookup,
  which print or count without keeping state.

## 6. Plan

1. *(done)* `LookupTable`, `VersionSchema`; `RpcWire`, `RpcPacket`; `PacketFrame`;
   `ReplicationClient` implementing `LaggingReplica`; their proofs.
2. *(done)* `Varint`, both signs and narrower readers.
3. *(done)* `StateGroups`: the reader on cut packets, with its proof for every group.
4. *(done)* `ServerRules`: publication rule by rule against a query rule by rule, with its
   proofs.
5. *(done)* `PacketFields`, `EventPayloads`, `ReplicationPackets`: counts, conditions and
   options against what they speak of; the streams of `Varint` are now those of packets, and
   events travel inside RPC packets (`RpcWire`). Proved in `ReplicationPacketsProofs`.
6. `TimeSpan`: the scale chosen by `from_duration` against what `to_duration` keeps.
7. Composition: the client behind real frames (`PacketFrame` on the loose channel), so that
   damaged packets become the `cut` form by proof instead of by assumption.
