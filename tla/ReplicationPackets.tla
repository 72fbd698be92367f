------------------------- MODULE ReplicationPackets -------------------------
(***************************************************************************)
(* The packets of the replication layer (crate-transport/src/replication.rs)*)
(* and of the control channel (control.rs), with the static events inside  *)
(* RPC packets (rpc.rs).  Their fields are public: a caller builds a packet *)
(* with whatever it puts there, may call deku's update(), which sets the    *)
(* counts, and writes it; the bytes may be cut; the reader takes the packet *)
(* for what its id says.  What was read may be written again.               *)
(***************************************************************************)
EXTENDS EventPayloads, RpcWire, SequencesExt

CONSTANTS
    Sample(_),         \* values for the fields of a codec
    Mistaken           \* <<name, other>>: packets that get the id of another one

GameMode == Fixed(1, {0, 1})

ContextKind == Fixed(2, 0..3)

JoinResult == Fixed(5, 0..22)

(* Layouts *)

ReplicationStreamBeginPacket == <<
    Field("type_id", VarU32),
    Field("network_id", NetworkId),
    Field("parent_id", NetworkId),
    Field("state_group_count", Octet),
    Field("state_group_ids", Counted("state_group_count", NetworkId)) >>

ReplicationCreatePacket == Append(ReplicationStreamBeginPacket, Field("data", Rest(Byte)))

ReplicationDestroyPacket == << Field("network_id", NetworkId) >>

\* An entity is 52 bytes, of which none is a count or a condition.
ReplicationIslandDonePacket == <<
    Field("index", Octet),
    Field("entity_count", Length),
    Field("entities", Counted("entity_count", Wide)) >>

If(n, in) == [name |-> n, in |-> in]

ReplicationRequestPacket == <<
    Field("entity_id", Wide),
    Field("add", BitBool),
    Field("has_medical_room", BitBool),
    Field("has_interacted_entity", BitBool),
    FieldIf("layer", Option(Octet), <<If("add", {1})>>, None),
    FieldIf("medical_room_id", Option(Wide), <<If("has_medical_room", {1})>>, None),
    FieldIf("interacted_entity_id", Option(Wide), <<If("has_interacted_entity", {1})>>, None) >>

ReplicationReadyPacket == <<
    Field("network_id", NetworkId),
    Field("loaded", BitBool),
    Field("terminator", Wide) >>

ClientState ==
    LET held == If("has_controlled_entity", {1})
        controlled == <<held>>
    IN  << Field("has_controlled_entity", BitBool),
           FieldIf("has_spectator_camera_position", BitBool,
                   <<If("has_controlled_entity", {0})>>, 0),
           FieldIf("position", Wide, <<If("has_spectator_camera_position", {1})>>, 0),
           FieldIf("controlled_entity_id", Wide, controlled, 0),
           FieldIf("has_control", BitBool, controlled, 0),
           Field("magic", Wide),
           FieldIf("context_by_page", ContextKind, controlled, 0),
           FieldIf("interacted_entity_id", Wide,
                   <<held, If("context_by_page", {1, 2, 3})>>, 0) >>

ClientUpdatePacket ==
    << Field("packet_id", Octet), Field("server_timestamp", Wide),
       Field("client_timestamp", Wide) >> \o ClientState

ClientReadyPacket == <<
    Field("force_playout_delay_buffer", BitBool),
    Field("use_playout_delay_buffer_for_character", BitBool),
    Field("use_playout_delay_buffer_for_jetpack", BitBool),
    Field("use_playout_delay_buffer_for_grids", BitBool) >>

ServerDataPacket == <<
    Field("count", VarU32),
    Field("hash_table", Counted("count", Wide)) >>

\* Its eleven fields are there or not as one.
StatisticsState == Wide

\* The bytes up to the end, from which StateGroups is read: what is said here is
\* said of the bytes.  Its reader drops what it cannot parse of them, and its
\* writer ends them with a 0 (module StateGroups).
ServerStatePacket == <<
    Field("is_streaming", BitBool),
    Field("packet_id", Octet),
    Field("statistics", Nullable(StatisticsState)),
    Field("server_timestamp", Wide),
    Field("last_client_timestamp", Wide),
    Field("last_client_realtime", Wide),
    Field("server_simulation_ratio", Wide),
    Field("server_cpu_load", Wide),
    Field("server_thread_load", Wide),
    Field("state_groups", Rest(Byte)) >>

WorldDataPacket == <<
    Field("app_version", Wide),
    Field("assembler_multiplier", Wide),
    Field("blocks_inventory_multiplier", Wide),
    Field("data_hash", Nullable(VarString)),
    Field("game_mode", GameMode),
    Field("grinder_multiplier", Wide),
    Field("host_name", Nullable(VarString)),
    Field("inventory_multiplier", Wide),
    Field("members_limit", Wide),
    Field("refinery_multiplier", Wide),
    Field("server_analytics_id", Nullable(VarString)),
    Field("server_password_salt", Nullable(VarString)),
    Field("welder_multiplier", Wide),
    Field("world_name", Nullable(VarString)),
    Field("world_size", Wide) >>

ClientConnectedPacket == <<
    Field("client_id", Wide),
    Field("experimental_mode", BitBool),
    Field("is_admin", BitBool),
    Field("is_profiling", BitBool),
    Field("join", BitBool),
    Field("name", Nullable(VarString)),
    Field("service_name", Nullable(VarString)),
    Field("token", Nullable(VarBytes)) >>

ClientAckPacket == <<
    Field("last_state_sync_packet_id", Octet),
    Field("received_streaming_packet", BitBool),
    Field("last_streaming_packet_id", Octet),
    Field("ack_packet_count", Octet),
    Field("ack_packets", Counted("ack_packet_count", Octet)) >>

JoinResultPacket == <<
    Field("admin_id", Wide),
    Field("join_result", JoinResult),
    Field("server_experimental_mode", BitBool) >>

\* The builder of the player is generated code; here it is one field.
PlayerDataPacket == <<
    Field("client_steam_id", Wide),
    Field("new_identity", BitBool),
    Field("player_builder_data", Wide),
    Field("player_serial_id", Variable(I32)) >>

(* Packets of either channel, by the number of their id *)

Replication(number, layout) == [channel |-> "replication", id |-> number, layout |-> layout]

\* Without Rpc and World, whose payloads are not made of fields.
Packet == [
    Unknown |-> Replication(0, <<>>),
    Flush |-> Replication(2, <<>>),
    ReplicationCreate |-> Replication(4, ReplicationCreatePacket),
    ReplicationDestroy |-> Replication(5, ReplicationDestroyPacket),
    ServerData |-> Replication(6, ServerDataPacket),
    ServerStateSync |-> Replication(7, ServerStatePacket),
    ClientReady |-> Replication(8, ClientReadyPacket),
    ClientUpdate |-> Replication(9, ClientUpdatePacket),
    ReplicationReady |-> Replication(10, ReplicationReadyPacket),
    ReplicationStreamBegin |-> Replication(11, ReplicationStreamBeginPacket),
    JoinResult |-> Replication(12, JoinResultPacket),
    WorldData |-> Replication(13, WorldDataPacket),
    ClientConnected |-> Replication(14, ClientConnectedPacket),
    ClientAcks |-> Replication(17, ClientAckPacket),
    ReplicationIslandDone |-> Replication(18, ReplicationIslandDonePacket),
    ReplicationRequest |-> Replication(19, ReplicationRequestPacket),
    PlayerData |-> Replication(21, PlayerDataPacket) ]

Control(number, layout) == [channel |-> "control", id |-> number, layout |-> layout]

ControlPayload == [
    Kick |-> Control(0, << Field("client_id", Wide) >>),
    Disconnected |-> Control(1, << Field("client_id", Wide) >>),
    Ban |-> Control(2, << Field("client_id", Wide) >>),
    SendPasswordHash |-> Control(3, << Field("password_hash", VarBytes) >>) ]

Packets == Merge(Merge(Packet, ControlPayload), StaticEventPayload)

IsEvent(n) == Packets[n].channel = "static_event"

ChannelOf(n) == IF Packets[n].channel = "control" THEN "control" ELSE "replication"

ASSUME MistakenAssumption ==
    \A m \in Mistaken :
        {m[1], m[2]} \subseteq DOMAIN Packets /\ ChannelOf(m[1]) = ChannelOf(m[2])

(* RPC packets: the event id is between these fields, the payload after them *)

Targets == << Field("network_id", NetworkId), Field("blocked_by_network_id", NetworkId) >>

\* Three doubles, whole bytes as here.
Vector3D == Fixed(8, Unsigned(8))

Position == << Field("position", Nullable(Vector3D)) >>

LayoutOf == [n \in DOMAIN Packets |->
    IF IsEvent(n) THEN Targets \o Position \o Packets[n].layout ELSE Packets[n].layout]

ASSUME SampleAssumption ==
    \A n \in DOMAIN Packets : \A i \in DOMAIN LayoutOf[n] :
        \A v \in Sample(LayoutOf[n][i].codec) : Holds(LayoutOf[n][i].codec, v)

EventIdBits == 16

\* The packet id Rpc.
Rpc == 3

(* Writing *)

HeaderBits(n) ==
    IF Packets[n].channel = "control" THEN Bits(Packets[n].id, 16)
    ELSE Bits(IF IsEvent(n) THEN Rpc ELSE Packets[n].id, 8) \o Bits(1, 8)

\* The game puts the terminator right behind the payload; this crate has the
\* payload as bytes.  Junk behind the terminator is RpcPacket's.
WriteRpc(number, packet, payload) ==
    WriteFields(Targets, packet) \o Bits(number, EventIdBits)
        \o WriteFields(Position, packet) \o payload \o Terminator

\* A packet under the id of m, which need not be n.
WriteAs(n, m, packet, asBytes) ==
    LET data == WriteFields(Packets[n].layout, packet)
    IN  HeaderBits(m)
        \o IF ~IsEvent(n) THEN data
           ELSE WriteRpc(Packets[IF IsEvent(m) THEN m ELSE n].id, packet,
                         IF asBytes THEN BitsToBytes(data) ELSE data)

(* Reading: a name and its fields, or Failed *)

\* The packet that has this id, if there is one.
NamesOf(channel, number) ==
    {n \in DOMAIN Packets : Packets[n].channel = channel /\ Packets[n].id = number}

NameOf(channel, number) == CHOOSE n \in NamesOf(channel, number) : TRUE

\* RawRpcPacket::parse_static_event: what is left of the payload does not matter.
ParseStaticEvent(header, number, payload) ==
    IF header["network_id"] # 0 \/ NamesOf("static_event", number) = {} THEN Failed
    ELSE Then(ReadFields(Packets[NameOf("static_event", number)].layout, payload),
              LAMBDA packet, rest : <<NameOf("static_event", number), Merge(header, packet)>>)

\* RawRpcPacket::from_reader_with_ctx, and the event in it.
ReadRpc(bits) ==
    Then(ReadFields(Targets, bits), LAMBDA targets, rest :
        Then(ReadFixed(Fixed(EventIdBits, Unsigned(EventIdBits)), rest), LAMBDA number, behind :
            Then(ReadFields(Position, behind), LAMBDA position, tail :
                IF Parses(tail) THEN ParseStaticEvent(Merge(targets, position), number, ReadPayload(tail))
                ELSE Failed)))

ReadNamed(channel, number, bits) ==
    IF NamesOf(channel, number) = {} THEN Failed
    ELSE Then(ReadFields(Packets[NameOf(channel, number)].layout, bits),
              LAMBDA packet, rest : <<NameOf(channel, number), packet>>)

\* All that is known of the bytes is the channel; both headers are of two bytes.
ReadPacket(channel, bits) ==
    LET number == BitsValue(SubSeq(bits, 1, IF channel = "control" THEN 16 ELSE 8))
    IN  IF Len(bits) < 16 THEN Failed
        ELSE IF channel # "control" /\ number = Rpc THEN ReadRpc(After(bits, 16))
        ELSE ReadNamed(channel, number, After(bits, 16))

----------------------------------------------------------------------------
VARIABLES
    name,       \* the packet
    id,         \* the packet whose id it has
    fields,     \* its fields
    phase,      \* built, written, read or failed
    sent,       \* what was written: name, id and fields
    wire,       \* the bits written; empty when they are read
    whole       \* are all of the bytes there?

vars == <<name, id, fields, phase, sent, wire, whole>>

\* The values a caller may put in a field: what there would be without its
\* condition, and what it is then.
Fillings(field) ==
    Sample(field.codec)
    \cup IF field.codec.kind = "option" \/ field.cond # <<>> THEN {field.default} ELSE {}

Built(layout) ==
    LET upTo[i \in 0..Len(layout)] ==
            IF i = 0 THEN {[x \in {} |-> None]}
            ELSE {Put(f, layout[i].name, v) : f \in upTo[i - 1], v \in Fillings(layout[i])}
    IN  upTo[Len(layout)]

Init ==
    /\ name \in DOMAIN Packets
    /\ id \in {name} \cup {m[2] : m \in {n \in Mistaken : n[1] = name}}
    /\ fields \in Built(LayoutOf[name])
    /\ phase = "built"
    /\ sent = None
    /\ wire = <<>>
    /\ whole = TRUE

Layout == LayoutOf[name]

\* The fields with `update` are the counts: so many elements, `as` their type.
Counts == {i \in DOMAIN Layout : Layout[i].codec.kind = "counted"}

CountOf(i) == Layout[i].codec.count

\* How many numbers its type has.
Room(i) ==
    LET j == CHOOSE j \in DOMAIN Layout : Layout[j].name = CountOf(i)
    IN  TwoTo[IF Layout[j].codec.kind = "fixed" THEN Layout[j].codec.bits
              ELSE Layout[j].codec.type.bits]

Update ==
    /\ phase = "built" /\ Counts # {}
    /\ fields' = [n \in DOMAIN fields |->
                     IF \E i \in Counts : CountOf(i) = n
                     THEN LET i == CHOOSE i \in Counts : CountOf(i) = n
                          IN  Len(fields[Layout[i].name]) % Room(i)
                     ELSE fields[n]]
    /\ UNCHANGED <<name, id, phase, sent, wire, whole>>

\* to_bytes
WritePacket ==
    /\ phase = "built"
    /\ phase' = "written"
    /\ sent' = [name |-> name, id |-> id, fields |-> fields]
    /\ \E asBytes \in BOOLEAN : wire' = Filled(WriteAs(name, id, fields, asBytes))
    /\ whole' = TRUE
    /\ UNCHANGED <<name, id, fields>>

\* The end of the packet is lost.
Cut ==
    /\ phase = "written" /\ whole
    /\ \E n \in 0..(Len(wire) \div 8) - 1 : wire' = SubSeq(wire, 1, 8 * n)
    /\ whole' = FALSE
    /\ UNCHANGED <<name, id, fields, phase, sent>>

\* from_bytes, at the other end.
Receive ==
    /\ phase = "written"
    /\ \E received \in {ReadPacket(ChannelOf(sent.id), wire)} :
           \/ /\ received = Failed
              /\ phase' = "failed"
              /\ UNCHANGED <<name, id, fields>>
           \/ /\ received # Failed
              /\ phase' = "read"
              /\ name' = received[1]
              /\ id' = received[1]
              /\ fields' = received[2]
    /\ wire' = <<>>
    /\ UNCHANGED <<sent, whole>>

\* What was read is a packet like any other.
Forward ==
    /\ phase = "read"
    /\ phase' = "built"
    /\ sent' = None /\ whole' = TRUE
    /\ UNCHANGED <<name, id, fields, wire>>

Next == Update \/ WritePacket \/ Cut \/ Receive \/ Forward

Spec == Init /\ [][Next]_vars

----------------------------------------------------------------------------
(* Properties *)

TypeOK ==
    /\ name \in DOMAIN Packets /\ id \in DOMAIN Packets
    /\ DOMAIN fields = FieldNames(Layout)
    /\ phase \in {"built", "written", "read", "failed"}
    /\ sent # None => sent.name \in DOMAIN Packets /\ sent.id \in DOMAIN Packets
    /\ wire \in Seq({0, 1}) /\ Len(wire) % 8 = 0
    /\ whole \in BOOLEAN

\* A static event has no target.
WellFormed(p) ==
    /\ p.id = p.name
    /\ InStep(LayoutOf[p.name], p.fields)
    /\ IsEvent(p.name) => p.fields["network_id"] = 0

Same(i) == fields[Layout[i].name] = sent.fields[Layout[i].name]

\* A packet whose counts and conditions are in step is never read as another
\* one, whole or, if it is no event, cut: only what has no length of its own may
\* end early.  Of a ClientUpdate this is so up to has_controlled_entity; its next
\* fields are written whether or not they will be read.
NeverAnotherPacket ==
    phase = "read" /\ WellFormed(sent) /\ (whole \/ ~IsEvent(sent.name)) =>
        /\ name = sent.name
        /\ \A i \in DOMAIN Layout :
              \/ ~FieldsReadAsWritten(Layout, i)
              \/ Same(i)
              \/ /\ ~whole /\ Layout[i].codec.kind = "rest"
                 /\ IsPrefix(fields[Layout[i].name], sent.fields[Layout[i].name])

\* A cut event may be read if there is a terminator in what is left of it.  Up to
\* seven zeros are then put in the place of the bits behind that, enough for a
\* last byte, an empty vector or a None: one field may be another one, and all
\* that is read after it is less than a byte.
CutEventKeepsItsStart ==
    phase = "read" /\ WellFormed(sent) /\ ~whole /\ IsEvent(sent.name) =>
        /\ name = sent.name
        /\ \E k \in DOMAIN Layout :
              /\ \A i \in 1..(k - 1) : Same(i)
              /\ Len(WriteFields(SubSeq(Layout, k + 1, Len(Layout)), fields)) < 8

\* Whole, it is read, but for signed integers that no reader takes.
ReadableIsRead ==
    phase = "failed" /\ whole /\ WellFormed(sent) =>
        ~ReadableFields(LayoutOf[sent.name], sent.fields)

\* Whatever bytes it was made of - a packet with stale counts, with an Option
\* against its flag, under another packet's id, cut - a packet that was read has
\* the counts and conditions of a packet in step, so that it can be sent on and
\* what is said above of such packets holds of it.  Whether it is the packet that
\* was meant is not said: stale counts may well be read as another one.
WhatIsReadIsInStep == phase = "read" => WellFormed([name |-> name, id |-> id, fields |-> fields])

\* "correct bit-level serialization" (crate-compat/src/deku.rs 5-6): whatever is
\* in step can be read. It cannot where the sign of a Varint lies past the width
\* of its type.
SignedIsRead == phase = "failed" /\ whole => ~WellFormed(sent)
=============================================================================
