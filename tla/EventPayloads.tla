---------------------------- MODULE EventPayloads ----------------------------
(***************************************************************************)
(* Payloads of static events (crate-transport/src/protocol/static_events), *)
(* generated code of one pattern: an event is known by the hash behind its *)
(* id, its payload is a struct of fields, and an event this version does   *)
(* not know keeps its bytes.  Of 507 events there is one here for every    *)
(* codec that payloads are made of.                                        *)
(***************************************************************************)
EXTENDS PacketFields

\* Some of the bits of a BitField are flags.
BitField == Flags(WideBits, 1..(WideBits - 1))

Guid == Tuple(Wide, Wide)

\* A vector is fixed-size data.
Vector3I == Wide

UseActionResult == Fixed(3, 0..6)

\* Of 32 bits in the code; here long enough for a terminator to be inside it.
MyStringHash == Fixed(16, Unsigned(16))

ModMessageServerReliablePayload == <<
    Field("id", Wide),
    Field("message", VarBytes),
    Field("recipient", Wide) >>

SendPingsAndRefreshPayload == << Field("dictionary", VarMap(Tuple(Wide, Wide))) >>

DoDamageSlimBlockBatchPayload == <<
    Field("grid_id", Wide),
    Field("blocks", VarVec(Tuple(Vector3I, Wide))),
    Field("damage_type", Wide),
    Field("attacker_id", Wide),
    Field("extra_info", Nullable(MyStringHash)) >>

ReportCompilationResultsPayload == <<
    Field("success", BitBool),
    Field("messages", VarVec(VarString)) >>

RefreshPlayersGridsPayload == <<
    Field("indentity_id", Wide),
    Field("grids", VarVec(VarString)),
    Field("grid_ids", VarVec(Wide)),
    Field("total_pcu", Wide) >>

AdminSettingsChangedClientPayload == << Field("settings", BitField), Field("steam_id", Wide) >>

UseFailureStaticPayload == <<
    Field("use_action", BitField),
    Field("used_by_id", Wide),
    Field("use_result", UseActionResult),
    Field("entity_id", Wide) >>

RemoveSpecificOwnershipChangeRequestsPayload == <<
    Field("block_ids", VarVec(Wide)),
    Field("batches", VarVec(Guid)) >>

\* parse_payload of each event; the events are numbered here, the numbers of a
\* version and their hashes are those of VersionSchema.
Event(number, layout) == [channel |-> "static_event", id |-> number, layout |-> layout]

StaticEventPayload == [
    ModMessageServerReliable |-> Event(0, ModMessageServerReliablePayload),
    SendPingsAndRefresh |-> Event(1, SendPingsAndRefreshPayload),
    DoDamageSlimBlockBatch |-> Event(2, DoDamageSlimBlockBatchPayload),
    ReportCompilationResults |-> Event(3, ReportCompilationResultsPayload),
    RefreshPlayersGrids |-> Event(4, RefreshPlayersGridsPayload),
    AdminSettingsChangedClient |-> Event(5, AdminSettingsChangedClientPayload),
    UseFailureStatic |-> Event(6, UseFailureStaticPayload),
    RemoveSpecificOwnershipChangeRequests |->
        Event(7, RemoveSpecificOwnershipChangeRequestsPayload),
    ShowAlreadyCollectedNotification |-> Event(8, <<>>),
    UnknownEvent |-> Event(9, << Field("payload", Rest(Byte)) >>) ]
=============================================================================
