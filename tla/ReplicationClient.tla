-------------------------- MODULE ReplicationClient --------------------------
(***************************************************************************)
(* The replicated-object client (crate-transport/examples/parse_rpc.rs):   *)
(* GameClient and its ReplicationState follow a server through replication *)
(* creates and destroys and through instance events, which are addressed   *)
(* by network id alone and typed by what the client knows of that id.      *)
(*                                                                         *)
(* The game's transport is not in this repository.  It is taken to be what *)
(* the schema files say of events (is_reliable): reliable messages, among  *)
(* them every create and destroy, arrive once and in order; the others may *)
(* be lost and may arrive at any later time.  Server and client hold the   *)
(* same protocol version (Version::embedded() on both sides).              *)
(***************************************************************************)
EXTENDS LookupTable, Sequences

CONSTANTS
    Ids,                \* network ids of objects; 0 is the static target
    MyCubeGrid,         \* type hashes
    MyCharacter,
    OtherTypes,
    Tables,             \* type hash -> its event table in the embedded schema
    GridEvents,         \* hashes MyCubeGridInstanceEvent::from_hash knows
    VisitedEvents,      \* those whose visitor method the client overrides
    PayloadEvents,      \* those that carry a payload to parse
    ReliableEvents,     \* hashes the schema marks is_reliable
    StrayEventIds,      \* event ids of newer servers, not in any table
    ReuseIds,           \* may the server give an id again?
    MaxMessages,        \* bound on the reliable messages sent
    MaxLoose            \* bound on the unreliable messages sent

Types == {MyCubeGrid, MyCharacter} \cup OtherTypes

\* An object as the server sees it: its type and how many of its events the
\* client is to count.
Objects == [type : Types, events : Nat]

NoWorld == [id \in Ids |-> None]

ASSUME IdsAssumption == Ids \subseteq Nat \ {0}
ASSUME TypesAssumption ==
    MyCubeGrid # MyCharacter /\ {MyCubeGrid, MyCharacter} \cap OtherTypes = {}
ASSUME NoObjectAssumption == None \notin Objects
ASSUME BoundsAssumption == ReuseIds \in BOOLEAN /\ MaxMessages \in Nat /\ MaxLoose \in Nat
\* What VersionSchema guarantees of a table without duplicates.
ASSUME TablesAssumption ==
    /\ DOMAIN Tables \subseteq Types
    /\ \A t \in DOMAIN Tables : \A h \in DOMAIN Tables[t].ids :
          /\ Tables[t].ids[h] \in Nat
          /\ DecodeSlot(Tables[t], Tables[t].ids[h]) = h
\* Of the embedded schema: every event the client acts on is reliable.
ASSUME EventsAssumption ==
    /\ GridEvents \subseteq Int
    /\ VisitedEvents \subseteq GridEvents /\ VisitedEvents \subseteq ReliableEvents
    /\ PayloadEvents \subseteq GridEvents
ASSUME StraysAssumption ==
    /\ StrayEventIds \subseteq Nat
    /\ \A e \in StrayEventIds, t \in DOMAIN Tables : DecodeSlot(Tables[t], e) = None

VARIABLES
    world,               \* the server's objects, None where an id is free
    past,                \* every world the server had, oldest first
    log,                 \* the reliable messages it sent, in order
    pos,                 \* how many of them the client has handled
    loose,               \* unreliable messages under way
    loose_sent,          \* how many were sent
    type_by_network_id,  \* ReplicationState
    grids,               \* network id -> event_count
    characters           \* network ids that have a CharacterInstance

server == <<world, past, log>>
client == <<type_by_network_id, grids, characters>>
vars == <<server, pos, loose, loose_sent, client>>

Forms == {"whole", "bad_payload", "cut"}

Create(id, t) == [kind |-> "create", id |-> id, type |-> t]

Destroy(id) == [kind |-> "destroy", id |-> id]

Rpc(id, event_id, form) == [kind |-> "rpc", id |-> id, event_id |-> event_id, form |-> form]

Init ==
    /\ world = NoWorld
    /\ past = <<NoWorld>>
    /\ log = <<>>
    /\ pos = 0
    /\ loose = {}
    /\ loose_sent = 0
    /\ type_by_network_id = EmptyMap
    /\ grids = EmptyMap
    /\ characters = {}

----------------------------------------------------------------------------
(* The server *)

SendReliable(m, w) ==
    /\ Len(log) < MaxMessages
    /\ log' = Append(log, m)
    /\ world' = w
    /\ past' = Append(past, w)
    /\ UNCHANGED <<pos, loose, loose_sent, client>>

SendLoose(m) ==
    /\ m \notin loose /\ loose_sent < MaxLoose
    /\ loose' = loose \cup {m}
    /\ loose_sent' = loose_sent + 1
    /\ UNCHANGED <<server, pos, client>>

Used(id) == \E k \in 1..Len(log) : log[k].kind = "create" /\ log[k].id = id

\* "Each network_id corresponds to a specific instance of a replicated type"
\* (parse_rpc.rs 366), at least while that instance lives.
ServerCreates(id, t) ==
    /\ world[id] = None
    /\ ReuseIds \/ ~Used(id)
    /\ SendReliable(Create(id, t), [world EXCEPT ![id] = [type |-> t, events |-> 0]])

ServerDestroys(id) ==
    /\ world[id] # None
    /\ SendReliable(Destroy(id), [world EXCEPT ![id] = None])

\* parse_payload: events without a payload parse whatever follows the header.
ParsesPayload(h, form) == form = "whole" \/ (form = "bad_payload" /\ h \notin PayloadEvents)

\* The server's side of an event the client is to count: its own tally.
Tally(id, h, form) ==
    IF world[id].type = MyCubeGrid /\ h \in VisitedEvents /\ ParsesPayload(h, form)
    THEN [world EXCEPT ![id].events = @ + 1]
    ELSE world

\* An event on an object: the id is encoded in the table of the object's
\* type (MockServer::create_grid_changed_packet). A packet may reach the
\* client cut short, or with a payload this version cannot parse.
ServerFires(id, h, form) ==
    /\ world[id] # None
    /\ world[id].type \in DOMAIN Tables
    /\ h \in DOMAIN Tables[world[id].type].ids
    /\ LET m == Rpc(id, Encode(Tables[world[id].type], h), form)
       IN  IF h \in ReliableEvents
           THEN SendReliable(m, Tally(id, h, form))
           ELSE SendLoose(m)

\* Static events, and events the client's schema does not know.
ServerFiresStray(id, event_id) ==
    /\ id # 0 => world[id] # None
    /\ SendLoose(Rpc(id, event_id, "whole"))

----------------------------------------------------------------------------
(* The client *)

\* Slips of on_replication_create, for mutation runs: no initial count; an
\* early return for types without an instance.
CreateUncounted(id, t) ==
    /\ type_by_network_id' = Put(type_by_network_id, id, t)
    /\ grids' = IF t = MyCubeGrid THEN Put(grids, id, None) ELSE grids
    /\ characters' = IF t = MyCharacter THEN characters \cup {id} ELSE characters

CreateHandledOnly(id, t) ==
    /\ type_by_network_id' =
          IF t \in OtherTypes THEN type_by_network_id ELSE Put(type_by_network_id, id, t)
    /\ grids' = IF t = MyCubeGrid THEN Put(grids, id, 0) ELSE grids
    /\ characters' = IF t = MyCharacter THEN characters \cup {id} ELSE characters

OnReplicationCreate(id, t) ==
    /\ type_by_network_id' = Put(type_by_network_id, id, t)
    /\ grids' = IF t = MyCubeGrid THEN Put(grids, id, 0) ELSE grids
    /\ characters' = IF t = MyCharacter THEN characters \cup {id} ELSE characters

\* A slip of on_replication_destroy, for a mutation run: the instance stays.
DestroyTypeOnly(id) ==
    /\ type_by_network_id' = Remove(type_by_network_id, id)
    /\ UNCHANGED <<grids, characters>>

\* The instance to remove is found by the type the id had.
OnReplicationDestroy(id) ==
    \/ /\ id \notin DOMAIN type_by_network_id
       /\ UNCHANGED client
    \/ /\ id \in DOMAIN type_by_network_id
       /\ type_by_network_id' = Remove(type_by_network_id, id)
       /\ grids' = IF type_by_network_id[id] = MyCubeGrid THEN Remove(grids, id) ELSE grids
       /\ characters' =
             IF type_by_network_id[id] = MyCharacter THEN characters \ {id} ELSE characters

ResolveInstanceEventHash(event_id, t) ==
    IF t \in DOMAIN Tables THEN DecodeSlot(Tables[t], event_id) ELSE None

\* MyCubeGridInstanceEvent::from_hash.
FromHash(h) == IF h \in GridEvents THEN h ELSE None

\* accept: the visitor method of an event is the client's own, or the empty
\* default of the trait.
Visits(h) == h \in VisitedEvents

\* Slips of the dispatch, for mutation runs: every event that resolves is
\* counted; the payload is not looked at before it is counted.
CountsAnyEvent(m) ==
    /\ m.id \in DOMAIN type_by_network_id
    /\ type_by_network_id[m.id] = MyCubeGrid
    /\ m.id \in DOMAIN grids
    /\ LET h == FromHash(ResolveInstanceEventHash(m.event_id, MyCubeGrid))
       IN  h # None /\ ParsesPayload(h, m.form)

CountsUnparsed(m) ==
    /\ m.id \in DOMAIN type_by_network_id
    /\ type_by_network_id[m.id] = MyCubeGrid
    /\ m.id \in DOMAIN grids
    /\ Visits(FromHash(ResolveInstanceEventHash(m.event_id, MyCubeGrid)))

\* handle_instance_event up to the visitor: known id, a grid, an event id the
\* schema resolves, an instance, a hash from_hash knows, a payload that
\* parses, and a visitor method that is not the empty default.
Counts(m) ==
    /\ m.id \in DOMAIN type_by_network_id
    /\ type_by_network_id[m.id] = MyCubeGrid
    /\ m.id \in DOMAIN grids
    /\ LET h == FromHash(ResolveInstanceEventHash(m.event_id, MyCubeGrid))
       IN  h # None /\ ParsesPayload(h, m.form) /\ Visits(h)

\* A slip of receive_packet, for a mutation run: a packet that does not parse
\* is not consumed.
ReceiveParsedOnly(m) ==
    \/ m.form # "cut" /\ m.id = 0 /\ UNCHANGED client
    \/ /\ m.form # "cut" /\ m.id # 0
       /\ grids' = IF Counts(m) THEN [grids EXCEPT ![m.id] = @ + 1] ELSE grids
       /\ UNCHANGED <<type_by_network_id, characters>>

\* receive_packet: a packet that does not parse is dropped, a static event
\* changes nothing, an instance event may count.
ReceivePacket(m) ==
    \/ m.form = "cut" /\ UNCHANGED client
    \/ m.form # "cut" /\ m.id = 0 /\ UNCHANGED client
    \/ /\ m.form # "cut" /\ m.id # 0
       /\ grids' = IF Counts(m) THEN [grids EXCEPT ![m.id] = @ + 1] ELSE grids
       /\ UNCHANGED <<type_by_network_id, characters>>

Handle(m) ==
    \/ m.kind = "create" /\ OnReplicationCreate(m.id, m.type)
    \/ m.kind = "destroy" /\ OnReplicationDestroy(m.id)
    \/ m.kind = "rpc" /\ ReceivePacket(m)

DeliverReliable ==
    /\ pos < Len(log)
    /\ Handle(log[pos + 1])
    /\ pos' = pos + 1
    /\ UNCHANGED <<server, loose, loose_sent>>

DeliverLoose(m) ==
    /\ m \in loose
    /\ ReceivePacket(m)
    /\ loose' = loose \ {m}
    /\ UNCHANGED <<server, pos, loose_sent>>

LoseLoose(m) ==
    /\ m \in loose
    /\ loose' = loose \ {m}
    /\ UNCHANGED <<server, pos, loose_sent, client>>

----------------------------------------------------------------------------
Events == UNION {DOMAIN Tables[t].ids : t \in DOMAIN Tables}

Next ==
    \/ \E id \in Ids, t \in Types : ServerCreates(id, t)
    \/ \E id \in Ids : ServerDestroys(id)
    \/ \E id \in Ids, h \in Events, form \in Forms : ServerFires(id, h, form)
    \/ \E id \in Ids \cup {0}, e \in StrayEventIds : ServerFiresStray(id, e)
    \/ DeliverReliable
    \/ \E m \in loose : DeliverLoose(m) \/ LoseLoose(m)

\* The reliable channel delivers what it holds, and the client handles what
\* is delivered; nothing is assumed of the server or of the loose messages.
Spec == Init /\ [][Next]_vars /\ WF_vars(DeliverReliable)

----------------------------------------------------------------------------
(* Properties *)

Worlds == [Ids -> Objects \cup {None}]

Packets == [kind : {"rpc"}, id : Ids \cup {0}, event_id : Nat, form : Forms]

Messages ==
    Packets \cup [kind : {"create"}, id : Ids, type : Types]
            \cup [kind : {"destroy"}, id : Ids]

TypeOK ==
    /\ world \in Worlds
    /\ past \in Seq(Worlds)
    /\ log \in Seq(Messages)
    /\ pos \in 0..Len(log)
    /\ loose \subseteq Packets /\ loose_sent \in 0..MaxLoose
    /\ DOMAIN type_by_network_id \subseteq Ids
    /\ type_by_network_id \in [DOMAIN type_by_network_id -> Types]
    /\ DOMAIN grids \subseteq Ids
    /\ grids \in [DOMAIN grids -> Nat]
    /\ characters \subseteq Ids

\* The three maps of ReplicationState agree: an object has an instance exactly
\* when its type is one the client keeps instances of, and only of that type.
\* on_replication_destroy finds the instance through the type map, so an id
\* that got a second type while it was live would leave one behind.
InstancesMatchTypes ==
    /\ DOMAIN grids = {id \in DOMAIN type_by_network_id : type_by_network_id[id] = MyCubeGrid}
    /\ characters = {id \in DOMAIN type_by_network_id : type_by_network_id[id] = MyCharacter}

\* What the client shows of the world.
Shown ==
    [id \in Ids |->
        IF id \in DOMAIN type_by_network_id
        THEN [type |-> type_by_network_id[id],
              events |-> IF id \in DOMAIN grids THEN grids[id] ELSE 0]
        ELSE None]

\* The client knows the objects the server had after the messages it has
\* handled, each with its type, whatever happens to ids and loose packets.
ObjectsArePast ==
    LET w == past[pos + 1]
    IN  /\ DOMAIN type_by_network_id = {id \in Ids : w[id] # None}
        /\ \A id \in DOMAIN type_by_network_id : type_by_network_id[id] = w[id].type

\* The client shows the server's world as it was then, event counts included,
\* although unreliable packets overtake the create of their object or outlive
\* it, and packets may be damaged. An id is given once only or no packet is
\* unreliable: otherwise a loose event for one object can meet another one of
\* its id, and be counted under the event table of that one's type.
ReplicaIsPast == Shown = past[pos + 1]

\* A reliable event finds the object it was fired at: when it is handled the
\* client knows its network id, so neither the "Unknown network_id" return nor
\* an event table of another type meets an event that was sent in order.
ReliableEventFindsItsObject ==
    pos < Len(log) /\ log[pos + 1].kind = "rpc" =>
        LET m == log[pos + 1]
        IN  /\ m.id \in DOMAIN type_by_network_id
            /\ ResolveInstanceEventHash(m.event_id, type_by_network_id[m.id]) \in ReliableEvents

\* The client implements LaggingReplica: it passes through the server's worlds
\* one by one, never back, whatever the loose messages do.
Replica == INSTANCE LaggingReplica WITH
               FirstWorld <- NoWorld, at <- pos + 1, shown <- Shown

ReplicaSpec == Replica!Spec

\* Whatever the server does later, the client gets to every world it had; a
\* packet that cannot be parsed does not hold up those behind it.
CatchesUp == \A n \in 1..MaxMessages : Len(log) >= n ~> pos >= n
=============================================================================
