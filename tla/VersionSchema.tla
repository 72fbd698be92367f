---------------------------- MODULE VersionSchema ----------------------------
(***************************************************************************)
(* Version::from_json / Version::load: the entries of a schema file are    *)
(* consumed one at a time, in file order, into the type table, the static  *)
(* event table and one event table per group of instance events.  A schema *)
(* file is whatever was found on disk, so its entries may repeat an id or  *)
(* a hash and may leave ids out; the state keeps the entries consumed      *)
(* beside the tables built from them.                                      *)
(***************************************************************************)
EXTENDS LookupTable

CONSTANTS
    Ids,          \* the ids and indices a file may use: a subset of 0..65535
    Hashes,       \* the event and type hashes a file may use
    TypeHashes,   \* the type hashes of instance-event groups
    MaxEntries    \* bound on the entries of a file

ASSUME IdsAssumption == Ids \subseteq Nat /\ \A id \in Ids : id < 65536   \* u16
ASSUME HashesAssumption == Hashes \subseteq Int /\ TypeHashes \subseteq Int
ASSUME MaxEntriesAssumption == MaxEntries \in Nat

VARIABLES
    section,          \* the array of the file being consumed
    types,            \* type_index_to_hash, type_hash_to_index
    statics,          \* static_event_id_to_hash, static_event_hash_to_id
    instance_events,  \* HashMap<type_hash, InstanceEventSchema>
    group,            \* the group being read: its type hash, None between groups
    instance_schema,  \* the local of the group loop
    loaded            \* history: the <<id, hash>> pairs each table was given

vars == <<section, types, statics, instance_events, group, instance_schema, loaded>>

Sections == {"types", "static_events", "instance_events", "done"}

\* The id and the hash of an entry of any of the three arrays.
Entry == Ids \X Hashes

\* The history names a table by its array, and an instance-event table by the
\* type hash of its group; "group" is the group being read, "count" the number
\* of entries consumed, for the bound.
History ==
    [types : SUBSET Entry, static_events : SUBSET Entry, group : SUBSET Entry,
     instance_events : UNION {[T -> SUBSET Entry] : T \in SUBSET TypeHashes},
     count : 0..MaxEntries]

Init ==
    /\ section = "types"
    /\ types = EmptyTable
    /\ statics = EmptyTable
    /\ instance_events = EmptyMap
    /\ group = None
    /\ instance_schema = EmptyTable
    /\ loaded = [types |-> {}, static_events |-> {}, group |-> {},
                 instance_events |-> EmptyMap, count |-> 0]

\* The entry stands in one of the lists of the history.
Remember(list, id, hash) ==
    /\ loaded.count < MaxEntries
    /\ loaded' = [loaded EXCEPT ![list] = @ \cup {<<id, hash>>}, !.count = @ + 1]

LoadType(id, hash) ==
    /\ section = "types"
    /\ Remember("types", id, hash)
    /\ types' = LoadEntry(types, id, hash)
    /\ UNCHANGED <<section, statics, instance_events, group, instance_schema>>

EndTypes ==
    /\ section = "types"
    /\ section' = "static_events"
    /\ UNCHANGED <<types, statics, instance_events, group, instance_schema, loaded>>

LoadStaticEvent(id, hash) ==
    /\ section = "static_events"
    /\ Remember("static_events", id, hash)
    /\ statics' = LoadEntry(statics, id, hash)
    /\ UNCHANGED <<section, types, instance_events, group, instance_schema>>

EndStaticEvents ==
    /\ section = "static_events"
    /\ section' = "instance_events"
    /\ UNCHANGED <<types, statics, instance_events, group, instance_schema, loaded>>

\* A slip of OpenGroup, for a mutation run: the local is not reset.
OpenGroupKeepingEvents(th) ==
    /\ section = "instance_events"
    /\ group = None
    /\ group' = th
    /\ loaded' = [loaded EXCEPT !.group = {}]
    /\ UNCHANGED <<section, types, statics, instance_events, instance_schema>>

OpenGroup(th) ==
    /\ section = "instance_events"
    /\ group = None
    /\ group' = th
    /\ instance_schema' = EmptyTable
    /\ loaded' = [loaded EXCEPT !.group = {}]
    /\ UNCHANGED <<section, types, statics, instance_events>>

LoadInstanceEvent(id, hash) ==
    /\ section = "instance_events"
    /\ group # None
    /\ Remember("group", id, hash)
    /\ instance_schema' = LoadEntry(instance_schema, id, hash)
    /\ UNCHANGED <<section, types, statics, instance_events, group>>

\* A group repeated in the file replaces the table of the earlier one.
CloseGroup ==
    /\ section = "instance_events"
    /\ group # None
    /\ instance_events' = Put(instance_events, group, instance_schema)
    /\ loaded' = [loaded EXCEPT !.instance_events = Put(@, group, loaded.group)]
    /\ group' = None
    /\ UNCHANGED <<section, types, statics, instance_schema>>

Finish ==
    /\ section = "instance_events"
    /\ group = None
    /\ section' = "done"
    /\ UNCHANGED <<types, statics, instance_events, group, instance_schema, loaded>>

Next ==
    \/ \E id \in Ids, h \in Hashes :
          LoadType(id, h) \/ LoadStaticEvent(id, h) \/ LoadInstanceEvent(id, h)
    \/ \E th \in TypeHashes : OpenGroup(th)
    \/ EndTypes \/ EndStaticEvents \/ CloseGroup \/ Finish

Spec == Init /\ [][Next]_vars

----------------------------------------------------------------------------
(* Lookups on the schema under construction, as Version's methods *)

DecodeTypeIndex(id) == Decode(types, id)

EncodeTypeHash(h) == Encode(types, h)

DecodeStaticEventId(id) == Decode(statics, id)

EncodeStaticEventHash(h) == Encode(statics, h)

\* decode_event_id hands out the padding as well: DecodeSlot.
TryDecodeInstanceEventId(th, id) ==
    IF th \in DOMAIN instance_events THEN DecodeSlot(instance_events[th], id) ELSE None

EncodeInstanceEventHash(th, h) ==
    IF th \in DOMAIN instance_events THEN Encode(instance_events[th], h) ELSE None
----------------------------------------------------------------------------
(* Properties.  Each is about the methods above, table by table. *)

\* The tables stay dense vectors and maps of 16-bit ids (mod.rs 127-132, 150-164).
TypeOK ==
    /\ section \in Sections
    /\ IsTable(types) /\ IsTable(statics) /\ IsTable(instance_schema)
    /\ DOMAIN instance_events \subseteq TypeHashes
    /\ \A th \in DOMAIN instance_events : IsTable(instance_events[th])
    /\ group \in TypeHashes \cup {None}
    /\ loaded \in History

\* The two flat tables and the table of each group that was closed.
Tables ==
    {<<"types", None>>, <<"static_events", None>>}
    \cup {<<"instance_events", th>> : th \in DOMAIN instance_events}

\* The method that decodes an id in a table: only those of the flat tables
\* filter the zero hash.
DecodeIn(t, id) ==
    CASE t[1] = "types"           -> DecodeTypeIndex(id)
      [] t[1] = "static_events"   -> DecodeStaticEventId(id)
      [] t[1] = "instance_events" -> TryDecodeInstanceEventId(t[2], id)

EncodeIn(t, h) ==
    CASE t[1] = "types"           -> EncodeTypeHash(h)
      [] t[1] = "static_events"   -> EncodeStaticEventHash(h)
      [] t[1] = "instance_events" -> EncodeInstanceEventHash(t[2], h)

\* The pairs a table was built from; those of a group that a later one of its
\* type replaced are not among them.
PairsOf(t) ==
    IF t[1] = "instance_events" THEN loaded.instance_events[t[2]] ELSE loaded[t[1]]

\* An instance table that was given no entry with the id answers the 0 it
\* padded its vector with.
GapAnswer(t, id) ==
    /\ t[1] = "instance_events"
    /\ DecodeIn(t, id) = 0
    /\ \A p \in PairsOf(t) : p[1] # id

\* What decoding makes of the hash of an entry: a flat table takes a loaded
\* 0 for padding.
Decoded(t, h) == IF t[1] # "instance_events" /\ h = 0 THEN None ELSE h

OneHashPerId(pairs) == \A p, q \in pairs : p[1] = q[1] => p[2] = q[2]

OneIdPerHash(pairs) == \A p, q \in pairs : p[2] = q[2] => p[1] = q[1]

\* No cross-talk: whatever a method answers stood in the array, and for an
\* instance event in the last group of the type, at exactly that id; an
\* instance table may also answer 0, in a gap only. Padding, overwriting and
\* the per-group local of the loader (mod.rs 183-214, 232-261) never make up
\* or leak any other answer.
AnswersWereLoaded ==
    \A t \in Tables :
        /\ \A id \in Ids : DecodeIn(t, id) # None =>
              <<id, DecodeIn(t, id)>> \in PairsOf(t) \/ GapAnswer(t, id)
        /\ \A h \in Hashes : EncodeIn(t, h) # None => <<EncodeIn(t, h), h>> \in PairsOf(t)

\* What a sender of this version encodes, a receiver of this version decodes
\* to the same hash, as long as no id of the array carries two hashes; two
\* ids that share a hash do no harm in this direction. The hash 0 is the one
\* a flat table encodes and never decodes (mod.rs 298, 306 against 310-320).
EncodeThenDecode ==
    \A t \in Tables : OneHashPerId(PairsOf(t)) =>
        \A h \in Hashes : EncodeIn(t, h) # None =>
            DecodeIn(t, EncodeIn(t, h)) = Decoded(t, h)

\* A hash that was decoded can always be encoded again, unless it is the 0 of
\* an instance table's gap; when no hash has two ids it goes back to the id
\* it came from, even if that id was overwritten while the file was read.
DecodeThenEncode ==
    \A t \in Tables : \A id \in Ids :
        DecodeIn(t, id) # None /\ ~GapAnswer(t, id) =>
            /\ EncodeIn(t, DecodeIn(t, id)) # None
            /\ OneIdPerHash(PairsOf(t)) => EncodeIn(t, DecodeIn(t, id)) = id

\* Nothing of an unambiguous array is lost, in whatever order its ids come and
\* whatever gaps they leave: every entry of every table, of a type's last
\* group for an instance event, answers in both directions (a 0 in a flat
\* table in one).
EveryEntryAnswers ==
    \A t \in Tables : OneHashPerId(PairsOf(t)) /\ OneIdPerHash(PairsOf(t)) =>
        \A p \in PairsOf(t) :
            DecodeIn(t, p[1]) = Decoded(t, p[2]) /\ EncodeIn(t, p[2]) = p[1]

\* The doc of try_decode_instance_event_id ("returning None for unknown"): an
\* id that no entry of the type's group carries decodes to None. The code
\* returns the 0 it padded with.
UnknownInstanceIdIsNone ==
    \A th \in DOMAIN instance_events, id \in Ids :
        (\A p \in loaded.instance_events[th] : p[1] # id)
            => TryDecodeInstanceEventId(th, id) = None
=============================================================================
