----------------------------- MODULE LookupTable -----------------------------
(***************************************************************************)
(* The bidirectional tables of a protocol version                          *)
(* (crate-transport/src/protocol/version/mod.rs): a dense vector from a    *)
(* version-specific id to a stable hash, padded with 0 where no entry was  *)
(* loaded, and a hash map back.  The type table, the static-event table    *)
(* and the event table of each replicated type all have this shape.        *)
(*                                                                         *)
(* A HashMap is a function whose DOMAIN is the set of its keys; a Vec is a *)
(* function on 0..n-1, so that an index here is the index of the code.     *)
(***************************************************************************)
EXTENDS Integers, Functions

CONSTANT None      \* the absent Option / the Err of a lookup

ASSUME NoneAssumption == None \notin Int

----------------------------------------------------------------------------
(* HashMap::insert and HashMap::remove *)

Put(f, k, v) == [x \in DOMAIN f \cup {k} |-> IF x = k THEN v ELSE f[x]]

Remove(f, k) == Restrict(f, DOMAIN f \ {k})

EmptyMap == [x \in {} |-> None]

----------------------------------------------------------------------------
EmptyTable == [slots |-> EmptyMap, ids |-> EmptyMap]

\* The tables a loader can hold: ids and hashes are integers, and the vector
\* is dense from 0.
IsTable(t) ==
    /\ DOMAIN t = {"slots", "ids"}
    /\ DOMAIN t.slots \subseteq Nat
    /\ \A k \in DOMAIN t.slots : 0..k \subseteq DOMAIN t.slots
    /\ t.slots \in [DOMAIN t.slots -> Int]
    /\ DOMAIN t.ids \subseteq Int
    /\ t.ids \in [DOMAIN t.ids -> Nat]

\* Slips of LoadEntry, for mutation runs: no padding below the id; the two
\* arguments of the insert swapped; no way back for an overwritten slot; the
\* vector resized down to the id.
LoadEntryUnpadded(t, id, hash) ==
    [slots |-> Put(t.slots, id, hash), ids |-> Put(t.ids, hash, id)]

LoadEntrySwapped(t, id, hash) ==
    [slots |-> [k \in DOMAIN t.slots \cup 0..id |->
                   IF k = id THEN hash
                   ELSE IF k \in DOMAIN t.slots THEN t.slots[k] ELSE 0],
     ids   |-> Put(t.ids, id, hash)]

LoadEntryFirstWayBack(t, id, hash) ==
    [slots |-> [k \in DOMAIN t.slots \cup 0..id |->
                   IF k = id THEN hash
                   ELSE IF k \in DOMAIN t.slots THEN t.slots[k] ELSE 0],
     ids   |-> IF id \in DOMAIN t.slots THEN t.ids ELSE Put(t.ids, hash, id)]

LoadEntryResized(t, id, hash) ==
    [slots |-> [k \in 0..id |->
                   IF k = id THEN hash
                   ELSE IF k \in DOMAIN t.slots THEN t.slots[k] ELSE 0],
     ids   |-> Put(t.ids, hash, id)]

\* One entry of the JSON: pad the vector with zeros up to the id, overwrite
\* the slot, overwrite the way back.
LoadEntry(t, id, hash) ==
    [slots |-> [k \in DOMAIN t.slots \cup 0..id |->
                   IF k = id THEN hash
                   ELSE IF k \in DOMAIN t.slots THEN t.slots[k] ELSE 0],
     ids   |-> Put(t.ids, hash, id)]

\* decode_type_index, decode_static_event_id: a padding slot is unknown.
Decode(t, id) ==
    IF id \in DOMAIN t.slots /\ t.slots[id] # 0 THEN t.slots[id] ELSE None

\* InstanceEventSchema::decode_event_id: whatever the slot holds.
DecodeSlot(t, id) ==
    IF id \in DOMAIN t.slots THEN t.slots[id] ELSE None

\* encode_type_hash, encode_static_event_hash, encode_event_hash.
Encode(t, hash) ==
    IF hash \in DOMAIN t.ids THEN t.ids[hash] ELSE None
=============================================================================
