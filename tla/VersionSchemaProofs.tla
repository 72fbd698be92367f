------------------------- MODULE VersionSchemaProofs -------------------------
(***************************************************************************)
(* For every schema file, whatever ids and hashes it repeats or leaves     *)
(* out: the invariants of VersionSchema hold at each entry of the loader.  *)
(***************************************************************************)
EXTENDS VersionSchema, TLAPS

\* What LoadEntry keeps true of a table t built from exactly the pairs P: a
\* slot holds a pair of its id or is the padding of an id without one, and a
\* way back leads to a pair.
TableInv(t, P) ==
    /\ IsTable(t)
    /\ P \subseteq Entry
    /\ \A p \in P : p[1] \in DOMAIN t.slots /\ p[2] \in DOMAIN t.ids
    /\ \A h \in DOMAIN t.ids : <<t.ids[h], h>> \in P
    /\ \A id \in DOMAIN t.slots :
          \/ <<id, t.slots[id]>> \in P
          \/ t.slots[id] = 0 /\ \A p \in P : p[1] # id

IInv ==
    /\ TypeOK
    /\ TableInv(types, loaded.types)
    /\ TableInv(statics, loaded.static_events)
    /\ DOMAIN loaded.instance_events = DOMAIN instance_events
    /\ \A th \in DOMAIN instance_events :
          TableInv(instance_events[th], loaded.instance_events[th])
    /\ group # None => TableInv(instance_schema, loaded.group)

(* The empty table was given nothing. *)
LEMMA EmptyTableInv == TableInv(EmptyTable, {})
  BY DEF TableInv, EmptyTable, EmptyMap, IsTable

(* The ids and hashes of a file are integers. *)
LEMMA EntryTypes ==
    ASSUME NEW id \in Ids, NEW h \in Hashes
    PROVE  id \in Nat /\ h \in Int
  BY IdsAssumption, HashesAssumption

(* LoadEntry yields a dense table: the padding of the loader. *)
LEMMA LoadEntryIsTable ==
    ASSUME NEW t, IsTable(t), NEW id \in Nat, NEW h \in Int
    PROVE  IsTable(LoadEntry(t, id, h))
  <1> DEFINE u == LoadEntry(t, id, h)
  <1>1. DOMAIN u = {"slots", "ids"}
    BY DEF LoadEntry
  <1>2. DOMAIN u.slots = DOMAIN t.slots \cup 0..id
    BY DEF LoadEntry
  <1>3. \A k \in DOMAIN u.slots : 0..k \subseteq DOMAIN u.slots
    BY <1>2 DEF IsTable
  <1>4. u.slots \in [DOMAIN u.slots -> Int] /\ DOMAIN u.slots \subseteq Nat
    BY <1>2 DEF LoadEntry, IsTable
  <1>5. DOMAIN u.ids \subseteq Int /\ u.ids \in [DOMAIN u.ids -> Nat]
    BY DEF LoadEntry, Put, IsTable
  <1>6. QED
    BY <1>1, <1>3, <1>4, <1>5 DEF IsTable

(* One more entry keeps a table consistent with one more pair. *)
LEMMA LoadEntryInv ==
    ASSUME NEW t, NEW P, TableInv(t, P), NEW id \in Ids, NEW h \in Hashes
    PROVE  TableInv(LoadEntry(t, id, h), P \cup {<<id, h>>})
  <1> DEFINE u == LoadEntry(t, id, h)
             Q == P \cup {<<id, h>>}
  <1>a. id \in Nat /\ h \in Int
    BY EntryTypes
  <1>1. IsTable(u)
    BY <1>a, LoadEntryIsTable DEF TableInv
  <1>2. /\ DOMAIN u.slots = DOMAIN t.slots \cup 0..id
        /\ id \in DOMAIN u.slots
        /\ u.slots[id] = h
        /\ \A k \in DOMAIN u.slots : k # id =>
              u.slots[k] = IF k \in DOMAIN t.slots THEN t.slots[k] ELSE 0
    BY <1>a DEF LoadEntry
  <1>3. /\ DOMAIN u.ids = DOMAIN t.ids \cup {h}
        /\ u.ids[h] = id
        /\ \A g \in DOMAIN t.ids : g # h => u.ids[g] = t.ids[g]
    BY DEF LoadEntry, Put
  <1>4. Q \subseteq Entry
    BY DEF TableInv, Entry
  <1>5. \A p \in Q : p[1] \in DOMAIN u.slots /\ p[2] \in DOMAIN u.ids
    BY <1>2, <1>3 DEF TableInv
  <1>6. \A g \in DOMAIN u.ids : <<u.ids[g], g>> \in Q
    BY <1>3 DEF TableInv
  <1>7. ASSUME NEW k \in DOMAIN u.slots
        PROVE  <<k, u.slots[k]>> \in Q \/ (u.slots[k] = 0 /\ \A p \in Q : p[1] # k)
    <2>1. CASE k = id
      BY <2>1, <1>2
    <2>2. CASE k # id /\ k \in DOMAIN t.slots
      BY <2>2, <1>2 DEF TableInv
    <2>3. CASE k # id /\ k \notin DOMAIN t.slots
      BY <2>3, <1>2 DEF TableInv
    <2>4. QED
      BY <2>1, <2>2, <2>3
  <1>8. QED
    BY <1>1, <1>4, <1>5, <1>6, <1>7 DEF TableInv
----------------------------------------------------------------------------
(* Before the first entry every table is empty, so IInv holds. *)
THEOREM InitIInv == Init => IInv
  <1> SUFFICES ASSUME Init
               PROVE  IInv
    OBVIOUS
  <1>1. EmptyMap \in [{} -> SUBSET Entry]
    BY DEF EmptyMap
  <1>2. loaded \in History
    BY <1>1, MaxEntriesAssumption DEF Init, History
  <1>3. TypeOK
    BY <1>2 DEF Init, TypeOK, IsTable, EmptyTable, EmptyMap, Sections
  <1>4. QED
    BY <1>3, EmptyTableInv DEF Init, IInv, EmptyMap

(* The history after an entry was consumed for one of its lists. *)
LEMMA RememberHistory ==
    ASSUME TypeOK, NEW list \in {"types", "static_events", "group"},
           NEW id \in Ids, NEW h \in Hashes, Remember(list, id, h)
    PROVE  /\ loaded' \in History
           /\ loaded'[list] = loaded[list] \cup {<<id, h>>}
           /\ \A other \in {"types", "static_events", "group", "instance_events"} :
                 other # list => loaded'[other] = loaded[other]
  <1>1. loaded \in History /\ <<id, h>> \in Entry
    BY DEF TypeOK, Entry
  <1>2. /\ loaded.count < MaxEntries
        /\ loaded' = [loaded EXCEPT ![list] = @ \cup {<<id, h>>}, !.count = @ + 1]
    BY DEF Remember
  <1>3. loaded.count + 1 \in 0..MaxEntries
    <2>1. loaded.count \in 0..MaxEntries /\ loaded.count < MaxEntries
      BY <1>1, <1>2 DEF History
    <2>2. QED
      BY <2>1, MaxEntriesAssumption
  <1>4. QED
    BY <1>1, <1>2, <1>3 DEF History

(* Every step of the loader keeps IInv: consuming an entry adds it to one
   table and to that table's pairs, closing a group moves its table. *)
THEOREM NextIInv == IInv /\ [Next]_vars => IInv'
  <1> SUFFICES ASSUME IInv, [Next]_vars
               PROVE  IInv'
    OBVIOUS
  <1> USE DEF IInv
  <1>n. None \notin TypeHashes
    BY NoneAssumption, HashesAssumption
  <1>1. ASSUME NEW id \in Ids, NEW h \in Hashes, LoadType(id, h)
        PROVE  IInv'
    <2>1. Remember("types", id, h)
      BY <1>1 DEF LoadType
    <2>2. /\ loaded' \in History
          /\ loaded'.types = loaded.types \cup {<<id, h>>}
          /\ loaded'.static_events = loaded.static_events
          /\ loaded'.group = loaded.group
          /\ loaded'.instance_events = loaded.instance_events
      BY <2>1, RememberHistory
    <2>3. TableInv(types', loaded'.types)
      BY <1>1, <2>2, LoadEntryInv DEF LoadType
    <2>4. TypeOK'
      BY <1>1, <2>2, <2>3 DEF LoadType, TypeOK, TableInv
    <2>5. QED
      BY <1>1, <2>2, <2>3, <2>4 DEF LoadType
  <1>2. ASSUME NEW id \in Ids, NEW h \in Hashes, LoadStaticEvent(id, h)
        PROVE  IInv'
    <2>1. Remember("static_events", id, h)
      BY <1>2 DEF LoadStaticEvent
    <2>2. /\ loaded' \in History
          /\ loaded'.types = loaded.types
          /\ loaded'.static_events = loaded.static_events \cup {<<id, h>>}
          /\ loaded'.group = loaded.group
          /\ loaded'.instance_events = loaded.instance_events
      BY <2>1, RememberHistory
    <2>3. TableInv(statics', loaded'.static_events)
      BY <1>2, <2>2, LoadEntryInv DEF LoadStaticEvent
    <2>4. TypeOK'
      BY <1>2, <2>2, <2>3 DEF LoadStaticEvent, TypeOK, TableInv
    <2>5. QED
      BY <1>2, <2>2, <2>3, <2>4 DEF LoadStaticEvent
  <1>3. ASSUME NEW id \in Ids, NEW h \in Hashes, LoadInstanceEvent(id, h)
        PROVE  IInv'
    <2>1. Remember("group", id, h) /\ group # None
      BY <1>3 DEF LoadInstanceEvent
    <2>2. /\ loaded' \in History
          /\ loaded'.types = loaded.types
          /\ loaded'.static_events = loaded.static_events
          /\ loaded'.group = loaded.group \cup {<<id, h>>}
          /\ loaded'.instance_events = loaded.instance_events
      BY <2>1, RememberHistory
    <2>3. TableInv(instance_schema', loaded'.group)
      BY <1>3, <2>1, <2>2, LoadEntryInv DEF LoadInstanceEvent
    <2>4. TypeOK'
      BY <1>3, <2>2, <2>3 DEF LoadInstanceEvent, TypeOK, TableInv
    <2>5. QED
      BY <1>3, <2>2, <2>3, <2>4 DEF LoadInstanceEvent
  <1>4. ASSUME NEW th \in TypeHashes, OpenGroup(th)
        PROVE  IInv'
    <2>1. loaded' = [loaded EXCEPT !.group = {}]
      BY <1>4 DEF OpenGroup
    <2>2. /\ loaded' \in History
          /\ loaded'.group = {}
          /\ loaded'.types = loaded.types
          /\ loaded'.static_events = loaded.static_events
          /\ loaded'.instance_events = loaded.instance_events
      BY <2>1 DEF TypeOK, History
    <2>3. TypeOK'
      BY <1>4, <2>2, EmptyTableInv DEF OpenGroup, TypeOK, TableInv
    <2>4. QED
      BY <1>4, <2>2, <2>3, EmptyTableInv DEF OpenGroup
  <1>5. ASSUME CloseGroup
        PROVE  IInv'
    <2> DEFINE closed == Put(loaded.instance_events, group, loaded.group)
    <2>1. loaded' = [loaded EXCEPT !.instance_events = closed]
      BY <1>5 DEF CloseGroup
    <2>2. /\ group \in TypeHashes /\ loaded.group \in SUBSET Entry
          /\ loaded.instance_events \in [DOMAIN instance_events -> SUBSET Entry]
          /\ DOMAIN instance_events \subseteq TypeHashes
      BY <1>5 DEF CloseGroup, TypeOK, History
    <2>3. closed \in [DOMAIN instance_events \cup {group} -> SUBSET Entry]
      BY <2>2 DEF Put
    <2>4. closed \in UNION {[T -> SUBSET Entry] : T \in SUBSET TypeHashes}
      BY <2>2, <2>3
    <2>5. /\ loaded' \in History
          /\ loaded'.types = loaded.types
          /\ loaded'.static_events = loaded.static_events
          /\ loaded'.instance_events = closed
      BY <2>1, <2>4 DEF TypeOK, History
    <2>6. DOMAIN instance_events' = DOMAIN instance_events \cup {group}
      BY <1>5 DEF CloseGroup, Put
    <2>7. \A th \in DOMAIN instance_events' : TableInv(instance_events'[th], closed[th])
      BY <1>5, <2>2 DEF CloseGroup, Put
    <2>8. TypeOK'
      BY <1>5, <2>2, <2>5, <2>6, <2>7 DEF CloseGroup, TypeOK, TableInv
    <2>9. QED
      BY <1>5, <2>3, <2>5, <2>6, <2>7, <2>8 DEF CloseGroup
  <1>6. ASSUME EndTypes \/ EndStaticEvents \/ Finish \/ UNCHANGED vars
        PROVE  IInv'
    <2>1. UNCHANGED <<types, statics, instance_events, group, instance_schema, loaded>>
      BY <1>6 DEF EndTypes, EndStaticEvents, Finish, vars
    <2>2. section' \in Sections
      BY <1>6 DEF EndTypes, EndStaticEvents, Finish, vars, TypeOK, Sections
    <2>3. QED
      BY <2>1, <2>2 DEF TypeOK
  <1>7. QED
    BY <1>1, <1>2, <1>3, <1>4, <1>5, <1>6 DEF Next

(* The strengthened invariant holds of every schema file being loaded. *)
THEOREM LoaderInv == Spec => []IInv
  <1>1. QED
    BY InitIInv, NextIInv, PTL DEF Spec

(* Tables stay dense vectors and maps of 16-bit ids, for every file        *)
(* (version/mod.rs 170-264).                                               *)
THEOREM SpecTypeOK == Spec => []TypeOK
  <1>1. IInv => TypeOK
    BY DEF IInv
  <1>2. QED
    BY <1>1, LoaderInv, PTL
----------------------------------------------------------------------------
(* The methods read one table each, and that table has TableInv; only the
   flat tables filter the zero hash. *)
LEMMA Methods ==
    ASSUME IInv, NEW t \in Tables
    PROVE  \E u : /\ TableInv(u, PairsOf(t))
                  /\ \A id : DecodeIn(t, id) = IF t[1] = "instance_events"
                                               THEN DecodeSlot(u, id) ELSE Decode(u, id)
                  /\ \A h : EncodeIn(t, h) = Encode(u, h)
  <1>1. CASE t = <<"types", None>>
    <2>1. TableInv(types, PairsOf(t))
      BY <1>1 DEF IInv, PairsOf
    <2>2. \A id : DecodeIn(t, id) = Decode(types, id)
      BY <1>1 DEF DecodeIn, DecodeTypeIndex
    <2>3. \A h : EncodeIn(t, h) = Encode(types, h)
      BY <1>1 DEF EncodeIn, EncodeTypeHash
    <2>4. QED
      BY <1>1, <2>1, <2>2, <2>3
  <1>2. CASE t = <<"static_events", None>>
    <2>1. TableInv(statics, PairsOf(t))
      BY <1>2 DEF IInv, PairsOf
    <2>2. \A id : DecodeIn(t, id) = Decode(statics, id)
      BY <1>2 DEF DecodeIn, DecodeStaticEventId
    <2>3. \A h : EncodeIn(t, h) = Encode(statics, h)
      BY <1>2 DEF EncodeIn, EncodeStaticEventHash
    <2>4. QED
      BY <1>2, <2>1, <2>2, <2>3
  <1>3. ASSUME NEW th \in DOMAIN instance_events, t = <<"instance_events", th>>
        PROVE  \E u : /\ TableInv(u, PairsOf(t))
                      /\ \A id : DecodeIn(t, id) = IF t[1] = "instance_events"
                                                   THEN DecodeSlot(u, id) ELSE Decode(u, id)
                      /\ \A h : EncodeIn(t, h) = Encode(u, h)
    <2>1. TableInv(instance_events[th], PairsOf(t))
      BY <1>3 DEF IInv, PairsOf
    <2>2. \A id : DecodeIn(t, id) = DecodeSlot(instance_events[th], id)
      BY <1>3 DEF DecodeIn, TryDecodeInstanceEventId
    <2>3. \A h : EncodeIn(t, h) = Encode(instance_events[th], h)
      BY <1>3 DEF EncodeIn, EncodeInstanceEventHash
    <2>4. QED
      BY <1>3, <2>1, <2>2, <2>3
  <1>4. QED
    BY <1>1, <1>2, <1>3 DEF Tables

(* A decoded id: a pair of the table, from which the hash encodes again; or a
   gap, where an instance table answers 0 and a flat one nothing. *)
LEMMA DecodedId ==
    ASSUME IInv, NEW t \in Tables, NEW id, DecodeIn(t, id) # None, ~GapAnswer(t, id)
    PROVE  /\ <<id, DecodeIn(t, id)>> \in PairsOf(t)
           /\ EncodeIn(t, DecodeIn(t, id)) # None
           /\ OneIdPerHash(PairsOf(t)) => EncodeIn(t, DecodeIn(t, id)) = id
  <1> DEFINE P == PairsOf(t)
             h == DecodeIn(t, id)
  <1>1. PICK u : /\ TableInv(u, P)
                 /\ \A k : DecodeIn(t, k) = IF t[1] = "instance_events"
                                            THEN DecodeSlot(u, k) ELSE Decode(u, k)
                 /\ \A g : EncodeIn(t, g) = Encode(u, g)
    BY Methods
  <1>2. id \in DOMAIN u.slots /\ h = u.slots[id] /\ (t[1] # "instance_events" => h # 0)
    BY <1>1 DEF Decode, DecodeSlot
  <1>3. <<id, h>> \in P
    BY <1>1, <1>2 DEF TableInv, GapAnswer
  <1>4. h \in DOMAIN u.ids /\ u.ids[h] \in Nat /\ <<u.ids[h], h>> \in P
    BY <1>1, <1>3 DEF TableInv, IsTable
  <1>5. EncodeIn(t, h) = u.ids[h]
    BY <1>1, <1>4 DEF Encode
  <1>6. OneIdPerHash(P) => u.ids[h] = id
    BY <1>3, <1>4 DEF OneIdPerHash
  <1>7. EncodeIn(t, h) # None
    BY <1>4, <1>5, NoneAssumption
  <1>8. QED
    BY <1>3, <1>5, <1>6, <1>7

(* An encoded hash: a pair of the table, which decodes again when no other
   pair has its id. *)
LEMMA EncodedHash ==
    ASSUME IInv, NEW t \in Tables, NEW h, EncodeIn(t, h) # None
    PROVE  /\ <<EncodeIn(t, h), h>> \in PairsOf(t)
           /\ OneHashPerId(PairsOf(t)) => DecodeIn(t, EncodeIn(t, h)) = Decoded(t, h)
  <1> DEFINE P == PairsOf(t)
             id == EncodeIn(t, h)
  <1>1. PICK u : /\ TableInv(u, P)
                 /\ \A k : DecodeIn(t, k) = IF t[1] = "instance_events"
                                            THEN DecodeSlot(u, k) ELSE Decode(u, k)
                 /\ \A g : EncodeIn(t, g) = Encode(u, g)
    BY Methods
  <1>2. <<id, h>> \in P
    BY <1>1 DEF TableInv, Encode
  <1>3. id \in DOMAIN u.slots /\ <<id, u.slots[id]>> \in P
    BY <1>1, <1>2 DEF TableInv
  <1>4. OneHashPerId(P) => u.slots[id] = h
    BY <1>2, <1>3 DEF OneHashPerId
  <1>5. OneHashPerId(P) => DecodeIn(t, id) = Decoded(t, h)
    BY <1>1, <1>3, <1>4 DEF Decode, DecodeSlot, Decoded
  <1>6. QED
    BY <1>2, <1>5

(* The methods make up no answer, for every file, but the 0 of an instance *)
(* table's gap (version/mod.rs 136-138, 170-264, 293-349).                 *)
THEOREM NoCrossTalk == Spec => []AnswersWereLoaded
  <1>1. IInv => AnswersWereLoaded
    BY DecodedId, EncodedHash DEF AnswersWereLoaded
  <1>2. QED
    BY <1>1, LoaderInv, PTL

(* Sender and receiver of one version agree on every hash the sender can   *)
(* encode, for every file that gives no id two hashes; a flat table's 0 is *)
(* encoded and decodes to nothing.                                         *)
THEOREM EncodeDecodes == Spec => []EncodeThenDecode
  <1>1. IInv => EncodeThenDecode
    BY EncodedHash DEF EncodeThenDecode
  <1>2. QED
    BY <1>1, LoaderInv, PTL

(* A decoded hash can be encoded again, for every file, unless it is the 0 *)
(* of an instance table's gap.                                             *)
THEOREM DecodeEncodes == Spec => []DecodeThenEncode
  <1>1. IInv => DecodeThenEncode
    BY DecodedId DEF DecodeThenEncode
  <1>2. QED
    BY <1>1, LoaderInv, PTL

(* No entry of an unambiguous array is lost, in any of the tables. *)
THEOREM EntriesAnswer == Spec => []EveryEntryAnswers
  <1>1. ASSUME IInv, NEW t \in Tables, OneHashPerId(PairsOf(t)), OneIdPerHash(PairsOf(t)),
               NEW p \in PairsOf(t)
        PROVE  DecodeIn(t, p[1]) = Decoded(t, p[2]) /\ EncodeIn(t, p[2]) = p[1]
    <2>1. PICK u : /\ TableInv(u, PairsOf(t))
                   /\ \A h : EncodeIn(t, h) = Encode(u, h)
      BY <1>1, Methods
    <2>2. p[2] \in DOMAIN u.ids /\ u.ids[p[2]] \in Nat /\ <<u.ids[p[2]], p[2]>> \in PairsOf(t)
      BY <1>1, <2>1 DEF TableInv, IsTable
    <2>3. u.ids[p[2]] = p[1]
      BY <1>1, <2>2 DEF OneIdPerHash
    <2>4. EncodeIn(t, p[2]) = p[1] /\ p[1] \in Nat
      BY <2>1, <2>2, <2>3 DEF Encode
    <2>5. EncodeIn(t, p[2]) # None
      BY <2>4, NoneAssumption
    <2>6. DecodeIn(t, EncodeIn(t, p[2])) = Decoded(t, p[2])
      BY <1>1, <2>5, EncodedHash
    <2>7. QED
      BY <2>4, <2>6
  <1>2. IInv => EveryEntryAnswers
    BY <1>1 DEF EveryEntryAnswers
  <1>3. QED
    BY <1>2, LoaderInv, PTL
=============================================================================
