----------------------- MODULE ReplicationClientProofs -----------------------
(***************************************************************************)
(* For every set of ids and types, every event table without duplicates    *)
(* and every length of run: the client of ReplicationClient follows the    *)
(* server's past, and so implements LaggingReplica.                        *)
(***************************************************************************)
EXTENDS ReplicationClient, TLAPS

\* The server's world before and after the message m.
Change(w, m, v) ==
    \/ /\ m.kind = "create"
       /\ w[m.id] = None
       /\ v = [w EXCEPT ![m.id] = [type |-> m.type, events |-> 0]]
    \/ /\ m.kind = "destroy"
       /\ w[m.id] # None
       /\ v = [w EXCEPT ![m.id] = None]
    \/ /\ m.kind = "rpc"
       /\ m.id \in Ids /\ w[m.id] # None
       /\ \E h \in ReliableEvents :
             /\ ResolveInstanceEventHash(m.event_id, w[m.id].type) = h
             /\ v = IF w[m.id].type = MyCubeGrid /\ h \in VisitedEvents /\ ParsesPayload(h, m.form)
                    THEN [w EXCEPT ![m.id].events = @ + 1] ELSE w

\* What the log says of the server's past.
History ==
    /\ Len(past) = Len(log) + 1
    /\ past[Len(past)] = world
    /\ \A k \in 1..Len(log) : Change(past[k], log[k], past[k + 1])

IInv == TypeOK /\ History /\ InstancesMatchTypes /\ ObjectsArePast

----------------------------------------------------------------------------
(* The fields a message of each kind has. *)
LEMMA MessageFields ==
    ASSUME NEW m \in Messages
    PROVE  /\ m.kind \in {"create", "destroy", "rpc"}
           /\ m.kind = "create" => m.id \in Ids /\ m.type \in Types
           /\ m.kind = "destroy" => m.id \in Ids
           /\ m.kind = "rpc" => m.id \in Ids \cup {0} /\ m.event_id \in Nat /\ m.form \in Forms
  BY DEF Messages, Packets

(* The static target is no object's network id. *)
LEMMA ZeroIsNoId == 0 \notin Ids
  BY IdsAssumption

(* A reliable message extends the history by the change it announces. *)
LEMMA SendKeepsHistory ==
    ASSUME TypeOK, History, NEW m \in Messages, NEW w \in Worlds,
           SendReliable(m, w), Change(world, m, w)
    PROVE  TypeOK' /\ History' /\ past'[pos' + 1] = past[pos + 1]
  <1>1. /\ log \in Seq(Messages) /\ past \in Seq(Worlds) /\ Len(log) \in Nat
        /\ Len(past) = Len(log) + 1 /\ past[Len(past)] = world /\ pos \in 0..Len(log)
    BY DEF TypeOK, History
  <1>2. /\ log' = Append(log, m) /\ past' = Append(past, w) /\ world' = w
        /\ UNCHANGED <<pos, loose, loose_sent, client>>
    BY DEF SendReliable
  <1>3. /\ log' \in Seq(Messages) /\ Len(log') = Len(log) + 1 /\ log'[Len(log) + 1] = m
        /\ \A k \in 1..Len(log) : log'[k] = log[k]
    BY <1>1, <1>2
  <1>4. /\ past' \in Seq(Worlds) /\ Len(past') = Len(past) + 1 /\ past'[Len(past) + 1] = w
        /\ \A k \in 1..Len(past) : past'[k] = past[k]
    BY <1>1, <1>2
  <1>5. pos' \in 0..Len(log')
    BY <1>1, <1>2, <1>3
  <1>6. TypeOK'
    BY <1>2, <1>3, <1>4, <1>5 DEF TypeOK, client
  <1>7. ASSUME NEW k \in 1..Len(log')
        PROVE  Change(past'[k], log'[k], past'[k + 1])
    <2>1. CASE k \in 1..Len(log)
      <3>1. k \in 1..Len(past) /\ k + 1 \in 1..Len(past)
        BY <2>1, <1>1
      <3>2. Change(past[k], log[k], past[k + 1])
        BY <2>1 DEF History
      <3>3. QED
        BY <2>1, <3>1, <3>2, <1>3, <1>4
    <2>2. CASE k = Len(log) + 1
      <3>1. k = Len(past) /\ k \in 1..Len(past)
        BY <2>2, <1>1
      <3>2. past'[k] = world /\ past'[k + 1] = w /\ log'[k] = m
        BY <2>2, <3>1, <1>1, <1>3, <1>4
      <3>3. QED
        BY <3>2
    <2>3. QED
      BY <2>1, <2>2, <1>1, <1>3
  <1>8. History'
    BY <1>1, <1>2, <1>3, <1>4, <1>7 DEF History
  <1>9. pos + 1 \in 1..Len(past)
    BY <1>1
  <1>10. QED
    BY <1>2, <1>4, <1>6, <1>8, <1>9

(* The world before the message the client handles next, and after it. *)
LEMMA NextMessage ==
    ASSUME TypeOK, History, pos < Len(log)
    PROVE  /\ log[pos + 1] \in Messages
           /\ past[pos + 1] \in Worlds /\ past[pos + 2] \in Worlds
           /\ Change(past[pos + 1], log[pos + 1], past[pos + 2])
  <1>1. /\ log \in Seq(Messages) /\ past \in Seq(Worlds) /\ Len(log) \in Nat
        /\ Len(past) = Len(log) + 1 /\ pos \in Nat
    BY DEF TypeOK, History
  <1>2. pos + 1 \in 1..Len(log) /\ pos + 1 \in 1..Len(past) /\ pos + 2 \in 1..Len(past)
          /\ (pos + 1) + 1 = pos + 2
    BY <1>1
  <1>3. Change(past[pos + 1], log[pos + 1], past[(pos + 1) + 1])
    BY <1>2 DEF History
  <1>4. QED
    BY <1>1, <1>2, <1>3

(* A packet, reliable or loose, touches no map but the counts of grids.    *)
LEMMA PacketKeepsMaps ==
    ASSUME TypeOK, NEW m, ReceivePacket(m)
    PROVE  /\ UNCHANGED <<type_by_network_id, characters>>
           /\ DOMAIN grids' = DOMAIN grids
           /\ grids' \in [DOMAIN grids' -> Nat]
  <1>1. grids \in [DOMAIN grids -> Nat]
    BY DEF TypeOK
  <1>2. UNCHANGED <<type_by_network_id, characters>>
    BY DEF ReceivePacket, client
  <1>3. grids' = grids \/ (Counts(m) /\ grids' = [grids EXCEPT ![m.id] = @ + 1])
    BY DEF ReceivePacket, client
  <1>4. Counts(m) => m.id \in DOMAIN grids
    BY DEF Counts
  <1>5. QED
    BY <1>1, <1>2, <1>3, <1>4

(* Creating: the id gets an instance of its type, and only of that type,   *)
(* because no live object had it.                                          *)
LEMMA CreateStep ==
    ASSUME TypeOK, InstancesMatchTypes, NEW id \in Ids, NEW t \in Types,
           id \notin DOMAIN type_by_network_id, OnReplicationCreate(id, t)
    PROVE  /\ DOMAIN type_by_network_id' \subseteq Ids
           /\ type_by_network_id' \in [DOMAIN type_by_network_id' -> Types]
           /\ DOMAIN grids' \subseteq Ids /\ grids' \in [DOMAIN grids' -> Nat]
           /\ characters' \subseteq Ids
           /\ InstancesMatchTypes'
  <1>1. /\ DOMAIN type_by_network_id \subseteq Ids
        /\ type_by_network_id \in [DOMAIN type_by_network_id -> Types]
        /\ DOMAIN grids \subseteq Ids /\ grids \in [DOMAIN grids -> Nat]
        /\ characters \subseteq Ids
    BY DEF TypeOK
  <1>2. type_by_network_id' = Put(type_by_network_id, id, t)
    BY DEF OnReplicationCreate
  <1>3. /\ DOMAIN type_by_network_id' = DOMAIN type_by_network_id \cup {id}
        /\ type_by_network_id'[id] = t
        /\ \A x \in DOMAIN type_by_network_id :
              x # id => type_by_network_id'[x] = type_by_network_id[x]
    BY <1>2 DEF Put
  <1>a. /\ DOMAIN type_by_network_id' \subseteq Ids
        /\ type_by_network_id' \in [DOMAIN type_by_network_id' -> Types]
    BY <1>1, <1>2 DEF Put
  <1>4. DOMAIN grids' = IF t = MyCubeGrid THEN DOMAIN grids \cup {id} ELSE DOMAIN grids
    BY DEF OnReplicationCreate, Put
  <1>b. DOMAIN grids' \subseteq Ids /\ grids' \in [DOMAIN grids' -> Nat]
    <2>1. grids' = Put(grids, id, 0) \/ grids' = grids
      BY DEF OnReplicationCreate
    <2>2. 0 \in Nat
      OBVIOUS
    <2>3. QED
      BY <1>1, <2>1, <2>2 DEF Put
  <1>5. characters' = IF t = MyCharacter THEN characters \cup {id} ELSE characters
    BY DEF OnReplicationCreate
  <1>6. InstancesMatchTypes'
    BY <1>3, <1>4, <1>5 DEF InstancesMatchTypes
  <1>7. QED
    BY <1>1, <1>a, <1>b, <1>5, <1>6

(* Destroying: the type the id had names the only instance there is.       *)
LEMMA DestroyStep ==
    ASSUME TypeOK, InstancesMatchTypes, NEW id \in DOMAIN type_by_network_id,
           OnReplicationDestroy(id)
    PROVE  /\ DOMAIN type_by_network_id' \subseteq Ids
           /\ type_by_network_id' \in [DOMAIN type_by_network_id' -> Types]
           /\ DOMAIN grids' \subseteq Ids /\ grids' \in [DOMAIN grids' -> Nat]
           /\ characters' \subseteq Ids
           /\ InstancesMatchTypes'
  <1> DEFINE t == type_by_network_id[id]
  <1>1. /\ DOMAIN type_by_network_id \subseteq Ids
        /\ type_by_network_id \in [DOMAIN type_by_network_id -> Types]
        /\ DOMAIN grids \subseteq Ids /\ grids \in [DOMAIN grids -> Nat]
        /\ characters \subseteq Ids
    BY DEF TypeOK
  <1>2. /\ type_by_network_id' = Remove(type_by_network_id, id)
        /\ grids' = IF t = MyCubeGrid THEN Remove(grids, id) ELSE grids
        /\ characters' = IF t = MyCharacter THEN characters \ {id} ELSE characters
    BY DEF OnReplicationDestroy
  <1>3. /\ DOMAIN type_by_network_id' = DOMAIN type_by_network_id \ {id}
        /\ \A x \in DOMAIN type_by_network_id :
              x # id => type_by_network_id'[x] = type_by_network_id[x]
    BY <1>2 DEF Remove, Restrict
  <1>a. /\ DOMAIN type_by_network_id' \subseteq Ids
        /\ type_by_network_id' \in [DOMAIN type_by_network_id' -> Types]
    BY <1>1, <1>2 DEF Remove, Restrict
  <1>4. DOMAIN grids' = IF t = MyCubeGrid THEN DOMAIN grids \ {id} ELSE DOMAIN grids
    BY <1>2 DEF Remove, Restrict
  <1>b. DOMAIN grids' \subseteq Ids /\ grids' \in [DOMAIN grids' -> Nat]
    <2>1. grids' = Remove(grids, id) \/ grids' = grids
      BY <1>2
    <2>2. QED
      BY <1>1, <2>1 DEF Remove, Restrict
  <1>5. InstancesMatchTypes'
    BY <1>2, <1>3, <1>4 DEF InstancesMatchTypes
  <1>6. QED
    BY <1>1, <1>2, <1>a, <1>b, <1>5

(* Handling the next reliable message keeps IInv. *)
LEMMA DeliverReliableStep ==
    ASSUME IInv, DeliverReliable
    PROVE  IInv'
  <1> DEFINE m == log[pos + 1]
             w == past[pos + 1]
             v == past[pos + 2]
  <1>1. pos < Len(log) /\ pos' = pos + 1 /\ Handle(m)
          /\ UNCHANGED <<world, past, log, loose, loose_sent>>
    BY DEF DeliverReliable, server
  <1>2. m \in Messages /\ w \in Worlds /\ v \in Worlds /\ Change(w, m, v)
    BY <1>1, NextMessage DEF IInv
  <1>3. pos' \in 0..Len(log') /\ past'[pos' + 1] = v /\ pos \in Nat
    <2>1. pos \in 0..Len(log) /\ Len(log) \in Nat
      BY DEF IInv, TypeOK
    <2>2. pos' + 1 = pos + 2
      BY <1>1, <2>1
    <2>3. QED
      BY <1>1, <2>1, <2>2
  <1>4. /\ DOMAIN type_by_network_id = {x \in Ids : w[x] # None}
        /\ \A x \in DOMAIN type_by_network_id : type_by_network_id[x] = w[x].type
    BY DEF IInv, ObjectsArePast
  <1> HIDE DEF m, w, v
  <1>h. History'
    BY <1>1 DEF IInv, History
  <1>5. SUFFICES /\ DOMAIN type_by_network_id' \subseteq Ids
                 /\ type_by_network_id' \in [DOMAIN type_by_network_id' -> Types]
                 /\ DOMAIN grids' \subseteq Ids /\ grids' \in [DOMAIN grids' -> Nat]
                 /\ characters' \subseteq Ids
                 /\ InstancesMatchTypes'
                 /\ DOMAIN type_by_network_id' = {x \in Ids : v[x] # None}
                 /\ \A x \in DOMAIN type_by_network_id' : type_by_network_id'[x] = v[x].type
    BY <1>1, <1>3, <1>h DEF IInv, TypeOK, ObjectsArePast
  <1>6. CASE m.kind = "create"
    <2>1. m.id \in Ids /\ m.type \in Types /\ OnReplicationCreate(m.id, m.type)
      BY <1>1, <1>2, <1>6, MessageFields DEF Handle
    <2>2. w[m.id] = None /\ v = [w EXCEPT ![m.id] = [type |-> m.type, events |-> 0]]
      BY <1>2, <1>6 DEF Change
    <2>3. m.id \notin DOMAIN type_by_network_id
      BY <1>4, <2>2
    <2>4. /\ DOMAIN type_by_network_id' \subseteq Ids
          /\ type_by_network_id' \in [DOMAIN type_by_network_id' -> Types]
          /\ DOMAIN grids' \subseteq Ids /\ grids' \in [DOMAIN grids' -> Nat]
          /\ characters' \subseteq Ids
          /\ InstancesMatchTypes'
      BY <2>1, <2>3, CreateStep DEF IInv
    <2>5. type_by_network_id' = Put(type_by_network_id, m.id, m.type)
      BY <2>1 DEF OnReplicationCreate
    <2>6. [type |-> m.type, events |-> 0] # None
      BY <2>1, NoObjectAssumption DEF Objects
    <2>7. \A x \in Ids : v[x] = IF x = m.id THEN [type |-> m.type, events |-> 0] ELSE w[x]
      BY <1>2, <2>1, <2>2 DEF Worlds
    <2>8. DOMAIN type_by_network_id' = {x \in Ids : v[x] # None}
      BY <1>4, <2>1, <2>5, <2>6, <2>7 DEF Put
    <2>9. \A x \in DOMAIN type_by_network_id' : type_by_network_id'[x] = v[x].type
      BY <1>4, <2>1, <2>5, <2>7, <2>8 DEF Put
    <2>10. QED
      BY <2>4, <2>8, <2>9
  <1>7. CASE m.kind = "destroy"
    <2>1. m.id \in Ids /\ OnReplicationDestroy(m.id)
      BY <1>1, <1>2, <1>7, MessageFields DEF Handle
    <2>2. w[m.id] # None /\ v = [w EXCEPT ![m.id] = None]
      BY <1>2, <1>7 DEF Change
    <2>3. m.id \in DOMAIN type_by_network_id
      BY <1>4, <2>1, <2>2
    <2>4. /\ DOMAIN type_by_network_id' \subseteq Ids
          /\ type_by_network_id' \in [DOMAIN type_by_network_id' -> Types]
          /\ DOMAIN grids' \subseteq Ids /\ grids' \in [DOMAIN grids' -> Nat]
          /\ characters' \subseteq Ids
          /\ InstancesMatchTypes'
      BY <2>1, <2>3, DestroyStep DEF IInv
    <2>5. type_by_network_id' = Remove(type_by_network_id, m.id)
      BY <2>1, <2>3 DEF OnReplicationDestroy
    <2>6. \A x \in Ids : v[x] = IF x = m.id THEN None ELSE w[x]
      BY <1>2, <2>1, <2>2 DEF Worlds
    <2>7. DOMAIN type_by_network_id' = {x \in Ids : v[x] # None}
      BY <1>4, <2>1, <2>5, <2>6 DEF Remove, Restrict
    <2>8. \A x \in DOMAIN type_by_network_id' : type_by_network_id'[x] = v[x].type
      BY <1>4, <2>5, <2>6, <2>7 DEF Remove, Restrict
    <2>9. QED
      BY <2>4, <2>7, <2>8
  <1>8. CASE m.kind = "rpc"
    <2>1. ReceivePacket(m)
      BY <1>1, <1>8 DEF Handle
    <2>2. /\ UNCHANGED <<type_by_network_id, characters>>
          /\ DOMAIN grids' = DOMAIN grids /\ grids' \in [DOMAIN grids' -> Nat]
      BY <2>1, PacketKeepsMaps DEF IInv
    <2>3. \A x \in Ids : /\ v[x] # None <=> w[x] # None
                         /\ w[x] # None => v[x].type = w[x].type
      <3>1. m.id \in Ids /\ w[m.id] # None
        BY <1>2, <1>8 DEF Change
      <3>2. w[m.id] \in Objects
        BY <1>2, <3>1 DEF Worlds
      <3>3. [w[m.id] EXCEPT !.events = @ + 1] \in Objects
              /\ [w[m.id] EXCEPT !.events = @ + 1].type = w[m.id].type
        BY <3>2 DEF Objects
      <3>4. v = w \/ v = [w EXCEPT ![m.id].events = @ + 1]
        BY <1>2, <1>8 DEF Change
      <3>5. QED
        BY <1>2, <3>1, <3>3, <3>4, NoObjectAssumption DEF Worlds
    <2>4. InstancesMatchTypes'
      BY <2>2 DEF IInv, InstancesMatchTypes
    <2>5. QED
      BY <1>4, <2>2, <2>3, <2>4 DEF IInv, TypeOK
  <1>9. QED
    BY <1>2, <1>6, <1>7, <1>8, MessageFields

\* A step of the server that sends a reliable message.
ServerChanges ==
    \E m \in Messages, w \in Worlds :
        /\ SendReliable(m, w)
        /\ Change(world, m, w)
        /\ m.kind = "create" /\ ~ReuseIds => ~Used(m.id)

(* Every reliable message the server can send is a message, announces the  *)
(* change it makes, and leads to a world.                                  *)
LEMMA ServerStep ==
    ASSUME TypeOK, NEW id \in Ids
    PROVE  /\ \A t \in Types : ServerCreates(id, t) => ServerChanges
           /\ ServerDestroys(id) => ServerChanges
           /\ \A h \in Events, form \in Forms : ServerFires(id, h, form) =>
                \/ h \in ReliableEvents /\
                     ServerChanges
                \/ h \notin ReliableEvents /\ world[id] # None
                     /\ world[id].type \in DOMAIN Tables
                     /\ h \in DOMAIN Tables[world[id].type].ids
                     /\ SendLoose(Rpc(id, Tables[world[id].type].ids[h], form))
  <1>1. world \in Worlds
    BY DEF TypeOK
  <1>n. world[id] # None <=> world[id] \in Objects
    BY <1>1, NoObjectAssumption DEF Worlds
  <1>2. ASSUME NEW t \in Types, ServerCreates(id, t)
        PROVE  ServerChanges
    <2> DEFINE m == Create(id, t)
               w == [world EXCEPT ![id] = [type |-> t, events |-> 0]]
    <2>1. m \in Messages
      BY DEF Create, Messages
    <2>2. [type |-> t, events |-> 0] \in Objects
      BY DEF Objects
    <2>3. w \in Worlds
      BY <1>1, <2>2 DEF Worlds
    <2>4. world[id] = None
      BY <1>2 DEF ServerCreates
    <2>5. Change(world, m, w)
      BY <2>4 DEF Change, Create
    <2>6. SendReliable(m, w) /\ (~ReuseIds => ~Used(m.id))
      BY <1>2 DEF ServerCreates, Create
    <2> HIDE DEF m, w
    <2>7. QED
      BY <2>1, <2>3, <2>5, <2>6 DEF ServerChanges
  <1>3. ASSUME ServerDestroys(id)
        PROVE  ServerChanges
    <2> DEFINE m == Destroy(id)
               w == [world EXCEPT ![id] = None]
    <2>1. m \in Messages
      BY DEF Destroy, Messages
    <2>2. w \in Worlds
      BY <1>1 DEF Worlds
    <2>3. Change(world, m, w)
      BY <1>3 DEF Change, Destroy, ServerDestroys
    <2>4. SendReliable(m, w) /\ m.kind = "destroy"
      BY <1>3 DEF ServerDestroys, Destroy
    <2> HIDE DEF m, w
    <2>5. QED
      BY <2>1, <2>2, <2>3, <2>4 DEF ServerChanges
  <1>4. ASSUME NEW h \in Events, NEW form \in Forms, ServerFires(id, h, form)
        PROVE  \/ h \in ReliableEvents /\
                    ServerChanges
               \/ h \notin ReliableEvents /\ world[id] # None
                    /\ world[id].type \in DOMAIN Tables
                    /\ h \in DOMAIN Tables[world[id].type].ids
                    /\ SendLoose(Rpc(id, Tables[world[id].type].ids[h], form))
    <2> DEFINE t == world[id].type
               e == Tables[t].ids[h]
               m == Rpc(id, e, form)
               w == Tally(id, h, form)
    <2>1. world[id] # None /\ t \in DOMAIN Tables /\ h \in DOMAIN Tables[t].ids
      BY <1>4 DEF ServerFires
    <2>2. e \in Nat /\ DecodeSlot(Tables[t], e) = h /\ Encode(Tables[t], h) = e
      BY <2>1, TablesAssumption DEF Encode
    <2>3. IF h \in ReliableEvents THEN SendReliable(m, w) ELSE SendLoose(m)
      BY <1>4, <2>2 DEF ServerFires
    <2>4. m \in Messages
      BY <2>2 DEF Rpc, Messages, Packets
    <2>5. w \in Worlds
      <3>1. world[id] \in Objects
        BY <1>n, <2>1
      <3>2. [world[id] EXCEPT !.events = @ + 1] \in Objects
        BY <3>1 DEF Objects
      <3>3. QED
        BY <1>1, <3>2 DEF Tally, Worlds
    <2>6. ResolveInstanceEventHash(e, t) = h
      BY <2>1, <2>2 DEF ResolveInstanceEventHash
    <2>7. ASSUME h \in ReliableEvents
          PROVE  Change(world, m, w)
      <3> HIDE DEF e
      <3>1. /\ m.kind = "rpc" /\ m.id = id /\ m.event_id = e /\ m.form = form
        BY DEF Rpc
      <3>2. w = IF world[m.id].type = MyCubeGrid /\ h \in VisitedEvents /\ ParsesPayload(h, m.form)
                THEN [world EXCEPT ![m.id].events = @ + 1] ELSE world
        BY <3>1 DEF Tally
      <3> HIDE DEF m, w
      <3>3. QED
        BY <3>1, <3>2, <2>1, <2>6, <2>7 DEF Change
    <2>8. m.kind = "rpc"
      BY DEF Rpc
    <2>9. CASE h \in ReliableEvents
      <3> HIDE DEF m, w
      <3>1. QED
        BY <2>9, <2>3, <2>4, <2>5, <2>7, <2>8 DEF ServerChanges
    <2>10. CASE h \notin ReliableEvents
      BY <2>10, <2>1, <2>3
    <2>11. QED
      BY <2>9, <2>10
  <1>5. QED
    BY <1>2, <1>3, <1>4

(* A change of the server touches neither the client nor its past.         *)
LEMMA ServerKeepsClient ==
    ASSUME IInv, ServerChanges
    PROVE  IInv'
  <1>0. PICK m \in Messages, w \in Worlds : SendReliable(m, w) /\ Change(world, m, w)
    BY DEF ServerChanges
  <1>1. TypeOK' /\ History' /\ past'[pos' + 1] = past[pos + 1]
    BY <1>0, SendKeepsHistory DEF IInv
  <1>2. UNCHANGED client
    BY <1>0 DEF SendReliable
  <1>3. InstancesMatchTypes' /\ ObjectsArePast'
    BY <1>1, <1>2 DEF IInv, InstancesMatchTypes, ObjectsArePast, client
  <1>4. QED
    BY <1>1, <1>3 DEF IInv

(* Sending an unreliable message keeps IInv. *)
LEMMA SendLooseStep ==
    ASSUME IInv, NEW m \in Packets, SendLoose(m)
    PROVE  IInv'
  <1>1. loose' = loose \cup {m} /\ loose_sent < MaxLoose /\ loose_sent' = loose_sent + 1
          /\ UNCHANGED <<world, past, log, pos, type_by_network_id, grids, characters>>
    BY DEF SendLoose, server, client
  <1>2. loose_sent' \in 0..MaxLoose
    BY <1>1, BoundsAssumption DEF IInv, TypeOK
  <1>3. QED
    BY <1>1, <1>2 DEF IInv, TypeOK, History, InstancesMatchTypes, ObjectsArePast

(* An unreliable message that arrives, or is lost, keeps IInv. *)
LEMMA LooseStep ==
    ASSUME IInv, NEW m \in loose, DeliverLoose(m) \/ LoseLoose(m)
    PROVE  IInv'
  <1>1. loose' = loose \ {m} /\ UNCHANGED <<world, past, log, pos, loose_sent>>
    BY DEF DeliverLoose, LoseLoose, server
  <1>2. /\ UNCHANGED <<type_by_network_id, characters>>
        /\ DOMAIN grids' = DOMAIN grids /\ grids' \in [DOMAIN grids' -> Nat]
    BY PacketKeepsMaps DEF DeliverLoose, LoseLoose, IInv, TypeOK, client
  <1>3. QED
    BY <1>1, <1>2 DEF IInv, TypeOK, History, InstancesMatchTypes, ObjectsArePast

(* An empty world and an empty client satisfy IInv. *)
THEOREM InitIInv == Init => IInv
  <1> SUFFICES ASSUME Init
               PROVE  IInv
    OBVIOUS
  <1>1. NoWorld \in Worlds
    BY DEF NoWorld, Worlds
  <1>2. past \in Seq(Worlds) /\ Len(past) = 1 /\ past[1] = NoWorld /\ log = <<>>
    BY <1>1 DEF Init
  <1>3. TypeOK
    BY <1>1, <1>2, BoundsAssumption DEF Init, TypeOK, EmptyMap
  <1>4. History
    BY <1>2 DEF Init, History
  <1>5. InstancesMatchTypes
    BY DEF Init, InstancesMatchTypes, EmptyMap
  <1>6. ObjectsArePast
    BY <1>2 DEF Init, ObjectsArePast, EmptyMap, NoWorld
  <1>7. QED
    BY <1>3, <1>4, <1>5, <1>6 DEF IInv

(* Every step of server, transport and client keeps IInv. *)
THEOREM NextIInv == IInv /\ [Next]_vars => IInv'
  <1> SUFFICES ASSUME IInv, [Next]_vars
               PROVE  IInv'
    OBVIOUS
  <1>t. TypeOK
    BY DEF IInv
  <1>1. ASSUME NEW id \in Ids, NEW t \in Types, ServerCreates(id, t)
        PROVE  IInv'
    BY <1>t, <1>1, ServerStep, ServerKeepsClient
  <1>2. ASSUME NEW id \in Ids, ServerDestroys(id)
        PROVE  IInv'
    BY <1>t, <1>2, ServerStep, ServerKeepsClient
  <1>3. ASSUME NEW id \in Ids, NEW h \in Events, NEW form \in Forms, ServerFires(id, h, form)
        PROVE  IInv'
    <2>1. CASE h \in ReliableEvents
      BY <1>t, <1>3, <2>1, ServerStep, ServerKeepsClient
    <2>2. CASE h \notin ReliableEvents
      <3>1. /\ world[id].type \in DOMAIN Tables
            /\ h \in DOMAIN Tables[world[id].type].ids
            /\ SendLoose(Rpc(id, Tables[world[id].type].ids[h], form))
        BY <1>t, <1>3, <2>2, ServerStep
      <3>2. Rpc(id, Tables[world[id].type].ids[h], form) \in Packets
        BY <3>1, TablesAssumption DEF Rpc, Packets
      <3>3. QED
        BY <3>1, <3>2, SendLooseStep
    <2>3. QED
      BY <2>1, <2>2
  <1>4. ASSUME NEW id \in Ids \cup {0}, NEW e \in StrayEventIds, ServerFiresStray(id, e)
        PROVE  IInv'
    <2>1. Rpc(id, e, "whole") \in Packets
      BY StraysAssumption DEF Rpc, Packets, Forms
    <2>2. SendLoose(Rpc(id, e, "whole"))
      BY <1>4 DEF ServerFiresStray
    <2>3. QED
      BY <2>1, <2>2, SendLooseStep
  <1>5. CASE DeliverReliable
    BY <1>5, DeliverReliableStep
  <1>6. ASSUME NEW m \in loose, DeliverLoose(m) \/ LoseLoose(m)
        PROVE  IInv'
    BY <1>6, LooseStep
  <1>7. CASE UNCHANGED vars
    BY <1>7 DEF vars, server, client, IInv, TypeOK, History, InstancesMatchTypes, ObjectsArePast
  <1>8. QED
    BY <1>1, <1>2, <1>3, <1>4, <1>5, <1>6, <1>7 DEF Next

(* IInv holds throughout: types, the shape of the history, and the
   agreement of the client's maps with the past world. *)
THEOREM ReplicationInv == Spec => []IInv
  <1>1. QED
    BY InitIInv, NextIInv, PTL DEF Spec

(* The maps of ReplicationState keep their types: every id is of an object *)
(* the server created, every count a number (parse_rpc.rs 371-446).        *)
THEOREM SpecTypeOK == Spec => []TypeOK
  <1>1. IInv => TypeOK
    BY DEF IInv
  <1>2. QED
    BY <1>1, ReplicationInv, PTL

(* No instance outlives its object, none is missing, and none is of a type *)
(* the object does not have (parse_rpc.rs 407-445).                        *)
THEOREM InstancesMatch == Spec => []InstancesMatchTypes
  <1>1. IInv => InstancesMatchTypes
    BY DEF IInv
  <1>2. QED
    BY <1>1, ReplicationInv, PTL

(* The client knows the objects of a past world, whatever happens to loose *)
(* packets and however the server gives its ids.                           *)
THEOREM ObjectsPast == Spec => []ObjectsArePast
  <1>1. IInv => ObjectsArePast
    BY DEF IInv
  <1>2. QED
    BY <1>1, ReplicationInv, PTL

(* An event sent in order is never met by an unknown network id or by the  *)
(* table of another type (handle_instance_event, parse_rpc.rs 196-232).    *)
THEOREM EventFindsItsObject == Spec => []ReliableEventFindsItsObject
  <1>1. IInv => ReliableEventFindsItsObject
    <2> SUFFICES ASSUME IInv, pos < Len(log), log[pos + 1].kind = "rpc"
                 PROVE  /\ log[pos + 1].id \in DOMAIN type_by_network_id
                        /\ ResolveInstanceEventHash(log[pos + 1].event_id,
                               type_by_network_id[log[pos + 1].id]) \in ReliableEvents
      BY DEF ReliableEventFindsItsObject
    <2> DEFINE m == log[pos + 1]
               w == past[pos + 1]
    <2>1. Change(w, m, past[pos + 2])
      BY NextMessage DEF IInv
    <2>2. /\ DOMAIN type_by_network_id = {x \in Ids : w[x] # None}
          /\ \A x \in DOMAIN type_by_network_id : type_by_network_id[x] = w[x].type
      BY DEF IInv, ObjectsArePast
    <2> HIDE DEF m, w
    <2>3. m.kind = "rpc"
      BY DEF m
    <2>4. m.id \in DOMAIN type_by_network_id
            /\ ResolveInstanceEventHash(m.event_id, type_by_network_id[m.id]) \in ReliableEvents
      BY <2>1, <2>2, <2>3 DEF Change
    <2>5. QED
      BY <2>4 DEF m
  <1>2. QED
    BY <1>1, ReplicationInv, PTL

----------------------------------------------------------------------------
(* Event counts included, the client shows the server's past and           *)
(* implements LaggingReplica, if a network id is given once only or nothing*)
(* is sent unreliably.                                                     *)

OneLife == ~ReuseIds \/ MaxLoose = 0

IsCreate(m, id) == m.kind = "create" /\ m.id = id

\* Every object of every past world was created, as the type it has.
Born ==
    \A k \in 1..Len(past), id \in Ids : past[k][id] # None =>
        \E j \in 1..Len(log) : IsCreate(log[j], id) /\ log[j].type = past[k][id].type

\* By the only create of its id.
Once ==
    ~ReuseIds =>
        \A id \in Ids, i, j \in 1..Len(log) :
            IsCreate(log[i], id) /\ IsCreate(log[j], id) => i = j

\* An unreliable message is a stray, or was encoded for a type under which
\* its target was created, from an event the client does not count.
Stale(m) ==
    \/ m.event_id \in StrayEventIds
    \/ \E j \in 1..Len(log), h \in Events \ ReliableEvents :
          /\ IsCreate(log[j], m.id)
          /\ log[j].type \in DOMAIN Tables
          /\ h \in DOMAIN Tables[log[j].type].ids
          /\ m.event_id = Tables[log[j].type].ids[h]

Harmless == \A m \in loose : ~ReuseIds /\ m \in Packets /\ Stale(m)

RInv == IInv /\ Born /\ Once /\ Harmless /\ ReplicaIsPast

----------------------------------------------------------------------------
(* No unreliable message is counted, early, in time or late.               *)
LEMMA LooseNeverCounts ==
    ASSUME RInv, NEW m \in loose
    PROVE  ~Counts(m)
  <1> SUFFICES ASSUME Counts(m)
               PROVE  FALSE
    OBVIOUS
  <1> DEFINE h == ResolveInstanceEventHash(m.event_id, MyCubeGrid)
  <1>1. m.id \in DOMAIN type_by_network_id /\ type_by_network_id[m.id] = MyCubeGrid
          /\ h \in VisitedEvents /\ h \in GridEvents
    BY EventsAssumption, NoneAssumption DEF Counts, FromHash, Visits
  <1>2. h # None /\ MyCubeGrid \in DOMAIN Tables /\ h = DecodeSlot(Tables[MyCubeGrid], m.event_id)
    BY <1>1, EventsAssumption, NoneAssumption DEF ResolveInstanceEventHash
  <1> HIDE DEF h
  <1>3. m.event_id \notin StrayEventIds
    BY <1>2, StraysAssumption
  <1>4. PICK j \in 1..Len(log), g \in Events \ ReliableEvents :
           /\ IsCreate(log[j], m.id)
           /\ log[j].type \in DOMAIN Tables
           /\ g \in DOMAIN Tables[log[j].type].ids
           /\ m.event_id = Tables[log[j].type].ids[g]
    BY <1>3 DEF RInv, Harmless, Stale
  <1>5. m.id \in Ids /\ past[pos + 1][m.id] # None /\ past[pos + 1][m.id].type = MyCubeGrid
    BY <1>1 DEF RInv, IInv, ObjectsArePast
  <1>6. pos + 1 \in 1..Len(past)
    BY DEF RInv, IInv, TypeOK, History
  <1>7. PICK i \in 1..Len(log) : IsCreate(log[i], m.id) /\ log[i].type = MyCubeGrid
    BY <1>5, <1>6 DEF RInv, Born
  <1>8. i = j
    BY <1>4, <1>5, <1>7 DEF RInv, Harmless, Once
  <1>9. DecodeSlot(Tables[MyCubeGrid], m.event_id) = g
    BY <1>4, <1>7, <1>8, TablesAssumption
  <1>10. QED
    BY <1>1, <1>2, <1>4, <1>9, EventsAssumption

(* An unreliable message changes nothing at the client.                    *)
LEMMA LooseChangesNothing ==
    ASSUME RInv, NEW m \in loose, ReceivePacket(m)
    PROVE  UNCHANGED client
  BY LooseNeverCounts DEF ReceivePacket, client

(* Longer logs and pasts keep what was said of shorter ones.               *)
LEMMA ServerKeepsPast ==
    ASSUME RInv, ServerChanges
    PROVE  Born' /\ Once' /\ Harmless' /\ ReplicaIsPast'
  <1>0. PICK m \in Messages, w \in Worlds :
           /\ SendReliable(m, w) /\ Change(world, m, w)
           /\ m.kind = "create" /\ ~ReuseIds => ~Used(m.id)
    BY DEF ServerChanges
  <1>1. /\ log \in Seq(Messages) /\ past \in Seq(Worlds) /\ Len(log) \in Nat
        /\ Len(past) = Len(log) + 1 /\ past[Len(past)] = world /\ world \in Worlds
    BY DEF RInv, IInv, TypeOK, History
  <1>2. /\ log' = Append(log, m) /\ past' = Append(past, w)
        /\ UNCHANGED <<pos, loose, type_by_network_id, grids, characters>>
    BY <1>0 DEF SendReliable, client
  <1>3. /\ Len(log') = Len(log) + 1 /\ log'[Len(log) + 1] = m
        /\ \A k \in 1..Len(log) : log'[k] = log[k] /\ k \in 1..Len(log')
    BY <1>1, <1>2
  <1>4. /\ Len(past') = Len(past) + 1 /\ past'[Len(past) + 1] = w
        /\ \A k \in 1..Len(past) : past'[k] = past[k]
    BY <1>1, <1>2
  <1>5. ASSUME NEW k \in 1..Len(past'), NEW id \in Ids, past'[k][id] # None
        PROVE  \E j \in 1..Len(log') : IsCreate(log'[j], id) /\ log'[j].type = past'[k][id].type
    <2>1. CASE k \in 1..Len(past)
      BY <2>1, <1>3, <1>4, <1>5 DEF RInv, Born
    <2>2. CASE k = Len(past) + 1 /\ m.kind = "create" /\ id = m.id
      <3>1. w[id].type = m.type /\ Len(log) + 1 \in 1..Len(log')
        BY <2>2, <1>0, <1>1, <1>3 DEF Change, Worlds
      <3>2. QED
        BY <2>2, <3>1, <1>3, <1>4 DEF IsCreate
    <2>3. CASE k = Len(past) + 1 /\ ~(m.kind = "create" /\ id = m.id)
      <3>1. w[id] # None
        BY <2>3, <1>4, <1>5
      <3>2. world[id] # None /\ w[id].type = world[id].type
        <4>1. CASE m.kind = "create"
          BY <4>1, <2>3, <3>1, <1>0, <1>1 DEF Change, Worlds
        <4>2. CASE m.kind = "destroy"
          BY <4>2, <3>1, <1>0, <1>1 DEF Change, Worlds
        <4>3. CASE m.kind = "rpc"
          <5>1. m.id \in Ids /\ world[m.id] # None
            BY <4>3, <1>0 DEF Change
          <5>2. world[m.id] \in Objects
            BY <5>1, <1>1 DEF Worlds
          <5>3. w = world \/ w = [world EXCEPT ![m.id].events = @ + 1]
            BY <4>3, <1>0 DEF Change
          <5>4. [world[m.id] EXCEPT !.events = @ + 1].type = world[m.id].type
            BY <5>2 DEF Objects
          <5>5. CASE id = m.id
            BY <5>1, <5>3, <5>4, <5>5, <1>1 DEF Worlds
          <5>6. CASE id # m.id
            BY <5>3, <5>6, <3>1, <1>1 DEF Worlds
          <5>7. QED
            BY <5>5, <5>6
        <4>4. QED
          BY <4>1, <4>2, <4>3, MessageFields
      <3>3. Len(past) \in 1..Len(past)
        BY <1>1
      <3>4. PICK j \in 1..Len(log) : IsCreate(log[j], id) /\ log[j].type = world[id].type
        BY <3>2, <3>3, <1>1 DEF RInv, Born
      <3>5. QED
        BY <2>3, <3>2, <3>4, <1>3, <1>4
    <2>4. QED
      BY <2>1, <2>2, <2>3, <1>1, <1>4
  <1>6. ASSUME ~ReuseIds, NEW id \in Ids, NEW i \in 1..Len(log'), NEW j \in 1..Len(log'),
               IsCreate(log'[i], id), IsCreate(log'[j], id)
        PROVE  i = j
    <2>1. (i \in 1..Len(log) \/ i = Len(log) + 1) /\ (j \in 1..Len(log) \/ j = Len(log) + 1)
      BY <1>1, <1>3
    <2>2. CASE i \in 1..Len(log) /\ j \in 1..Len(log)
      BY <2>2, <1>3, <1>6 DEF RInv, Once
    <2>3. CASE i = Len(log) + 1 /\ j \in 1..Len(log)
      <3>1. m.kind = "create" /\ m.id = id /\ log[j].kind = "create" /\ log[j].id = id
        BY <2>3, <1>3, <1>6 DEF IsCreate
      <3>2. QED
        BY <2>3, <3>1, <1>0, <1>6 DEF Used
    <2>4. CASE j = Len(log) + 1 /\ i \in 1..Len(log)
      <3>1. m.kind = "create" /\ m.id = id /\ log[i].kind = "create" /\ log[i].id = id
        BY <2>4, <1>3, <1>6 DEF IsCreate
      <3>2. QED
        BY <2>4, <3>1, <1>0, <1>6 DEF Used
    <2>5. QED
      BY <2>1, <2>2, <2>3, <2>4
  <1>7. \A p : Stale(p) => Stale(p)'
    BY <1>3 DEF Stale
  <1>8. Harmless'
    BY <1>2, <1>7 DEF RInv, Harmless
  <1>9. ReplicaIsPast'
    <2>1. pos + 1 \in 1..Len(past)
      BY <1>1 DEF RInv, IInv, TypeOK
    <2>2. QED
      BY <2>1, <1>2, <1>4 DEF RInv, ReplicaIsPast, Shown
  <1>10. QED
    BY <1>5, <1>6, <1>8, <1>9 DEF Born, Once

(* Handling the next reliable message moves the client to the next world.  *)
LEMMA DeliverShowsNext ==
    ASSUME RInv, DeliverReliable
    PROVE  Shown' = past[pos + 2]
  <1> DEFINE m == log[pos + 1]
             w == past[pos + 1]
             v == past[pos + 2]
  <1>1. Handle(m) /\ pos < Len(log)
    BY DEF DeliverReliable
  <1>2. m \in Messages /\ w \in Worlds /\ v \in Worlds /\ Change(w, m, v)
    BY <1>1, NextMessage DEF RInv, IInv
  <1>3. Shown = w
    BY DEF RInv, ReplicaIsPast
  <1>4. /\ DOMAIN type_by_network_id = {x \in Ids : w[x] # None}
        /\ \A x \in DOMAIN type_by_network_id : type_by_network_id[x] = w[x].type
        /\ DOMAIN grids = {x \in DOMAIN type_by_network_id : type_by_network_id[x] = MyCubeGrid}
        /\ grids \in [DOMAIN grids -> Nat]
    BY DEF RInv, IInv, ObjectsArePast, InstancesMatchTypes, TypeOK
  <1>5. \A x \in Ids :
           w[x] = IF x \in DOMAIN type_by_network_id
                  THEN [type |-> type_by_network_id[x],
                        events |-> IF x \in DOMAIN grids THEN grids[x] ELSE 0]
                  ELSE None
    BY <1>3 DEF Shown
  <1> HIDE DEF m, w, v
  <1>6. SUFFICES ASSUME NEW x \in Ids
                 PROVE  v[x] = IF x \in DOMAIN type_by_network_id'
                               THEN [type |-> type_by_network_id'[x],
                                     events |-> IF x \in DOMAIN grids' THEN grids'[x] ELSE 0]
                               ELSE None
    BY <1>2 DEF Shown, Worlds, v
  <1>7. CASE m.kind = "create"
    <2>1. m.id \in Ids /\ OnReplicationCreate(m.id, m.type)
      BY <1>1, <1>2, <1>7, MessageFields DEF Handle
    <2>2. w[m.id] = None /\ v = [w EXCEPT ![m.id] = [type |-> m.type, events |-> 0]]
      BY <1>2, <1>7 DEF Change
    <2>3. v[x] = IF x = m.id THEN [type |-> m.type, events |-> 0] ELSE w[x]
      BY <1>2, <2>2 DEF Worlds
    <2>4. m.id \notin DOMAIN type_by_network_id
      BY <1>4, <2>2
    <2>5. CASE x = m.id
      BY <1>4, <2>1, <2>3, <2>4, <2>5 DEF OnReplicationCreate, Put
    <2>6. CASE x # m.id
      BY <1>5, <2>1, <2>3, <2>6 DEF OnReplicationCreate, Put
    <2>7. QED
      BY <2>5, <2>6
  <1>8. CASE m.kind = "destroy"
    <2>1. m.id \in Ids /\ OnReplicationDestroy(m.id)
      BY <1>1, <1>2, <1>8, MessageFields DEF Handle
    <2>2. w[m.id] # None /\ v = [w EXCEPT ![m.id] = None]
      BY <1>2, <1>8 DEF Change
    <2>3. v[x] = IF x = m.id THEN None ELSE w[x]
      BY <1>2, <2>2 DEF Worlds
    <2>4. m.id \in DOMAIN type_by_network_id
      BY <1>4, <2>1, <2>2
    <2>5. type_by_network_id' = Remove(type_by_network_id, m.id)
            /\ (grids' = grids \/ grids' = Remove(grids, m.id))
      BY <2>1, <2>4 DEF OnReplicationDestroy
    <2>6. CASE x = m.id
      BY <2>3, <2>5, <2>6 DEF Remove, Restrict
    <2>7. CASE x # m.id
      BY <1>5, <2>3, <2>5, <2>7 DEF Remove, Restrict
    <2>8. QED
      BY <2>6, <2>7
  <1>9. CASE m.kind = "rpc"
    <2>1. ReceivePacket(m) /\ m.form \in Forms
      BY <1>1, <1>2, <1>9, MessageFields DEF Handle
    <2>2. m.id \in Ids /\ w[m.id] # None /\ m.id \in DOMAIN type_by_network_id
            /\ type_by_network_id[m.id] = w[m.id].type
      BY <1>2, <1>4, <1>9 DEF Change
    <2>3. PICK h \in ReliableEvents :
             /\ ResolveInstanceEventHash(m.event_id, w[m.id].type) = h
             /\ v = IF w[m.id].type = MyCubeGrid /\ h \in VisitedEvents /\ ParsesPayload(h, m.form)
                    THEN [w EXCEPT ![m.id].events = @ + 1] ELSE w
      BY <1>2, <1>9 DEF Change
    <2>4. Counts(m) <=> w[m.id].type = MyCubeGrid /\ h \in VisitedEvents /\ ParsesPayload(h, m.form)
      BY <1>4, <2>2, <2>3, EventsAssumption, NoneAssumption DEF Counts, FromHash, Visits
    <2>5. m.id # 0
      BY <2>2, ZeroIsNoId
    <2>6. CASE ~Counts(m)
      <3>1. UNCHANGED <<type_by_network_id, grids>>
        BY <2>1, <2>6 DEF ReceivePacket, client
      <3>2. v = w
        BY <2>3, <2>4, <2>6
      <3>3. QED
        BY <1>5, <3>1, <3>2
    <2>7. CASE Counts(m)
      <3>1. type_by_network_id' = type_by_network_id /\ grids' = [grids EXCEPT ![m.id] = @ + 1]
        BY <2>1, <2>4, <2>5, <2>7 DEF ReceivePacket, ParsesPayload
      <3>2. v = [w EXCEPT ![m.id].events = @ + 1]
        BY <2>3, <2>4, <2>7
      <3>3. m.id \in DOMAIN grids
        BY <2>7 DEF Counts
      <3>4. w[m.id] = [type |-> type_by_network_id[m.id], events |-> grids[m.id]]
        BY <1>5, <2>2, <3>3
      <3>5. CASE x = m.id
        <4>1. v[x] = [w[m.id] EXCEPT !.events = @ + 1]
          BY <1>2, <2>2, <3>2, <3>5 DEF Worlds
        <4>2. v[x] = [type |-> type_by_network_id[m.id], events |-> grids[m.id] + 1]
          BY <4>1, <3>4
        <4>3. grids'[x] = grids[m.id] + 1 /\ x \in DOMAIN grids'
          BY <3>1, <3>3, <3>5, <1>4
        <4>4. QED
          BY <4>2, <4>3, <3>1, <3>5, <2>2
      <3>6. CASE x # m.id
        <4>1. v[x] = w[x]
          BY <1>2, <3>2, <3>6 DEF Worlds
        <4>2. DOMAIN grids' = DOMAIN grids /\ (x \in DOMAIN grids => grids'[x] = grids[x])
          BY <3>1, <3>6
        <4>3. QED
          BY <4>1, <4>2, <3>1, <1>5
      <3>7. QED
        BY <3>5, <3>6
    <2>8. QED
      BY <2>6, <2>7
  <1>10. QED
    BY <1>2, <1>7, <1>8, <1>9, MessageFields

(* The client that has handled nothing shows the empty world. *)
THEOREM InitRInv == Init => RInv
  <1> SUFFICES ASSUME Init
               PROVE  RInv
    OBVIOUS
  <1>1. IInv
    BY InitIInv
  <1>2. past = <<NoWorld>> /\ log = <<>> /\ loose = {} /\ pos = 0
    BY DEF Init
  <1>3. Born
    BY <1>2 DEF Born, NoWorld
  <1>4. Once /\ Harmless
    BY <1>2 DEF Once, Harmless
  <1>5. Shown = NoWorld
    BY DEF Init, Shown, NoWorld, EmptyMap
  <1>6. QED
    BY <1>1, <1>2, <1>3, <1>4, <1>5 DEF RInv, ReplicaIsPast

(* An unreliable message, sent, delivered or lost, keeps what the client
   shows and the past. *)
LEMMA LooseKeepsPast ==
    ASSUME RInv, OneLife, NEW m \in Packets, SendLoose(m), Stale(m)
    PROVE  Born' /\ Once' /\ Harmless' /\ ReplicaIsPast'
  <1>1. loose' = loose \cup {m} /\ loose_sent < MaxLoose
          /\ UNCHANGED <<world, past, log, pos, type_by_network_id, grids, characters>>
    BY DEF SendLoose, server, client
  <1>2. ~ReuseIds
    BY <1>1, BoundsAssumption DEF OneLife, RInv, IInv, TypeOK
  <1>3. \A p : Stale(p) => Stale(p)'
    BY <1>1 DEF Stale
  <1>4. Harmless'
    BY <1>1, <1>2, <1>3 DEF RInv, Harmless
  <1>5. QED
    BY <1>1, <1>4 DEF RInv, Born, Once, ReplicaIsPast, Shown

(* What every step of the system is to the client's view.                  *)
LEMMA NextCases ==
    ASSUME RInv, OneLife, Next
    PROVE  \/ ServerChanges
           \/ \E m \in Packets : SendLoose(m) /\ Stale(m)
           \/ DeliverReliable
           \/ \E m \in loose : DeliverLoose(m) \/ LoseLoose(m)
  <1>t. TypeOK
    BY DEF RInv, IInv
  <1>1. ASSUME NEW id \in Ids, NEW h \in Events, NEW form \in Forms, ServerFires(id, h, form)
        PROVE  ServerChanges \/ \E m \in Packets : SendLoose(m) /\ Stale(m)
    <2>1. CASE h \in ReliableEvents
      BY <1>t, <1>1, <2>1, ServerStep
    <2>2. CASE h \notin ReliableEvents
      <3> DEFINE m == Rpc(id, Tables[world[id].type].ids[h], form)
      <3>1. /\ world[id] # None /\ world[id].type \in DOMAIN Tables
            /\ h \in DOMAIN Tables[world[id].type].ids
            /\ SendLoose(m)
        BY <1>t, <1>1, <2>2, ServerStep
      <3>2. m \in Packets
        BY <3>1, TablesAssumption DEF Rpc, Packets
      <3>3. Len(past) \in 1..Len(past) /\ past[Len(past)] = world
        BY <1>t DEF RInv, IInv, TypeOK, History
      <3>4. PICK j \in 1..Len(log) : IsCreate(log[j], id) /\ log[j].type = world[id].type
        BY <3>1, <3>3 DEF RInv, Born
      <3>5. m.id = id /\ m.event_id = Tables[log[j].type].ids[h]
        BY <3>4 DEF Rpc
      <3> HIDE DEF m
      <3>6. Stale(m)
        BY <1>1, <2>2, <3>1, <3>4, <3>5 DEF Stale
      <3>7. QED
        BY <3>1, <3>2, <3>6
    <2>3. QED
      BY <2>1, <2>2
  <1>2. ASSUME NEW id \in Ids \cup {0}, NEW e \in StrayEventIds, ServerFiresStray(id, e)
        PROVE  \E m \in Packets : SendLoose(m) /\ Stale(m)
    <2> DEFINE m == Rpc(id, e, "whole")
    <2>1. m \in Packets /\ m.event_id = e
      BY StraysAssumption DEF Rpc, Packets, Forms
    <2>2. SendLoose(m)
      BY <1>2 DEF ServerFiresStray
    <2> HIDE DEF m
    <2>3. QED
      BY <2>1, <2>2 DEF Stale
  <1>3. ASSUME NEW id \in Ids, NEW t \in Types, ServerCreates(id, t)
        PROVE  ServerChanges
    BY <1>t, <1>3, ServerStep
  <1>4. ASSUME NEW id \in Ids, ServerDestroys(id)
        PROVE  ServerChanges
    BY <1>t, <1>4, ServerStep
  <1>5. QED
    BY <1>1, <1>2, <1>3, <1>4 DEF Next

(* Whatever a step does, the client stays where it is or moves to the next *)
(* world.                                                                  *)
LEMMA StepShows ==
    ASSUME RInv, OneLife, [Next]_vars
    PROVE  /\ RInv'
           /\ \/ UNCHANGED <<past, pos, Shown>>
              \/ ServerChanges /\ UNCHANGED <<pos, Shown>>
              \/ /\ pos < Len(log) /\ pos' = pos + 1 /\ UNCHANGED past
                 /\ Shown' = past[pos + 2]
  <1>i. IInv'
    BY NextIInv DEF RInv
  <1>1. CASE ServerChanges
    <2>1. UNCHANGED <<pos, type_by_network_id, grids, characters>>
      BY <1>1 DEF ServerChanges, SendReliable, client
    <2>2. UNCHANGED Shown
      BY <2>1 DEF Shown
    <2>3. QED
      BY <1>i, <1>1, <2>1, <2>2, ServerKeepsPast DEF RInv
  <1>2. ASSUME NEW m \in Packets, SendLoose(m), Stale(m)
        PROVE  RInv' /\ UNCHANGED <<past, pos, Shown>>
    <2>1. UNCHANGED <<past, pos, type_by_network_id, grids, characters>>
      BY <1>2 DEF SendLoose, server, client
    <2>2. UNCHANGED Shown
      BY <2>1 DEF Shown
    <2>3. QED
      BY <1>i, <1>2, <2>1, <2>2, LooseKeepsPast DEF RInv
  <1>3. CASE DeliverReliable
    <2>1. /\ pos < Len(log) /\ pos' = pos + 1
          /\ UNCHANGED <<world, past, log, loose, loose_sent>>
      BY <1>3 DEF DeliverReliable, server
    <2>2. Shown' = past[pos + 2]
      BY <1>3, DeliverShowsNext
    <2>3. pos \in Nat /\ pos' + 1 = pos + 2
      BY <2>1 DEF RInv, IInv, TypeOK
    <2>4. ReplicaIsPast'
      BY <2>1, <2>2, <2>3 DEF ReplicaIsPast
    <2>5. Born' /\ Once' /\ Harmless'
      BY <2>1 DEF RInv, Born, Once, Harmless, Stale
    <2>6. QED
      BY <1>i, <2>1, <2>2, <2>4, <2>5 DEF RInv
  <1>4. ASSUME NEW m \in loose, DeliverLoose(m) \/ LoseLoose(m)
        PROVE  RInv' /\ UNCHANGED <<past, pos, Shown>>
    <2>1. loose' = loose \ {m} /\ UNCHANGED <<world, past, log, pos, loose_sent>>
      BY <1>4 DEF DeliverLoose, LoseLoose, server
    <2>2. UNCHANGED <<type_by_network_id, grids, characters>>
      BY <1>4, LooseChangesNothing DEF DeliverLoose, LoseLoose, client
    <2>3. UNCHANGED Shown
      BY <2>2 DEF Shown
    <2>4. Born' /\ Once' /\ Harmless' /\ ReplicaIsPast'
      BY <2>1, <2>3 DEF RInv, Born, Once, Harmless, Stale, ReplicaIsPast
    <2>5. QED
      BY <1>i, <2>1, <2>3, <2>4 DEF RInv
  <1>5. CASE UNCHANGED vars
    <2>1. UNCHANGED <<world, past, log, pos, loose, loose_sent, type_by_network_id, grids, characters>>
      BY <1>5 DEF vars, server, client
    <2>2. UNCHANGED Shown
      BY <2>1 DEF Shown
    <2>3. Born' /\ Once' /\ Harmless' /\ ReplicaIsPast'
      BY <2>1, <2>2 DEF RInv, Born, Once, Harmless, Stale, ReplicaIsPast
    <2>4. QED
      BY <1>i, <2>1, <2>2, <2>3 DEF RInv
  <1>6. QED
    BY <1>1, <1>2, <1>3, <1>4, <1>5, NextCases

(* The client shows the server's world as it was after the messages it has *)
(* handled (parse_rpc.rs 137-232, 371-446), for every number of ids, types *)
(* and events.                                                             *)
THEOREM ReplicaPast ==
    ASSUME OneLife
    PROVE  Spec => []ReplicaIsPast
  <1>1. RInv /\ [Next]_vars => RInv'
    BY StepShows
  <1>2. RInv => ReplicaIsPast
    BY DEF RInv
  <1>3. QED
    BY <1>1, <1>2, InitRInv, PTL DEF Spec

(* Every step of the client is a step of LaggingReplica or none at all.    *)
THEOREM ReplicaRefines ==
    ASSUME OneLife
    PROVE  Spec => Replica!Init /\ [][Replica!Next]_<<past, pos + 1, Shown>>
  <1>1. Init => Replica!Init
    <2> SUFFICES ASSUME Init
                 PROVE  Replica!Init
      OBVIOUS
    <2>1. past = <<NoWorld>> /\ pos = 0
      BY DEF Init
    <2>2. Shown = NoWorld
      BY DEF Init, Shown, NoWorld, EmptyMap
    <2>3. QED
      BY <2>1, <2>2 DEF Replica!Init
  <1>2. RInv /\ [Next]_vars => RInv'
    BY StepShows
  <1>3. RInv /\ [Next]_vars => [Replica!Next]_<<past, pos + 1, Shown>>
    <2> SUFFICES ASSUME RInv, [Next]_vars
                 PROVE  [Replica!Next]_<<past, pos + 1, Shown>>
      OBVIOUS
    <2>1. CASE UNCHANGED <<past, pos, Shown>>
      BY <2>1
    <2>2. CASE ServerChanges /\ UNCHANGED <<pos, Shown>>
      <3>1. PICK w \in Worlds : past' = Append(past, w)
        BY <2>2 DEF ServerChanges, SendReliable
      <3>2. past \in Seq(Worlds)
        BY DEF RInv, IInv, TypeOK
      <3>3. Len(past') = Len(past) + 1 /\ \A k \in 1..Len(past) : past'[k] = past[k]
        BY <3>1, <3>2
      <3>4. QED
        BY <2>2, <3>3 DEF Replica!Next, Replica!Change
    <2>3. CASE /\ pos < Len(log) /\ pos' = pos + 1 /\ UNCHANGED past
               /\ Shown' = past[pos + 2]
      <3>1. pos \in Nat /\ Len(log) \in Nat /\ Len(past) = Len(log) + 1
        BY DEF RInv, IInv, TypeOK, History
      <3>2. pos + 1 < Len(past) /\ pos' + 1 = (pos + 1) + 1 /\ (pos + 1) + 1 = pos + 2
        BY <2>3, <3>1
      <3>3. QED
        BY <2>3, <3>2 DEF Replica!Next, Replica!Show
    <2>4. QED
      BY <2>1, <2>2, <2>3, StepShows
  <1>4. QED
    BY <1>1, <1>2, <1>3, InitRInv, PTL DEF Spec
=============================================================================
