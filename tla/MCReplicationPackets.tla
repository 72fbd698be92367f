------------------------ MODULE MCReplicationPackets ------------------------
(* All packets made of fields, each filled with a few values.  The types are *)
(* narrower than in the code, but the groups of a Varint have seven bits: an *)
(* I32 of 16 bits has values of one, two and three of them.                  *)
EXTENDS ReplicationPackets, TLC

MCU64 == [signed |-> FALSE, bits |-> 20]
MCU32 == [signed |-> FALSE, bits |-> 16]
MCI32 == [signed |-> TRUE, bits |-> 16]

\* The ends of each number of groups, and of the sign bit in them.
Signed == {0, 63, 64, 8191, 8192, 32767, -1, -64, -65, -8192, -8193, -32768}

\* A terminator that begins with the seventh bit.
HidesTerminator == <<65, 46, 50>>

SomeOf(codec) ==
    CASE codec = VarString -> HidesTerminator [] codec.kind = "tuple" -> <<5, 5>> [] OTHER -> 5

\* After the bit of a Nullable, the rest of a terminator.  185, 200 is a whole one.
RestOfTerminator == 25692

MCPart(codec) ==
    CASE codec.kind = "flags" -> {0, 3}
      [] codec = UseActionResult -> {0, 6}
      [] codec = BitBool -> {0, 1}
      [] codec = Octet -> {0, 1, 2}
      [] codec = Length -> {0, 2}
      [] codec = Wide -> {5}
      [] codec = Vector3D -> {65}
      [] codec = MyStringHash -> {5, RestOfTerminator}
      [] codec = ContextKind -> {0, 2}
      [] codec = GameMode -> {0, 1}
      [] codec = JoinResult -> {0, 22}
      [] codec.kind = "varint" -> IF codec.type.signed THEN Signed ELSE {0, 300}
      [] codec = VarString -> {<<>>, <<65, 66>>}
      [] codec = VarBytes -> {<<>>, <<65, 200>>}

MCSample(codec) ==
    CASE codec.kind = "map" -> {<<>>, 5 :> 5, (5 :> 5) @@ (2 :> 1)}
      [] codec.kind = "sized" ->
            {<<>>, <<SomeOf(codec.of)>>, [i \in 1..5 |-> SomeOf(codec.of)]}
      [] codec.kind = "rest" -> {<<>>, <<185, 200, 65>>}
      [] codec.kind = "counted" ->
            LET E == MCPart(codec.of)
                e == CHOOSE e \in E : \A x \in E : x <= e
                f == CHOOSE f \in E : \A x \in E : f <= x
            IN  {<<>>, <<e>>, <<f, e>>, <<e, f, f, f, f>>}
      [] codec.kind = "nullable" ->
            IF codec.of.kind = "bytes" THEN {None, <<65>>} ELSE {None} \cup MCPart(codec.of)
      [] codec.kind = "option" -> MCPart(codec.of)
      [] OTHER -> MCPart(codec)

\* To a longer, a shorter and an unlike packet.
MCMistaken == {
    <<"ReplicationCreate", "ReplicationStreamBegin">>,
    <<"ReplicationStreamBegin", "ReplicationCreate">>,
    <<"ReplicationDestroy", "JoinResult">>,
    <<"ClientReady", "Unknown">>,
    <<"ClientUpdate", "ReplicationRequest">>,
    <<"Kick", "SendPasswordHash">>,
    <<"RefreshPlayersGrids", "UseFailureStatic">>,
    <<"RemoveSpecificOwnershipChangeRequests", "SendPingsAndRefresh">>,
    <<"DoDamageSlimBlockBatch", "UnknownEvent">>,
    <<"UnknownEvent", "ReportCompilationResults">>,
    <<"UnknownEvent", "ReplicationCreate">>,
    <<"ReplicationCreate", "UnknownEvent">> }
=============================================================================
