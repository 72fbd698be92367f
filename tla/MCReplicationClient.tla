------------------------- MODULE MCReplicationClient -------------------------
(* ReplicationClient with small tables, loaded as the loader loads them. *)
EXTENDS ReplicationClient

\* MyCubeGrid: MergeGrid_MergeClient (0), a gap (1), OnGridChangedRPC (2) and an
\* unreliable event (3) the client has no method for. The other type numbers
\* its events differently.
Merge == 11
Changed == 12
Unreliable == 13
Foreign == 14

GridTable ==
    LoadEntry(LoadEntry(LoadEntry(EmptyTable, 2, Changed), 0, Merge), 3, Unreliable)

OtherTable == LoadEntry(LoadEntry(EmptyTable, 0, Unreliable), 2, Foreign)

MCTables ==
    [t \in {MyCubeGrid} \cup OtherTypes |-> IF t = MyCubeGrid THEN GridTable ELSE OtherTable]
=============================================================================
