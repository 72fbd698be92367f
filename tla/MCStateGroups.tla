--------------------------- MODULE MCStateGroups ---------------------------
(* StateGroups with ids of one, two, three and five bytes, data that looks *)
(* like the start of a group, and sizes that fill their last byte or not.  *)
EXTENDS StateGroups

Group(id, size, data) == [network_id |-> id, size_bits |-> size, data |-> data]

MCGroups ==
    {Group(5, 0, <<>>), Group(870, 3, <<1>>),
     Group(51385, 40, <<185, 200, 5, 0, 0>>), Group(268435456, 16, <<185, 200>>)}
=============================================================================
