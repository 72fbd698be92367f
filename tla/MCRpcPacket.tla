----------------------------- MODULE MCRpcPacket -----------------------------
(* RpcPacket with every short payload, and payloads made of the terminator. *)
EXTENDS RpcPacket

Shifted(n) == Zeros(n) \o Terminator

MCGamePayloads ==
    UNION {[1..n -> Bit] : n \in 0..8}
    \cup {Terminator, Shifted(3), Terminator \o <<1>>, Terminator \o Zeros(7),
          Terminator \o Terminator, SubSeq(Terminator, 1, 15),
          SubSeq(Terminator, 9, 16), <<1>> \o Terminator \o <<0, 1, 1>>}

MCOwnPayloads ==
    {<<>>, Zeros(8), Terminator, Zeros(8) \o Terminator,
     SubSeq(Terminator, 1, 8)}
=============================================================================
