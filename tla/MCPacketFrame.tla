---------------------------- MODULE MCPacketFrame ----------------------------
(* PacketFrame with payloads that leave few padding bits, so that every junk  *)
(* is tried, and payloads made of the terminator.                             *)
EXTENDS PacketFrame

MCGamePayloads ==
    {<<>>, <<1, 0, 1, 1, 0>>, <<1, 1, 0, 0, 1, 1, 1>>, Terminator \o Zeros(6)}

MCOwnPayloads == {<<>>, Terminator}
=============================================================================
