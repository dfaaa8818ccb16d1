--------------------------- MODULE MCPacketParser ---------------------------
(***************************************************************************)
(* Instances of PacketParser for TLC, with the checksum of the code.        *)
(***************************************************************************)
EXTENDS PacketParser, Crc

\* An empty payload, one that looks like a beginning, and one that looks like
\* a header.
MCPayloads == {<<>>, <<170>>, <<170, 85>>}
=============================================================================
