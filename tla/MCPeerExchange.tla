--------------------------- MODULE MCPeerExchange ---------------------------
(* PeerExchange on small instances. *)
EXTENDS PeerExchange

MCRelay == {"relay"}
MCAllModes == AllModes
MCPairTypes == {2, 4}
MCAllTypes == 0..4
=============================================================================
