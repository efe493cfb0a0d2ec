----------------------------- MODULE MCP2pSession -----------------------------
(* Instances of P2pSession for TLC. *)
EXTENDS P2pSession

CONSTANTS a, b, c

MCStarters == {a, b, c}
MCPeers == {b, c}
===============================================================================
