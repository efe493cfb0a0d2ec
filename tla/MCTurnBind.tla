------------------------------ MODULE MCTurnBind ------------------------------
(* Instances of TurnBind for TLC. *)
EXTENDS TurnBind

MCAddresses == {"A", "B"}
MCChannels == {16384, 32767}
===============================================================================
