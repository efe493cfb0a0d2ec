---------------------------- MODULE MCMqttSession ----------------------------
(* Instances of MqttSession for TLC: its constants are numbers. *)
EXTENDS MqttSession
===============================================================================
