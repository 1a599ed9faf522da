---------------------------- MODULE MCMqttClient ----------------------------
(* Instances of MqttClient for TLC. *)
EXTENDS MqttClient, TLC

CONSTANTS c1, c2

TwoConns == {c1, c2}
=============================================================================
