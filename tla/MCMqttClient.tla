---------------------------- MODULE MCMqttClient ----------------------------
(* Finite instances of MqttClient for TLC.                                 *)
EXTENDS MqttClient

MCAllQos == 0..2

\* The level with the shortest handshake.
MCAtLeastOnce == {1}
=============================================================================
