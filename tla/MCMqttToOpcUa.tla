--------------------------- MODULE MCMqttToOpcUa ---------------------------
(* Finite instances of MqttToOpcUa for TLC.                                *)
EXTENDS MqttToOpcUa

\* A complete reading, and one that carries a single field.
MCPayloads == {Fields, {"Temperature"}}

\* Only complete readings: what a message carries does not matter to a run
\* about the mutex.
MCWholePayloads == {Fields}
=============================================================================
