--------------------------- MODULE MCOpcUaToMqtt ---------------------------
(* A finite instance of OpcUaToMqtt for TLC.                               *)
EXTENDS OpcUaToMqtt

\* Frames of other publishers: whole, or with a string missing.
MCAnyFrames == {Slots, {0, 2}}
=============================================================================
