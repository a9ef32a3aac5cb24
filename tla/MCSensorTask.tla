---------------------------- MODULE MCSensorTask ----------------------------
(* Finite instances of SensorTask for TLC.                                 *)
EXTENDS SensorTask

\* The largest angle, and one whose two bytes differ.
MCAngles == {300, 16383}
MCDistances == {20, 765}
=============================================================================
