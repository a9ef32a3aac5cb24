---------------------------- MODULE MCNetBuffer ----------------------------
(* Finite instances of NetBuffer and PacketPoll for TLC.                   *)
EXTENDS PacketPoll

\* A packet whose length has three digits, short ones, and an empty one.
MCLengths == <<5, 1, 0, 1>>
=============================================================================
