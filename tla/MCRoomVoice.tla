----------------------------- MODULE MCRoomVoice -----------------------------
(* Instances of RoomVoice for TLC.                                         *)
EXTENDS RoomVoice
=============================================================================
