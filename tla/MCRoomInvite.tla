----------------------------- MODULE MCRoomInvite -----------------------------
(* Instances of RoomInvite for TLC.                                        *)
EXTENDS RoomInvite
=============================================================================
