----------------------------- MODULE MCRoomRelay ----------------------------
(* RoomRelay for TLC.  Connections are interchangeable (safety run only). *)
EXTENDS RoomRelay, TLC

ConnectionSymmetry == Permutations(Connections)
=============================================================================
