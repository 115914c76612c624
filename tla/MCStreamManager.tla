-------------------------- MODULE MCStreamManager ---------------------------
(* StreamManager with two rooms. *)
EXTENDS StreamManager
CONSTANTS r1, r2
TwoRooms == <<r1, r2>>
=============================================================================
