---------------------------- MODULE MCSyncStream ----------------------------
(***************************************************************************)
(* Small instance of SyncStream: three events in two rooms, one client in  *)
(* both rooms and one in the first room only.                              *)
(***************************************************************************)
EXTENDS SyncStream

CONSTANTS e1, e2, e3, r1, r2, c1, c2

MCRoomOf == [e \in Events |-> IF e = e3 THEN r2 ELSE r1]
MCJoined == [c \in Clients |-> IF c = c1 THEN {r1, r2} ELSE {r1}]
=============================================================================
