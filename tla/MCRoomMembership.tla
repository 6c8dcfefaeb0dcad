-------------------------- MODULE MCRoomMembership --------------------------
(* Instances of RoomMembership. *)
EXTENDS RoomMembership

CONSTANTS alice, bob

(* createInitialRoomEvents with bob added as a moderator. *)
MCInitialPower ==
  [users |-> [u \in Users |-> IF u = alice THEN 100 ELSE IF u = bob THEN 50 ELSE NoLevel],
   users_default |-> 0, events |-> 100, state_default |-> 50, events_default |-> 0,
   ban |-> 50, kick |-> 50, redact |-> 50, invite |-> 0]

(* The same without the moderator. *)
MCPowerContents == {[MCInitialPower EXCEPT !.users[bob] = NoLevel]}
=============================================================================
