--------------------------- MODULE MCSlidingSync ---------------------------
(***************************************************************************)
(* Small instance of SlidingSync: two rooms, two requests that may         *)
(* overlap, pages of one row.  The profiles are clients of both endpoints  *)
(* with both rooms joined, one room subscribed as well as listed, and one  *)
(* room an invitation; and of a client of one room, which two rows may     *)
(* enter between two requests.                                             *)
(***************************************************************************)
EXTENDS SlidingSync

CONSTANTS r1, r2

Client(h, s, a, invited, t) ==
  [handler |-> h, subs |-> s, asks |-> a, typing |-> t, rows |-> <<r1, r2>>,
   member |-> [r \in Rooms |-> IF r \in invited THEN "invite" ELSE "join"]]

ClientOfOneRoom(h) ==
  [handler |-> h, subs |-> {}, asks |-> FALSE, typing |-> {}, rows |-> <<r1>>,
   member |-> [r \in Rooms |-> IF r = r1 THEN "join" ELSE "none"]]

MCProfiles ==
  {Client("simplified", {}, TRUE, {}, {r1}), Client("simplified", {}, FALSE, {r2}, {}),
   Client("simplified", {r2}, TRUE, {}, {}), Client("msc3575", {}, TRUE, {r2}, {}),
   Client("msc3575", {r2}, TRUE, {}, {}), ClientOfOneRoom("simplified"), ClientOfOneRoom("msc3575")}
=============================================================================
