--------------------------- MODULE MCRoomServices ---------------------------
(* Functions and sequences for RoomServices' instance. *)
EXTENDS RoomServices

CONSTANTS alice, bob, carol, q1, q2, u1, u2

(* Contents as clients send them: the creator keeps its entry, gives it away or
   leaves it out; bob is unlisted, a moderator or the creator's equal; the
   default is 0 or 50.  The level of m.room.power_levels is 100, and the ban
   level above the kick level, or it is left out, and the default with it.  One
   content has everybody, and what changing it takes, below 0, and one is empty. *)
MCPowerContents ==
  {[InitialPower EXCEPT !.users[alice] = a, !.users[bob] = b, !.users_default = d,
                        !.ban = IF e = NoLevel THEN 50 ELSE 100, !.events = e, !.invite = 0] :
     a \in {NoLevel, 100}, b \in {NoLevel, 50, 100},
     <<d, e>> \in {<<NoLevel, NoLevel>>, <<NoLevel, 100>>, <<50, 100>>}}
  \cup {[InitialPower EXCEPT !.users[alice] = -1, !.users_default = -1, !.events = -1],
        [f \in DOMAIN InitialPower |-> IF f = "users" THEN [u \in Users |-> NoLevel] ELSE NoLevel]}

MCLevels == {-1, 0, 50, 100}

(* Two requests to the old room, a retry of each other when they send. *)
MCTxnOf == [q \in UpgradeRequests |-> 1]

(* Five events, two of which branch; the last is stored by a knock, and two have the same timestamp. *)
MCPrev == <<{}, {1}, {1}, {2, 3}, {4}>>
MCAuth == <<{}, {1}, {1}, {1, 2}, {1, 3}>>
MCDepth == <<1, 2, 2, 3, 4>>
MCTs == <<11, 12, 12, 13, 13>>
=============================================================================
