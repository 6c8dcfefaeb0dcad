-------------------------- MODULE MCInboundEvents --------------------------
(* A public room of bob; users of this server, who do nothing, are left out. *)
EXTENDS InboundEvents, TLC

CONSTANTS bob, carol, t1, t2, t3, a1, a2, a3

Power ==
  [DefaultPower EXCEPT !.users = [u \in Users |-> IF u = bob THEN 100 ELSE NoLevel],
                       !.events = 100]

Event(type, sender, target, content, depth, several) ==
  [type |-> type, sender |-> sender, target |-> target, authorised |-> Nobody,
   content |-> content, ts |-> depth, depth |-> depth, several |-> several]

MCEvents ==
  <<Event("create", bob, Nobody, "room", 0, FALSE),
    Event("member", bob, bob, "join", 1, FALSE),
    Event("power_levels", bob, Nobody, Power, 2, FALSE),
    Event("join_rules", bob, Nobody, "public", 3, FALSE),
    Event("member", carol, carol, "join", 4, FALSE),
    Event("join_rules", bob, Nobody, "invite", 5, TRUE),
    Event("member", bob, carol, "ban", 6, FALSE),
    Event("message", carol, Nobody, "any", 5, FALSE)>>

(* carol's server sends her join and a message, bob's a ban after new rules; a
   third server relays the join. *)
MCTxns == (t1 :> <<5, 8>>) @@ (t2 :> <<6, 7>>) @@ (t3 :> <<5>>)
MCRelayed == {<<t3, 5>>}

Interchangeable == Permutations({a1, a2, a3})
=============================================================================
