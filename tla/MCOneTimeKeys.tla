---------------------------- MODULE MCOneTimeKeys ----------------------------
(* Instances of OneTimeKeys: u2 uploads one of u1's keys again, and its fallback key. *)
EXTENDS OneTimeKeys, TLC

CONSTANTS k1, k2, f1, u1, u2, c1, c2, c3

(* Claims differ in nothing but their names. *)
MCSymmetry == Permutations(Claims)

MCKeysOf == [u \in Uploads |-> IF u = u1 THEN {k1, k2} ELSE {k2}]
MCFallbackOf == [u \in Uploads |-> f1]
=============================================================================
