---------------------------- MODULE MCKeyBackups ----------------------------
(* Model values for KeyBackups. *)
EXTENDS KeyBackups, TLC

CONSTANTS r1, r2, k1, p1, p2, d1, x1, c1

(* Nothing names one of the two uploads, nor one of the rooms. *)
Interchangeable == Permutations({p1, p2}) \cup Permutations({r1, r2})
=============================================================================
