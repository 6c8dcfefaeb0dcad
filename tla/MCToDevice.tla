----------------------------- MODULE MCToDevice -----------------------------
(* Names and functions for ToDevice's instances: s1 and s3 are attempts of one
   transaction, n1 a notice to the same user. *)
EXTENDS ToDevice

CONSTANTS d1, t1, s1, s3, n1

MCTargets == [t \in Txns |-> {d1}]
MCTxnOf == [s \in Puts |-> t1]
MCRecipients == [n \in Notices |-> {d1}]
=============================================================================
