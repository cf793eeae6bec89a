----------------------------- MODULE MCRowLocks -----------------------------
(* Two sessions of one user: what the transactions of one account lock. *)
EXTENDS RowLocks

CONSTANT u1
OneOwner == [s \in Session |-> u1]
=============================================================================
