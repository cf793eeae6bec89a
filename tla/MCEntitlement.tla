---------------------------- MODULE MCEntitlement ----------------------------
(* Two members; the plans are the two defaults. *)
EXTENDS Entitlement, TLC

EntitlementSymmetry == Permutations(User)
=============================================================================
