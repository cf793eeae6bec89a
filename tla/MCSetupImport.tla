---------------------------- MODULE MCSetupImport ----------------------------
(* Small sources: accounts in the order of their creation. *)
EXTENDS SetupImport

\* Bound: of the two sources one has a second account.
OneLargeSource ==
  source.nexus.users[2] = NoRow \/ source.control.dep[2] = NoRow
=============================================================================
