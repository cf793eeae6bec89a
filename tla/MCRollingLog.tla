----------------------------- MODULE MCRollingLog -----------------------------
(* A few short days. *)
EXTENDS RollingLog
===============================================================================
