----------------------------- MODULE MCIdentityLog -----------------------------
(* A small instance of IdentityLog for TLC. *)
EXTENDS IdentityLog
================================================================================
