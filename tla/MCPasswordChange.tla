---------------------------- MODULE MCPasswordChange ----------------------------
(* A small instance of PasswordChange for TLC. *)
EXTENDS PasswordChange
=================================================================================
