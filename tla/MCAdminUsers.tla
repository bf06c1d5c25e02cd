---------------------------- MODULE MCAdminUsers ----------------------------
(* A small instance of AdminUsers for TLC. *)
EXTENDS AdminUsers
=============================================================================
