---------------------------- MODULE MCPublicForms ---------------------------
(* A small instance of PublicForms for TLC: a usable address and one that is not, and windows *)
(* that are no whole number of seconds long.                                                 *)
EXTENDS PublicForms
=============================================================================
