---------------------------- MODULE MCWebSession ----------------------------
(* A small instance of WebSession for TLC. *)
EXTENDS WebSession, TLC

\* The requests a page makes at the same time are interchangeable.
CallsAlike == Permutations(Calls)
=============================================================================
