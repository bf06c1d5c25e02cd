--------------------------- MODULE MCAuthSession ---------------------------
(* A small instance of AuthSession for TLC. *)
EXTENDS AuthSession, TLC

\* Requests are interchangeable.
Symmetry == Permutations(Requests)
=============================================================================
