----------------------------- MODULE MCIdentity -----------------------------
(***************************************************************************)
(* A small instance of Identity for TLC: two subjects that Google proves   *)
(* the same address for (an address can change hands), a subject whose     *)
(* address changed, an unproven address, and none.                         *)
(***************************************************************************)
EXTENDS Identity

CONSTANTS s1, s2, e1, e2

FiveClaims ==
  {[sub |-> s1, email |-> e1, proven |-> TRUE], [sub |-> s2, email |-> e1, proven |-> TRUE],
   [sub |-> s1, email |-> e2, proven |-> TRUE], [sub |-> s2, email |-> e2, proven |-> FALSE],
   [sub |-> s2, email |-> None, proven |-> FALSE]}
=============================================================================
