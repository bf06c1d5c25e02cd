------------------------------- MODULE MCShop -------------------------------
(* A small instance of Shop for TLC: patches that break each pricing rule, and names with    *)
(* one slug and with none.                                                                   *)
EXTENDS Shop, TLC

CONSTANTS Cherry, cherry, dots, SlugCherry, k1

TwoNumbers == 1..2
TwoBodies ==
  {[price |-> 1, sale |-> None, starts |-> None, ends |-> None, sku |-> k1],
   [price |-> 2, sale |-> None, starts |-> None, ends |-> 2, sku |-> None]}
FourPatches == {[price |-> 1, sku |-> k1], [sale |-> 1], [starts |-> 2], [ends |-> 1]}

ThreeSlugs == Cherry :> SlugCherry @@ cherry :> SlugCherry @@ dots :> None

\* Requests differ in their names alone.
RequestsAlike == Permutations(Requests)
=============================================================================
