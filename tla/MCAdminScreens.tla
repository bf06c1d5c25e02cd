--------------------------- MODULE MCAdminScreens ---------------------------
(* A small instance of AdminScreens for TLC.                                 *)
EXTENDS AdminScreens
=============================================================================
