--------------------------- MODULE MCAccountAccess ---------------------------
(* One account; the instance is all in the constants of the cfg. *)
EXTENDS AccountAccess
=============================================================================
