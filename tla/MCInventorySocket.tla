-------------------------- MODULE MCInventorySocket --------------------------
(* Model-checking instance of InventorySocket. *)
EXTENDS InventorySocket
=============================================================================
