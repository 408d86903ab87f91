---------------------------- MODULE MCStoreCallers ----------------------------
(* Instances of StoreCallers for TLC. *)
EXTENDS StoreCallers
=============================================================================
