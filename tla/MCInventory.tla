---------------------------- MODULE MCInventory ----------------------------
(* Inventory.tla on a small instance: three requests on one SKU. *)
EXTENDS Inventory

CONSTANTS r1, r2, r3

MCRequests == {r1, r2, r3}
MCQuantities == {1}
MCChanges == {-1}
=============================================================================
