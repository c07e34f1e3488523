----------------------------- MODULE MCCheckout -----------------------------
(* Checkout.tla on a small instance: a user with two SKUs, one with one of  *)
(* them, and a guest with that one.                                         *)
EXTENDS Checkout, TLC

CONSTANTS u, v, g, a, b, r1, r2, r3

MCUsers == {u, v}
MCGuests == {g}
MCSkus == {a, b}
MCQuantities == {1}
MCRequests == {r1, r2, r3}
MCInitialCarts == (u :> (a :> 1 @@ b :> 1)) @@ (v :> (a :> 1 @@ b :> 0)) @@ (g :> (a :> 1 @@ b :> 0))

MCSymmetry == Permutations(MCRequests)
=============================================================================
