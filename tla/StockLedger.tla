---------------------------- MODULE StockLedger ----------------------------
(***************************************************************************)
(* What the inventory service promises about the stock record of one SKU:  *)
(* reservations, releases, depletions and adjustments take effect one at a *)
(* time, each computed from the stock it is applied to.  There are no      *)
(* requests, locks, versions or stale reads here; Inventory.tla has them   *)
(* all and is shown to implement this specification.                       *)
(***************************************************************************)
EXTENDS Integers

CONSTANTS Quantities, Changes

VARIABLES exists, quantity, reserved

stock == <<exists, quantity, reserved>>

Least(a, b) == IF a <= b THEN a ELSE b
NonNeg(a) == IF a >= 0 THEN a ELSE 0

\* The virtual field `available` of the inventory schema.
Free == NonNeg(quantity - reserved)

Init ==
  /\ exists \in BOOLEAN
  /\ quantity \in Nat
  /\ reserved = 0
  /\ ~exists => quantity = 0

\* A reservation is granted only out of stock that is free at that moment.
Reserve(n) ==
  /\ exists
  /\ n <= Free
  /\ reserved' = reserved + n
  /\ UNCHANGED <<exists, quantity>>

Release(n) ==
  /\ exists
  /\ reserved' = reserved - Least(reserved, n)
  /\ UNCHANGED <<exists, quantity>>

Deplete(n) ==
  /\ exists
  /\ quantity' = quantity - Least(quantity, n)
  /\ reserved' = reserved - Least(reserved, n)
  /\ UNCHANGED exists

Adjust(c) ==
  /\ exists
  /\ quantity' = NonNeg(quantity + c)
  /\ UNCHANGED <<exists, reserved>>

Open(c) ==
  /\ ~exists
  /\ exists' = TRUE
  /\ quantity' = NonNeg(c)
  /\ reserved' = 0

Close ==
  /\ exists
  /\ exists' = FALSE
  /\ quantity' = 0
  /\ reserved' = 0

Next ==
  \/ \E n \in Quantities : Reserve(n) \/ Release(n) \/ Deplete(n)
  \/ \E c \in Changes : Adjust(c) \/ Open(c)
  \/ Close

Spec == Init /\ [][Next]_stock
=============================================================================
