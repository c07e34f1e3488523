------------------------------ MODULE Checkout ------------------------------
(***************************************************************************)
(* The carts (Redis hashes, src/src/modules/cart), the checkouts that turn *)
(* them into orders (.../checkout), and the requests on both at the same   *)
(* time.  Each await is a step:                                            *)
(*                                                                         *)
(*   addItem, updateItem    read the item (hget), write it (hset)          *)
(*   removeItem, clearCart  hdel, del                                      *)
(*   mergeGuestCart         read both carts, write the merged one, del the *)
(*                          guest's                                        *)
(*   initiateCheckout       read cart, validate address, lock each SKU,    *)
(*                          create order, initialise payment, clear cart,  *)
(*                          finally unlock                                 *)
(*                                                                         *)
(* A cart is how much of each SKU it holds: prices, coupons and the seven  *)
(* days after which a cart expires are left out.                           *)
(***************************************************************************)
EXTENDS Integers, FiniteSets, Functions

CONSTANTS
  Users, Guests, \* cart ids: user ids and guest session ids
  Skus,
  Quantities,    \* quantities of addItem and updateItem (the DTOs have Min(1))
  InitialCarts,  \* what the carts hold at first
  Requests,      \* requests, each served once
  Free,          \* the value of a lock nobody holds
  MaxFaults      \* bound on crashes and failed calls

Carts == Users \union Guests
Items == [Skus -> Nat]

ASSUME RequestsAssumption == Free \notin Requests
ASSUME QuantitiesAssumption == Quantities \subseteq Nat \ {0}
ASSUME CartsAssumption == InitialCarts \in [Carts -> Items]
\* getCartKey: a user's cart is cart:<id>, a guest's is cart:guest:<id>.
ASSUME KeysAssumption == Users \intersect Guests = {}
ASSUME FiniteAssumption == IsFiniteSet(Carts) /\ IsFiniteSet(Requests)
ASSUME FaultsAssumption == MaxFaults \in Nat

VARIABLES
  cart,        \* quantity of each SKU in each cart, 0 when the field is absent
  lock,        \* vitaform:lock:inventory:<sku>, by the request that set it
  pc, job,     \* where each request is, and what it is about
  seen,        \* what each request read of the cart it changes
  seenGuest,   \* what a merge read of the guest's cart
  held,        \* acquiredLocks of a checkout
  ordered,     \* items of the order a checkout created
  wanted,      \* what customers put in carts and did not take out (history)
  collided,    \* whether two requests ever worked on one cart (history)
  late,        \* whether a lock ever expired under its holder (history)
  faults

stores == <<cart, lock, ordered>>
local == <<job, seen, seenGuest, held>>
history == <<wanted, collided, late>>
vars == <<stores, pc, local, history, faults>>

NoItems == [s \in Skus |-> 0]
NoJob == [op |-> "none"]
Job == [op : {"add", "update"}, cart : Carts, sku : Skus, qty : Quantities]
         \union [op : {"remove"}, cart : Carts, sku : Skus]
         \union [op : {"clear"}, cart : Carts]
         \union [op : {"merge"}, cart : Users, from : Guests]
         \union [op : {"checkout"}, cart : Users]

InCart(c) == {s \in Skus : c[s] > 0}
CartsOf(j) == IF j.op = "merge" THEN {j.cart, j.from} ELSE {j.cart}
Running(r) == pc[r] \notin {"idle", "done"}

\* Stages inside the try block of initiateCheckout, where acquiredLocks counts.
Locking == {"lock", "order", "pay", "clear"}
Goto(r, l) == pc' = [pc EXCEPT ![r] = l]

Init ==
  /\ cart = InitialCarts
  /\ lock = [s \in Skus |-> Free]
  /\ pc = [r \in Requests |-> "idle"]
  /\ job = [r \in Requests |-> NoJob]
  /\ seen = [r \in Requests |-> NoItems]
  /\ seenGuest = [r \in Requests |-> NoItems]
  /\ held = [r \in Requests |-> {}]
  /\ ordered = [r \in Requests |-> NoItems]
  /\ wanted = [s \in Skus |-> SumFunction([k \in Carts |-> InitialCarts[k][s]])]
  /\ collided = FALSE
  /\ late = FALSE
  /\ faults = 0

-----------------------------------------------------------------------------
(* Requests on the items of a cart. *)

\* A request arrives; its first await is still ahead.
Start(r, j, l) ==
  /\ pc[r] = "idle"
  /\ job' = [job EXCEPT ![r] = j]
  /\ Goto(r, l)
  /\ collided' = (collided \/ \E q \in Requests : Running(q) /\ CartsOf(job[q]) \intersect CartsOf(j) # {})
  /\ UNCHANGED <<stores, seen, seenGuest, held, wanted, late, faults>>

StartItem(r) ==
  \E op \in {"add", "update"}, k \in Carts, s \in Skus, n \in Quantities :
    Start(r, [op |-> op, cart |-> k, sku |-> s, qty |-> n], "readItem")
StartRemoval(r) ==
  \E k \in Carts : \/ \E s \in Skus : Start(r, [op |-> "remove", cart |-> k, sku |-> s], "remove")
                   \/ Start(r, [op |-> "clear", cart |-> k], "remove")
StartMerge(r) ==
  \E u \in Users, g \in Guests : Start(r, [op |-> "merge", cart |-> u, from |-> g], "readGuest")
StartCheckout(r) == \E u \in Users : Start(r, [op |-> "checkout", cart |-> u], "readCart")

\* hget; updateItem throws CART_ITEM_NOT_FOUND for an absent field.
ReadItem(r) ==
  /\ pc[r] = "readItem"
  /\ seen' = [seen EXCEPT ![r] = cart[job[r].cart]]
  /\ Goto(r, IF job[r].op = "update" /\ cart[job[r].cart][job[r].sku] = 0 THEN "done" ELSE "writeItem")
  /\ UNCHANGED <<stores, job, seenGuest, held, history, faults>>

\* hset of the new quantity: added to what was read, or put in its place.
NewQuantity(r) ==
  IF job[r].op = "add" THEN seen[r][job[r].sku] + job[r].qty ELSE job[r].qty

WriteItem(r) ==
  LET s == job[r].sku IN
  /\ pc[r] = "writeItem"
  /\ cart' = [cart EXCEPT ![job[r].cart][s] = NewQuantity(r)]
  /\ wanted' = [wanted EXCEPT ![s] = @ + NewQuantity(r) - seen[r][s]]
  /\ Goto(r, "done")
  /\ UNCHANGED <<lock, ordered, local, collided, late, faults>>

\* hdel takes a whole field, del all of them.
Gone(r, s) == IF job[r].op = "clear" \/ s = job[r].sku THEN cart[job[r].cart][s] ELSE 0

Remove(r) ==
  /\ pc[r] = "remove"
  /\ cart' = [cart EXCEPT ![job[r].cart] = [s \in Skus |-> @[s] - Gone(r, s)]]
  /\ wanted' = [s \in Skus |-> wanted[s] - Gone(r, s)]
  /\ Goto(r, "done")
  /\ UNCHANGED <<lock, ordered, local, collided, late, faults>>

-----------------------------------------------------------------------------
(* mergeGuestCart. *)

\* The two hgetall of Promise.all reach Redis one after the other.
ReadGuest(r) ==
  /\ pc[r] = "readGuest"
  /\ seenGuest' = [seenGuest EXCEPT ![r] = cart[job[r].from]]
  /\ Goto(r, "readUser")
  /\ UNCHANGED <<stores, job, seen, held, history, faults>>

\* Nothing to merge: the user's cart is returned as it is.
ReadUser(r) ==
  /\ pc[r] = "readUser"
  /\ seen' = [seen EXCEPT ![r] = cart[job[r].cart]]
  /\ Goto(r, IF InCart(seenGuest[r]) = {} THEN "done" ELSE "writeMerged")
  /\ UNCHANGED <<stores, job, seenGuest, held, history, faults>>

\* Variant: the guest's quantity replaces the user's.
GuestWins(r, k, s) ==
  IF seenGuest[r][s] > 0 THEN seenGuest[r][s] ELSE IF seen[r][s] > 0 THEN seen[r][s] ELSE cart[k][s]

\* hset writes every field of either cart as read, and leaves the others.
Merged(r, k, s) ==
  IF seen[r][s] + seenGuest[r][s] > 0 THEN seen[r][s] + seenGuest[r][s] ELSE cart[k][s]

WriteMerged(r) ==
  LET k == job[r].cart IN
  /\ pc[r] = "writeMerged"
  /\ cart' = [cart EXCEPT ![k] = [s \in Skus |-> Merged(r, k, s)]]
  /\ Goto(r, "delGuest")
  /\ UNCHANGED <<lock, ordered, local, history, faults>>

\* Variant: the guest's cart is left to expire.
KeepGuest(r) ==
  /\ pc[r] = "delGuest"
  /\ Goto(r, "done")
  /\ UNCHANGED <<stores, local, history, faults>>

DelGuest(r) ==
  /\ pc[r] = "delGuest"
  /\ cart' = [cart EXCEPT ![job[r].from] = NoItems]
  /\ Goto(r, "done")
  /\ UNCHANGED <<lock, ordered, local, history, faults>>

-----------------------------------------------------------------------------
(* initiateCheckout. *)

\* getCart, or CART_EMPTY.
ReadCart(r) ==
  /\ pc[r] = "readCart"
  /\ seen' = [seen EXCEPT ![r] = cart[job[r].cart]]
  /\ Goto(r, IF InCart(cart[job[r].cart]) = {} THEN "done" ELSE "address")
  /\ UNCHANGED <<stores, job, seenGuest, held, history, faults>>

\* validateAddress, before the try block.
ValidateAddress(r) ==
  /\ pc[r] = "address"
  /\ Goto(r, "lock") \/ Goto(r, "done")
  /\ UNCHANGED <<stores, local, history, faults>>

\* setNx on one SKU after the other; a busy one throws into the finally block.
Lock(r) ==
  /\ pc[r] = "lock"
  /\ \E s \in InCart(seen[r]) \ held[r] :
       \/ /\ lock[s] = Free
          /\ lock' = [lock EXCEPT ![s] = r]
          /\ held' = [held EXCEPT ![r] = @ \union {s}]
          /\ UNCHANGED pc
       \/ /\ lock[s] # Free
          /\ Goto(r, "unlock")
          /\ UNCHANGED <<lock, held>>
  /\ UNCHANGED <<cart, ordered, job, seen, seenGuest, history, faults>>

\* All SKUs locked: on to the order.
Locked(r) ==
  /\ pc[r] = "lock"
  /\ held[r] = InCart(seen[r])
  /\ Goto(r, "order")
  /\ UNCHANGED <<stores, local, history, faults>>

\* createOrderFromCheckout, from the cart that was read before the locks.
CreateOrder(r) ==
  /\ pc[r] = "order"
  /\ ordered' = [ordered EXCEPT ![r] = seen[r]]
  /\ Goto(r, "pay")
  /\ UNCHANGED <<cart, lock, local, history, faults>>

\* initializePayment (Payment documents are in OrderPayments.tla).
InitializePayment(r) ==
  /\ pc[r] = "pay"
  /\ Goto(r, "clear")
  /\ UNCHANGED <<stores, local, history, faults>>

ClearCart(r) ==
  /\ pc[r] = "clear"
  /\ cart' = [cart EXCEPT ![job[r].cart] = NoItems]
  /\ Goto(r, "unlock")
  /\ UNCHANGED <<lock, ordered, local, history, faults>>

\* Variant: the finally block releases the locks of every item of the cart.
UnlockTheCart(r) ==
  /\ pc[r] = "unlock"
  /\ lock' = [s \in Skus |-> IF s \in InCart(seen[r]) THEN Free ELSE lock[s]]
  /\ held' = [held EXCEPT ![r] = {}]
  /\ Goto(r, "done")
  /\ UNCHANGED <<cart, ordered, job, seen, seenGuest, history, faults>>

\* finally: del of each acquired lock, whoever holds it by now.
Unlock(r) ==
  /\ pc[r] = "unlock"
  /\ \/ \E s \in held[r] :
          /\ lock' = [lock EXCEPT ![s] = Free]
          /\ held' = [held EXCEPT ![r] = @ \ {s}]
          /\ UNCHANGED pc
     \/ /\ held[r] = {}
        /\ Goto(r, "done")
        /\ UNCHANGED <<lock, held>>
  /\ UNCHANGED <<cart, ordered, job, seen, seenGuest, history, faults>>

-----------------------------------------------------------------------------
(* Failures. *)

\* An awaited call throws: through finally inside the try block, out otherwise.
Fail(r) ==
  /\ Running(r) /\ faults < MaxFaults
  /\ faults' = faults + 1
  /\ Goto(r, IF pc[r] \in Locking THEN "unlock" ELSE "done")
  /\ UNCHANGED <<stores, local, history>>

\* The replica dies: its locks stay.
Crash(r) ==
  /\ Running(r) /\ faults < MaxFaults
  /\ faults' = faults + 1
  /\ Goto(r, "done")
  /\ UNCHANGED <<stores, local, history>>

\* The TTL of 30 seconds, which a slow checkout outlives.
LockExpires(s) ==
  /\ lock[s] # Free
  /\ lock' = [lock EXCEPT ![s] = Free]
  /\ late' = (late \/ Running(lock[s]))
  /\ UNCHANGED <<cart, ordered, pc, local, wanted, collided, faults>>

Serve(r) ==
  \/ StartItem(r) \/ StartRemoval(r) \/ StartMerge(r) \/ StartCheckout(r)
  \/ ReadItem(r) \/ WriteItem(r) \/ Remove(r)
  \/ ReadGuest(r) \/ ReadUser(r) \/ WriteMerged(r) \/ DelGuest(r)
  \/ ReadCart(r) \/ ValidateAddress(r) \/ Lock(r) \/ Locked(r)
  \/ CreateOrder(r) \/ InitializePayment(r) \/ ClearCart(r) \/ Unlock(r)

Next ==
  \/ \E r \in Requests : Serve(r) \/ Fail(r) \/ Crash(r)
  \/ \E s \in Skus : LockExpires(s)

Spec == Init /\ [][Next]_vars

-----------------------------------------------------------------------------
(* Properties. *)

Stages == {"idle", "readItem", "writeItem", "remove", "readGuest", "readUser", "writeMerged",
           "delGuest", "readCart", "address", "unlock", "done"} \union Locking

\* Types: quantities never go below zero, requests are where they can be; wanted
\* is left out, being a sum that only ever meets another sum.
TypeOK ==
  /\ cart \in [Carts -> Items]
  /\ lock \in [Skus -> Requests \union {Free}]
  /\ pc \in [Requests -> Stages]
  /\ job \in [Requests -> Job \union {NoJob}]
  /\ seen \in [Requests -> Items]
  /\ seenGuest \in [Requests -> Items]
  /\ held \in [Requests -> SUBSET Skus]
  /\ ordered \in [Requests -> Items]
  /\ collided \in BOOLEAN
  /\ late \in BOOLEAN
  /\ faults \in 0..MaxFaults

Ordering(r) == pc[r] \in {"order", "pay", "clear"}

\* initiateCheckout, "preventing race condition flash sales": as long as no
\* checkout has outlived its TTL, the one that orders a SKU holds its lock from
\* before the order until the cart is cleared, whatever other checkouts lose,
\* release or leave behind; so no two order the same SKU at the same time.
LocksCoverTheOrder ==
  ~late => \A r \in Requests : Ordering(r) => \A s \in InCart(seen[r]) : lock[s] = r

\* What customers have: in the carts and in the orders made of them.
Kept(s) ==
  SumFunction([k \in Carts |-> cart[k][s]]) + SumFunction([r \in Requests |-> ordered[r][s]])

\* Requests on different carts may overlap, calls may fail and replicas crash
\* between any two steps of a merge or a checkout: nothing a customer put in a
\* cart and did not take out is missing from both the carts and the orders.
NothingIsLost == ~collided => \A s \in Skus : Kept(s) >= wanted[s]

\* Without failures nothing is there twice either once the requests are over:
\* a merged item left the guest's cart, an ordered one the user's.
NothingIsDuplicated ==
  ~collided /\ faults = 0 /\ (\A r \in Requests : ~Running(r)) => \A s \in Skus : Kept(s) <= wanted[s]

\* PROJECT_PHASES.md:220 calls initiateCheckout an "ACID transaction" that
\* "creates Order, clears Redis cart": a checkout that ordered ends with an
\* empty cart.
AllOrNothing ==
  [][\A r \in Requests :
       ordered[r] # NoItems /\ pc[r] \in Locking /\ pc'[r] \in {"unlock", "done"}
         => cart'[job[r].cart] = NoItems]_vars
=============================================================================
