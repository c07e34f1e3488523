--------------------------- MODULE CheckoutProofs ---------------------------
(***************************************************************************)
(* That the SKU locks of initiateCheckout cover the order, that no         *)
(* quantity of a cart goes below zero, and that carts and orders neither   *)
(* lose nor duplicate items, for any number of carts, SKUs, requests and   *)
(* faults.                                                                 *)
(*                                                                         *)
(* The first property speaks of the three stages in which an order is      *)
(* made.  It is inductive once it is said of acquiredLocks instead,        *)
(* through all the stages in which a checkout may set or delete a lock.    *)
(* The last two speak of sums, which are inductive once the carts that are *)
(* about to be emptied are left out of them.                               *)
(***************************************************************************)
EXTENDS Checkout, DataLemmas

Owning == Locking \union {"unlock"}

\* What the locks need to know of the types; seen is only a function.
LockTypes ==
  /\ lock \in [Skus -> Requests \union {Free}]
  /\ pc \in [Requests -> Stages]
  /\ held \in [Requests -> SUBSET Skus]
  /\ seen = [r \in Requests |-> seen[r]]
  /\ late \in BOOLEAN

\* Unless a TTL was outlived, acquiredLocks are locks the request holds.
HeldIsOwned ==
  ~late => \A r \in Requests : pc[r] \in Owning => \A s \in held[r] : lock[s] = r

\* Nothing is acquired before the try block.
NothingHeldBefore == \A r \in Requests : pc[r] \notin Owning \union {"done"} => held[r] = {}

\* The order is made when every SKU of the cart has been acquired.
HeldIsTheCart == \A r \in Requests : Ordering(r) => held[r] = InCart(seen[r])

LockInv == LockTypes /\ HeldIsOwned /\ NothingHeldBefore /\ HeldIsTheCart

LEMMA InitLockInv == Init => LockInv
  <1> SUFFICES ASSUME Init PROVE LockInv
    OBVIOUS
  <1>1. LockTypes
    BY DEF Init, LockTypes, Stages
  <1>2. \A r \in Requests : pc[r] = "idle" /\ held[r] = {}
    BY DEF Init
  <1> QED
    BY <1>1, <1>2 DEF LockInv, HeldIsOwned, NothingHeldBefore, HeldIsTheCart, Ordering, Owning,
          Locking

-----------------------------------------------------------------------------
(* Steps that leave the locks alone. *)

\* A request outside the try block moves on, or enters it.
LEMMA StepOutside ==
  ASSUME LockInv, NEW r \in Requests, pc[r] \notin Owning \union {"done"},
         NEW l \in Stages \ {"order", "pay", "clear", "unlock"}, Goto(r, l),
         \A q \in Requests \ {r} : seen'[q] = seen[q],
         seen' = [q \in Requests |-> seen'[q]],
         UNCHANGED <<lock, held, late>>
  PROVE  LockInv'
  <1> USE DEF LockInv, Goto
  <1>1. LockTypes'
    BY DEF LockTypes
  <1>2. held[r] = {}
    BY DEF NothingHeldBefore
  <1>3. /\ pc'[r] = l
        /\ \A q \in Requests \ {r} : pc'[q] = pc[q]
    BY DEF LockTypes
  <1>4. HeldIsOwned'
    BY <1>2, <1>3 DEF HeldIsOwned, Owning
  <1>5. NothingHeldBefore'
    BY <1>2, <1>3 DEF NothingHeldBefore, Owning
  <1>6. HeldIsTheCart'
    BY <1>3 DEF HeldIsTheCart, Ordering
  <1> QED
    BY <1>1, <1>4, <1>5, <1>6

\* A request inside the try block moves on within it, to finally, or ends.
LEMMA StepInside ==
  ASSUME LockInv, NEW r \in Requests, pc[r] \in Owning,
         NEW l \in Owning \union {"done"}, Goto(r, l),
         l \in {"order", "pay", "clear"} => held[r] = InCart(seen[r]),
         UNCHANGED <<lock, held, late, seen>>
  PROVE  LockInv'
  <1> USE DEF LockInv, Goto
  <1>1. LockTypes'
    BY DEF LockTypes, Owning, Stages
  <1>2. /\ pc'[r] = l
        /\ \A q \in Requests \ {r} : pc'[q] = pc[q]
    BY DEF LockTypes
  <1>3. HeldIsOwned'
    BY <1>2 DEF HeldIsOwned, Owning, Locking
  <1>4. NothingHeldBefore'
    BY <1>2 DEF NothingHeldBefore, Owning
  <1>5. HeldIsTheCart'
    BY <1>2 DEF HeldIsTheCart, Ordering
  <1> QED
    BY <1>1, <1>3, <1>4, <1>5

\* The three reads remember a cart and decide where to go.
LEMMA ReadStep ==
  ASSUME LockInv, NEW r \in Requests, ReadItem(r) \/ ReadUser(r) \/ ReadCart(r)
  PROVE  LockInv'
  <1>1. PICK l \in {"writeItem", "writeMerged", "address", "done"} : Goto(r, l)
    BY DEF ReadItem, ReadUser, ReadCart
  <1>2. /\ \A q \in Requests \ {r} : seen'[q] = seen[q]
        /\ seen' = [q \in Requests |-> seen'[q]]
    BY DEF LockInv, LockTypes, ReadItem, ReadUser, ReadCart
  <1>3. pc[r] \notin Owning \union {"done"}
    BY DEF ReadItem, ReadUser, ReadCart, Owning, Locking
  <1>4. UNCHANGED <<lock, held, late>>
    BY DEF ReadItem, ReadUser, ReadCart, stores, history
  <1>5. l \in Stages \ {"order", "pay", "clear", "unlock"}
    BY DEF Stages
  <1> QED
    BY <1>1, <1>2, <1>3, <1>4, <1>5, StepOutside

\* What a step outside the try block does, and where it goes.
After == {"readItem", "remove", "readGuest", "readUser", "readCart", "delGuest", "lock", "done"}
Outside(r) ==
  /\ \E l \in After : Goto(r, l)
  /\ UNCHANGED <<lock, held, late, seen>>
  /\ pc[r] \notin Owning \union {"done"}

\* The requests on carts, up to the try block of a checkout.
LEMMA CartStep ==
  ASSUME LockInv, NEW r \in Requests,
         \/ StartItem(r) \/ StartRemoval(r) \/ StartMerge(r) \/ StartCheckout(r)
         \/ WriteItem(r) \/ Remove(r) \/ ReadGuest(r) \/ WriteMerged(r) \/ DelGuest(r)
         \/ ValidateAddress(r)
  PROVE  LockInv'
  <1>1. ASSUME StartItem(r) \/ StartRemoval(r) \/ StartMerge(r) \/ StartCheckout(r) PROVE Outside(r)
    <2>1. PICK j : \E l \in After : Start(r, j, l)
      BY <1>1 DEF After, StartItem, StartRemoval, StartMerge, StartCheckout
    <2> QED
      BY <2>1 DEF Start, Outside, stores, Owning, Locking
  <1>2. ASSUME WriteItem(r) \/ Remove(r) \/ WriteMerged(r) \/ DelGuest(r) PROVE Outside(r)
    BY <1>2 DEF Outside, After, WriteItem, Remove, WriteMerged, DelGuest, local, history, Owning,
          Locking
  <1>3. ASSUME ReadGuest(r) PROVE Outside(r)
    BY <1>3 DEF Outside, After, ReadGuest, stores, history, Owning, Locking
  <1>4. ASSUME ValidateAddress(r) PROVE Outside(r)
    BY <1>4 DEF Outside, After, ValidateAddress, stores, local, history, Owning, Locking
  <1>5. Outside(r)
    BY <1>1, <1>2, <1>3, <1>4
  <1>6. PICK l \in After : Goto(r, l)
    BY <1>5 DEF Outside
  <1>7. l \in Stages \ {"order", "pay", "clear", "unlock"}
    BY DEF Stages, After, Locking
  <1>8. /\ \A q \in Requests \ {r} : seen'[q] = seen[q]
        /\ seen' = [q \in Requests |-> seen'[q]]
    BY <1>5 DEF Outside, LockInv, LockTypes
  <1> QED
    BY <1>5, <1>6, <1>7, <1>8, StepOutside DEF Outside

\* The steps of a checkout between two locks, and every way out of it.
LEMMA CheckoutStep ==
  ASSUME LockInv, NEW r \in Requests,
         Locked(r) \/ CreateOrder(r) \/ InitializePayment(r) \/ ClearCart(r)
  PROVE  LockInv'
  <1>1. CASE Locked(r)
    <2>1. /\ pc[r] \in Owning /\ held[r] = InCart(seen[r]) /\ Goto(r, "order")
          /\ UNCHANGED <<lock, held, late, seen>>
      BY <1>1 DEF Locked, stores, local, history, Owning, Locking
    <2>2. "order" \in Owning \union {"done"}
      BY DEF Owning, Locking
    <2> QED
      BY <2>1, <2>2, StepInside
  <1>2. CASE CreateOrder(r) \/ InitializePayment(r) \/ ClearCart(r)
    <2>1. /\ pc[r] \in Owning /\ Ordering(r)
          /\ UNCHANGED <<lock, held, late, seen>>
      BY <1>2 DEF CreateOrder, InitializePayment, ClearCart, stores, local, history, Owning,
            Locking, Ordering
    <2>2. PICK l \in Owning \union {"done"} : Goto(r, l)
      BY <1>2 DEF CreateOrder, InitializePayment, ClearCart, Owning, Locking
    <2>3. held[r] = InCart(seen[r])
      BY <2>1 DEF LockInv, HeldIsTheCart
    <2> QED
      BY <2>1, <2>2, <2>3, StepInside
  <1> QED
    BY <1>1, <1>2

\* Failing calls and crashes leave the locks as they are.
LEMMA FaultStep ==
  ASSUME LockInv, NEW r \in Requests, Fail(r) \/ Crash(r)
  PROVE  LockInv'
  <1>1. Running(r) /\ pc[r] # "idle" /\ pc[r] # "done" /\ UNCHANGED <<lock, held, late, seen>>
    BY DEF Fail, Crash, Running, stores, local, history
  <1>2. CASE pc[r] \in Owning
    <2>1. PICK l \in {"unlock", "done"} : Goto(r, l)
      BY DEF Fail, Crash
    <2>2. l \in Owning \union {"done"} /\ l \notin {"order", "pay", "clear"}
      BY DEF Owning
    <2> QED
      BY <1>1, <1>2, <2>1, <2>2, StepInside
  <1>3. CASE pc[r] \notin Owning
    <2>1. Goto(r, "done")
      BY <1>3 DEF Fail, Crash, Owning
    <2>2. "done" \in Stages \ {"order", "pay", "clear", "unlock"} /\ pc[r] \notin Owning \union {"done"}
      BY <1>1, <1>3 DEF Stages
    <2>3. /\ \A q \in Requests \ {r} : seen'[q] = seen[q]
          /\ seen' = [q \in Requests |-> seen'[q]]
      BY <1>1 DEF LockInv, LockTypes
    <2> QED
      BY <1>1, <2>1, <2>2, <2>3, StepOutside
  <1> QED
    BY <1>2, <1>3

-----------------------------------------------------------------------------
(* Steps that set, delete or lose a lock. *)

\* setNx succeeds on a lock nobody holds, so it takes nobody's.
LEMMA LockStep ==
  ASSUME LockInv, NEW r \in Requests, Lock(r)
  PROVE  LockInv'
  <1> USE DEF LockInv
  <1>1. pc[r] = "lock" /\ "lock" \in Locking /\ UNCHANGED <<seen, late>>
    BY DEF Lock, history, Locking
  <1>2. PICK s \in InCart(seen[r]) \ held[r] :
          \/ /\ lock[s] = Free
             /\ lock' = [lock EXCEPT ![s] = r]
             /\ held' = [held EXCEPT ![r] = @ \union {s}]
             /\ UNCHANGED pc
          \/ Goto(r, "unlock") /\ UNCHANGED <<lock, held>>
    BY DEF Lock
  <1>3. CASE Goto(r, "unlock") /\ UNCHANGED <<lock, held>>
    <2>1. pc[r] \in Owning /\ "unlock" \in Owning \union {"done"}
      BY <1>1 DEF Owning
    <2> QED
      BY <1>1, <1>3, <2>1, StepInside
  <1>4. CASE /\ lock[s] = Free
             /\ lock' = [lock EXCEPT ![s] = r]
             /\ held' = [held EXCEPT ![r] = @ \union {s}]
             /\ UNCHANGED pc
    <2>1. s \in Skus
      BY DEF InCart
    <2>2. /\ held'[r] = held[r] \union {s}
          /\ \A q \in Requests \ {r} : held'[q] = held[q]
      BY <1>4 DEF LockTypes
    <2>3. /\ lock'[s] = r
          /\ \A t \in Skus \ {s} : lock'[t] = lock[t]
      BY <1>4, <2>1 DEF LockTypes
    <2>4. LockTypes'
      BY <1>1, <1>4, <2>1 DEF LockTypes
    <2>5. HeldIsOwned'
      <3> SUFFICES ASSUME ~late, NEW q \in Requests, pc[q] \in Owning, NEW t \in held'[q]
                   PROVE  lock'[t] = q
        BY <1>1, <1>4 DEF HeldIsOwned
      <3>1. t \in Skus
        BY <2>4 DEF LockTypes
      <3>2. CASE t = s
        BY <1>4, <2>2, <2>3, <3>2, RequestsAssumption DEF HeldIsOwned
      <3>3. CASE t # s
        BY <2>2, <2>3, <3>1, <3>3 DEF HeldIsOwned
      <3> QED
        BY <3>2, <3>3
    <2>6. NothingHeldBefore'
      BY <1>1, <1>4, <2>2 DEF NothingHeldBefore, Owning
    <2>7. HeldIsTheCart'
      BY <1>1, <1>4, <2>2 DEF HeldIsTheCart, Ordering
    <2> QED
      BY <2>4, <2>5, <2>6, <2>7
  <1> QED
    BY <1>2, <1>3, <1>4

\* finally deletes a lock the request holds, which no other request does.
LEMMA UnlockStep ==
  ASSUME LockInv, NEW r \in Requests, Unlock(r)
  PROVE  LockInv'
  <1> USE DEF LockInv
  <1>1. pc[r] = "unlock" /\ "unlock" \in Owning /\ UNCHANGED <<seen, late>>
    BY DEF Unlock, history, Owning
  <1>2. CASE Goto(r, "done") /\ UNCHANGED <<lock, held>>
    BY <1>1, <1>2, StepInside
  <1>3. ASSUME NEW s \in held[r], lock' = [lock EXCEPT ![s] = Free],
               held' = [held EXCEPT ![r] = @ \ {s}], UNCHANGED pc
        PROVE  LockInv'
    <2>1. /\ held'[r] = held[r] \ {s}
          /\ \A q \in Requests \ {r} : held'[q] = held[q]
      BY <1>3 DEF LockTypes
    <2>2. \A t \in Skus \ {s} : lock'[t] = lock[t]
      BY <1>3 DEF LockTypes
    <2>3. LockTypes'
      BY <1>1, <1>3 DEF LockTypes
    <2>4. HeldIsOwned'
      <3> SUFFICES ASSUME ~late, NEW q \in Requests, pc[q] \in Owning, NEW t \in held'[q]
                   PROVE  lock'[t] = q
        BY <1>1, <1>3 DEF HeldIsOwned
      <3>1. t \in held[q] /\ t \in Skus
        BY <2>1, <2>3 DEF LockTypes
      <3>2. lock[t] = q /\ lock[s] = r
        BY <1>1, <1>3, <3>1 DEF HeldIsOwned
      <3>3. t # s
        BY <2>1, <3>1, <3>2
      <3> QED
        BY <2>2, <3>1, <3>2, <3>3
    <2>5. NothingHeldBefore'
      BY <1>1, <1>3, <2>1 DEF NothingHeldBefore
    <2>6. HeldIsTheCart'
      BY <1>1, <1>3, <2>1 DEF HeldIsTheCart, Ordering
    <2> QED
      BY <2>3, <2>4, <2>5, <2>6
  <1> QED
    BY <1>2, <1>3 DEF Unlock

\* A lock expires after its holder is over, or late is set.
LEMMA ExpiryStep ==
  ASSUME LockInv, NEW s \in Skus, LockExpires(s)
  PROVE  LockInv'
  <1> USE DEF LockInv
  <1>1. /\ lock[s] # Free
        /\ lock' = [lock EXCEPT ![s] = Free]
        /\ late' = (late \/ Running(lock[s]))
        /\ UNCHANGED <<pc, held, seen>>
    BY DEF LockExpires, local
  <1>2. Running(lock[s]) \in BOOLEAN
    BY DEF Running
  <1>3. LockTypes'
    BY <1>1, <1>2 DEF LockTypes
  <1>4. HeldIsOwned'
    <2> SUFFICES ASSUME ~late', NEW q \in Requests, pc[q] \in Owning, NEW t \in held[q]
                 PROVE  lock'[t] = q
      BY <1>1 DEF HeldIsOwned
    <2>1. lock[t] = q /\ t \in Skus
      BY <1>1 DEF HeldIsOwned, LockTypes
    <2>2. Running(q)
      BY DEF Running, Owning, Locking
    <2>3. t # s
      BY <1>1, <2>1, <2>2
    <2> QED
      BY <1>1, <2>1, <2>3 DEF LockTypes
  <1>5. NothingHeldBefore' /\ HeldIsTheCart'
    BY <1>1 DEF NothingHeldBefore, HeldIsTheCart, Ordering
  <1> QED
    BY <1>3, <1>4, <1>5

-----------------------------------------------------------------------------
LEMMA NextLockInv == LockInv /\ [Next]_vars => LockInv'
  <1> SUFFICES ASSUME LockInv, [Next]_vars PROVE LockInv'
    OBVIOUS
  <1>1. CASE UNCHANGED vars
    BY <1>1 DEF vars, stores, local, history, LockInv, LockTypes, HeldIsOwned, NothingHeldBefore,
          HeldIsTheCart, Ordering
  <1>2. ASSUME NEW r \in Requests, Serve(r) PROVE LockInv'
    BY <1>2, ReadStep, CartStep, CheckoutStep, LockStep, UnlockStep DEF Serve
  <1>3. ASSUME NEW r \in Requests, Fail(r) \/ Crash(r) PROVE LockInv'
    BY <1>3, FaultStep
  <1>4. ASSUME NEW s \in Skus, LockExpires(s) PROVE LockInv'
    BY <1>4, ExpiryStep
  <1> QED
    BY <1>1, <1>2, <1>3, <1>4 DEF Next

\* A checkout that is making its order holds the lock of every SKU in it, for
\* any number of checkouts and any crashes, unless one outlived its TTL.
THEOREM OrdersAreLocked == Spec => []LocksCoverTheOrder
  <1>1. LockInv => LocksCoverTheOrder
    <2> SUFFICES ASSUME LockInv, ~late, NEW r \in Requests, Ordering(r), NEW s \in InCart(seen[r])
                 PROVE  lock[s] = r
      BY DEF LocksCoverTheOrder
    <2>1. pc[r] \in Owning
      BY DEF Ordering, Owning, Locking
    <2> QED
      BY <2>1 DEF LockInv, HeldIsTheCart, HeldIsOwned
  <1> QED
    BY <1>1, InitLockInv, NextLockInv, PTL DEF Spec

-----------------------------------------------------------------------------
(* Types.  What a request writes to a cart is a quantity because the parts *)
(* of its job that it uses are there at the stages that use them.          *)

JobsFit ==
  \A r \in Requests :
    /\ Running(r) => job[r].cart \in Carts
    /\ pc[r] \in {"readItem", "writeItem"} => job[r].sku \in Skus /\ job[r].qty \in Nat
    /\ pc[r] \in {"readGuest", "readUser", "writeMerged", "delGuest"} => job[r].from \in Carts

TypeInv == TypeOK /\ JobsFit

LEMMA InitTypes == Init => TypeInv
  <1> SUFFICES ASSUME Init PROVE TypeInv
    OBVIOUS
  <1>1. NoItems \in Items
    BY DEF NoItems, Items
  <1>2. \A r \in Requests : pc[r] = "idle"
    BY DEF Init
  <1>3. pc \in [Requests -> Stages]
    BY DEF Init, Stages
  <1>4. job \in [Requests -> Job \union {NoJob}]
    BY DEF Init
  <1>5. /\ cart \in [Carts -> Items] /\ lock \in [Skus -> Requests \union {Free}]
        /\ held \in [Requests -> SUBSET Skus]
    BY CartsAssumption DEF Init
  <1>6. /\ seen \in [Requests -> Items] /\ seenGuest \in [Requests -> Items]
        /\ ordered \in [Requests -> Items]
    BY <1>1 DEF Init
  <1>7. collided \in BOOLEAN /\ late \in BOOLEAN
    BY DEF Init
  <1>8. faults \in 0..MaxFaults
    BY FaultsAssumption DEF Init
  <1> QED
    BY <1>2, <1>3, <1>4, <1>5, <1>6, <1>7, <1>8 DEF TypeInv, TypeOK, JobsFit, Running

\* A request arrives with all that its job needs.
LEMMA StartTypes ==
  ASSUME TypeInv, NEW r \in Requests,
         StartItem(r) \/ StartRemoval(r) \/ StartMerge(r) \/ StartCheckout(r)
  PROVE  TypeInv'
  <1>1. PICK j \in Job, l \in {"readItem", "remove", "readGuest", "readCart"} :
          /\ Start(r, j, l)
          /\ j.cart \in Carts
          /\ l = "readItem" => j.sku \in Skus /\ j.qty \in Nat
          /\ l = "readGuest" => j.from \in Carts
    <2>1. CASE StartItem(r)
      BY <2>1, QuantitiesAssumption DEF StartItem, Job
    <2>2. CASE StartRemoval(r)
      BY <2>2 DEF StartRemoval, Job
    <2>3. CASE StartMerge(r)
      BY <2>3 DEF StartMerge, Job, Carts
    <2>4. CASE StartCheckout(r)
      BY <2>4 DEF StartCheckout, Job, Carts
    <2> QED
      BY <2>1, <2>2, <2>3, <2>4
  <1>2. /\ job' = [job EXCEPT ![r] = j] /\ pc' = [pc EXCEPT ![r] = l]
        /\ UNCHANGED <<cart, lock, ordered, seen, seenGuest, held, late, faults>>
    BY <1>1 DEF Start, Goto, stores
  <1>3. collided' \in BOOLEAN
    BY <1>1 DEF Start, TypeInv, TypeOK
  <1>4. TypeOK'
    BY <1>2, <1>3 DEF TypeInv, TypeOK, Stages
  <1>5. JobsFit'
    BY <1>1, <1>2 DEF TypeInv, TypeOK, JobsFit, Running
  <1> QED
    BY <1>4, <1>5 DEF TypeInv

\* What is read of a cart is items.
LEMMA ReadTypes ==
  ASSUME TypeInv, NEW r \in Requests,
         ReadItem(r) \/ ReadGuest(r) \/ ReadUser(r) \/ ReadCart(r)
  PROVE  TypeInv'
  <1>1. CASE ReadItem(r)
    <2>1. TypeOK'
      BY <1>1 DEF ReadItem, stores, history, Goto, TypeInv, TypeOK, JobsFit, Running, Stages
    <2>2. JobsFit'
      BY <1>1 DEF ReadItem, Goto, TypeInv, JobsFit, Running
    <2> QED
      BY <2>1, <2>2 DEF TypeInv
  <1>2. CASE ReadGuest(r)
    <2>1. TypeOK'
      BY <1>2 DEF ReadGuest, stores, history, Goto, TypeInv, TypeOK, JobsFit, Stages
    <2>2. JobsFit'
      BY <1>2 DEF ReadGuest, Goto, TypeInv, JobsFit, Running
    <2> QED
      BY <2>1, <2>2 DEF TypeInv
  <1>3. CASE ReadUser(r)
    <2>1. TypeOK'
      BY <1>3 DEF ReadUser, stores, history, Goto, TypeInv, TypeOK, JobsFit, Running, Stages
    <2>2. JobsFit'
      BY <1>3 DEF ReadUser, Goto, TypeInv, JobsFit, Running
    <2> QED
      BY <2>1, <2>2 DEF TypeInv
  <1>4. CASE ReadCart(r)
    <2>1. TypeOK'
      BY <1>4 DEF ReadCart, stores, history, Goto, TypeInv, TypeOK, JobsFit, Running, Stages
    <2>2. JobsFit'
      BY <1>4 DEF ReadCart, Goto, TypeInv, JobsFit, Running
    <2> QED
      BY <2>1, <2>2 DEF TypeInv
  <1> QED
    BY <1>1, <1>2, <1>3, <1>4

\* What is written to one is items as well.
LEMMA WriteTypes ==
  ASSUME TypeInv, NEW r \in Requests,
         WriteItem(r) \/ Remove(r) \/ WriteMerged(r) \/ DelGuest(r) \/ ClearCart(r)
  PROVE  TypeInv'
  <1>1. CASE WriteItem(r)
    <2>1. job[r].cart \in Carts /\ job[r].sku \in Skus /\ job[r].qty \in Nat
      BY <1>1 DEF WriteItem, TypeInv, JobsFit, Running
    <2>2. NewQuantity(r) \in Nat
      <3>1. seen[r] \in [Skus -> Nat]
        BY DEF TypeInv, TypeOK, Items
      <3> QED
        BY <2>1, <3>1 DEF NewQuantity
    <2>3. cart' \in [Carts -> Items]
      <3>1. cart' = [cart EXCEPT ![job[r].cart] = [cart[job[r].cart] EXCEPT ![job[r].sku] = NewQuantity(r)]]
        BY <1>1 DEF WriteItem
      <3>2. [cart[job[r].cart] EXCEPT ![job[r].sku] = NewQuantity(r)] \in Items
        BY <2>1, <2>2 DEF TypeInv, TypeOK, Items
      <3> QED
        BY <3>1, <3>2 DEF TypeInv, TypeOK
    <2>4. TypeOK'
      BY <1>1, <2>3 DEF WriteItem, local, Goto, TypeInv, TypeOK, Stages
    <2>5. JobsFit'
      BY <1>1 DEF WriteItem, local, Goto, TypeInv, JobsFit, Running
    <2> QED
      BY <2>4, <2>5 DEF TypeInv
  <1>2. CASE Remove(r)
    <2>1. TypeOK'
      BY <1>2 DEF Remove, local, Gone, Goto, TypeInv, TypeOK, JobsFit, Running, Stages, Items
    <2>2. JobsFit'
      BY <1>2 DEF Remove, local, Goto, TypeInv, JobsFit, Running
    <2> QED
      BY <2>1, <2>2 DEF TypeInv
  <1>3. CASE WriteMerged(r)
    <2> DEFINE k == job[r].cart
               merged == [s \in Skus |-> Merged(r, k, s)]
    <2>1. merged \in Items
      <3>1. k \in Carts
        BY <1>3 DEF WriteMerged, TypeInv, JobsFit, Running
      <3>2. /\ cart[k] \in [Skus -> Nat] /\ seen[r] \in [Skus -> Nat]
            /\ seenGuest[r] \in [Skus -> Nat]
        BY <3>1 DEF TypeInv, TypeOK, Items
      <3> QED
        BY <3>2 DEF Merged, Items
    <2>2. cart' = [cart EXCEPT ![k] = merged]
      BY <1>3 DEF WriteMerged
    <2> HIDE DEF merged
    <2>3. TypeOK'
      <3>1. cart' \in [Carts -> Items]
        BY <2>1, <2>2 DEF TypeInv, TypeOK
      <3>2. pc' \in [Requests -> Stages]
        BY <1>3 DEF WriteMerged, Goto, TypeInv, TypeOK, Stages
      <3> QED
        BY <1>3, <3>1, <3>2 DEF WriteMerged, local, history, TypeInv, TypeOK
    <2>4. JobsFit'
      BY <1>3 DEF WriteMerged, local, Goto, TypeInv, JobsFit, Running
    <2> QED
      BY <2>3, <2>4 DEF TypeInv
  <1>4. CASE DelGuest(r)
    <2>1. TypeOK'
      BY <1>4 DEF DelGuest, local, history, NoItems, Goto, TypeInv, TypeOK, Stages, Items
    <2>2. JobsFit'
      BY <1>4 DEF DelGuest, local, Goto, TypeInv, JobsFit, Running
    <2> QED
      BY <2>1, <2>2 DEF TypeInv
  <1>5. CASE ClearCart(r)
    <2>1. TypeOK'
      BY <1>5 DEF ClearCart, local, history, NoItems, Goto, TypeInv, TypeOK, Stages, Items
    <2>2. JobsFit'
      BY <1>5 DEF ClearCart, local, Goto, TypeInv, JobsFit, Running
    <2> QED
      BY <2>1, <2>2 DEF TypeInv
  <1> QED
    BY <1>1, <1>2, <1>3, <1>4, <1>5

LEMMA CheckoutTypes ==
  ASSUME TypeInv, NEW r \in Requests,
         ValidateAddress(r) \/ Lock(r) \/ Locked(r) \/ CreateOrder(r) \/ InitializePayment(r) \/ Unlock(r)
  PROVE  TypeInv'
  <1>1. CASE ValidateAddress(r)
    <2>1. TypeOK'
      BY <1>1 DEF ValidateAddress, stores, local, history, Goto, TypeInv, TypeOK, Stages, Locking
    <2>2. JobsFit'
      BY <1>1 DEF ValidateAddress, local, Goto, TypeInv, TypeOK, JobsFit, Running
    <2> QED
      BY <2>1, <2>2 DEF TypeInv
  <1>2. CASE Lock(r)
    <2>1. lock' \in [Skus -> Requests \union {Free}] /\ held' \in [Requests -> SUBSET Skus]
      <3>1. CASE UNCHANGED <<lock, held>>
        BY <3>1 DEF TypeInv, TypeOK
      <3>2. ASSUME NEW s \in Skus, lock' = [lock EXCEPT ![s] = r],
                   held' = [held EXCEPT ![r] = held[r] \union {s}]
            PROVE  lock' \in [Skus -> Requests \union {Free}] /\ held' \in [Requests -> SUBSET Skus]
        BY <3>2 DEF TypeInv, TypeOK
      <3> QED
        BY <1>2, <3>1, <3>2 DEF Lock, InCart
    <2>2. pc' \in [Requests -> Stages]
      BY <1>2 DEF Lock, Goto, TypeInv, TypeOK, Stages
    <2>3. TypeOK'
      BY <1>2, <2>1, <2>2 DEF Lock, history, TypeInv, TypeOK
    <2>4. JobsFit'
      BY <1>2 DEF Lock, Goto, TypeInv, TypeOK, JobsFit, Running
    <2> QED
      BY <2>3, <2>4 DEF TypeInv
  <1>3. CASE Locked(r)
    <2>1. TypeOK'
      BY <1>3 DEF Locked, stores, local, history, Goto, TypeInv, TypeOK, Stages, Locking
    <2>2. JobsFit'
      BY <1>3 DEF Locked, local, Goto, TypeInv, JobsFit, Running
    <2> QED
      BY <2>1, <2>2 DEF TypeInv
  <1>4. CASE CreateOrder(r)
    <2>1. TypeOK'
      BY <1>4 DEF CreateOrder, local, history, Goto, TypeInv, TypeOK, Stages, Locking
    <2>2. JobsFit'
      BY <1>4 DEF CreateOrder, local, Goto, TypeInv, JobsFit, Running
    <2> QED
      BY <2>1, <2>2 DEF TypeInv
  <1>5. CASE InitializePayment(r)
    <2>1. TypeOK'
      BY <1>5 DEF InitializePayment, stores, local, history, Goto, TypeInv, TypeOK, Stages, Locking
    <2>2. JobsFit'
      BY <1>5 DEF InitializePayment, local, Goto, TypeInv, JobsFit, Running
    <2> QED
      BY <2>1, <2>2 DEF TypeInv
  <1>6. CASE Unlock(r)
    <2>1. lock' \in [Skus -> Requests \union {Free}] /\ held' \in [Requests -> SUBSET Skus]
      <3>1. CASE UNCHANGED <<lock, held>>
        BY <3>1 DEF TypeInv, TypeOK
      <3>2. ASSUME NEW s \in held[r], lock' = [lock EXCEPT ![s] = Free],
                   held' = [held EXCEPT ![r] = held[r] \ {s}]
            PROVE  lock' \in [Skus -> Requests \union {Free}] /\ held' \in [Requests -> SUBSET Skus]
        BY <3>2 DEF TypeInv, TypeOK
      <3> QED
        BY <1>6, <3>1, <3>2 DEF Unlock
    <2>2. pc' \in [Requests -> Stages]
      BY <1>6 DEF Unlock, Goto, TypeInv, TypeOK, Stages
    <2>3. TypeOK'
      BY <1>6, <2>1, <2>2 DEF Unlock, history, TypeInv, TypeOK
    <2>4. JobsFit'
      BY <1>6 DEF Unlock, Goto, TypeInv, TypeOK, JobsFit, Running
    <2> QED
      BY <2>3, <2>4 DEF TypeInv
  <1> QED
    BY <1>1, <1>2, <1>3, <1>4, <1>5, <1>6

LEMMA FaultTypes ==
  ASSUME TypeInv, NEW r \in Requests,
         Fail(r) \/ Crash(r)
  PROVE  TypeInv'
  <1>1. CASE Fail(r)
    <2>1. TypeOK'
      BY <1>1, FaultsAssumption DEF Fail, stores, local, history, Goto, TypeInv, TypeOK, Stages
    <2>2. JobsFit'
      BY <1>1 DEF Fail, local, Goto, TypeInv, JobsFit, Running
    <2> QED
      BY <2>1, <2>2 DEF TypeInv
  <1>2. CASE Crash(r)
    <2>1. TypeOK'
      BY <1>2, FaultsAssumption DEF Crash, stores, local, history, Goto, TypeInv, TypeOK, Stages
    <2>2. JobsFit'
      BY <1>2 DEF Crash, local, Goto, TypeInv, JobsFit, Running
    <2> QED
      BY <2>1, <2>2 DEF TypeInv
  <1> QED
    BY <1>1, <1>2

LEMMA NextTypes == TypeInv /\ [Next]_vars => TypeInv'
  <1> SUFFICES ASSUME TypeInv, [Next]_vars PROVE TypeInv'
    OBVIOUS
  <1>1. CASE UNCHANGED vars
    BY <1>1 DEF vars, stores, local, history, TypeInv, TypeOK, JobsFit, Running
  <1>2. ASSUME NEW r \in Requests, Serve(r) PROVE TypeInv'
    BY <1>2, StartTypes, ReadTypes, WriteTypes, CheckoutTypes DEF Serve
  <1>3. ASSUME NEW r \in Requests, Fail(r) \/ Crash(r) PROVE TypeInv'
    BY <1>3, FaultTypes
  <1>4. ASSUME NEW s \in Skus, LockExpires(s) PROVE TypeInv'
    BY <1>4 DEF LockExpires, local, TypeInv, TypeOK, JobsFit, Running
  <1> QED
    BY <1>1, <1>2, <1>3, <1>4 DEF Next

\* Carts and orders hold natural quantities and requests are where they can be,
\* whatever overlaps and whatever fails (cart.service.ts and initiateCheckout).
THEOREM TypeCorrect == Spec => []TypeOK
  <1>1. TypeInv => TypeOK
    BY DEF TypeInv
  <1> QED
    BY <1>1, InitTypes, NextTypes, PTL DEF Spec
-----------------------------------------------------------------------------
(* Nothing is lost and nothing is duplicated.  In between two writes of a  *)
(* merge or of a checkout the same items are in two places: in the guest's *)
(* cart and the user's, or in the order and the cart.  The cart that is    *)
(* about to be emptied counts for nothing from then on; the balance of     *)
(* what counts is what customers want, or more after a failure.            *)

Merging == {"readGuest", "readUser", "writeMerged", "delGuest"}
Unordered == {"idle", "readItem", "writeItem", "remove", "readCart", "address", "lock", "order"}
               \union Merging

\* Only merges are at the stages of a merge.
MergesFit ==
  \A r \in Requests :
    pc[r] \in Merging => job[r].op = "merge" /\ job[r].cart \in Users /\ job[r].from \in Guests

\* A request has no order before it makes one.
OrderedLater == \A r \in Requests : pc[r] \in Unordered => ordered[r] = NoItems

\* As long as nothing collided, requests work on carts of their own ...
Alone ==
  ~collided => \A q, r \in Requests :
    q # r /\ Running(q) /\ Running(r) => CartsOf(job[q]) \intersect CartsOf(job[r]) = {}

\* ... so that what they have read of them is what is there when they write.
ReadIsCurrent(r) ==
  /\ pc[r] \in {"writeItem", "writeMerged", "address", "lock", "order"} => seen[r] = cart[job[r].cart]
  /\ pc[r] \in {"readUser", "writeMerged"} => seenGuest[r] = cart[job[r].from]
ReadsAreCurrent == ~collided => \A r \in Requests : ReadIsCurrent(r)

\* The items of cart k are elsewhere as well, and r is about to empty it.
Doubles(r, k) == \/ pc[r] = "delGuest" /\ job[r].from = k
                 \/ pc[r] \in {"pay", "clear"} /\ job[r].cart = k
Doubled(k) == \E r \in Requests : Doubles(r, k)

Worth(k, s) == IF Doubled(k) THEN 0 ELSE cart[k][s]
InCarts(s) == [k \in Carts |-> Worth(k, s)]
InOrders(s) == [r \in Requests |-> ordered[r][s]]
Balance(s) == SumFunction(InCarts(s)) + SumFunction(InOrders(s))

Balanced ==
  /\ wanted \in [Skus -> Int]
  /\ ~collided => \A s \in Skus : Balance(s) >= wanted[s] /\ (faults = 0 => Balance(s) = wanted[s])

Orderly == TypeInv /\ MergesFit /\ OrderedLater /\ Alone /\ ReadsAreCurrent
BalanceInv == Orderly /\ Balanced

\* What is summed up are quantities.
Summable ==
  \A s \in Skus :
    /\ InCarts(s) \in [Carts -> Int] /\ InOrders(s) \in [Requests -> Int]
    /\ SumFunction(InCarts(s)) \in Int /\ SumFunction(InOrders(s)) \in Int
    /\ \A k \in Carts : Worth(k, s) \in Nat /\ cart[k][s] \in Nat /\ InCarts(s)[k] = Worth(k, s)
    /\ \A r \in Requests : ordered[r][s] \in Nat /\ InOrders(s)[r] = ordered[r][s]

LEMMA TypesSum == TypeOK => Summable
  <1> SUFFICES ASSUME TypeOK, NEW s \in Skus
               PROVE  /\ InCarts(s) \in [Carts -> Int] /\ InOrders(s) \in [Requests -> Int]
                      /\ SumFunction(InCarts(s)) \in Int /\ SumFunction(InOrders(s)) \in Int
                      /\ \A k \in Carts : /\ Worth(k, s) \in Nat /\ cart[k][s] \in Nat
                                          /\ InCarts(s)[k] = Worth(k, s)
                      /\ \A r \in Requests : /\ ordered[r][s] \in Nat
                                             /\ InOrders(s)[r] = ordered[r][s]
    BY DEF Summable
  <1>1. \A k \in Carts : Worth(k, s) \in Nat /\ cart[k][s] \in Nat
    BY DEF TypeOK, Items, Worth
  <1>2. \A r \in Requests : ordered[r][s] \in Nat
    BY DEF TypeOK, Items
  <1>3. InCarts(s) \in [Carts -> Int] /\ InOrders(s) \in [Requests -> Int]
    BY <1>1, <1>2 DEF InCarts, InOrders
  <1>4. SumFunction(InCarts(s)) \in Int /\ SumFunction(InOrders(s)) \in Int
    BY <1>3, SumType, FiniteAssumption
  <1>5. /\ \A k \in Carts : InCarts(s)[k] = Worth(k, s)
        /\ \A r \in Requests : InOrders(s)[r] = ordered[r][s]
    BY DEF InCarts, InOrders
  <1> QED
    BY <1>1, <1>2, <1>3, <1>4, <1>5

LEMMA TypesSumNext == TypeOK' => Summable'
  BY TypesSum, PTL

\* A step that changes what one cart and one order are worth.
LEMMA BalanceMoves ==
  ASSUME TypeOK, TypeOK', NEW s \in Skus, NEW k \in Carts, NEW r \in Requests,
         \A l \in Carts \ {k} : Worth(l, s)' = Worth(l, s),
         \A q \in Requests \ {r} : ordered'[q] = ordered[q]
  PROVE  Balance(s)' = Balance(s) + (Worth(k, s)' - Worth(k, s)) + (ordered'[r][s] - ordered[r][s])
  <1>1. PICK f, g, f2, g2 : f = InCarts(s) /\ g = InOrders(s) /\ f2 = InCarts(s)' /\ g2 = InOrders(s)'
    OBVIOUS
  <1>2. /\ f \in [Carts -> Int] /\ f2 \in [Carts -> Int]
        /\ g \in [Requests -> Int] /\ g2 \in [Requests -> Int]
        /\ SumFunction(f) \in Int /\ SumFunction(g) \in Int
        /\ \A l \in Carts : f[l] = Worth(l, s) /\ f2[l] = Worth(l, s)'
        /\ \A q \in Requests : g[q] = ordered[q][s] /\ g2[q] = ordered'[q][s]
    BY <1>1, TypesSum, TypesSumNext DEF Summable
  <1>3. SumFunction(f2) = SumFunction(f) + f2[k] - f[k]
    BY <1>2, SumChanges, FiniteAssumption
  <1>4. SumFunction(g2) = SumFunction(g) + g2[r] - g[r]
    BY <1>2, SumChanges, FiniteAssumption
  <1>5. f[k] \in Int /\ f2[k] \in Int /\ g[r] \in Int /\ g2[r] \in Int
    BY <1>2
  <1>6. Balance(s) = SumFunction(f) + SumFunction(g) /\ Balance(s)' = SumFunction(f2) + SumFunction(g2)
    BY <1>1 DEF Balance
  <1> QED
    BY <1>2, <1>3, <1>4, <1>5, <1>6

\* A step that moves something from one cart to another.
LEMMA BalanceShifts ==
  ASSUME TypeOK, TypeOK', NEW s \in Skus, NEW k \in Carts, NEW m \in Carts \ {k},
         \A l \in Carts \ {k, m} : Worth(l, s)' = Worth(l, s), ordered' = ordered
  PROVE  Balance(s)' = Balance(s) + (Worth(k, s)' - Worth(k, s)) + (Worth(m, s)' - Worth(m, s))
  <1>1. PICK f, f2 : f = InCarts(s) /\ f2 = InCarts(s)'
    OBVIOUS
  <1>2. /\ f \in [Carts -> Int] /\ f2 \in [Carts -> Int] /\ SumFunction(f) \in Int
        /\ SumFunction(InOrders(s)) \in Int
        /\ \A l \in Carts : f[l] = Worth(l, s) /\ f2[l] = Worth(l, s)'
    BY <1>1, TypesSum, TypesSumNext DEF Summable
  <1>3. PICK h : h = [f EXCEPT ![k] = f2[k]]
    OBVIOUS
  <1>4. /\ h \in [Carts -> Int] /\ h[k] = f2[k] /\ \A l \in Carts \ {k} : h[l] = f[l]
    BY <1>2, <1>3
  <1>5. SumFunction(h) = SumFunction(f) + h[k] - f[k]
    BY <1>2, <1>4, SumChanges, FiniteAssumption
  <1>6. \A l \in Carts \ {m} : f2[l] = h[l]
    BY <1>2, <1>4
  <1>7. SumFunction(f2) = SumFunction(h) + f2[m] - h[m]
    BY <1>2, <1>4, <1>6, SumChanges, FiniteAssumption
  <1>8. f[k] \in Int /\ f2[k] \in Int /\ f[m] \in Int /\ f2[m] \in Int /\ h[m] = f[m]
    BY <1>2, <1>4
  <1>9. InOrders(s)' = InOrders(s)
    BY DEF InOrders
  <1>10. /\ Balance(s) = SumFunction(f) + SumFunction(InOrders(s))
         /\ Balance(s)' = SumFunction(f2) + SumFunction(InOrders(s))
    BY <1>1, <1>9 DEF Balance
  <1> QED
    BY <1>2, <1>4, <1>5, <1>7, <1>8, <1>10

\* A step that changes nothing of what counts.
LEMMA BalanceRests ==
  ASSUME Balanced, UNCHANGED <<ordered, wanted, faults>>, collided => collided',
         \A k \in Carts, s \in Skus : Worth(k, s)' = Worth(k, s)
  PROVE  Balanced'
  <1>1. ASSUME NEW s \in Skus PROVE Balance(s)' = Balance(s)
    <2>1. InCarts(s)' = InCarts(s) /\ InOrders(s)' = InOrders(s)
      BY DEF InCarts, InOrders
    <2> QED
      BY <2>1 DEF Balance
  <1> QED
    BY <1>1 DEF Balanced

-----------------------------------------------------------------------------
(* Requests keep out of each other's way. *)

\* Whoever doubles a cart works on it.
LEMMA DoublersWork ==
  ASSUME MergesFit, NEW r \in Requests, NEW k, Doubles(r, k)
  PROVE  Running(r) /\ k \in CartsOf(job[r])
  BY DEF MergesFit, Merging, Doubles, Running, CartsOf

\* While r works on k, no other request doubles it.
LEMMA SoleDoubler ==
  ASSUME MergesFit, Alone, ~collided, NEW r \in Requests, Running(r), NEW k \in CartsOf(job[r]),
         Doubled(k)
  PROVE  Doubles(r, k)
  <1>1. PICK q \in Requests : Doubles(q, k)
    BY DEF Doubled
  <1>2. Running(q) /\ k \in CartsOf(job[q])
    BY <1>1, DoublersWork
  <1> QED
    BY <1>1, <1>2 DEF Alone

\* What a step of r leaves alone, unless it is its first.
StepOf(r, l) ==
  /\ Running(r) /\ l \in Stages \ {"idle"}
  /\ pc' = [pc EXCEPT ![r] = l]
  /\ UNCHANGED <<job, collided>>
  /\ l \in Merging => pc[r] \in Merging
  /\ \A q \in Requests \ {r} : /\ seen'[q] = seen[q] /\ seenGuest'[q] = seenGuest[q]
                               /\ ordered'[q] = ordered[q]
  /\ \A k \in Carts \ CartsOf(job[r]) : cart'[k] = cart[k]

LEMMA OrderlyStep ==
  ASSUME Orderly, TypeInv', NEW r \in Requests, NEW l, StepOf(r, l),
         l \in Unordered => ordered'[r] = NoItems,
         ~collided => ReadIsCurrent(r)'
  PROVE  Orderly'
  <1>1. /\ pc'[r] = l /\ Running(r)
        /\ \A q \in Requests \ {r} : pc'[q] = pc[q]
        /\ \A q \in Requests : job'[q] = job[q]
        /\ collided' = collided
    BY DEF StepOf, Orderly, TypeInv, TypeOK
  <1>2. MergesFit'
    BY <1>1 DEF StepOf, Orderly, MergesFit
  <1>3. OrderedLater'
    BY <1>1 DEF StepOf, Orderly, OrderedLater
  <1>4. Alone'
    <2>1. \A q \in Requests : (Running(q)' => Running(q)) /\ CartsOf(job[q])' = CartsOf(job[q])
      BY <1>1 DEF Running, CartsOf
    <2> QED
      BY <1>1, <2>1 DEF Orderly, Alone
  <1>5. ReadsAreCurrent'
    <2> SUFFICES ASSUME ~collided, NEW q \in Requests PROVE ReadIsCurrent(q)'
      BY <1>1 DEF ReadsAreCurrent
    <2>1. CASE q = r
      BY <2>1
    <2>2. CASE q # r
      <3>1. ReadIsCurrent(q) /\ pc'[q] = pc[q] /\ job'[q] = job[q]
            /\ seen'[q] = seen[q] /\ seenGuest'[q] = seenGuest[q]
        BY <1>1, <2>2 DEF StepOf, Orderly, ReadsAreCurrent
      <3>2. Running(q) => /\ job[q].cart \in Carts \ CartsOf(job[r])
                          /\ pc[q] \in Merging => job[q].from \in Carts \ CartsOf(job[r])
        <4>1. Running(q) => CartsOf(job[q]) \intersect CartsOf(job[r]) = {}
          BY <1>1, <2>2 DEF Orderly, Alone
        <4>2. job[q].cart \in CartsOf(job[q]) /\ (pc[q] \in Merging => job[q].from \in CartsOf(job[q]))
          BY DEF CartsOf, Orderly, MergesFit
        <4> QED
          BY <4>1, <4>2 DEF Orderly, TypeInv, JobsFit, MergesFit, Carts
      <3> QED
        BY <3>1, <3>2 DEF StepOf, ReadIsCurrent, Running, Merging
    <2> QED
      BY <2>1, <2>2
  <1> QED
    BY <1>2, <1>3, <1>4, <1>5 DEF Orderly

\* What is doubled after a step of r: what was, but for what r has to say of it.
LEMMA DoubledNext ==
  ASSUME Orderly, NEW r \in Requests, NEW l, StepOf(r, l), NEW k,
         l = "delGuest" => k # job[r].from,
         l \in {"pay", "clear"} => k # job[r].cart
  PROVE  Doubled(k)' <=> \E q \in Requests \ {r} : Doubles(q, k)
  <1>1. /\ pc'[r] = l
        /\ \A q \in Requests \ {r} : pc'[q] = pc[q]
        /\ \A q \in Requests : job'[q] = job[q]
    BY DEF StepOf, Orderly, TypeInv, TypeOK
  <1>2. ~Doubles(r, k)'
    BY <1>1 DEF Doubles
  <1>3. \A q \in Requests \ {r} : Doubles(q, k)' <=> Doubles(q, k)
    BY <1>1 DEF Doubles
  <1> QED
    BY <1>2, <1>3 DEF Doubled

\* A step that neither begins nor ends a doubling.
LEMMA SameDoubled ==
  ASSUME Orderly, NEW r \in Requests, NEW l, StepOf(r, l), NEW k,
         pc[r] = "delGuest" => k # job[r].from,
         pc[r] \in {"pay", "clear"} => k # job[r].cart,
         l = "delGuest" => k # job[r].from,
         l \in {"pay", "clear"} => k # job[r].cart
  PROVE  Doubled(k)' = Doubled(k)
  <1>1. ~Doubles(r, k)
    BY DEF Doubles
  <1> QED
    BY <1>1, DoubledNext DEF Doubled

-----------------------------------------------------------------------------
(* The steps that write no cart and no order. *)

LEMMA StartBalance ==
  ASSUME BalanceInv, TypeInv', NEW r \in Requests,
         StartItem(r) \/ StartRemoval(r) \/ StartMerge(r) \/ StartCheckout(r)
  PROVE  BalanceInv'
  <1>1. PICK j \in Job, l \in {"readItem", "remove", "readGuest", "readCart"} :
          /\ Start(r, j, l)
          /\ l = "readGuest" => j.op = "merge" /\ j.cart \in Users /\ j.from \in Guests
    <2>1. CASE StartItem(r)
      BY <2>1 DEF StartItem, Job
    <2>2. CASE StartRemoval(r)
      BY <2>2 DEF StartRemoval, Job
    <2>3. CASE StartMerge(r)
      BY <2>3 DEF StartMerge, Job
    <2>4. CASE StartCheckout(r)
      BY <2>4 DEF StartCheckout, Job
    <2> QED
      BY <2>1, <2>2, <2>3, <2>4
  <1>2. /\ pc[r] = "idle" /\ pc'[r] = l /\ job'[r] = j
        /\ \A q \in Requests \ {r} : pc'[q] = pc[q] /\ job'[q] = job[q]
        /\ UNCHANGED <<cart, ordered, seen, seenGuest, wanted, faults>>
        /\ collided => collided'
        /\ ~collided' => \A q \in Requests : Running(q) => CartsOf(job[q]) \intersect CartsOf(j) = {}
    BY <1>1 DEF Start, Goto, stores, BalanceInv, Orderly, TypeInv, TypeOK
  <1>3. MergesFit'
    BY <1>2, <1>1 DEF BalanceInv, Orderly, MergesFit, Merging
  <1>4. OrderedLater'
    BY <1>2 DEF BalanceInv, Orderly, OrderedLater, Unordered
  <1>5. Alone'
    <2> SUFFICES ASSUME ~collided', NEW p \in Requests, NEW q \in Requests, p # q,
                        Running(p)', Running(q)'
                 PROVE  CartsOf(job'[p]) \intersect CartsOf(job'[q]) = {}
      BY DEF Alone, CartsOf
    <2>1. CASE p # r /\ q # r
      BY <1>2, <2>1 DEF BalanceInv, Orderly, Alone, Running
    <2>2. CASE p = r
      <3>1. Running(q) /\ CartsOf(job'[q]) = CartsOf(job[q]) /\ CartsOf(job'[p]) = CartsOf(j)
        BY <1>2, <2>2 DEF Running
      <3> QED
        BY <1>2, <3>1
    <2>3. CASE q = r
      <3>1. Running(p) /\ CartsOf(job'[p]) = CartsOf(job[p]) /\ CartsOf(job'[q]) = CartsOf(j)
        BY <1>2, <2>3 DEF Running
      <3> QED
        BY <1>2, <3>1
    <2> QED
      BY <2>1, <2>2, <2>3
  <1>6. ReadsAreCurrent'
    BY <1>2 DEF BalanceInv, Orderly, ReadsAreCurrent, ReadIsCurrent
  <1>7. \A k : Doubled(k)' = Doubled(k)
    BY <1>2 DEF Doubled, Doubles
  <1>8. \A k \in Carts, s \in Skus : Worth(k, s)' = Worth(k, s)
    BY <1>2, <1>7 DEF Worth
  <1>9. Balanced'
    BY <1>2, <1>8, BalanceRests DEF BalanceInv
  <1> QED
    BY <1>3, <1>4, <1>5, <1>6, <1>9 DEF BalanceInv, Orderly

\* A step that reads, locks, or goes on.
LEMMA QuietStep ==
  ASSUME BalanceInv, TypeInv', NEW r \in Requests, NEW l, StepOf(r, l),
         UNCHANGED <<cart, ordered, wanted, faults>>,
         pc[r] = "delGuest" <=> l = "delGuest",
         pc[r] \in {"pay", "clear"} <=> l \in {"pay", "clear"},
         l \in Unordered => pc[r] \in Unordered,
         ~collided => ReadIsCurrent(r)'
  PROVE  BalanceInv'
  <1>1. Orderly'
    BY OrderlyStep DEF BalanceInv, Orderly, OrderedLater
  <1>2. /\ pc'[r] = l
        /\ \A q \in Requests \ {r} : pc'[q] = pc[q]
        /\ \A q \in Requests : job'[q] = job[q]
        /\ collided' = collided
    BY DEF StepOf, BalanceInv, Orderly, TypeInv, TypeOK
  <1>3. \A k : Doubled(k)' = Doubled(k)
    BY <1>2 DEF Doubled, Doubles
  <1>4. \A k \in Carts, s \in Skus : Worth(k, s)' = Worth(k, s)
    BY <1>3 DEF Worth
  <1>5. Balanced'
    BY <1>2, <1>4, BalanceRests DEF BalanceInv
  <1> QED
    BY <1>1, <1>5 DEF BalanceInv

LEMMA ReadBalance ==
  ASSUME BalanceInv, TypeInv', NEW r \in Requests,
         ReadItem(r) \/ ReadGuest(r) \/ ReadUser(r) \/ ReadCart(r)
  PROVE  BalanceInv'
  <1>1. TypeOK
    BY DEF BalanceInv, Orderly, TypeInv
  <1>2. CASE ReadItem(r)
    <2>1. PICK l \in {"writeItem", "done"} : Goto(r, l)
      BY <1>2 DEF ReadItem
    <2>2. StepOf(r, l)
      BY <1>1, <1>2, <2>1 DEF ReadItem, StepOf, stores, history, Goto, Running, TypeOK, Stages, Merging
    <2>3. ReadIsCurrent(r)'
      BY <1>1, <1>2, <2>1 DEF ReadItem, stores, Goto, TypeOK, ReadIsCurrent
    <2> QED
      BY <1>2, <2>1, <2>2, <2>3, QuietStep DEF ReadItem, stores, history, Unordered
  <1>3. CASE ReadGuest(r)
    <2>1. StepOf(r, "readUser")
      BY <1>1, <1>3 DEF ReadGuest, StepOf, stores, history, Goto, Running, TypeOK, Stages, Merging
    <2>2. ReadIsCurrent(r)'
      BY <1>1, <1>3 DEF ReadGuest, stores, Goto, TypeOK, ReadIsCurrent
    <2> QED
      BY <1>3, <2>1, <2>2, QuietStep DEF ReadGuest, stores, history, Unordered, Merging
  <1>4. CASE ReadUser(r)
    <2>1. PICK l \in {"writeMerged", "done"} : Goto(r, l)
      BY <1>4 DEF ReadUser
    <2>2. StepOf(r, l)
      BY <1>1, <1>4, <2>1 DEF ReadUser, StepOf, stores, history, Goto, Running, TypeOK, Stages, Merging
    <2>3. ~collided => ReadIsCurrent(r)'
      BY <1>1, <1>4, <2>1 DEF ReadUser, stores, Goto, TypeOK, ReadIsCurrent, BalanceInv, Orderly,
            ReadsAreCurrent
    <2> QED
      BY <1>4, <2>1, <2>2, <2>3, QuietStep DEF ReadUser, stores, history, Unordered, Merging
  <1>5. CASE ReadCart(r)
    <2>1. PICK l \in {"address", "done"} : Goto(r, l)
      BY <1>5 DEF ReadCart
    <2>2. StepOf(r, l)
      BY <1>1, <1>5, <2>1 DEF ReadCart, StepOf, stores, history, Goto, Running, TypeOK, Stages, Merging
    <2>3. ReadIsCurrent(r)'
      BY <1>1, <1>5, <2>1 DEF ReadCart, stores, Goto, TypeOK, ReadIsCurrent
    <2> QED
      BY <1>5, <2>1, <2>2, <2>3, QuietStep DEF ReadCart, stores, history, Unordered
  <1> QED
    BY <1>2, <1>3, <1>4, <1>5

LEMMA LockingBalance ==
  ASSUME BalanceInv, TypeInv', NEW r \in Requests,
         ValidateAddress(r) \/ Lock(r) \/ Locked(r) \/ InitializePayment(r) \/ Unlock(r)
  PROVE  BalanceInv'
  <1>1. TypeOK
    BY DEF BalanceInv, Orderly, TypeInv
  <1>2. /\ UNCHANGED <<cart, ordered, job, seen, seenGuest, wanted, collided, faults>>
        /\ pc[r] \in {"address", "lock", "pay", "unlock"}
    BY DEF ValidateAddress, Lock, Locked, InitializePayment, Unlock, stores, local, history
  <1>3. PICK l \in {"lock", "order", "clear", "unlock", "done"} :
          /\ pc' = [pc EXCEPT ![r] = l]
          /\ l \in {"lock", "order"} => pc[r] \in {"address", "lock"}
          /\ pc[r] = "pay" <=> l = "clear"
    <2>1. CASE UNCHANGED pc /\ pc[r] \in {"lock", "unlock"}
      <3>1. pc' = [pc EXCEPT ![r] = pc[r]]
        BY <1>1, <2>1 DEF TypeOK
      <3> QED
        BY <2>1, <3>1
    <2>2. CASE ValidateAddress(r)
      BY <2>2 DEF ValidateAddress, Goto
    <2>3. CASE Locked(r)
      BY <2>3 DEF Locked, Goto
    <2>4. CASE InitializePayment(r)
      BY <2>4 DEF InitializePayment, Goto
    <2>5. CASE Lock(r)
      BY <2>1, <2>5 DEF Lock, Goto
    <2>6. CASE Unlock(r)
      BY <2>1, <2>6 DEF Unlock, Goto
    <2> QED
      BY <2>2, <2>3, <2>4, <2>5, <2>6
  <1>4. StepOf(r, l)
    BY <1>2, <1>3 DEF StepOf, Running, Stages, Locking, Merging
  <1>5. ~collided => ReadIsCurrent(r)'
    <2>1. pc'[r] = l
      BY <1>1, <1>3 DEF TypeOK
    <2> QED
      BY <1>2, <1>3, <2>1 DEF ReadIsCurrent, BalanceInv, Orderly, ReadsAreCurrent
  <1>6. /\ pc[r] # "delGuest" /\ l # "delGuest"
        /\ pc[r] \in {"pay", "clear"} <=> l \in {"pay", "clear"}
        /\ l \in Unordered => pc[r] \in Unordered
    BY <1>2, <1>3 DEF Unordered, Merging
  <1> QED
    BY <1>2, <1>4, <1>5, <1>6, QuietStep

-----------------------------------------------------------------------------
(* The steps that write. *)

\* What is in the cart of a request counts, unless the request itself doubles it.
LEMMA NotDoubled ==
  ASSUME Orderly, ~collided, NEW r \in Requests, Running(r), NEW k \in CartsOf(job[r]),
         ~Doubles(r, k)
  PROVE  ~Doubled(k)
  <1>1. MergesFit /\ Alone
    BY DEF Orderly
  <1> QED
    BY <1>1, SoleDoubler

\* The balance changes as what is wanted does.
LEMMA BalanceKept ==
  ASSUME TypeOK, Balanced, wanted' \in [Skus -> Int], UNCHANGED <<collided, faults>>,
         ~collided => \A t \in Skus : Balance(t)' = Balance(t) + (wanted'[t] - wanted[t])
  PROVE  Balanced'
  <1> SUFFICES ASSUME ~collided, NEW t \in Skus
               PROVE  Balance(t)' >= wanted'[t] /\ (faults = 0 => Balance(t)' = wanted'[t])
    BY DEF Balanced
  <1>1. Balance(t) >= wanted[t] /\ (faults = 0 => Balance(t) = wanted[t])
    BY DEF Balanced
  <1>2. Balance(t) \in Int /\ wanted[t] \in Int /\ wanted'[t] \in Int
    BY TypesSum DEF Summable, Balance, Balanced
  <1> QED
    BY <1>1, <1>2

\* hset of an item: the cart and what is wanted change alike.
LEMMA WriteItemBalance ==
  ASSUME BalanceInv, TypeInv', NEW r \in Requests, WriteItem(r)
  PROVE  BalanceInv'
  <1>1. TypeOK /\ TypeOK' /\ Running(r)
    BY DEF BalanceInv, Orderly, TypeInv, WriteItem, Running
  <1>a. PICK k, s : k = job[r].cart /\ s = job[r].sku
    OBVIOUS
  <1>2. k \in Carts /\ s \in Skus /\ NewQuantity(r) \in Nat
    <2>1. k \in Carts /\ s \in Skus /\ job[r].qty \in Nat /\ seen[r] \in [Skus -> Nat]
      BY <1>a, <1>1 DEF WriteItem, BalanceInv, Orderly, TypeInv, JobsFit, TypeOK, Items
    <2> QED
      BY <1>a, <2>1 DEF NewQuantity
  <1>3. /\ cart' = [cart EXCEPT ![k] = [cart[k] EXCEPT ![s] = NewQuantity(r)]]
        /\ wanted' = [wanted EXCEPT ![s] = wanted[s] + NewQuantity(r) - seen[r][s]]
        /\ pc[r] = "writeItem" /\ pc' = [pc EXCEPT ![r] = "done"]
        /\ UNCHANGED <<ordered, job, seen, seenGuest, collided, faults>>
    BY <1>a DEF WriteItem, Goto, local
  <1>4. /\ cart'[k][s] = NewQuantity(r)
        /\ \A t \in Skus \ {s} : cart'[k][t] = cart[k][t]
        /\ \A m \in Carts \ {k} : cart'[m] = cart[m]
    BY <1>1, <1>2, <1>3 DEF TypeOK, Items
  <1>5. k \in CartsOf(job[r])
    BY <1>a DEF CartsOf
  <1>6. StepOf(r, "done")
    BY <1>1, <1>3, <1>4, <1>5 DEF StepOf, Stages, Merging
  <1>7. Orderly'
    <2>1. ReadIsCurrent(r)'
      BY <1>1, <1>3 DEF ReadIsCurrent, TypeOK
    <2> QED
      BY <1>6, <2>1, OrderlyStep DEF BalanceInv, Unordered, Merging
  <1>8. \A m : Doubled(m)' = Doubled(m)
    BY <1>3, <1>6, SameDoubled DEF BalanceInv
  <1>9. wanted' \in [Skus -> Int]
    <2>1. wanted[s] + NewQuantity(r) - seen[r][s] \in Int
      BY <1>1, <1>2 DEF BalanceInv, Balanced, TypeOK, Items
    <2> QED
      BY <1>3, <2>1 DEF BalanceInv, Balanced
  <1>10. ASSUME ~collided, NEW t \in Skus
         PROVE  Balance(t)' = Balance(t) + (wanted'[t] - wanted[t])
    <2>1. ~Doubled(k) /\ ~Doubled(k)'
      <3>1. ~Doubles(r, k)
        BY <1>3 DEF Doubles
      <3>2. ~Doubled(k)
        BY <1>1, <1>5, <1>10, <3>1, NotDoubled DEF BalanceInv
      <3> QED
        BY <1>8, <3>2
    <2>2. /\ Worth(k, t) = cart[k][t] /\ Worth(k, t)' = cart'[k][t]
          /\ \A m \in Carts \ {k} : Worth(m, t)' = Worth(m, t)
      BY <1>4, <1>8, <2>1 DEF Worth
    <2>3. Balance(t)' = Balance(t) + (cart'[k][t] - cart[k][t]) + (ordered'[r][t] - ordered[r][t])
      BY <1>1, <1>2, <1>3, <2>2, BalanceMoves
    <2>4. seen[r] = cart[k]
      BY <1>a, <1>3, <1>10 DEF BalanceInv, Orderly, ReadsAreCurrent, ReadIsCurrent
    <2>5. wanted'[t] - wanted[t] = cart'[k][t] - cart[k][t]
      <3>1. wanted[t] \in Int /\ cart[k][t] \in Int
        BY <1>1, <1>2 DEF BalanceInv, Balanced, TypeOK, Items
      <3>2. CASE t = s
        <4>1. wanted'[t] = wanted[t] + NewQuantity(r) - cart[k][t]
          BY <1>3, <2>4, <3>2 DEF BalanceInv, Balanced
        <4> QED
          BY <1>2, <1>4, <3>1, <3>2, <4>1
      <3>3. CASE t # s
        BY <1>3, <1>4, <3>1, <3>3 DEF BalanceInv, Balanced
      <3> QED
        BY <3>2, <3>3
    <2>6. ordered[r][t] \in Nat /\ Balance(t) \in Int
      BY <1>1, TypesSum DEF Summable, Balance
    <2>7. cart[k][t] \in Int /\ cart'[k][t] \in Int
      BY <1>1, <1>2 DEF TypeOK, Items
    <2> QED
      BY <1>3, <2>3, <2>5, <2>6, <2>7
  <1>11. Balanced'
    BY <1>1, <1>3, <1>9, <1>10, BalanceKept DEF BalanceInv
  <1> QED
    BY <1>7, <1>11 DEF BalanceInv

\* hdel and del: what goes was in the cart.
LEMMA RemoveBalance ==
  ASSUME BalanceInv, TypeInv', NEW r \in Requests, Remove(r)
  PROVE  BalanceInv'
  <1>a. PICK k : k = job[r].cart
    OBVIOUS
  <1>1. TypeOK /\ TypeOK' /\ Running(r) /\ k \in Carts /\ k \in CartsOf(job[r])
    BY <1>a DEF BalanceInv, Orderly, TypeInv, JobsFit, Remove, Running, CartsOf
  <1>2. /\ cart' = [cart EXCEPT ![k] = [s \in Skus |-> cart[k][s] - Gone(r, s)]]
        /\ wanted' = [s \in Skus |-> wanted[s] - Gone(r, s)]
        /\ pc[r] = "remove" /\ pc' = [pc EXCEPT ![r] = "done"]
        /\ UNCHANGED <<ordered, job, seen, seenGuest, collided, faults>>
    BY <1>a DEF Remove, Goto, local
  <1>3. /\ \A s \in Skus : cart'[k][s] = cart[k][s] - Gone(r, s)
        /\ \A m \in Carts \ {k} : cart'[m] = cart[m]
    BY <1>1, <1>2 DEF TypeOK
  <1>4. \A s \in Skus : /\ cart[k][s] \in Int /\ Gone(r, s) \in Int /\ wanted[s] \in Int
                        /\ ordered[r][s] \in Int /\ Balance(s) \in Int
    <2>1. ASSUME NEW s \in Skus PROVE cart[k][s] \in Int /\ Gone(r, s) \in Int /\ ordered[r][s] \in Int
      BY <1>a, <1>1 DEF TypeOK, Items, Gone
    <2> QED
      BY <1>1, <2>1, TypesSum DEF Summable, Balance, BalanceInv, Balanced
  <1>5. StepOf(r, "done")
    BY <1>1, <1>2, <1>3 DEF StepOf, Stages, Merging
  <1>6. Orderly'
    <2>1. ReadIsCurrent(r)'
      BY <1>1, <1>2 DEF ReadIsCurrent, TypeOK
    <2> QED
      BY <1>5, <2>1, OrderlyStep DEF BalanceInv, Unordered, Merging
  <1>7. \A m : Doubled(m)' = Doubled(m)
    BY <1>2, <1>5, SameDoubled DEF BalanceInv
  <1>8. ASSUME ~collided, NEW t \in Skus
        PROVE  Balance(t)' = Balance(t) + (wanted'[t] - wanted[t])
    <2>1. ~Doubled(k) /\ ~Doubled(k)'
      <3>1. ~Doubles(r, k)
        BY <1>2 DEF Doubles
      <3>2. ~Doubled(k)
        BY <1>1, <1>8, <3>1, NotDoubled DEF BalanceInv
      <3> QED
        BY <1>7, <3>2
    <2>2. /\ Worth(k, t) = cart[k][t] /\ Worth(k, t)' = cart'[k][t]
          /\ \A m \in Carts \ {k} : Worth(m, t)' = Worth(m, t)
      BY <1>3, <1>7, <2>1 DEF Worth
    <2>3. Balance(t)' = Balance(t) + (cart'[k][t] - cart[k][t]) + (ordered'[r][t] - ordered[r][t])
      BY <1>1, <1>2, <2>2, BalanceMoves
    <2>4. wanted'[t] = wanted[t] - Gone(r, t) /\ cart'[k][t] = cart[k][t] - Gone(r, t)
      BY <1>2, <1>3
    <2> QED
      BY <1>2, <1>4, <2>3, <2>4
  <1>9. wanted' \in [Skus -> Int]
    BY <1>2, <1>4
  <1>10. Balanced'
    BY <1>1, <1>2, <1>8, <1>9, BalanceKept DEF BalanceInv
  <1> QED
    BY <1>6, <1>10 DEF BalanceInv

\* The guest's items come to the user's cart, and the guest's cart counts no more.
LEMMA WriteMergedBalance ==
  ASSUME BalanceInv, TypeInv', NEW r \in Requests, WriteMerged(r)
  PROVE  BalanceInv'
  <1>a. PICK k, g : k = job[r].cart /\ g = job[r].from
    OBVIOUS
  <1>1. /\ TypeOK /\ TypeOK' /\ Running(r) /\ k \in Carts /\ g \in Carts \ {k}
        /\ k \in CartsOf(job[r]) /\ g \in CartsOf(job[r])
    BY <1>a, KeysAssumption DEF BalanceInv, Orderly, TypeInv, MergesFit, Merging, Carts,
          WriteMerged, Running, CartsOf
  <1>2. /\ cart' = [cart EXCEPT ![k] = [s \in Skus |-> Merged(r, k, s)]]
        /\ pc[r] = "writeMerged" /\ pc' = [pc EXCEPT ![r] = "delGuest"]
        /\ UNCHANGED <<ordered, job, seen, seenGuest, wanted, collided, faults>>
    BY <1>a DEF WriteMerged, Goto, local, history
  <1>3. /\ \A s \in Skus : cart'[k][s] = Merged(r, k, s)
        /\ \A m \in Carts \ {k} : cart'[m] = cart[m]
    BY <1>1, <1>2 DEF TypeOK
  <1>4. StepOf(r, "delGuest")
    BY <1>1, <1>2, <1>3 DEF StepOf, Stages, Merging
  <1>5. pc'[r] = "delGuest" /\ job'[r] = job[r]
    BY <1>1, <1>2 DEF TypeOK
  <1>6. Orderly'
    <2>1. ReadIsCurrent(r)'
      BY <1>5 DEF ReadIsCurrent
    <2>2. ordered'[r] = NoItems
      BY <1>2 DEF BalanceInv, Orderly, OrderedLater, Unordered, Merging
    <2> QED
      BY <1>4, <2>1, <2>2, OrderlyStep DEF BalanceInv
  <1>7. \A m : m # g => Doubled(m)' = Doubled(m)
    BY <1>a, <1>2, <1>4, SameDoubled DEF BalanceInv
  <1>8. ASSUME ~collided, NEW t \in Skus
        PROVE  Balance(t)' = Balance(t) + (wanted'[t] - wanted[t])
    <2>1. ~Doubled(k) /\ ~Doubled(k)' /\ ~Doubled(g)
      <3>1. ~Doubles(r, k) /\ ~Doubles(r, g)
        BY <1>2 DEF Doubles
      <3>2. ~Doubled(k) /\ ~Doubled(g)
        BY <1>1, <1>8, <3>1, NotDoubled DEF BalanceInv
      <3> QED
        BY <1>1, <1>7, <3>2
    <2>2. Doubled(g)'
      BY <1>a, <1>5 DEF Doubled, Doubles
    <2>3. /\ Worth(k, t) = cart[k][t] /\ Worth(k, t)' = Merged(r, k, t)
          /\ Worth(g, t) = cart[g][t] /\ Worth(g, t)' = 0
          /\ \A m \in Carts \ {k, g} : Worth(m, t)' = Worth(m, t)
      BY <1>3, <1>7, <2>1, <2>2 DEF Worth
    <2>4. Balance(t)' = Balance(t) + (Worth(k, t)' - Worth(k, t)) + (Worth(g, t)' - Worth(g, t))
      BY <1>1, <1>2, <2>3, BalanceShifts
    <2>5. seen[r] = cart[k] /\ seenGuest[r] = cart[g]
      BY <1>a, <1>2, <1>8 DEF BalanceInv, Orderly, ReadsAreCurrent, ReadIsCurrent
    <2>6. cart[k][t] \in Nat /\ cart[g][t] \in Nat
      BY <1>1 DEF TypeOK, Items
    <2>7. Merged(r, k, t) = cart[k][t] + cart[g][t]
      BY <2>5, <2>6 DEF Merged
    <2>8. Balance(t) \in Int /\ wanted'[t] = wanted[t] /\ wanted[t] \in Int
      BY <1>1, <1>2, TypesSum DEF Summable, Balance, BalanceInv, Balanced
    <2> QED
      BY <2>3, <2>4, <2>6, <2>7, <2>8
  <1>9. Balanced'
    BY <1>1, <1>2, <1>8, BalanceKept DEF BalanceInv, Balanced
  <1> QED
    BY <1>6, <1>9 DEF BalanceInv

\* The order takes the items over, and the cart counts no more.
LEMMA CreateOrderBalance ==
  ASSUME BalanceInv, TypeInv', NEW r \in Requests, CreateOrder(r)
  PROVE  BalanceInv'
  <1>a. PICK k : k = job[r].cart
    OBVIOUS
  <1>1. TypeOK /\ TypeOK' /\ Running(r) /\ k \in Carts /\ k \in CartsOf(job[r])
    BY <1>a DEF BalanceInv, Orderly, TypeInv, JobsFit, CreateOrder, Running, CartsOf
  <1>2. /\ ordered' = [ordered EXCEPT ![r] = seen[r]]
        /\ pc[r] = "order" /\ pc' = [pc EXCEPT ![r] = "pay"]
        /\ UNCHANGED <<cart, job, seen, seenGuest, wanted, collided, faults>>
    BY DEF CreateOrder, Goto, local, history
  <1>3. /\ ordered'[r] = seen[r] /\ pc'[r] = "pay" /\ job'[r] = job[r]
        /\ \A q \in Requests \ {r} : ordered'[q] = ordered[q]
    BY <1>1, <1>2 DEF TypeOK
  <1>4. StepOf(r, "pay")
    BY <1>1, <1>2, <1>3 DEF StepOf, Stages, Locking, Merging
  <1>5. Orderly'
    <2>1. ReadIsCurrent(r)'
      BY <1>3 DEF ReadIsCurrent
    <2> QED
      BY <1>4, <2>1, OrderlyStep DEF BalanceInv, Unordered, Merging
  <1>6. \A m : m # k => Doubled(m)' = Doubled(m)
    BY <1>a, <1>2, <1>4, SameDoubled DEF BalanceInv
  <1>7. ASSUME ~collided, NEW t \in Skus
        PROVE  Balance(t)' = Balance(t) + (wanted'[t] - wanted[t])
    <2>1. ~Doubled(k)
      <3>1. ~Doubles(r, k)
        BY <1>2 DEF Doubles
      <3> QED
        BY <1>1, <1>7, <3>1, NotDoubled DEF BalanceInv
    <2>2. Doubled(k)'
      BY <1>a, <1>3 DEF Doubled, Doubles
    <2>3. /\ Worth(k, t) = cart[k][t] /\ Worth(k, t)' = 0
          /\ \A m \in Carts \ {k} : Worth(m, t)' = Worth(m, t)
      BY <1>2, <1>6, <2>1, <2>2 DEF Worth
    <2>4. Balance(t)' = Balance(t) + (Worth(k, t)' - Worth(k, t)) + (ordered'[r][t] - ordered[r][t])
      BY <1>1, <1>3, <2>3, BalanceMoves
    <2>5. seen[r] = cart[k] /\ ordered[r] = NoItems
      BY <1>a, <1>2, <1>7 DEF BalanceInv, Orderly, ReadsAreCurrent, ReadIsCurrent, OrderedLater,
            Unordered
    <2>6. ordered[r][t] = 0 /\ ordered'[r][t] = cart[k][t]
      BY <1>3, <2>5 DEF NoItems
    <2>7. cart[k][t] \in Nat
      BY <1>1 DEF TypeOK, Items
    <2>8. Balance(t) \in Int /\ wanted'[t] = wanted[t] /\ wanted[t] \in Int
      BY <1>1, <1>2, TypesSum DEF Summable, Balance, BalanceInv, Balanced
    <2> QED
      BY <2>3, <2>4, <2>6, <2>7, <2>8
  <1>8. Balanced'
    BY <1>1, <1>2, <1>7, BalanceKept DEF BalanceInv, Balanced
  <1> QED
    BY <1>5, <1>8 DEF BalanceInv

\* A cart that counts for nothing is emptied.
LEMMA EmptyBalance ==
  ASSUME BalanceInv, TypeInv', NEW r \in Requests, DelGuest(r) \/ ClearCart(r)
  PROVE  BalanceInv'
  <1>1. PICK k \in Carts, l \in {"done", "unlock"} :
          /\ cart' = [cart EXCEPT ![k] = NoItems] /\ pc' = [pc EXCEPT ![r] = l]
          /\ k \in CartsOf(job[r])
          /\ Doubles(r, k) /\ \A m : m # k => ~Doubles(r, m)
          /\ pc[r] \in {"delGuest", "clear"}
    <2>1. CASE DelGuest(r)
      <3>1. job[r].from \in Carts /\ job[r].from \in CartsOf(job[r])
        BY <2>1 DEF DelGuest, BalanceInv, Orderly, MergesFit, Merging, Carts, CartsOf
      <3>2. Doubles(r, job[r].from) /\ \A m : m # job[r].from => ~Doubles(r, m)
        BY <2>1 DEF DelGuest, Doubles
      <3> QED
        BY <2>1, <3>1, <3>2 DEF DelGuest, Goto
    <2>2. CASE ClearCart(r)
      <3>1. job[r].cart \in Carts /\ job[r].cart \in CartsOf(job[r])
        BY <2>2 DEF ClearCart, BalanceInv, Orderly, TypeInv, JobsFit, Running, CartsOf
      <3>2. Doubles(r, job[r].cart) /\ \A m : m # job[r].cart => ~Doubles(r, m)
        BY <2>2 DEF ClearCart, Doubles
      <3> QED
        BY <2>2, <3>1, <3>2 DEF ClearCart, Goto
    <2> QED
      BY <2>1, <2>2
  <1>2. UNCHANGED <<ordered, job, seen, seenGuest, wanted, collided, faults>>
    BY DEF DelGuest, ClearCart, local, history
  <1>3. /\ TypeOK /\ cart'[k] = NoItems /\ pc'[r] = l
        /\ \A m \in Carts \ {k} : cart'[m] = cart[m]
    BY <1>1 DEF BalanceInv, Orderly, TypeInv, TypeOK
  <1>4. StepOf(r, l)
    BY <1>1, <1>2, <1>3 DEF StepOf, Running, Stages, Merging
  <1>5. Orderly'
    <2>1. ReadIsCurrent(r)'
      BY <1>1, <1>3 DEF ReadIsCurrent
    <2> QED
      BY <1>1, <1>4, <2>1, OrderlyStep DEF BalanceInv, Unordered, Merging
  <1>6. ASSUME NEW m, m # k PROVE Doubled(m)' = Doubled(m)
    <2>1. Doubled(m)' <=> \E q \in Requests \ {r} : Doubles(q, m)
      BY <1>1, <1>4, DoubledNext DEF BalanceInv
    <2>2. ~Doubles(r, m)
      BY <1>1, <1>6
    <2> QED
      BY <2>1, <2>2 DEF Doubled
  <1>7. \A m \in Carts, t \in Skus : Worth(m, t)' = Worth(m, t)
    <2> SUFFICES ASSUME NEW m \in Carts, NEW t \in Skus PROVE Worth(m, t)' = Worth(m, t)
      OBVIOUS
    <2>1. CASE m = k
      <3>1. Doubled(k)
        BY <1>1 DEF Doubled
      <3>2. Worth(k, t) = 0
        BY <3>1 DEF Worth
      <3>3. Worth(k, t)' = 0
        BY <1>3 DEF Worth, NoItems
      <3> QED
        BY <2>1, <3>2, <3>3
    <2>2. CASE m # k
      BY <1>3, <1>6, <2>2 DEF Worth
    <2> QED
      BY <2>1, <2>2
  <1>8. Balanced'
    BY <1>2, <1>7, BalanceRests DEF BalanceInv
  <1> QED
    BY <1>5, <1>8 DEF BalanceInv

-----------------------------------------------------------------------------
(* Failures.  A request that is over doubles nothing, so what it leaves    *)
(* behind counts again.                                                    *)

LEMMA FaultBalance ==
  ASSUME BalanceInv, TypeInv', NEW r \in Requests, Fail(r) \/ Crash(r)
  PROVE  BalanceInv'
  <1>1. /\ TypeOK /\ TypeOK' /\ Running(r)
        /\ faults' = faults + 1 /\ faults \in Nat
        /\ UNCHANGED <<cart, ordered, job, seen, seenGuest, wanted, collided>>
    BY FaultsAssumption DEF Fail, Crash, stores, local, history, BalanceInv, Orderly, TypeInv, TypeOK
  <1>2. PICK l \in {"done", "unlock"} : pc' = [pc EXCEPT ![r] = l]
    BY DEF Fail, Crash, Goto
  <1>3. StepOf(r, l)
    BY <1>1, <1>2 DEF StepOf, Stages, Merging
  <1>4. Orderly'
    <2>1. ReadIsCurrent(r)'
      BY <1>1, <1>2 DEF ReadIsCurrent, TypeOK
    <2> QED
      BY <1>2, <1>3, <2>1, OrderlyStep DEF BalanceInv, Unordered, Merging
  <1>5. ASSUME NEW m, ~Doubles(r, m) PROVE Doubled(m)' = Doubled(m)
    <2>1. Doubled(m)' <=> \E q \in Requests \ {r} : Doubles(q, m)
      BY <1>2, <1>3, DoubledNext DEF BalanceInv
    <2> QED
      BY <1>5, <2>1 DEF Doubled
  <1>6. PICK k \in Carts : \A m \in Carts : m # k => ~Doubles(r, m)
    <2>1. job[r].cart \in Carts /\ (pc[r] = "delGuest" => job[r].from \in Carts)
      BY <1>1 DEF BalanceInv, Orderly, TypeInv, JobsFit
    <2> QED
      BY <2>1 DEF Doubles
  <1>7. ASSUME ~collided, NEW t \in Skus
        PROVE  Balance(t)' >= wanted'[t]
    <2>1. \A m \in Carts \ {k} : Worth(m, t)' = Worth(m, t)
      BY <1>1, <1>5, <1>6 DEF Worth
    <2>2. Balance(t)' = Balance(t) + (Worth(k, t)' - Worth(k, t)) + (ordered'[r][t] - ordered[r][t])
      BY <1>1, <2>1, BalanceMoves
    <2>3. Worth(k, t)' >= Worth(k, t) /\ Worth(k, t)' \in Nat /\ Worth(k, t) \in Nat
      <3>1. cart[k][t] \in Nat /\ cart'[k][t] = cart[k][t]
        BY <1>1 DEF TypeOK, Items
      <3>2. CASE Doubled(k)
        BY <3>1, <3>2 DEF Worth
      <3>3. CASE ~Doubled(k)
        <4>1. ~Doubled(k)'
          BY <1>5, <3>3 DEF Doubled
        <4> QED
          BY <3>1, <3>3, <4>1 DEF Worth
      <3> QED
        BY <3>2, <3>3
    <2>4. Balance(t) \in Int /\ wanted'[t] = wanted[t] /\ wanted[t] \in Int /\ ordered[r][t] \in Int
      BY <1>1, TypesSum DEF Summable, Balance, BalanceInv, Balanced
    <2>5. Balance(t) >= wanted[t]
      BY <1>7 DEF BalanceInv, Balanced
    <2> QED
      BY <1>1, <2>2, <2>3, <2>4, <2>5
  <1>8. Balanced'
    BY <1>1, <1>7 DEF BalanceInv, Balanced
  <1> QED
    BY <1>4, <1>8 DEF BalanceInv

-----------------------------------------------------------------------------
LEMMA InitBalance == Init => BalanceInv
  <1> SUFFICES ASSUME Init PROVE BalanceInv
    OBVIOUS
  <1>1. TypeInv /\ TypeOK
    BY InitTypes DEF TypeInv
  <1>2. \A r \in Requests : pc[r] = "idle" /\ ordered[r] = NoItems
    BY DEF Init
  <1>3. Orderly
    BY <1>1, <1>2 DEF Orderly, MergesFit, Merging, OrderedLater, Alone, Running, ReadsAreCurrent,
          ReadIsCurrent
  <1>4. ASSUME NEW s \in Skus PROVE Balance(s) = wanted[s] /\ wanted[s] \in Int
    <2>1. \A k : ~Doubled(k)
      BY <1>2 DEF Doubled, Doubles
    <2>2. InCarts(s) = [k \in Carts |-> InitialCarts[k][s]]
      BY <2>1 DEF InCarts, Worth, Init
    <2>3. SumFunction(InCarts(s)) = wanted[s]
      BY <2>2 DEF Init
    <2>4. SumFunction(InOrders(s)) = 0
      <3>1. PICK f : f = InOrders(s)
        OBVIOUS
      <3>2. f \in [Requests -> Int] /\ \A r \in Requests : f[r] = 0
        BY <1>2, <3>1 DEF InOrders, NoItems
      <3> QED
        BY <3>1, <3>2, SumType, FiniteAssumption
    <2>5. SumFunction(InCarts(s)) \in Int
      BY <1>1, TypesSum DEF Summable
    <2> QED
      BY <2>3, <2>4, <2>5 DEF Balance
  <1>5. wanted \in [Skus -> Int]
    BY <1>4 DEF Init
  <1> QED
    BY <1>3, <1>4, <1>5 DEF BalanceInv, Balanced

LEMMA NextBalance == BalanceInv /\ [Next]_vars => BalanceInv'
  <1> SUFFICES ASSUME BalanceInv, [Next]_vars PROVE BalanceInv'
    OBVIOUS
  <1>1. TypeInv'
    BY NextTypes DEF BalanceInv, Orderly
  <1>2. ASSUME UNCHANGED <<cart, ordered, pc, job, seen, seenGuest, wanted, collided, faults>>
        PROVE  BalanceInv'
    <2>1. MergesFit' /\ OrderedLater' /\ Alone' /\ ReadsAreCurrent'
      BY <1>2 DEF BalanceInv, Orderly, MergesFit, OrderedLater, Alone, Running, ReadsAreCurrent,
            ReadIsCurrent
    <2>2. \A k \in Carts, s \in Skus : Worth(k, s)' = Worth(k, s)
      BY <1>2 DEF Worth, Doubled, Doubles
    <2>3. Balanced'
      BY <1>2, <2>2, BalanceRests DEF BalanceInv
    <2> QED
      BY <1>1, <2>1, <2>3 DEF BalanceInv, Orderly
  <1>3. CASE UNCHANGED vars
    BY <1>2, <1>3 DEF vars, stores, local, history
  <1>4. ASSUME NEW r \in Requests, Serve(r) PROVE BalanceInv'
    BY <1>1, <1>4, StartBalance, ReadBalance, LockingBalance, WriteItemBalance, RemoveBalance,
       WriteMergedBalance, CreateOrderBalance, EmptyBalance DEF Serve
  <1>5. ASSUME NEW r \in Requests, Fail(r) \/ Crash(r) PROVE BalanceInv'
    BY <1>1, <1>5, FaultBalance
  <1>6. ASSUME NEW s \in Skus, LockExpires(s) PROVE BalanceInv'
    BY <1>2, <1>6 DEF LockExpires, local
  <1> QED
    BY <1>3, <1>4, <1>5, <1>6 DEF Next

\* What is kept is at least what counts, and all of it once nothing is doubled.
LEMMA KeptBalance ==
  ASSUME TypeOK, NEW s \in Skus
  PROVE  /\ Balance(s) <= Kept(s)
         /\ (\A k \in Carts : ~Doubled(k)) => Kept(s) = Balance(s)
  <1>1. PICK f, g : f = InCarts(s) /\ g = [k \in Carts |-> cart[k][s]]
    OBVIOUS
  <1>2. /\ f \in [Carts -> Int] /\ \A k \in Carts : f[k] = Worth(k, s)
        /\ \A k \in Carts : Worth(k, s) \in Nat /\ cart[k][s] \in Nat
        /\ SumFunction(InOrders(s)) \in Int
    BY <1>1, TypesSum DEF Summable
  <1>3. /\ g \in [Carts -> Int] /\ \A k \in Carts : g[k] = cart[k][s]
    BY <1>1, <1>2
  <1>4. \A k \in Carts : f[k] <= g[k]
    BY <1>2, <1>3 DEF Worth
  <1>5. SumFunction(f) <= SumFunction(g)
    BY <1>2, <1>3, <1>4, SumGrows, FiniteAssumption
  <1>6. SumFunction(f) \in Int /\ SumFunction(g) \in Int
    BY <1>2, <1>3, SumType, FiniteAssumption
  <1>7. Balance(s) = SumFunction(f) + SumFunction(InOrders(s))
        /\ Kept(s) = SumFunction(g) + SumFunction(InOrders(s))
    BY <1>1 DEF Balance, Kept, InOrders
  <1>8. ASSUME \A k \in Carts : ~Doubled(k) PROVE f = g
    BY <1>2, <1>3, <1>8 DEF Worth
  <1> QED
    BY <1>2, <1>5, <1>6, <1>7, <1>8

\* As long as no two requests have worked on one cart at the same time, nothing
\* a customer put in a cart and did not take out is missing from the carts and
\* the orders, for any number of carts, merges, checkouts, failed calls and
\* crashes (addItem to clearCart, mergeGuestCart, initiateCheckout).
THEOREM NothingIsEverLost == Spec => []NothingIsLost
  <1>1. BalanceInv => NothingIsLost
    <2> SUFFICES ASSUME BalanceInv, ~collided, NEW s \in Skus PROVE Kept(s) >= wanted[s]
      BY DEF NothingIsLost
    <2>1. TypeOK
      BY DEF BalanceInv, Orderly, TypeInv
    <2>2. Balance(s) <= Kept(s) /\ Balance(s) >= wanted[s]
      BY <2>1, KeptBalance DEF BalanceInv, Balanced
    <2>3. Balance(s) \in Int /\ Kept(s) \in Int /\ wanted[s] \in Int
      <3>1. [k \in Carts |-> cart[k][s]] \in [Carts -> Int]
        BY <2>1 DEF TypeOK, Items
      <3>2. SumFunction([k \in Carts |-> cart[k][s]]) \in Int
        BY <3>1, SumType, FiniteAssumption
      <3> QED
        BY <2>1, <3>2, TypesSum DEF Summable, Balance, Kept, InOrders, BalanceInv, Balanced
    <2> QED
      BY <2>2, <2>3
  <1> QED
    BY <1>1, InitBalance, NextBalance, PTL DEF Spec

\* Under the same condition, and without failures, nothing is there twice once
\* all requests are over: a merged item has left the guest's cart, an ordered
\* one the user's (mergeGuestCart, initiateCheckout).
THEOREM NothingIsEverDuplicated == Spec => []NothingIsDuplicated
  <1>1. BalanceInv => NothingIsDuplicated
    <2> SUFFICES ASSUME BalanceInv, ~collided, faults = 0, \A r \in Requests : ~Running(r),
                        NEW s \in Skus
                 PROVE  Kept(s) <= wanted[s]
      BY DEF NothingIsDuplicated
    <2>1. TypeOK
      BY DEF BalanceInv, Orderly, TypeInv
    <2>2. \A k \in Carts : ~Doubled(k)
      BY DEF Doubled, Doubles, Running
    <2>3. Kept(s) = wanted[s] /\ wanted[s] \in Int
      BY <2>1, <2>2, KeptBalance DEF BalanceInv, Balanced
    <2> QED
      BY <2>3
  <1> QED
    BY <1>1, InitBalance, NextBalance, PTL DEF Spec
=============================================================================
