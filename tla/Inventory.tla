----------------------------- MODULE Inventory -----------------------------
(***************************************************************************)
(* The stock record of one SKU and the requests that work on it at the     *)
(* same time (src/src/modules/inventory).  Every `await` of the service    *)
(* is a step of its own, so requests interleave between them:              *)
(*                                                                         *)
(*   reserveStock           setNx, read, check, write, event(s), del       *)
(*   releaseStock           setNx (result ignored), read, write, event, del*)
(*   confirmStockDepletion  read, write, event               (no lock)     *)
(*   adjustStock            read, write or create, event     (no lock)     *)
(*                                                                         *)
(* The controllers call the service without a Mongo session, so the write  *)
(* and the outbox event are two independent writes.  A request can die     *)
(* after any step (its replica crashes) and the Redis lock has a TTL.      *)
(***************************************************************************)
EXTENDS Integers

CONSTANTS
  Requests,      \* requests in flight on this SKU, each served once
  Quantities,    \* quantities of reserve, release and deplete (ReserveStockDto, Min(1))
  Changes,       \* quantityChange of adjustStock, of either sign
  InitialStock,  \* quantity of a record that already exists
  ReorderPoint,  \* reorderPoint of the record
  NoRequest

ASSUME QuantitiesAssumption == Quantities \subseteq Nat \ {0}
ASSUME ChangesAssumption == Changes \subseteq Int
ASSUME StockAssumption == InitialStock \in Nat /\ ReorderPoint \in Nat
ASSUME NoRequestAssumption == NoRequest \notin Requests

VARIABLES
  inv,        \* the Mongo document of the SKU
  lock,       \* the Redis key vitaform:inventory:lock:<sku>
  pc,         \* where each request is
  job,        \* what each request asks for
  seen,       \* the document each request read
  committed,  \* requests whose write changed the document (history)
  orphans,    \* requests about to write when the record they read was deleted (history)
  outbox      \* the inventory events saved so far

vars == <<inv, lock, pc, job, seen, committed, orphans, outbox>>

Min2(a, b) == IF a <= b THEN a ELSE b
Max0(a) == IF a >= 0 THEN a ELSE 0

Ops == {"reserve", "release", "deplete", "adjust"}
Locking == {"reserve", "release"}
Job == [op : Ops \union {"none"}, qty : Int]
Doc == [exists : BOOLEAN, quantity : Int, reserved : Int, version : Nat]
Event == [type : {"StockReserved", "LowStockAlert", "StockReleased",
                  "StockDepleted", "StockAdjusted"},
          request : Requests]

NoDoc == [exists |-> FALSE, quantity |-> 0, reserved |-> 0, version |-> 0]
NoJob == [op |-> "none", qty |-> 0]
NewDoc(n) == [exists |-> TRUE, quantity |-> n, reserved |-> 0, version |-> 1]

\* Virtual field `available` of the schema.
Available(d) == Max0(d.quantity - d.reserved)

\* A throw after the lock was taken still runs `finally { del(lockKey) }`.
Exit(r) == IF job[r].op \in Locking THEN "unlock" ELSE "done"
Goto(r, l) == pc' = [pc EXCEPT ![r] = l]

Init ==
  /\ inv \in {NoDoc, NewDoc(InitialStock)}
  /\ lock = NoRequest
  /\ pc = [r \in Requests |-> "idle"]
  /\ job = [r \in Requests |-> NoJob]
  /\ seen = [r \in Requests |-> NoDoc]
  /\ committed = {}
  /\ orphans = {}
  /\ outbox = {}

-----------------------------------------------------------------------------
(* The first step of each request. *)

\* reserveStock: setNx, or INVENTORY_BUSY before the try block is entered.
StartReserve(r, n) ==
  /\ pc[r] = "idle"
  /\ job' = [job EXCEPT ![r] = [op |-> "reserve", qty |-> n]]
  /\ \/ lock = NoRequest /\ lock' = r /\ Goto(r, "read")
     \/ lock # NoRequest /\ Goto(r, "done") /\ UNCHANGED lock
  /\ UNCHANGED <<inv, seen, committed, orphans, outbox>>

\* releaseStock: setNx whose result nobody looks at.
StartRelease(r, n) ==
  /\ pc[r] = "idle"
  /\ job' = [job EXCEPT ![r] = [op |-> "release", qty |-> n]]
  /\ lock' = IF lock = NoRequest THEN r ELSE lock
  /\ Goto(r, "read")
  /\ UNCHANGED <<inv, seen, committed, orphans, outbox>>

StartDeplete(r, n) ==
  /\ pc[r] = "idle"
  /\ job' = [job EXCEPT ![r] = [op |-> "deplete", qty |-> n]]
  /\ Goto(r, "read")
  /\ UNCHANGED <<inv, lock, seen, committed, orphans, outbox>>

StartAdjust(r, c) ==
  /\ pc[r] = "idle"
  /\ job' = [job EXCEPT ![r] = [op |-> "adjust", qty |-> c]]
  /\ Goto(r, "read")
  /\ UNCHANGED <<inv, lock, seen, committed, orphans, outbox>>

-----------------------------------------------------------------------------
(* The read, and the checks made on what was read. *)

\* Variant: units already reserved are forgotten.
InsufficientByTotal(r) == inv.quantity < job[r].qty

Insufficient(r) == Available(inv) < job[r].qty

\* checkStock / findBySku.  A missing record sends adjustStock to create and
\* everybody else out; a reservation is refused when too little is free.
Read(r) ==
  /\ pc[r] = "read"
  /\ seen' = [seen EXCEPT ![r] = inv]
  /\ \/ /\ inv.exists
        /\ job[r].op = "reserve" => ~Insufficient(r)
        /\ Goto(r, "write")
     \/ /\ inv.exists /\ job[r].op = "reserve" /\ Insufficient(r)
        /\ Goto(r, Exit(r))
     \/ /\ ~inv.exists
        /\ Goto(r, IF job[r].op = "adjust" THEN "create" ELSE Exit(r))
  /\ UNCHANGED <<inv, lock, job, committed, orphans, outbox>>

-----------------------------------------------------------------------------
(* The writes. *)

\* Variant: the filter of findOneAndUpdate names the SKU only.
VersionIgnored(r) == inv.exists

VersionMatches(r) == inv.exists /\ inv.version = seen[r].version

\* InventoryRepository.optimisticIncrement: the increments were computed from
\* the document the request read and are added to the one it finds.
OptimisticIncrement(r, dq, dr) ==
  /\ \/ /\ VersionMatches(r)
        /\ inv' = [inv EXCEPT !.quantity = @ + dq,
                              !.reserved = @ + dr,
                              !.version = @ + 1]
        /\ seen' = [seen EXCEPT ![r] = inv']   \* new: true
        /\ committed' = committed \union {r}
        /\ Goto(r, "event")
     \/ /\ ~VersionMatches(r)
        /\ Goto(r, Exit(r))
        /\ UNCHANGED <<inv, seen, committed>>
  /\ UNCHANGED <<lock, job, orphans, outbox>>

ReserveWrite(r) ==
  /\ pc[r] = "write" /\ job[r].op = "reserve"
  /\ OptimisticIncrement(r, 0, job[r].qty)

\* Variant: more than is reserved may be released.
ReleasedInFull(r) == job[r].qty

Released(r) == Min2(seen[r].reserved, job[r].qty)

ReleaseWrite(r) ==
  /\ pc[r] = "write" /\ job[r].op = "release"
  /\ OptimisticIncrement(r, 0, -Released(r))

DepleteWrite(r) ==
  /\ pc[r] = "write" /\ job[r].op = "deplete"
  /\ OptimisticIncrement(r, -Min2(seen[r].quantity, job[r].qty),
                            -Min2(seen[r].reserved, job[r].qty))

AdjustWrite(r) ==
  /\ pc[r] = "write" /\ job[r].op = "adjust"
  /\ OptimisticIncrement(r, Max0(seen[r].quantity + job[r].qty) - seen[r].quantity, 0)

\* adjustStock on an unknown SKU: getBySku may throw, a record without a
\* productId fails validation, and the unique index on sku refuses a second
\* record; otherwise the record is created at version 1, also for a SKU that
\* had a record before.
Create(r) ==
  /\ pc[r] = "create"
  /\ \/ /\ ~inv.exists
        /\ inv' = NewDoc(Max0(job[r].qty))
        /\ committed' = committed \union {r}
        /\ Goto(r, "event")
     \/ Goto(r, Exit(r)) /\ UNCHANGED <<inv, committed>>
  /\ UNCHANGED <<lock, job, seen, orphans, outbox>>

-----------------------------------------------------------------------------
(* The outbox events, the lock and the environment. *)

EventType(op) ==
  CASE op = "reserve" -> "StockReserved" [] op = "release" -> "StockReleased"
    [] op = "deplete" -> "StockDepleted" [] OTHER -> "StockAdjusted"

\* updated.available <= updated.reorderPoint
IsLow(r) == Available(seen[r]) <= ReorderPoint

\* saveEvent after the write; the insert can fail on its own.
SaveEvent(r) ==
  /\ pc[r] = "event"
  /\ \/ /\ outbox' = outbox \union {[type |-> EventType(job[r].op), request |-> r]}
        /\ Goto(r, IF job[r].op = "reserve" /\ IsLow(r) THEN "alert" ELSE Exit(r))
     \/ Goto(r, Exit(r)) /\ UNCHANGED outbox
  /\ UNCHANGED <<inv, lock, job, seen, committed, orphans>>

SaveLowStockAlert(r) ==
  /\ pc[r] = "alert"
  /\ outbox' \in {outbox, outbox \union {[type |-> "LowStockAlert", request |-> r]}}
  /\ Goto(r, "unlock")
  /\ UNCHANGED <<inv, lock, job, seen, committed, orphans>>

\* finally { del(lockKey) }: deletes the key whoever set it.
Unlock(r) ==
  /\ pc[r] = "unlock"
  /\ lock' = NoRequest
  /\ Goto(r, "done")
  /\ UNCHANGED <<inv, job, seen, committed, orphans, outbox>>

\* The replica serving the request dies: nothing after the last step runs.
Crash(r) ==
  /\ pc[r] \notin {"idle", "done"}
  /\ Goto(r, "done")
  /\ UNCHANGED <<inv, lock, job, seen, committed, orphans, outbox>>

\* LOCK_TTL seconds after setNx, however far the request that set it has got.
LockExpires ==
  /\ lock # NoRequest
  /\ lock' = NoRequest
  /\ UNCHANGED <<inv, pc, job, seen, committed, orphans, outbox>>

\* ProductDeleted is delivered: deleteByProductId removes the record.
ProductDeleted ==
  /\ inv.exists
  /\ inv' = NoDoc
  /\ orphans' = orphans \union {r \in Requests : pc[r] = "write"}
  /\ UNCHANGED <<lock, pc, job, seen, committed, outbox>>

Start(r) ==
  \/ \E n \in Quantities :
       StartReserve(r, n) \/ StartRelease(r, n) \/ StartDeplete(r, n)
  \/ \E c \in Changes : StartAdjust(r, c)

Write(r) ==
  ReserveWrite(r) \/ ReleaseWrite(r) \/ DepleteWrite(r) \/ AdjustWrite(r) \/ Create(r)

\* What the request does by itself once it has been received.
Continue(r) ==
  Read(r) \/ Write(r) \/ SaveEvent(r) \/ SaveLowStockAlert(r) \/ Unlock(r)

Next ==
  \/ \E r \in Requests : Start(r) \/ Continue(r) \/ Crash(r)
  \/ LockExpires
  \/ ProductDeleted

Spec == Init /\ [][Next]_vars

-----------------------------------------------------------------------------
(* Properties. *)

\* A request whose write changed a record created after the one it read was
\* deleted: versions restart at 1, so the version check cannot tell them apart.
Strays == orphans \intersect committed

\* In particular neither counter of the record goes below zero, however
\* releases, depletions and adjustments computed from older reads interleave
\* (`min: 0` of the schema is not checked by findOneAndUpdate's $inc), unless
\* a write has strayed to a record it never read.
TypeOK ==
  /\ inv \in Doc
  /\ Strays = {} => inv.quantity >= 0 /\ inv.reserved >= 0
  /\ lock \in Requests \union {NoRequest}
  /\ pc \in [Requests -> {"idle", "read", "write", "create", "event", "alert",
                          "unlock", "done"}]
  /\ job \in [Requests -> Job]
  /\ seen \in [Requests -> Doc]
  /\ committed \subseteq Requests
  /\ orphans \subseteq Requests
  /\ outbox \subseteq Event

Commits(r) == r \notin committed /\ r \in committed'

\* Reserving never promises more units than the record holds, although the
\* availability check was made on a document read several steps earlier and
\* the lock may be lost in between: a reservation that commits to the record
\* it read leaves `reserved` within `quantity`.
ReserveNeverOversells ==
  [][\A r \in Requests \ orphans :
       job[r].op = "reserve" /\ Commits(r) => inv'.reserved <= inv'.quantity]_vars

\* Operations take effect one at a time on the current stock: no lost update,
\* no effect computed from a stale read (the optimistic version check).  Only
\* the write of an orphan to a re-created record escapes the ledger.
Ledger == INSTANCE StockLedger WITH
  exists <- inv.exists, quantity <- inv.quantity, reserved <- inv.reserved
Stray == \E r \in orphans : Commits(r)
LedgerSpec == Ledger!Init /\ [][Ledger!Next \/ Stray]_(Ledger!stock)
=============================================================================
