-------------------------- MODULE InventoryProofs --------------------------
(***************************************************************************)
(* Proofs about Inventory.tla, for any set of requests, quantities and     *)
(* changes, any TTL behaviour, crashes at any step, and records that are   *)
(* deleted and created again.                                              *)
(***************************************************************************)
EXTENDS Inventory, TLAPS

-----------------------------------------------------------------------------
(* The inductive invariant. *)

\* What a request asks for stays within the DTO's bounds.
JobInv ==
  \A r \in Requests :
    /\ job[r].op \in {"reserve", "release", "deplete"} => job[r].qty \in Quantities
    /\ job[r].op = "adjust" => job[r].qty \in Changes
    /\ pc[r] = "create" => job[r].op = "adjust"

\* A request whose write is still to come has committed nothing.
CommitInv ==
  \A r \in Requests : pc[r] \in {"idle", "read", "write", "create"} => r \notin committed

\* What a request about to write knows unless it was orphaned: the record is
\* the one it read or a later version of it, and if it is the same version
\* then so is the stock.
Fresh(r) ==
  /\ inv.exists
  /\ seen[r].version <= inv.version
  /\ seen[r].version = inv.version =>
       seen[r].quantity = inv.quantity /\ seen[r].reserved = inv.reserved

SnapshotInv ==
  \A r \in Requests :
    pc[r] = "write" =>
      /\ r \notin orphans => Fresh(r)
      /\ job[r].op = "reserve" => job[r].qty <= Available(seen[r])

IInv == TypeOK /\ JobInv /\ CommitInv /\ SnapshotInv

-----------------------------------------------------------------------------
(* What an optimistic write does to the record and to everyone else. *)

\* The increments a write adds when its version matches keep the record typed.
LEMMA OptimisticIncrementInv ==
  ASSUME IInv, NEW r \in Requests, NEW dq \in Int, NEW dr \in Int,
         pc[r] = "write",
         OptimisticIncrement(r, dq, dr),
         seen[r].quantity >= 0 => seen[r].quantity + dq >= 0,
         seen[r].reserved >= 0 => seen[r].reserved + dr >= 0
  PROVE  IInv'
<1> USE NoRequestAssumption
<1>1. CASE ~VersionMatches(r)
  <2>1. pc' = [pc EXCEPT ![r] = Exit(r)] /\ UNCHANGED <<inv, lock, job, seen, committed, orphans, outbox>>
    BY <1>1 DEF OptimisticIncrement, Goto
  <2>2. Exit(r) \in {"unlock", "done"}
    BY DEF Exit
  <2>3. TypeOK'
    BY <2>1, <2>2 DEF IInv, TypeOK, Strays
  <2>4. JobInv' /\ CommitInv'
    BY <2>1, <2>2 DEF IInv, TypeOK, JobInv, CommitInv
  <2>5. SnapshotInv'
    BY <2>1, <2>2 DEF IInv, TypeOK, SnapshotInv, Fresh, Available, Max0
  <2>6. QED
    BY <2>3, <2>4, <2>5 DEF IInv
<1>2. CASE VersionMatches(r)
  <2>1. /\ inv' = [inv EXCEPT !.quantity = @ + dq, !.reserved = @ + dr, !.version = @ + 1]
        /\ seen' = [seen EXCEPT ![r] = inv']
        /\ committed' = committed \union {r}
        /\ pc' = [pc EXCEPT ![r] = "event"]
        /\ UNCHANGED <<lock, job, orphans, outbox>>
    BY <1>2 DEF OptimisticIncrement, Goto
  <2>2. inv \in Doc /\ inv.exists /\ seen[r].version = inv.version
    BY <1>2 DEF VersionMatches, IInv, TypeOK
  <2>3. /\ inv' \in Doc /\ inv'.exists
        /\ inv'.quantity = inv.quantity + dq /\ inv'.reserved = inv.reserved + dr
        /\ inv'.version = inv.version + 1
    <3>1. inv.quantity + dq \in Int /\ inv.reserved + dr \in Int /\ inv.version + 1 \in Nat
      BY <2>2 DEF Doc
    <3>2. inv' = [exists |-> TRUE, quantity |-> inv.quantity + dq,
                  reserved |-> inv.reserved + dr, version |-> inv.version + 1]
      BY <2>1, <2>2 DEF Doc
    <3>3. QED
      BY <3>1, <3>2 DEF Doc
  <2>4. ASSUME Strays' = {} PROVE inv'.quantity >= 0 /\ inv'.reserved >= 0
    <3>1. Strays = {} /\ r \notin orphans
      BY <2>1, <2>4 DEF Strays
    <3>2. seen[r].quantity = inv.quantity /\ seen[r].reserved = inv.reserved
      BY <2>2, <3>1 DEF IInv, SnapshotInv, Fresh
    <3>3. inv.quantity >= 0 /\ inv.reserved >= 0
      BY <3>1 DEF IInv, TypeOK
    <3>4. QED
      BY <2>3, <3>2, <3>3
  <2>5. TypeOK'
    BY <2>1, <2>3, <2>4 DEF IInv, TypeOK
  <2>6. JobInv' /\ CommitInv'
    BY <2>1 DEF IInv, TypeOK, JobInv, CommitInv
  <2>7. SnapshotInv'
    <3> SUFFICES ASSUME NEW s \in Requests, pc'[s] = "write"
                 PROVE  /\ s \notin orphans' => Fresh(s)'
                        /\ job'[s].op = "reserve" => job'[s].qty <= Available(seen'[s])
      BY DEF SnapshotInv
    <3>1. s # r /\ pc[s] = "write" /\ seen'[s] = seen[s] /\ job'[s] = job[s]
      BY <2>1 DEF IInv, TypeOK
    <3>2. ASSUME s \notin orphans PROVE Fresh(s)'
      <4>1. seen[s].version <= inv.version /\ seen[s].version \in Nat /\ inv.version \in Nat
        BY <3>1, <3>2 DEF IInv, SnapshotInv, Fresh, TypeOK, Doc
      <4>2. QED
        BY <3>1, <4>1, <2>3 DEF Fresh
    <3>3. QED
      BY <3>1, <3>2, <2>1 DEF IInv, SnapshotInv
  <2>8. QED
    BY <2>5, <2>6, <2>7 DEF IInv
<1>3. QED
  BY <1>1, <1>2

\* Each operation's increments satisfy the precondition above.
LEMMA WriteInv ==
  ASSUME IInv, NEW r \in Requests,
         ReserveWrite(r) \/ ReleaseWrite(r) \/ DepleteWrite(r) \/ AdjustWrite(r)
  PROVE  IInv'
<1>1. seen[r] \in Doc /\ job[r] \in Job
  BY DEF IInv, TypeOK
<1>2. seen[r].quantity \in Int /\ seen[r].reserved \in Int /\ job[r].qty \in Int
  BY <1>1 DEF Doc, Job
<1>3. CASE ReserveWrite(r)
  <2>1. job[r].qty \in Nat
    <3>1. job[r].op = "reserve"
      BY <1>3 DEF ReserveWrite
    <3>2. job[r].qty \in Quantities
      BY <3>1 DEF IInv, JobInv
    <3>3. QED
      BY <3>2, QuantitiesAssumption
  <2>2. /\ seen[r].quantity >= 0 => seen[r].quantity + 0 >= 0
        /\ seen[r].reserved >= 0 => seen[r].reserved + job[r].qty >= 0
    BY <1>2, <2>1
  <2>3. pc[r] = "write" /\ OptimisticIncrement(r, 0, job[r].qty)
    BY <1>3 DEF ReserveWrite
  <2>4. QED
    BY <1>2, <2>2, <2>3, OptimisticIncrementInv
<1>4. CASE ReleaseWrite(r)
  BY <1>2, <1>4, OptimisticIncrementInv DEF ReleaseWrite, Released, Min2
<1>5. CASE DepleteWrite(r)
  BY <1>2, <1>5, OptimisticIncrementInv DEF DepleteWrite, Min2
<1>6. CASE AdjustWrite(r)
  BY <1>2, <1>6, OptimisticIncrementInv DEF AdjustWrite, Max0
<1>7. QED
  BY <1>3, <1>4, <1>5, <1>6

-----------------------------------------------------------------------------
(* The invariant holds initially and every step preserves it. *)

LEMMA InitInv == Init => IInv
<1> SUFFICES ASSUME Init PROVE IInv
  OBVIOUS
<1>1. NoDoc \in Doc /\ NewDoc(InitialStock) \in Doc /\ NoJob \in Job
  BY StockAssumption DEF NoDoc, NewDoc, NoJob, Doc, Job
<1>2. TypeOK
  <2>1. inv = NoDoc \/ inv = NewDoc(InitialStock)
    BY DEF Init
  <2>2. inv \in Doc
    BY <1>1, <2>1
  <2>3. inv.quantity >= 0 /\ inv.reserved >= 0
    BY <2>1, StockAssumption DEF NoDoc, NewDoc
  <2>4. QED
    BY <1>1, <2>2, <2>3 DEF Init, TypeOK, Strays
<1>3. JobInv /\ CommitInv /\ SnapshotInv
  BY DEF Init, JobInv, CommitInv, SnapshotInv, NoJob
<1>4. QED
  BY <1>2, <1>3 DEF IInv

\* What receiving a request changes, whichever operation it asks for.
Started(r, j, l) ==
  /\ job' = [job EXCEPT ![r] = j]
  /\ pc' = [pc EXCEPT ![r] = l]
  /\ j.op \in {"reserve", "release", "deplete"} => j.qty \in Quantities
  /\ j.op = "adjust" => j.qty \in Changes
  /\ pc[r] = "idle" /\ lock' \in Requests \union {NoRequest}
  /\ UNCHANGED <<inv, seen, committed, orphans, outbox>>

LEMMA StartInv ==
  ASSUME IInv, NEW r \in Requests, Start(r)
  PROVE  IInv'
<1>1. PICK j \in Job, l \in {"read", "done"} : Started(r, j, l)
  <2>1. ASSUME NEW n \in Quantities, NEW op \in Ops \ {"adjust"}
        PROVE  [op |-> op, qty |-> n] \in Job
    BY QuantitiesAssumption DEF Job, Ops
  <2>2. ASSUME NEW c \in Changes
        PROVE  [op |-> "adjust", qty |-> c] \in Job
    BY ChangesAssumption DEF Job, Ops
  <2>3. ASSUME NEW n \in Quantities, StartReserve(r, n)
        PROVE  \E l \in {"read", "done"} : Started(r, [op |-> "reserve", qty |-> n], l)
    BY <2>3 DEF Started, StartReserve, Goto, IInv, TypeOK
  <2>4. ASSUME NEW n \in Quantities, StartRelease(r, n)
        PROVE  Started(r, [op |-> "release", qty |-> n], "read")
    BY <2>4 DEF Started, StartRelease, Goto, IInv, TypeOK
  <2>5. ASSUME NEW n \in Quantities, StartDeplete(r, n)
        PROVE  Started(r, [op |-> "deplete", qty |-> n], "read")
    BY <2>5 DEF Started, StartDeplete, Goto, IInv, TypeOK
  <2>6. ASSUME NEW c \in Changes, StartAdjust(r, c)
        PROVE  Started(r, [op |-> "adjust", qty |-> c], "read")
    BY <2>6 DEF Started, StartAdjust, Goto, IInv, TypeOK
  <2>7. QED
    BY <2>1, <2>2, <2>3, <2>4, <2>5, <2>6 DEF Start, Ops
<1>2. TypeOK'
  BY <1>1 DEF Started, IInv, TypeOK, Strays
<1>3. JobInv' /\ CommitInv'
  BY <1>1 DEF Started, IInv, TypeOK, JobInv, CommitInv
<1>4. SnapshotInv'
  BY <1>1 DEF Started, IInv, TypeOK, SnapshotInv, Fresh
<1>5. QED
  BY <1>2, <1>3, <1>4 DEF Started, IInv

LEMMA ReadInv ==
  ASSUME IInv, NEW r \in Requests, Read(r)
  PROVE  IInv'
<1>1. PICK l \in {"write", "create", "unlock", "done"} :
        /\ pc' = [pc EXCEPT ![r] = l]
        /\ l = "write" => inv.exists /\ (job[r].op = "reserve" => ~Insufficient(r))
        /\ l = "create" => job[r].op = "adjust"
        /\ pc[r] = "read"
  BY DEF Read, Goto, Exit
<1>2. seen' = [seen EXCEPT ![r] = inv] /\ UNCHANGED <<inv, lock, job, committed, orphans, outbox>>
  BY DEF Read
<1>3. TypeOK'
  BY <1>1, <1>2 DEF IInv, TypeOK, Strays
<1>4. JobInv' /\ CommitInv'
  BY <1>1, <1>2 DEF IInv, TypeOK, JobInv, CommitInv
<1>5. SnapshotInv'
  <2> SUFFICES ASSUME NEW s \in Requests, pc'[s] = "write"
               PROVE  /\ s \notin orphans' => Fresh(s)'
                      /\ job'[s].op = "reserve" => job'[s].qty <= Available(seen'[s])
    BY DEF SnapshotInv
  <2>1. CASE s = r
    <3>1. seen'[r] = inv /\ inv \in Doc /\ job[r] \in Job
      BY <1>2 DEF IInv, TypeOK
    <3>2. Fresh(s)'
      BY <2>1, <1>1, <1>2, <3>1 DEF Fresh, Doc, IInv, TypeOK
    <3>3. job[r].op = "reserve" => job[r].qty <= Available(inv)
      BY <2>1, <1>1, <3>1 DEF Insufficient, Available, Max0, Doc, Job, IInv, TypeOK
    <3>4. QED
      BY <2>1, <1>2, <3>1, <3>2, <3>3
  <2>2. CASE s # r
    BY <2>2, <1>1, <1>2 DEF IInv, TypeOK, SnapshotInv, Fresh
  <2>3. QED
    BY <2>1, <2>2
<1>6. QED
  BY <1>3, <1>4, <1>5 DEF IInv

LEMMA CreateInv ==
  ASSUME IInv, NEW r \in Requests, Create(r)
  PROVE  IInv'
<1>1. CASE ~inv.exists /\ inv' = NewDoc(Max0(job[r].qty))
           /\ committed' = committed \union {r} /\ pc' = [pc EXCEPT ![r] = "event"]
  <2>1. /\ NewDoc(Max0(job[r].qty)) \in Doc
        /\ NewDoc(Max0(job[r].qty)).quantity >= 0 /\ NewDoc(Max0(job[r].qty)).reserved >= 0
    BY DEF NewDoc, Max0, Doc, IInv, TypeOK, Job
  <2>2. UNCHANGED <<lock, job, seen, orphans, outbox>>
    BY DEF Create
  <2>3. TypeOK'
    BY <1>1, <2>1, <2>2 DEF IInv, TypeOK
  <2>4. JobInv' /\ CommitInv'
    BY <1>1, <2>2 DEF IInv, TypeOK, JobInv, CommitInv
  <2>5. SnapshotInv'   \* there was no record: whoever is about to write is an orphan
    BY <1>1, <2>2 DEF IInv, TypeOK, SnapshotInv, Fresh
  <2>6. QED
    BY <2>3, <2>4, <2>5 DEF IInv
<1>2. CASE pc' = [pc EXCEPT ![r] = Exit(r)] /\ UNCHANGED <<inv, committed>>
  <2>1. Exit(r) \in {"unlock", "done"} /\ UNCHANGED <<lock, job, seen, orphans, outbox>>
    BY DEF Exit, Create
  <2>2. TypeOK'
    BY <1>2, <2>1 DEF IInv, TypeOK, Strays
  <2>3. JobInv' /\ CommitInv' /\ SnapshotInv'
    BY <1>2, <2>1 DEF IInv, TypeOK, JobInv, CommitInv, SnapshotInv, Fresh
  <2>4. QED
    BY <2>2, <2>3 DEF IInv
<1>3. QED
  BY <1>1, <1>2 DEF Create, Goto

\* Steps that touch neither the record nor any snapshot.
LEMMA OtherInv ==
  ASSUME IInv, NEW r \in Requests,
         SaveEvent(r) \/ SaveLowStockAlert(r) \/ Unlock(r) \/ Crash(r)
  PROVE  IInv'
<1>1. PICK l \in {"alert", "unlock", "done"} : pc' = [pc EXCEPT ![r] = l]
  BY DEF SaveEvent, SaveLowStockAlert, Unlock, Crash, Goto, Exit
<1>2. /\ UNCHANGED <<inv, job, seen, committed, orphans>>
      /\ lock' \in {lock, NoRequest}
  BY DEF SaveEvent, SaveLowStockAlert, Unlock, Crash
<1>3. outbox' \subseteq Event
  BY DEF SaveEvent, SaveLowStockAlert, Unlock, Crash, EventType, Event, IInv, TypeOK
<1>4. TypeOK'
  BY <1>1, <1>2, <1>3 DEF IInv, TypeOK, Strays
<1>5. JobInv' /\ CommitInv' /\ SnapshotInv'
  BY <1>1, <1>2 DEF IInv, TypeOK, JobInv, CommitInv, SnapshotInv, Fresh
<1>6. QED
  BY <1>4, <1>5 DEF IInv

LEMMA EnvironmentInv ==
  ASSUME IInv, LockExpires \/ ProductDeleted \/ UNCHANGED vars
  PROVE  IInv'
<1>1. CASE LockExpires
  BY <1>1 DEF LockExpires, IInv, TypeOK, JobInv, CommitInv, SnapshotInv, Fresh, Strays
<1>2. CASE ProductDeleted
  <2>1. /\ inv' = NoDoc /\ NoDoc \in Doc /\ NoDoc.quantity = 0 /\ NoDoc.reserved = 0
        /\ orphans' = orphans \union {r \in Requests : pc[r] = "write"}
        /\ UNCHANGED <<lock, pc, job, seen, committed, outbox>>
    BY <1>2 DEF ProductDeleted, NoDoc, Doc
  <2>2. QED
    BY <2>1 DEF IInv, TypeOK, JobInv, CommitInv, SnapshotInv, Strays
<1>3. CASE UNCHANGED vars
  BY <1>3 DEF vars, IInv, TypeOK, JobInv, CommitInv, SnapshotInv, Fresh, Strays
<1>4. QED
  BY <1>1, <1>2, <1>3

LEMMA NextInv ==
  ASSUME IInv, [Next]_vars
  PROVE  IInv'
<1>1. ASSUME NEW r \in Requests, Start(r) PROVE IInv'
  BY <1>1, StartInv
<1>2. ASSUME NEW r \in Requests, Continue(r) PROVE IInv'
  BY <1>2, ReadInv, WriteInv, CreateInv, OtherInv DEF Continue, Write
<1>3. ASSUME NEW r \in Requests, Crash(r) PROVE IInv'
  BY <1>3, OtherInv
<1>4. QED
  BY <1>1, <1>2, <1>3, EnvironmentInv DEF Next

LEMMA Invariance == Spec => []IInv
<1>1. Init => IInv
  BY InitInv
<1>2. IInv /\ [Next]_vars => IInv'
  BY NextInv
<1>3. QED
  BY <1>1, <1>2, PTL DEF Spec

\* The record stays well formed and its counters natural numbers, whatever
\* interleaving of reserve, release, deplete and adjust requests runs.
THEOREM TypeCorrect == Spec => []TypeOK
<1>1. IInv => TypeOK
  BY DEF IInv
<1>2. QED
  BY <1>1, Invariance, PTL

-----------------------------------------------------------------------------
(* Refinement of StockLedger. *)

StockUnchanged == inv'.exists = inv.exists /\ inv'.quantity = inv.quantity
                    /\ inv'.reserved = inv.reserved

\* What a step of the service is: the ledger's, a stray write, or invisible.
Refined == Ledger!Next \/ Stray \/ StockUnchanged

\* A write by an orphan strays to a re-created record or changes nothing.
LEMMA OrphanWrites ==
  ASSUME IInv, NEW r \in orphans,
         ReserveWrite(r) \/ ReleaseWrite(r) \/ DepleteWrite(r) \/ AdjustWrite(r)
  PROVE  Stray \/ StockUnchanged
<1>1. r \in Requests /\ pc[r] = "write" /\ r \notin committed
  BY DEF IInv, TypeOK, CommitInv, ReserveWrite, ReleaseWrite, DepleteWrite, AdjustWrite
<1>2. (committed' = committed \union {r}) \/ inv' = inv
  BY DEF ReserveWrite, ReleaseWrite, DepleteWrite, AdjustWrite, OptimisticIncrement
<1>3. QED
  BY <1>1, <1>2 DEF Stray, Commits, StockUnchanged

\* A write whose version matches is the operation of the ledger applied to the
\* current stock; one whose version does not match changes nothing.
LEMMA WriteRefines ==
  ASSUME IInv, NEW r \in Requests,
         ReserveWrite(r) \/ ReleaseWrite(r) \/ DepleteWrite(r) \/ AdjustWrite(r)
  PROVE  Refined
<1> SUFFICES ASSUME r \notin orphans PROVE Refined
  BY OrphanWrites DEF Refined
<1> DEFINE Added(dq, dr) == /\ inv'.exists = inv.exists
                           /\ inv'.quantity = inv.quantity + dq
                           /\ inv'.reserved = inv.reserved + dr
<1>1. ASSUME NEW dq \in Int, NEW dr \in Int, OptimisticIncrement(r, dq, dr)
      PROVE  (VersionMatches(r) /\ Added(dq, dr)) \/ StockUnchanged
  BY <1>1 DEF OptimisticIncrement, StockUnchanged, IInv, TypeOK, Doc
<1>2. /\ inv \in Doc /\ seen[r] \in Doc /\ job[r] \in Job
      /\ inv.quantity \in Int /\ inv.reserved \in Int
      /\ seen[r].quantity \in Int /\ seen[r].reserved \in Int /\ job[r].qty \in Int
  BY DEF IInv, TypeOK, Doc, Job
<1>3. pc[r] = "write" /\ VersionMatches(r) =>
        inv.exists /\ seen[r].quantity = inv.quantity /\ seen[r].reserved = inv.reserved
  BY DEF IInv, SnapshotInv, Fresh, VersionMatches
<1>4. CASE ReserveWrite(r)
  <2>1. job[r].qty \in Quantities /\ job[r].qty <= Available(seen[r])
    BY <1>4 DEF ReserveWrite, IInv, JobInv, SnapshotInv
  <2>2. ASSUME VersionMatches(r), Added(0, job[r].qty)
        PROVE  Ledger!Reserve(job[r].qty)
    BY <2>1, <2>2, <1>2, <1>3, <1>4
       DEF ReserveWrite, Ledger!Reserve, Ledger!Free, Ledger!NonNeg, Available, Max0
  <2>3. OptimisticIncrement(r, 0, job[r].qty)
    BY <1>4 DEF ReserveWrite
  <2>4. QED
    BY <1>1, <1>2, <2>1, <2>2, <2>3 DEF Ledger!Next, Refined
<1>5. CASE ReleaseWrite(r)
  <2>1. job[r].qty \in Quantities
    BY <1>5 DEF ReleaseWrite, IInv, JobInv
  <2>2. ASSUME VersionMatches(r), Added(0, -Released(r))
        PROVE  Ledger!Release(job[r].qty)
    BY <2>2, <1>2, <1>3, <1>5
       DEF ReleaseWrite, Released, Ledger!Release, Ledger!Least, Min2
  <2>3. OptimisticIncrement(r, 0, -Released(r)) /\ -Released(r) \in Int
    BY <1>5, <1>2 DEF ReleaseWrite, Released, Min2
  <2>4. QED
    BY <1>1, <2>1, <2>2, <2>3 DEF Ledger!Next, Refined
<1>6. CASE DepleteWrite(r)
  <2> DEFINE dq == -Min2(seen[r].quantity, job[r].qty)
             dr == -Min2(seen[r].reserved, job[r].qty)
  <2>1. job[r].qty \in Quantities
    BY <1>6 DEF DepleteWrite, IInv, JobInv
  <2>2. ASSUME VersionMatches(r), Added(dq, dr)
        PROVE  Ledger!Deplete(job[r].qty)
    BY <2>2, <1>2, <1>3, <1>6 DEF DepleteWrite, Ledger!Deplete, Ledger!Least, Min2
  <2>3. OptimisticIncrement(r, dq, dr) /\ dq \in Int /\ dr \in Int
    BY <1>6, <1>2 DEF DepleteWrite, Min2
  <2> HIDE DEF dq, dr
  <2>4. QED
    BY <1>1, <2>1, <2>2, <2>3 DEF Ledger!Next, Refined
<1>7. CASE AdjustWrite(r)
  <2> DEFINE dq == Max0(seen[r].quantity + job[r].qty) - seen[r].quantity
  <2>1. job[r].qty \in Changes
    BY <1>7 DEF AdjustWrite, IInv, JobInv
  <2>2. ASSUME VersionMatches(r), Added(dq, 0)
        PROVE  Ledger!Adjust(job[r].qty)
    BY <2>2, <1>2, <1>3, <1>7 DEF AdjustWrite, Ledger!Adjust, Ledger!NonNeg, Max0
  <2>3. OptimisticIncrement(r, dq, 0) /\ dq \in Int
    BY <1>7, <1>2 DEF AdjustWrite, Max0
  <2> HIDE DEF dq
  <2>4. QED
    BY <1>1, <2>1, <2>2, <2>3 DEF Ledger!Next, Refined
<1>8. QED
  BY <1>4, <1>5, <1>6, <1>7

\* Every step is a step of the ledger, a stray write, or leaves the stock alone.
LEMMA NextRefines ==
  ASSUME IInv, [Next]_vars
  PROVE  Refined
<1>1. ASSUME NEW r \in Requests, Create(r) PROVE Refined
  <2>1. CASE UNCHANGED inv
    BY <2>1 DEF StockUnchanged, Refined
  <2>2. CASE ~inv.exists /\ inv' = NewDoc(Max0(job[r].qty))
    <3>1. job[r].qty \in Changes
      BY <1>1 DEF Create, IInv, JobInv
    <3>2. Ledger!Open(job[r].qty)
      BY <2>2 DEF Ledger!Open, Ledger!NonNeg, NewDoc, Max0
    <3>3. QED
      BY <3>1, <3>2 DEF Ledger!Next, Refined
  <2>3. QED
    BY <1>1, <2>1, <2>2 DEF Create
<1>2. CASE ProductDeleted
  BY <1>2 DEF ProductDeleted, NoDoc, Refined, Ledger!Next, Ledger!Close
<1>3. ASSUME NEW r \in Requests,
             \/ Start(r) \/ Read(r) \/ SaveEvent(r) \/ SaveLowStockAlert(r)
             \/ Unlock(r) \/ Crash(r)
      PROVE  StockUnchanged
  BY <1>3 DEF Start, StartReserve, StartRelease, StartDeplete, StartAdjust, Read,
              SaveEvent, SaveLowStockAlert, Unlock, Crash, StockUnchanged
<1>4. LockExpires \/ UNCHANGED vars => StockUnchanged
  BY DEF LockExpires, vars, StockUnchanged
<1>5. QED
  BY <1>1, <1>2, <1>3, <1>4, WriteRefines DEF Next, Continue, Write, Refined

\* Reservations, releases, depletions, adjustments, creations and deletions
\* take effect one at a time on the current stock; nothing but a write whose
\* record was deleted and created again under it escapes.
THEOREM RefinesLedger == Spec => LedgerSpec
<1>1. ASSUME Init PROVE Ledger!Init
  <2>1. CASE inv = NoDoc
    BY <2>1 DEF NoDoc, Ledger!Init
  <2>2. CASE inv = NewDoc(InitialStock)
    BY <2>2, StockAssumption DEF NewDoc, Ledger!Init
  <2>3. QED
    BY <1>1, <2>1, <2>2 DEF Init
<1>2. IInv /\ [Next]_vars => [Ledger!Next \/ Stray]_(Ledger!stock)
  BY NextRefines DEF Refined, StockUnchanged, Ledger!stock
<1>3. QED
  BY <1>1, <1>2, Invariance, PTL DEF Spec, LedgerSpec

\* No interleaving of requests makes a reservation exceed the stock of the
\* record it read.
THEOREM NoOverselling == Spec => ReserveNeverOversells
<1> DEFINE Fits == \A r \in Requests \ orphans :
              job[r].op = "reserve" /\ Commits(r) => inv'.reserved <= inv'.quantity
<1>1. IInv /\ [Next]_vars => Fits
  <2> SUFFICES ASSUME IInv, Next, NEW r \in Requests, r \notin orphans,
                      job[r].op = "reserve", Commits(r)
               PROVE  inv'.reserved <= inv'.quantity
    BY DEF vars, Commits
  <2>1. ReserveWrite(r)
    BY DEF Next, Start, StartReserve, StartRelease, StartDeplete, StartAdjust, Continue,
           Read, Write, ReserveWrite, ReleaseWrite, DepleteWrite, AdjustWrite, Create,
           OptimisticIncrement, SaveEvent, SaveLowStockAlert, Unlock, Crash, LockExpires,
           ProductDeleted, Commits, IInv, JobInv
  <2>2. /\ inv \in Doc /\ seen[r] \in Doc /\ VersionMatches(r)
        /\ inv'.quantity = inv.quantity + 0 /\ inv'.reserved = inv.reserved + job[r].qty
    <3>1. inv \in Doc /\ seen[r] \in Doc
      BY DEF IInv, TypeOK
    <3>2. VersionMatches(r) /\ inv' = [inv EXCEPT !.quantity = @ + 0,
                                       !.reserved = @ + job[r].qty, !.version = @ + 1]
      BY <2>1 DEF ReserveWrite, OptimisticIncrement, Commits
    <3>3. QED
      BY <3>1, <3>2 DEF Doc
  <2>3. /\ seen[r].quantity = inv.quantity /\ seen[r].reserved = inv.reserved
        /\ job[r].qty <= Available(seen[r]) /\ job[r].qty \in Nat \ {0}
    BY <2>1, <2>2, QuantitiesAssumption
       DEF ReserveWrite, VersionMatches, IInv, JobInv, SnapshotInv, Fresh
  <2>4. QED
    BY <2>2, <2>3 DEF Available, Max0, Doc
<1>2. IInv /\ [Next]_vars => [Fits]_vars
  BY <1>1
<1>3. QED
  BY <1>2, Invariance, PTL DEF Spec, ReserveNeverOversells
=============================================================================
