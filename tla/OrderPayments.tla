--------------------------- MODULE OrderPayments ---------------------------
(***************************************************************************)
(* One order, the payments initialised for it, and the requests that       *)
(* change them at the same time (src/src/modules/orders, .../payments):    *)
(*                                                                         *)
(*   verifyPayment      webhook, redirect or poll: read payment, ask the   *)
(*                      gateway, write payment, write order.paymentStatus, *)
(*                      updateOrderStatus(CONFIRMED), PaymentSuccess event *)
(*   updateOrderStatus  staff: read order, check the transition, write     *)
(*   cancelOrder        customer: read order, check, write, releaseStock   *)
(*                                                                         *)
(* Each await is a step; none of them uses a lock, a transaction or a      *)
(* conditional write.  A request can stop after any step: a crash, or a    *)
(* database call that throws.                                              *)
(***************************************************************************)
EXTENDS Naturals

CONSTANTS
  Payments,     \* payments that may be initialised for the order
  Unasked,      \* those of a provider that is not asked: it always says SUCCESS
  Procs,        \* request slots of the API
  MaxRequests,  \* bound on requests served
  MaxFaults     \* bound on crashes and failed database calls

ASSUME OrderAssumption ==
  /\ MaxRequests \in Nat /\ MaxFaults \in Nat
  /\ Unasked \subseteq Payments
  /\ "none" \notin Payments

VARIABLES
  orderStatus,    \* order.orderStatus
  visited,        \* the statuses in order.statusHistory
  orderPaid,      \* order.paymentSummary.paymentStatus
  payStatus,      \* payment.status, "none" before initializePayment
  paid,           \* what the gateway knows: was the money taken?
  successEvents,  \* PaymentSuccess events saved per payment
  released,       \* how often the order's stock was released
  pc,             \* where each request is
  req,            \* what each request is about
  overlapped,     \* whether a request ever arrived during another (history)
  started, faults

orderVars == <<orderStatus, visited, orderPaid>>
paymentVars == <<payStatus, paid, successEvents>>
vars == <<orderStatus, visited, orderPaid, payStatus, paid, successEvents,
          released, pc, req, overlapped, started, faults>>
arrivals == <<overlapped, started>>

OrderStatuses == {"PENDING", "CONFIRMED", "PROCESSING", "SHIPPED", "OUT_FOR_DELIVERY",
                  "DELIVERED", "CANCELLED", "RETURN_REQUESTED", "REFUNDED"}
PaymentStatuses == {"none", "PENDING", "SUCCESS", "FAILED"}
Stages == {"idle", "gateway", "paySuccess", "payFailed", "orderPaid", "readOrder",
           "write", "successEvent", "release"}
Actors == {"webhook", "staff", "customer"}
Request == [by : Actors, payment : Payments \union {"none"}, status : OrderStatuses]
NoRequest == [by |-> "staff", payment |-> "none", status |-> "PENDING"]

-----------------------------------------------------------------------------
(* order-status.enum.ts *)

VALID_ORDER_TRANSITIONS ==
  [s \in OrderStatuses |->
    CASE s = "PENDING" -> {"CONFIRMED", "PROCESSING", "SHIPPED", "OUT_FOR_DELIVERY",
                           "DELIVERED", "CANCELLED"}
      [] s = "CONFIRMED" -> {"PROCESSING", "SHIPPED", "OUT_FOR_DELIVERY", "DELIVERED", "CANCELLED"}
      [] s = "PROCESSING" -> {"SHIPPED", "OUT_FOR_DELIVERY", "DELIVERED", "CANCELLED"}
      [] s = "SHIPPED" -> {"OUT_FOR_DELIVERY", "DELIVERED", "CANCELLED"}
      [] s = "OUT_FOR_DELIVERY" -> {"DELIVERED", "CANCELLED"}
      [] s = "DELIVERED" -> {"RETURN_REQUESTED", "REFUNDED"}
      [] s = "RETURN_REQUESTED" -> {"REFUNDED"}
      [] OTHER -> {}]

\* Variant: the admin bypass of the transition check applies to everyone.
AnyTransition(current, new) == current \in OrderStatuses /\ new \in OrderStatuses
isValidOrderTransition(current, new) ==
  current = new \/ new \in VALID_ORDER_TRANSITIONS[current]

-----------------------------------------------------------------------------

Init ==
  /\ orderStatus = "PENDING"
  /\ visited = {"PENDING"}
  /\ orderPaid = "PENDING"
  /\ payStatus = [p \in Payments |-> "none"]
  /\ paid = [p \in Payments |-> FALSE]
  /\ successEvents = [p \in Payments |-> 0]
  /\ released = 0
  /\ pc = [r \in Procs |-> "idle"]
  /\ req = [r \in Procs |-> NoRequest]
  /\ overlapped = FALSE
  /\ started = 0
  /\ faults = 0

\* The request goes on at l, or is over and forgotten.
Goto(r, l) ==
  /\ pc' = [pc EXCEPT ![r] = l]
  /\ req' = IF l = "idle" THEN [req EXCEPT ![r] = NoRequest] ELSE req

\* A request arrives at a free slot and goes on at l.
Arrive(r, by, p, s, l) ==
  /\ pc[r] = "idle"
  /\ started < MaxRequests
  /\ started' = started + 1
  /\ overlapped' = (overlapped \/ \E q \in Procs : pc[q] # "idle")
  /\ pc' = [pc EXCEPT ![r] = l]
  /\ req' = [req EXCEPT ![r] = IF l = "idle" THEN NoRequest
                               ELSE [by |-> by, payment |-> p, status |-> s]]

-----------------------------------------------------------------------------
(* Payments *)

\* initializePayment: the gateway session first, then the Payment document.
\* Nothing stops a second one for the same order.
InitializePayment(p) ==
  /\ payStatus[p] = "none"
  /\ payStatus' = [payStatus EXCEPT ![p] = "PENDING"]
  /\ UNCHANGED <<orderVars, paid, successEvents, released, pc, req, arrivals, faults>>

\* The customer pays at the gateway.
Pay(p) ==
  /\ payStatus[p] # "none"
  /\ ~paid[p]
  /\ paid' = [paid EXCEPT ![p] = TRUE]
  /\ UNCHANGED <<orderVars, payStatus, successEvents, released, pc, req, arrivals, faults>>

\* Variant: no early return for a payment that already succeeded.
VerifyAlways(r, p) ==
  /\ payStatus[p] # "none"
  /\ Arrive(r, "webhook", p, "CONFIRMED", "gateway")
  /\ UNCHANGED <<orderVars, paymentVars, released, faults>>

\* verifyPayment: findByRef, and the early return of the idempotent check.
Verify(r, p) ==
  /\ payStatus[p] # "none"
  /\ Arrive(r, "webhook", p, "CONFIRMED",
            IF payStatus[p] = "SUCCESS" THEN "idle" ELSE "gateway")
  /\ UNCHANGED <<orderVars, paymentVars, released, faults>>

\* Variant: everything but an explicit failure counts as a success.
NotFailed(p) == {"paySuccess", "payFailed"}
\* strategy.verifyPayment.  Moniepoint's, and the others' without keys, say
\* SUCCESS and ask nobody.  A gateway that is asked confirms only money it has
\* taken; an error talking to it is reported as FAILED, and so is PENDING in
\* verifyPayment.
GatewayAnswers(p) ==
  {l \in {"paySuccess", "payFailed"} :
     IF p \in Unasked THEN l = "paySuccess" ELSE paid[p] \/ l = "payFailed"}

AskGateway(r) ==
  /\ pc[r] = "gateway"
  /\ \E l \in GatewayAnswers(req[r].payment) : Goto(r, l)
  /\ UNCHANGED <<orderVars, paymentVars, released, arrivals, faults>>

WritePayment(r, l, status, next) ==
  /\ pc[r] = l
  /\ payStatus' = [payStatus EXCEPT ![req[r].payment] = status]
  /\ Goto(r, next)
  /\ UNCHANGED <<orderVars, paid, successEvents, released, arrivals, faults>>

\* Variant: the gateway's own word for an abandoned payment is stored.
RecordGatewayWord(r) == WritePayment(r, "payFailed", "ABANDONED", "idle")
RecordFailure(r) == WritePayment(r, "payFailed", "FAILED", "idle")
\* Variant: the order is not marked as paid.
RecordSuccessOnly(r) == WritePayment(r, "paySuccess", "SUCCESS", "readOrder")
RecordSuccess(r) == WritePayment(r, "paySuccess", "SUCCESS", "orderPaid")

\* ordersRepository.updatePaymentStatus
MarkOrderPaid(r) ==
  /\ pc[r] = "orderPaid"
  /\ orderPaid' = "SUCCESS"
  /\ Goto(r, "readOrder")
  /\ UNCHANGED <<orderStatus, visited, paymentVars, released, arrivals, faults>>

SavePaymentSuccess(r) ==
  /\ pc[r] = "successEvent"
  /\ successEvents' = [successEvents EXCEPT ![req[r].payment] = @ + 1]
  /\ Goto(r, "idle")
  /\ UNCHANGED <<orderVars, payStatus, paid, released, arrivals, faults>>

-----------------------------------------------------------------------------
(* Orders *)

\* What follows updateOrderStatus, whether or not it threw: the webhook goes on.
AfterUpdate(r) == IF req[r].by = "webhook" THEN "successEvent" ELSE "idle"

\* updateOrderStatus, read and transition check.  The controllers pass the
\* caller's user id, so the bypass for changedBy 'admin' never applies.
StaffUpdate(r, new) ==
  /\ Arrive(r, "staff", "none", new,
            IF isValidOrderTransition(orderStatus, new) THEN "write" ELSE "idle")
  /\ UNCHANGED <<orderVars, paymentVars, released, faults>>

ConfirmRead(r) ==
  /\ pc[r] = "readOrder"
  /\ Goto(r, IF isValidOrderTransition(orderStatus, "CONFIRMED") THEN "write" ELSE AfterUpdate(r))
  /\ UNCHANGED <<orderVars, paymentVars, released, arrivals, faults>>

\* Variant: the status is not looked at.
CancellableAlways == OrderStatuses
\* cancelOrder is allowed from these statuses only.
Cancellable == {"PENDING", "CONFIRMED"}

CustomerCancel(r) ==
  /\ Arrive(r, "customer", "none", "CANCELLED",
            IF orderStatus \in Cancellable THEN "write" ELSE "idle")
  /\ UNCHANGED <<orderVars, paymentVars, released, faults>>

\* ordersRepository.updateStatus: an unconditional findByIdAndUpdate.  The
\* outbox event that follows changes nothing modelled here.
WriteStatus(r) ==
  /\ pc[r] = "write"
  /\ orderStatus' = req[r].status
  /\ visited' = visited \union {req[r].status}
  /\ Goto(r, IF req[r].by = "customer" THEN "release" ELSE AfterUpdate(r))
  /\ UNCHANGED <<orderPaid, paymentVars, released, arrivals, faults>>

\* releaseStock for the items of the order; a failure is logged and swallowed.
ReleaseStock(r) ==
  /\ pc[r] = "release"
  /\ released' \in {released, released + 1}
  /\ Goto(r, "idle")
  /\ UNCHANGED <<orderVars, paymentVars, arrivals, faults>>

-----------------------------------------------------------------------------

\* The process dies, or a database call throws and the request is over.
Abort(r) ==
  /\ pc[r] # "idle"
  /\ faults < MaxFaults
  /\ faults' = faults + 1
  /\ Goto(r, "idle")
  /\ UNCHANGED <<orderVars, paymentVars, released, arrivals>>

\* A database call of updateOrderStatus throws inside verifyPayment's try
\* block: logged as a warning, and the payment's success is announced.
ConfirmFails(r) ==
  /\ pc[r] \in {"readOrder", "write"} /\ req[r].by = "webhook"
  /\ faults < MaxFaults
  /\ faults' = faults + 1
  /\ Goto(r, "successEvent")
  /\ UNCHANGED <<orderVars, paymentVars, released, arrivals>>

Continue(r) ==
  \/ AskGateway(r) \/ RecordFailure(r) \/ RecordSuccess(r) \/ MarkOrderPaid(r)
  \/ ConfirmRead(r) \/ WriteStatus(r) \/ SavePaymentSuccess(r) \/ ReleaseStock(r)

Next ==
  \/ \E p \in Payments : InitializePayment(p) \/ Pay(p)
  \/ \E r \in Procs :
       \/ Continue(r) \/ Abort(r) \/ ConfirmFails(r) \/ CustomerCancel(r)
       \/ \E p \in Payments : Verify(r, p)
       \/ \E s \in OrderStatuses : StaffUpdate(r, s)

Spec == Init /\ [][Next]_vars

\* A request that was received keeps running.
FairSpec == Spec /\ \A r \in Procs : WF_vars(Continue(r))

-----------------------------------------------------------------------------
(* Properties *)

TypeOK ==
  /\ orderStatus \in OrderStatuses
  /\ visited \subseteq OrderStatuses
  /\ orderPaid \in {"PENDING", "SUCCESS"}
  /\ payStatus \in [Payments -> PaymentStatuses]
  /\ paid \in [Payments -> BOOLEAN]
  /\ successEvents \in [Payments -> Nat]
  /\ released \in Nat
  /\ pc \in [Procs -> Stages]
  /\ req \in [Procs -> Request]
  /\ overlapped \in BOOLEAN
  /\ started \in Nat /\ faults \in Nat

\* The money was taken, or the payment is of a provider nobody asks.
Confirmed(p) == paid[p] \/ (p \in Unasked /\ payStatus[p] = "SUCCESS")

\* Nobody's order counts as paid, and no success is announced, unless the
\* gateway took the money or a provider that is never asked was verified -
\* whatever webhooks, polls, staff updates and cancellations interleave and
\* wherever requests stop.
PaidMeansPaid ==
  /\ \A p \in Payments : payStatus[p] = "SUCCESS" \/ successEvents[p] > 0 => Confirmed(p)
  /\ orderPaid = "SUCCESS" => \E p \in Payments : Confirmed(p)

\* However the unconditional writes interleave, an order is only returned or
\* refunded if it was delivered at some time.
ReturnsFollowDelivery ==
  visited \intersect {"RETURN_REQUESTED", "REFUNDED"} # {} => "DELIVERED" \in visited

\* A successful payment reaches its order, and the order leaves PENDING.
SuccessReachesOrder ==
  \A p \in Payments :
    payStatus[p] = "SUCCESS" ~> orderPaid = "SUCCESS" /\ visited # {"PENDING"}

\* It does if no process dies and no database call fails, whatever overlaps.
SuccessReachesOrderUnlessFault ==
  \A p \in Payments :
    payStatus[p] = "SUCCESS" ~> \/ orderPaid = "SUCCESS" /\ visited # {"PENDING"}
                               \/ faults > 0

(* What the service promises and keeps as long as requests do not overlap,    *)
(* crashes and failed calls included.                                         *)

\* "Idempotent check": a payment's success is announced at most once.
SerialSuccessIsAnnouncedOnce ==
  ~overlapped => \A p \in Payments : successEvents[p] <= 1

\* A payment that succeeded stays so.
SerialSuccessIsFinal ==
  [][~overlapped =>
       \A p \in Payments : payStatus[p] = "SUCCESS" => payStatus'[p] = "SUCCESS"]_vars

\* The stock of an order is released at most once.
SerialStockIsReleasedOnce == ~overlapped => released <= 1

=============================================================================
