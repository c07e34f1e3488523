----------------------- MODULE OrderPaymentsProofs -----------------------
(***************************************************************************)
(* Proofs about OrderPayments.tla, for any payments, requests and faults:  *)
(* nothing counts as paid that the gateway did not take or a provider that *)
(* is never asked did not vouch for, and nothing is returned or refunded   *)
(* that was not delivered.                                                 *)
(***************************************************************************)
EXTENDS OrderPayments, TLAPS

-----------------------------------------------------------------------------
(* The inductive invariant. *)

\* The requests that act on a payment, and know that it was made.
AfterAnswer == {"paySuccess", "orderPaid", "readOrder", "successEvent"}
Returned == {"RETURN_REQUESTED", "REFUNDED"}

\* What a request q at stage l knows: past the answer SUCCESS it carries a
\* payment that was made or that nobody is asked about, and once the success is
\* stored a confirmed one; only an answer FAILED sets a payment back, and that
\* is of a provider that was asked.
Known(l, q) ==
  /\ l \in AfterAnswer \union {"gateway", "payFailed"} =>
       q.payment \in Payments /\ q.by = "webhook" /\ q.status = "CONFIRMED"
  /\ l = "payFailed" => q.payment \notin Unasked
  /\ l = "paySuccess" => paid[q.payment] \/ q.payment \in Unasked
  /\ l \in {"orderPaid", "readOrder", "successEvent"} => Confirmed(q.payment)
  /\ l = "write" /\ q.by = "webhook" =>
       q.payment \in Payments /\ Confirmed(q.payment) /\ q.status = "CONFIRMED"

AnswerInv == \A r \in Procs : Known(pc[r], req[r])

\* A request about to write a return has read an order that was delivered.
ReturnInv ==
  /\ orderStatus \in visited
  /\ \A r \in Procs : pc[r] = "write" /\ req[r].status \in Returned => "DELIVERED" \in visited

IInv == TypeOK /\ AnswerInv /\ PaidMeansPaid /\ ReturnInv /\ ReturnsFollowDelivery

-----------------------------------------------------------------------------

\* A return or a refund can only be asked for after a delivery or a return.
LEMMA ReturnNeedsDelivery ==
  ASSUME NEW s \in OrderStatuses, NEW t \in Returned, isValidOrderTransition(s, t)
  PROVE  s = "DELIVERED" \/ s \in Returned
BY DEF isValidOrderTransition, VALID_ORDER_TRANSITIONS, OrderStatuses, Returned

\* So an order that may make this transition was delivered.
LEMMA ReturnReadsDelivered ==
  ASSUME IInv, NEW t \in Returned, isValidOrderTransition(orderStatus, t)
  PROVE  "DELIVERED" \in visited
<1>1. orderStatus \in OrderStatuses
  BY DEF IInv, TypeOK
<1>2. orderStatus = "DELIVERED" \/ orderStatus \in Returned
  BY <1>1, ReturnNeedsDelivery
<1>3. QED
  BY <1>2 DEF IInv, ReturnInv, ReturnsFollowDelivery, Returned

\* A step that only moves one request on keeps the invariant if what the
\* request carries at its new place is right.
LEMMA MoveInv ==
  ASSUME IInv, NEW r \in Procs, NEW l \in Stages, NEW q \in Request,
         pc' = [pc EXCEPT ![r] = l], req' = [req EXCEPT ![r] = q],
         overlapped' \in BOOLEAN, started' \in Nat, faults' \in Nat, released' \in Nat,
         UNCHANGED <<orderVars, paymentVars>>,
         Known(l, q),
         l = "write" /\ q.status \in Returned => "DELIVERED" \in visited
  PROVE  IInv'
<1> USE DEF orderVars, paymentVars, arrivals
<1>1. TypeOK'
  BY DEF IInv, TypeOK
<1>2. /\ pc'[r] = l /\ req'[r] = q
      /\ \A s \in Procs \ {r} : pc'[s] = pc[s] /\ req'[s] = req[s]
  BY DEF IInv, TypeOK
<1>3. AnswerInv'
  <2>1. \A s \in Procs : Known(pc'[s], req'[s])
    BY <1>2 DEF IInv, AnswerInv
  <2>2. \A m, z : Known(m, z)' <=> Known(m', z')
    BY DEF Known, Confirmed
  <2>3. QED
    BY <2>1, <2>2 DEF AnswerInv, Known, Confirmed
<1>4. ReturnInv'
  BY <1>2 DEF IInv, ReturnInv
<1>5. PaidMeansPaid' /\ ReturnsFollowDelivery'
  BY DEF IInv, PaidMeansPaid, Confirmed, ReturnsFollowDelivery
<1>6. QED
  BY <1>1, <1>3, <1>4, <1>5 DEF IInv

-----------------------------------------------------------------------------

LEMMA InitInv == Init => IInv
<1> SUFFICES ASSUME Init PROVE IInv
  OBVIOUS
<1> USE OrderAssumption
<1>1. TypeOK
  BY DEF Init, TypeOK, Request, NoRequest, Actors, OrderStatuses, PaymentStatuses, Stages
<1>2. AnswerInv
  BY DEF Init, AnswerInv, Known, AfterAnswer
<1>3. PaidMeansPaid
  BY DEF Init, PaidMeansPaid
<1>4. ReturnInv /\ ReturnsFollowDelivery
  BY DEF Init, ReturnInv, ReturnsFollowDelivery
<1>5. QED
  BY <1>1, <1>2, <1>3, <1>4 DEF IInv

\* NoRequest is a request, and an idle slot may hold it.
LEMMA NoRequestType == NoRequest \in Request
BY DEF NoRequest, Request, Actors, OrderStatuses

\* A request that moves on to l keeps what it is about, or forgets it when over.
LEMMA GotoInv ==
  ASSUME IInv, NEW r \in Procs, NEW l \in Stages, Goto(r, l),
         overlapped' \in BOOLEAN, started' \in Nat, faults' \in Nat, released' \in Nat,
         UNCHANGED <<orderVars, paymentVars>>,
         Known(l, req[r]),
         l = "write" /\ req[r].status \in Returned => "DELIVERED" \in visited
  PROVE  IInv'
<1>1. req \in [Procs -> Request]
  BY DEF IInv, TypeOK
<1>2. CASE l = "idle"
  <2>1. pc' = [pc EXCEPT ![r] = l] /\ req' = [req EXCEPT ![r] = NoRequest]
    BY <1>2 DEF Goto
  <2>2. QED
    BY <1>2, <2>1, NoRequestType, MoveInv DEF Known, AfterAnswer
<1>3. CASE l # "idle"
  <2>1. pc' = [pc EXCEPT ![r] = l] /\ req' = [req EXCEPT ![r] = req[r]]
    BY <1>1, <1>3 DEF Goto
  <2>2. req[r] \in Request
    BY <1>1
  <2>3. QED
    BY <2>1, <2>2, MoveInv
<1>4. QED
  BY <1>2, <1>3

\* The arrival of a request, at the stage its first read leads to.
LEMMA ArriveInv ==
  ASSUME IInv, NEW r \in Procs, NEW by \in Actors, NEW p \in Payments \union {"none"},
         NEW s \in OrderStatuses, NEW l \in {"idle", "gateway", "write"},
         Arrive(r, by, p, s, l),
         UNCHANGED <<orderVars, paymentVars, released, faults>>,
         l = "gateway" => p \in Payments /\ by = "webhook" /\ s = "CONFIRMED",
         l = "write" => by # "webhook",
         l = "write" /\ s \in Returned => "DELIVERED" \in visited
  PROVE  IInv'
<1> DEFINE q == IF l = "idle" THEN NoRequest ELSE [by |-> by, payment |-> p, status |-> s]
<1>1. q \in Request /\ l \in Stages
  BY NoRequestType DEF Request, Stages
<1>2. pc' = [pc EXCEPT ![r] = l] /\ req' = [req EXCEPT ![r] = q]
  BY DEF Arrive
<1>3. overlapped' \in BOOLEAN /\ started' \in Nat /\ faults' \in Nat /\ released' \in Nat
  BY DEF Arrive, IInv, TypeOK
<1>4. l # "idle" => q.payment = p /\ q.by = by /\ q.status = s
  OBVIOUS
<1> HIDE DEF q
<1>5. Known(l, q)
  BY <1>4 DEF Known, AfterAnswer
<1>6. QED
  BY <1>1, <1>2, <1>3, <1>4, <1>5, MoveInv

\* The writes of verifyPayment to the payment.
LEMMA WritePaymentInv ==
  ASSUME IInv, NEW r \in Procs, RecordFailure(r) \/ RecordSuccess(r)
  PROVE  IInv'
<1> USE DEF orderVars, arrivals
<1>1. req[r].payment \in Payments /\ req[r].by = "webhook" /\ req[r].status = "CONFIRMED"
  BY DEF IInv, AnswerInv, Known, AfterAnswer, RecordFailure, RecordSuccess, WritePayment
<1>2. PICK status \in {"SUCCESS", "FAILED"}, l \in {"idle", "orderPaid"} :
        /\ payStatus' = [payStatus EXCEPT ![req[r].payment] = status]
        /\ Goto(r, l)
        /\ UNCHANGED <<orderVars, paid, successEvents, released, arrivals, faults>>
        /\ status = "SUCCESS" => paid[req[r].payment] \/ req[r].payment \in Unasked
        /\ status = "FAILED" => l = "idle" /\ req[r].payment \notin Unasked
  BY DEF IInv, AnswerInv, Known, RecordFailure, RecordSuccess, WritePayment
<1>3. /\ pc' = [pc EXCEPT ![r] = l]
      /\ \/ req' = req
         \/ l = "idle" /\ req' = [req EXCEPT ![r] = NoRequest]
  BY <1>2 DEF Goto
<1>4. TypeOK'
  <2>1. payStatus' \in [Payments -> PaymentStatuses]
    BY <1>1, <1>2 DEF IInv, TypeOK, PaymentStatuses
  <2>2. pc' \in [Procs -> Stages] /\ req' \in [Procs -> Request]
    BY <1>3, NoRequestType DEF IInv, TypeOK, Stages
  <2>3. QED
    BY <1>2, <2>1, <2>2 DEF IInv, TypeOK
<1>5. /\ pc'[r] = l /\ (l # "idle" => req'[r] = req[r])
      /\ \A s \in Procs \ {r} : pc'[s] = pc[s] /\ req'[s] = req[s]
  BY <1>3 DEF IInv, TypeOK
<1>6. /\ payStatus'[req[r].payment] = status
      /\ \A p \in Payments \ {req[r].payment} : payStatus'[p] = payStatus[p]
  BY <1>1, <1>2 DEF IInv, TypeOK
<1>7. AnswerInv'
  BY <1>1, <1>2, <1>5, <1>6 DEF IInv, AnswerInv, Known, Confirmed, AfterAnswer
<1>8. PaidMeansPaid'
  <2>1. /\ \A p \in Payments : paid'[p] = paid[p] /\ successEvents'[p] = successEvents[p]
        /\ orderPaid' = orderPaid
    BY <1>2
  <2>2. \A p \in Payments : Confirmed(p) =>
          paid'[p] \/ (p \in Unasked /\ payStatus'[p] = "SUCCESS")
    BY <1>2, <1>6, <2>1 DEF Confirmed
  <2>3. \A p \in Payments : payStatus'[p] = "SUCCESS" \/ successEvents'[p] > 0 =>
          paid'[p] \/ (p \in Unasked /\ payStatus'[p] = "SUCCESS")
    BY <1>2, <1>6, <2>1, <2>2 DEF IInv, PaidMeansPaid
  <2>4. orderPaid' = "SUCCESS" => \E p \in Payments :
          paid'[p] \/ (p \in Unasked /\ payStatus'[p] = "SUCCESS")
    BY <2>1, <2>2 DEF IInv, PaidMeansPaid
  <2>5. QED
    BY <2>3, <2>4 DEF PaidMeansPaid, Confirmed
<1>9. ReturnInv' /\ ReturnsFollowDelivery'
  BY <1>2, <1>5 DEF IInv, ReturnInv, ReturnsFollowDelivery
<1>10. QED
  BY <1>4, <1>7, <1>8, <1>9 DEF IInv

\* Marking the order as paid and saving the PaymentSuccess event.
LEMMA ConfirmWritesInv ==
  ASSUME IInv, NEW r \in Procs, MarkOrderPaid(r) \/ SavePaymentSuccess(r)
  PROVE  IInv'
<1> USE DEF orderVars, paymentVars, arrivals
<1>1. /\ req[r].payment \in Payments /\ Confirmed(req[r].payment)
      /\ req[r].by = "webhook" /\ req[r].status = "CONFIRMED"
  BY DEF IInv, AnswerInv, Known, AfterAnswer, MarkOrderPaid, SavePaymentSuccess
<1>2. PICK l \in {"idle", "readOrder"} :
        /\ Goto(r, l)
        /\ UNCHANGED <<orderStatus, visited, payStatus, paid, released, arrivals, faults>>
        /\ orderPaid' \in {orderPaid, "SUCCESS"}
        /\ successEvents' \in {successEvents, [successEvents EXCEPT ![req[r].payment] = @ + 1]}
  BY DEF MarkOrderPaid, SavePaymentSuccess
<1>3. /\ pc' = [pc EXCEPT ![r] = l]
      /\ \/ req' = req
         \/ l = "idle" /\ req' = [req EXCEPT ![r] = NoRequest]
  BY <1>2 DEF Goto
<1>4. TypeOK'
  <2>1. successEvents' \in [Payments -> Nat] /\ orderPaid' \in {"PENDING", "SUCCESS"}
    BY <1>1, <1>2 DEF IInv, TypeOK
  <2>2. pc' \in [Procs -> Stages] /\ req' \in [Procs -> Request]
    BY <1>3, NoRequestType DEF IInv, TypeOK, Stages
  <2>3. QED
    BY <1>2, <2>1, <2>2 DEF IInv, TypeOK
<1>5. /\ pc'[r] = l /\ (l # "idle" => req'[r] = req[r])
      /\ \A s \in Procs \ {r} : pc'[s] = pc[s] /\ req'[s] = req[s]
  BY <1>3 DEF IInv, TypeOK
<1>6. AnswerInv'
  BY <1>1, <1>2, <1>5 DEF IInv, AnswerInv, Known, Confirmed, AfterAnswer
<1>7. PaidMeansPaid'
  BY <1>1, <1>2 DEF IInv, PaidMeansPaid, Confirmed, TypeOK
<1>8. ReturnInv' /\ ReturnsFollowDelivery'
  BY <1>2, <1>5 DEF IInv, ReturnInv, ReturnsFollowDelivery
<1>9. QED
  BY <1>4, <1>6, <1>7, <1>8 DEF IInv

\* The unconditional write of the order's status.
LEMMA WriteStatusInv ==
  ASSUME IInv, NEW r \in Procs, WriteStatus(r)
  PROVE  IInv'
<1> USE DEF paymentVars, arrivals
<1>1. PICK l \in {"release", "successEvent", "idle"} :
        Goto(r, l) /\ (l = "successEvent" => req[r].by = "webhook")
  BY DEF WriteStatus, AfterUpdate
<1>2. /\ orderStatus' = req[r].status /\ visited' = visited \union {req[r].status}
      /\ UNCHANGED <<orderPaid, paymentVars, released, arrivals, faults>>
      /\ req[r].status \in OrderStatuses
  BY DEF WriteStatus, IInv, TypeOK, Request
<1>3. /\ pc' = [pc EXCEPT ![r] = l]
      /\ \/ l # "idle" /\ req' = req
         \/ req' = [req EXCEPT ![r] = NoRequest]
  BY <1>1 DEF Goto
<1>4. TypeOK'
  <2>1. pc' \in [Procs -> Stages] /\ req' \in [Procs -> Request]
    BY <1>3, NoRequestType DEF IInv, TypeOK, Stages
  <2>2. QED
    BY <1>2, <2>1 DEF IInv, TypeOK
<1>5. /\ pc'[r] = l /\ (l = "successEvent" => req'[r] = req[r] \/ req'[r] = NoRequest)
      /\ \A s \in Procs \ {r} : pc'[s] = pc[s] /\ req'[s] = req[s]
  BY <1>3 DEF IInv, TypeOK
<1>6. AnswerInv'
  <2>1. l = "successEvent" => /\ req'[r] = req[r]
                              /\ req[r].payment \in Payments /\ Confirmed(req[r].payment)
                              /\ req[r].by = "webhook" /\ req[r].status = "CONFIRMED"
    BY <1>1 DEF IInv, AnswerInv, Known, WriteStatus, Goto
  <2>2. QED
    BY <1>2, <1>5, <2>1 DEF IInv, AnswerInv, Known, Confirmed, AfterAnswer
<1>7. PaidMeansPaid'
  BY <1>2 DEF IInv, PaidMeansPaid, Confirmed
<1>8. ReturnInv'
  BY <1>2, <1>5 DEF IInv, ReturnInv
<1>9. ReturnsFollowDelivery'
  BY <1>2 DEF IInv, ReturnInv, ReturnsFollowDelivery, WriteStatus, Returned
<1>10. QED
  BY <1>4, <1>6, <1>7, <1>8, <1>9 DEF IInv

-----------------------------------------------------------------------------

\* Every step keeps the invariant: one step per action.
LEMMA NextInv == IInv /\ [Next]_vars => IInv'
<1> SUFFICES ASSUME IInv, [Next]_vars PROVE IInv'
  OBVIOUS
<1> USE DEF orderVars, paymentVars, arrivals
<1>0. CASE UNCHANGED vars
  BY <1>0 DEF vars, IInv, TypeOK, AnswerInv, Known, Confirmed, PaidMeansPaid, ReturnInv, ReturnsFollowDelivery
<1>1. ASSUME NEW p \in Payments, InitializePayment(p) PROVE IInv'
  <2>1. /\ payStatus' \in [Payments -> PaymentStatuses]
        /\ \A q \in Payments : payStatus'[q] = "SUCCESS" <=> payStatus[q] = "SUCCESS"
        /\ UNCHANGED <<orderVars, paid, successEvents, released, pc, req, arrivals, faults>>
    BY <1>1 DEF InitializePayment, IInv, TypeOK, PaymentStatuses
  <2>2. TypeOK'
    BY <2>1 DEF IInv, TypeOK
  <2>3. AnswerInv' /\ PaidMeansPaid'
    BY <2>1 DEF IInv, AnswerInv, Known, Confirmed, AfterAnswer, PaidMeansPaid
  <2>4. QED
    BY <2>1, <2>2, <2>3 DEF IInv, ReturnInv, ReturnsFollowDelivery
<1>2. ASSUME NEW p \in Payments, Pay(p) PROVE IInv'
  <2>1. /\ paid' \in [Payments -> BOOLEAN]
        /\ \A q \in Payments : paid[q] => paid'[q]
        /\ UNCHANGED <<orderVars, payStatus, successEvents, released, pc, req, arrivals, faults>>
    BY <1>2 DEF Pay, IInv, TypeOK
  <2>2. TypeOK'
    BY <2>1 DEF IInv, TypeOK
  <2>3. AnswerInv' /\ PaidMeansPaid'
    BY <2>1 DEF IInv, AnswerInv, Known, Confirmed, AfterAnswer, PaidMeansPaid
  <2>4. QED
    BY <2>1, <2>2, <2>3 DEF IInv, ReturnInv, ReturnsFollowDelivery
<1>3. ASSUME NEW r \in Procs, AskGateway(r) PROVE IInv'
  <2>1. PICK l \in GatewayAnswers(req[r].payment) : Goto(r, l)
    BY <1>3 DEF AskGateway
  <2>2. /\ l \in {"paySuccess", "payFailed"}
        /\ l = "paySuccess" => paid[req[r].payment] \/ req[r].payment \in Unasked
        /\ l = "payFailed" => req[r].payment \notin Unasked
        /\ req[r].payment \in Payments /\ req[r].by = "webhook" /\ req[r].status = "CONFIRMED"
    BY <1>3, <2>1 DEF GatewayAnswers, AskGateway, IInv, AnswerInv, Known
  <2>3. QED
    BY <1>3, <2>1, <2>2, GotoInv DEF AskGateway, Known, Stages, AfterAnswer, IInv, TypeOK
<1>4. ASSUME NEW r \in Procs, RecordFailure(r) \/ RecordSuccess(r) PROVE IInv'
  BY <1>4, WritePaymentInv
<1>5. ASSUME NEW r \in Procs, MarkOrderPaid(r) \/ SavePaymentSuccess(r) PROVE IInv'
  BY <1>5, ConfirmWritesInv
<1>6. ASSUME NEW r \in Procs, ConfirmRead(r) PROVE IInv'
  <2>1. /\ req[r].payment \in Payments /\ Confirmed(req[r].payment)
        /\ req[r].by = "webhook" /\ req[r].status = "CONFIRMED"
        /\ AfterUpdate(r) = "successEvent"
    BY <1>6 DEF ConfirmRead, IInv, AnswerInv, Known, AfterAnswer, AfterUpdate
  <2>2. PICK l \in {"write", "successEvent"} : Goto(r, l)
    BY <1>6, <2>1 DEF ConfirmRead
  <2>3. req[r].status \notin Returned
    BY <2>1 DEF Returned
  <2>4. QED
    BY <1>6, <2>1, <2>2, <2>3, GotoInv DEF ConfirmRead, Known, Stages, AfterAnswer, IInv, TypeOK
<1>7. ASSUME NEW r \in Procs, WriteStatus(r) PROVE IInv'
  BY <1>7, WriteStatusInv
<1>8. ASSUME NEW r \in Procs, ReleaseStock(r) PROVE IInv'
  BY <1>8, GotoInv DEF ReleaseStock, Known, Stages, AfterAnswer, IInv, TypeOK
<1>9. ASSUME NEW r \in Procs, Abort(r) PROVE IInv'
  BY <1>9, GotoInv DEF Abort, Known, Stages, AfterAnswer, IInv, TypeOK
<1>10. ASSUME NEW r \in Procs, ConfirmFails(r) PROVE IInv'
  <2>1. /\ req[r].payment \in Payments /\ Confirmed(req[r].payment)
        /\ req[r].by = "webhook" /\ req[r].status = "CONFIRMED"
    BY <1>10 DEF ConfirmFails, IInv, AnswerInv, Known, AfterAnswer
  <2>2. QED
    BY <1>10, <2>1, GotoInv DEF ConfirmFails, Known, Stages, AfterAnswer, IInv, TypeOK
<1>11. ASSUME NEW r \in Procs, CustomerCancel(r) PROVE IInv'
  <2>1. PICK l \in {"write", "idle"} : Arrive(r, "customer", "none", "CANCELLED", l)
    BY <1>11 DEF CustomerCancel
  <2>2. QED
    BY <1>11, <2>1, ArriveInv DEF CustomerCancel, Actors, OrderStatuses, Returned
<1>12. ASSUME NEW r \in Procs, NEW p \in Payments, Verify(r, p) PROVE IInv'
  <2>1. PICK l \in {"idle", "gateway"} : Arrive(r, "webhook", p, "CONFIRMED", l)
    BY <1>12 DEF Verify
  <2>2. QED
    BY <1>12, <2>1, ArriveInv DEF Verify, Actors, OrderStatuses, Returned
<1>13. ASSUME NEW r \in Procs, NEW s \in OrderStatuses, StaffUpdate(r, s) PROVE IInv'
  <2>1. PICK l \in {"write", "idle"} :
          /\ Arrive(r, "staff", "none", s, l)
          /\ l = "write" => isValidOrderTransition(orderStatus, s)
    BY <1>13 DEF StaffUpdate
  <2>2. l = "write" /\ s \in Returned => "DELIVERED" \in visited
    BY <2>1, ReturnReadsDelivered
  <2>3. QED
    BY <1>13, <2>1, <2>2, ArriveInv DEF StaffUpdate, Actors
<1>14. QED
  BY <1>0, <1>1, <1>2, <1>3, <1>4, <1>5, <1>6, <1>7, <1>8, <1>9, <1>10, <1>11, <1>12, <1>13
     DEF Next, Continue

LEMMA Inductive == Spec => []IInv
<1>1. QED
  BY InitInv, NextInv, PTL DEF Spec

\* Type correctness of the order, its payments and its requests.
THEOREM TypeCorrect == Spec => []TypeOK
<1>1. IInv => TypeOK
  BY DEF IInv
<1>2. QED
  BY <1>1, Inductive, PTL

\* verifyPayment: an order counts as paid, and a success is announced, only
\* for money the gateway took or on the word of a strategy that asks nobody;
\* with no such provider (Unasked = {}) only for money taken.
THEOREM PaymentsAreReal == Spec => []PaidMeansPaid
<1>1. IInv => PaidMeansPaid
  BY DEF IInv
<1>2. QED
  BY <1>1, Inductive, PTL

\* updateOrderStatus: checking a transition against a status read earlier is
\* still enough to keep an undelivered order from being returned or refunded.
THEOREM NoReturnBeforeDelivery == Spec => []ReturnsFollowDelivery
<1>1. IInv => ReturnsFollowDelivery
  BY DEF IInv
<1>2. QED
  BY <1>1, Inductive, PTL
-----------------------------------------------------------------------------
(* Requests that do not overlap. *)

BeforeAnswer == {"gateway", "paySuccess", "payFailed"}

\* A webhook that has stored the payment's success and not announced it yet.
Settling(r) ==
  \/ pc[r] \in {"orderPaid", "readOrder", "successEvent"}
  \/ pc[r] = "write" /\ req[r].by = "webhook"

\* At most one request is being served.
Alone == \A r, q \in Procs : pc[r] # "idle" /\ pc[q] # "idle" => r = q

\* A success is announced at most once, and only of a payment that has it.
Announced ==
  \A p \in Payments :
    successEvents[p] <= 1 /\ (successEvents[p] > 0 => payStatus[p] = "SUCCESS")

\* What a request that read the payment may rely on until it is over.
PaymentRead ==
  \A r \in Procs :
    /\ pc[r] \in BeforeAnswer => payStatus[req[r].payment] # "SUCCESS"
    /\ Settling(r) => payStatus[req[r].payment] = "SUCCESS" /\ successEvents[req[r].payment] = 0

\* The stock is released once, and then the order stays cancelled.
Released == released <= 1 /\ (released = 1 => orderStatus = "CANCELLED")

\* What a request that read the order may rely on until it is over.
OrderRead ==
  \A r \in Procs :
    /\ pc[r] = "write" =>
         /\ isValidOrderTransition(orderStatus, req[r].status)
         /\ req[r].by = "customer" => req[r].status = "CANCELLED" /\ orderStatus \in Cancellable
    /\ pc[r] = "release" => released = 0 /\ orderStatus = "CANCELLED"

SerialInv == ~overlapped => Alone /\ Announced /\ PaymentRead /\ Released /\ OrderRead

\* What PaymentRead and OrderRead say of one request.
Informed(r) ==
  /\ pc[r] \in BeforeAnswer => payStatus[req[r].payment] # "SUCCESS"
  /\ Settling(r) => payStatus[req[r].payment] = "SUCCESS" /\ successEvents[req[r].payment] = 0
  /\ pc[r] = "write" =>
       /\ isValidOrderTransition(orderStatus, req[r].status)
       /\ req[r].by = "customer" => req[r].status = "CANCELLED" /\ orderStatus \in Cancellable
  /\ pc[r] = "release" => released = 0 /\ orderStatus = "CANCELLED"

\* A step of one request while the others are idle: only that one's knowledge,
\* the announcements and the release are to be shown.
LEMMA OneMoves ==
  ASSUME NEW r \in Procs, Announced', Released', Informed(r)',
         \A q \in Procs \ {r} : pc'[q] = "idle"
  PROVE  SerialInv'
<1>1. Alone'
  BY DEF Alone
<1>2. \A q \in Procs \ {r} : Informed(q)'
  BY DEF Informed, BeforeAnswer, Settling
<1>3. PaymentRead' /\ OrderRead'
  BY <1>2 DEF PaymentRead, OrderRead, Informed
<1>4. QED
  BY <1>1, <1>3 DEF SerialInv

\* A request that is being served is the only one.
LEMMA OthersIdle ==
  ASSUME TypeOK, Alone, NEW r \in Procs, pc[r] # "idle", NEW l, Goto(r, l)
  PROVE  /\ \A q \in Procs \ {r} : pc'[q] = "idle"
         /\ pc'[r] = l
         /\ l # "idle" => req'[r] = req[r]
BY DEF Goto, Alone, TypeOK

\* A request that arrives alone: what it has just read is so.
LEMMA ArriveSerial ==
  ASSUME TypeOK, SerialInv, ~overlapped',
         NEW r \in Procs, NEW by, NEW p, NEW s, NEW l \in {"idle", "gateway", "write"},
         Arrive(r, by, p, s, l), UNCHANGED <<orderVars, paymentVars, released>>,
         l = "gateway" => payStatus[p] # "SUCCESS",
         l = "write" =>
           /\ by # "webhook" /\ isValidOrderTransition(orderStatus, s)
           /\ by = "customer" => s = "CANCELLED" /\ orderStatus \in Cancellable
  PROVE  SerialInv'
<1> USE DEF orderVars, paymentVars
<1>1. ~overlapped /\ Announced /\ Released
  BY DEF Arrive, SerialInv
<1>2. pc' = [pc EXCEPT ![r] = l] /\ \A q \in Procs : pc[q] = "idle"
  BY DEF Arrive
<1>3. pc'[r] = l /\ \A q \in Procs \ {r} : pc'[q] = "idle"
  BY <1>2 DEF TypeOK
<1>4. l # "idle" => req'[r] = [by |-> by, payment |-> p, status |-> s]
  BY DEF Arrive, TypeOK
<1>5. Announced' /\ Released'
  BY <1>1 DEF Announced, Released
<1>6. Informed(r)'
  BY <1>3, <1>4 DEF Informed, BeforeAnswer, Settling
<1>7. QED
  BY <1>3, <1>5, <1>6, OneMoves

\* What verifyPayment stores, and the announcement.
LEMMA PaymentSerial ==
  ASSUME IInv, SerialInv, ~overlapped, NEW r \in Procs,
         RecordFailure(r) \/ RecordSuccess(r) \/ SavePaymentSuccess(r)
  PROVE  SerialInv'
<1> USE DEF orderVars, arrivals
<1> DEFINE p == req[r].payment
<1>1. TypeOK /\ Alone /\ Announced /\ Released /\ PaymentRead /\ p \in Payments /\ pc[r] # "idle"
  BY DEF IInv, SerialInv, AnswerInv, Known, AfterAnswer, RecordFailure, RecordSuccess, WritePayment,
         SavePaymentSuccess
<1>2. CASE RecordFailure(r) \/ RecordSuccess(r)
  <2>1. PICK status \in {"SUCCESS", "FAILED"}, l \in {"idle", "orderPaid"} :
          /\ payStatus' = [payStatus EXCEPT ![p] = status]
          /\ Goto(r, l) /\ (l = "orderPaid" => status = "SUCCESS")
          /\ UNCHANGED <<orderStatus, successEvents, released>>
    BY <1>2 DEF RecordFailure, RecordSuccess, WritePayment
  <2>2. payStatus[p] # "SUCCESS"
    BY <1>1, <1>2 DEF PaymentRead, BeforeAnswer, RecordFailure, RecordSuccess, WritePayment
  <2>3. successEvents[p] = 0
    BY <1>1, <2>2 DEF Announced, TypeOK
  <2>4. payStatus'[p] = status /\ \A q \in Payments \ {p} : payStatus'[q] = payStatus[q]
    BY <1>1, <2>1 DEF TypeOK
  <2>5. Announced' /\ Released'
    BY <1>1, <2>1, <2>3, <2>4 DEF Announced, Released
  <2>6. /\ \A q \in Procs \ {r} : pc'[q] = "idle"
        /\ pc'[r] = l /\ (l # "idle" => req'[r] = req[r])
    BY <1>1, <2>1, OthersIdle
  <2>7. Informed(r)'
    BY <2>1, <2>3, <2>4, <2>6 DEF Informed, BeforeAnswer, Settling
  <2>8. QED
    BY <2>5, <2>6, <2>7, OneMoves
<1>3. CASE SavePaymentSuccess(r)
  <2>1. /\ successEvents' = [successEvents EXCEPT ![p] = @ + 1]
        /\ Goto(r, "idle") /\ UNCHANGED <<orderStatus, payStatus, released>>
    BY <1>3 DEF SavePaymentSuccess
  <2>2. payStatus[p] = "SUCCESS" /\ successEvents[p] = 0
    BY <1>1, <1>3 DEF PaymentRead, Settling, SavePaymentSuccess
  <2>3. successEvents'[p] = 1 /\ \A q \in Payments \ {p} : successEvents'[q] = successEvents[q]
    BY <1>1, <2>1, <2>2 DEF TypeOK
  <2>4. Announced' /\ Released'
    BY <1>1, <2>1, <2>2, <2>3 DEF Announced, Released
  <2>5. pc'[r] = "idle" /\ \A q \in Procs \ {r} : pc'[q] = "idle"
    BY <1>1, <2>1, OthersIdle
  <2>6. Informed(r)'
    BY <2>5 DEF Informed, BeforeAnswer, Settling
  <2>7. QED
    BY <2>4, <2>5, <2>6, OneMoves
<1>4. QED
  BY <1>2, <1>3

\* The order's status is what the writer read, so the write is a valid
\* transition; a cancelled order stays cancelled.
LEMMA OrderSerial ==
  ASSUME IInv, SerialInv, ~overlapped, NEW r \in Procs, WriteStatus(r) \/ ReleaseStock(r)
  PROVE  SerialInv'
<1> USE DEF paymentVars, orderVars, arrivals
<1>1. TypeOK /\ Alone /\ Announced /\ Released /\ PaymentRead /\ OrderRead /\ pc[r] # "idle"
  BY DEF IInv, SerialInv, WriteStatus, ReleaseStock
<1>2. CASE WriteStatus(r)
  <2>1. PICK l \in {"release", "successEvent", "idle"} :
          /\ Goto(r, l)
          /\ l = "successEvent" => req[r].by = "webhook"
          /\ l = "release" => req[r].by = "customer"
    BY <1>2 DEF WriteStatus, AfterUpdate
  <2>2. /\ pc[r] = "write" /\ orderStatus' = req[r].status
        /\ UNCHANGED <<payStatus, successEvents, released>>
    BY <1>2 DEF WriteStatus
  <2>3. /\ isValidOrderTransition(orderStatus, req[r].status)
        /\ req[r].by = "customer" => req[r].status = "CANCELLED" /\ orderStatus \in Cancellable
    BY <1>1, <2>2 DEF OrderRead
  <2>4. released = 1 => req[r].status = "CANCELLED" /\ req[r].by # "customer"
    BY <1>1, <2>3 DEF Released, isValidOrderTransition, VALID_ORDER_TRANSITIONS, OrderStatuses,
                      Cancellable
  <2>5. released \in {0, 1}
    BY <1>1 DEF TypeOK, Released
  <2>6. Announced' /\ Released'
    BY <1>1, <2>2, <2>4 DEF Announced, Released
  <2>7. /\ \A q \in Procs \ {r} : pc'[q] = "idle"
        /\ pc'[r] = l /\ (l # "idle" => req'[r] = req[r])
    BY <1>1, <2>1, OthersIdle
  <2>8. Informed(r)'
    BY <1>1, <2>1, <2>2, <2>3, <2>4, <2>5, <2>7
       DEF Informed, BeforeAnswer, Settling, PaymentRead
  <2>9. QED
    BY <2>6, <2>7, <2>8, OneMoves
<1>3. CASE ReleaseStock(r)
  <2>1. /\ Goto(r, "idle") /\ UNCHANGED <<orderStatus, payStatus, successEvents>>
        /\ released' \in {released, released + 1}
        /\ released = 0 /\ orderStatus = "CANCELLED"
    BY <1>1, <1>3 DEF ReleaseStock, OrderRead
  <2>2. Announced' /\ Released'
    BY <1>1, <2>1 DEF Announced, Released
  <2>3. pc'[r] = "idle" /\ \A q \in Procs \ {r} : pc'[q] = "idle"
    BY <1>1, <2>1, OthersIdle
  <2>4. Informed(r)'
    BY <2>3 DEF Informed, BeforeAnswer, Settling
  <2>5. QED
    BY <2>2, <2>3, <2>4, OneMoves
<1>4. QED
  BY <1>2, <1>3

\* The steps of a request that only move it on.
LEMMA MoveSerial ==
  ASSUME IInv, SerialInv, ~overlapped, NEW r \in Procs,
         \/ AskGateway(r) \/ MarkOrderPaid(r) \/ ConfirmRead(r) \/ Abort(r) \/ ConfirmFails(r)
  PROVE  SerialInv'
<1> USE DEF orderVars, paymentVars, arrivals
<1>1. TypeOK /\ Alone /\ Announced /\ Released /\ PaymentRead /\ pc[r] # "idle"
  BY DEF IInv, SerialInv, AskGateway, MarkOrderPaid, ConfirmRead, Abort, ConfirmFails
<1>2. UNCHANGED <<orderStatus, payStatus, successEvents, released>>
  BY DEF AskGateway, MarkOrderPaid, ConfirmRead, Abort, ConfirmFails
<1>3. PICK l \in Stages :
        /\ Goto(r, l)
        /\ l \in BeforeAnswer => pc[r] \in BeforeAnswer
        /\ l \in {"orderPaid", "readOrder", "successEvent", "write"} => Settling(r)
        /\ l = "write" => /\ req[r].by = "webhook" /\ req[r].status = "CONFIRMED"
                          /\ isValidOrderTransition(orderStatus, "CONFIRMED")
        /\ l # "release"
  <2>1. CASE AskGateway(r)
    BY <2>1 DEF AskGateway, GatewayAnswers, BeforeAnswer, Stages
  <2>2. CASE MarkOrderPaid(r)
    BY <2>2 DEF MarkOrderPaid, Settling, BeforeAnswer, Stages
  <2>3. CASE ConfirmRead(r)
    <3>1. req[r].by = "webhook" /\ req[r].status = "CONFIRMED"
      BY <2>3 DEF ConfirmRead, IInv, AnswerInv, Known, AfterAnswer
    <3>2. QED
      BY <2>3, <3>1 DEF ConfirmRead, AfterUpdate, Settling, BeforeAnswer, Stages
  <2>4. CASE Abort(r)
    BY <2>4 DEF Abort, BeforeAnswer, Stages
  <2>5. CASE ConfirmFails(r)
    BY <2>5 DEF ConfirmFails, Settling, BeforeAnswer, Stages
  <2>6. QED
    BY <2>1, <2>2, <2>3, <2>4, <2>5
<1>4. /\ \A q \in Procs \ {r} : pc'[q] = "idle"
      /\ pc'[r] = l /\ (l # "idle" => req'[r] = req[r])
  BY <1>1, <1>3, OthersIdle
<1>5. Announced' /\ Released'
  BY <1>1, <1>2 DEF Announced, Released
<1>6. Informed(r)'
  BY <1>1, <1>2, <1>3, <1>4 DEF Informed, Settling, BeforeAnswer, PaymentRead
<1>7. QED
  BY <1>4, <1>5, <1>6, OneMoves

LEMMA NextSerial == IInv /\ SerialInv /\ [Next]_vars => SerialInv'
<1> SUFFICES ASSUME IInv, SerialInv, [Next]_vars, ~overlapped' PROVE SerialInv'
  BY DEF SerialInv
<1>0. TypeOK
  BY DEF IInv
<1>1. ~overlapped
  BY DEF Next, vars, Continue, InitializePayment, Pay, AskGateway, RecordFailure, RecordSuccess,
         WritePayment, MarkOrderPaid, ConfirmRead, WriteStatus, SavePaymentSuccess, ReleaseStock,
         Abort, ConfirmFails, CustomerCancel, Verify, StaffUpdate, Arrive, arrivals
<1>2. CASE UNCHANGED vars
  BY <1>2 DEF vars, SerialInv, Alone, Announced, PaymentRead, Settling, Released, OrderRead
<1>3. ASSUME NEW p \in Payments, InitializePayment(p) PROVE SerialInv'
  <2>1. /\ payStatus[p] = "none" /\ payStatus' = [payStatus EXCEPT ![p] = "PENDING"]
        /\ UNCHANGED <<orderStatus, successEvents, released, pc, req>>
    BY <1>3 DEF InitializePayment, orderVars
  <2>2. \A r \in Procs : pc[r] \in BeforeAnswer \/ Settling(r) => req[r].payment \in Payments
    BY DEF IInv, AnswerInv, Known, AfterAnswer, BeforeAnswer, Settling
  <2>3. \A q \in Payments : payStatus'[q] = "SUCCESS" <=> payStatus[q] = "SUCCESS"
    BY <1>0, <2>1 DEF TypeOK
  <2>4. QED
    BY <1>1, <2>1, <2>2, <2>3
       DEF SerialInv, Alone, Announced, PaymentRead, Settling, Released, OrderRead
<1>4. ASSUME NEW p \in Payments, Pay(p) PROVE SerialInv'
  BY <1>1, <1>4 DEF Pay, orderVars, SerialInv, Alone, Announced, PaymentRead, Settling, Released,
                    OrderRead
<1>5. ASSUME NEW r \in Procs, Continue(r) \/ Abort(r) \/ ConfirmFails(r) PROVE SerialInv'
  BY <1>1, <1>5, MoveSerial, PaymentSerial, OrderSerial DEF Continue
<1>6. ASSUME NEW r \in Procs, CustomerCancel(r) PROVE SerialInv'
  <2>1. isValidOrderTransition("PENDING", "CANCELLED") /\ isValidOrderTransition("CONFIRMED", "CANCELLED")
    BY DEF isValidOrderTransition, VALID_ORDER_TRANSITIONS, OrderStatuses
  <2>2. PICK l \in {"write", "idle"} :
          /\ Arrive(r, "customer", "none", "CANCELLED", l)
          /\ l = "write" => orderStatus \in Cancellable
    BY <1>6 DEF CustomerCancel
  <2>3. QED
    BY <1>0, <1>6, <2>1, <2>2, ArriveSerial DEF CustomerCancel, Cancellable
<1>7. ASSUME NEW r \in Procs, NEW p \in Payments, Verify(r, p) PROVE SerialInv'
  <2>1. PICK l \in {"idle", "gateway"} :
          /\ Arrive(r, "webhook", p, "CONFIRMED", l)
          /\ l = "gateway" => payStatus[p] # "SUCCESS"
    BY <1>7 DEF Verify
  <2>2. QED
    BY <1>0, <1>7, <2>1, ArriveSerial DEF Verify
<1>8. ASSUME NEW r \in Procs, NEW s \in OrderStatuses, StaffUpdate(r, s) PROVE SerialInv'
  <2>1. PICK l \in {"write", "idle"} :
          /\ Arrive(r, "staff", "none", s, l)
          /\ l = "write" => isValidOrderTransition(orderStatus, s)
    BY <1>8 DEF StaffUpdate
  <2>2. QED
    BY <1>0, <1>8, <2>1, ArriveSerial DEF StaffUpdate
<1>9. QED
  BY <1>2, <1>3, <1>4, <1>5, <1>6, <1>7, <1>8 DEF Next

LEMMA InductiveSerial == Spec => [](IInv /\ SerialInv)
<1>1. Init => SerialInv
  BY DEF Init, SerialInv, Alone, Announced, PaymentRead, BeforeAnswer, Settling, Released, OrderRead
<1>2. QED
  BY <1>1, InitInv, NextInv, NextSerial, PTL DEF Spec

\* verifyPayment's idempotent check: without overlapping requests a payment's
\* success is announced at most once, wherever requests stop.
THEOREM AnnouncedOnce == Spec => []SerialSuccessIsAnnouncedOnce
<1>1. SerialInv => SerialSuccessIsAnnouncedOnce
  BY DEF SerialInv, Announced, SerialSuccessIsAnnouncedOnce
<1>2. QED
  BY <1>1, InductiveSerial, PTL

\* cancelOrder: without overlapping requests the stock of an order is released
\* at most once, whatever fails after the cancellation was written.
THEOREM ReleasedOnce == Spec => []SerialStockIsReleasedOnce
<1>1. SerialInv => SerialStockIsReleasedOnce
  BY DEF SerialInv, Released, SerialStockIsReleasedOnce
<1>2. QED
  BY <1>1, InductiveSerial, PTL

\* verifyPayment: without overlapping requests a payment that succeeded is never
\* set to anything else.
THEOREM SuccessIsFinal == Spec => SerialSuccessIsFinal
<1> DEFINE Step == ~overlapped =>
      \A p \in Payments : payStatus[p] = "SUCCESS" => payStatus'[p] = "SUCCESS"
<1>1. IInv /\ SerialInv /\ [Next]_vars => [Step]_vars
  <2> SUFFICES ASSUME IInv, SerialInv, Next, ~overlapped, NEW p \in Payments, payStatus[p] = "SUCCESS"
               PROVE  payStatus'[p] = "SUCCESS"
    BY DEF vars
  <2>1. CASE UNCHANGED payStatus
    BY <2>1
  <2>2. ASSUME NEW q \in Payments, InitializePayment(q) PROVE payStatus'[p] = "SUCCESS"
    BY <2>2 DEF InitializePayment, IInv, TypeOK
  <2>3. ASSUME NEW r \in Procs, RecordFailure(r) \/ RecordSuccess(r) PROVE payStatus'[p] = "SUCCESS"
    <3>1. payStatus[req[r].payment] # "SUCCESS"
      BY <2>3 DEF SerialInv, PaymentRead, BeforeAnswer, RecordFailure, RecordSuccess, WritePayment
    <3>2. QED
      BY <2>3, <3>1 DEF RecordFailure, RecordSuccess, WritePayment, IInv, TypeOK
  <2>4. QED
    BY <2>1, <2>2, <2>3 DEF Next, Continue, Pay, AskGateway, MarkOrderPaid, ConfirmRead,
       WriteStatus, SavePaymentSuccess, ReleaseStock, Abort, ConfirmFails, CustomerCancel, Verify,
       StaffUpdate, paymentVars
<1>2. QED
  BY <1>1, InductiveSerial, PTL DEF Spec, SerialSuccessIsFinal
=============================================================================
