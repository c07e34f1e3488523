----------------------------- MODULE Promotions -----------------------------
(***************************************************************************)
(* Coupons, their cache, and what they take off a cart                     *)
(* (src/src/modules/promotions, and calculateCart, applyCoupon,            *)
(* removeCoupon and mergeGuestCart of .../cart).  validateCoupon works on  *)
(* the copy in Redis, or on the document it then copies there.  A cart     *)
(* keeps the code only: every getCart validates it again, and takes a code *)
(* that no longer holds off the cart.                                      *)
(*                                                                         *)
(* The cart is one, and known by its subtotal: Checkout has its items.  So *)
(* applicableProductIds is here the set of subtotals of carts that hold    *)
(* one of them, and empty for a coupon that applies to every product.      *)
(* Codes are upper case.  usedCount is left out: incrementUsage has no     *)
(* caller, so it stays 0 and a positive usageLimitTotal is never reached.  *)
(***************************************************************************)
EXTENDS Integers

CONSTANTS
  CouponIds, CouponCodes,
  InitialCoupons,   \* the documents at first, by id
  OfferedTerms,     \* terms a new coupon may be given
  EditedTerms,      \* terms an update may set
  SubTotals,        \* what the items of the cart may come to
  CouponEditors,    \* administrators' requests, each served once
  Shoppers,         \* requests on the cart, each served once
  LastHour,         \* bound on the clock
  NoCoupon,         \* no document, no copy, no code on the cart, a field not sent
  MaxCouponFaults

\* All the terms there ever are.
KnownTerms ==
  OfferedTerms \union EditedTerms
    \union {InitialCoupons[i].terms : i \in {j \in CouponIds : InitialCoupons[j] # NoCoupon}}
Copies == KnownTerms \union {NoCoupon}

\* Amounts are whole, and a cart comes to nothing or more.
ASSUME TermsAssumption == \A t \in KnownTerms : t.discountValue \in Int /\ t.maxDiscountAmount \in Int
ASSUME SubTotalsAssumption == SubTotals \subseteq Nat
ASSUME LastHourAssumption == LastHour \in Nat
ASSUME DocumentsAssumption ==
  /\ InitialCoupons \in [CouponIds -> [code : CouponCodes, terms : KnownTerms] \union {NoCoupon}]
  /\ NoCoupon \notin CouponCodes

VARIABLES
  coupon,           \* documents by id: a code and terms
  couponCopy,       \* vitaform:coupon:<code>
  basket, applied,  \* the subtotal of the cart and its __meta_coupon
  couponEditor, shopper,
  hour,
  staleCodes,       \* codes whose copy was last set to what was no longer so (history)
  couponEditorsMet, \* whether two editors ever worked on one coupon (history)
  couponFaults

copyVars == <<couponCopy, staleCodes>>
cartVars == <<basket, applied>>
promotionVars ==
  <<coupon, copyVars, cartVars, couponEditor, shopper, hour, couponEditorsMet, couponFaults>>

Standing(i) == coupon[i] # NoCoupon
Holder(k) == {i \in CouponIds : Standing(i) /\ coupon[i].code = k}
TermsOf(k) == IF Holder(k) = {} THEN NoCoupon ELSE coupon[CHOOSE i \in Holder(k) : TRUE].terms

PromotionsInit ==
  /\ coupon = InitialCoupons
  /\ couponCopy = [k \in CouponCodes |-> NoCoupon]
  /\ basket = 0
  /\ applied = NoCoupon
  /\ couponEditor = [e \in CouponEditors |-> [at |-> "idle"]]
  /\ shopper = [s \in Shoppers |-> [at |-> "idle"]]
  /\ hour = 0
  /\ staleCodes = {}
  /\ couponEditorsMet = FALSE
  /\ couponFaults = 0

-----------------------------------------------------------------------------
(* What a coupon is worth.  Amounts are whole naira; percentages that do   *)
(* not come out even are rounded down.                                     *)

Smaller(a, b) == IF a < b THEN a ELSE b

Accepted(t, subTotal) ==
  /\ t.isActive
  /\ t.startDate <= hour /\ hour <= t.expiresAt
  /\ t.minOrderAmount > 0 => subTotal >= t.minOrderAmount
  /\ t.applicableTo = {} \/ subTotal \in t.applicableTo

Percentage(t, subTotal) ==
  LET part == (subTotal * t.discountValue) \div 100 IN
    IF t.maxDiscountAmount > 0 THEN Smaller(part, t.maxDiscountAmount) ELSE part

\* Variant: only percentages are held to the subtotal.
FixedInFull(t, subTotal) ==
  IF t.discountType = "PERCENTAGE" THEN Smaller(Percentage(t, subTotal), subTotal) ELSE t.discountValue

Discount(t, subTotal) ==
  Smaller(IF t.discountType = "PERCENTAGE" THEN Percentage(t, subTotal) ELSE t.discountValue, subTotal)

Taxable(subTotal, discount) == IF subTotal > discount THEN subTotal - discount ELSE 0
Vat(amount) == (amount * 75 + 500) \div 1000
ShippingFee(subTotal) == IF subTotal > 0 THEN 5000 ELSE 0
TotalAmount(subTotal, discount) ==
  Taxable(subTotal, discount) + Vat(Taxable(subTotal, discount)) + ShippingFee(subTotal)

-----------------------------------------------------------------------------
(* createCoupon, updateCoupon, deleteCoupon *)

Editing(e, i) == couponEditor[e].at \notin {"idle", "done"} /\ couponEditor[e].id = i
CouponEditorAt(e, l) == couponEditor' = [couponEditor EXCEPT ![e].at = l]

EditCoupon(e, i, code, terms, op) ==
  /\ couponEditor[e].at = "idle"
  /\ couponEditor' = [couponEditor EXCEPT ![e] =
       [op |-> op, id |-> i, code |-> code, terms |-> terms, dels |-> {},
        at |-> IF op = "create" THEN "findByCode" ELSE "findById"]]
  /\ couponEditorsMet' = (couponEditorsMet \/ \E f \in CouponEditors : Editing(f, i))
  /\ UNCHANGED <<coupon, copyVars, cartVars, shopper, hour, couponFaults>>

\* A new document has an id nobody knows.
CreateCoupon(e) ==
  \E i \in CouponIds, k \in CouponCodes, t \in OfferedTerms :
    /\ ~Standing(i) /\ InitialCoupons[i] = NoCoupon
    /\ ~\E f \in CouponEditors : couponEditor[f].at # "idle" /\ couponEditor[f].id = i
    /\ EditCoupon(e, i, k, t, "create")
UpdateCoupon(e) ==
  \E i \in CouponIds, k \in CouponCodes \union {NoCoupon}, t \in EditedTerms :
    InitialCoupons[i] # NoCoupon /\ EditCoupon(e, i, k, t, "update")
DeleteCoupon(e) ==
  \E i \in CouponIds :
    InitialCoupons[i] # NoCoupon /\ EditCoupon(e, i, NoCoupon, NoCoupon, "delete")

\* The code of the document as read is the one whose copy is deleted later.
FindCoupon(e) ==
  /\ LET d == couponEditor[e] IN
     \/ /\ d.at = "findByCode"
        /\ couponEditor' = [couponEditor EXCEPT
             ![e].at = IF Holder(d.code) # {} THEN "done" ELSE "write", ![e].dels = {d.code}]
     \/ /\ d.at = "findById"
        /\ IF Standing(d.id)
           THEN couponEditor' = [couponEditor EXCEPT
                  ![e].at = "write", ![e].dels = {coupon[d.id].code, d.code} \ {NoCoupon}]
           ELSE CouponEditorAt(e, "done")
  /\ UNCHANGED <<coupon, copyVars, cartVars, shopper, hour, couponEditorsMet, couponFaults>>

\* The unique index on code refuses a second document; findByIdAndUpdate and
\* findByIdAndDelete of a document that is gone do nothing.
WriteCoupon(e) ==
  /\ couponEditor[e].at = "write"
  /\ LET d == couponEditor[e]
         taken == d.code # NoCoupon /\ Holder(d.code) \ {d.id} # {}
     IN
       IF taken
       THEN CouponEditorAt(e, "done") /\ UNCHANGED coupon
       ELSE /\ coupon' = [coupon EXCEPT ![d.id] =
                 CASE d.op = "create" -> [code |-> d.code, terms |-> d.terms]
                   [] d.op = "update" /\ Standing(d.id) ->
                        [code |-> IF d.code = NoCoupon THEN @.code ELSE d.code, terms |-> d.terms]
                   [] OTHER -> NoCoupon]
            /\ CouponEditorAt(e, "del")
  /\ UNCHANGED <<copyVars, cartVars, shopper, hour, couponEditorsMet, couponFaults>>

\* Variant: an update deletes the copy under the code that was sent only.
SentCodes(d) == IF d.op = "update" THEN d.dels \intersect {d.code} ELSE d.dels

\* The copies under the old code and under the new one are deleted in turn.
CodesToDelete(d) == d.dels

DelCopy(e) ==
  /\ couponEditor[e].at = "del"
  /\ LET left == CodesToDelete(couponEditor[e]) IN
       IF left = {}
       THEN CouponEditorAt(e, "done") /\ UNCHANGED <<couponCopy, staleCodes>>
       ELSE \E k \in left :
              /\ couponCopy' = [couponCopy EXCEPT ![k] = NoCoupon]
              /\ staleCodes' = staleCodes \ {k}
              /\ couponEditor' = [couponEditor EXCEPT ![e].dels = @ \ {k}]
  /\ UNCHANGED <<coupon, cartVars, shopper, hour, couponEditorsMet, couponFaults>>

-----------------------------------------------------------------------------
(* Requests on the cart.  phase tells the calculations of applyCoupon      *)
(* apart: of the cart as it was, of the new code, of the cart as it is.    *)

ShopperAt(s, l) == shopper' = [shopper EXCEPT ![s].at = l]
Ask(s, op, code, l, phase) ==
  /\ shopper[s].at = "idle"
  /\ shopper' = [shopper EXCEPT ![s] =
       [op |-> op, code |-> code, at |-> l, phase |-> phase,
        subTotal |-> 0, on |-> NoCoupon, found |-> NoCoupon, discount |-> 0]]
  /\ UNCHANGED <<coupon, copyVars, cartVars, couponEditor, hour, couponEditorsMet, couponFaults>>

GetCart(s) == Ask(s, "get", NoCoupon, "cart", "last")
AskCheckout(s) == Ask(s, "checkout", NoCoupon, "cart", "last")
ApplyCoupon(s) == \E k \in CouponCodes : Ask(s, "apply", k, "cart", "first")
RemoveCoupon(s) == Ask(s, "remove", NoCoupon, "write", "last")
MergeGuestCart(s) == \E k \in CouponCodes : Ask(s, "merge", k, "readBoth", "last")

\* hgetall of the cart.
ReadBasket(s) ==
  /\ shopper[s].at = "cart"
  /\ shopper' = [shopper EXCEPT ![s].subTotal = basket, ![s].on = applied, ![s].discount = 0,
                                ![s].at = IF applied = NoCoupon THEN "priced" ELSE "lookup"]
  /\ UNCHANGED <<coupon, copyVars, cartVars, couponEditor, hour, couponEditorsMet, couponFaults>>

Asked(q) == IF q.phase = "check" THEN q.code ELSE q.on

LookUpCopy(s) ==
  /\ shopper[s].at = "lookup"
  /\ LET found == couponCopy[Asked(shopper[s])] IN
       shopper' = [shopper EXCEPT
         ![s].found = found, ![s].at = IF found = NoCoupon THEN "find" ELSE "decide"]
  /\ UNCHANGED <<coupon, copyVars, cartVars, couponEditor, hour, couponEditorsMet, couponFaults>>

FindByCode(s) ==
  /\ shopper[s].at = "find"
  /\ LET found == TermsOf(Asked(shopper[s])) IN
       shopper' = [shopper EXCEPT
         ![s].found = found, ![s].at = IF found = NoCoupon THEN "decide" ELSE "fill"]
  /\ UNCHANGED <<coupon, copyVars, cartVars, couponEditor, hour, couponEditorsMet, couponFaults>>

FillCopy(s) ==
  /\ shopper[s].at = "fill"
  /\ LET q == shopper[s]
         k == Asked(q)
     IN
       /\ couponCopy' = [couponCopy EXCEPT ![k] = q.found]
       /\ staleCodes' = IF q.found = TermsOf(k) THEN staleCodes \ {k} ELSE staleCodes \union {k}
  /\ ShopperAt(s, "decide")
  /\ UNCHANGED <<coupon, cartVars, couponEditor, hour, couponEditorsMet, couponFaults>>

\* validateCoupon returns a discount or throws; calculateCart catches that and
\* takes the code off the cart, applyCoupon lets it through.
Decide(s) ==
  /\ shopper[s].at = "decide"
  /\ LET q == shopper[s]
         good == q.found # NoCoupon /\ Accepted(q.found, q.subTotal)
     IN
       /\ shopper' = [shopper EXCEPT
            ![s].discount = IF good THEN Discount(q.found, q.subTotal) ELSE 0,
            ![s].at = IF q.phase = "check" THEN (IF good THEN "write" ELSE "done")
                      ELSE IF good THEN "priced" ELSE "clear"]
  /\ UNCHANGED <<coupon, copyVars, cartVars, couponEditor, hour, couponEditorsMet, couponFaults>>

ClearCode(s) ==
  /\ shopper[s].at = "clear"
  /\ applied' = NoCoupon
  /\ ShopperAt(s, "priced")
  /\ UNCHANGED <<coupon, copyVars, basket, couponEditor, hour, couponEditorsMet, couponFaults>>

\* The cart is calculated.  applyCoupon goes on to the new code unless the cart is
\* empty; a checkout of a cart that is not empty makes the order, then clears it.
Priced(s) ==
  /\ shopper[s].at = "priced"
  /\ LET q == shopper[s] IN
       shopper' = [shopper EXCEPT
         ![s].phase = IF q.phase = "first" THEN "check" ELSE @,
         ![s].at = IF q.subTotal > 0 /\ q.phase = "first" THEN "lookup"
                   ELSE IF q.subTotal > 0 /\ q.op = "checkout" THEN "order" ELSE "done"]
  /\ UNCHANGED <<coupon, copyVars, cartVars, couponEditor, hour, couponEditorsMet, couponFaults>>

ClearBasket(s) ==
  /\ shopper[s].at = "order"
  /\ basket' = 0
  /\ applied' = NoCoupon
  /\ ShopperAt(s, "done")
  /\ UNCHANGED <<coupon, copyVars, couponEditor, hour, couponEditorsMet, couponFaults>>

\* mergeGuestCart reads both carts and writes all the merged fields: the code the
\* cart had when it was read, or else the guest's.
ReadBoth(s) ==
  /\ shopper[s].at = "readBoth"
  /\ shopper' = [shopper EXCEPT ![s].on = applied, ![s].at = "write"]
  /\ UNCHANGED <<coupon, copyVars, cartVars, couponEditor, hour, couponEditorsMet, couponFaults>>

WriteCode(s) ==
  /\ shopper[s].at = "write"
  /\ LET q == shopper[s] IN
       /\ applied' = IF q.op = "merge" /\ q.on # NoCoupon THEN q.on ELSE q.code
       /\ shopper' = [shopper EXCEPT ![s].phase = "last", ![s].at = "cart"]
  /\ UNCHANGED <<coupon, copyVars, basket, couponEditor, hour, couponEditorsMet, couponFaults>>

-----------------------------------------------------------------------------
(* Around the requests. *)

\* addItem, updateItem and removeItem change what the items come to.
ChangeBasket ==
  /\ basket' \in SubTotals \ {basket}
  /\ UNCHANGED <<coupon, copyVars, applied, couponEditor, shopper, hour, couponEditorsMet, couponFaults>>

PassHour ==
  /\ hour < LastHour
  /\ hour' = hour + 1
  /\ UNCHANGED <<coupon, copyVars, cartVars, couponEditor, shopper, couponEditorsMet, couponFaults>>

\* The five minutes of a copy are over.
ForgetCopy(k) ==
  /\ couponCopy[k] # NoCoupon
  /\ couponCopy' = [couponCopy EXCEPT ![k] = NoCoupon]
  /\ staleCodes' = staleCodes \ {k}
  /\ UNCHANGED <<coupon, cartVars, couponEditor, shopper, hour, couponEditorsMet, couponFaults>>

\* A command of the editor fails, or its process stops.
CouponEditorFails(e) ==
  /\ couponFaults < MaxCouponFaults
  /\ couponEditor[e].at \in {"write", "del"}
  /\ CouponEditorAt(e, "done")
  /\ staleCodes' = staleCodes \union
       {k \in couponEditor[e].dels : couponEditor[e].at = "del" /\ couponCopy[k] # NoCoupon}
  /\ couponFaults' = couponFaults + 1
  /\ UNCHANGED <<coupon, couponCopy, cartVars, shopper, hour, couponEditorsMet>>

CouponEditorStep(e) ==
  \/ CreateCoupon(e) \/ UpdateCoupon(e) \/ DeleteCoupon(e)
  \/ FindCoupon(e) \/ WriteCoupon(e) \/ DelCopy(e) \/ CouponEditorFails(e)
ShopperStep(s) ==
  \/ GetCart(s) \/ AskCheckout(s) \/ ApplyCoupon(s) \/ RemoveCoupon(s) \/ MergeGuestCart(s)
  \/ ReadBasket(s) \/ LookUpCopy(s) \/ FindByCode(s) \/ FillCopy(s) \/ Decide(s)
  \/ ClearCode(s) \/ Priced(s) \/ ClearBasket(s) \/ ReadBoth(s) \/ WriteCode(s)

PromotionsNext ==
  \/ \E e \in CouponEditors : CouponEditorStep(e)
  \/ \E s \in Shoppers : ShopperStep(s)
  \/ ChangeBasket \/ PassHour \/ \E k \in CouponCodes : ForgetCopy(k)

PromotionsSpec == PromotionsInit /\ [][PromotionsNext]_promotionVars

-----------------------------------------------------------------------------
PromotionsTypeOK ==
  /\ \A i \in CouponIds : Standing(i) => coupon[i].code \in CouponCodes /\ coupon[i].terms \in Copies
  /\ couponCopy \in [CouponCodes -> Copies]
  /\ basket \in SubTotals \union {0}
  /\ applied \in CouponCodes \union {NoCoupon}
  /\ staleCodes \subseteq CouponCodes /\ hour \in 0..LastHour

(* The copy of a coupon says what its document says, once the editors are  *)
(* through: a deactivated or deleted coupon takes nothing off.  It does    *)
(* not where a shopper who had read the document before the edit stores it *)
(* after the deletion of the copy, where an editor failed in between, or   *)
(* where two editors worked on one coupon and it was renamed               *)
(* (validateCoupon at promotions.service.ts:18 and the del calls of the    *)
(* three edits).                                                           *)
CouponCopyIsFresh ==
  \A k \in CouponCodes :
    \/ couponCopy[k] \in {NoCoupon, TermsOf(k)}
    \/ k \in staleCodes
    \/ couponEditorsMet
    \/ \E e \in CouponEditors : couponEditor[e].at = "del" /\ k \in couponEditor[e].dels

(* A discount is never more than the subtotal it is taken off, and never   *)
(* less than nothing, so VAT and total are those of the amount left; the   *)
(* exception is a coupon with a negative value, which UpdateCouponDto lets *)
(* through (no Min at promotions.dto.ts:114, against Min(0) for creation). *)
DiscountIsCovered ==
  \A s \in Shoppers :
    shopper[s].at \in {"priced", "order", "write"} /\ shopper[s].op # "merge" =>
      \/ shopper[s].discount \in 0..shopper[s].subTotal
      \/ shopper[s].found.discountValue < 0

=============================================================================
