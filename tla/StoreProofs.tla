----------------------------- MODULE StoreProofs -----------------------------
(***************************************************************************)
(* That what the catalogue stores twice stays the same: the slug of a      *)
(* product's category and its rating, what Redis holds of the categories,  *)
(* the products and the coupons.  That the search index forgets what was   *)
(* deleted and a history is what was searched last.  That categories stay  *)
(* a tree whose paths follow it.  And that what a coupon takes off a cart  *)
(* is between nothing and the subtotal it was computed for.  Last that all *)
(* of it has its types.  For any categories, products, reviews, searches   *)
(* and coupons, and any requests.                                          *)
(***************************************************************************)
EXTENDS MCStore, DataLemmas

-----------------------------------------------------------------------------
(* What Discount returns. *)

LEMMA PercentageIsWhole ==
  ASSUME NEW t \in KnownTerms, NEW n \in Nat
  PROVE  /\ Percentage(t, n) \in Int
         /\ t.discountValue >= 0 => Percentage(t, n) >= 0
<1>1. t.discountValue \in Int /\ t.maxDiscountAmount \in Int
  BY TermsAssumption
<1> DEFINE d == t.discountValue
           part == (n * d) \div 100
<1>2. n * d \in Int /\ (d >= 0 => n * d >= 0)
  BY <1>1
<1>3. part \in Int /\ (d >= 0 => part >= 0)
  BY <1>2
<1>4. Percentage(t, n) = part \/ (t.maxDiscountAmount > 0 /\ Percentage(t, n) = Smaller(part, t.maxDiscountAmount))
  BY DEF Percentage
<1> HIDE DEF part
<1> QED
  BY <1>1, <1>3, <1>4 DEF Smaller

LEMMA DiscountIsBounded ==
  ASSUME NEW t \in KnownTerms, NEW n \in Nat
  PROVE  Discount(t, n) \in 0..n \/ t.discountValue < 0
<1>1. t.discountValue \in Int
  BY TermsAssumption
<1>2. /\ Percentage(t, n) \in Int
      /\ t.discountValue >= 0 => Percentage(t, n) >= 0
  BY PercentageIsWhole
<1> QED
  BY <1>1, <1>2 DEF Discount, Smaller

LEMMA DiscountIsWhole ==
  ASSUME NEW t \in KnownTerms, NEW n \in Nat
  PROVE  Discount(t, n) \in Int
BY TermsAssumption, PercentageIsWhole DEF Discount, Smaller

-----------------------------------------------------------------------------
(* The documents, their copies and the editors hold known terms. *)

Codes == CouponCodes \union {NoCoupon}
Document == [code : CouponCodes, terms : KnownTerms]
CouponEdit == [op : {"create", "update", "delete"}, id : CouponIds, code : Codes, terms : Copies,
            dels : SUBSET CouponCodes, at : {"findByCode", "findById", "write", "del", "done"}]
Resting == [at |-> "idle"]
Sensible(d) ==
  /\ d.at = "findByCode" => d.op = "create"
  /\ d.op = "create" => d.code \in CouponCodes
  /\ d.op # "delete" => d.terms \in KnownTerms

DocumentInv ==
  /\ coupon \in [CouponIds -> Document \union {NoCoupon}]
  /\ couponEditor \in [CouponEditors -> CouponEdit \union {Resting}]
  /\ \A e \in CouponEditors : couponEditor[e] # Resting => Sensible(couponEditor[e])

LEMMA InitDocuments == PromotionsInit => DocumentInv
BY DocumentsAssumption DEF PromotionsInit, DocumentInv, Document, Resting

LEMMA TermsAreKnown == ASSUME DocumentInv, NEW k PROVE TermsOf(k) \in Copies
<1>1. CASE Holder(k) = {}
  BY <1>1 DEF TermsOf, Copies
<1>2. CASE Holder(k) # {}
  <2> DEFINE i == CHOOSE i \in Holder(k) : TRUE
  <2>1. i \in Holder(k)
    BY <1>2
  <2>2. TermsOf(k) = coupon[i].terms
    BY <1>2 DEF TermsOf
  <2> HIDE DEF i
  <2> QED
    BY <2>1, <2>2 DEF Holder, Standing, DocumentInv, Document, Copies
<1> QED
  BY <1>1, <1>2

\* What an editor has to show that moves on to d.
LEMMA EditorMoves ==
  ASSUME DocumentInv, NEW e \in CouponEditors, NEW d \in CouponEdit, Sensible(d),
         couponEditor' = [couponEditor EXCEPT ![e] = d],
         coupon' \in [CouponIds -> Document \union {NoCoupon}]
  PROVE  DocumentInv'
<1>1. couponEditor'[e] = d /\ \A f \in CouponEditors \ {e} : couponEditor'[f] = couponEditor[f]
  BY DEF DocumentInv
<1> QED
  BY <1>1 DEF DocumentInv

\* One that is past its request goes on with it.
LEMMA EditorGoesOn ==
  ASSUME DocumentInv, NEW e \in CouponEditors, couponEditor[e].at # "idle",
         NEW l \in {"write", "del", "done"}, NEW K \in SUBSET CouponCodes,
         \/ couponEditor' = [couponEditor EXCEPT ![e].at = l]
         \/ couponEditor' = [couponEditor EXCEPT ![e].dels = K]
         \/ couponEditor' = [couponEditor EXCEPT ![e].at = l, ![e].dels = K],
         coupon' \in [CouponIds -> Document \union {NoCoupon}]
  PROVE  DocumentInv'
<1> DEFINE q == couponEditor[e]
<1>1. q \in CouponEdit /\ Sensible(q)
  BY DEF DocumentInv, Resting
<1>2. PICK d \in {[q EXCEPT !.at = l], [q EXCEPT !.dels = K], [q EXCEPT !.at = l, !.dels = K]} :
        couponEditor' = [couponEditor EXCEPT ![e] = d]
  OBVIOUS
<1>3. /\ d \in CouponEdit /\ d.op = q.op /\ d.code = q.code /\ d.terms = q.terms
      /\ d.at = q.at \/ d.at = l
  BY <1>1, <1>2 DEF CouponEdit
<1>4. Sensible(d)
  BY <1>1, <1>3 DEF Sensible
<1> QED
  BY <1>2, <1>3, <1>4, EditorMoves

LEMMA DocumentStep ==
  ASSUME DocumentInv, NEW e \in CouponEditors, CouponEditorStep(e)
  PROVE  DocumentInv'
<1> USE DEF CouponEditorAt
<1>1. CASE CreateCoupon(e) \/ UpdateCoupon(e) \/ DeleteCoupon(e)
  <2>1. PICK i \in CouponIds, k \in Codes, t \in Copies, op \in {"create", "update", "delete"} :
          /\ EditCoupon(e, i, k, t, op)
          /\ op = "create" => k \in CouponCodes
          /\ op # "delete" => t \in KnownTerms
    <3>1. CASE CreateCoupon(e)
      BY <3>1 DEF CreateCoupon, KnownTerms, Codes, Copies
    <3>2. CASE UpdateCoupon(e)
      BY <3>2 DEF UpdateCoupon, KnownTerms, Codes, Copies
    <3>3. CASE DeleteCoupon(e)
      BY <3>3 DEF DeleteCoupon, Codes, Copies
    <3> QED
      BY <1>1, <3>1, <3>2, <3>3
  <2> DEFINE d == [op |-> op, id |-> i, code |-> k, terms |-> t, dels |-> {},
                   at |-> IF op = "create" THEN "findByCode" ELSE "findById"]
  <2>2. d \in CouponEdit /\ Sensible(d)
    BY <2>1 DEF CouponEdit, Sensible
  <2>3. couponEditor' = [couponEditor EXCEPT ![e] = d] /\ UNCHANGED coupon
    BY <2>1 DEF EditCoupon
  <2> HIDE DEF d
  <2> QED
    BY <2>2, <2>3, EditorMoves DEF DocumentInv
<1>2. CASE FindCoupon(e)
  <2>1. couponEditor[e].at # "idle" /\ couponEditor[e] \in CouponEdit /\ Sensible(couponEditor[e])
    BY <1>2 DEF FindCoupon, DocumentInv, Resting
  <2>2. UNCHANGED coupon
    BY <1>2 DEF FindCoupon
  <2>3. CASE couponEditor[e].at = "findByCode"
    <3>1. {couponEditor[e].code} \in SUBSET CouponCodes
      BY <2>1, <2>3 DEF Sensible
    <3>2. PICK l \in {"done", "write"} :
            couponEditor' = [couponEditor EXCEPT ![e].at = l, ![e].dels = {couponEditor[e].code}]
      BY <1>2, <2>3 DEF FindCoupon
    <3> QED
      BY <2>1, <2>2, <3>1, <3>2, EditorGoesOn DEF DocumentInv
  <2>4. CASE couponEditor[e].at = "findById" /\ Standing(couponEditor[e].id)
    <3> DEFINE K == {coupon[couponEditor[e].id].code, couponEditor[e].code} \ {NoCoupon}
    <3>1. coupon[couponEditor[e].id] \in Document
      BY <2>1, <2>4 DEF Standing, DocumentInv, CouponEdit
    <3>2. K \in SUBSET CouponCodes
      BY <2>1, <3>1 DEF Document, CouponEdit, Codes
    <3>3. couponEditor' = [couponEditor EXCEPT ![e].at = "write", ![e].dels = K]
      BY <1>2, <2>4 DEF FindCoupon
    <3> HIDE DEF K
    <3> QED
      BY <2>1, <2>2, <3>2, <3>3, EditorGoesOn DEF DocumentInv
  <2>5. CASE couponEditor[e].at = "findById" /\ ~Standing(couponEditor[e].id)
    <3>1. couponEditor' = [couponEditor EXCEPT ![e].at = "done"]
      BY <1>2, <2>5 DEF FindCoupon
    <3> QED
      BY <2>1, <2>2, <3>1, EditorGoesOn DEF DocumentInv
  <2> QED
    BY <1>2, <2>3, <2>4, <2>5 DEF FindCoupon
<1>3. CASE WriteCoupon(e)
  <2> DEFINE d == couponEditor[e]
  <2>1. d.at = "write" /\ d \in CouponEdit /\ Sensible(d)
    BY <1>3 DEF WriteCoupon, DocumentInv, Resting
  <2>2. \/ UNCHANGED coupon
        \/ \E c \in Document \union {NoCoupon} : coupon' = [coupon EXCEPT ![d.id] = c]
    <3>1. CASE d.op = "create"
      BY <1>3, <2>1, <3>1 DEF WriteCoupon, Sensible, Document
    <3>2. CASE d.op = "update" /\ Standing(d.id)
      <4>1. coupon[d.id] \in Document
        BY <2>1, <3>2 DEF Standing, DocumentInv, CouponEdit
      <4> DEFINE c == [code |-> IF d.code = NoCoupon THEN coupon[d.id].code ELSE d.code, terms |-> d.terms]
      <4>2. c \in Document
        BY <2>1, <3>2, <4>1 DEF Document, Sensible, CouponEdit, Codes
      <4>3. UNCHANGED coupon \/ coupon' = [coupon EXCEPT ![d.id] = c]
        BY <1>3, <3>2 DEF WriteCoupon
      <4> HIDE DEF c
      <4> QED
        BY <4>2, <4>3
    <3>3. CASE d.op # "create" /\ ~(d.op = "update" /\ Standing(d.id))
      BY <1>3, <3>3 DEF WriteCoupon
    <3> QED
      BY <3>1, <3>2, <3>3
  <2>3. PICK l \in {"done", "del"} : couponEditor' = [couponEditor EXCEPT ![e].at = l]
    BY <1>3 DEF WriteCoupon
  <2>4. coupon' \in [CouponIds -> Document \union {NoCoupon}]
    BY <2>2 DEF DocumentInv
  <2> QED
    BY <2>1, <2>3, <2>4, EditorGoesOn
<1>4. CASE DelCopy(e) \/ CouponEditorFails(e)
  <2>1. couponEditor[e].at # "idle" /\ couponEditor[e] \in CouponEdit /\ UNCHANGED coupon
    BY <1>4 DEF DelCopy, CouponEditorFails, DocumentInv, Resting
  <2>2. \/ couponEditor' = [couponEditor EXCEPT ![e].at = "done"]
        \/ \E K \in SUBSET CouponCodes : couponEditor' = [couponEditor EXCEPT ![e].dels = K]
    <3>1. \A k : couponEditor[e].dels \ {k} \subseteq CouponCodes
      BY <2>1 DEF CouponEdit
    <3> QED
      BY <1>4, <3>1 DEF DelCopy, CouponEditorFails
  <2> QED
    BY <2>1, <2>2, EditorGoesOn DEF DocumentInv
<1> QED
  BY <1>1, <1>2, <1>3, <1>4 DEF CouponEditorStep

-----------------------------------------------------------------------------
(* Requests on the cart. *)

Asking == [op : {"get", "checkout", "apply", "remove", "merge"}, code : Codes,
           at : {"cart", "lookup", "find", "fill", "decide", "clear", "priced", "order", "readBoth",
                 "write", "done"},
           phase : {"first", "check", "last"}, subTotal : Nat, on : Codes, found : Copies, discount : Int]

Covered(q) == q.discount \in 0..q.subTotal \/ q.found.discountValue < 0

\* A coupon is looked up by a code, and a price is worked out with what was found.
Rightly(q) ==
  /\ q.phase # "last" => q.code \in CouponCodes
  /\ q.at = "cart" => q.phase # "check"
  /\ q.at \in {"lookup", "find", "fill"} => Asked(q) \in CouponCodes
  /\ q.at \in {"clear", "priced", "order", "readBoth", "write"} => Covered(q)

CartInv ==
  /\ DocumentInv
  /\ couponCopy \in [CouponCodes -> Copies]
  /\ basket \in Nat /\ applied \in Codes
  /\ shopper \in [Shoppers -> Asking \union {Resting}]
  /\ \A s \in Shoppers : shopper[s] # Resting => Rightly(shopper[s])

LEMMA InitCart == PromotionsInit => CartInv
BY InitDocuments DEF PromotionsInit, CartInv, Copies, Codes, Resting

\* What a request has to show that moves on to p.
LEMMA ShopperMoves ==
  ASSUME CartInv, NEW s \in Shoppers, NEW p \in Asking, Rightly(p),
         shopper' = [shopper EXCEPT ![s] = p], UNCHANGED <<coupon, couponEditor>>,
         couponCopy' \in [CouponCodes -> Copies], basket' \in Nat, applied' \in Codes
  PROVE  CartInv'
<1>1. shopper'[s] = p /\ \A q \in Shoppers \ {s} : shopper'[q] = shopper[q]
  BY DEF CartInv
<1>2. DocumentInv'
  BY DEF CartInv, DocumentInv
<1> QED
  BY <1>1, <1>2 DEF CartInv

\* A request under way.
LEMMA UnderWay ==
  ASSUME CartInv, NEW s \in Shoppers, shopper[s].at # "idle"
  PROVE  shopper[s] \in Asking /\ Rightly(shopper[s])
BY DEF CartInv, Resting

LEMMA AskStep ==
  ASSUME CartInv, NEW s \in Shoppers,
         GetCart(s) \/ AskCheckout(s) \/ ApplyCoupon(s) \/ RemoveCoupon(s) \/ MergeGuestCart(s)
  PROVE  CartInv'
<1>1. PICK op \in {"get", "checkout", "apply", "remove", "merge"}, k \in Codes,
           l \in {"cart", "write", "readBoth"}, phase \in {"first", "last"} :
        Ask(s, op, k, l, phase) /\ (phase = "first" => k \in CouponCodes)
  <2>1. CASE GetCart(s) \/ AskCheckout(s) \/ RemoveCoupon(s)
    BY <2>1 DEF GetCart, AskCheckout, RemoveCoupon, Codes
  <2>2. CASE ApplyCoupon(s) \/ MergeGuestCart(s)
    BY <2>2 DEF ApplyCoupon, MergeGuestCart, Codes
  <2> QED
    BY <2>1, <2>2
<1> DEFINE p == [op |-> op, code |-> k, at |-> l, phase |-> phase,
                 subTotal |-> 0, on |-> NoCoupon, found |-> NoCoupon, discount |-> 0]
<1>2. p \in Asking
  BY <1>1 DEF Asking, Codes, Copies
<1>3. Rightly(p)
  BY <1>1 DEF Rightly, Covered
<1>4. shopper' = [shopper EXCEPT ![s] = p] /\ UNCHANGED <<coupon, couponEditor, copyVars, cartVars>>
  BY <1>1 DEF Ask
<1> HIDE DEF p
<1> QED
  BY <1>2, <1>3, <1>4, ShopperMoves DEF CartInv, copyVars, cartVars

LEMMA ReadBasketStep == ASSUME CartInv, NEW s \in Shoppers, ReadBasket(s) PROVE CartInv'
<1> DEFINE q == shopper[s]
           l == IF applied = NoCoupon THEN "priced" ELSE "lookup"
           p == [q EXCEPT !.subTotal = basket, !.on = applied, !.discount = 0, !.at = l]
<1>1. q \in Asking /\ Rightly(q) /\ q.at = "cart"
  BY UnderWay DEF ReadBasket
<1>2. applied \in Codes /\ basket \in Nat
  BY DEF CartInv
<1>. /\ l \in {"priced", "lookup"} /\ 0 \in Int
     /\ l = "lookup" => applied # NoCoupon
  OBVIOUS
<1> HIDE DEF l
<1>3. p \in Asking /\ p.at = l /\ p.on = applied /\ p.code = q.code /\ p.phase = q.phase
      /\ p.discount = 0 /\ p.subTotal = basket
  BY <1>1, <1>2 DEF Asking
<1>4. shopper' = [shopper EXCEPT ![s] = p] /\ UNCHANGED <<coupon, couponEditor, copyVars, cartVars>>
  BY DEF ReadBasket, l
<1> HIDE DEF p
<1>5. Rightly(p)
  BY <1>1, <1>2, <1>3 DEF Rightly, Covered, Asked, Codes
<1> QED
  BY <1>2, <1>3, <1>4, <1>5, ShopperMoves DEF CartInv, copyVars, cartVars

LEMMA LookUpStep ==
  ASSUME CartInv, NEW s \in Shoppers, LookUpCopy(s) \/ FindByCode(s)
  PROVE  CartInv'
<1> DEFINE q == shopper[s]
<1>1. q \in Asking /\ Rightly(q) /\ q.at \in {"lookup", "find"}
  BY UnderWay DEF LookUpCopy, FindByCode
<1>2. PICK found \in Copies, l \in {"find", "fill", "decide"} :
        shopper' = [shopper EXCEPT ![s].found = found, ![s].at = l]
  <2>1. couponCopy[Asked(q)] \in Copies
    BY <1>1 DEF CartInv, Rightly
  <2>2. TermsOf(Asked(q)) \in Copies
    BY TermsAreKnown DEF CartInv
  <2> QED
    BY <2>1, <2>2 DEF LookUpCopy, FindByCode
<1> DEFINE p == [q EXCEPT !.found = found, !.at = l]
<1>3. p \in Asking /\ p.at = l /\ p.on = q.on /\ p.code = q.code /\ p.phase = q.phase
  BY <1>1 DEF Asking
<1>4. shopper' = [shopper EXCEPT ![s] = p] /\ UNCHANGED <<coupon, couponEditor, copyVars, cartVars>>
  BY <1>2 DEF LookUpCopy, FindByCode
<1> HIDE DEF p
<1>5. Rightly(p)
  BY <1>1, <1>3 DEF Rightly, Asked
<1> QED
  BY <1>3, <1>4, <1>5, ShopperMoves DEF CartInv, copyVars, cartVars

LEMMA FillCopyStep == ASSUME CartInv, NEW s \in Shoppers, FillCopy(s) PROVE CartInv'
<1> DEFINE q == shopper[s]
           p == [q EXCEPT !.at = "decide"]
<1>1. q \in Asking /\ Rightly(q) /\ q.at = "fill"
  BY UnderWay DEF FillCopy
<1>2. p \in Asking /\ p.at = "decide" /\ p.code = q.code /\ p.phase = q.phase
  BY <1>1 DEF Asking
<1>3. shopper' = [shopper EXCEPT ![s] = p] /\ UNCHANGED <<coupon, couponEditor, cartVars>>
  BY DEF FillCopy, ShopperAt
<1>4. couponCopy' \in [CouponCodes -> Copies]
  <2>1. couponCopy' = [couponCopy EXCEPT ![Asked(q)] = q.found]
    BY DEF FillCopy
  <2>2. q.found \in Copies
    BY <1>1 DEF Asking
  <2> QED
    BY <2>1, <2>2 DEF CartInv
<1> HIDE DEF p
<1>5. Rightly(p)
  BY <1>1, <1>2 DEF Rightly
<1> QED
  BY <1>2, <1>3, <1>4, <1>5, ShopperMoves DEF CartInv, cartVars

\* validateCoupon: the discount is one of the subtotal that was read.
LEMMA DecideStep == ASSUME CartInv, NEW s \in Shoppers, Decide(s) PROVE CartInv'
<1> DEFINE q == shopper[s]
           fits == q.found # NoCoupon /\ Accepted(q.found, q.subTotal)
           d == IF fits THEN Discount(q.found, q.subTotal) ELSE 0
<1>1. q \in Asking /\ Rightly(q)
  BY UnderWay DEF Decide
<1>2. PICK l \in {"write", "done", "priced", "clear"} :
        shopper' = [shopper EXCEPT ![s].discount = d, ![s].at = l]
  BY DEF Decide
<1>3. d \in Int /\ (d \in 0..q.subTotal \/ q.found.discountValue < 0)
  <2>1. q.subTotal \in Nat /\ (q.found = NoCoupon \/ q.found \in KnownTerms)
    BY <1>1 DEF Asking, Copies
  <2>2. CASE fits
    BY <2>1, <2>2, DiscountIsBounded, DiscountIsWhole
  <2>3. CASE ~fits
    BY <2>1, <2>3
  <2> QED
    BY <2>2, <2>3
<1> HIDE DEF d
<1> DEFINE p == [q EXCEPT !.discount = d, !.at = l]
<1>4. p \in Asking /\ p.at = l /\ p.code = q.code /\ p.phase = q.phase
      /\ p.discount = d /\ p.subTotal = q.subTotal /\ p.found = q.found
  BY <1>1, <1>3 DEF Asking
<1>5. shopper' = [shopper EXCEPT ![s] = p] /\ UNCHANGED <<coupon, couponEditor, copyVars, cartVars>>
  BY <1>2 DEF Decide
<1> HIDE DEF p
<1>6. Rightly(p)
  BY <1>1, <1>3, <1>4 DEF Rightly, Covered
<1> QED
  BY <1>4, <1>5, <1>6, ShopperMoves DEF CartInv, copyVars, cartVars

\* The steps that go on with the price as it is.
LEMMA PriceStep ==
  ASSUME CartInv, NEW s \in Shoppers,
         ClearCode(s) \/ Priced(s) \/ ClearBasket(s) \/ ReadBoth(s) \/ WriteCode(s)
  PROVE  CartInv'
<1> DEFINE q == shopper[s]
<1>1. q \in Asking /\ Rightly(q) /\ q.at \in {"clear", "priced", "order", "readBoth", "write"}
  BY UnderWay DEF ClearCode, Priced, ClearBasket, ReadBoth, WriteCode
<1>2. UNCHANGED <<coupon, couponEditor, copyVars>> /\ basket' \in Nat /\ applied' \in Codes
  <2>1. CASE WriteCode(s)
    BY <1>1, <2>1 DEF WriteCode, CartInv, Asking, Codes
  <2>2. CASE ~WriteCode(s)
    BY <2>2 DEF ClearCode, Priced, ClearBasket, ReadBoth, cartVars, CartInv, Codes
  <2> QED
    BY <2>1, <2>2 DEF ClearCode, Priced, ClearBasket, ReadBoth, WriteCode
<1>3. PICK p \in Asking : shopper' = [shopper EXCEPT ![s] = p] /\ Rightly(p)
  <2>1. CASE ClearCode(s) \/ ClearBasket(s)
    <3> DEFINE l == IF ClearCode(s) THEN "priced" ELSE "done"
               p == [q EXCEPT !.at = l]
    <3>1. p \in Asking /\ p.at = l /\ p.phase = q.phase /\ p.code = q.code /\ p.discount = q.discount
          /\ p.subTotal = q.subTotal /\ p.found = q.found
      BY <1>1 DEF Asking
    <3>2. shopper' = [shopper EXCEPT ![s] = p]
      BY <2>1 DEF ClearCode, ClearBasket, ShopperAt
    <3> HIDE DEF p
    <3>3. Rightly(p)
      BY <1>1, <3>1 DEF Rightly, Covered
    <3> QED
      BY <3>1, <3>2, <3>3
  <2>2. CASE Priced(s)
    <3> DEFINE phase == IF q.phase = "first" THEN "check" ELSE q.phase
               l == IF q.subTotal > 0 /\ q.phase = "first" THEN "lookup"
                    ELSE IF q.subTotal > 0 /\ q.op = "checkout" THEN "order" ELSE "done"
               p == [q EXCEPT !.phase = phase, !.at = l]
    <3>1. p \in Asking /\ p.at = l /\ p.phase = phase /\ p.code = q.code /\ p.discount = q.discount
          /\ p.subTotal = q.subTotal /\ p.found = q.found
      BY <1>1 DEF Asking
    <3>2. shopper' = [shopper EXCEPT ![s] = p]
      BY <2>2 DEF Priced
    <3> HIDE DEF p
    <3>3. Rightly(p)
      BY <1>1, <2>2, <3>1 DEF Rightly, Covered, Asked, Priced
    <3> QED
      BY <3>1, <3>2, <3>3
  <2>3. CASE ReadBoth(s)
    <3> DEFINE p == [q EXCEPT !.on = applied, !.at = "write"]
    <3>1. p \in Asking /\ p.at = "write" /\ p.phase = q.phase /\ p.code = q.code /\ p.discount = q.discount
          /\ p.subTotal = q.subTotal /\ p.found = q.found
      BY <1>1 DEF Asking, CartInv
    <3>2. shopper' = [shopper EXCEPT ![s] = p]
      BY <2>3 DEF ReadBoth
    <3> HIDE DEF p
    <3>3. Rightly(p)
      BY <1>1, <3>1 DEF Rightly, Covered
    <3> QED
      BY <3>1, <3>2, <3>3
  <2>4. CASE WriteCode(s)
    <3> DEFINE p == [q EXCEPT !.phase = "last", !.at = "cart"]
    <3>1. p \in Asking /\ p.at = "cart" /\ p.phase = "last"
      BY <1>1 DEF Asking
    <3>2. shopper' = [shopper EXCEPT ![s] = p]
      BY <2>4 DEF WriteCode
    <3> HIDE DEF p
    <3>3. Rightly(p)
      BY <3>1 DEF Rightly
    <3> QED
      BY <3>1, <3>2, <3>3
  <2> QED
    BY <2>1, <2>2, <2>3, <2>4
<1> QED
  BY <1>2, <1>3, ShopperMoves DEF CartInv, copyVars

LEMMA CartInvNext == CartInv /\ [PromotionsNext]_promotionVars => CartInv'
<1> SUFFICES ASSUME CartInv, [PromotionsNext]_promotionVars PROVE CartInv'
  OBVIOUS
<1>1. ASSUME NEW e \in CouponEditors, CouponEditorStep(e) PROVE CartInv'
  <2>1. DocumentInv'
    BY <1>1, DocumentStep DEF CartInv
  <2>2. UNCHANGED <<cartVars, shopper>>
    BY <1>1 DEF CouponEditorStep, CreateCoupon, UpdateCoupon, DeleteCoupon, EditCoupon, FindCoupon,
      WriteCoupon, DelCopy, CouponEditorFails
  <2>3. couponCopy' = couponCopy \/ \E k : couponCopy' = [couponCopy EXCEPT ![k] = NoCoupon]
    BY <1>1 DEF CouponEditorStep, CreateCoupon, UpdateCoupon, DeleteCoupon, EditCoupon, FindCoupon,
      WriteCoupon, DelCopy, CouponEditorFails, copyVars
  <2>4. couponCopy' \in [CouponCodes -> Copies]
    BY <2>3 DEF CartInv, Copies
  <2> QED
    BY <2>1, <2>2, <2>4 DEF CartInv, cartVars
<1>2. ASSUME NEW s \in Shoppers, ShopperStep(s) PROVE CartInv'
  BY <1>2, AskStep, ReadBasketStep, LookUpStep, FillCopyStep, DecideStep, PriceStep DEF ShopperStep
<1>3. CASE ChangeBasket \/ PassHour \/ (\E k \in CouponCodes : ForgetCopy(k)) \/ UNCHANGED promotionVars
  <2>1. /\ UNCHANGED <<coupon, couponEditor, shopper, applied>>
        /\ basket' = basket \/ basket' \in SubTotals
        /\ couponCopy' = couponCopy \/ \E k \in CouponCodes : couponCopy' = [couponCopy EXCEPT ![k] = NoCoupon]
    BY <1>3 DEF ChangeBasket, PassHour, ForgetCopy, promotionVars, copyVars, cartVars
  <2>2. couponCopy' \in [CouponCodes -> Copies] /\ basket' \in Nat
    BY <2>1, SubTotalsAssumption DEF CartInv, Copies
  <2> QED
    BY <2>1, <2>2 DEF CartInv, DocumentInv
<1> QED
  BY <1>1, <1>2, <1>3 DEF PromotionsNext

\* Whatever the coupons are edited to while carts are read, what is taken off a
\* cart is between nothing and its subtotal, unless the coupon found has a
\* negative value (validateCoupon at promotions.service.ts:18, calculateCart).
THEOREM DiscountsAreCovered == PromotionsSpec => []DiscountIsCovered
<1>1. CartInv => DiscountIsCovered
  BY UnderWay DEF DiscountIsCovered, Rightly, Covered
<1> QED
  BY InitCart, CartInvNext, <1>1, PTL DEF PromotionsSpec
-----------------------------------------------------------------------------
(* The copies of coupons.  An editor that has read its coupon knows the code *)
(* it has, unless another works on the same one, and so deletes every copy   *)
(* that its write makes stale.                                               *)

Came(e) == couponEditor[e].at # "idle"
Knows(d) ==
  /\ d.op = "create" <=> InitialCoupons[d.id] = NoCoupon
  /\ d.op = "create" /\ d.at \in {"findByCode", "findById", "write"} => ~Standing(d.id)
  /\ d.at = "write" /\ (d.op = "create" \/ d.code # NoCoupon) => d.code \in d.dels
  /\ d.at = "write" /\ ~couponEditorsMet /\ Standing(d.id) => coupon[d.id].code \in d.dels
Apart(e, f) ==
  /\ couponEditor[e].op = "create" /\ couponEditor[f].op = "create" => couponEditor[e].id # couponEditor[f].id
  /\ ~couponEditorsMet /\ couponEditor[e].at # "done" /\ couponEditor[f].at # "done"
       => couponEditor[e].id # couponEditor[f].id

CopyInv ==
  /\ DocumentInv
  /\ DOMAIN couponCopy = CouponCodes /\ couponEditorsMet \in BOOLEAN
  /\ \A e \in CouponEditors : Came(e) => Knows(couponEditor[e])
  /\ \A e, f \in CouponEditors : e # f /\ Came(e) /\ Came(f) => Apart(e, f)
  /\ CouponCopyIsFresh

LEMMA InitCopies == PromotionsInit => CopyInv
<1> SUFFICES ASSUME PromotionsInit PROVE CopyInv
  OBVIOUS
<1>1. \A e \in CouponEditors : ~Came(e)
  BY DEF PromotionsInit, Came
<1>2. DOMAIN couponCopy = CouponCodes /\ couponEditorsMet \in BOOLEAN /\ CouponCopyIsFresh
  BY DEF PromotionsInit, CouponCopyIsFresh
<1> QED
  BY <1>1, <1>2, InitDocuments DEF CopyInv

\* A code that a changed document neither had nor gets keeps its terms.
LEMMA TermsKept ==
  ASSUME NEW i, \A j \in CouponIds \ {i} : coupon'[j] = coupon[j], NEW k,
         Standing(i) => coupon[i].code # k, Standing(i)' => coupon'[i].code # k
  PROVE  TermsOf(k)' = TermsOf(k)
<1>1. \A j \in CouponIds : j \in Holder(k)' <=> j \in Holder(k)
  BY DEF Holder, Standing
<1>2. Holder(k)' = Holder(k)
  BY <1>1 DEF Holder
<1>3. CASE Holder(k) = {}
  BY <1>2, <1>3 DEF TermsOf
<1>4. CASE Holder(k) # {}
  <2>1. PICK j : j = CHOOSE x \in Holder(k) : TRUE
    OBVIOUS
  <2>2. j \in Holder(k)
    BY <1>4, <2>1
  <2>3. coupon'[j] = coupon[j]
    BY <2>2 DEF Holder
  <2>4. TermsOf(k) = coupon[j].terms
    BY <1>4, <2>1 DEF TermsOf
  <2>5. TermsOf(k)' = coupon'[j].terms
    BY <1>2, <1>4, <2>1 DEF TermsOf
  <2> QED
    BY <2>3, <2>4, <2>5
<1> QED
  BY <1>3, <1>4

\* A copy stays as fresh as it was, or is excused.
LEMMA CopyStaysFresh ==
  ASSUME CouponCopyIsFresh, couponEditorsMet => couponEditorsMet',
         \A k \in CouponCodes :
           \/ couponCopy'[k] \in {NoCoupon, TermsOf(k)'} \/ k \in staleCodes'
           \/ \E e \in CouponEditors : couponEditor'[e].at = "del" /\ k \in couponEditor'[e].dels
           \/ /\ couponCopy'[k] = couponCopy[k] /\ (k \in staleCodes => k \in staleCodes')
              /\ TermsOf(k)' = TermsOf(k) \/ couponEditorsMet'
              /\ \A e \in CouponEditors : couponEditor[e].at = "del" /\ k \in couponEditor[e].dels
                   => couponEditor'[e].at = "del" /\ k \in couponEditor'[e].dels
  PROVE  CouponCopyIsFresh'
BY DEF CouponCopyIsFresh

\* Editors know what they knew while one of them goes on, and writes at most its own coupon.
LEMMA EditorsKnow ==
  ASSUME CopyInv, NEW e \in CouponEditors, Came(e), couponEditor[e].at # "done",
         couponEditor'[e].op = couponEditor[e].op, couponEditor'[e].id = couponEditor[e].id,
         \A f \in CouponEditors \ {e} : couponEditor'[f] = couponEditor[f],
         couponEditorsMet' = couponEditorsMet,
         \/ UNCHANGED coupon
         \/ /\ couponEditor[e].at = "write"
            /\ \A j \in CouponIds \ {couponEditor[e].id} : coupon'[j] = coupon[j]
  PROVE  /\ \A f \in CouponEditors \ {e} : Came(f)' => Knows(couponEditor[f])'
         /\ \A f, g \in CouponEditors : f # g /\ Came(f)' /\ Came(g)' => Apart(f, g)'
<1>1. ASSUME NEW f \in CouponEditors \ {e}, Came(f)' PROVE Knows(couponEditor[f])'
  <2>1. Came(f) /\ couponEditor'[f] = couponEditor[f] /\ Knows(couponEditor[f]) /\ Knows(couponEditor[e])
        /\ Apart(e, f)
    BY <1>1 DEF Came, CopyInv
  <2>2. couponEditor[f].id \in CouponIds
    BY <2>1 DEF Came, CopyInv, DocumentInv, CouponEdit, Resting
  <2>3. CASE coupon'[couponEditor[f].id] = coupon[couponEditor[f].id]
    BY <2>1, <2>3 DEF Knows, Standing
  <2>4. CASE coupon'[couponEditor[f].id] # coupon[couponEditor[f].id]
    <3>1. couponEditor[e].at = "write" /\ couponEditor[f].id = couponEditor[e].id
      BY <2>2, <2>4
    <3>2. couponEditor[f].op # "create"
      BY <2>1, <3>1 DEF Knows, Apart
    <3>3. couponEditor[f].at = "write" => couponEditorsMet
      BY <2>1, <3>1 DEF Apart
    <3> QED
      BY <2>1, <3>2, <3>3 DEF Knows
  <2> QED
    BY <2>3, <2>4
<1>2. ASSUME NEW f \in CouponEditors, NEW g \in CouponEditors, f # g, Came(f)', Came(g)' PROVE Apart(f, g)'
  <2>1. Came(f) /\ Came(g)
    BY <1>2 DEF Came
  <2>2. Apart(f, g)
    BY <1>2, <2>1 DEF CopyInv
  <2>3. /\ couponEditor'[f].op = couponEditor[f].op /\ couponEditor'[f].id = couponEditor[f].id
        /\ couponEditor'[g].op = couponEditor[g].op /\ couponEditor'[g].id = couponEditor[g].id
        /\ couponEditor'[f].at # "done" => couponEditor[f].at # "done"
        /\ couponEditor'[g].at # "done" => couponEditor[g].at # "done"
    OBVIOUS
  <2> QED
    BY <2>2, <2>3 DEF Apart
<1> QED
  BY <1>1, <1>2

\* What a change of an editor's stage, its deletions or both leaves of its request.
Goes(e) ==
  /\ couponEditor'[e].op = couponEditor[e].op /\ couponEditor'[e].id = couponEditor[e].id
  /\ couponEditor'[e].code = couponEditor[e].code
  /\ \A f \in CouponEditors \ {e} : couponEditor'[f] = couponEditor[f]

LEMMA EditorTo ==
  ASSUME DocumentInv, NEW e \in CouponEditors, Came(e), NEW l
  PROVE  /\ couponEditor' = [couponEditor EXCEPT ![e].at = l] =>
              couponEditor'[e].at = l /\ couponEditor'[e].dels = couponEditor[e].dels /\ Goes(e)
         /\ couponEditor' = [couponEditor EXCEPT ![e].dels = l] =>
              couponEditor'[e].at = couponEditor[e].at /\ couponEditor'[e].dels = l /\ Goes(e)
         /\ \A K : couponEditor' = [couponEditor EXCEPT ![e].at = l, ![e].dels = K] =>
              couponEditor'[e].at = l /\ couponEditor'[e].dels = K /\ Goes(e)
<1>1. couponEditor[e] \in CouponEdit
  BY DEF DocumentInv, Resting, Came
<1>2. couponEditor' = [couponEditor EXCEPT ![e].at = l] =>
        couponEditor'[e].at = l /\ couponEditor'[e].dels = couponEditor[e].dels /\ Goes(e)
  BY <1>1 DEF DocumentInv, CouponEdit, Goes
<1>3. couponEditor' = [couponEditor EXCEPT ![e].dels = l] =>
        couponEditor'[e].at = couponEditor[e].at /\ couponEditor'[e].dels = l /\ Goes(e)
  BY <1>1 DEF DocumentInv, CouponEdit, Goes
<1>4. ASSUME NEW K, couponEditor' = [couponEditor EXCEPT ![e].at = l, ![e].dels = K]
      PROVE  couponEditor'[e].at = l /\ couponEditor'[e].dels = K /\ Goes(e)
  BY <1>1, <1>4 DEF DocumentInv, CouponEdit, Goes
<1> QED
  BY <1>2, <1>3, <1>4

LEMMA EditorArrives ==
  ASSUME CopyInv, DocumentInv', NEW e \in CouponEditors, NEW i, NEW k, NEW t, NEW op, EditCoupon(e, i, k, t, op),
         op = "create" <=> InitialCoupons[i] = NoCoupon,
         op = "create" => ~Standing(i) /\ \A f \in CouponEditors : Came(f) => couponEditor[f].id # i
  PROVE  CopyInv'
<1> DEFINE l == IF op = "create" THEN "findByCode" ELSE "findById"
           d == [op |-> op, id |-> i, code |-> k, terms |-> t, dels |-> {}, at |-> l]
<1>1. /\ couponEditor' = [couponEditor EXCEPT ![e] = d] /\ couponEditor[e].at = "idle"
      /\ couponEditorsMet' = (couponEditorsMet \/ \E f \in CouponEditors : Editing(f, i))
      /\ UNCHANGED <<coupon, couponCopy, staleCodes>>
  BY DEF EditCoupon, copyVars
<1>2. couponEditor'[e] = d /\ \A f \in CouponEditors \ {e} : couponEditor'[f] = couponEditor[f]
  BY <1>1 DEF CopyInv, DocumentInv
<1>3. d.op = op /\ d.id = i /\ d.at = l /\ l \in {"findByCode", "findById"}
  OBVIOUS
<1> HIDE DEF d, l
<1>4. \A k2 : TermsOf(k2)' = TermsOf(k2)
  BY <1>1 DEF TermsOf, Holder, Standing
<1>5. CouponCopyIsFresh'
  BY <1>1, <1>2, <1>4, CopyStaysFresh DEF CopyInv
<1>6. Knows(couponEditor[e])'
  BY <1>1, <1>2, <1>3 DEF Knows, Standing
<1>7. ASSUME NEW f \in CouponEditors \ {e}, Came(f)' PROVE Knows(couponEditor[f])' /\ Apart(e, f)' /\ Apart(f, e)'
  <2>1. Came(f) /\ couponEditor'[f] = couponEditor[f] /\ Knows(couponEditor[f])
    BY <1>2, <1>7 DEF Came, CopyInv
  <2>2. Knows(couponEditor[f])'
    BY <1>1, <2>1 DEF Knows, Standing
  <2>3. op = "create" => couponEditor[f].id # i
    BY <2>1
  <2>4. ~couponEditorsMet' /\ couponEditor[f].at # "done" => couponEditor[f].id # i
    BY <1>1, <2>1 DEF Editing, Came
  <2> QED
    BY <1>2, <1>3, <2>1, <2>2, <2>3, <2>4 DEF Apart
<1>8. ASSUME NEW f \in CouponEditors \ {e}, NEW g \in CouponEditors \ {e}, f # g, Came(f)', Came(g)'
      PROVE  Apart(f, g)'
  BY <1>1, <1>2, <1>8 DEF Apart, Came, CopyInv
<1>9. \A f, g \in CouponEditors : f # g /\ Came(f)' /\ Came(g)' => Apart(f, g)'
  BY <1>7, <1>8
<1> QED
  BY <1>1, <1>2, <1>5, <1>6, <1>7, <1>9 DEF CopyInv

\* One that goes on, and writes no document: it knows what the new stage asks.
LEMMA EditorWorks ==
  ASSUME CopyInv, DocumentInv', NEW e \in CouponEditors, Came(e), couponEditor[e].at # "done", Goes(e),
         UNCHANGED coupon, couponEditorsMet' = couponEditorsMet, DOMAIN couponCopy' = CouponCodes,
         couponEditor'[e].at \notin {"findByCode", "findById"},
         couponEditor'[e].at = "write" =>
           /\ couponEditor[e].op = "create" => couponEditor[e].at = "findByCode"
           /\ couponEditor[e].op = "create" \/ couponEditor[e].code # NoCoupon
                => couponEditor[e].code \in couponEditor'[e].dels
           /\ Standing(couponEditor[e].id) => coupon[couponEditor[e].id].code \in couponEditor'[e].dels,
         \A k \in CouponCodes :
           \/ couponCopy'[k] \in {NoCoupon, TermsOf(k)} \/ k \in staleCodes'
           \/ /\ couponCopy'[k] = couponCopy[k] /\ (k \in staleCodes => k \in staleCodes')
              /\ couponEditor[e].at = "del" /\ k \in couponEditor[e].dels
                   => couponEditor'[e].at = "del" /\ k \in couponEditor'[e].dels
  PROVE  CopyInv'
<1>1. Knows(couponEditor[e])
  BY DEF CopyInv
<1>2. Knows(couponEditor[e])'
  BY <1>1 DEF Knows, Standing, Goes
<1>3. \A k : TermsOf(k)' = TermsOf(k)
  BY DEF TermsOf, Holder, Standing
<1>4. CouponCopyIsFresh'
  BY <1>3, CopyStaysFresh DEF CopyInv, Goes
<1>5. /\ \A f \in CouponEditors \ {e} : Came(f)' => Knows(couponEditor[f])'
      /\ \A f, g \in CouponEditors : f # g /\ Came(f)' /\ Came(g)' => Apart(f, g)'
  BY EditorsKnow DEF Goes
<1> QED
  BY <1>2, <1>4, <1>5 DEF CopyInv

LEMMA EditorFinds == ASSUME CopyInv, DocumentInv', NEW e \in CouponEditors, FindCoupon(e) PROVE CopyInv'
<1> DEFINE d == couponEditor[e]
<1>1. Came(e) /\ d.at \in {"findByCode", "findById"} /\ d \in CouponEdit /\ Sensible(d)
      /\ UNCHANGED <<coupon, couponEditorsMet, couponCopy, staleCodes>>
  BY DEF FindCoupon, Came, CopyInv, DocumentInv, Resting, copyVars
<1>2. DOMAIN couponCopy' = CouponCodes /\ couponEditorsMet' = couponEditorsMet
  BY <1>1 DEF CopyInv
<1>3. CASE d.at = "findByCode"
  <2>1. d.op = "create" /\ ~Standing(d.id)
    BY <1>1, <1>3 DEF Sensible, CopyInv, Knows
  <2>2. PICK l \in {"done", "write"} : couponEditor' = [couponEditor EXCEPT ![e].at = l, ![e].dels = {d.code}]
    BY <1>3 DEF FindCoupon
  <2>3. couponEditor'[e].at = l /\ couponEditor'[e].dels = {d.code} /\ Goes(e)
    BY <1>1, <2>2, EditorTo DEF CopyInv
  <2> QED
    BY <1>1, <1>2, <1>3, <2>1, <2>3, EditorWorks
<1>4. CASE d.at = "findById" /\ Standing(d.id)
  <2> DEFINE K == {coupon[d.id].code, d.code} \ {NoCoupon}
  <2>1. couponEditor' = [couponEditor EXCEPT ![e].at = "write", ![e].dels = K]
    BY <1>4 DEF FindCoupon
  <2>2. d.op # "create"
    BY <1>1, <1>4 DEF CopyInv, Knows
  <2>3. coupon[d.id].code \in CouponCodes
    BY <1>1, <1>4 DEF Standing, CopyInv, DocumentInv, CouponEdit, Document
  <2>4. coupon[d.id].code \in K /\ (d.code # NoCoupon => d.code \in K)
    BY <2>3, DocumentsAssumption
  <2> HIDE DEF K
  <2>5. couponEditor'[e].at = "write" /\ couponEditor'[e].dels = K /\ Goes(e)
    BY <1>1, <2>1, EditorTo DEF CopyInv
  <2> QED
    BY <1>1, <1>2, <1>4, <2>2, <2>4, <2>5, EditorWorks
<1>5. CASE d.at = "findById" /\ ~Standing(d.id)
  <2>1. couponEditor' = [couponEditor EXCEPT ![e].at = "done"]
    BY <1>5 DEF FindCoupon, CouponEditorAt
  <2>2. couponEditor'[e].at = "done" /\ Goes(e)
    BY <1>1, <2>1, EditorTo DEF CopyInv
  <2> QED
    BY <1>1, <1>2, <1>5, <2>2, EditorWorks
<1> QED
  BY <1>1, <1>3, <1>4, <1>5

LEMMA EditorDeletes ==
  ASSUME CopyInv, DocumentInv', NEW e \in CouponEditors, DelCopy(e) \/ CouponEditorFails(e) PROVE CopyInv'
<1> DEFINE d == couponEditor[e]
<1>1. Came(e) /\ d.at \in {"write", "del"} /\ UNCHANGED <<coupon, couponEditorsMet>>
  BY DEF DelCopy, CouponEditorFails, Came
<1>2. CASE CouponEditorFails(e)
  <2>1. /\ couponEditor' = [couponEditor EXCEPT ![e].at = "done"] /\ UNCHANGED couponCopy
        /\ staleCodes' = staleCodes \union {k \in d.dels : d.at = "del" /\ couponCopy[k] # NoCoupon}
    BY <1>2 DEF CouponEditorFails, CouponEditorAt
  <2>2. DOMAIN couponCopy' = CouponCodes /\ couponEditorsMet' = couponEditorsMet
    BY <1>1, <2>1 DEF CopyInv
  <2>3. \A k \in CouponCodes :
           \/ couponCopy'[k] \in {NoCoupon, TermsOf(k)} \/ k \in staleCodes'
           \/ /\ couponCopy'[k] = couponCopy[k] /\ (k \in staleCodes => k \in staleCodes')
              /\ ~(d.at = "del" /\ k \in d.dels)
    BY <2>1
  <2>4. couponEditor'[e].at = "done" /\ Goes(e)
    BY <1>1, <2>1, EditorTo DEF CopyInv
  <2> QED
    BY <1>1, <2>2, <2>3, <2>4, EditorWorks
<1>3. CASE DelCopy(e) /\ d.dels = {}
  <2>1. couponEditor' = [couponEditor EXCEPT ![e].at = "done"] /\ UNCHANGED <<couponCopy, staleCodes>>
    BY <1>3 DEF DelCopy, CouponEditorAt, CodesToDelete
  <2>2. DOMAIN couponCopy' = CouponCodes /\ couponEditorsMet' = couponEditorsMet
    BY <1>1, <2>1 DEF CopyInv
  <2>3. couponEditor'[e].at = "done" /\ Goes(e)
    BY <1>1, <2>1, EditorTo DEF CopyInv
  <2> QED
    BY <1>1, <1>3, <2>1, <2>2, <2>3, EditorWorks
<1>4. CASE DelCopy(e) /\ d.dels # {}
  <2>1. PICK k \in d.dels :
          /\ couponCopy' = [couponCopy EXCEPT ![k] = NoCoupon] /\ staleCodes' = staleCodes \ {k}
          /\ couponEditor' = [couponEditor EXCEPT ![e].dels = @ \ {k}]
    BY <1>4 DEF DelCopy, CodesToDelete
  <2>2. DOMAIN couponCopy' = CouponCodes /\ couponEditorsMet' = couponEditorsMet
    BY <1>1, <2>1 DEF CopyInv
  <2>3. \A k2 \in CouponCodes :
          \/ couponCopy'[k2] = NoCoupon
          \/ /\ couponCopy'[k2] = couponCopy[k2] /\ (k2 \in staleCodes => k2 \in staleCodes')
             /\ k2 \in d.dels => k2 \in d.dels \ {k}
    BY <2>1 DEF CopyInv
  <2>4. couponEditor' = [couponEditor EXCEPT ![e].dels = d.dels \ {k}]
    BY <2>1
  <2>5. d.at = "del"
    BY <1>4 DEF DelCopy
  <2>6. couponEditor'[e].at = d.at /\ couponEditor'[e].dels = d.dels \ {k} /\ Goes(e)
    BY <1>1, <2>4, EditorTo DEF CopyInv
  <2> QED
    BY <1>1, <2>2, <2>3, <2>5, <2>6, EditorWorks
<1> QED
  BY <1>2, <1>3, <1>4

LEMMA EditorWrites == ASSUME CopyInv, DocumentInv', NEW e \in CouponEditors, WriteCoupon(e) PROVE CopyInv'
<1> DEFINE d == couponEditor[e]
<1>1. Came(e) /\ d.at = "write" /\ d \in CouponEdit /\ Knows(d) /\ UNCHANGED <<couponEditorsMet, couponCopy, staleCodes>>
  BY DEF WriteCoupon, Came, CopyInv, DocumentInv, Resting, copyVars
<1>2. DOMAIN couponCopy' = CouponCodes /\ couponEditorsMet' = couponEditorsMet
  BY <1>1 DEF CopyInv
<1>3. CASE d.code # NoCoupon /\ Holder(d.code) \ {d.id} # {}
  <2>1. couponEditor' = [couponEditor EXCEPT ![e].at = "done"] /\ UNCHANGED coupon
    BY <1>3 DEF WriteCoupon, CouponEditorAt
  <2>2. couponEditor'[e].at = "done" /\ Goes(e)
    BY <1>1, <2>1, EditorTo DEF CopyInv
  <2> QED
    BY <1>1, <1>2, <2>1, <2>2, EditorWorks
<1>4. CASE ~(d.code # NoCoupon /\ Holder(d.code) \ {d.id} # {})
  <2>1. PICK c : /\ coupon' = [coupon EXCEPT ![d.id] = c]
                 /\ c = CASE d.op = "create" -> [code |-> d.code, terms |-> d.terms]
                          [] d.op = "update" /\ Standing(d.id) ->
                               [code |-> IF d.code = NoCoupon THEN coupon[d.id].code ELSE d.code, terms |-> d.terms]
                          [] OTHER -> NoCoupon
    BY <1>4 DEF WriteCoupon
  <2>2. couponEditor' = [couponEditor EXCEPT ![e].at = "del"]
    BY <1>4 DEF WriteCoupon, CouponEditorAt
  <2>3. /\ couponEditor'[e].at = "del" /\ couponEditor'[e].dels = d.dels /\ couponEditor'[e].op = d.op
        /\ couponEditor'[e].id = d.id /\ \A f \in CouponEditors \ {e} : couponEditor'[f] = couponEditor[f]
    BY <1>1, <2>2, EditorTo DEF CopyInv, Goes
  <2>4. d.id \in CouponIds /\ coupon'[d.id] = c /\ \A j \in CouponIds \ {d.id} : coupon'[j] = coupon[j]
    BY <1>1, <2>1 DEF CouponEdit, CopyInv, DocumentInv
  <2>5. Standing(d.id) => coupon[d.id].code \in d.dels \/ couponEditorsMet
    BY <1>1 DEF Knows
  <2>6. c = NoCoupon \/ c.code \in d.dels \/ couponEditorsMet
    <3>1. CASE d.op = "create"
      BY <1>1, <2>1, <3>1 DEF Knows
    <3>2. CASE d.op = "update" /\ Standing(d.id)
      <4>1. c.code = IF d.code = NoCoupon THEN coupon[d.id].code ELSE d.code
        BY <2>1, <3>2
      <4> QED
        BY <1>1, <2>5, <3>2, <4>1 DEF Knows
    <3> QED
      BY <2>1, <3>1, <3>2
  <2>7. \A k \in CouponCodes : couponEditorsMet \/ k \in d.dels \/ TermsOf(k)' = TermsOf(k)
    <3> SUFFICES ASSUME NEW k \in CouponCodes, ~couponEditorsMet, k \notin d.dels PROVE TermsOf(k)' = TermsOf(k)
      OBVIOUS
    <3>1. PICK i : i = d.id
      OBVIOUS
    <3>2. Standing(i) => coupon[i].code # k
      BY <2>5, <3>1
    <3>3. Standing(i)' => coupon'[i].code # k
      BY <2>4, <2>6, <3>1 DEF Standing
    <3> QED
      BY <2>4, <3>1, <3>2, <3>3, TermsKept
  <2>8. CouponCopyIsFresh'
    <3>1. \A k \in CouponCodes :
           \/ \E f \in CouponEditors : couponEditor'[f].at = "del" /\ k \in couponEditor'[f].dels
           \/ /\ couponCopy'[k] = couponCopy[k] /\ (k \in staleCodes => k \in staleCodes')
              /\ TermsOf(k)' = TermsOf(k) \/ couponEditorsMet'
              /\ \A f \in CouponEditors : couponEditor[f].at = "del" /\ k \in couponEditor[f].dels
                   => couponEditor'[f].at = "del" /\ k \in couponEditor'[f].dels
      BY <1>1, <2>3, <2>7
    <3> QED
      BY <1>1, <3>1, CopyStaysFresh DEF CopyInv
  <2>9. Knows(couponEditor[e])'
    BY <1>1, <2>3 DEF Knows
  <2>10. /\ \A f \in CouponEditors \ {e} : Came(f)' => Knows(couponEditor[f])'
         /\ \A f, g \in CouponEditors : f # g /\ Came(f)' /\ Came(g)' => Apart(f, g)'
    BY <1>1, <2>3, <2>4, EditorsKnow
  <2> QED
    BY <1>2, <2>8, <2>9, <2>10 DEF CopyInv
<1> QED
  BY <1>3, <1>4

\* A shopper caches what it found, or the copy expires.
LEMMA CopiesAround ==
  ASSUME CopyInv, UNCHANGED <<coupon, couponEditor, couponEditorsMet>>,
         \/ UNCHANGED <<couponCopy, staleCodes>>
         \/ \E s \in Shoppers : FillCopy(s)
         \/ \E k \in CouponCodes : ForgetCopy(k)
  PROVE  CopyInv'
<1>1. \A k : TermsOf(k)' = TermsOf(k)
  BY DEF TermsOf, Holder, Standing
<1>2. DOMAIN couponCopy' = CouponCodes
  BY DEF CopyInv, FillCopy, ForgetCopy
<1>3. CouponCopyIsFresh'
  <2>1. CASE UNCHANGED <<couponCopy, staleCodes>>
    BY <1>1, <2>1, CopyStaysFresh DEF CopyInv
  <2>2. ASSUME NEW k, NEW c, couponCopy' = [couponCopy EXCEPT ![k] = c], c = NoCoupon \/ c = TermsOf(k) \/ k \in staleCodes',
               staleCodes \ {k} \subseteq staleCodes'
        PROVE  CouponCopyIsFresh'
    <3>1. \A k2 \in CouponCodes :
            \/ couponCopy'[k2] \in {NoCoupon, TermsOf(k2)'} \/ k2 \in staleCodes'
            \/ couponCopy'[k2] = couponCopy[k2] /\ (k2 \in staleCodes => k2 \in staleCodes')
      BY <1>1, <2>2 DEF CopyInv
    <3> QED
      BY <1>1, <3>1, CopyStaysFresh DEF CopyInv
  <2>3. ASSUME NEW s \in Shoppers, FillCopy(s) PROVE CouponCopyIsFresh'
    <3> DEFINE k == Asked(shopper[s])
    <3>1. /\ couponCopy' = [couponCopy EXCEPT ![k] = shopper[s].found]
          /\ staleCodes' = IF shopper[s].found = TermsOf(k) THEN staleCodes \ {k} ELSE staleCodes \union {k}
      BY <2>3 DEF FillCopy
    <3> HIDE DEF k
    <3> QED
      BY <2>2, <3>1
  <2>4. ASSUME NEW k \in CouponCodes, ForgetCopy(k) PROVE CouponCopyIsFresh'
    BY <2>2, <2>4 DEF ForgetCopy
  <2> QED
    BY <2>1, <2>3, <2>4
<1>4. DocumentInv'
  BY DEF CopyInv, DocumentInv
<1>5. \A e \in CouponEditors : Came(e)' => Knows(couponEditor[e])'
  BY DEF CopyInv, Came, Knows, Standing
<1>6. \A e, f \in CouponEditors : e # f /\ Came(e)' /\ Came(f)' => Apart(e, f)'
  BY DEF CopyInv, Came, Apart
<1> QED
  BY <1>2, <1>3, <1>4, <1>5, <1>6 DEF CopyInv

LEMMA CopyInvNext == CopyInv /\ [PromotionsNext]_promotionVars => CopyInv'
<1> SUFFICES ASSUME CopyInv, [PromotionsNext]_promotionVars PROVE CopyInv'
  OBVIOUS
<1>1. ASSUME NEW e \in CouponEditors, CouponEditorStep(e) PROVE CopyInv'
  <2>1. DocumentInv'
    BY <1>1, DocumentStep DEF CopyInv
  <2>2. CASE CreateCoupon(e)
    <3>1. PICK i \in CouponIds, k \in CouponCodes, t \in OfferedTerms :
            /\ ~Standing(i) /\ InitialCoupons[i] = NoCoupon
            /\ ~\E f \in CouponEditors : couponEditor[f].at # "idle" /\ couponEditor[f].id = i
            /\ EditCoupon(e, i, k, t, "create")
      BY <2>2 DEF CreateCoupon
    <3> QED
      BY <2>1, <3>1, EditorArrives DEF Came
  <2>3. CASE UpdateCoupon(e)
    <3>1. PICK i \in CouponIds, k \in CouponCodes \union {NoCoupon}, t \in EditedTerms :
            InitialCoupons[i] # NoCoupon /\ EditCoupon(e, i, k, t, "update")
      BY <2>3 DEF UpdateCoupon
    <3> QED
      BY <2>1, <3>1, EditorArrives
  <2>4. CASE DeleteCoupon(e)
    <3>1. PICK i \in CouponIds : InitialCoupons[i] # NoCoupon /\ EditCoupon(e, i, NoCoupon, NoCoupon, "delete")
      BY <2>4 DEF DeleteCoupon
    <3> QED
      BY <2>1, <3>1, EditorArrives
  <2> QED
    BY <1>1, <2>1, <2>2, <2>3, <2>4, EditorFinds, EditorWrites, EditorDeletes DEF CouponEditorStep
<1>2. CASE ~\E e \in CouponEditors : CouponEditorStep(e)
  <2>1. /\ UNCHANGED <<coupon, couponEditor, couponEditorsMet>>
        /\ \/ UNCHANGED <<couponCopy, staleCodes>>
           \/ \E s \in Shoppers : FillCopy(s)
           \/ \E k \in CouponCodes : ForgetCopy(k)
    <3>1. CASE ChangeBasket \/ PassHour \/ UNCHANGED promotionVars
      BY <3>1 DEF ChangeBasket, PassHour, promotionVars, copyVars
    <3>2. ASSUME NEW k \in CouponCodes, ForgetCopy(k) PROVE UNCHANGED <<coupon, couponEditor, couponEditorsMet>>
      BY <3>2 DEF ForgetCopy
    <3>3. ASSUME NEW s \in Shoppers, FillCopy(s) PROVE UNCHANGED <<coupon, couponEditor, couponEditorsMet>>
      BY <3>3 DEF FillCopy
    <3>4. ASSUME NEW s \in Shoppers, ShopperStep(s), ~FillCopy(s)
          PROVE  UNCHANGED <<coupon, couponEditor, couponEditorsMet, couponCopy, staleCodes>>
      BY <3>4 DEF ShopperStep, GetCart, AskCheckout, ApplyCoupon, RemoveCoupon, MergeGuestCart,
         Ask, ReadBasket,
                  LookUpCopy, FindByCode, Decide, ClearCode, Priced, ClearBasket, ReadBoth, WriteCode, copyVars
    <3> QED
      BY <1>2, <3>1, <3>2, <3>3, <3>4 DEF PromotionsNext
  <2> QED
    BY <2>1, CopiesAround
<1> QED
  BY <1>1, <1>2
-----------------------------------------------------------------------------
(* Products.  A writer that reads before it writes knows the slug and the    *)
(* category as they are, where no other such writer is at work on the same   *)
(* product; so it deletes every key that its write makes stale.              *)

Stages == {"category", "slug", "create", "read", "write", "delete",
           "delId", "delSlug", "delNewSlug", "keys", "delLists"}
Writing == [at : Stages, ask : Changes, seen : ProductDoc \union {NoValue},
            shelfSlug : ShelfSlugs \union {NoValue},
            oldSlug : ProductSlugs \union {Same}, updatedSlug : ProductSlugs \union {Same}]

\* What a writer is there for, in each stage.
Informed(c) == c.at \in {"category", "write", "delete"} /\ c.ask.op \in {"update", "delete"}
InStage(c) ==
  /\ c.at \in {"slug", "create"} => c.ask.op = "create"
  /\ c.at = "category" => c.ask.op \in {"create", "update"} /\ c.ask.category # Same
  /\ c.at = "read" => c.ask.op \in {"update", "delete"}
  /\ c.at = "write" => c.ask.op \in {"update", "rate"}
  /\ c.at = "delete" => c.ask.op = "delete"
  /\ Informed(c) => c.seen \in ProductDoc
Coming(c) == c.at \in {"category", "slug", "create"} /\ c.ask.op = "create"

\* A product that is to be created is nobody else's yet.
Unborn ==
  \A w \in ProductWriters : Coming(writer[w]) =>
    /\ product[Target(w)] = NoValue /\ Target(w) \notin gone
    /\ \A v \in ProductWriters \ {w} : Busy(v) => Target(v) # Target(w)

\* Two that read first work on different products.
OneReads ==
  \A v, w \in ProductWriters :
    /\ v # w /\ Busy(v) /\ Busy(w)
    /\ ReadsFirst(writer[v].ask) /\ ReadsFirst(writer[w].ask)
    => Target(v) # Target(w)

Agrees(seen, doc) ==
  /\ seen \in ProductDoc /\ doc \in ProductDoc
  /\ seen.slug = doc.slug /\ seen.category = doc.category /\ seen.categorySlug = doc.categorySlug
SeenIsSo == \A w \in ProductWriters : Informed(writer[w]) => Agrees(writer[w].seen, product[Target(w)])

\* The slug that a writer has looked up is one of the category it asks for.
Noted(c) ==
  \/ c.at \in {"slug", "create"}
  \/ c.at = "write" /\ c.ask.op = "update" /\ Moves(c.ask, c.seen)
  => c.ask.category \in Shelves /\ c.shelfSlug \in OwnSlugs(c.ask.category)

ProductTypes ==
  /\ renames \in [Shelves -> 0..MaxRenames]
  /\ product \in [ProductIds -> ProductDoc \union {NoValue}]
  /\ writer \in [ProductWriters -> Writing \union {ToCome, Over}]
  /\ \A w \in ProductWriters : InStage(writer[w])
  /\ clashed \in BOOLEAN /\ productCrashes \in Nat
  /\ DOMAIN cache = CacheKeys

SlugsDiffer ==
  \A p, q \in ProductIds : Exists(p) /\ Exists(q) /\ product[p].slug = product[q].slug => p = q

ShelfInv ==
  /\ ProductTypes /\ SlugsDiffer /\ Unborn
  /\ ~clashed => OneReads /\ SeenIsSo
  /\ \A w \in ProductWriters : Noted(writer[w])
  /\ CategorySlugFollows

LEMMA InitShelf == ProductsInit => ShelfInv /\ ProductCacheIsFresh
<1> SUFFICES ASSUME ProductsInit PROVE ShelfInv /\ ProductCacheIsFresh
  OBVIOUS
<1>1. \A p \in ProductIds : /\ product[p] \in ProductDoc \union {NoValue}
                            /\ product[p] # NoValue => p \in DOMAIN InitialProducts /\ product[p] = InitialProducts[p]
  BY ProductsAssumption DEF ProductsInit
<1>2. ProductTypes /\ \A w \in ProductWriters : Noted(writer[w])
  <2>1. renames \in [Shelves -> 0..MaxRenames]
    BY ProductCrashesAssumption DEF ProductsInit
  <2>2. \A w \in ProductWriters : InStage(writer[w]) /\ Noted(writer[w])
    BY DEF ProductsInit, ToCome, InStage, Informed, Noted
  <2> QED
    BY <1>1, <2>1, <2>2 DEF ProductsInit, ProductTypes, ToCome
<1>3. SlugsDiffer /\ CategorySlugFollows
  <2>1. \A c \in Shelves : <<c, 0>> \in OwnSlugs(c)
    BY DEF ProductsInit, OwnSlugs
  <2>2. \A p \in ProductIds : Exists(p) => product[p].categorySlug = <<product[p].category, 0>>
                                         /\ product[p].category \in Shelves
    BY <1>1, ProductsAssumption DEF Exists, ProductDoc
  <2> QED
    BY <1>1, <2>1, <2>2, ProductsAssumption DEF SlugsDiffer, CategorySlugFollows, Exists
<1>4. Unborn /\ OneReads /\ SeenIsSo
  BY DEF ProductsInit, ToCome, Unborn, OneReads, SeenIsSo, Coming, Informed, Busy
<1>5. ProductCacheIsFresh
  BY DEF ProductsInit, ProductCacheIsFresh
<1> QED
  BY <1>2, <1>3, <1>4, <1>5 DEF ShelfInv

LEMMA BusyWrites ==
  ASSUME ProductTypes, NEW w \in ProductWriters
  PROVE  Busy(w) <=> writer[w] \in Writing
BY DEF ProductTypes, Busy, ToCome, Over, Writing, Stages

\* Another stage, or the end, of a writer; the documents stay.
LEMMA WriterGoesOn ==
  ASSUME ShelfInv, NEW w \in ProductWriters, Busy(w), NEW c \in Writing \union {Over},
         writer' = [writer EXCEPT ![w] = c],
         c # Over => /\ c.ask = writer[w].ask /\ InStage(c)
                     /\ Coming(c) => Coming(writer[w])
                     /\ Noted(c)
                     /\ Informed(c) => \/ Informed(writer[w]) /\ c.seen = writer[w].seen
                                       \/ Agrees(c.seen, product[Target(w)]),
         UNCHANGED <<product, gone, renames, clashed>>, productCrashes' \in Nat, DOMAIN cache' = CacheKeys
  PROVE  ShelfInv'
<1>1. writer[w] \in Writing /\ Over.at = "done" /\ ToCome.at = "idle" /\ Over # ToCome
  BY BusyWrites DEF ShelfInv, Over, ToCome
<1>2. /\ writer'[w] = c
      /\ \A v \in ProductWriters \ {w} : writer'[v] = writer[v]
  BY DEF ShelfInv, ProductTypes
<1>3. InStage(c)
  BY <1>1 DEF InStage, Informed
<1>4. ProductTypes'
  BY <1>2, <1>3 DEF ShelfInv, ProductTypes, InStage, Informed
<1>5. \A v \in ProductWriters : Busy(v)' => Busy(v) /\ Target(v)' = Target(v) /\ writer'[v].ask = writer[v].ask
  BY <1>1, <1>2 DEF Busy, Target
<1>6. \A v \in ProductWriters : Coming(writer[v])' => Coming(writer[v]) /\ Busy(v)'
  BY <1>1, <1>2 DEF Coming, Busy
<1>7. Unborn'
  BY <1>5, <1>6 DEF ShelfInv, Unborn
<1>8. ~clashed' => OneReads'
  BY <1>5 DEF ShelfInv, OneReads
<1>9. ~clashed' => SeenIsSo'
  <2> SUFFICES ASSUME ~clashed', NEW v \in ProductWriters, Informed(writer'[v])
               PROVE  Agrees(writer'[v].seen, product'[Target(v)'])
    BY DEF SeenIsSo, Informed, Agrees
  <2>1. CASE v # w
    BY <1>2, <2>1 DEF ShelfInv, SeenIsSo, Target
  <2>2. CASE v = w
    <3>1. c # Over /\ Informed(c)
      BY <1>1, <1>2, <2>2 DEF Informed
    <3> QED
      BY <1>2, <2>2, <3>1 DEF ShelfInv, SeenIsSo, Target
  <2> QED
    BY <2>1, <2>2
<1>10. SlugsDiffer' /\ CategorySlugFollows'
  BY DEF ShelfInv, SlugsDiffer, CategorySlugFollows, Exists, OwnSlugs
<1>11. \A v \in ProductWriters : Noted(writer[v])'
  BY <1>1, <1>2 DEF ShelfInv, Noted, OwnSlugs, Moves
<1> QED
  BY <1>4, <1>7, <1>8, <1>9, <1>10, <1>11 DEF ShelfInv

\* The record of a writer in another stage.
LEMMA WriterMoved ==
  ASSUME NEW c \in Writing, NEW l \in Stages
  PROVE  [c EXCEPT !.at = l] =
           [at |-> l, ask |-> c.ask, seen |-> c.seen, shelfSlug |-> c.shelfSlug,
            oldSlug |-> c.oldSlug, updatedSlug |-> c.updatedSlug]
BY DEF Writing

LEMMA SlugsNoted ==
  ASSUME NEW c \in Writing, NEW s, NEW t
  PROVE  [[[c EXCEPT !.at = "delId"] EXCEPT !.updatedSlug = s] EXCEPT !.oldSlug = t] =
           [at |-> "delId", ask |-> c.ask, seen |-> c.seen, shelfSlug |-> c.shelfSlug,
            oldSlug |-> t, updatedSlug |-> s]
<1>1. [c EXCEPT !.at = "delId"] =
        [at |-> "delId", ask |-> c.ask, seen |-> c.seen, shelfSlug |-> c.shelfSlug,
            oldSlug |-> c.oldSlug, updatedSlug |-> c.updatedSlug]
  BY WriterMoved DEF Stages
<1>2. [[at |-> "delId", ask |-> c.ask, seen |-> c.seen, shelfSlug |-> c.shelfSlug,
            oldSlug |-> c.oldSlug, updatedSlug |-> c.updatedSlug]
         EXCEPT !.updatedSlug = s] =
        [at |-> "delId", ask |-> c.ask, seen |-> c.seen, shelfSlug |-> c.shelfSlug,
            oldSlug |-> c.oldSlug, updatedSlug |-> s]
  OBVIOUS
<1>3. [[at |-> "delId", ask |-> c.ask, seen |-> c.seen, shelfSlug |-> c.shelfSlug,
            oldSlug |-> c.oldSlug, updatedSlug |-> s]
         EXCEPT !.oldSlug = t] =
        [at |-> "delId", ask |-> c.ask, seen |-> c.seen, shelfSlug |-> c.shelfSlug,
            oldSlug |-> t, updatedSlug |-> s]
  OBVIOUS
<1> QED
  BY <1>1, <1>2, <1>3

LEMMA GoesTo ==
  ASSUME ProductTypes, NEW w \in ProductWriters, Busy(w), NEW l \in Stages, WriterAt(w, l)
  PROVE  \E c \in Writing : /\ writer' = [writer EXCEPT ![w] = c]
                            /\ c.at = l /\ c.ask = writer[w].ask /\ c.seen = writer[w].seen
                            /\ c.shelfSlug = writer[w].shelfSlug
                            /\ c.oldSlug = writer[w].oldSlug /\ c.updatedSlug = writer[w].updatedSlug
<1> DEFINE c == [at |-> l, ask |-> writer[w].ask, seen |-> writer[w].seen,
                 shelfSlug |-> writer[w].shelfSlug,
                 oldSlug |-> writer[w].oldSlug, updatedSlug |-> writer[w].updatedSlug]
<1>1. writer[w] \in Writing
  BY BusyWrites
<1>2. c \in Writing
  BY <1>1 DEF Writing
<1>3. [writer[w] EXCEPT !.at = l] = c
  BY <1>1, WriterMoved
<1>4. writer' = [writer EXCEPT ![w] = c]
  BY <1>3 DEF WriterAt
<1>5. /\ c.at = l /\ c.ask = writer[w].ask /\ c.seen = writer[w].seen
      /\ c.shelfSlug = writer[w].shelfSlug
      /\ c.oldSlug = writer[w].oldSlug /\ c.updatedSlug = writer[w].updatedSlug
  OBVIOUS
<1> HIDE DEF c
<1> QED
  BY <1>2, <1>4, <1>5

LEMMA WriterEnds ==
  ASSUME ShelfInv, NEW w \in ProductWriters, Busy(w), Finish(w),
         UNCHANGED <<product, gone, renames, clashed>>, productCrashes' \in Nat, DOMAIN cache' = CacheKeys
  PROVE  ShelfInv'
BY WriterGoesOn DEF Finish

\* The documents and the writers stay; a category may get another slug.
LEMMA ShelfStays ==
  ASSUME ShelfInv, UNCHANGED <<product, gone, writer, clashed, productCrashes>>, DOMAIN cache' = CacheKeys,
         renames' \in [Shelves -> 0..MaxRenames], \A s \in Shelves : renames[s] <= renames'[s]
  PROVE  ShelfInv'
<1>1. ProductTypes' /\ SlugsDiffer' /\ Unborn'
  BY DEF ShelfInv, ProductTypes, SlugsDiffer, Unborn, Exists, Busy, Target
<1>2. ~clashed' => OneReads' /\ SeenIsSo'
  BY DEF ShelfInv, OneReads, SeenIsSo, Busy, Target
<1>3. ASSUME NEW s \in Shelves PROVE OwnSlugs(s) \subseteq OwnSlugs(s)'
  <2>1. renames[s] \in Nat /\ renames'[s] \in Nat /\ renames[s] <= renames'[s]
    BY ProductCrashesAssumption DEF ShelfInv, ProductTypes
  <2>2. 0..renames[s] \subseteq 0..renames'[s]
    BY <2>1
  <2> QED
    BY <2>2 DEF OwnSlugs
<1>4. CategorySlugFollows'
  <2>1. \A p \in ProductIds : Exists(p) => product[p].category \in Shelves
    BY DEF ShelfInv, ProductTypes, Exists, ProductDoc
  <2> QED
    BY <1>3, <2>1 DEF ShelfInv, CategorySlugFollows, Exists
<1>5. \A w \in ProductWriters : Noted(writer[w])'
  BY <1>3 DEF ShelfInv, Noted, Moves
<1> QED
  BY <1>1, <1>2, <1>4, <1>5 DEF ShelfInv

\* Whoever is at a stage is at work.
LEMMA AtStage ==
  ASSUME ProductTypes, NEW w \in ProductWriters, writer[w].at \in Stages
  PROVE  Busy(w) /\ writer[w] \in Writing
BY BusyWrites DEF ProductTypes, ToCome, Over, Stages

\* Steps of a writer that change no document.
LEMMA LookSteps ==
  ASSUME ShelfInv, NEW w \in ProductWriters,
         \/ FindBySlugAdmin(w)
         \/ DelId(w) \/ DelSlug(w) \/ DelNewSlug(w) \/ FindLists(w) \/ DelLists(w) \/ ProductCrash(w)
  PROVE  ShelfInv'
<1>1. UNCHANGED <<product, gone, renames, clashed>> /\ productCrashes' \in Nat /\ DOMAIN cache' = CacheKeys
  BY DEF FindBySlugAdmin, DelId, DelSlug, DelNewSlug, FindLists, DelLists,
     ProductCrash, Del,
         ShelfInv, ProductTypes
<1>2. Busy(w)
  <2>1. CASE ProductCrash(w)
    BY <2>1 DEF ProductCrash
  <2>2. CASE ~ProductCrash(w)
    <3>1. writer[w].at \in Stages
      BY <2>2 DEF FindBySlugAdmin, DelId, DelSlug, DelNewSlug, FindLists, DelLists, Stages
    <3> QED
      BY <3>1, AtStage DEF ShelfInv
  <2> QED
    BY <2>1, <2>2
<1>3. CASE Finish(w)
  BY <1>1, <1>2, <1>3, WriterEnds
<1>4. ASSUME NEW l \in Stages, WriterAt(w, l),
             \/ l \in {"delSlug", "delNewSlug", "keys", "delLists"}
             \/ l = "create" /\ writer[w].at = "slug"
      PROVE  ShelfInv'
  <2>1. PICK c \in Writing : /\ writer' = [writer EXCEPT ![w] = c]
                             /\ c.at = l /\ c.ask = writer[w].ask /\ c.shelfSlug = writer[w].shelfSlug
    BY <1>2, <1>4, GoesTo DEF ShelfInv
  <2>2. InStage(c) /\ (Coming(c) => Coming(writer[w])) /\ ~Informed(c) /\ Noted(c)
    <3>1. InStage(writer[w]) /\ Noted(writer[w])
      BY DEF ShelfInv, ProductTypes
    <3> QED
      BY <1>4, <2>1, <3>1 DEF InStage, Coming, Informed, Noted
  <2> QED
    BY <1>1, <1>2, <2>1, <2>2, WriterGoesOn
<1>6. CASE FindBySlugAdmin(w)
  BY <1>3, <1>4, <1>6 DEF FindBySlugAdmin, Stages
<1>7. CASE DelId(w) \/ DelSlug(w) \/ DelNewSlug(w) \/ FindLists(w) \/ DelLists(w) \/ ProductCrash(w)
  BY <1>3, <1>4, <1>7 DEF DelId, DelSlug, DelNewSlug, FindLists, DelLists, ProductCrash, Stages
<1> QED
  BY <1>6, <1>7

\* A writer notes the slug of the category it asks for.
LEMMA CategoryStep == ASSUME ShelfInv, NEW w \in ProductWriters, ReadCategory(w) PROVE ShelfInv'
<1> DEFINE a == writer[w].ask
           l == AfterCategory[a.op]
           n == ShelfSlug(a.category)
           c == [at |-> l, ask |-> writer[w].ask, seen |-> writer[w].seen, shelfSlug |-> n,
                 oldSlug |-> writer[w].oldSlug, updatedSlug |-> writer[w].updatedSlug]
<1>1. /\ Busy(w) /\ writer[w] \in Writing /\ writer[w].at = "category"
      /\ UNCHANGED <<product, gone, renames, clashed, productCrashes, cache>>
  BY AtStage DEF ReadCategory, Stages, ShelfInv
<1>2. productCrashes' \in Nat /\ DOMAIN cache' = CacheKeys
  BY <1>1 DEF ShelfInv, ProductTypes
<1>3. CASE Finish(w)
  BY <1>1, <1>2, <1>3, WriterEnds
<1>4. CASE ~Finish(w)
  <2>1. a.op \in {"create", "update"} /\ a.category \in Shelves
    <3>1. a.op \in {"create", "update"} /\ a.category # Same
      BY <1>1 DEF ShelfInv, ProductTypes, InStage
    <3> QED
      BY <1>1, <3>1, ChangesAssumption DEF Writing, ProductChange
  <2>2. n \in ShelfSlugs /\ n \in OwnSlugs(a.category)
    <3>1. renames[a.category] \in 0..MaxRenames /\ renames[a.category] \in 0..renames[a.category]
      BY <2>1, ProductCrashesAssumption DEF ShelfInv, ProductTypes
    <3> QED
      BY <2>1, <3>1 DEF ShelfSlug, ShelfSlugs, OwnSlugs
  <2>3. l = (IF a.op = "create" THEN "slug" ELSE "write") /\ l \in Stages
    BY <2>1 DEF AfterCategory, Stages
  <2>4. writer' = [writer EXCEPT ![w] = [[writer[w] EXCEPT !.shelfSlug = n] EXCEPT !.at = l]]
    BY <1>4 DEF ReadCategory
  <2> HIDE DEF n, l
  <2>5. [[writer[w] EXCEPT !.shelfSlug = n] EXCEPT !.at = l] = c
    <3> DEFINE d == [at |-> writer[w].at, ask |-> writer[w].ask, seen |-> writer[w].seen, shelfSlug |-> n,
                     oldSlug |-> writer[w].oldSlug, updatedSlug |-> writer[w].updatedSlug]
    <3>1. d \in Writing
      BY <1>1, <2>2 DEF Writing
    <3>2. [writer[w] EXCEPT !.shelfSlug = n] = d
      BY <1>1 DEF Writing
    <3>3. [d EXCEPT !.at = l] = c
      BY <2>3, <3>1, WriterMoved
    <3> QED
      BY <3>2, <3>3
  <2>6. c \in Writing
    BY <1>1, <2>2, <2>3 DEF Writing
  <2>7. c.at = l /\ c.ask = a /\ c.seen = writer[w].seen /\ c.shelfSlug = n
    OBVIOUS
  <2> HIDE DEF c
  <2>8. writer' = [writer EXCEPT ![w] = c]
    BY <2>4, <2>5
  <2>9. Coming(c) => Coming(writer[w])
    BY <1>1, <2>7 DEF Coming
  <2>10. Informed(c) => Informed(writer[w])
    BY <1>1, <2>7 DEF Informed
  <2>11. InStage(c) /\ Noted(c)
    <3>1. InStage(writer[w])
      BY DEF ShelfInv, ProductTypes
    <3> QED
      BY <2>1, <2>2, <2>3, <2>7, <2>10, <3>1 DEF InStage, Noted
  <2> QED
    BY <1>1, <1>2, <2>6, <2>7, <2>8, <2>9, <2>10, <2>11, WriterGoesOn
<1> QED
  BY <1>3, <1>4

\* A request comes in: what it asks for is nobody's, or the clash is noted.
LEMMA ReceiveStep ==
  ASSUME ShelfInv, NEW w \in ProductWriters, NEW a \in Changes, Receive(w, a)
  PROVE  ShelfInv'
<1> DEFINE c == [at |-> FirstRead[a.op], ask |-> a, seen |-> NoValue, shelfSlug |-> NoValue,
                 oldSlug |-> Same, updatedSlug |-> Same]
<1>1. /\ writer[w] = ToCome /\ writer' = [writer EXCEPT ![w] = c]
      /\ UNCHANGED <<product, gone, renames, cache, productCrashes>>
  BY DEF Receive
<1>2. a.op \in {"create", "update", "delete", "rate"} /\ a.id \in ProductIds
  BY ChangesAssumption DEF ProductChange
<1>3. FirstRead[a.op] = (IF a.op = "create" THEN "category" ELSE IF a.op = "rate" THEN "write" ELSE "read")
  BY <1>2 DEF FirstRead
<1>4. c \in Writing /\ InStage(c) /\ (Coming(c) <=> a.op = "create") /\ ~Informed(c) /\ Noted(c)
  <2>1. a.op = "create" => a.category # Same
    BY ChangesAssumption DEF ProductChange
  <2>2. ~Moves(a, NoValue) \/ a.op # "update" \/ c.at # "write"
    BY <1>3
  <2> QED
    BY <1>2, <1>3, <2>1, <2>2 DEF Writing, Stages, InStage, Coming, Informed, Noted
<1>5. c.ask = a
  OBVIOUS
<1> HIDE DEF c
<1>6. writer'[w] = c /\ \A v \in ProductWriters \ {w} : writer'[v] = writer[v]
  BY <1>1 DEF ShelfInv, ProductTypes
<1>7. Busy(w)' /\ Target(w)' = a.id /\ ~Busy(w)
  BY <1>1, <1>4, <1>5, <1>6 DEF Busy, Target, Writing, Stages, ToCome, Over
<1>8. \A v \in ProductWriters \ {w} : (Busy(v)' <=> Busy(v)) /\ Target(v)' = Target(v)
  BY <1>6 DEF Busy, Target
<1>9. clashed' \in BOOLEAN /\ (~clashed' => ~clashed)
  BY DEF Receive, ShelfInv, ProductTypes
<1>10. ProductTypes'
  BY <1>1, <1>4, <1>6, <1>9 DEF ShelfInv, ProductTypes
<1>11. Unborn'
  <2> SUFFICES ASSUME NEW v \in ProductWriters, Coming(writer'[v])
               PROVE  /\ product[Target(v)'] = NoValue /\ Target(v)' \notin gone
                      /\ \A u \in ProductWriters \ {v} : Busy(u)' => Target(u)' # Target(v)'
    BY <1>1 DEF Unborn, Coming
  <2>1. CASE v = w
    BY <1>4, <1>6, <1>7, <1>8, <2>1 DEF Receive, Exists
  <2>2. CASE v # w
    <3>1. Coming(writer[v]) /\ Target(v)' = Target(v) /\ Busy(v)
      BY <1>6, <1>8, <2>2 DEF Coming, Busy, ToCome, Over
    <3>2. product[Target(v)] = NoValue /\ Target(v) \notin gone
      BY <3>1 DEF ShelfInv, Unborn
    <3>3. a.id # Target(v)
      BY <2>2, <3>1, <3>2 DEF Receive, Exists
    <3> QED
      BY <1>7, <1>8, <3>1, <3>2, <3>3 DEF ShelfInv, Unborn
  <2> QED
    BY <2>1, <2>2
<1>12. ~clashed' => OneReads'
  <2> SUFFICES ASSUME ~clashed' PROVE OneReads'
    OBVIOUS
  <2>1. \A v \in ProductWriters : Busy(v) /\ Target(v) = a.id => ~(ReadsFirst(writer[v].ask) /\ ReadsFirst(a))
    BY DEF Receive
  <2>2. OneReads
    BY <1>9 DEF ShelfInv
  <2>3. \A v \in ProductWriters \ {w} : writer'[v].ask = writer[v].ask
    BY <1>6
  <2>4. writer'[w].ask = a
    BY <1>5, <1>6
  <2> QED
    BY <1>7, <1>8, <2>1, <2>2, <2>3, <2>4 DEF OneReads, ReadsFirst
<1>13. ~clashed' => SeenIsSo'
  BY <1>1, <1>4, <1>6, <1>8, <1>9 DEF ShelfInv, SeenIsSo, Informed
<1>14. SlugsDiffer' /\ CategorySlugFollows'
  BY <1>1, <1>9 DEF ShelfInv, SlugsDiffer, CategorySlugFollows, Exists, OwnSlugs
<1>15. \A v \in ProductWriters : Noted(writer[v])'
  BY <1>1, <1>4, <1>6 DEF ShelfInv, Noted, OwnSlugs, Moves
<1> QED
  BY <1>10, <1>11, <1>12, <1>13, <1>14, <1>15 DEF ShelfInv

\* A request reads the product that it asks about.
LEMMA ReadStep == ASSUME ShelfInv, NEW w \in ProductWriters, ReadExisting(w) PROVE ShelfInv'
<1>1. Busy(w) /\ writer[w] \in Writing /\ UNCHANGED <<product, gone, renames, clashed, productCrashes, cache>>
  BY AtStage DEF ReadExisting, Stages, ShelfInv
<1>2. productCrashes' \in Nat /\ DOMAIN cache' = CacheKeys
  BY <1>1 DEF ShelfInv, ProductTypes
<1>3. CASE ~Exists(Target(w))
  BY <1>1, <1>2, <1>3, WriterEnds DEF ReadExisting, Target
<1>4. CASE Exists(Target(w))
  <2> DEFINE doc == product[Target(w)]
             l == IF writer[w].ask.op = "delete" THEN "delete"
                  ELSE IF Moves(writer[w].ask, doc) THEN "category" ELSE "write"
  <2>1. writer[w].ask \in Changes /\ writer[w].ask.op \in {"update", "delete"} /\ Target(w) \in ProductIds
    BY <1>1, ChangesAssumption DEF Writing, ProductChange, Target, ReadExisting, ShelfInv,
       ProductTypes, InStage
  <2>2. doc \in ProductDoc
    BY <1>4, <2>1 DEF ShelfInv, ProductTypes, Exists
  <2>3. /\ l \in Stages /\ l \in {"category", "write", "delete"}
        /\ l = "delete" <=> writer[w].ask.op = "delete"
        /\ l = "category" => writer[w].ask.category # Same
        /\ l = "write" => ~Moves(writer[w].ask, doc)
    BY DEF Stages, Moves
  <2>4. writer' = [writer EXCEPT ![w] = [[writer[w] EXCEPT !.seen = doc] EXCEPT !.at = l]]
    BY <1>4 DEF ReadExisting, Target
  <2> HIDE DEF doc, l
  <2> DEFINE c == [at |-> l, ask |-> writer[w].ask, seen |-> doc, shelfSlug |-> writer[w].shelfSlug,
                   oldSlug |-> writer[w].oldSlug, updatedSlug |-> writer[w].updatedSlug]
  <2>5. [writer[w] EXCEPT !.seen = doc]
          = [at |-> writer[w].at, ask |-> writer[w].ask, seen |-> doc, shelfSlug |-> writer[w].shelfSlug,
             oldSlug |-> writer[w].oldSlug, updatedSlug |-> writer[w].updatedSlug]
    BY <1>1 DEF Writing
  <2>6. [[writer[w] EXCEPT !.seen = doc] EXCEPT !.at = l] = c
    <3> DEFINE d == [at |-> writer[w].at, ask |-> writer[w].ask, seen |-> doc, shelfSlug |-> writer[w].shelfSlug,
                     oldSlug |-> writer[w].oldSlug, updatedSlug |-> writer[w].updatedSlug]
    <3>1. d \in Writing
      BY <1>1, <2>2 DEF Writing
    <3>2. [d EXCEPT !.at = l] = c
      BY <2>3, <3>1, WriterMoved
    <3> QED
      BY <2>5, <3>2
  <2>7. c \in Writing
    BY <1>1, <2>2, <2>3 DEF Writing
  <2>8. c.ask = writer[w].ask /\ c.seen = doc /\ InStage(c) /\ ~Coming(c) /\ Noted(c)
    BY <2>1, <2>2, <2>3 DEF InStage, Coming, Noted
  <2> HIDE DEF c
  <2>9. Agrees(c.seen, product[Target(w)])
    BY <2>2, <2>8 DEF Agrees, doc
  <2>10. writer' = [writer EXCEPT ![w] = c]
    BY <2>4, <2>6
  <2> QED
    BY <1>1, <1>2, <2>7, <2>8, <2>9, <2>10, WriterGoesOn
<1> QED
  BY <1>3, <1>4

\* A writer writes the document it asks about, and goes on to the deletions.
LEMMA DocChanges ==
  ASSUME ShelfInv, NEW w \in ProductWriters, Busy(w), NEW p \in ProductIds, p = Target(w),
         NEW d \in ProductDoc \union {NoValue}, product' = [product EXCEPT ![p] = d],
         NEW c \in Writing, writer' = [writer EXCEPT ![w] = c], c.ask = writer[w].ask, c.at \in {"delId", "keys"},
         UNCHANGED <<renames, clashed, productCrashes, cache>>, gone' \in {gone, gone \union {p}},
         d # NoValue => \A q \in ProductIds \ {p} : Exists(q) => product[q].slug # d.slug,
         d # NoValue /\ ~clashed => d.categorySlug \in OwnSlugs(d.category),
         ~clashed => \A v \in ProductWriters \ {w} :
                       Informed(writer[v]) /\ Target(v) = p => Agrees(writer[v].seen, d)
  PROVE  ShelfInv'
<1>1. /\ writer'[w] = c /\ \A v \in ProductWriters \ {w} : writer'[v] = writer[v]
      /\ product'[p] = d /\ \A q \in ProductIds \ {p} : product'[q] = product[q]
  BY DEF ShelfInv, ProductTypes
<1>2. InStage(c) /\ ~Coming(c) /\ ~Informed(c) /\ c \notin {ToCome, Over}
  BY DEF InStage, Coming, Informed, ToCome, Over
<1>3. ProductTypes'
  BY <1>1, <1>2 DEF ShelfInv, ProductTypes, InStage
<1>4. \A v \in ProductWriters : (Busy(v)' => Busy(v)) /\ Target(v)' = Target(v) /\ (Busy(v) => writer'[v].ask = writer[v].ask)
  BY <1>1, <1>2 DEF Busy, Target
<1>5. SlugsDiffer'
  BY <1>1 DEF ShelfInv, SlugsDiffer, Exists
<1>6. Unborn'
  <2> SUFFICES ASSUME NEW v \in ProductWriters, Coming(writer'[v])
               PROVE  /\ product'[Target(v)'] = NoValue /\ Target(v)' \notin gone'
                      /\ \A u \in ProductWriters \ {v} : Busy(u)' => Target(u)' # Target(v)'
    BY DEF Unborn, Coming
  <2>1. v # w /\ Coming(writer[v])
    BY <1>1, <1>2 DEF Coming
  <2>2. /\ product[Target(v)] = NoValue /\ Target(v) \notin gone
        /\ \A u \in ProductWriters \ {v} : Busy(u) => Target(u) # Target(v)
    BY <2>1 DEF ShelfInv, Unborn
  <2>3. Target(v) # p
    BY <2>1, <2>2
  <2>4. writer[v] \in Writing
    BY <2>1 DEF ShelfInv, ProductTypes, Coming, ToCome, Over
  <2>5. Target(v) \in ProductIds
    BY <2>4, ChangesAssumption DEF Writing, ProductChange, Target
  <2> QED
    BY <1>1, <1>4, <2>2, <2>3, <2>5
<1>7. ~clashed' => OneReads'
  BY <1>4 DEF ShelfInv, OneReads
<1>8. ~clashed' => SeenIsSo'
  <2> SUFFICES ASSUME ~clashed, NEW v \in ProductWriters, Informed(writer'[v])
               PROVE  Agrees(writer'[v].seen, product'[Target(v)'])
    BY DEF SeenIsSo, Informed, Agrees
  <2>1. v # w /\ writer'[v] = writer[v] /\ Informed(writer[v]) /\ Target(v)' = Target(v)
    BY <1>1, <1>2, <1>4 DEF Informed
  <2>2. Agrees(writer[v].seen, product[Target(v)])
    BY <2>1 DEF ShelfInv, SeenIsSo
  <2>3. writer[v] \in Writing
    BY <2>1 DEF ShelfInv, ProductTypes, Informed, ToCome, Over
  <2>4. Target(v) \in ProductIds
    BY <2>3, ChangesAssumption DEF Writing, ProductChange, Target
  <2> QED
    BY <1>1, <2>1, <2>2, <2>4
<1>9. CategorySlugFollows'
  BY <1>1 DEF ShelfInv, CategorySlugFollows, Exists, OwnSlugs
<1>10. \A v \in ProductWriters : Noted(writer[v])'
  <2>1. Noted(c)
    BY DEF Noted
  <2> QED
    BY <1>1, <2>1 DEF ShelfInv, Noted, OwnSlugs, Moves
<1> QED
  BY <1>3, <1>5, <1>6, <1>7, <1>8, <1>9, <1>10 DEF ShelfInv

LEMMA OwnSlugsAre ==
  ASSUME ProductTypes, NEW s \in Shelves PROVE OwnSlugs(s) \subseteq ShelfSlugs
<1>1. renames[s] \in 0..MaxRenames
  BY DEF ProductTypes
<1>2. 0..renames[s] \subseteq 0..MaxRenames
  BY <1>1, ProductCrashesAssumption
<1> QED
  BY <1>2 DEF OwnSlugs, ShelfSlugs

\* What a creation that is not refused does.
LEMMA Creation ==
  ASSUME ShelfInv, NEW w \in ProductWriters, CreateProduct(w), ~SlugInUse(writer[w].ask.slug, Target(w))
  PROVE  /\ Target(w) \in ProductIds /\ Coming(writer[w])
         /\ \E d \in ProductDoc, c \in Writing :
              /\ product' = [product EXCEPT ![Target(w)] = d] /\ writer' = [writer EXCEPT ![w] = c]
              /\ c.ask = writer[w].ask /\ c.at = "keys"
              /\ d.slug = writer[w].ask.slug /\ d.categorySlug \in OwnSlugs(d.category)
<1>1. Busy(w) /\ writer[w] \in Writing /\ writer[w].ask.op = "create" /\ Coming(writer[w])
  BY AtStage DEF CreateProduct, Stages, ShelfInv, ProductTypes, InStage, Coming
<1>2. writer[w].ask \in [op : {"create"}, id : ProductIds, slug : ProductSlugs, category : Shelves, active : BOOLEAN]
  BY <1>1, ChangesAssumption DEF Writing, ProductChange
<1> DEFINE a == writer[w].ask
           d == [slug |-> a.slug, category |-> a.category, categorySlug |-> writer[w].shelfSlug,
                 active |-> a.active, rev |-> w]
<1>3. /\ product' = [product EXCEPT ![Target(w)] = d] /\ WriterAt(w, "keys")
      /\ Target(w) \in ProductIds
  BY <1>2 DEF CreateProduct, Target
<1>4. d \in ProductDoc /\ d.slug = writer[w].ask.slug /\ d.categorySlug \in OwnSlugs(d.category)
  <2>1. writer[w].shelfSlug \in OwnSlugs(a.category)
    BY DEF CreateProduct, ShelfInv, Noted
  <2>2. writer[w].shelfSlug \in ShelfSlugs
    BY <1>2, <2>1, OwnSlugsAre DEF ShelfInv
  <2> QED
    BY <1>2, <2>1, <2>2 DEF ProductDoc
<1> HIDE DEF d
<1>5. PICK c \in Writing : writer' = [writer EXCEPT ![w] = c] /\ c.at = "keys" /\ c.ask = writer[w].ask
  BY <1>1, <1>3, GoesTo DEF ShelfInv, Stages
<1> QED
  BY <1>1, <1>3, <1>4, <1>5

LEMMA CreateStep == ASSUME ShelfInv, NEW w \in ProductWriters, CreateProduct(w) PROVE ShelfInv'
<1>1. UNCHANGED <<gone, renames, clashed, productCrashes, cache>> /\ DOMAIN cache' = CacheKeys /\ productCrashes' \in Nat
  BY DEF CreateProduct, ShelfInv, ProductTypes
<1>2. Busy(w)
  BY AtStage DEF CreateProduct, Stages, ShelfInv
<1>3. CASE SlugInUse(writer[w].ask.slug, Target(w))
  BY <1>1, <1>2, <1>3, WriterEnds DEF CreateProduct, Target
<1>4. CASE ~SlugInUse(writer[w].ask.slug, Target(w))
  <2>1. PICK d \in ProductDoc, c \in Writing :
              /\ product' = [product EXCEPT ![Target(w)] = d] /\ writer' = [writer EXCEPT ![w] = c]
              /\ c.ask = writer[w].ask /\ c.at = "keys"
              /\ d.slug = writer[w].ask.slug /\ d.categorySlug \in OwnSlugs(d.category)
    BY <1>4, Creation
  <2>2. Target(w) \in ProductIds /\ Coming(writer[w])
    BY <1>4, Creation
  <2>3. \A v \in ProductWriters \ {w} : Informed(writer[v]) => Target(v) # Target(w)
    BY <2>2 DEF ShelfInv, Unborn, Informed, Busy, ToCome, Over
  <2>4. \A q \in ProductIds \ {Target(w)} : Exists(q) => product[q].slug # d.slug
    BY <1>4, <2>1 DEF SlugInUse
  <2>5. \A v \in ProductWriters \ {w} : Informed(writer[v]) /\ Target(v) = Target(w) => Agrees(writer[v].seen, d)
    BY <2>3
  <2>6. c.at \in {"delId", "keys"} /\ gone' \in {gone, gone \union {Target(w)}}
    BY <1>1, <2>1
  <2> QED
    BY <1>1, <1>2, <2>1, <2>2, <2>4, <2>5, <2>6, DocChanges
<1> QED
  BY <1>3, <1>4

\* What an update that is not refused does, a rating included.
LEMMA Update ==
  ASSUME ShelfInv, NEW w \in ProductWriters, UpdateProduct(w), product' # product \/ ~Finish(w)
  PROVE  /\ Target(w) \in ProductIds /\ Exists(Target(w))
         /\ \E d \in ProductDoc, c \in Writing :
              /\ product' = [product EXCEPT ![Target(w)] = d] /\ writer' = [writer EXCEPT ![w] = c]
              /\ c.ask = writer[w].ask /\ c.at = "delId" /\ c.updatedSlug = d.slug
              /\ \A q \in ProductIds \ {Target(w)} : Exists(q) => product[q].slug # d.slug
              /\ ~clashed => c.oldSlug = product[Target(w)].slug /\ d.categorySlug \in OwnSlugs(d.category)
              /\ \A seen : Asks(w, "rate") /\ Agrees(seen, product[Target(w)]) => Agrees(seen, d)
<1> DEFINE a == writer[w].ask
           p == Target(w)
           old == product[p]
           seen == writer[w].seen
           found == writer[w].shelfSlug
           d == Updated(a, seen, found, old, w)
           was == IF a.op = "rate" THEN d.slug ELSE seen.slug
<1>1. Busy(w) /\ writer[w] \in Writing /\ a.op \in {"update", "rate"}
  BY AtStage DEF UpdateProduct, Stages, ShelfInv, ProductTypes, InStage
<1>2. /\ a \in [op : {"update", "delete", "rate"}, id : ProductIds, slug : ProductSlugs \union {Same},
                category : Shelves \union {Same}, active : BOOLEAN \union {Same}]
      /\ p \in ProductIds
  BY <1>1, ChangesAssumption DEF Writing, ProductChange, Target
<1>3. /\ Exists(p) /\ ~(a.op = "update" /\ a.slug # Same /\ SlugInUse(a.slug, p))
      /\ product' = [product EXCEPT ![p] = d]
      /\ writer' = [writer EXCEPT ![w].at = "delId", ![w].updatedSlug = d.slug, ![w].oldSlug = was]
  BY DEF UpdateProduct, Target
<1>4. old \in ProductDoc
  BY <1>2, <1>3 DEF ShelfInv, ProductTypes, Exists
<1>5. a.op = "update" => seen \in ProductDoc /\ (~clashed => Agrees(seen, old))
  BY <1>1 DEF ShelfInv, ProductTypes, InStage, SeenIsSo, Informed, UpdateProduct
<1>6. a.op = "rate" => d = [slug |-> old.slug, category |-> old.category, categorySlug |-> old.categorySlug,
                            active |-> old.active, rev |-> w]
  BY <1>4 DEF Updated, ProductDoc
<1>7. a.op = "update" =>
        d = [slug |-> Or(a.slug, old.slug), category |-> Or(a.category, old.category),
             categorySlug |-> CategorySlug(a, seen, found), active |-> Or(a.active, old.active), rev |-> w]
  BY DEF Updated
<1>8. d \in ProductDoc
  <2>1. CASE a.op = "rate"
    BY <1>4, <1>6, <2>1 DEF ProductDoc
  <2>2. CASE a.op = "update"
    <3>1. /\ Or(a.slug, old.slug) \in ProductSlugs /\ Or(a.category, old.category) \in Shelves
          /\ Or(a.active, old.active) \in BOOLEAN
      BY <1>2, <1>4 DEF Or, ProductDoc
    <3>2. Moves(a, seen) => found \in OwnSlugs(a.category) /\ a.category \in Shelves
      BY <2>2 DEF ShelfInv, Noted, UpdateProduct
    <3>3. CategorySlug(a, seen, found) \in ShelfSlugs
      BY <1>5, <2>2, <3>2, OwnSlugsAre DEF ShelfInv, CategorySlug, ProductDoc
    <3> QED
      BY <1>7, <2>2, <3>1, <3>3 DEF ProductDoc
  <2> QED
    BY <1>1, <2>1, <2>2
<1>9. \A q \in ProductIds \ {p} : Exists(q) => product[q].slug # d.slug
  <2>1. CASE a.op = "rate" \/ a.slug = Same
    <3>1. d.slug = old.slug
      BY <1>1, <1>6, <1>7, <2>1 DEF Or
    <3> QED
      BY <1>2, <1>3, <3>1 DEF ShelfInv, SlugsDiffer
  <2>2. CASE a.op = "update" /\ a.slug # Same
    BY <1>3, <1>7, <2>2 DEF Or, SlugInUse
  <2> QED
    BY <1>1, <2>1, <2>2
<1>10. ~clashed => was = old.slug /\ d.categorySlug \in OwnSlugs(d.category)
  <2> SUFFICES ASSUME ~clashed PROVE was = old.slug /\ d.categorySlug \in OwnSlugs(d.category)
    OBVIOUS
  <2>1. old.categorySlug \in OwnSlugs(old.category)
    BY <1>2, <1>3 DEF ShelfInv, CategorySlugFollows
  <2>2. CASE a.op = "rate"
    BY <1>6, <2>1, <2>2
  <2>3. CASE a.op = "update"
    <3>1. Moves(a, seen) => found \in OwnSlugs(a.category)
      BY <2>3 DEF ShelfInv, Noted, UpdateProduct
    <3>2. /\ was = old.slug /\ d.category = Or(a.category, old.category)
          /\ d.categorySlug = CategorySlug(a, seen, found)
      BY <1>5, <1>7, <2>3 DEF Agrees
    <3>3. seen.category = old.category /\ seen.categorySlug = old.categorySlug
      BY <1>5, <2>3 DEF Agrees
    <3> HIDE DEF seen, found, was, d, old, a
    <3> QED
      BY <2>1, <3>1, <3>2, <3>3 DEF CategorySlug, Moves, Or
  <2> QED
    BY <1>1, <2>2, <2>3
<1>11. \A s : Asks(w, "rate") /\ Agrees(s, old) => Agrees(s, d)
  BY <1>6, <1>8 DEF Asks, Agrees
<1>12. was \in ProductSlugs
  BY <1>1, <1>5, <1>8 DEF ProductDoc
<1> HIDE DEF d, was
<1> DEFINE c == [at |-> "delId", ask |-> writer[w].ask, seen |-> writer[w].seen,
                 shelfSlug |-> writer[w].shelfSlug, oldSlug |-> was, updatedSlug |-> d.slug]
<1>13. c \in Writing
  BY <1>1, <1>8, <1>12 DEF Writing, Stages, ProductDoc
<1>14. writer' = [writer EXCEPT ![w] = c]
  <2>1. writer' = [writer EXCEPT ![w] = [[[writer[w] EXCEPT !.at = "delId"] EXCEPT !.updatedSlug = d.slug]
                                           EXCEPT !.oldSlug = was]]
    BY <1>3
  <2>2. [[[writer[w] EXCEPT !.at = "delId"] EXCEPT !.updatedSlug = d.slug] EXCEPT !.oldSlug = was] = c
    BY <1>1, SlugsNoted
  <2> QED
    BY <2>1, <2>2
<1>15. c.ask = writer[w].ask /\ c.at = "delId" /\ c.updatedSlug = d.slug /\ c.oldSlug = was
  OBVIOUS
<1> HIDE DEF c
<1> QED
  BY <1>2, <1>3, <1>8, <1>9, <1>10, <1>11, <1>13, <1>14, <1>15

LEMMA UpdateStep == ASSUME ShelfInv, NEW w \in ProductWriters, UpdateProduct(w) PROVE ShelfInv'
<1>1. UNCHANGED <<gone, renames, clashed, productCrashes, cache>> /\ DOMAIN cache' = CacheKeys /\ productCrashes' \in Nat
  BY DEF UpdateProduct, ShelfInv, ProductTypes
<1>2. Busy(w) /\ (Asks(w, "update") => Informed(writer[w])) /\ (Asks(w, "update") \/ Asks(w, "rate"))
  BY AtStage DEF UpdateProduct, Stages, ShelfInv, ProductTypes, InStage, Asks, Informed
<1>3. CASE product' = product /\ Finish(w)
  BY <1>1, <1>2, <1>3, WriterEnds
<1>4. CASE product' # product \/ ~Finish(w)
  <2>1. PICK d \in ProductDoc, c \in Writing :
          /\ product' = [product EXCEPT ![Target(w)] = d] /\ writer' = [writer EXCEPT ![w] = c]
          /\ c.ask = writer[w].ask /\ c.at = "delId"
          /\ \A q \in ProductIds \ {Target(w)} : Exists(q) => product[q].slug # d.slug
          /\ ~clashed => d.categorySlug \in OwnSlugs(d.category)
          /\ \A seen : Asks(w, "rate") /\ Agrees(seen, product[Target(w)]) => Agrees(seen, d)
    BY <1>4, Update
  <2>2. Target(w) \in ProductIds
    BY <1>4, Update
  <2>3. ~clashed => \A v \in ProductWriters \ {w} :
                      Informed(writer[v]) /\ Target(v) = Target(w) => Agrees(writer[v].seen, d)
    <3> SUFFICES ASSUME ~clashed, NEW v \in ProductWriters \ {w}, Informed(writer[v]), Target(v) = Target(w)
                 PROVE  Agrees(writer[v].seen, d)
      OBVIOUS
    <3>1. Busy(v) /\ ReadsFirst(writer[v].ask)
      BY DEF Informed, Busy, ToCome, Over, ReadsFirst
    <3>2. Asks(w, "rate")
      BY <1>2, <3>1 DEF ShelfInv, OneReads, ReadsFirst, Asks
    <3>3. Agrees(writer[v].seen, product[Target(w)])
      BY DEF ShelfInv, SeenIsSo
    <3> QED
      BY <2>1, <3>2, <3>3
  <2>4. c.at \in {"delId", "keys"} /\ gone' \in {gone, gone \union {Target(w)}}
    BY <1>1, <2>1
  <2> QED
    BY <1>1, <1>2, <2>1, <2>2, <2>3, <2>4, DocChanges
<1> QED
  BY <1>3, <1>4

\* What a deletion does.
LEMMA Deletion ==
  ASSUME ShelfInv, NEW w \in ProductWriters, DeleteProduct(w)
  PROVE  /\ Target(w) \in ProductIds /\ Busy(w) /\ Informed(writer[w])
         /\ ~clashed => Exists(Target(w))
         /\ product' = [product EXCEPT ![Target(w)] = NoValue]
         /\ \E c \in Writing :
              /\ writer' = [writer EXCEPT ![w] = c] /\ c.ask = writer[w].ask /\ c.at = "delId"
              /\ ~clashed => c.oldSlug = product[Target(w)].slug
<1>1. Busy(w) /\ writer[w] \in Writing /\ Informed(writer[w])
  BY AtStage DEF DeleteProduct, Stages, ShelfInv, ProductTypes, InStage, Informed
<1>2. writer[w].seen \in ProductDoc /\ (~clashed => Agrees(writer[w].seen, product[Target(w)]))
  BY <1>1 DEF ShelfInv, ProductTypes, InStage, SeenIsSo
<1>3. Target(w) \in ProductIds
  BY <1>1, ChangesAssumption DEF Writing, ProductChange, Target
<1> DEFINE s == writer[w].seen.slug
           c == [at |-> "delId", ask |-> writer[w].ask, seen |-> writer[w].seen,
                 shelfSlug |-> writer[w].shelfSlug, oldSlug |-> s, updatedSlug |-> s]
<1>4. c \in Writing
  BY <1>1, <1>2 DEF Writing, Stages, ProductDoc
<1>5. writer' = [writer EXCEPT ![w] = c]
  <2>1. writer' = [writer EXCEPT ![w] = [[[writer[w] EXCEPT !.at = "delId"] EXCEPT !.updatedSlug = s]
                                           EXCEPT !.oldSlug = s]]
    BY DEF DeleteProduct
  <2> HIDE DEF s
  <2>2. [[[writer[w] EXCEPT !.at = "delId"] EXCEPT !.updatedSlug = s] EXCEPT !.oldSlug = s] = c
    BY <1>1, SlugsNoted
  <2> QED
    BY <2>1, <2>2
<1>6. c.ask = writer[w].ask /\ c.at = "delId" /\ (~clashed => c.oldSlug = product[Target(w)].slug)
  BY <1>2 DEF Agrees
<1>7. ~clashed => Exists(Target(w))
  BY <1>2, ChangesAssumption DEF Agrees, Exists
<1>8. product' = [product EXCEPT ![Target(w)] = NoValue]
  BY DEF DeleteProduct
<1> HIDE DEF c
<1> QED
  BY <1>1, <1>3, <1>4, <1>5, <1>6, <1>7, <1>8

LEMMA DeleteStep == ASSUME ShelfInv, NEW w \in ProductWriters, DeleteProduct(w) PROVE ShelfInv'
<1>1. UNCHANGED <<renames, clashed, productCrashes, cache>> /\ gone' = gone \union {Target(w)}
  BY DEF DeleteProduct
<1>2. Target(w) \in ProductIds /\ Busy(w) /\ Informed(writer[w])
      /\ product' = [product EXCEPT ![Target(w)] = NoValue]
  BY Deletion
<1>3. PICK c \in Writing : writer' = [writer EXCEPT ![w] = c] /\ c.ask = writer[w].ask /\ c.at = "delId"
  BY Deletion
<1>4. ~clashed => \A v \in ProductWriters \ {w} : Informed(writer[v]) => Target(v) # Target(w)
  <2> SUFFICES ASSUME ~clashed, NEW v \in ProductWriters \ {w}, Informed(writer[v]) PROVE Target(v) # Target(w)
    OBVIOUS
  <2>1. Busy(v) /\ ReadsFirst(writer[v].ask) /\ ReadsFirst(writer[w].ask)
    BY <1>2 DEF Informed, Busy, ToCome, Over, ReadsFirst
  <2> QED
    BY <1>2, <2>1 DEF ShelfInv, OneReads
<1>5. ~clashed => \A v \in ProductWriters \ {w} :
                    Informed(writer[v]) /\ Target(v) = Target(w) => Agrees(writer[v].seen, NoValue)
  BY <1>4
<1>6. c.at \in {"delId", "keys"} /\ gone' \in {gone, gone \union {Target(w)}}
  BY <1>1, <1>3
<1> QED
  BY <1>1, <1>2, <1>3, <1>5, <1>6, DocChanges

LEMMA ShelfInvNext == ShelfInv /\ [ProductsNext]_productVars => ShelfInv'
<1> SUFFICES ASSUME ShelfInv, [ProductsNext]_productVars PROVE ShelfInv'
  OBVIOUS
<1>1. ASSUME NEW w \in ProductWriters, WriterStep(w) PROVE ShelfInv'
  BY <1>1, ReceiveStep, CategoryStep, LookSteps, ReadStep, CreateStep, UpdateStep, DeleteStep DEF WriterStep
<1>2. CASE \/ \E r \in ProductReaders : (\E k \in CacheKeys : CacheGet(r, k)) \/ Factory(r) \/ CacheSet(r)
           \/ \E k \in CacheKeys : KeyExpires(k)
           \/ UNCHANGED productVars
  <2>1. UNCHANGED <<product, gone, renames, writer, clashed, productCrashes>> /\ DOMAIN cache' = CacheKeys
    BY <1>2 DEF CacheGet, Factory, CacheSet, KeyExpires, Del, productVars, ShelfInv, ProductTypes
  <2>2. renames' \in [Shelves -> 0..MaxRenames] /\ \A s \in Shelves : renames[s] <= renames'[s]
    BY <2>1, ProductCrashesAssumption DEF ShelfInv, ProductTypes
  <2> QED
    BY <2>1, <2>2, ShelfStays
<1>3. ASSUME NEW s \in Shelves, RenameShelf(s) PROVE ShelfInv'
  <2>1. /\ UNCHANGED <<product, gone, writer, clashed, productCrashes, cache>> /\ renames[s] < MaxRenames
        /\ renames' = [renames EXCEPT ![s] = renames[s] + 1]
    BY <1>3 DEF RenameShelf
  <2>2. renames \in [Shelves -> 0..MaxRenames] /\ DOMAIN cache' = CacheKeys
    BY <2>1 DEF ShelfInv, ProductTypes
  <2>3. renames' \in [Shelves -> 0..MaxRenames] /\ \A t \in Shelves : renames[t] <= renames'[t]
    BY <2>1, <2>2, ProductCrashesAssumption
  <2> QED
    BY <2>1, <2>2, <2>3, ShelfStays
<1> QED
  BY <1>1, <1>2, <1>3 DEF ProductsNext

-----------------------------------------------------------------------------
(* Redis, of products.  A write changes what four reads find, and the writer *)
(* deletes their keys; a read that is cached late is an exception.           *)

Named(s) == {p \in ProductIds : Shelved(p) /\ product[p].slug = s}

LEMMA LookupBy ==
  /\ \A p : Lookup(IdKey(p)) = IF Shelved(p) THEN WithId(p) ELSE NoValue
  /\ \A s : Lookup(SlugKey(s)) = IF Named(s) = {} THEN NoValue ELSE WithId(CHOOSE p \in Named(s) : TRUE)
<1>1. \A p : Lookup(IdKey(p)) = IF Shelved(p) THEN WithId(p) ELSE NoValue
  BY DEF Lookup, IdKey
<1>2. \A s : Lookup(SlugKey(s)) = IF Named(s) = {} THEN NoValue ELSE WithId(CHOOSE p \in Named(s) : TRUE)
  BY DEF Lookup, SlugKey, Named
<1> QED
  BY <1>1, <1>2

\* What is found under another key than those of a changed product stays.
LEMMA LookupKept ==
  ASSUME NEW p, \A q \in ProductIds \ {p} : product'[q] = product[q],
         NEW k \in CacheKeys \ {IdKey(p), ListKey},
         Exists(p) => k # SlugKey(product[p].slug), Exists(p)' => k # SlugKey(product'[p].slug)
  PROVE  Lookup(k)' = Lookup(k)
<1>1. CASE \E q \in ProductIds : k = IdKey(q)
  <2>1. PICK q \in ProductIds : k = IdKey(q)
    BY <1>1
  <2>2. product'[q] = product[q]
    BY <2>1
  <2>3. Lookup(IdKey(q))' = Lookup(IdKey(q))
    BY <2>2, LookupBy DEF Shelved, Exists, WithId, Lookup, IdKey
  <2> QED
    BY <2>1, <2>3
<1>2. CASE \E s \in ProductSlugs : k = SlugKey(s)
  <2>1. PICK s \in ProductSlugs : k = SlugKey(s)
    BY <1>2
  <2>2. p \notin Named(s) /\ p \notin Named(s)'
    BY <2>1 DEF Named, Shelved
  <2>3. \A q \in ProductIds : q \in Named(s)' <=> q \in Named(s)
    BY <2>2 DEF Named, Shelved, Exists
  <2>4. Named(s)' = Named(s)
    BY <2>3 DEF Named
  <2>5. PICK q : q = CHOOSE x \in Named(s) : TRUE
    OBVIOUS
  <2>6. Named(s) # {} => WithId(q)' = WithId(q)
    <3>1. Named(s) # {} => q \in Named(s)
      BY <2>5
    <3> QED
      BY <2>2, <3>1 DEF Named, WithId
  <2>7. Lookup(SlugKey(s)) = IF Named(s) = {} THEN NoValue ELSE WithId(q)
    BY <2>5, LookupBy
  <2>8. Lookup(SlugKey(s))' = IF Named(s)' = {} THEN NoValue ELSE WithId(q)'
    <3>1. Lookup(SlugKey(s))' = IF Named(s)' = {} THEN NoValue
                                ELSE [id |-> CHOOSE x \in Named(s)' : TRUE,
                                      doc |-> product'[CHOOSE x \in Named(s)' : TRUE]]
      BY DEF Lookup, SlugKey, Named, WithId
    <3> QED
      BY <2>4, <2>5, <3>1 DEF WithId
  <2> QED
    BY <2>1, <2>4, <2>6, <2>7, <2>8
<1> QED
  BY <1>1, <1>2 DEF CacheKeys

\* A key stays as fresh as it was, or is excused.
LEMMA KeysStayFresh ==
  ASSUME ProductCacheIsFresh, clashed => clashed', productCrashes > 0 => productCrashes' > 0,
         ~clashed => \A k \in CacheKeys :
           \/ cache'[k] \in {NoValue, Lookup(k)'} \/ k \in late'
           \/ \E w \in ProductWriters : k \in Undeleted(w)'
           \/ /\ cache'[k] = cache[k] /\ (k \in late => k \in late')
              /\ Lookup(k)' = Lookup(k) \/ Lookup(k) = NoValue
              /\ \A w \in ProductWriters : k \in Undeleted(w) => k \in Undeleted(w)'
  PROVE  ProductCacheIsFresh'
BY DEF ProductCacheIsFresh

Deleting == {"delId", "delSlug", "delNewSlug", "keys", "delLists"}
LEMMA NothingUndeleted ==
  ASSUME NEW w, writer[w].at \notin Deleting PROVE Undeleted(w) = {}
BY DEF Undeleted, Deleting

\* A writer that only looks, and had nothing to delete.
LEMMA LooksFresh ==
  ASSUME ShelfInv, ProductCacheIsFresh, NEW w \in ProductWriters, writer[w].at \notin Deleting,
         UNCHANGED <<product, cache, late, productCrashes>>, clashed => clashed',
         \A v \in ProductWriters \ {w} : writer'[v] = writer[v]
  PROVE  ProductCacheIsFresh'
<1>1. \A k : Lookup(k)' = Lookup(k)
  BY DEF Lookup, Shelved, Exists, WithId
<1>2. \A v \in ProductWriters \ {w} : Undeleted(v)' = Undeleted(v)
  BY DEF Undeleted, Target
<1>3. Undeleted(w) = {}
  BY NothingUndeleted
<1> QED
  BY <1>1, <1>2, <1>3, KeysStayFresh

\* A writer that writes has the keys of what it wrote to delete.
LEMMA WritesFresh ==
  ASSUME ShelfInv, ProductCacheIsFresh, NEW w \in ProductWriters, writer[w].at \notin Deleting,
         UNCHANGED <<cache, late, productCrashes, clashed>>,
         NEW p \in ProductIds, \A q \in ProductIds \ {p} : product'[q] = product[q],
         \A v \in ProductWriters \ {w} : writer'[v] = writer[v],
         ~clashed => \A k \in CacheKeys :
           \/ Lookup(k) = NoValue \/ k \in Undeleted(w)'
           \/ /\ k \notin {IdKey(p), ListKey} /\ (Exists(p) => k # SlugKey(product[p].slug))
              /\ Exists(p)' => k # SlugKey(product'[p].slug)
  PROVE  ProductCacheIsFresh'
<1>1. \A v \in ProductWriters \ {w} : Undeleted(v)' = Undeleted(v)
  BY DEF Undeleted, Target
<1>2. Undeleted(w) = {}
  BY NothingUndeleted
<1>3. ~clashed => \A k \in CacheKeys : Lookup(k) = NoValue \/ k \in Undeleted(w)' \/ Lookup(k)' = Lookup(k)
  BY LookupKept
<1> QED
  BY <1>1, <1>2, <1>3, KeysStayFresh

\* A deletion does away with the copies; the writer has fewer left.
LEMMA DeletesFresh ==
  ASSUME ShelfInv, ProductCacheIsFresh, NEW ks, Del(ks), UNCHANGED <<product, clashed, productCrashes>>,
         \A w \in ProductWriters : Undeleted(w) \ ks \subseteq Undeleted(w)'
  PROVE  ProductCacheIsFresh'
<1>1. \A k : Lookup(k)' = Lookup(k)
  BY DEF Lookup, Shelved, Exists, WithId
<1>2. \A k \in CacheKeys : \/ cache'[k] = NoValue
                           \/ k \notin ks /\ cache'[k] = cache[k] /\ (k \in late => k \in late')
  BY DEF Del
<1>3. \A k \in CacheKeys :
           \/ cache'[k] \in {NoValue, Lookup(k)'}
           \/ /\ cache'[k] = cache[k] /\ (k \in late => k \in late') /\ Lookup(k)' = Lookup(k)
              /\ \A w \in ProductWriters : k \in Undeleted(w) => k \in Undeleted(w)'
  BY <1>1, <1>2
<1> QED
  BY <1>3, KeysStayFresh

LEMMA FreshReceive ==
  ASSUME ShelfInv, ProductCacheIsFresh, NEW w \in ProductWriters,
         \/ \E a \in Changes : Receive(w, a)
         \/ ReadCategory(w) \/ FindBySlugAdmin(w) \/ ReadExisting(w)
  PROVE  ProductCacheIsFresh'
<1>1. writer[w].at \notin Deleting
  BY DEF Receive, ReadCategory, FindBySlugAdmin, ReadExisting, ToCome, Deleting
<1>2. UNCHANGED <<product, cache, late, productCrashes>>
  BY DEF Receive, ReadCategory, FindBySlugAdmin, ReadExisting
<1>4. clashed => clashed'
  <2>1. ASSUME NEW a \in Changes, Receive(w, a), clashed PROVE clashed'
    <3>1. clashed' = (clashed \/ \E v \in ProductWriters : /\ Busy(v) /\ Target(v) = a.id
                                                          /\ ReadsFirst(writer[v].ask) /\ ReadsFirst(a))
      BY <2>1 DEF Receive
    <3> QED
      BY <2>1, <3>1
  <2>2. ASSUME ReadCategory(w) \/ FindBySlugAdmin(w) \/ ReadExisting(w) PROVE UNCHANGED clashed
    BY <2>2 DEF ReadCategory, FindBySlugAdmin, ReadExisting
  <2> QED
    BY <2>1, <2>2
<1>3. \A v \in ProductWriters \ {w} : writer'[v] = writer[v]
  BY DEF Receive, ReadCategory, FindBySlugAdmin, ReadExisting, WriterAt, Finish, ShelfInv, ProductTypes
<1> QED
  BY <1>1, <1>2, <1>3, <1>4, LooksFresh

LEMMA FreshCreate ==
  ASSUME ShelfInv, ProductCacheIsFresh, NEW w \in ProductWriters, CreateProduct(w) PROVE ProductCacheIsFresh'
<1>1. writer[w].at \notin Deleting /\ UNCHANGED <<cache, late, productCrashes, clashed>>
  BY DEF CreateProduct, Deleting
<1>2. CASE SlugInUse(writer[w].ask.slug, Target(w))
  <2>1. UNCHANGED product /\ \A v \in ProductWriters \ {w} : writer'[v] = writer[v]
    BY <1>2 DEF CreateProduct, Finish, ShelfInv, ProductTypes, Target
  <2> QED
    BY <1>1, <2>1, LooksFresh
<1>3. CASE ~SlugInUse(writer[w].ask.slug, Target(w))
  <2>1. PICK d \in ProductDoc, c \in Writing :
              /\ product' = [product EXCEPT ![Target(w)] = d] /\ writer' = [writer EXCEPT ![w] = c]
              /\ c.ask = writer[w].ask /\ c.at = "keys" /\ d.slug = writer[w].ask.slug
    BY <1>3, Creation
  <2>2. PICK p \in ProductIds : p = Target(w) /\ product[p] = NoValue
    BY <1>3, Creation DEF ShelfInv, Unborn
  <2>3. /\ \A q \in ProductIds \ {p} : product'[q] = product[q]
        /\ product'[p] = d /\ writer'[w] = c /\ \A v \in ProductWriters \ {w} : writer'[v] = writer[v]
    BY <2>1, <2>2 DEF ShelfInv, ProductTypes
  <2>4. ListKey \in Undeleted(w)'
    BY <2>1, <2>3 DEF Undeleted
  <2>5. Lookup(IdKey(p)) = NoValue
    BY <2>2, LookupBy DEF Shelved, Exists
  <2>6. Lookup(SlugKey(d.slug)) = NoValue
    <3>1. Named(d.slug) = {}
      BY <1>3, <2>1, <2>2 DEF Named, SlugInUse, Shelved, Exists
    <3> QED
      BY <3>1, LookupBy
  <2>7. \A k \in CacheKeys :
           \/ Lookup(k) = NoValue \/ k \in Undeleted(w)'
           \/ /\ k \notin {IdKey(p), ListKey} /\ (Exists(p) => k # SlugKey(product[p].slug))
              /\ Exists(p)' => k # SlugKey(product'[p].slug)
    BY <2>2, <2>3, <2>4, <2>5, <2>6 DEF Exists
  <2> QED
    BY <1>1, <2>3, <2>7, WritesFresh
<1> QED
  BY <1>2, <1>3

LEMMA FreshUpdate ==
  ASSUME ShelfInv, ProductCacheIsFresh, NEW w \in ProductWriters, UpdateProduct(w) PROVE ProductCacheIsFresh'
<1>1. writer[w].at \notin Deleting /\ UNCHANGED <<cache, late, productCrashes, clashed>>
  BY DEF UpdateProduct, Deleting
<1>2. CASE product' = product /\ Finish(w)
  <2>1. \A v \in ProductWriters \ {w} : writer'[v] = writer[v]
    BY <1>2 DEF Finish, ShelfInv, ProductTypes
  <2> QED
    BY <1>1, <1>2, <2>1, LooksFresh
<1>3. CASE product' # product \/ ~Finish(w)
  <2>1. PICK d \in ProductDoc, c \in Writing :
          /\ product' = [product EXCEPT ![Target(w)] = d] /\ writer' = [writer EXCEPT ![w] = c]
          /\ c.ask = writer[w].ask /\ c.at = "delId" /\ c.updatedSlug = d.slug
          /\ ~clashed => c.oldSlug = product[Target(w)].slug
    BY <1>3, Update
  <2>2. PICK p \in ProductIds : p = Target(w)
    BY <1>3, Update
  <2>3. /\ \A q \in ProductIds \ {p} : product'[q] = product[q]
        /\ product'[p] = d /\ writer'[w] = c /\ \A v \in ProductWriters \ {w} : writer'[v] = writer[v]
    BY <2>1, <2>2 DEF ShelfInv, ProductTypes
  <2>4. Undeleted(w)' = {IdKey(p), SlugKey(c.oldSlug), SlugKey(d.slug), ListKey}
    BY <2>1, <2>2, <2>3 DEF Undeleted, Target
  <2>5. ~clashed => \A k \in CacheKeys :
           \/ Lookup(k) = NoValue \/ k \in Undeleted(w)'
           \/ /\ k \notin {IdKey(p), ListKey} /\ (Exists(p) => k # SlugKey(product[p].slug))
              /\ Exists(p)' => k # SlugKey(product'[p].slug)
    BY <2>1, <2>2, <2>3, <2>4
  <2> QED
    BY <1>1, <2>3, <2>5, WritesFresh
<1> QED
  BY <1>2, <1>3

LEMMA FreshDelete ==
  ASSUME ShelfInv, ProductCacheIsFresh, NEW w \in ProductWriters, DeleteProduct(w) PROVE ProductCacheIsFresh'
<1>1. writer[w].at \notin Deleting /\ UNCHANGED <<cache, late, productCrashes, clashed>>
  BY DEF DeleteProduct, Deleting
<1>2. PICK c \in Writing :
        /\ writer' = [writer EXCEPT ![w] = c] /\ c.ask = writer[w].ask /\ c.at = "delId"
        /\ ~clashed => c.oldSlug = product[Target(w)].slug
  BY Deletion
<1>3. PICK p \in ProductIds : p = Target(w) /\ product' = [product EXCEPT ![p] = NoValue]
  BY Deletion
<1>4. /\ \A q \in ProductIds \ {p} : product'[q] = product[q]
      /\ product'[p] = NoValue /\ writer'[w] = c /\ \A v \in ProductWriters \ {w} : writer'[v] = writer[v]
  BY <1>2, <1>3 DEF ShelfInv, ProductTypes
<1>5. {IdKey(p), SlugKey(c.oldSlug), ListKey} \subseteq Undeleted(w)'
  BY <1>2, <1>3, <1>4 DEF Undeleted, Target
<1>6. ~clashed => \A k \in CacheKeys :
         \/ Lookup(k) = NoValue \/ k \in Undeleted(w)'
         \/ /\ k \notin {IdKey(p), ListKey} /\ (Exists(p) => k # SlugKey(product[p].slug))
            /\ Exists(p)' => k # SlugKey(product'[p].slug)
  BY <1>2, <1>3, <1>4, <1>5 DEF Exists
<1> QED
  BY <1>1, <1>4, <1>6, WritesFresh

\* A deletion of a writer, at the stages where it has what it deletes.
LEMMA FreshDeletion ==
  ASSUME ShelfInv, ProductCacheIsFresh, NEW w \in ProductWriters, NEW ks, NEW l \in Stages,
         Del(ks), UNCHANGED <<product, clashed, productCrashes>>, WriterAt(w, l), writer[w].at \in Stages,
         \A c \in Writing : /\ c.at = l /\ c.ask = writer[w].ask
                           /\ c.oldSlug = writer[w].oldSlug /\ c.updatedSlug = writer[w].updatedSlug
                           /\ writer'[w] = c
                           => Undeleted(w) \ ks \subseteq Undeleted(w)'
  PROVE  ProductCacheIsFresh'
<1>1. Busy(w) /\ DOMAIN writer = ProductWriters
  BY AtStage DEF ShelfInv, ProductTypes
<1>2. \A v \in ProductWriters \ {w} : Undeleted(v)' = Undeleted(v)
  <2>1. \A v \in ProductWriters \ {w} : writer'[v] = writer[v]
    BY <1>1 DEF WriterAt
  <2> QED
    BY <2>1 DEF Undeleted, Target
<1>3. Undeleted(w) \ ks \subseteq Undeleted(w)'
  <2>1. PICK c \in Writing : /\ writer' = [writer EXCEPT ![w] = c]
                            /\ c.at = l /\ c.ask = writer[w].ask
                            /\ c.oldSlug = writer[w].oldSlug /\ c.updatedSlug = writer[w].updatedSlug
    BY <1>1, GoesTo DEF ShelfInv
  <2>2. writer'[w] = c
    BY <1>1, <2>1
  <2> QED
    BY <2>1, <2>2
<1> QED
  BY <1>2, <1>3, DeletesFresh

LEMMA FreshDeletions ==
  ASSUME ShelfInv, ProductCacheIsFresh, NEW w \in ProductWriters,
         DelId(w) \/ DelSlug(w) \/ DelNewSlug(w) \/ DelLists(w)
  PROVE  ProductCacheIsFresh'
<1>1. CASE DelId(w)
  <2>1. /\ Del({IdKey(Target(w))}) /\ WriterAt(w, "delSlug") /\ writer[w].at = "delId"
        /\ UNCHANGED <<product, clashed, productCrashes>>
    BY <1>1 DEF DelId
  <2>2. \A c \in Writing : /\ c.at = "delSlug" /\ c.oldSlug = writer[w].oldSlug
                          /\ c.updatedSlug = writer[w].updatedSlug /\ writer'[w] = c
                          => Undeleted(w) \ {IdKey(Target(w))} \subseteq Undeleted(w)'
    BY <2>1 DEF Undeleted
  <2> QED
    BY <2>1, <2>2, FreshDeletion DEF Stages
<1>2. CASE DelSlug(w)
  <2>1. PICK l \in {"delNewSlug", "keys"} :
        /\ Del({SlugKey(writer[w].oldSlug)}) /\ WriterAt(w, l) /\ writer[w].at = "delSlug"
        /\ UNCHANGED <<product, clashed, productCrashes>>
        /\ l = "keys" => writer[w].updatedSlug = writer[w].oldSlug
    BY <1>2 DEF DelSlug
  <2>2. \A c \in Writing : /\ c.at = l /\ c.oldSlug = writer[w].oldSlug
                          /\ c.updatedSlug = writer[w].updatedSlug /\ writer'[w] = c
                          => Undeleted(w) \ {SlugKey(writer[w].oldSlug)} \subseteq Undeleted(w)'
    BY <2>1 DEF Undeleted
  <2> QED
    BY <2>1, <2>2, FreshDeletion DEF Stages
<1>3. CASE DelNewSlug(w)
  <2>1. /\ Del({SlugKey(writer[w].updatedSlug)}) /\ WriterAt(w, "keys") /\ writer[w].at = "delNewSlug"
        /\ UNCHANGED <<product, clashed, productCrashes>>
    BY <1>3 DEF DelNewSlug
  <2>2. \A c \in Writing : /\ c.at = "keys" /\ c.oldSlug = writer[w].oldSlug
                          /\ c.updatedSlug = writer[w].updatedSlug /\ writer'[w] = c
                          => Undeleted(w) \ {SlugKey(writer[w].updatedSlug)} \subseteq Undeleted(w)'
    BY <2>1 DEF Undeleted
  <2> QED
    BY <2>1, <2>2, FreshDeletion DEF Stages
<1>4. CASE DelLists(w)
  <2>1. Del({ListKey}) /\ UNCHANGED <<product, clashed, productCrashes>> /\ Finish(w) /\ writer[w].at = "delLists"
    BY <1>4 DEF DelLists
  <2>2. Undeleted(w) = {ListKey} /\ \A v \in ProductWriters \ {w} : Undeleted(v)' = Undeleted(v)
    BY <2>1 DEF Undeleted, Target, Finish, ShelfInv, ProductTypes
  <2> QED
    BY <2>1, <2>2, DeletesFresh
<1> QED
  BY <1>1, <1>2, <1>3, <1>4

LEMMA FreshEnds ==
  ASSUME ShelfInv, ProductCacheIsFresh, NEW w \in ProductWriters, FindLists(w) \/ ProductCrash(w)
  PROVE  ProductCacheIsFresh'
<1>1. CASE ProductCrash(w)
  <2>1. productCrashes' = productCrashes + 1 /\ productCrashes \in Nat
    BY <1>1 DEF ProductCrash, ShelfInv, ProductTypes
  <2>2. productCrashes' > 0
    BY <2>1
  <2> QED
    BY <2>2 DEF ProductCacheIsFresh
<1>2. CASE FindLists(w)
  <2>1. writer[w].at = "keys" /\ UNCHANGED <<product, cache, late, clashed, productCrashes>>
    BY <1>2 DEF FindLists
  <2>2. \A k : Lookup(k)' = Lookup(k)
    BY <2>1 DEF Lookup, Shelved, Exists, WithId
  <2>3. Undeleted(w) = {ListKey}
    BY <2>1 DEF Undeleted
  <2>4. \A v \in ProductWriters \ {w} : Undeleted(v)' = Undeleted(v)
    BY <1>2 DEF FindLists, Finish, WriterAt, Undeleted, Target, ShelfInv, ProductTypes
  <2>5. cache[ListKey] = NoValue \/ ListKey \in Undeleted(w)'
    <3>1. CASE cache[ListKey] # NoValue
      <4>1. WriterAt(w, "delLists") /\ Busy(w)
        BY <1>2, <2>1, <3>1, AtStage DEF FindLists, ShelfInv, Stages
      <4>2. PICK c \in Writing : writer' = [writer EXCEPT ![w] = c] /\ c.at = "delLists"
        BY <4>1, GoesTo DEF ShelfInv, Stages
      <4>3. writer'[w] = c
        BY <4>2 DEF ShelfInv, ProductTypes
      <4> QED
        BY <4>2, <4>3 DEF Undeleted
    <3> QED
      BY <3>1
  <2> QED
    BY <2>1, <2>2, <2>3, <2>4, <2>5, KeysStayFresh
<1> QED
  BY <1>1, <1>2

LEMMA FreshReads ==
  ASSUME ShelfInv, ProductCacheIsFresh,
         \/ \E r \in ProductReaders : (\E k \in CacheKeys : CacheGet(r, k)) \/ Factory(r) \/ CacheSet(r)
         \/ \E k \in CacheKeys : KeyExpires(k)
         \/ \E s \in Shelves : RenameShelf(s)
         \/ UNCHANGED productVars
  PROVE  ProductCacheIsFresh'
<1>1. UNCHANGED <<product, writer, clashed, productCrashes>>
  BY DEF CacheGet, Factory, CacheSet, KeyExpires, RenameShelf, productVars
<1>2. (\A k : Lookup(k)' = Lookup(k)) /\ \A w : Undeleted(w)' = Undeleted(w)
  BY <1>1 DEF Lookup, Shelved, Exists, WithId, Undeleted, Target
<1>3. CASE UNCHANGED <<cache, late>>
  BY <1>1, <1>2, <1>3, KeysStayFresh
<1>4. ASSUME NEW r \in ProductReaders, CacheSet(r) PROVE ProductCacheIsFresh'
  <2>1. PICK k : /\ cache' = [cache EXCEPT ![k] = reader[r].found]
                 /\ late' = IF reader[r].found = Lookup(k) THEN late \ {k} ELSE late \union {k}
    BY <1>4 DEF CacheSet
  <2>2. \A q \in CacheKeys : \/ cache'[q] = Lookup(q)' \/ q \in late'
                             \/ cache'[q] = cache[q] /\ (q \in late => q \in late')
    BY <1>2, <2>1 DEF ShelfInv, ProductTypes
  <2> QED
    BY <1>1, <1>2, <2>2, KeysStayFresh
<1>5. ASSUME NEW k \in CacheKeys, KeyExpires(k) PROVE ProductCacheIsFresh'
  <2>1. Del({k})
    BY <1>5 DEF KeyExpires
  <2> QED
    BY <1>1, <1>2, <2>1, DeletesFresh
<1>6. ASSUME NEW r \in ProductReaders, (\E k \in CacheKeys : CacheGet(r, k)) \/ Factory(r) PROVE UNCHANGED <<cache, late>>
  BY <1>6 DEF CacheGet, Factory
<1>7. ASSUME NEW s \in Shelves, RenameShelf(s) PROVE UNCHANGED <<cache, late>>
  BY <1>7 DEF RenameShelf
<1> QED
  BY <1>3, <1>4, <1>5, <1>6, <1>7 DEF productVars

LEMMA ShelfFreshNext ==
  ShelfInv /\ ProductCacheIsFresh /\ [ProductsNext]_productVars => ProductCacheIsFresh'
BY FreshReceive, FreshCreate, FreshUpdate, FreshDelete, FreshDeletions, FreshEnds, FreshReads
   DEF ProductsNext, WriterStep

-----------------------------------------------------------------------------
(* Redis, of the tree of categories.  Every step that changes a document     *)
(* leaves its editor at work before the deletion of the tree.                *)

DeletionToCome(r) == editor[r].at \in {"findSubs", "reindex", "delTree"}
EditorsAreSomewhere == DOMAIN editor = Editors /\ \A r \in Editors : "at" \in DOMAIN editor[r]
Comes(r, l) ==
  /\ DOMAIN editor' = Editors /\ "at" \in DOMAIN editor'[r] /\ editor'[r].at = l
  /\ \A q \in Editors \ {r} : editor'[q] = editor[q]

LEMMA InitTree == CategoriesInit => EditorsAreSomewhere /\ TreeCacheIsFresh
BY DEF CategoriesInit, EditorsAreSomewhere, Waiting, TreeCacheIsFresh

\* The shapes of an editor's moves.
LEMMA AnEditorMoves ==
  ASSUME EditorsAreSomewhere, NEW r \in Editors
  PROVE  /\ \A l : EditorAt(r, l) => Comes(r, l)
         /\ Leave(r) => Comes(r, "done")
         /\ \A e, l : editor' = [editor EXCEPT ![r] = Started(e, l)] => Comes(r, l)
         /\ \A x, y, l : editor' = [editor EXCEPT ![r].seen = x, ![r].newPath = y, ![r].at = l] => Comes(r, l)
         /\ \A x, l : editor' = [editor EXCEPT ![r].newPath = x, ![r].at = l] => Comes(r, l)
         /\ \A x, l : editor' = [editor EXCEPT ![r].at = l, ![r].subs = x] => Comes(r, l)
         /\ \A x : editor' = [editor EXCEPT ![r].subs = x] => Comes(r, editor[r].at)
<1> USE DEF EditorsAreSomewhere, Comes
<1>1. ASSUME NEW l, EditorAt(r, l) PROVE Comes(r, l)
  BY <1>1 DEF EditorAt
<1>2. ASSUME Leave(r) PROVE Comes(r, "done")
  BY <1>2 DEF Leave, Served
<1>3. ASSUME NEW e, NEW l, editor' = [editor EXCEPT ![r] = Started(e, l)] PROVE Comes(r, l)
  BY <1>3 DEF Started
<1>4. ASSUME NEW x, NEW y, NEW l, editor' = [editor EXCEPT ![r].seen = x, ![r].newPath = y, ![r].at = l]
      PROVE  Comes(r, l)
  BY <1>4
<1>5. ASSUME NEW x, NEW l, editor' = [editor EXCEPT ![r].newPath = x, ![r].at = l] PROVE Comes(r, l)
  BY <1>5
<1>6. ASSUME NEW x, NEW l, editor' = [editor EXCEPT ![r].at = l, ![r].subs = x] PROVE Comes(r, l)
  BY <1>6
<1>7. ASSUME NEW x, editor' = [editor EXCEPT ![r].subs = x] PROVE Comes(r, editor[r].at)
  BY <1>7
<1> HIDE DEF EditorsAreSomewhere, Comes
<1> QED
  BY <1>1, <1>2, <1>3, <1>4, <1>5, <1>6, <1>7

\* A step that changes a document has the deletion to come; one that does not had
\* none, or still has it.
LEMMA TreeStaysFresh ==
  ASSUME EditorsAreSomewhere, TreeCacheIsFresh, NEW r \in Editors, NEW l, Comes(r, l),
         UNCHANGED treeCache, upset \subseteq upset',
         \/ l \in {"findSubs", "reindex", "delTree"}
         \/ UNCHANGED <<live, parent, slug, path>> /\ ~DeletionToCome(r)
  PROVE  EditorsAreSomewhere' /\ TreeCacheIsFresh'
<1>1. EditorsAreSomewhere'
  BY DEF EditorsAreSomewhere, Comes
<1>2. CASE l \in {"findSubs", "reindex", "delTree"}
  <2>1. DeletionToCome(r)'
    BY <1>2 DEF Comes, DeletionToCome
  <2> QED
    BY <1>1, <2>1 DEF TreeCacheIsFresh, DeletionToCome
<1>3. CASE UNCHANGED <<live, parent, slug, path>> /\ ~DeletionToCome(r)
  <2>1. BuildTree' = BuildTree
    BY <1>3 DEF BuildTree, Shown
  <2>2. \A q \in Editors : DeletionToCome(q) => DeletionToCome(q)'
    BY <1>3 DEF Comes, DeletionToCome
  <2> QED
    BY <1>1, <2>1, <2>2 DEF TreeCacheIsFresh, DeletionToCome
<1> QED
  BY <1>2, <1>3

LEMMA EditStaysFresh ==
  ASSUME EditorsAreSomewhere, TreeCacheIsFresh, NEW r \in Editors, EditStep(r)
  PROVE  EditorsAreSomewhere' /\ TreeCacheIsFresh'
<1> DEFINE e == editor[r].ask
           at == editor[r].at
<1>1. CASE \E a \in Edit : Arrive(r, a)
  <2>1. PICK a \in Edit : Arrive(r, a)
    BY <1>1
  <2>2. (\E l : Comes(r, l)) /\ at = "idle"
    <3>1. PICK l : editor' = [editor EXCEPT ![r] = Started(a, l)]
      BY <2>1 DEF Arrive
    <3>2. Comes(r, l)
      BY <3>1, AnEditorMoves
    <3> QED
      BY <2>1, <3>2 DEF Arrive, Waiting
  <2> QED
    BY <2>1, <2>2, TreeStaysFresh DEF Arrive, DeletionToCome
<1>2. CASE CreateCheckSlug(r) \/ ReadParent(r) \/ UpdateRead(r) \/ UpdateCheckSlug(r) \/ Refuse(r)
           \/ DeleteRead(r) \/ CountChildren(r) \/ CountProducts(r)
  <2>1. /\ UNCHANGED <<live, parent, slug, path, treeCache, upset>> /\ ~DeletionToCome(r)
    BY <1>2 DEF CreateCheckSlug, ReadParent, UpdateRead, UpdateCheckSlug, Refuse, DeleteRead,
       CountChildren,
                CountProducts, docs, DeletionToCome
  <2>2. \E l : Comes(r, l)
    <3>1. CASE CreateCheckSlug(r)
      BY <3>1, AnEditorMoves DEF CreateCheckSlug
    <3>2. CASE ReadParent(r)
      <4>1. Leave(r) \/ \E x, l : editor' = [editor EXCEPT ![r].newPath = x, ![r].at = l]
        BY <3>2 DEF ReadParent
      <4> QED
        BY <4>1, AnEditorMoves
    <3>3. CASE UpdateRead(r)
      <4>1. Leave(r) \/ \E x, y, l : editor' = [editor EXCEPT ![r].seen = x, ![r].newPath = y, ![r].at = l]
        <5>1. CASE e.id \notin live
          BY <3>3, <5>1 DEF UpdateRead
        <5>2. CASE e.id \in live
          <6> DEFINE x == [slug |-> slug[e.id], path |-> path[e.id], parent |-> parent[e.id]]
                     y == KnownPath(e, x)
                     l == IF e.slug \notin {Keep, x.slug} THEN "updateSlug" ELSE AfterSlug(e, x)
          <6>1. editor' = [editor EXCEPT ![r].seen = x, ![r].newPath = y, ![r].at = l]
            BY <3>3, <5>2 DEF UpdateRead
          <6> HIDE DEF x, y, l
          <6> QED
            BY <6>1
        <5> QED
          BY <5>1, <5>2
      <4>2. CASE Leave(r)
        BY <4>2, AnEditorMoves
      <4>3. ASSUME NEW x, NEW y, NEW l, editor' = [editor EXCEPT ![r].seen = x, ![r].newPath = y, ![r].at = l]
            PROVE  Comes(r, l)
        BY <4>3, AnEditorMoves
      <4> QED
        BY <4>1, <4>2, <4>3
    <3>4. CASE UpdateCheckSlug(r) \/ Refuse(r) \/ DeleteRead(r) \/ CountChildren(r) \/ CountProducts(r)
      <4>1. CASE UpdateCheckSlug(r)
        BY <4>1, AnEditorMoves DEF UpdateCheckSlug
      <4>2. CASE Refuse(r)
        BY <4>2, AnEditorMoves DEF Refuse
      <4>3. CASE DeleteRead(r)
        BY <4>3, AnEditorMoves DEF DeleteRead
      <4>4. CASE CountChildren(r)
        BY <4>4, AnEditorMoves DEF CountChildren
      <4>5. CASE CountProducts(r)
        BY <4>5, AnEditorMoves DEF CountProducts
      <4> QED
        BY <3>4, <4>1, <4>2, <4>3, <4>4, <4>5
    <3> QED
      BY <1>2, <3>1, <3>2, <3>3, <3>4
  <2> QED
    BY <2>1, <2>2, TreeStaysFresh
<1>3. CASE Insert(r) \/ UpdateWrite(r) \/ DeleteOne(r)
  <2>1. UNCHANGED <<treeCache, upset>> /\ ~DeletionToCome(r)
    BY <1>3 DEF Insert, UpdateWrite, DeleteOne, DeletionToCome
  <2>2. \/ Leave(r) /\ UNCHANGED <<live, parent, slug, path>>
        \/ EditorAt(r, "findSubs") \/ EditorAt(r, "delTree")
    BY <1>3 DEF Insert, UpdateWrite, DeleteOne, docs
  <2> QED
    BY <2>1, <2>2, AnEditorMoves, TreeStaysFresh
<1>4. CASE FindSubs(r) \/ (FindByPattern(r) /\ \E S : Found(r, S))
  <2>1. UNCHANGED treeCache /\ upset \subseteq upset' /\ \E S : Found(r, S)
    BY <1>4 DEF FindSubs, FindByPattern
  <2>2. \A x : editor' = [editor EXCEPT ![r].at = "reindex", ![r].subs = x] => Comes(r, "reindex")
    BY AnEditorMoves
  <2>3. Comes(r, "reindex")
    BY <2>1, <2>2 DEF Found
  <2> QED
    BY <2>1, <2>3, TreeStaysFresh
<1>5. CASE ReindexOne(r) \/ ReindexByPattern(r)
  <2>1. UNCHANGED treeCache /\ upset \subseteq upset' /\ at = "reindex"
    BY <1>5 DEF ReindexOne, ReindexByPattern, WriteChild
  <2>2. \E x : editor' = [editor EXCEPT ![r].subs = x]
    BY <1>5 DEF ReindexOne, ReindexByPattern, WriteChild
  <2>3. Comes(r, "reindex")
    BY <2>1, <2>2, AnEditorMoves
  <2> QED
    BY <2>1, <2>3, TreeStaysFresh
<1>6. CASE Reindexed(r)
  <2>1. UNCHANGED <<treeCache, upset>> /\ Comes(r, "delTree")
    BY <1>6, AnEditorMoves DEF Reindexed
  <2> QED
    BY <2>1, TreeStaysFresh
<1>7. CASE DelTree(r) \/ CategoriesCrash(r) \/ (FindByPattern(r) /\ Leave(r) /\ "crash" \in upset')
  <2>1. (treeCache' = NoTree \/ "crash" \in upset') /\ Comes(r, "done")
    BY <1>7, AnEditorMoves DEF DelTree, CategoriesCrash
  <2> QED
    BY <2>1 DEF TreeCacheIsFresh, EditorsAreSomewhere, Comes
<1>8. FindByPattern(r) => (\E S : Found(r, S)) \/ (Leave(r) /\ "crash" \in upset')
  BY DEF FindByPattern
<1> QED
  BY <1>1, <1>2, <1>3, <1>4, <1>5, <1>6, <1>7, <1>8 DEF EditStep

LEMMA TreeFreshNext ==
  EditorsAreSomewhere /\ TreeCacheIsFresh /\ [CategoriesNext]_catVars
    => EditorsAreSomewhere' /\ TreeCacheIsFresh'
<1> SUFFICES ASSUME EditorsAreSomewhere, TreeCacheIsFresh, [CategoriesNext]_catVars
             PROVE  EditorsAreSomewhere' /\ TreeCacheIsFresh'
  OBVIOUS
<1>1. ASSUME UNCHANGED <<live, parent, slug, path, editor>>, upset \subseteq upset',
             treeCache' \in {treeCache, NoTree, BuildTree} \/ "late" \in upset'
      PROVE  EditorsAreSomewhere' /\ TreeCacheIsFresh'
  <2>1. BuildTree' = BuildTree
    BY <1>1 DEF BuildTree, Shown
  <2> QED
    BY <1>1, <2>1 DEF EditorsAreSomewhere, TreeCacheIsFresh
<1>2. ASSUME NEW v \in Visitors, GetTree(v) \/ FindAllActive(v)
      PROVE  UNCHANGED <<live, parent, slug, path, editor, upset, treeCache>>
  BY <1>2 DEF GetTree, FindAllActive, docs
<1>3. ASSUME NEW v \in Visitors, SetTree(v)
      PROVE  /\ UNCHANGED <<live, parent, slug, path, editor>> /\ upset \subseteq upset'
             /\ treeCache' = BuildTree \/ "late" \in upset'
  BY <1>3 DEF SetTree, docs
<1>4. CASE TreeExpires
  BY <1>1, <1>4 DEF TreeExpires, docs
<1>5. CASE UNCHANGED catVars
  BY <1>1, <1>5 DEF catVars, docs
<1> QED
  BY <1>1, <1>2, <1>3, <1>4, <1>5, EditStaysFresh DEF CategoriesNext

-----------------------------------------------------------------------------
(* Reviews.  Where no event is on its way, the newest aggregation is of the  *)
(* reviews as they are: it is the one that the product has, or about to be.  *)

Approved == [c \in Counted |-> review[c].stars]
Letter(d) == d = [at |-> d.at, turn |-> d.turn, average |-> d.average, count |-> d.count]
Carried(m) == delivery[m].at = "aggregated"
OnItsWay == \E m \in Moderators : moderation[m].at = "event" \/ delivery[m].at = "saved"

NewestIsSo ==
  \/ lastTurn = turns /\ rating = AverageRating /\ reviewCount = TotalCount
  \/ \E m \in Moderators : /\ Carried(m) /\ delivery[m].turn = turns
                           /\ delivery[m].average = AverageRating /\ delivery[m].count = TotalCount

TurnsDiffer ==
  /\ turns \in Nat /\ lastTurn \in Nat /\ lastTurn <= turns
  /\ \A m \in Moderators : Carried(m) =>
       /\ delivery[m].turn \in Nat /\ delivery[m].turn <= turns /\ delivery[m].turn # lastTurn
       /\ \A n \in Moderators \ {m} : Carried(n) => delivery[n].turn # delivery[m].turn

ReviewInv ==
  /\ review \in [Customers -> [status : ReviewStatus \union {"none"}, stars : Stars \union {0}]]
  /\ moderation \in [Moderators -> [at : {"idle", "event", "done"}]]
  /\ DOMAIN delivery = Moderators /\ \A m \in Moderators : Letter(delivery[m])
  /\ overtaken \in BOOLEAN
  /\ TurnsDiffer
  /\ lost \in Nat
  /\ ~overtaken /\ ~OnItsWay /\ lost <= turns => NewestIsSo

LEMMA InitReview == ReviewsInit => ReviewInv
<1> SUFFICES ASSUME ReviewsInit PROVE ReviewInv
  OBVIOUS
<1>1. Counted = {}
  BY DEF ReviewsInit, Counted, NoReview
<1>2. TotalCount = 0
  BY <1>1, FS_EmptySet DEF TotalCount
<1>3. AverageRating = 0
  BY <1>1 DEF AverageRating, Average
<1>4. NewestIsSo /\ TurnsDiffer
  BY <1>2, <1>3 DEF ReviewsInit, NewestIsSo, TurnsDiffer, Carried, Unsent
<1> QED
  BY <1>4 DEF ReviewsInit, ReviewInv, NoReview, ReviewStatus, Letter, Unsent

\* The aggregation depends on the approved reviews only.
LEMMA SameApproved ==
  ASSUME Approved' = Approved, Counted' = Counted
  PROVE  AverageRating' = AverageRating /\ TotalCount' = TotalCount
BY DEF AverageRating, TotalCount, Approved

LEMMA SubmitStep ==
  ASSUME ReviewInv, NEW c \in Customers, VerifyBuyer(c) \/ \E n \in Stars : CreateReview(c, n)
  PROVE  ReviewInv'
<1>1. UNCHANGED <<moderation, delivery, rating, reviewCount, turns, lastTurn, overtaken, lost>>
  BY DEF VerifyBuyer, CreateReview
<1>2. /\ review' \in [Customers -> [status : ReviewStatus \union {"none"}, stars : Stars \union {0}]]
      /\ \A d \in Customers : \/ review'[d] = review[d]
                              \/ review[d].status = "none" /\ review'[d].status = "PENDING"
  <2>1. CASE VerifyBuyer(c)
    BY <2>1 DEF VerifyBuyer, ReviewInv
  <2>2. ASSUME NEW n \in Stars, CreateReview(c, n)
        PROVE  /\ review' \in [Customers -> [status : ReviewStatus \union {"none"}, stars : Stars \union {0}]]
               /\ \A d \in Customers : \/ review'[d] = review[d]
                                       \/ review[d].status = "none" /\ review'[d].status = "PENDING"
    BY <2>2 DEF CreateReview, ReviewInv, NoReview, ReviewStatus
  <2> QED
    BY <2>1, <2>2
<1>3. Counted' = Counted /\ \A d \in Counted : review'[d] = review[d]
  BY <1>2 DEF Counted
<1>4. Approved' = Approved
  BY <1>3 DEF Approved
<1>5. AverageRating' = AverageRating /\ TotalCount' = TotalCount
  BY <1>3, <1>4, SameApproved
<1> QED
  BY <1>1, <1>2, <1>5 DEF ReviewInv, TurnsDiffer, NewestIsSo, OnItsWay, Carried

LEMMA ModerateStep ==
  ASSUME ReviewInv, NEW m \in Moderators,
         SaveReviewEvent(m) \/ \E c \in Customers, s \in {"APPROVED", "REJECTED"} : UpdateStatus(m, c, s)
  PROVE  ReviewInv'
<1>1. UNCHANGED <<rating, reviewCount, turns, lastTurn, overtaken, lost>>
  BY DEF SaveReviewEvent, UpdateStatus
<1>2. CASE SaveReviewEvent(m)
  <2>1. /\ moderation' = [moderation EXCEPT ![m] = [at |-> "done"]]
        /\ delivery' = [delivery EXCEPT ![m].at = "saved"] /\ UNCHANGED review
    BY <1>2 DEF SaveReviewEvent
  <2>2. delivery'[m] = [at |-> "saved", turn |-> delivery[m].turn, average |-> delivery[m].average,
                        count |-> delivery[m].count]
    <3>1. delivery'[m] = [delivery[m] EXCEPT !.at = "saved"]
      BY <2>1 DEF ReviewInv
    <3>2. Letter(delivery[m])
      BY DEF ReviewInv
    <3> QED
      BY <3>1, <3>2 DEF Letter
  <2>3. DOMAIN delivery' = Moderators /\ \A n \in Moderators \ {m} : delivery'[n] = delivery[n]
    BY <2>1 DEF ReviewInv
  <2>4. delivery'[m].at = "saved" /\ Letter(delivery'[m])
    BY <2>2 DEF Letter
  <2>5. OnItsWay'
    BY <2>4 DEF OnItsWay
  <2>6. \A n \in Moderators : Letter(delivery[n])'
    BY <2>3, <2>4 DEF ReviewInv, Letter
  <2>7. TurnsDiffer'
    BY <1>1, <2>3, <2>4 DEF ReviewInv, TurnsDiffer, Carried
  <2> QED
    BY <1>1, <2>1, <2>3, <2>5, <2>6, <2>7 DEF ReviewInv
<1>3. ASSUME NEW c \in Customers, NEW s \in {"APPROVED", "REJECTED"}, UpdateStatus(m, c, s)
      PROVE  ReviewInv'
  <2>1. UNCHANGED delivery
    BY <1>3 DEF UpdateStatus
  <2>2. CASE review[c] = NoReview
    <3>1. moderation' = [moderation EXCEPT ![m] = [at |-> "done"]] /\ UNCHANGED review /\ moderation[m].at = "idle"
      BY <1>3, <2>2 DEF UpdateStatus
    <3>2. AverageRating' = AverageRating /\ TotalCount' = TotalCount
      BY <3>1 DEF AverageRating, TotalCount, Counted
    <3>3. OnItsWay' <=> OnItsWay
      BY <2>1, <3>1 DEF OnItsWay, ReviewInv
    <3> QED
      BY <1>1, <2>1, <3>1, <3>2, <3>3 DEF ReviewInv, TurnsDiffer, NewestIsSo, Carried, Letter
  <2>3. CASE review[c] # NoReview
    <3>1. moderation' = [moderation EXCEPT ![m] = [at |-> "event"]] /\ review' = [review EXCEPT ![c].status = s]
      BY <1>3, <2>3 DEF UpdateStatus
    <3>2. OnItsWay'
      BY <3>1 DEF OnItsWay, ReviewInv
    <3>3. review' \in [Customers -> [status : ReviewStatus \union {"none"}, stars : Stars \union {0}]]
      BY <3>1 DEF ReviewInv, ReviewStatus
    <3> QED
      BY <1>1, <2>1, <3>1, <3>2, <3>3 DEF ReviewInv, TurnsDiffer, Carried, Letter
  <2> QED
    BY <2>2, <2>3
<1> QED
  BY <1>2, <1>3

\* An aggregation is the newest; its result is stored after those before it, or not.
LEMMA DeliverStep ==
  ASSUME ReviewInv, NEW m \in Moderators, Aggregate(m) \/ StoreRating(m) \/ Redeliver(m)
  PROVE  ReviewInv'
<1>1. UNCHANGED <<review, moderation>>
  BY DEF Aggregate, StoreRating, Redeliver
<1>2. AverageRating' = AverageRating /\ TotalCount' = TotalCount
  BY <1>1 DEF AverageRating, TotalCount, Counted
<1>3. PICK d : delivery' = [delivery EXCEPT ![m] = d] /\ Letter(d)
      /\ (Aggregate(m) => d = [at |-> "aggregated", turn |-> turns + 1, average |-> AverageRating, count |-> TotalCount])
      /\ (StoreRating(m) => d.at = "handled") /\ (Redeliver(m) => d.at = "saved")
  <2>1. /\ [Unsent EXCEPT !.at = "handled"] = [at |-> "handled", turn |-> 0, average |-> 0, count |-> 0]
        /\ [Unsent EXCEPT !.at = "saved"] = [at |-> "saved", turn |-> 0, average |-> 0, count |-> 0]
    BY DEF Unsent
  <2>2. delivery[m].at # "saved" => ~Aggregate(m)
    BY DEF Aggregate
  <2>3. delivery[m].at # "aggregated" => ~StoreRating(m)
    BY DEF StoreRating
  <2>4. delivery[m].at # "handled" => ~Redeliver(m)
    BY DEF Redeliver
  <2>5. CASE Aggregate(m)
    <3>1. delivery' = [delivery EXCEPT ![m] =
                         [at |-> "aggregated", turn |-> turns + 1, average |-> AverageRating, count |-> TotalCount]]
      BY <2>5 DEF Aggregate
    <3> QED
      BY <2>2, <2>3, <2>4, <2>5, <3>1 DEF Letter
  <2>6. CASE StoreRating(m)
    <3>1. delivery' = [delivery EXCEPT ![m] = [at |-> "handled", turn |-> 0, average |-> 0, count |-> 0]]
      BY <2>1, <2>6 DEF StoreRating
    <3> QED
      BY <2>2, <2>3, <2>4, <2>6, <3>1 DEF Letter
  <2>7. CASE Redeliver(m)
    <3>1. delivery' = [delivery EXCEPT ![m] = [at |-> "saved", turn |-> 0, average |-> 0, count |-> 0]]
      BY <2>1, <2>7 DEF Redeliver
    <3>2. ~Aggregate(m) /\ ~StoreRating(m)
      BY <2>2, <2>3, <2>4, <2>7
    <3> DEFINE u == [at |-> "saved", turn |-> 0, average |-> 0, count |-> 0]
    <3>3. Letter(u) /\ u.at = "saved"
      BY DEF Letter
    <3> HIDE DEF u
    <3> QED
      BY <3>1, <3>2, <3>3 DEF u
  <2> QED
    BY <2>5, <2>6, <2>7
<1>4. DOMAIN delivery' = Moderators /\ delivery'[m] = d /\ \A n \in Moderators \ {m} : delivery'[n] = delivery[n]
  BY <1>3 DEF ReviewInv
<1>5. \A n \in Moderators : Letter(delivery[n])'
  BY <1>3, <1>4 DEF ReviewInv, Letter
<1>6. CASE Aggregate(m)
  <2>1. d.at = "aggregated" /\ d.turn = turns + 1 /\ d.average = AverageRating /\ d.count = TotalCount
    BY <1>3, <1>6
  <2>2. turns' = turns + 1 /\ UNCHANGED <<rating, reviewCount, lastTurn, overtaken, lost>>
    BY <1>6 DEF Aggregate
  <2>3. TurnsDiffer'
    BY <1>4, <2>1, <2>2 DEF ReviewInv, TurnsDiffer, Carried
  <2>4. NewestIsSo'
    BY <1>2, <1>4, <2>1, <2>2 DEF NewestIsSo, Carried
  <2> QED
    BY <1>1, <1>4, <1>5, <2>2, <2>3, <2>4 DEF ReviewInv
<1>7. CASE StoreRating(m)
  <2>1. /\ Carried(m) /\ rating' = delivery[m].average /\ reviewCount' = delivery[m].count
        /\ overtaken' = (overtaken \/ delivery[m].turn < lastTurn) /\ lastTurn' = delivery[m].turn
        /\ turns' = turns /\ lost' = lost
    BY <1>7 DEF StoreRating, Carried
  <2>2. d.at = "handled"
    BY <1>3, <1>7
  <2>3. TurnsDiffer'
    BY <1>4, <2>1, <2>2 DEF ReviewInv, TurnsDiffer, Carried
  <2>4. OnItsWay' <=> OnItsWay
    BY <1>1, <1>4, <2>1, <2>2 DEF OnItsWay, Carried
  <2>5. ~overtaken' /\ ~OnItsWay' /\ lost' <= turns' => NewestIsSo'
    <3> SUFFICES ASSUME ~overtaken', ~OnItsWay', lost' <= turns' PROVE NewestIsSo'
      OBVIOUS
    <3>1. NewestIsSo /\ ~(delivery[m].turn < lastTurn)
      BY <2>1, <2>4 DEF ReviewInv
    <3>2. lastTurn # turns
      <4>1. /\ turns \in Nat /\ lastTurn \in Nat /\ delivery[m].turn \in Nat
            /\ delivery[m].turn <= turns /\ delivery[m].turn # lastTurn
        BY <2>1 DEF ReviewInv, TurnsDiffer
      <4> QED
        BY <3>1, <4>1
    <3>3. PICK n \in Moderators : /\ Carried(n) /\ delivery[n].turn = turns
                                  /\ delivery[n].average = AverageRating /\ delivery[n].count = TotalCount
      BY <3>1, <3>2 DEF NewestIsSo
    <3> QED
      BY <1>2, <1>4, <2>1, <3>3 DEF NewestIsSo, Carried
  <2> QED
    BY <1>1, <1>4, <1>5, <2>1, <2>3, <2>5 DEF ReviewInv
<1>8. CASE Redeliver(m)
  <2>1. d.at = "saved" /\ UNCHANGED <<rating, reviewCount, turns, lastTurn, overtaken, lost>>
    BY <1>3, <1>8 DEF Redeliver
  <2>2. OnItsWay'
    BY <1>4, <2>1 DEF OnItsWay
  <2>3. TurnsDiffer'
    BY <1>4, <2>1 DEF ReviewInv, TurnsDiffer, Carried
  <2> QED
    BY <1>1, <1>4, <1>5, <2>1, <2>2, <2>3 DEF ReviewInv
<1> QED
  BY <1>6, <1>7, <1>8

\* The aggregation that a failed listener owes is still to come.
LEMMA FailStep == ASSUME ReviewInv, NEW m \in Moderators, ListenerFails(m) PROVE ReviewInv'
<1>1. /\ UNCHANGED <<review, moderation, rating, reviewCount, turns, lastTurn, overtaken>>
      /\ lost' = turns + 1
  BY DEF ListenerFails
<1> DEFINE d == [at |-> "handled", turn |-> 0, average |-> 0, count |-> 0]
<1>2. delivery' = [delivery EXCEPT ![m] = d] /\ Letter(d) /\ d.at = "handled"
  <2>1. [Unsent EXCEPT !.at = "handled"] = d
    BY DEF Unsent
  <2>2. Letter(d) /\ d.at = "handled"
    BY DEF Letter
  <2> HIDE DEF d
  <2>3. delivery' = [delivery EXCEPT ![m] = d]
    BY <2>1 DEF ListenerFails
  <2> QED
    BY <2>2, <2>3
<1> HIDE DEF d
<1>3. DOMAIN delivery' = Moderators /\ delivery'[m] = d /\ \A n \in Moderators \ {m} : delivery'[n] = delivery[n]
  BY <1>2 DEF ReviewInv
<1>4. \A n \in Moderators : Letter(delivery[n])'
  BY <1>2, <1>3 DEF ReviewInv, Letter
<1>5. TurnsDiffer' /\ turns \in Nat
  BY <1>1, <1>2, <1>3 DEF ReviewInv, TurnsDiffer, Carried
<1>6. lost' \in Nat /\ ~(lost' <= turns')
  BY <1>1, <1>5
<1> QED
  BY <1>1, <1>3, <1>4, <1>5, <1>6 DEF ReviewInv

LEMMA ReviewInvNext == ReviewInv /\ [ReviewsNext]_reviewVars => ReviewInv'
<1> SUFFICES ASSUME ReviewInv, [ReviewsNext]_reviewVars PROVE ReviewInv'
  OBVIOUS
<1>1. CASE UNCHANGED reviewVars
  <2>1. UNCHANGED <<review, moderation, delivery, rating, reviewCount, turns, lastTurn, overtaken, lost>>
    BY <1>1 DEF reviewVars
  <2>2. AverageRating' = AverageRating /\ TotalCount' = TotalCount
    BY <2>1 DEF AverageRating, TotalCount, Counted
  <2> QED
    BY <2>1, <2>2 DEF ReviewInv, TurnsDiffer, NewestIsSo, OnItsWay, Carried, Letter
<1>2. CASE ReviewsNext
  BY <1>2, SubmitStep, ModerateStep, DeliverStep, FailStep DEF ReviewsNext
<1> QED
  BY <1>1, <1>2

-----------------------------------------------------------------------------
(* Search.  An event of a deletion that is yet to come to the worker makes up *)
(* for the deleted products that are suggested, or about to be: unless        *)
(* reindexes mix, one that has emptied the set is the only one, so that       *)
(* nothing is suggested again but what it has found.                          *)

Events == [eventType : {"ProductCreated", "ProductUpdated", "ProductDeleted"}, aggregateId : Goods,
           payload : [name : Goods]]
Jobs == [at : {"event", "waiting", "find", "write", "done"}, data : Events, attempts : Nat, found : SUBSET Goods]

JobTypes ==
  /\ job \in [SearchJobs -> Jobs \union {Unused}]
  /\ good \in [Goods -> {"new", "active", "inactive", "deleted"}]
  /\ autocomplete \subseteq Goods
  /\ \A j \in SearchJobs : Reindexing(j) => job[j].data.eventType = "ProductDeleted"

\* Another reindex will come.
ToldLater(j) == job[j].at \in {"event", "waiting"} /\ job[j].data.eventType = "ProductDeleted"

\* A product is suggested, or about to be.
Suggested(g) == g \in autocomplete \/ \E j \in SearchJobs : job[j].at = "write" /\ g \in job[j].found

IndexInv ==
  /\ JobTypes
  /\ ~mixed =>
       /\ \A j, k \in SearchJobs : Reindexing(j) /\ Reindexing(k) => j = k
       /\ \A j \in SearchJobs : job[j].at = "find" => autocomplete = {}
       /\ \/ \E j \in SearchJobs : ToldLater(j)
          \/ \A g \in Goods : Suggested(g) => good[g] # "deleted"

LEMMA InitIndex == SearchInit => IndexInv
<1> SUFFICES ASSUME SearchInit PROVE IndexInv
  OBVIOUS
<1>1. job = [j \in SearchJobs |-> Unused] /\ autocomplete = {}
  BY DEF SearchInit
<1>2. \A j \in SearchJobs : job[j].at = "none"
  BY <1>1 DEF Unused
<1>3. \A g : ~Suggested(g)
  BY <1>1, <1>2 DEF Suggested
<1> QED
  BY <1>1, <1>2, <1>3 DEF SearchInit, IndexInv, JobTypes, Reindexing

\* One job moves.
JobMoves(j, to) ==
  /\ to \in Jobs
  /\ job' = [job EXCEPT ![j] = to]

LEMMA JobMoved ==
  ASSUME IndexInv, NEW j \in SearchJobs, NEW to \in Jobs, JobMoves(j, to)
  PROVE  /\ job' \in [SearchJobs -> Jobs \union {Unused}] /\ job'[j] = to
         /\ \A k \in SearchJobs \ {j} : job'[k] = job[k]
BY DEF IndexInv, JobTypes, JobMoves

LEMMA AnnounceStep ==
  ASSUME IndexInv, NEW j \in SearchJobs, NEW g \in Goods,
         ProductCreated(j, g) \/ ProductUpdated(j, g) \/ ProductGone(j, g)
  PROVE  IndexInv'
<1>1. PICK type \in {"ProductCreated", "ProductUpdated", "ProductDeleted"} :
        /\ Announce(j, type, g)
        /\ ProductGone(j, g) => type = "ProductDeleted"
  BY DEF ProductCreated, ProductUpdated, ProductGone
<1> DEFINE to == [at |-> "event", data |-> Wrapper(type, g), attempts |-> 0, found |-> {}]
<1>2. to \in Jobs /\ to.at = "event" /\ to.data.eventType = type
  BY DEF Jobs, Events, Wrapper
<1>3. JobMoves(j, to) /\ job[j].at = "none" /\ UNCHANGED <<autocomplete, mixed>>
  BY <1>1, <1>2 DEF Announce, JobMoves, Unused
<1> HIDE DEF to
<1>4. /\ job' \in [SearchJobs -> Jobs \union {Unused}] /\ job'[j] = to
      /\ \A k \in SearchJobs \ {j} : job'[k] = job[k]
  BY <1>2, <1>3, JobMoved
<1>5. /\ good' \in [Goods -> {"new", "active", "inactive", "deleted"}]
      /\ ~ProductGone(j, g) => \A h \in Goods : good'[h] = "deleted" => good[h] = "deleted"
  BY DEF IndexInv, JobTypes, ProductCreated, ProductUpdated, ProductGone
<1>6. \A k \in SearchJobs : /\ Reindexing(k)' <=> Reindexing(k)
                            /\ ToldLater(k) => ToldLater(k)'
  BY <1>2, <1>3, <1>4 DEF Reindexing, ToldLater
<1>7. \A h : Suggested(h)' <=> Suggested(h)
  BY <1>2, <1>3, <1>4 DEF Suggested
<1>8. ProductGone(j, g) => ToldLater(j)'
  BY <1>1, <1>2, <1>4 DEF ToldLater
<1>9. JobTypes'
  BY <1>2, <1>3, <1>4, <1>5, <1>6 DEF IndexInv, JobTypes, Reindexing
<1>10. \A k \in SearchJobs : job'[k].at = "find" => job[k].at = "find"
  BY <1>2, <1>4
<1> QED
  BY <1>3, <1>5, <1>6, <1>7, <1>8, <1>9, <1>10 DEF IndexInv

\* An event carries no field of the product, so that indexing one finds no term.
LEMMA NothingToIndex == ASSUME NEW e \in Events PROVE IndexTerms(e) = {}
<1>1. DOMAIN e = {"eventType", "aggregateId", "payload"}
  BY DEF Events
<1> QED
  BY <1>1 DEF IndexTerms

LEMMA QueueSteps ==
  ASSUME IndexInv, NEW j \in SearchJobs, Enqueue(j) \/ EnqueueFails(j) \/ HandleIndexProduct(j)
  PROVE  IndexInv'
<1>1. job[j].at \in {"event", "waiting"} /\ job[j] \in Jobs
  BY DEF Enqueue, EnqueueFails, HandleIndexProduct, IndexInv, JobTypes, Unused
<1>2. PICK l \in {"waiting", "done"} :
        job' = [job EXCEPT ![j].at = l] /\ (l = "waiting" \/ EnqueueFails(j) \/ HandleIndexProduct(j))
  BY DEF Enqueue, EnqueueFails, HandleIndexProduct, JobAt
<1> DEFINE to == [job[j] EXCEPT !.at = l]
<1>3. to \in Jobs /\ to.at = l /\ to.data = job[j].data /\ JobMoves(j, to)
  BY <1>1, <1>2 DEF Jobs, JobMoves
<1> HIDE DEF to
<1>4. /\ job' \in [SearchJobs -> Jobs \union {Unused}] /\ job'[j] = to
      /\ \A k \in SearchJobs \ {j} : job'[k] = job[k]
  BY <1>3, JobMoved
<1>5. UNCHANGED <<autocomplete, good>>
  <2>1. CASE HandleIndexProduct(j)
    <3>1. IndexTerms(job[j].data) = {}
      BY <1>1, NothingToIndex DEF Jobs
    <3> QED
      BY <2>1, <3>1 DEF HandleIndexProduct
  <2> QED
    BY <2>1 DEF Enqueue, EnqueueFails
<1>6. ~mixed' => ~mixed /\ ~EnqueueFails(j)
  BY DEF Enqueue, EnqueueFails, HandleIndexProduct
<1>7. ~EnqueueFails(j) /\ ToldLater(j) => ToldLater(j)'
  BY <1>2, <1>3, <1>4 DEF ToldLater, HandleIndexProduct
<1>8. /\ \A k \in SearchJobs : Reindexing(k)' <=> Reindexing(k)
      /\ \A k \in SearchJobs \ {j} : ToldLater(k)' <=> ToldLater(k)
  BY <1>1, <1>3, <1>4 DEF Reindexing, ToldLater
<1>9. \A h : Suggested(h)' => Suggested(h)
  BY <1>3, <1>4, <1>5 DEF Suggested
<1>10. JobTypes'
  BY <1>3, <1>4, <1>5, <1>8 DEF IndexInv, JobTypes, Reindexing
<1>11. \A k \in SearchJobs : job'[k].at = "find" => job[k].at = "find"
  BY <1>3, <1>4
<1> QED
  BY <1>5, <1>6, <1>7, <1>8, <1>9, <1>10, <1>11 DEF IndexInv

LEMMA ReindexDelStep == ASSUME IndexInv, NEW j \in SearchJobs, ReindexDel(j) PROVE IndexInv'
<1>1. job[j] \in Jobs /\ job[j].at = "waiting" /\ job[j].data.eventType = "ProductDeleted"
  BY DEF ReindexDel, IndexInv, JobTypes, Unused
<1> DEFINE to == [job[j] EXCEPT !.at = "find"]
<1>2. to \in Jobs /\ to.at = "find" /\ to.data = job[j].data
  BY <1>1 DEF Jobs
<1>3. /\ JobMoves(j, to) /\ autocomplete' = {} /\ good' = good
      /\ ~mixed' => ~mixed /\ \A k \in SearchJobs : ~Reindexing(k)
  BY <1>2 DEF ReindexDel, JobAt, JobMoves
<1> HIDE DEF to
<1>4. /\ job' \in [SearchJobs -> Jobs \union {Unused}] /\ job'[j] = to
      /\ \A k \in SearchJobs \ {j} : job'[k] = job[k]
  BY <1>2, <1>3, JobMoved
<1>5. JobTypes'
  BY <1>1, <1>2, <1>3, <1>4 DEF IndexInv, JobTypes, Reindexing
<1>6. ~mixed' => \A k \in SearchJobs : Reindexing(k)' => k = j
  BY <1>3, <1>4 DEF Reindexing
<1>7. ~mixed' => \A h : ~Suggested(h)'
  BY <1>2, <1>3, <1>4, <1>6 DEF Suggested, Reindexing
<1> QED
  BY <1>3, <1>5, <1>6, <1>7 DEF IndexInv

LEMMA ReindexFindStep == ASSUME IndexInv, NEW j \in SearchJobs, ReindexFind(j) PROVE IndexInv'
<1>1. job[j] \in Jobs /\ job[j].at = "find" /\ job[j].data.eventType = "ProductDeleted"
  BY DEF ReindexFind, IndexInv, JobTypes, Unused, Reindexing
<1> DEFINE to == IF Active = {} THEN [job[j] EXCEPT !.at = "done"]
                 ELSE [job[j] EXCEPT !.at = "write", !.found = Active]
<1>2. /\ to \in Jobs /\ to.data = job[j].data
      /\ to.at = "done" \/ (to.at = "write" /\ to.found = Active)
  <2>1. Active \subseteq Goods
    BY DEF Active
  <2> QED
    BY <1>1, <2>1 DEF Jobs
<1>3. JobMoves(j, to) /\ UNCHANGED <<autocomplete, good, mixed>>
  BY <1>2 DEF ReindexFind, JobMoves
<1> HIDE DEF to
<1>4. /\ job' \in [SearchJobs -> Jobs \union {Unused}] /\ job'[j] = to
      /\ \A k \in SearchJobs \ {j} : job'[k] = job[k]
  BY <1>2, <1>3, JobMoved
<1>5. JobTypes'
  BY <1>1, <1>2, <1>3, <1>4 DEF IndexInv, JobTypes, Reindexing
<1>6. ~mixed' => \A k \in SearchJobs : Reindexing(k)' => k = j
  BY <1>1, <1>3, <1>4 DEF IndexInv, Reindexing
<1>7. ~mixed' => \A h \in Goods : Suggested(h)' => good'[h] # "deleted"
  <2>1. ~mixed' => autocomplete' = {}
    BY <1>1, <1>3 DEF IndexInv
  <2>2. \A h \in Active : good[h] = "active"
    BY DEF Active
  <2> QED
    BY <1>2, <1>3, <1>4, <1>6, <2>1, <2>2 DEF Suggested, Reindexing
<1>8. ~mixed' => \A k \in SearchJobs : job'[k].at # "find"
  BY <1>2, <1>4, <1>6 DEF Reindexing
<1> QED
  BY <1>5, <1>6, <1>7, <1>8 DEF IndexInv

LEMMA ReindexEndSteps ==
  ASSUME IndexInv, NEW j \in SearchJobs, ReindexAdd(j) \/ JobFails(j) PROVE IndexInv'
<1>1. /\ job[j] \in Jobs /\ Reindexing(j) /\ job[j].data.eventType = "ProductDeleted"
      /\ ReindexAdd(j) => job[j].at = "write"
  BY DEF ReindexAdd, JobFails, Reindexing, IndexInv, JobTypes, Unused
<1>2. PICK to \in Jobs : JobMoves(j, to) /\ to.data = job[j].data /\ to.at \in {"waiting", "done"}
  <2>1. CASE ReindexAdd(j)
    <3>1. [job[j] EXCEPT !.at = "done"] \in Jobs
      BY <1>1 DEF Jobs
    <3> QED
      BY <1>1, <2>1, <3>1 DEF ReindexAdd, JobAt, JobMoves, Jobs
  <2>2. CASE JobFails(j)
    <3> DEFINE n == job[j].attempts + 1
               l == IF n < SearchAttempts THEN "waiting" ELSE "done"
    <3>1. n \in Nat /\ l \in {"waiting", "done"}
      BY <1>1 DEF Jobs
    <3>2. job' = [job EXCEPT ![j] = [job[j] EXCEPT !.at = l, !.attempts = n, !.found = {}]]
      BY <2>2 DEF JobFails
    <3> HIDE DEF n, l
    <3>3. [job[j] EXCEPT !.at = l, !.attempts = n, !.found = {}] \in Jobs
      BY <1>1, <3>1 DEF Jobs
    <3> QED
      BY <1>1, <3>1, <3>2, <3>3 DEF JobMoves, Jobs
  <2> QED
    BY <2>1, <2>2
<1>3. /\ good' = good
      /\ autocomplete' = autocomplete \/ (autocomplete' = autocomplete \union job[j].found /\ job[j].at = "write")
      /\ ~mixed' => ~mixed
  <2>1. CASE ReindexAdd(j)
    BY <2>1 DEF ReindexAdd
  <2>2. CASE JobFails(j)
    BY <2>2 DEF JobFails
  <2> QED
    BY <2>1, <2>2
<1>4. /\ job' \in [SearchJobs -> Jobs \union {Unused}] /\ job'[j] = to
      /\ \A k \in SearchJobs \ {j} : job'[k] = job[k]
  BY <1>2, JobMoved
<1>5. JobTypes'
  BY <1>1, <1>2, <1>3, <1>4 DEF IndexInv, JobTypes, Reindexing, Jobs
<1>6. ~mixed' => \A k \in SearchJobs : ~Reindexing(k)'
  BY <1>1, <1>2, <1>3, <1>4 DEF IndexInv, Reindexing
<1>7. \A h : Suggested(h)' => Suggested(h)
  BY <1>2, <1>3, <1>4 DEF Suggested
<1>8. \A k \in SearchJobs : ToldLater(k) => ToldLater(k)'
  BY <1>1, <1>4 DEF ToldLater, Reindexing
<1>9. ~mixed' => \A k \in SearchJobs : job'[k].at # "find"
  BY <1>6 DEF Reindexing
<1> QED
  BY <1>3, <1>5, <1>6, <1>7, <1>8, <1>9 DEF IndexInv

LEMMA IndexInvNext == IndexInv /\ [SearchNext]_searchVars => IndexInv'
<1> SUFFICES ASSUME IndexInv, [SearchNext]_searchVars PROVE IndexInv'
  OBVIOUS
<1>1. CASE IndexNext
  BY <1>1, AnnounceStep, QueueSteps, ReindexDelStep, ReindexFindStep, ReindexEndSteps DEF IndexNext, JobStep
<1>2. CASE HistoryNext \/ UNCHANGED searchVars
  <2>1. UNCHANGED <<good, autocomplete, job, mixed>>
    BY <1>2 DEF HistoryNext, ClearHistory, TrackSearch, searchVars
  <2> QED
    BY <2>1 DEF IndexInv, JobTypes, Reindexing, ToldLater, Suggested
<1> QED
  BY <1>1, <1>2 DEF SearchNext

LEMMA QuietForgets == IndexInv => DeletedAreForgotten
<1> SUFFICES ASSUME IndexInv, Quiet, ~mixed, NEW g \in autocomplete PROVE good[g] # "deleted"
  BY DEF DeletedAreForgotten
<1>1. \A j \in SearchJobs : ~ToldLater(j)
  BY DEF Quiet, ToldLater
<1> QED
  BY <1>1 DEF IndexInv, JobTypes, Suggested

-----------------------------------------------------------------------------
(* The history of searches.  Taking q out and putting it in front is, since   *)
(* no term is in the history twice, moving what was before it back by one.    *)

\* Where q is at p, or nowhere when p is behind the end.
IsAt(h, q, p) == p \in 1 .. Len(h) + 1 /\ \A n \in 1 .. Len(h) : h[n] = q <=> n = p

\* How much is left of the first m, and what.
LeftOf(m, p) == IF p <= m THEN m - 1 ELSE m
LeftIs(w, h, m, p) ==
  /\ w \in Seq(Terms) /\ Len(w) = LeftOf(m, p)
  /\ \A n \in 1 .. LeftOf(m, p) : w[n] = IF n < p THEN h[n] ELSE h[n + 1]

LEMMA WithoutIs ==
  ASSUME NEW h \in Seq(Terms), NEW q, NEW p, IsAt(h, q, p)
  PROVE  LeftIs(Without(h, q), h, Len(h), p)
<1> DEFINE rest == CHOOSE rest : Drops(rest, h, {q}, Len(h))
           Good(m) == LeftIs(rest[m], h, m, p)
<1>1. Len(h) \in Nat /\ p \in Nat \ {0}
  BY DEF IsAt
<1>2. Drops(rest, h, {q}, Len(h))
  BY <1>1, DropsExist
<1>3. Without(h, q) = rest[Len(h)]
  BY DEF Without, Dropping, Drops
<1> HIDE DEF rest
<1>4. \A m \in 0 .. Len(h) :
        rest[m] = IF m = 0 THEN <<>> ELSE IF h[m] = q THEN rest[m - 1] ELSE Append(rest[m - 1], h[m])
  BY <1>2 DEF Drops
<1>5. PICK D : D = {m \in 0 .. Len(h) : ~Good(m)}
  OBVIOUS
<1>6. ASSUME D # {} PROVE FALSE
  <2>1. PICK m \in D : \A k \in D : m <= k
    <3> HIDE DEF Good
    <3>1. D \in SUBSET Nat
      BY <1>1, <1>5
    <3> QED
      BY <1>6, <3>1, LeastNumber
  <2>2. m \in 0 .. Len(h) /\ ~Good(m)
    BY <1>5, <2>1
  <2>3. m # 0
    <3>1. rest[0] = <<>>
      BY <1>1, <1>4
    <3>2. LeftIs(<<>>, h, 0, p)
      BY <1>1 DEF LeftIs, LeftOf
    <3> QED
      BY <2>2, <3>1, <3>2
  <2>4. Good(m - 1)
    <3>1. m - 1 \in 0 .. Len(h) /\ ~(m <= m - 1)
      BY <1>1, <2>2, <2>3
    <3> QED
      BY <1>5, <2>1, <3>1
  <2>5. m \in 1 .. Len(h) /\ h[m] \in Terms /\ (h[m] = q <=> m = p)
    BY <1>1, <2>2, <2>3 DEF IsAt
  <2>6. CASE m = p
    <3>1. rest[m] = rest[m - 1]
      BY <1>4, <2>2, <2>3, <2>5, <2>6
    <3>2. LeftOf(m, p) = LeftOf(m - 1, p)
      BY <1>1, <2>5, <2>6 DEF LeftOf
    <3> QED
      BY <2>2, <2>4, <3>1, <3>2 DEF LeftIs
  <2>7. CASE m # p
    <3>1. PICK ys \in Seq(Terms) : ys = rest[m - 1] /\ LeftIs(ys, h, m - 1, p)
      BY <2>4 DEF LeftIs
    <3>2. rest[m] = Append(ys, h[m])
      BY <1>4, <2>2, <2>3, <2>5, <2>7, <3>1
    <3>3. /\ LeftOf(m, p) = Len(ys) + 1 /\ Len(ys) \in Nat
          /\ h[m] = IF Len(ys) + 1 < p THEN h[Len(ys) + 1] ELSE h[Len(ys) + 2]
      BY <1>1, <2>5, <2>7, <3>1 DEF LeftOf, LeftIs
    <3>4. /\ Append(ys, h[m]) \in Seq(Terms) /\ Len(Append(ys, h[m])) = Len(ys) + 1
          /\ Append(ys, h[m])[Len(ys) + 1] = h[m]
          /\ \A n \in 1 .. Len(ys) : Append(ys, h[m])[n] = ys[n]
      BY <2>5
    <3>5. \A n \in 1 .. Len(ys) : ys[n] = IF n < p THEN h[n] ELSE h[n + 1]
      BY <3>1 DEF LeftIs
    <3> QED
      BY <1>1, <2>2, <3>2, <3>3, <3>4, <3>5 DEF LeftIs
  <2> QED
    BY <2>6, <2>7
<1>7. Good(Len(h))
  <2> HIDE DEF Good
  <2> QED
    BY <1>1, <1>5, <1>6
<1> QED
  BY <1>3, <1>7

\* What trackSearchQuery makes of the history h: q comes to the front, and what was
\* before it moves back by one.
Cut(w) == SubSeq(w, 1, IF Len(w) < HistoryLimit THEN Len(w) ELSE HistoryLimit)

LEMMA PushedIs ==
  ASSUME NEW h \in Seq(Terms), Len(h) <= HistoryLimit, NEW q \in Terms, NEW p, IsAt(h, q, p)
  PROVE  /\ Cut(Push(h, q)) \in Seq(Terms)
         /\ Len(Cut(Push(h, q))) = IF p <= Len(h) THEN Len(h)
                                   ELSE IF Len(h) < HistoryLimit THEN Len(h) + 1 ELSE HistoryLimit
         /\ \A n \in 1 .. Len(Cut(Push(h, q))) :
              Cut(Push(h, q))[n] = IF n = 1 THEN q ELSE IF n <= p THEN h[n - 1] ELSE h[n]
<1>1. PICK w \in Seq(Terms) : w = Without(h, q) /\ LeftIs(w, h, Len(h), p)
  BY WithoutIs DEF LeftIs
<1>2. PICK v : v = <<q>> \o w
  OBVIOUS
<1>3. /\ v \in Seq(Terms) /\ Len(v) = Len(w) + 1 /\ v[1] = q /\ Len(w) \in Nat
      /\ \A n \in 2 .. Len(v) : v[n] = w[n - 1]
  BY <1>2
<1>4. HistoryLimit \in Nat \ {0} /\ p \in 1 .. Len(h) + 1 /\ Len(h) \in Nat
  BY HistoryLimitAssumption DEF IsAt
<1> DEFINE k == IF Len(v) < HistoryLimit THEN Len(v) ELSE HistoryLimit
<1>5. k \in 1 .. Len(v)
  BY <1>3, <1>4
<1>6. Cut(Push(h, q)) = SubSeq(v, 1, k)
  BY <1>1, <1>2 DEF Cut, Push
<1>7. k = IF p <= Len(h) THEN Len(h) ELSE IF Len(h) < HistoryLimit THEN Len(h) + 1 ELSE HistoryLimit
  BY <1>1, <1>3, <1>4 DEF LeftIs, LeftOf
<1> HIDE DEF k
<1>8. /\ SubSeq(v, 1, k) \in Seq(Terms) /\ Len(SubSeq(v, 1, k)) = k
      /\ \A n \in 1 .. k : SubSeq(v, 1, k)[n] = v[n]
  BY <1>3, <1>5
<1>9. \A n \in 1 .. k : v[n] = IF n = 1 THEN q ELSE IF n <= p THEN h[n - 1] ELSE h[n]
  <2> TAKE n \in 1 .. k
  <2>1. CASE n = 1
    BY <1>3, <2>1
  <2>2. CASE n # 1
    <3>1. n - 1 \in 1 .. LeftOf(Len(h), p) /\ v[n] = w[n - 1]
      BY <1>1, <1>3, <1>5, <2>2 DEF LeftIs
    <3>2. w[n - 1] = IF n - 1 < p THEN h[n - 1] ELSE h[(n - 1) + 1]
      BY <1>1, <3>1 DEF LeftIs
    <3> QED
      BY <1>4, <1>5, <2>2, <3>1, <3>2
  <2> QED
    BY <2>1, <2>2
<1> QED
  BY <1>6, <1>7, <1>8, <1>9

LEMMA LastIs ==
  ASSUME NEW s \in Seq(Terms), NEW n \in 1 .. Len(s)
  PROVE  /\ LastAt(s, s[n]) \in 1 .. Len(s) /\ s[LastAt(s, s[n])] = s[n]
         /\ \A m \in 1 .. Len(s) : s[m] = s[n] => m <= LastAt(s, s[n])
<1> DEFINE q == s[n]
           D == {Len(s) - m : m \in {k \in 1 .. Len(s) : s[k] = q}}
<1>1. D \in SUBSET Nat /\ D # {}
  OBVIOUS
<1>2. PICK d \in D : \A e \in D : d <= e
  <2> HIDE DEF D
  <2> QED
    BY <1>1, LeastNumber
<1>3. PICK m \in 1 .. Len(s) : s[m] = q /\ d = Len(s) - m
  BY <1>2
<1>4. ASSUME NEW k \in 1 .. Len(s), s[k] = q PROVE k <= m
  <2>1. Len(s) - k \in D
    BY <1>4
  <2>2. d <= Len(s) - k
    BY <1>2, <2>1
  <2> HIDE DEF D
  <2> QED
    BY <1>3, <2>2
<1>5. DOMAIN s = 1 .. Len(s)
  OBVIOUS
<1>6. \E k \in DOMAIN s : s[k] = q /\ \A j \in DOMAIN s : s[j] = q => j <= k
  BY <1>3, <1>4, <1>5
<1> HIDE DEF q, D
<1>7. LastAt(s, q) \in DOMAIN s /\ s[LastAt(s, q)] = q /\ \A j \in DOMAIN s : s[j] = q => j <= LastAt(s, q)
  BY <1>6 DEF LastAt
<1> QED
  BY <1>5, <1>7 DEF q

\* A term that is searched for becomes the last, the others stay when they were.
LEMMA LastThen ==
  ASSUME NEW s \in Seq(Terms), NEW q \in Terms
  PROVE  /\ LastAt(Append(s, q), q) = Len(s) + 1
         /\ \A n \in 1 .. Len(s) : s[n] # q => LastAt(Append(s, q), s[n]) = LastAt(s, s[n])
<1> DEFINE t == Append(s, q)
<1>1. /\ t \in Seq(Terms) /\ Len(t) = Len(s) + 1 /\ t[Len(s) + 1] = q /\ Len(s) \in Nat
      /\ \A n \in 1 .. Len(s) : t[n] = s[n]
  OBVIOUS
<1> HIDE DEF t
<1>2. LastAt(t, q) = Len(s) + 1
  <2>1. PICK n \in 1 .. Len(t) : n = Len(s) + 1 /\ t[n] = q
    BY <1>1
  <2>2. LastAt(t, t[n]) \in 1 .. Len(t) /\ n <= LastAt(t, t[n])
    BY <1>1, LastIs
  <2> QED
    BY <1>1, <2>1, <2>2
<1>3. ASSUME NEW n \in 1 .. Len(s), s[n] # q PROVE LastAt(t, s[n]) = LastAt(s, s[n])
  <2>1. n \in 1 .. Len(t) /\ t[n] = s[n]
    BY <1>1
  <2>2. /\ LastAt(t, s[n]) \in 1 .. Len(t) /\ t[LastAt(t, s[n])] = s[n]
        /\ \A m \in 1 .. Len(t) : t[m] = s[n] => m <= LastAt(t, s[n])
    BY <1>1, <2>1, LastIs
  <2>3. /\ LastAt(s, s[n]) \in 1 .. Len(s) /\ s[LastAt(s, s[n])] = s[n]
        /\ \A m \in 1 .. Len(s) : s[m] = s[n] => m <= LastAt(s, s[n])
    BY LastIs
  <2>4. LastAt(t, s[n]) \in 1 .. Len(s)
    BY <1>1, <1>3, <2>2
  <2> QED
    BY <1>1, <2>2, <2>3, <2>4
<1> QED
  BY <1>2, <1>3 DEF t

\* The history is the end of what was searched for, in the order of the last
\* searches, without a gap, and as long as it may be.
Recent(s, h) ==
  /\ s \in Seq(Terms) /\ h \in Seq(Terms) /\ Len(h) <= HistoryLimit
  /\ \A n \in 1 .. Len(h) : \E k \in 1 .. Len(s) : h[n] = s[k]
  /\ \A m, n \in 1 .. Len(h) : m < n => LastAt(s, h[n]) < LastAt(s, h[m])
  /\ \A k \in 1 .. Len(s) : \A n \in 1 .. Len(h) :
       LastAt(s, h[n]) < LastAt(s, s[k]) => \E m \in 1 .. n - 1 : h[m] = s[k]
  /\ Len(h) = HistoryLimit \/ \A k \in 1 .. Len(s) : \E n \in 1 .. Len(h) : h[n] = s[k]

LEMMA SomewhereOrNot == ASSUME NEW s, NEW h, Recent(s, h), NEW q PROVE \E p : IsAt(h, q, p)
<1>1. Len(h) \in Nat
  BY DEF Recent
<1>2. CASE \E n \in 1 .. Len(h) : h[n] = q
  <2>1. PICK p \in 1 .. Len(h) : h[p] = q
    BY <1>2
  <2>2. ASSUME NEW n \in 1 .. Len(h), h[n] = q PROVE n = p
    <3>1. /\ n < p => LastAt(s, h[p]) < LastAt(s, h[n])
          /\ p < n => LastAt(s, h[n]) < LastAt(s, h[p])
      BY <2>1 DEF Recent
    <3>2. PICK k \in 1 .. Len(s) : h[p] = s[k]
      BY <2>1 DEF Recent
    <3>3. LastAt(s, s[k]) \in Nat
      <4>1. s \in Seq(Terms)
        BY DEF Recent
      <4>2. LastAt(s, s[k]) \in 1 .. Len(s)
        BY <4>1, LastIs
      <4> QED
        BY <4>2
    <3> QED
      BY <1>1, <2>1, <2>2, <3>1, <3>2, <3>3
  <2>3. IsAt(h, q, p)
    BY <1>1, <2>1, <2>2 DEF IsAt
  <2> QED
    BY <2>3
<1>3. CASE ~\E n \in 1 .. Len(h) : h[n] = q
  <2>1. IsAt(h, q, Len(h) + 1)
    BY <1>1, <1>3 DEF IsAt
  <2> QED
    BY <2>1
<1> QED
  BY <1>2, <1>3

\* Where the term at j goes when q, which is at p, comes to the front.
GoesBackTo(j, p) == IF j < p THEN j + 1 ELSE j
ComesFrom(n, p) == IF n <= p THEN n - 1 ELSE n

LEMMA RecentThen ==
  ASSUME NEW s, NEW h, Recent(s, h), NEW q \in Terms
  PROVE  Recent(Append(s, q), Cut(Push(h, q)))
<1>1. /\ s \in Seq(Terms) /\ h \in Seq(Terms) /\ Len(s) \in Nat /\ Len(h) \in Nat
      /\ Len(h) <= HistoryLimit /\ HistoryLimit \in Nat \ {0}
  BY HistoryLimitAssumption DEF Recent
<1>2. PICK p : IsAt(h, q, p)
  BY SomewhereOrNot
<1>3. p \in 1 .. Len(h) + 1 /\ \A n \in 1 .. Len(h) : h[n] = q <=> n = p
  BY <1>2 DEF IsAt
<1>4. PICK t : t = Append(s, q)
  OBVIOUS
<1>5. PICK g : g = Cut(Push(h, q))
  OBVIOUS
<1>6. /\ t \in Seq(Terms) /\ Len(t) = Len(s) + 1 /\ t[Len(s) + 1] = q
      /\ \A k \in 1 .. Len(s) : t[k] = s[k]
  BY <1>1, <1>4
<1>7. /\ g \in Seq(Terms)
      /\ Len(g) = IF p <= Len(h) THEN Len(h) ELSE IF Len(h) < HistoryLimit THEN Len(h) + 1 ELSE HistoryLimit
      /\ \A n \in 1 .. Len(g) : g[n] = IF n = 1 THEN q ELSE IF n <= p THEN h[n - 1] ELSE h[n]
  BY <1>1, <1>2, <1>5, PushedIs
<1>8. g[1] = q /\ 1 \in 1 .. Len(g) /\ Len(g) <= HistoryLimit
  BY <1>1, <1>3, <1>7
<1>9. \A n \in 2 .. Len(g) :
        /\ ComesFrom(n, p) \in 1 .. Len(h) /\ ComesFrom(n, p) # p
        /\ g[n] = h[ComesFrom(n, p)] /\ GoesBackTo(ComesFrom(n, p), p) = n
  BY <1>1, <1>3, <1>7 DEF ComesFrom, GoesBackTo
<1>10. \A j \in 1 .. Len(h) : j # p /\ GoesBackTo(j, p) <= Len(g) =>
         GoesBackTo(j, p) \in 2 .. Len(g) /\ g[GoesBackTo(j, p)] = h[j]
  BY <1>1, <1>3, <1>7 DEF GoesBackTo
<1>11. \A i, j \in 1 .. Len(h) : i # p /\ j # p /\ i < j => GoesBackTo(i, p) < GoesBackTo(j, p)
  BY <1>1, <1>3 DEF GoesBackTo
<1>12. LastAt(t, q) = Len(s) + 1
  BY <1>1, <1>4, LastThen
<1>13. \A k \in 1 .. Len(s) : s[k] # q => LastAt(t, s[k]) = LastAt(s, s[k])
  BY <1>1, <1>4, LastThen
<1>14. \A k \in 1 .. Len(s) : LastAt(s, s[k]) \in 1 .. Len(s)
  BY <1>1, LastIs
<1>15. \A j \in 1 .. Len(h) : j # p => h[j] # q /\ LastAt(t, h[j]) = LastAt(s, h[j]) /\ LastAt(t, h[j]) \in 1 .. Len(s)
  <2> TAKE j \in 1 .. Len(h)
  <2> HAVE j # p
  <2>1. PICK k \in 1 .. Len(s) : h[j] = s[k]
    BY DEF Recent
  <2> QED
    BY <1>3, <1>13, <1>14, <2>1
<1>16. \A n \in 1 .. Len(g) : \E k \in 1 .. Len(t) : g[n] = t[k]
  <2> TAKE n \in 1 .. Len(g)
  <2>1. CASE n = 1
    <3>1. Len(t) \in 1 .. Len(t) /\ g[n] = t[Len(t)]
      BY <1>1, <1>6, <1>8, <2>1
    <3> QED
      BY <3>1
  <2>2. CASE n # 1
    <3>1. n \in 2 .. Len(g)
      BY <1>1, <1>7, <2>2
    <3>2. PICK k \in 1 .. Len(s) : g[n] = s[k]
      <4>1. PICK j \in 1 .. Len(h) : g[n] = h[j]
        BY <1>9, <3>1
      <4> QED
        BY <4>1 DEF Recent
    <3>3. k \in 1 .. Len(t) /\ t[k] = s[k]
      BY <1>1, <1>6
    <3> QED
      BY <3>2, <3>3
  <2> QED
    BY <2>1, <2>2
<1>17. \A m, n \in 1 .. Len(g) : m < n => LastAt(t, g[n]) < LastAt(t, g[m])
  <2> SUFFICES ASSUME NEW m \in 1 .. Len(g), NEW n \in 1 .. Len(g), m < n PROVE LastAt(t, g[n]) < LastAt(t, g[m])
    OBVIOUS
  <2> DEFINE j == ComesFrom(n, p)
  <2>1. n \in 2 .. Len(g) /\ Len(g) \in Nat
    BY <1>7
  <2>2. j \in 1 .. Len(h) /\ j # p /\ g[n] = h[j]
    BY <1>9, <2>1
  <2>3. LastAt(t, g[n]) = LastAt(s, h[j]) /\ LastAt(t, g[n]) \in 1 .. Len(s)
    BY <1>15, <2>2
  <2>4. CASE m = 1
    BY <1>1, <1>8, <1>12, <2>3, <2>4
  <2>5. CASE m # 1
    <3> DEFINE i == ComesFrom(m, p)
    <3>1. m \in 2 .. Len(g)
      BY <2>1, <2>5
    <3>2. i \in 1 .. Len(h) /\ i # p /\ g[m] = h[i] /\ i < j
      BY <1>1, <1>3, <1>9, <2>1, <3>1 DEF ComesFrom
    <3>3. LastAt(t, g[m]) = LastAt(s, h[i])
      BY <1>15, <3>2
    <3>4. LastAt(s, h[j]) < LastAt(s, h[i])
      <4> HIDE DEF i, j
      <4> QED
        BY <2>2, <3>2 DEF Recent
    <3> QED
      BY <2>3, <3>3, <3>4
  <2> QED
    BY <2>4, <2>5
<1>18. \A k \in 1 .. Len(t) : \A n \in 1 .. Len(g) :
         LastAt(t, g[n]) < LastAt(t, t[k]) => \E m \in 1 .. n - 1 : g[m] = t[k]
  <2> SUFFICES ASSUME NEW k \in 1 .. Len(t), NEW n \in 1 .. Len(g), LastAt(t, g[n]) < LastAt(t, t[k])
               PROVE  \E m \in 1 .. n - 1 : g[m] = t[k]
    OBVIOUS
  <2>1. LastAt(t, t[k]) \in 1 .. Len(t)
    BY <1>6, LastIs
  <2>2. n \in 2 .. Len(g)
    BY <1>1, <1>6, <1>7, <1>8, <1>12, <2>1
  <2>3. CASE t[k] = q
    <3>1. 1 \in 1 .. n - 1
      BY <2>2
    <3> QED
      BY <1>8, <2>3, <3>1
  <2>4. CASE t[k] # q
    <3> DEFINE j == ComesFrom(n, p)
    <3>1. j \in 1 .. Len(h) /\ j # p /\ g[n] = h[j] /\ GoesBackTo(j, p) = n
      BY <1>9, <2>2
    <3>2. k \in 1 .. Len(s) /\ t[k] = s[k]
      BY <1>1, <1>6, <2>4
    <3>3. LastAt(s, h[j]) < LastAt(s, s[k])
      BY <1>13, <1>15, <2>4, <3>1, <3>2
    <3> HIDE DEF j
    <3>4. PICK i \in 1 .. j - 1 : h[i] = s[k]
      BY <3>1, <3>2, <3>3 DEF Recent
    <3>5. i \in 1 .. Len(h) /\ i # p /\ i < j
      BY <1>1, <1>3, <2>4, <3>1, <3>2, <3>4
    <3>6. GoesBackTo(i, p) < n
      BY <1>11, <3>1, <3>5
    <3>7. GoesBackTo(i, p) \in 2 .. Len(g) /\ g[GoesBackTo(i, p)] = h[i]
      <4>1. GoesBackTo(i, p) <= Len(g)
        BY <1>1, <1>3, <1>7, <2>2, <3>5, <3>6 DEF GoesBackTo
      <4> QED
        BY <1>10, <3>5, <4>1
    <3>8. GoesBackTo(i, p) \in 1 .. n - 1
      BY <2>2, <3>6, <3>7
    <3> QED
      BY <3>2, <3>4, <3>7, <3>8
  <2> QED
    BY <2>3, <2>4
<1>19. Len(g) = HistoryLimit \/ \A k \in 1 .. Len(t) : \E n \in 1 .. Len(g) : g[n] = t[k]
  <2> SUFFICES ASSUME Len(g) # HistoryLimit, NEW k \in 1 .. Len(t) PROVE \E n \in 1 .. Len(g) : g[n] = t[k]
    OBVIOUS
  <2>1. CASE t[k] = q
    BY <1>8, <2>1
  <2>2. CASE t[k] # q
    <3>1. k \in 1 .. Len(s) /\ t[k] = s[k]
      BY <1>1, <1>6, <2>2
    <3>2. Len(h) # HistoryLimit
      BY <1>1, <1>3, <1>7
    <3>3. PICK j \in 1 .. Len(h) : h[j] = s[k]
      BY <3>1, <3>2 DEF Recent
    <3>4. j # p
      BY <1>3, <2>2, <3>1, <3>3
    <3>5. GoesBackTo(j, p) <= Len(g)
      BY <1>1, <1>3, <1>7, <3>2, <3>4 DEF GoesBackTo
    <3>6. GoesBackTo(j, p) \in 2 .. Len(g) /\ g[GoesBackTo(j, p)] = h[j]
      BY <1>10, <3>4, <3>5
    <3>7. GoesBackTo(j, p) \in 1 .. Len(g)
      BY <3>6
    <3> QED
      BY <3>1, <3>3, <3>6, <3>7
  <2> QED
    BY <2>1, <2>2
<1>20. Recent(t, g)
  BY <1>6, <1>7, <1>8, <1>16, <1>17, <1>18, <1>19 DEF Recent
<1> QED
  BY <1>4, <1>5, <1>20

\* Of what was searched for, that after the term at n of the history is what is
\* before it there, and what is not in the history has too much after it.
Newer(s, q) == {r \in ToSet(s) : LastAt(s, r) > LastAt(s, q)}
FirstOf(h, n) == {h[m] : m \in 1 .. n}

LEMMA FrontCounts ==
  ASSUME NEW s, NEW h, Recent(s, h), NEW n \in 0 .. Len(h)
  PROVE  IsFiniteSet(FirstOf(h, n)) /\ Cardinality(FirstOf(h, n)) = n
<1>1. \A i, j \in 1 .. Len(h) : h[i] = h[j] => i = j
  <2> TAKE i, j \in 1 .. Len(h)
  <2>1. PICK p : IsAt(h, h[i], p)
    BY SomewhereOrNot
  <2> QED
    BY <2>1 DEF IsAt
<1>2. Len(h) \in Nat /\ n \in Nat
  BY DEF Recent
<1> DEFINE f == [m \in 1 .. n |-> h[m]]
<1>3. f \in Bijection(1 .. n, FirstOf(h, n))
  <2>1. \A i, j \in 1 .. n : f[i] = f[j] => i = j
    BY <1>1, <1>2
  <2>2. f \in [1 .. n -> FirstOf(h, n)] /\ \A x \in FirstOf(h, n) : \E m \in 1 .. n : f[m] = x
    BY DEF FirstOf
  <2> QED
    BY <2>1, <2>2 DEF Bijection, Injection, Surjection, IsInjective
<1>4. IsFiniteSet(1 .. n) /\ Cardinality(1 .. n) = n
  BY <1>2, FS_Interval
<1> QED
  BY <1>3, <1>4, FS_Bijection DEF ExistsBijection

LEMMA NewerIs ==
  ASSUME NEW s, NEW h, Recent(s, h)
  PROVE  /\ \A n \in 1 .. Len(h) : Newer(s, h[n]) = FirstOf(h, n - 1)
         /\ \A q \in ToSet(s) \ FirstOf(h, Len(h)) : FirstOf(h, Len(h)) \subseteq Newer(s, q) /\ Len(h) = HistoryLimit
<1>1. /\ s \in Seq(Terms) /\ h \in Seq(Terms) /\ Len(h) \in Nat
      /\ ToSet(s) = {s[k] : k \in 1 .. Len(s)}
  BY DEF Recent, ToSet
<1>2. \A k \in 1 .. Len(s) : LastAt(s, s[k]) \in 1 .. Len(s) /\ s[LastAt(s, s[k])] = s[k]
  BY <1>1, LastIs
<1>3. \A m \in 1 .. Len(h) : h[m] \in ToSet(s)
  BY <1>1 DEF Recent
<1>4. ASSUME NEW n \in 1 .. Len(h) PROVE LastAt(s, h[n]) \in Int
  <2>1. PICK k \in 1 .. Len(s) : h[n] = s[k]
    BY DEF Recent
  <2> QED
    BY <1>2, <2>1
<1>5. ASSUME NEW n \in 1 .. Len(h) PROVE Newer(s, h[n]) = FirstOf(h, n - 1)
  <2>1. ASSUME NEW r \in Newer(s, h[n]) PROVE r \in FirstOf(h, n - 1)
    <3>1. PICK k \in 1 .. Len(s) : r = s[k]
      BY <1>1, <2>1 DEF Newer
    <3>2. LastAt(s, h[n]) < LastAt(s, s[k])
      <4>1. LastAt(s, h[n]) \in Int /\ LastAt(s, s[k]) \in Int
        BY <1>2, <1>4
      <4> QED
        BY <2>1, <3>1, <4>1 DEF Newer
    <3>3. PICK m \in 1 .. n - 1 : h[m] = s[k]
      BY <3>2 DEF Recent
    <3> QED
      BY <3>1, <3>3 DEF FirstOf
  <2>2. ASSUME NEW m \in 1 .. n - 1 PROVE h[m] \in Newer(s, h[n])
    <3>1. m \in 1 .. Len(h) /\ m < n
      BY <1>1
    <3>2. LastAt(s, h[n]) < LastAt(s, h[m])
      BY <3>1 DEF Recent
    <3>3. LastAt(s, h[n]) \in Int /\ LastAt(s, h[m]) \in Int
      BY <1>4, <3>1
    <3> QED
      BY <1>3, <3>1, <3>2, <3>3 DEF Newer
  <2> QED
    BY <2>1, <2>2 DEF FirstOf
<1>6. ASSUME NEW q \in ToSet(s) \ FirstOf(h, Len(h))
      PROVE  FirstOf(h, Len(h)) \subseteq Newer(s, q) /\ Len(h) = HistoryLimit
  <2>1. PICK k \in 1 .. Len(s) : q = s[k]
    BY <1>1
  <2>2. \A n \in 1 .. Len(h) : h[n] # q
    BY DEF FirstOf
  <2>3. Len(h) = HistoryLimit
    BY <2>1, <2>2 DEF Recent
  <2>4. ASSUME NEW n \in 1 .. Len(h) PROVE h[n] \in Newer(s, q)
    <3>1. PICK j \in 1 .. Len(s) : h[n] = s[j]
      BY DEF Recent
    <3>2. LastAt(s, s[j]) \in Int /\ LastAt(s, s[k]) \in Int /\ LastAt(s, s[j]) # LastAt(s, s[k])
      BY <1>2, <2>1, <2>2, <3>1
    <3>3. ~(LastAt(s, h[n]) < LastAt(s, s[k]))
      <4>1. \A m \in 1 .. n - 1 : m \in 1 .. Len(h)
        BY <1>1
      <4> QED
        BY <2>1, <2>2, <4>1 DEF Recent
    <3> QED
      BY <1>3, <2>1, <3>1, <3>2, <3>3 DEF Newer
  <2> QED
    BY <2>3, <2>4 DEF FirstOf
<1> QED
  BY <1>5, <1>6

LEMMA RecentIsRecent == Recent(searches, history) => HistoryIsRecent
<1> SUFFICES ASSUME Recent(searches, history) PROVE HistoryIsRecent
  OBVIOUS
<1>1. PICK s : s = searches
  OBVIOUS
<1>2. PICK h : h = history
  OBVIOUS
<1> DEFINE kept == {q \in ToSet(s) : Cardinality(Newer(s, q)) < HistoryLimit}
<1>3. /\ Recent(s, h) /\ s \in Seq(Terms) /\ h \in Seq(Terms) /\ Len(h) \in Nat /\ Len(h) <= HistoryLimit
      /\ HistoryLimit \in Nat
  BY <1>1, <1>2, HistoryLimitAssumption DEF Recent
<1>4. \A n \in 0 .. Len(h) : IsFiniteSet(FirstOf(h, n)) /\ Cardinality(FirstOf(h, n)) = n
  BY <1>3, FrontCounts
<1>5. ASSUME NEW n \in 1 .. Len(h) PROVE Cardinality(Newer(s, h[n])) = n - 1 /\ h[n] \in kept
  <2>1. n - 1 \in 0 .. Len(h)
    BY <1>3
  <2>2. Cardinality(Newer(s, h[n])) = n - 1
    BY <1>3, <1>4, <2>1, NewerIs
  <2>3. h[n] \in ToSet(s)
    <3>1. PICK k \in 1 .. Len(s) : h[n] = s[k]
      BY <1>3 DEF Recent
    <3>2. k \in DOMAIN s
      BY <1>3
    <3> QED
      BY <3>1, <3>2 DEF ToSet
  <2> QED
    BY <1>3, <2>2, <2>3
<1>6. ASSUME NEW q \in ToSet(s) \ FirstOf(h, Len(h)) PROVE q \notin kept
  <2>1. FirstOf(h, Len(h)) \subseteq Newer(s, q) /\ Len(h) = HistoryLimit
    BY <1>3, NewerIs
  <2>2. IsFiniteSet(Newer(s, q))
    <3>1. IsFiniteSet(ToSet(s))
      <4>1. IsFiniteSet(1 .. Len(s))
        BY <1>3, FS_Interval
      <4>2. ToSet(s) = {s[k] : k \in 1 .. Len(s)}
        BY <1>3 DEF ToSet
      <4>3. [k \in 1 .. Len(s) |-> s[k]] \in Surjection(1 .. Len(s), ToSet(s))
        BY <4>2 DEF Surjection
      <4> QED
        BY <4>1, <4>3, FS_Surjection
    <3>2. Newer(s, q) \subseteq ToSet(s)
      BY DEF Newer
    <3> QED
      BY <3>1, <3>2, FS_Subset
  <2>3. Cardinality(FirstOf(h, Len(h))) <= Cardinality(Newer(s, q))
    BY <2>1, <2>2, FS_Subset
  <2>4. Cardinality(FirstOf(h, Len(h))) = Len(h) /\ Cardinality(Newer(s, q)) \in Nat
    BY <1>3, <1>4, <2>2, FS_CardinalityType
  <2> QED
    BY <1>3, <2>1, <2>3, <2>4
<1>7. kept = FirstOf(h, Len(h))
  BY <1>5, <1>6 DEF FirstOf
<1>8. Len(h) = Cardinality(kept)
  BY <1>3, <1>4, <1>7
<1>9. ASSUME NEW q \in kept PROVE h[Cardinality(Newer(s, q)) + 1] = q
  <2>1. PICK n \in 1 .. Len(h) : q = h[n]
    BY <1>7 DEF FirstOf
  <2>2. Cardinality(Newer(s, q)) + 1 = n
    BY <1>3, <1>5, <2>1
  <2> QED
    BY <2>1, <2>2
<1> HIDE DEF kept
<1> QED
  BY <1>1, <1>2, <1>8, <1>9 DEF HistoryIsRecent, Newer, kept

LEMMA RecentNext == Recent(searches, history) /\ [SearchNext]_searchVars => Recent(searches', history')
<1> SUFFICES ASSUME Recent(searches, history), [SearchNext]_searchVars PROVE Recent(searches', history')
  OBVIOUS
<1>1. CASE \E q \in Terms : TrackSearch(q)
  <2>1. PICK q \in Terms : searches' = Append(searches, q) /\ history' = Cut(Push(history, q))
    BY <1>1 DEF TrackSearch, Cut
  <2> QED
    BY <2>1, RecentThen
<1>2. CASE ClearHistory
  <2>1. searches' = <<>> /\ history' = <<>>
    BY <1>2 DEF ClearHistory
  <2>2. Recent(<<>>, <<>>)
    BY HistoryLimitAssumption DEF Recent
  <2> QED
    BY <2>1, <2>2
<1>3. CASE IndexNext \/ UNCHANGED searchVars
  <2>1. UNCHANGED <<searches, history>>
    BY <1>3 DEF IndexNext, JobStep, ProductCreated, ProductUpdated, ProductGone, Announce, Enqueue, EnqueueFails,
       HandleIndexProduct, ReindexDel, ReindexFind, ReindexAdd, JobFails, searchVars
  <2> QED
    BY <2>1
<1> QED
  BY <1>1, <1>2, <1>3 DEF SearchNext, HistoryNext

-----------------------------------------------------------------------------
(* The tree.  What is above a category is a least closed set, so that a       *)
(* category moves below one that it is not above without making a cycle, and  *)
(* one that is new is above nothing.                                          *)

Up(L, par, c) ==
  {d \in CategoryIds : \A S \in SUBSET CategoryIds :
     c \in S /\ (\A x \in S : par[x] \in L => par[x] \in S) => d \in S}

LEMMA AboveIsUp == \A c : Above(c) = Up(live, parent, c) /\ Above(c)' = Up(live', parent', c)
BY DEF Above, Closed, Up

LEMMA UpIs ==
  ASSUME NEW L \in SUBSET CategoryIds, NEW par, NEW c \in CategoryIds
  PROVE  /\ c \in Up(L, par, c) /\ Up(L, par, c) \subseteq CategoryIds
         /\ \A x \in Up(L, par, c) : par[x] \in L => par[x] \in Up(L, par, c)
BY DEF Up

LEMMA UpIsLeast ==
  ASSUME NEW L, NEW par, NEW c, NEW S \in SUBSET CategoryIds, c \in S,
         \A x \in S : par[x] \in L => par[x] \in S
  PROVE  Up(L, par, c) \subseteq S
BY DEF Up

LEMMA UpOfFewer ==
  ASSUME NEW L \in SUBSET CategoryIds, NEW M \in SUBSET L, NEW par, NEW c \in CategoryIds
  PROVE  Up(M, par, c) \subseteq Up(L, par, c)
<1>1. /\ c \in Up(L, par, c) /\ Up(L, par, c) \in SUBSET CategoryIds
      /\ \A x \in Up(L, par, c) : par[x] \in M => par[x] \in Up(L, par, c)
  BY UpIs
<1> QED
  BY <1>1, UpIsLeast

NoCycle(L, par) == \A c \in L : par[c] \in L => c \notin Up(L, par, par[c])

\* i moves below p, which it is not above.
LEMMA UpWhenMoved ==
  ASSUME NEW L \in SUBSET CategoryIds, NEW par \in [CategoryIds -> CategoryIds \union {NoCategory}],
         NEW i \in CategoryIds, NEW p \in CategoryIds, i \notin Up(L, par, p)
  PROVE  /\ i \notin Up(L, [par EXCEPT ![i] = p], p)
         /\ NoCycle(L, par) => NoCycle(L, [par EXCEPT ![i] = p])
<1> DEFINE to == [par EXCEPT ![i] = p]
<1>1. \A x \in CategoryIds : to[x] = IF x = i THEN p ELSE par[x]
  OBVIOUS
<1> HIDE DEF to
<1>2. ASSUME NEW c \in CategoryIds, i \notin Up(L, par, c) PROVE Up(L, to, c) \subseteq Up(L, par, c)
  <2>1. /\ c \in Up(L, par, c) /\ Up(L, par, c) \in SUBSET CategoryIds
        /\ \A x \in Up(L, par, c) : par[x] \in L => par[x] \in Up(L, par, c)
    BY UpIs
  <2>2. \A x \in Up(L, par, c) : to[x] = par[x]
    BY <1>1, <1>2, <2>1
  <2>3. \A x \in Up(L, par, c) : to[x] \in L => to[x] \in Up(L, par, c)
    BY <2>1, <2>2
  <2> QED
    BY <2>1, <2>3, UpIsLeast
<1>3. ASSUME NEW c \in CategoryIds PROVE Up(L, to, c) \subseteq Up(L, par, c) \union Up(L, par, p)
  <2> DEFINE S == Up(L, par, c) \union Up(L, par, p)
  <2>1. c \in S /\ p \in S /\ S \in SUBSET CategoryIds
    BY UpIs
  <2>2. \A x \in S : par[x] \in L => par[x] \in S
    BY UpIs
  <2>3. \A x \in S : to[x] \in L => to[x] \in S
    BY <1>1, <2>1, <2>2
  <2> HIDE DEF S
  <2>4. Up(L, to, c) \subseteq S
    BY <2>1, <2>3, UpIsLeast
  <2> QED
    BY <2>4 DEF S
<1>4. i \notin Up(L, to, p)
  BY <1>2
<1>5. ASSUME NoCycle(L, par), NEW c \in L, to[c] \in L PROVE c \notin Up(L, to, to[c])
  <2>1. CASE c = i
    BY <1>1, <1>4, <2>1
  <2>2. CASE c # i
    <3>1. to[c] = par[c] /\ par[c] \in CategoryIds /\ c \notin Up(L, par, par[c])
      BY <1>1, <1>5, <2>2 DEF NoCycle
    <3>2. CASE i \notin Up(L, par, par[c])
      BY <1>2, <3>1, <3>2
    <3>3. CASE i \in Up(L, par, par[c])
      <4>1. ASSUME c \in Up(L, par, p) PROVE FALSE
        <5>1. /\ Up(L, par, p) \in SUBSET CategoryIds
              /\ \A x \in Up(L, par, p) : par[x] \in L => par[x] \in Up(L, par, p)
          BY UpIs
        <5>2. par[c] \in Up(L, par, p)
          BY <1>5, <3>1, <4>1, <5>1
        <5>3. Up(L, par, par[c]) \subseteq Up(L, par, p)
          BY <5>1, <5>2, UpIsLeast
        <5> QED
          BY <3>3, <5>3
      <4>2. c \notin Up(L, par, par[c]) \union Up(L, par, p)
        BY <3>1, <4>1
      <4> QED
        BY <1>3, <3>1, <4>2
    <3> QED
      BY <3>2, <3>3
  <2> QED
    BY <2>1, <2>2
<1> QED
  BY <1>4, <1>5 DEF to, NoCycle

\* i is new: nothing is below it.
LEMMA UpWhenBorn ==
  ASSUME NEW L \in SUBSET CategoryIds, NEW par \in [CategoryIds -> CategoryIds \union {NoCategory}],
         NEW i \in CategoryIds \ L, NEW p \in CategoryIds \union {NoCategory}, p # i,
         \A x \in CategoryIds : par[x] # i, NoCycle(L, par)
  PROVE  NoCycle(L \union {i}, [par EXCEPT ![i] = p])
<1> DEFINE to == [par EXCEPT ![i] = p]
           M == L \union {i}
<1>1. \A x \in CategoryIds : to[x] = IF x = i THEN p ELSE par[x]
  OBVIOUS
<1> HIDE DEF to
<1>2. ASSUME NEW c \in CategoryIds \ {i} PROVE Up(M, to, c) \subseteq Up(L, par, c) \ {i}
  <2> DEFINE S == Up(L, par, c) \ {i}
  <2>1. c \in S /\ S \in SUBSET CategoryIds
    BY UpIs
  <2>2. \A x \in S : to[x] \in M => to[x] \in S
    <3>1. \A x \in S : par[x] \in L => par[x] \in Up(L, par, c)
      BY UpIs
    <3>2. \A x \in S : to[x] = par[x] /\ par[x] # i
      BY <1>1, <2>1
    <3> QED
      BY <3>1, <3>2
  <2> HIDE DEF S
  <2>3. Up(M, to, c) \subseteq S
    BY <2>1, <2>2, UpIsLeast
  <2> QED
    BY <2>3 DEF S
<1>3. ASSUME NEW c \in M, to[c] \in M PROVE c \notin Up(M, to, to[c])
  <2>1. to[c] \in CategoryIds \ {i}
    BY <1>1, <1>3
  <2>2. c # i => par[c] = to[c] /\ c \in L /\ par[c] \in L
    BY <1>1, <1>3, <2>1
  <2>3. c # i => c \notin Up(L, par, to[c])
    BY <2>2 DEF NoCycle
  <2> QED
    BY <1>2, <2>1, <2>3
<1> QED
  BY <1>3 DEF to, NoCycle

LEMMA NoCycleOfFewer ==
  ASSUME NEW L \in SUBSET CategoryIds, NEW M \in SUBSET L, NEW par, NoCycle(L, par)
  PROVE  NoCycle(M, par)
<1> SUFFICES ASSUME NEW c \in M, par[c] \in M PROVE c \notin Up(M, par, par[c])
  BY DEF NoCycle
<1>1. c \notin Up(L, par, par[c]) /\ par[c] \in CategoryIds
  BY DEF NoCycle
<1> QED
  BY <1>1, UpOfFewer

-----------------------------------------------------------------------------
(* Paths, and what a renamed or moved category does to those below it.        *)

LEMMA PrefixIs ==
  ASSUME NEW p \in Seq(Slugs), NEW s \in Slugs
  PROVE  /\ Prefix(p, s) \in Seq(Slugs) /\ Len(Prefix(p, s)) = Len(p) + 1
         /\ \A n \in 1 .. Len(p) : Prefix(p, s)[n] = p[n]
         /\ Prefix(p, s)[Len(p) + 1] = s
BY DEF Prefix

LEMMA SameSequence ==
  ASSUME NEW v \in Seq(Slugs), NEW w \in Seq(Slugs), Len(v) = Len(w), \A n \in 1 .. Len(v) : v[n] = w[n]
  PROVE  v = w
OBVIOUS

LEMMA StartsWith ==
  ASSUME NEW o \in Seq(Slugs), NEW p \in Seq(Slugs)
  PROVE  IsPrefix(o, p) <=> Len(o) <= Len(p) /\ \A n \in 1 .. Len(o) : o[n] = p[n]
<1>1. Len(o) \in Nat /\ Len(p) \in Nat
  OBVIOUS
<1>2. CASE Len(o) <= Len(p)
  <2>1. /\ SubSeq(o, 1, Len(o)) \in Seq(Slugs) /\ Len(SubSeq(o, 1, Len(o))) = Len(o)
        /\ \A n \in 1 .. Len(o) : SubSeq(o, 1, Len(o))[n] = o[n]
    BY <1>1
  <2>2. /\ SubSeq(p, 1, Len(o)) \in Seq(Slugs) /\ Len(SubSeq(p, 1, Len(o))) = Len(o)
        /\ \A n \in 1 .. Len(o) : SubSeq(p, 1, Len(o))[n] = p[n]
    BY <1>1, <1>2
  <2>3. IsPrefix(o, p) <=> SubSeq(o, 1, Len(o)) = SubSeq(p, 1, Len(o))
    BY <1>2 DEF IsPrefix
  <2>4. PICK v, w : v = SubSeq(o, 1, Len(o)) /\ w = SubSeq(p, 1, Len(o))
    OBVIOUS
  <2>5. v = w <=> \A n \in 1 .. Len(o) : o[n] = p[n]
    <3>1. v \in Seq(Slugs) /\ w \in Seq(Slugs) /\ Len(v) = Len(o) /\ Len(w) = Len(o)
      BY <2>1, <2>2, <2>4
    <3>2. \A n \in 1 .. Len(o) : v[n] = o[n] /\ w[n] = p[n]
      BY <2>1, <2>2, <2>4
    <3> QED
      BY <3>1, <3>2, SameSequence
  <2> QED
    BY <1>2, <2>3, <2>4, <2>5
<1>3. CASE ~(Len(o) <= Len(p))
  BY <1>3 DEF IsPrefix
<1> QED
  BY <1>2, <1>3

LEMMA RebasedIs ==
  ASSUME NEW p \in Seq(Slugs), NEW o \in Seq(Slugs), NEW n \in Seq(Slugs)
  PROVE  /\ Rebased(p, o, n) \in Seq(Slugs)
         /\ Len(o) <= Len(p) =>
              /\ Len(Rebased(p, o, n)) = Len(n) + (Len(p) - Len(o))
              /\ \A k \in 1 .. Len(Rebased(p, o, n)) :
                   Rebased(p, o, n)[k] = IF k <= Len(n) THEN n[k] ELSE p[k - Len(n) + Len(o)]
<1>1. Len(p) \in Nat /\ Len(o) \in Nat /\ Len(n) \in Nat
  OBVIOUS
<1>2. PICK t : t = SubSeq(p, Len(o) + 1, Len(p))
  OBVIOUS
<1>3. t \in Seq(Slugs)
  BY <1>1, <1>2
<1>4. Len(o) <= Len(p) =>
        /\ Len(t) = Len(p) - Len(o)
        /\ \A k \in 1 .. Len(t) : t[k] = p[k + Len(o)]
  BY <1>1, <1>2
<1>5. /\ n \o t \in Seq(Slugs) /\ Len(n \o t) = Len(n) + Len(t)
      /\ \A k \in 1 .. Len(n) + Len(t) : (n \o t)[k] = IF k <= Len(n) THEN n[k] ELSE t[k - Len(n)]
  BY <1>3
<1>6. Rebased(p, o, n) = n \o t
  BY <1>2 DEF Rebased
<1>7. ASSUME Len(o) <= Len(p), NEW k \in 1 .. Len(n) + Len(t)
      PROVE  (n \o t)[k] = IF k <= Len(n) THEN n[k] ELSE p[k - Len(n) + Len(o)]
  <2>1. CASE k <= Len(n)
    BY <1>5, <2>1
  <2>2. CASE ~(k <= Len(n))
    <3>1. k - Len(n) \in 1 .. Len(t) /\ (n \o t)[k] = t[k - Len(n)]
      BY <1>1, <1>3, <1>5, <2>2
    <3> QED
      BY <1>4, <1>7, <2>2, <3>1
  <2> QED
    BY <2>1, <2>2
<1>8. Len(o) <= Len(p) => Len(n \o t) = Len(n) + (Len(p) - Len(o))
  BY <1>4, <1>5
<1> QED
  BY <1>5, <1>6, <1>7, <1>8

\* A path below one that is rebased is rebased with it; nothing else is but what
\* lies at the prefix itself.
LEMMA RebasedBelow ==
  ASSUME NEW p \in Seq(Slugs), NEW s \in Slugs, NEW o \in Seq(Slugs), NEW n \in Seq(Slugs)
  PROVE  /\ IsPrefix(o, p) => /\ IsPrefix(o, Prefix(p, s))
                              /\ Rebased(Prefix(p, s), o, n) = Prefix(Rebased(p, o, n), s)
         /\ IsPrefix(o, Prefix(p, s)) /\ ~IsPrefix(o, p) => o = Prefix(p, s)
         /\ Rebased(o, o, n) = n /\ IsPrefix(o, o)
         /\ IsPrefix(o, p) => Rebased(p, o, o) = p
<1>1. /\ Prefix(p, s) \in Seq(Slugs) /\ Len(Prefix(p, s)) = Len(p) + 1
      /\ \A k \in 1 .. Len(p) : Prefix(p, s)[k] = p[k]
      /\ Prefix(p, s)[Len(p) + 1] = s
  BY PrefixIs
<1>2. Len(p) \in Nat /\ Len(o) \in Nat /\ Len(n) \in Nat
  OBVIOUS
<1>3. PICK q \in Seq(Slugs) : q = Prefix(p, s)
  BY <1>1
<1>4. /\ IsPrefix(o, p) <=> Len(o) <= Len(p) /\ \A k \in 1 .. Len(o) : o[k] = p[k]
      /\ IsPrefix(o, q) <=> Len(o) <= Len(q) /\ \A k \in 1 .. Len(o) : o[k] = q[k]
      /\ IsPrefix(o, o)
  BY StartsWith, <1>2
<1>5. ASSUME IsPrefix(o, p) PROVE IsPrefix(o, q) /\ Rebased(q, o, n) = Prefix(Rebased(p, o, n), s)
  <2>1. IsPrefix(o, q) /\ Len(o) <= Len(p) /\ Len(o) <= Len(q)
    BY <1>1, <1>2, <1>3, <1>4, <1>5
  <2>2. PICK v \in Seq(Slugs) :
          /\ v = Rebased(p, o, n) /\ Len(v) = Len(n) + (Len(p) - Len(o))
          /\ \A k \in 1 .. Len(v) : v[k] = IF k <= Len(n) THEN n[k] ELSE p[k - Len(n) + Len(o)]
    BY <2>1, RebasedIs
  <2>3. PICK w \in Seq(Slugs) :
          /\ w = Rebased(q, o, n) /\ Len(w) = Len(n) + (Len(q) - Len(o))
          /\ \A k \in 1 .. Len(w) : w[k] = IF k <= Len(n) THEN n[k] ELSE q[k - Len(n) + Len(o)]
    BY <2>1, RebasedIs
  <2>4. PICK x \in Seq(Slugs) :
          /\ x = Prefix(v, s) /\ Len(x) = Len(v) + 1
          /\ \A k \in 1 .. Len(v) : x[k] = v[k]
          /\ x[Len(v) + 1] = s
    BY PrefixIs
  <2>5. Len(w) = Len(x) /\ Len(w) \in Nat
    BY <1>1, <1>2, <1>3, <2>2, <2>3, <2>4
  <2>6. \A k \in 1 .. Len(w) : w[k] = x[k]
    <3> TAKE k \in 1 .. Len(w)
    <3>1. CASE k <= Len(v)
      <4>1. x[k] = v[k] /\ k \in 1 .. Len(v)
        BY <2>4, <3>1
      <4>2. CASE k <= Len(n)
        BY <2>2, <2>3, <4>1, <4>2
      <4>3. CASE ~(k <= Len(n))
        <5>1. PICK j \in 1 .. Len(p) : j = k - Len(n) + Len(o)
          <6>1. k \in Nat /\ k > Len(n) /\ k <= Len(n) + (Len(p) - Len(o))
            BY <1>2, <2>2, <4>1, <4>3
          <6>2. k - Len(n) + Len(o) \in 1 .. Len(p)
            BY <1>2, <6>1
          <6> QED
            BY <6>2
        <5>2. v[k] = p[j] /\ w[k] = q[j]
          BY <2>2, <2>3, <4>1, <4>3, <5>1
        <5> QED
          BY <1>1, <1>3, <4>1, <5>1, <5>2
      <4> QED
        BY <4>2, <4>3
    <3>2. CASE k = Len(v) + 1
      BY <1>1, <1>2, <1>3, <2>1, <2>2, <2>3, <2>4, <3>2
    <3> QED
      BY <1>2, <2>2, <2>4, <2>5, <3>1, <3>2
  <2>7. w = x
    BY <2>5, <2>6, SameSequence
  <2> QED
    BY <2>1, <2>2, <2>3, <2>4, <2>7
<1>6. ASSUME IsPrefix(o, q), ~IsPrefix(o, p) PROVE o = q
  <2>1. Len(o) = Len(q) /\ \A k \in 1 .. Len(o) : o[k] = q[k]
    BY <1>1, <1>2, <1>3, <1>4, <1>6
  <2> QED
    BY <2>1
<1>7. Rebased(o, o, n) = n
  <2>1. PICK v, r \in Seq(Slugs) : v = Rebased(o, o, n) /\ r = o
    BY RebasedIs
  <2>2. /\ v \in Seq(Slugs) /\ Len(v) = Len(n) + (Len(r) - Len(o))
        /\ \A k \in 1 .. Len(v) : v[k] = IF k <= Len(n) THEN n[k] ELSE r[k - Len(n) + Len(o)]
    <3>1. v = Rebased(r, o, n) /\ Len(o) <= Len(r)
      BY <1>2, <2>1
    <3> QED
      BY <2>1, <3>1, RebasedIs
  <2>3. v = n
    <3>1. Len(v) = Len(n) /\ \A k \in 1 .. Len(v) : v[k] = n[k]
      BY <1>2, <2>1, <2>2
    <3> QED
      BY <2>2, <3>1, SameSequence
  <2> QED
    BY <2>1, <2>3
<1>8. ASSUME IsPrefix(o, p) PROVE Rebased(p, o, o) = p
  <2>1. PICK v \in Seq(Slugs) :
          /\ v = Rebased(p, o, o) /\ Len(v) = Len(o) + (Len(p) - Len(o))
          /\ \A k \in 1 .. Len(v) : v[k] = IF k <= Len(o) THEN o[k] ELSE p[k - Len(o) + Len(o)]
    BY <1>4, <1>8, RebasedIs
  <2>2. Len(v) = Len(p)
    BY <1>2, <2>1
  <2>3. ASSUME NEW k \in 1 .. Len(v) PROVE v[k] = p[k]
    <3>1. CASE k <= Len(o)
      BY <1>4, <1>8, <2>1, <3>1
    <3>2. CASE ~(k <= Len(o))
      <4>1. k - Len(o) + Len(o) = k
        BY <1>2
      <4> QED
        BY <2>1, <3>2, <4>1
    <3> QED
      BY <3>1, <3>2
  <2>4. v = p
    BY <2>2, <2>3, SameSequence
  <2> QED
    BY <2>1, <2>4
<1> QED
  BY <1>3, <1>4, <1>5, <1>6, <1>7, <1>8

\* Every path in f is that of the parent and the parent's slug.
Agree(L, par, sl, f) ==
  \A c \in L : IF par[c] = NoCategory THEN f[c] = <<>>
               ELSE par[c] \in L /\ f[c] = Prefix(f[par[c]], sl[par[c]])

ATree(L, par, sl, pa) ==
  /\ L \in SUBSET CategoryIds
  /\ par \in [CategoryIds -> CategoryIds \union {NoCategory}] /\ pa \in [CategoryIds -> Seq(Slugs)]
  /\ DOMAIN sl = CategoryIds /\ \A c \in L : sl[c] \in Slugs
  /\ \A c, d \in L : sl[c] = sl[d] => c = d
  /\ Agree(L, par, sl, pa)

PathAt(p, sl, pa) == IF p = NoCategory THEN <<>> ELSE Prefix(pa[p], sl[p])

LEMMA PrefixSplits ==
  ASSUME NEW p \in Seq(Slugs), NEW q \in Seq(Slugs), NEW s \in Slugs, NEW t \in Slugs, Prefix(p, s) = Prefix(q, t)
  PROVE  s = t
<1>1. /\ Len(Prefix(p, s)) = Len(p) + 1 /\ Prefix(p, s)[Len(p) + 1] = s
      /\ Len(Prefix(q, t)) = Len(q) + 1 /\ Prefix(q, t)[Len(q) + 1] = t
  BY PrefixIs
<1>2. Len(p) \in Nat /\ Len(q) \in Nat
  OBVIOUS
<1>3. Len(p) = Len(q)
  BY <1>1, <1>2
<1> QED
  BY <1>1, <1>3

\* A path that starts with a category and its path belongs to one below it.
LEMMA BelowByPath ==
  ASSUME NEW L, NEW par, NEW sl, NEW pa, ATree(L, par, sl, pa),
         NEW i \in L, NEW p \in L, i \notin Up(L, par, p)
  PROVE  ~IsPrefix(Prefix(pa[i], sl[i]), pa[p])
<1> DEFINE A == {x \in Up(L, par, p) \cap L : IsPrefix(Prefix(pa[i], sl[i]), pa[x])}
           D == {Len(pa[x]) : x \in A}
<1>1. L \in SUBSET CategoryIds /\ \A x \in L : pa[x] \in Seq(Slugs) /\ sl[x] \in Slugs
  BY DEF ATree
<1>2. PICK o \in Seq(Slugs) : o = Prefix(pa[i], sl[i]) /\ Len(o) # 0
  <2>1. Len(pa[i]) \in Nat
    BY <1>1
  <2> QED
    BY <1>1, <2>1, PrefixIs
<1>3. D \in SUBSET Nat
  BY <1>1
<1>4. ASSUME D # {} PROVE FALSE
  <2>1. PICK n \in D : \A m \in D : n <= m
    <3> HIDE DEF D
    <3> QED
      BY <1>3, <1>4, LeastNumber
  <2>2. PICK x \in A : n = Len(pa[x])
    BY <2>1
  <2>3. x \in Up(L, par, p) /\ x \in L /\ IsPrefix(o, pa[x])
    BY <1>2, <2>2
  <2>4. pa[x] # <<>>
    <3>1. Len(o) <= Len(pa[x]) /\ Len(o) \in Nat
      BY <1>1, <2>3, StartsWith
    <3> QED
      BY <1>2, <3>1
  <2>5. PICK y \in L : y = par[x] /\ pa[x] = Prefix(pa[y], sl[y])
    BY <2>3, <2>4 DEF ATree, Agree
  <2>6. y \in Up(L, par, p)
    BY <1>1, <2>3, <2>5, UpIs
  <2>7. IsPrefix(o, pa[y])
    <3>1. SUFFICES ASSUME ~IsPrefix(o, pa[y]) PROVE FALSE
      OBVIOUS
    <3>2. o = Prefix(pa[y], sl[y])
      BY <1>1, <2>3, <2>5, <3>1, RebasedBelow
    <3>3. sl[i] = sl[y]
      BY <1>1, <1>2, <3>2, PrefixSplits
    <3>4. i = y
      BY <3>3 DEF ATree
    <3> QED
      BY <2>6, <3>4
  <2>8. Len(pa[y]) \in D
    BY <1>2, <2>6, <2>7
  <2>9. n = Len(pa[y]) + 1 /\ Len(pa[y]) \in Nat
    <3>1. pa[y] \in Seq(Slugs) /\ sl[y] \in Slugs
      BY <1>1
    <3>2. Len(pa[y]) \in Nat
      BY <3>1
    <3>3. Len(Prefix(pa[y], sl[y])) = Len(pa[y]) + 1
      BY <3>1, PrefixIs
    <3> QED
      BY <2>2, <2>5, <3>2, <3>3
  <2> HIDE DEF D
  <2> QED
    BY <2>1, <2>8, <2>9
<1>5. IsPrefix(Prefix(pa[i], sl[i]), pa[p]) => Len(pa[p]) \in D
  <2>1. p \in Up(L, par, p)
    BY <1>1, UpIs
  <2> QED
    BY <2>1
<1> HIDE DEF D
<1> QED
  BY <1>4, <1>5

\* The paths f once those in L that start with o start with n instead.
Rewritten(L, f, o, n) ==
  [c \in CategoryIds |-> IF c \in L /\ IsPrefix(o, f[c]) THEN Rebased(f[c], o, n) ELSE f[c]]

\* i is written with the slug s and the parent p; those below i are rewritten.
AMove(L, par, sl, pa, i, p, s, par2, sl2, pa2, o, n) ==
  /\ ATree(L, par, sl, pa)
  /\ i \in L /\ p \in L \union {NoCategory} /\ (p \in L => i \notin Up(L, par, p))
  /\ s \in Slugs /\ \A c \in L \ {i} : sl[c] # s
  /\ par2 = [par EXCEPT ![i] = p] /\ sl2 = [sl EXCEPT ![i] = s] /\ pa2 = [pa EXCEPT ![i] = PathAt(p, sl, pa)]
  /\ o = Prefix(pa[i], sl[i]) /\ n = Prefix(PathAt(p, sl, pa), s)

LEMMA PathsMove ==
  ASSUME NEW L, NEW par, NEW sl, NEW pa, NEW i, NEW p, NEW s, NEW par2, NEW sl2, NEW pa2, NEW o, NEW n,
         AMove(L, par, sl, pa, i, p, s, par2, sl2, pa2, o, n)
  PROVE  Agree(L, par2, sl2, Rewritten(L, pa2, o, n)) /\ (o = n => Rewritten(L, pa2, o, n) = pa2)
<1> USE DEF AMove
<1> PICK np : np = PathAt(p, sl, pa)
  OBVIOUS
<1> PICK f : f = Rewritten(L, pa2, o, n)
  OBVIOUS
<1>0. f = [c \in CategoryIds |-> IF c \in L /\ IsPrefix(o, pa2[c]) THEN Rebased(pa2[c], o, n) ELSE pa2[c]]
  BY DEF Rewritten
<1>1. /\ L \in SUBSET CategoryIds /\ DOMAIN sl = CategoryIds /\ pa \in [CategoryIds -> Seq(Slugs)]
      /\ par \in [CategoryIds -> CategoryIds \union {NoCategory}]
      /\ \A x \in L : pa[x] \in Seq(Slugs) /\ sl[x] \in Slugs
  BY DEF ATree
<1>2. o \in Seq(Slugs) /\ Len(o) # 0 /\ Len(o) \in Nat
  <2>1. Len(pa[i]) \in Nat
    BY <1>1
  <2> QED
    BY <1>1, <2>1, PrefixIs
<1>3. np \in Seq(Slugs) /\ n \in Seq(Slugs)
  <2>1. np \in Seq(Slugs)
    BY <1>1, PrefixIs DEF PathAt
  <2> QED
    BY <2>1, PrefixIs
<1>4. p \in L => p # i /\ ~IsPrefix(o, pa[p])
  BY <1>1, UpIs, BelowByPath
<1>5. ASSUME NEW d \in L \ {i} PROVE o # Prefix(pa[d], sl[d])
  <2>1. SUFFICES ASSUME o = Prefix(pa[d], sl[d]) PROVE FALSE
    OBVIOUS
  <2>2. sl[i] = sl[d]
    BY <1>1, <2>1, PrefixSplits
  <2> QED
    BY <2>2 DEF ATree
<1>6. ~IsPrefix(o, <<>>)
  <2>1. <<>> \in Seq(Slugs) /\ Len(<<>>) = 0
    OBVIOUS
  <2>2. IsPrefix(o, <<>>) => Len(o) <= Len(<<>>)
    BY <1>2, <2>1, StartsWith
  <2> QED
    BY <1>2, <2>1, <2>2
<1>7. ~IsPrefix(o, np)
  <2>1. CASE p = NoCategory
    BY <1>6, <2>1 DEF PathAt
  <2>2. CASE p \in L /\ p # NoCategory
    <3>1. np = Prefix(pa[p], sl[p])
      BY <2>2 DEF PathAt
    <3> QED
      BY <1>1, <1>2, <1>3, <1>4, <1>5, <2>2, <3>1, RebasedBelow
  <2> QED
    BY <2>1, <2>2
<1>8. /\ \A c \in CategoryIds : pa2[c] = (IF c = i THEN np ELSE pa[c]) /\ par2[c] = IF c = i THEN p ELSE par[c]
      /\ \A c \in L : sl2[c] = IF c = i THEN s ELSE sl[c]
  BY <1>1
<1>9. /\ f[i] = np
      /\ \A c \in L \ {i} : f[c] = IF IsPrefix(o, pa[c]) THEN Rebased(pa[c], o, n) ELSE pa[c]
  BY <1>0, <1>1, <1>7, <1>8
<1>10. ASSUME NEW c \in L
       PROVE  IF par2[c] = NoCategory THEN f[c] = <<>>
              ELSE par2[c] \in L /\ f[c] = Prefix(f[par2[c]], sl2[par2[c]])
  <2>1. CASE c = i
    <3>1. par2[c] = p /\ f[c] = np
      BY <1>1, <1>8, <1>9, <2>1
    <3>2. CASE p = NoCategory
      BY <3>1, <3>2 DEF PathAt
    <3>3. CASE p # NoCategory
      <4>1. f[p] = pa[p] /\ sl2[p] = sl[p] /\ p \in L
        BY <1>4, <1>8, <1>9, <3>3
      <4> QED
        BY <3>1, <3>3, <4>1 DEF PathAt
    <3> QED
      BY <3>2, <3>3
  <2>2. CASE c # i
    <3>1. par2[c] = par[c] /\ f[c] = IF IsPrefix(o, pa[c]) THEN Rebased(pa[c], o, n) ELSE pa[c]
      BY <1>1, <1>8, <1>9, <2>2
    <3>2. CASE par[c] = NoCategory
      <4>1. pa[c] = <<>>
        BY <3>2 DEF ATree, Agree
      <4> QED
        BY <1>6, <3>1, <3>2, <4>1
    <3>3. CASE par[c] # NoCategory
      <4>1. PICK d \in L : d = par[c] /\ pa[c] = Prefix(pa[d], sl[d])
        BY <3>3 DEF ATree, Agree
      <4>2. CASE d = i
        <5>1. pa[c] = o
          BY <4>1, <4>2
        <5>2. f[c] = n
          BY <1>2, <1>3, <1>1, <3>1, <5>1, RebasedBelow
        <5>3. f[d] = np /\ sl2[d] = s
          BY <1>8, <1>9, <4>2
        <5> QED
          BY <3>1, <3>3, <4>1, <5>2, <5>3
      <4>3. CASE d # i
        <5>1. sl2[d] = sl[d] /\ f[d] = IF IsPrefix(o, pa[d]) THEN Rebased(pa[d], o, n) ELSE pa[d]
          BY <1>8, <1>9, <4>3
        <5>2. IsPrefix(o, pa[d]) => IsPrefix(o, pa[c]) /\ Rebased(pa[c], o, n) = Prefix(Rebased(pa[d], o, n), sl[d])
          BY <1>1, <1>2, <1>3, <4>1, RebasedBelow
        <5>3. ~IsPrefix(o, pa[d]) => ~IsPrefix(o, pa[c])
          BY <1>1, <1>2, <1>3, <1>5, <4>1, <4>3, RebasedBelow
        <5> QED
          BY <3>1, <3>3, <4>1, <5>1, <5>2, <5>3
      <4> QED
        BY <4>2, <4>3
    <3> QED
      BY <3>2, <3>3
  <2> QED
    BY <2>1, <2>2
<1>11. ASSUME o = n PROVE f = pa2
  <2>1. pa2 \in [CategoryIds -> Seq(Slugs)]
    BY <1>1, <1>3
  <2>2. ASSUME NEW c \in CategoryIds PROVE f[c] = pa2[c]
    <3>1. pa2[c] \in Seq(Slugs)
      BY <2>1
    <3>2. IsPrefix(o, pa2[c]) => Rebased(pa2[c], o, o) = pa2[c]
      <4>1. sl[i] \in Slugs
        BY <1>1
      <4> QED
        BY <1>2, <3>1, <4>1, RebasedBelow
    <3> QED
      BY <1>0, <1>11, <3>2
  <2> QED
    BY <1>0, <2>1, <2>2
<1> QED
  BY <1>10, <1>11 DEF Agree

\* A category that is nobody's parent comes or goes.
LEMMA PathsGrow ==
  ASSUME NEW L, NEW par, NEW sl, NEW pa, ATree(L, par, sl, pa),
         NEW i \in CategoryIds \ L, \A c \in L : par[c] # i, NEW p \in L \union {NoCategory}, NEW s
  PROVE  Agree(L \union {i}, [par EXCEPT ![i] = p], [sl EXCEPT ![i] = s], [pa EXCEPT ![i] = PathAt(p, sl, pa)])
<1> DEFINE par2 == [par EXCEPT ![i] = p]
           sl2 == [sl EXCEPT ![i] = s]
           pa2 == [pa EXCEPT ![i] = PathAt(p, sl, pa)]
<1>1. L \in SUBSET CategoryIds /\ i # NoCategory
  BY NamesAssumption DEF ATree
<1>2. /\ \A c \in L : par2[c] = par[c] /\ sl2[c] = sl[c] /\ pa2[c] = pa[c]
      /\ par2[i] = p /\ pa2[i] = PathAt(p, sl, pa)
  BY DEF ATree
<1> HIDE DEF par2, sl2, pa2
<1>3. \A c \in L : IF par2[c] = NoCategory THEN pa2[c] = <<>>
                   ELSE par2[c] \in L /\ pa2[c] = Prefix(pa2[par2[c]], sl2[par2[c]])
  BY <1>2 DEF ATree, Agree
<1>4. IF p = NoCategory THEN pa2[i] = <<>> ELSE p \in L /\ pa2[i] = Prefix(pa2[p], sl2[p])
  BY <1>2 DEF PathAt
<1>5. Agree(L \union {i}, par2, sl2, pa2)
  BY <1>2, <1>3, <1>4 DEF Agree
<1> QED
  BY <1>5 DEF par2, sl2, pa2

LEMMA PathsShrink ==
  ASSUME NEW L, NEW par, NEW sl, NEW pa, Agree(L, par, sl, pa), NEW i, \A c \in L : par[c] # i
  PROVE  Agree(L \ {i}, par, sl, pa)
BY DEF Agree

-----------------------------------------------------------------------------
(* What the editors of categories hold. *)

EditStages == {"createSlug", "parent", "insert", "updateRead", "updateSlug", "refused", "write",
               "findSubs", "reindex", "deleteRead", "children", "products", "delete", "delTree"}
SeenCategories == [slug : Slugs, path : Seq(Slugs), parent : CategoryIds \union {NoCategory}]
PathsFound == UNION {[D -> Seq(Slugs)] : D \in SUBSET CategoryIds}
EditUnderWay == [at : EditStages, ask : Edit, seen : SeenCategories \union {NoCategory},
            newPath : Seq(Slugs), subs : PathsFound]

\* An update knows the category from its first read to its last write.
HasRead(u) ==
  \/ u.at \in {"updateSlug", "refused", "write", "findSubs", "reindex"}
  \/ u.at = "parent" /\ u.ask.op = "update"
StageFits(u) ==
  /\ u.at \in {"createSlug", "insert"} => u.ask.op = "create"
  /\ u.at \in {"updateRead", "updateSlug", "refused", "write", "findSubs", "reindex"} => u.ask.op = "update"
  /\ u.at \in {"deleteRead", "children", "products", "delete"} => u.ask.op = "delete"
  /\ u.at = "parent" => u.ask.op \in {"create", "update"} /\ u.ask.parent \in CategoryIds
  /\ HasRead(u) => u.seen \in SeenCategories

CategoryTypes ==
  /\ live \subseteq CategoryIds
  /\ parent \in [CategoryIds -> CategoryIds \union {NoCategory}]
  /\ slug \in [CategoryIds -> Slugs \union {Keep}]
  /\ path \in [CategoryIds -> Seq(Slugs)]
  /\ \A c \in live : slug[c] \in Slugs
  /\ \A c, d \in live : slug[c] = slug[d] => c = d
EditorTypes ==
  /\ editor \in [Editors -> EditUnderWay \union {Waiting, Served}]
  /\ \A r \in Editors : Working(r) => StageFits(editor[r])

\* An id is given out before its category exists: until then it is nobody's parent.
Creating(r) == Working(r) /\ editor[r].at \in {"createSlug", "parent", "insert"} /\ editor[r].ask.op = "create"
NotYet == unused \union {editor[r].ask.id : r \in {q \in Editors : Creating(q)}}
KnowsParent(u) ==
  /\ u.at \in {"insert", "write"} => u.ask.parent \notin NotYet
  /\ HasRead(u) => u.seen.parent \notin NotYet
Births ==
  /\ unused \subseteq CategoryIds
  /\ live \intersect NotYet = {}
  /\ \A c \in CategoryIds : parent[c] \notin NotYet
  /\ \A r \in Editors : Creating(r) =>
       /\ editor[r].ask.id \notin unused
       /\ \A q \in Editors : Creating(q) /\ editor[q].ask.id = editor[r].ask.id => q = r
  /\ \A r \in Editors : Working(r) => KnowsParent(editor[r])

\* While nobody asks for a loop and one request at a time sets a parent, that parent is
\* not below the category it is for.
StaysAbove(u) ==
  u.ask.op = "update" /\ u.ask.parent \in CategoryIds =>
    /\ u.ask.parent # u.ask.id => u.ask.id \notin Above(u.ask.parent)
    /\ u.ask.parent = u.ask.id =>
         u.at \notin {"parent", "write"} /\ (u.at = "updateSlug" => u.seen.parent # u.ask.id)
NoLoops ==
  upset \intersect {"loop", "moves"} = {} =>
    /\ NoCycle(live, parent)
    /\ \A q, r \in Editors :
         Working(q) /\ SetsParent(editor[q].ask) /\ Working(r) /\ SetsParent(editor[r].ask) => q = r
    /\ \A r \in Editors : Working(r) => StaysAbove(editor[r])

\* The paths once the edit that is under way has rewritten those it has to.
Finished(u) ==
  [c \in CategoryIds |->
     IF u.at = "findSubs" /\ c \in Below(OldPrefix(u)) THEN Rebased(path[c], OldPrefix(u), NewPrefix(u))
     ELSE IF u.at = "reindex" /\ c \in DOMAIN u.subs THEN Rebased(u.subs[c], OldPrefix(u), NewPrefix(u))
     ELSE path[c]]
NewParent(u) == IF u.ask.parent \in CategoryIds THEN u.ask.parent ELSE parent[u.ask.id]
\* What an edit that is alone has read is still so.
Current(u) ==
  /\ u.ask.op = "update" => u.ask.parent # NoCategory
  /\ HasRead(u) /\ u.at \in {"updateSlug", "parent", "write"} =>
       /\ u.ask.id \in live
       /\ u.seen = [slug |-> slug[u.ask.id], path |-> path[u.ask.id], parent |-> parent[u.ask.id]]
  /\ u.at = "createSlug" => u.newPath = <<>>
  /\ u.at = "updateSlug" => u.newPath = KnownPath(u.ask, u.seen)
  /\ u.at = "insert" => u.ask.parent \in live \union {NoCategory} /\ u.newPath = PathAt(u.ask.parent, slug, path)
  /\ u.at = "write" => NewParent(u) \in live \union {NoCategory} /\ u.newPath = PathAt(NewParent(u), slug, path)
  /\ u.at \in {"products", "delete"} => \A c \in live : parent[c] # u.ask.id
  /\ u.at = "reindex" => DOMAIN u.subs \subseteq live
InTurn ==
  upset \subseteq {"late"} =>
    /\ \A q, r \in Editors : Working(q) /\ Working(r) => q = r
    /\ (\A r \in Editors : ~Working(r)) => Agree(live, parent, slug, path)
    /\ \A r \in Editors : Working(r) => Agree(live, parent, slug, Finished(editor[r])) /\ Current(editor[r])

TreeInv == CategoryTypes /\ EditorTypes /\ Births /\ NoLoops /\ InTurn

LEMMA InitTreeInv == CategoriesInit => TreeInv
<1> SUFFICES ASSUME CategoriesInit PROVE TreeInv
  OBVIOUS
<1>1. PICK tree \in InitialTrees :
        /\ live = DOMAIN tree
        /\ unused = CategoryIds \ DOMAIN tree
        /\ parent = [c \in CategoryIds |-> IF c \in live THEN tree[c].parent ELSE NoCategory]
        /\ slug = [c \in CategoryIds |-> IF c \in live THEN tree[c].slug ELSE Keep]
        /\ path = [c \in CategoryIds |-> IF c \in live THEN tree[c].path ELSE <<>>]
  BY DEF CategoriesInit
<1>2. editor = [r \in Editors |-> Waiting] /\ \A r \in Editors : ~Working(r)
  BY DEF CategoriesInit, Working
<1>3. live \subseteq CategoryIds /\ NoCategory \notin CategoryIds
  BY <1>1, TreesAssumption, NamesAssumption
<1>4. \A c \in live :
        /\ parent[c] = tree[c].parent /\ slug[c] = tree[c].slug /\ path[c] = tree[c].path
        /\ parent[c] \in live \union {NoCategory} /\ slug[c] \in Slugs /\ path[c] \in Seq(Slugs)
        /\ \A d \in live : slug[c] = slug[d] => c = d
  BY <1>1, <1>3, TreesAssumption
<1>5. \A c \in live : path[c] = IF parent[c] = NoCategory THEN <<>> ELSE Prefix(path[parent[c]], slug[parent[c]])
  <2> TAKE c \in live
  <2>1. tree[c].path = IF tree[c].parent = NoCategory THEN <<>>
                       ELSE Prefix(tree[tree[c].parent].path, tree[tree[c].parent].slug)
    BY <1>1, TreesAssumption
  <2> QED
    BY <1>4, <2>1
<1>6. CategoryTypes
  <2>1. \A c \in CategoryIds \ live : parent[c] = NoCategory /\ slug[c] = Keep /\ path[c] = <<>>
    BY <1>1
  <2>2. <<>> \in Seq(Slugs)
    OBVIOUS
  <2>3. /\ parent \in [CategoryIds -> CategoryIds \union {NoCategory}]
        /\ slug \in [CategoryIds -> Slugs \union {Keep}]
        /\ path \in [CategoryIds -> Seq(Slugs)]
    BY <1>1, <1>3, <1>4, <2>1, <2>2
  <2> QED
    BY <1>3, <1>4, <2>3 DEF CategoryTypes
<1>7. EditorTypes
  BY <1>2 DEF EditorTypes
<1>8. Births
  <2>1. NotYet = unused
    BY <1>2 DEF NotYet, Creating
  <2>2. \A c \in CategoryIds : parent[c] \in live \union {NoCategory}
    BY <1>1, <1>3, <1>4
  <2> QED
    BY <1>1, <1>2, <1>3, <2>1, <2>2 DEF Births, Creating
<1>9. Agree(live, parent, slug, path)
  BY <1>4, <1>5 DEF Agree
<1>10. NoCycle(live, parent)
  <2> SUFFICES ASSUME NEW c \in live, parent[c] \in live PROVE c \notin Up(live, parent, parent[c])
    BY DEF NoCycle
  <2>1. PICK p \in live : p = parent[c]
    OBVIOUS
  <2> DEFINE S == {d \in live : Len(path[d]) <= Len(path[p])}
  <2>2. \A d \in live : Len(path[d]) \in Nat
    BY <1>4
  <2>3. ASSUME NEW d \in live, parent[d] \in live PROVE Len(path[d]) = Len(path[parent[d]]) + 1
    <3>1. parent[d] # NoCategory
      BY <1>3, <2>3
    <3>2. path[d] = Prefix(path[parent[d]], slug[parent[d]])
      BY <1>5, <3>1
    <3>3. path[parent[d]] \in Seq(Slugs) /\ slug[parent[d]] \in Slugs
      BY <1>4, <2>3
    <3>4. Len(Prefix(path[parent[d]], slug[parent[d]])) = Len(path[parent[d]]) + 1
      BY <3>3, PrefixIs
    <3> QED
      BY <3>2, <3>4
  <2>4. S \in SUBSET CategoryIds /\ p \in S /\ c \notin S
    BY <1>3, <2>1, <2>2, <2>3
  <2>5. \A x \in S : parent[x] \in live => parent[x] \in S
    BY <2>2, <2>3
  <2> HIDE DEF S
  <2> QED
    BY <2>1, <2>4, <2>5, UpIsLeast
<1> QED
  BY <1>2, <1>6, <1>7, <1>8, <1>9, <1>10 DEF TreeInv, NoLoops, InTurn

-----------------------------------------------------------------------------
(* An editor that is at work moves on, or is through. *)

Others(r) == editor' = [editor EXCEPT ![r] = editor'[r]]
Onward(r, l, s, n, b) ==
  Others(r) /\ editor'[r] = [at |-> l, ask |-> editor[r].ask, seen |-> s, newPath |-> n, subs |-> b]
Gone(r) == Others(r) /\ editor'[r] = Served

LEMMA AtWork ==
  ASSUME EditorTypes, NEW r \in Editors, editor[r].at \in EditStages
  PROVE  Working(r) /\ editor[r] \in EditUnderWay /\ StageFits(editor[r])
<1>1. editor[r] \notin {Waiting, Served}
  BY DEF EditStages, Waiting, Served
<1> QED
  BY <1>1 DEF EditorTypes, Working

LEMMA EditorGoes ==
  ASSUME EditorTypes, NEW r \in Editors, Working(r)
  PROVE  /\ Leave(r) => Gone(r)
         /\ \A l : EditorAt(r, l) => Onward(r, l, editor[r].seen, editor[r].newPath, editor[r].subs)
         /\ \A x, l : editor' = [editor EXCEPT ![r].newPath = x, ![r].at = l]
                        => Onward(r, l, editor[r].seen, x, editor[r].subs)
         /\ \A x, y, l : editor' = [editor EXCEPT ![r].seen = x, ![r].newPath = y, ![r].at = l]
                        => Onward(r, l, x, y, editor[r].subs)
         /\ \A x, l : editor' = [editor EXCEPT ![r].at = l, ![r].subs = x]
                        => Onward(r, l, editor[r].seen, editor[r].newPath, x)
         /\ \A x : editor' = [editor EXCEPT ![r].subs = x]
                        => Onward(r, editor[r].at, editor[r].seen, editor[r].newPath, x)
<1>1. DOMAIN editor = Editors /\ editor[r] \in EditUnderWay
  BY DEF EditorTypes, Working
<1> USE DEF Onward, Gone, Others
<1>2. Leave(r) => Gone(r)
  BY <1>1 DEF Leave
<1>3. \A l : EditorAt(r, l) => Onward(r, l, editor[r].seen, editor[r].newPath, editor[r].subs)
  BY <1>1 DEF EditorAt, EditUnderWay
<1>4. \A x, l : editor' = [editor EXCEPT ![r].newPath = x, ![r].at = l]
                  => Onward(r, l, editor[r].seen, x, editor[r].subs)
  BY <1>1 DEF EditUnderWay
<1>5. \A x, y, l : editor' = [editor EXCEPT ![r].seen = x, ![r].newPath = y, ![r].at = l]
                  => Onward(r, l, x, y, editor[r].subs)
  BY <1>1 DEF EditUnderWay
<1>6. \A x, l : editor' = [editor EXCEPT ![r].at = l, ![r].subs = x]
                  => Onward(r, l, editor[r].seen, editor[r].newPath, x)
  BY <1>1 DEF EditUnderWay
<1>7. \A x : editor' = [editor EXCEPT ![r].subs = x]
                  => Onward(r, editor[r].at, editor[r].seen, editor[r].newPath, x)
  BY <1>1 DEF EditUnderWay
<1> HIDE DEF Onward, Gone, Others
<1> QED
  BY <1>2, <1>3, <1>4, <1>5, <1>6, <1>7

LEMMA EditorsFit ==
  ASSUME EditorTypes, NEW r \in Editors, Others(r),
         editor'[r] = Served \/ (editor'[r] \in EditUnderWay /\ StageFits(editor'[r]))
  PROVE  EditorTypes'
<1>1. editor \in [Editors -> EditUnderWay \union {Waiting, Served}]
  BY DEF EditorTypes
<1>2. \A q \in Editors \ {r} : editor'[q] = editor[q]
  BY <1>1 DEF Others
<1>3. editor' \in [Editors -> EditUnderWay \union {Waiting, Served}]
  BY <1>1 DEF Others
<1>4. \A q \in Editors : editor'[q] \notin {Waiting, Served} => StageFits(editor'[q])
  BY <1>2 DEF EditorTypes, Working
<1> QED
  BY <1>3, <1>4 DEF EditorTypes, Working, StageFits, HasRead

LEMMA BirthsStay ==
  ASSUME Births, EditorTypes, NEW r \in Editors, Others(r), unused' = unused,
         Creating(r)' => Creating(r) /\ editor'[r].ask = editor[r].ask,
         live' \intersect NotYet' = {}, \A c \in CategoryIds : parent'[c] \notin NotYet,
         Working(r)' => KnowsParent(editor'[r])
  PROVE  Births'
<1>1. \A q \in Editors \ {r} : editor'[q] = editor[q]
  BY DEF EditorTypes, Others
<1>2. \A q \in Editors : Creating(q)' => Creating(q) /\ editor'[q].ask = editor[q].ask
  BY <1>1 DEF Creating, Working
<1>3. NotYet' \subseteq NotYet
  BY <1>2 DEF NotYet
<1>4. \A q \in Editors : Working(q)' => KnowsParent(editor'[q])
  BY <1>1 DEF Births, Working
<1>5. \A q \in Editors : Working(q)' => KnowsParent(editor[q])'
  BY <1>3, <1>4 DEF KnowsParent, HasRead
<1>6. \A q \in Editors : Creating(q)' =>
         /\ editor'[q].ask.id \notin unused
         /\ \A t \in Editors : Creating(t)' /\ editor'[t].ask.id = editor'[q].ask.id => t = q
  BY <1>2 DEF Births
<1> QED
  BY <1>3, <1>5, <1>6 DEF Births

LEMMA NoLoopsStay ==
  ASSUME NoLoops, CategoryTypes, EditorTypes, NEW r \in Editors, Others(r), upset \subseteq upset',
         parent' = parent, live' \subseteq live,
         Working(r)' => Working(r) /\ editor'[r].ask = editor[r].ask,
         Working(r)' /\ NoCycle(live, parent) /\ StaysAbove(editor[r]) => StaysAbove(editor'[r])
  PROVE  NoLoops'
<1> SUFFICES ASSUME upset' \intersect {"loop", "moves"} = {}
             PROVE  /\ NoCycle(live', parent')
                    /\ \A q, t \in Editors : Working(q)' /\ SetsParent(editor'[q].ask)
                                             /\ Working(t)' /\ SetsParent(editor'[t].ask) => q = t
                    /\ \A q \in Editors : Working(q)' => StaysAbove(editor[q])'
  BY DEF NoLoops, SetsParent
<1>1. /\ NoCycle(live, parent)
      /\ \A q, t \in Editors : Working(q) /\ SetsParent(editor[q].ask)
                               /\ Working(t) /\ SetsParent(editor[t].ask) => q = t
      /\ \A q \in Editors : Working(q) => StaysAbove(editor[q])
  BY DEF NoLoops
<1>2. \A q \in Editors \ {r} : editor'[q] = editor[q]
  BY DEF EditorTypes, Others
<1>3. \A q \in Editors : Working(q)' => Working(q) /\ editor'[q].ask = editor[q].ask
  BY <1>2 DEF Working
<1>4. NoCycle(live', parent')
  BY <1>1, NoCycleOfFewer DEF CategoryTypes
<1>5. ASSUME NEW c \in CategoryIds PROVE Above(c)' \subseteq Above(c)
  BY AboveIsUp, UpOfFewer DEF CategoryTypes
<1>6. ASSUME NEW q \in Editors, Working(q)' PROVE StaysAbove(editor[q])'
  <2>1. StaysAbove(editor'[q])
    BY <1>1, <1>2, <1>3, <1>6
  <2> QED
    BY <1>5, <2>1 DEF StaysAbove
<1> QED
  BY <1>1, <1>3, <1>4, <1>6

LEMMA TurnGoesOn ==
  ASSUME InTurn, EditorTypes, NEW r \in Editors, Others(r), Working(r), upset \subseteq upset',
         upset' \subseteq {"late"} /\ Agree(live, parent, slug, Finished(editor[r])) /\ Current(editor[r]) =>
           IF Working(r)' THEN Agree(live', parent', slug', Finished(editor[r])') /\ Current(editor[r])'
           ELSE Agree(live', parent', slug', path')
  PROVE  InTurn'
<1> SUFFICES ASSUME upset' \subseteq {"late"}
             PROVE  /\ \A q, t \in Editors : Working(q)' /\ Working(t)' => q = t
                    /\ (\A q \in Editors : ~Working(q)') => Agree(live', parent', slug', path')
                    /\ \A q \in Editors : Working(q)' => /\ Agree(live', parent', slug', Finished(editor[q])')
                                                         /\ Current(editor[q])'
  BY DEF InTurn, Agree
<1>1. /\ \A q \in Editors : Working(q) => q = r
      /\ Agree(live, parent, slug, Finished(editor[r])) /\ Current(editor[r])
  BY DEF InTurn
<1>2. \A q \in Editors \ {r} : editor'[q] = editor[q]
  BY DEF EditorTypes, Others
<1>3. \A q \in Editors : Working(q)' => q = r
  BY <1>1, <1>2 DEF Working
<1> QED
  BY <1>1, <1>3

LEMMA NothingLeft ==
  ASSUME CategoryTypes, NEW u, u.at \notin {"findSubs", "reindex"}
  PROVE  Finished(u) = path
BY DEF Finished, CategoryTypes

LEMMA NothingLeftThen ==
  ASSUME CategoryTypes', NEW r, editor'[r].at \notin {"findSubs", "reindex"}
  PROVE  Finished(editor[r])' = path'
BY DEF Finished, CategoryTypes

LEMMA IsThrough ==
  ASSUME TreeInv, NEW r \in Editors, Working(r), editor[r].at \notin {"findSubs", "reindex"},
         Gone(r), UNCHANGED docs, upset' = upset
  PROVE  TreeInv'
<1>1. Others(r) /\ editor'[r] = Served /\ ~Working(r)' /\ ~Creating(r)'
  BY DEF Gone, Working, Creating
<1>2. CategoryTypes' /\ EditorTypes'
  <2>1. CategoryTypes'
    BY DEF TreeInv, CategoryTypes, docs
  <2> QED
    BY <1>1, <2>1, EditorsFit DEF TreeInv
<1>3. Births'
  <2>1. live \intersect NotYet' = {}
    <3>1. \A q \in Editors : Creating(q)' => Creating(q) /\ editor'[q] = editor[q]
      BY <1>1 DEF TreeInv, EditorTypes, Others, Creating, Working
    <3>2. NotYet' \subseteq NotYet
      BY <3>1 DEF NotYet, docs
    <3> QED
      BY <3>2 DEF TreeInv, Births
  <2>2. \A c \in CategoryIds : parent'[c] \notin NotYet
    BY DEF TreeInv, Births, docs
  <2> QED
    BY <1>1, <2>1, <2>2, BirthsStay DEF TreeInv, docs
<1>4. NoLoops'
  BY <1>1, NoLoopsStay DEF TreeInv, docs
<1>5. InTurn'
  <2>1. Finished(editor[r]) = path
    BY NothingLeft DEF TreeInv
  <2> QED
    BY <1>1, <2>1, TurnGoesOn DEF TreeInv, docs
<1> QED
  BY <1>2, <1>3, <1>4, <1>5 DEF TreeInv

LEMMA GoesOn ==
  ASSUME TreeInv, CategoryTypes', NEW r \in Editors, Working(r),
         live' \subseteq live, UNCHANGED <<unused, parent>>, upset \subseteq upset',
         NEW l \in EditStages, NEW s \in SeenCategories \union {NoCategory},
         NEW n \in Seq(Slugs), NEW b \in PathsFound, Onward(r, l, s, n, b),
         NEW w, w = editor'[r],
         StageFits(w), Creating(r)' => Creating(r), KnowsParent(w),
         NoCycle(live, parent) /\ StaysAbove(editor[r]) => StaysAbove(w),
         upset' \subseteq {"late"} /\ Agree(live, parent, slug, Finished(editor[r])) /\ Current(editor[r]) =>
           Agree(live', parent', slug', Finished(editor[r])') /\ Current(editor[r])'
  PROVE  TreeInv'
<1>1. /\ Others(r) /\ editor[r] \in EditUnderWay
      /\ editor'[r] = [at |-> l, ask |-> editor[r].ask, seen |-> s, newPath |-> n, subs |-> b]
  BY DEF TreeInv, EditorTypes, Onward, Working
<1>2. w \in EditUnderWay /\ w.at = l /\ w.ask = editor[r].ask
  BY <1>1 DEF EditUnderWay
<1>3. EditorTypes' /\ Working(r)'
  <2>1. EditorTypes'
    BY <1>1, <1>2, EditorsFit DEF TreeInv
  <2>2. w \notin {Waiting, Served}
    BY <1>2 DEF EditStages, Waiting, Served
  <2> QED
    BY <2>1, <2>2 DEF Working
<1>4. Births'
  <2>1. live' \intersect NotYet' = {}
    <3>1. \A q \in Editors : Creating(q)' => Creating(q) /\ editor'[q].ask = editor[q].ask
      BY <1>1, <1>2 DEF TreeInv, EditorTypes, Others, Creating, Working
    <3>2. NotYet' \subseteq NotYet
      BY <3>1 DEF NotYet
    <3> QED
      BY <3>2 DEF TreeInv, Births
  <2>2. \A c \in CategoryIds : parent'[c] \notin NotYet
    BY DEF TreeInv, Births
  <2> QED
    BY <1>1, <1>2, <2>1, <2>2, BirthsStay DEF TreeInv
<1>5. NoLoops'
  BY <1>1, <1>2, NoLoopsStay DEF TreeInv
<1>6. InTurn'
  BY <1>1, <1>3, TurnGoesOn DEF TreeInv
<1> QED
  BY <1>3, <1>4, <1>5, <1>6 DEF TreeInv

LEMMA LooksOn ==
  ASSUME TreeInv, NEW r \in Editors, Working(r),
         editor[r].at \notin {"findSubs", "reindex"} \/ Finished(editor[r]) = path,
         NEW l \in EditStages \ {"findSubs", "reindex"}, NEW s \in SeenCategories \union {NoCategory},
         NEW n \in Seq(Slugs), Onward(r, l, s, n, editor[r].subs), UNCHANGED docs, upset' = upset,
         NEW w, w = editor'[r],
         StageFits(w), Creating(r)' => Creating(r), KnowsParent(w),
         NoCycle(live, parent) /\ StaysAbove(editor[r]) => StaysAbove(w),
         upset \subseteq {"late"} /\ Agree(live, parent, slug, path) /\ Current(editor[r]) => Current(w)
  PROVE  TreeInv'
<1>1. CategoryTypes' /\ w.at = l /\ editor[r].subs \in PathsFound
  BY DEF TreeInv, CategoryTypes, docs, Onward, EditorTypes, EditUnderWay, Working
<1>2. Finished(editor[r]) = path /\ Finished(editor[r])' = path'
  BY <1>1, NothingLeft, NothingLeftThen DEF TreeInv
<1>3. Current(w) => Current(editor[r])'
  BY DEF Current, docs, PathAt, NewParent, HasRead, KnownPath, AsksToMove
<1> QED
  BY <1>1, <1>2, <1>3, GoesOn DEF docs

-----------------------------------------------------------------------------
(* The steps of an edit that change no document. *)

LEMMA AskedFor ==
  ASSUME NEW u \in EditUnderWay
  PROVE  /\ u.ask \in Edit /\ u.ask.id \in CategoryIds /\ u.ask.op \in {"create", "update", "delete"}
         /\ u.ask.op = "create" => u.ask.slug \in Slugs /\ u.ask.parent \in CategoryIds \union {NoCategory}
         /\ u.ask.op = "update" => /\ u.ask.slug \in Slugs \union {Keep}
                                   /\ u.ask.parent \in CategoryIds \union {NoCategory, Keep}
         /\ u.seen \in SeenCategories \union {NoCategory} /\ u.newPath \in Seq(Slugs) /\ u.subs \in PathsFound
         /\ u.at \in EditStages
<1>1. u.ask \in Edit
  BY DEF EditUnderWay
<1>2. /\ u.seen \in SeenCategories \union {NoCategory} /\ u.newPath \in Seq(Slugs) /\ u.subs \in PathsFound
      /\ u.at \in EditStages
  BY DEF EditUnderWay
<1> QED
  BY <1>1, <1>2 DEF Edit

LEMMA NotYetIds == ASSUME EditorTypes, Births PROVE NotYet \subseteq CategoryIds
BY AskedFor DEF EditorTypes, Births, NotYet, Creating, Working

LEMMA CreateCheckSlugStep == ASSUME TreeInv, NEW r \in Editors, CreateCheckSlug(r) PROVE TreeInv'
<1> DEFINE u == editor[r]
           l == IF u.ask.parent = NoCategory THEN "insert" ELSE "parent"
<1>1. u.at = "createSlug" /\ UNCHANGED docs /\ upset' = upset
  BY DEF CreateCheckSlug
<1>2. Working(r) /\ u \in EditUnderWay /\ StageFits(u) /\ u.ask.op = "create"
  BY <1>1, AtWork DEF TreeInv, EditStages, StageFits
<1>3. CASE SlugTaken(u.ask)
  BY <1>1, <1>2, <1>3, EditorGoes, IsThrough DEF TreeInv, CreateCheckSlug
<1>4. CASE ~SlugTaken(u.ask)
  <2>1. Onward(r, l, u.seen, u.newPath, u.subs)
    BY <1>2, <1>4, EditorGoes DEF TreeInv, CreateCheckSlug
  <2>2. PICK w : w = editor'[r] /\ w.at = l /\ w.ask = u.ask /\ w.newPath = u.newPath
    BY <2>1 DEF Onward
  <2>3. StageFits(w) /\ ~HasRead(w)
    BY <1>2, <2>2, AskedFor DEF StageFits, HasRead
  <2>4. Creating(r)
    BY <1>1, <1>2 DEF Creating
  <2>5. KnowsParent(w)
    <3>1. w.at = "insert" => w.ask.parent = NoCategory
      BY <2>2
    <3>2. NoCategory \notin NotYet
      BY NotYetIds, NamesAssumption DEF TreeInv
    <3> QED
      BY <2>2, <2>3, <3>1, <3>2 DEF KnowsParent
  <2>6. StaysAbove(w)
    BY <1>2, <2>2 DEF StaysAbove
  <2>7. ASSUME upset \subseteq {"late"}, Current(u) PROVE Current(w)
    <3>1. CASE u.ask.parent = NoCategory
      BY <1>1, <1>2, <2>2, <2>3, <2>7, <3>1 DEF Current, PathAt
    <3>2. CASE u.ask.parent # NoCategory
      BY <1>2, <2>2, <2>3, <3>2 DEF Current
    <3> QED
      BY <3>1, <3>2
  <2> QED
    BY <1>1, <1>2, <2>1, <2>2, <2>3, <2>4, <2>5, <2>6, <2>7, AskedFor, LooksOn DEF EditStages
<1> QED
  BY <1>3, <1>4

LEMMA ReadParentStep == ASSUME TreeInv, NEW r \in Editors, ReadParent(r) PROVE TreeInv'
<1> DEFINE u == editor[r]
           l == IF u.ask.op = "create" THEN "insert" ELSE "write"
           n == Prefix(path[u.ask.parent], slug[u.ask.parent])
<1>1. u.at = "parent" /\ UNCHANGED docs /\ upset' = upset
  BY DEF ReadParent
<1>2. /\ Working(r) /\ u \in EditUnderWay /\ StageFits(u) /\ u.ask.op \in {"create", "update"}
      /\ u.ask.parent \in CategoryIds
  BY <1>1, AtWork DEF TreeInv, EditStages, StageFits
<1>3. CASE u.ask.parent \notin live
  BY <1>1, <1>2, <1>3, EditorGoes, IsThrough DEF TreeInv, ReadParent
<1>4. CASE u.ask.parent \in live
  <2>1. Onward(r, l, u.seen, n, u.subs)
    <3>1. editor' = [editor EXCEPT ![r].newPath = n, ![r].at = l]
      BY <1>4 DEF ReadParent
    <3> HIDE DEF n, l
    <3> QED
      BY <1>2, <3>1, EditorGoes DEF TreeInv
  <2>2. n \in Seq(Slugs)
    <3>1. path[u.ask.parent] \in Seq(Slugs) /\ slug[u.ask.parent] \in Slugs
      BY <1>4, <1>2 DEF TreeInv, CategoryTypes
    <3> QED
      BY <3>1, PrefixIs
  <2>3. PICK w : w = editor'[r] /\ w.at = l /\ w.ask = u.ask /\ w.newPath = n /\ w.seen = u.seen
    BY <2>1 DEF Onward
  <2>4. StageFits(w) /\ (HasRead(w) => HasRead(u))
    BY <1>1, <1>2, <2>3, AskedFor DEF StageFits, HasRead
  <2>5. Creating(r)' => Creating(r)
    BY <1>1, <1>2, <2>3 DEF Creating
  <2>6. KnowsParent(w)
    <3>1. u.ask.parent \notin NotYet
      BY <1>4 DEF TreeInv, Births
    <3>2. HasRead(u) => u.seen.parent \notin NotYet
      BY <1>2 DEF TreeInv, Births, KnowsParent
    <3> QED
      BY <2>3, <2>4, <3>1, <3>2 DEF KnowsParent
  <2>7. StaysAbove(u) => StaysAbove(w)
    BY <1>1, <1>2, <2>3 DEF StaysAbove
  <2>8. ASSUME upset \subseteq {"late"}, Current(u) PROVE Current(w)
    <3>1. n = PathAt(u.ask.parent, slug, path)
      BY <1>2, NamesAssumption DEF PathAt
    <3> QED
      BY <1>1, <1>2, <1>4, <2>3, <2>4, <2>8, <3>1 DEF Current, NewParent, HasRead
  <2> HIDE DEF n
  <2> QED
    BY <1>1, <1>2, <2>1, <2>2, <2>3, <2>4, <2>5, <2>6, <2>7, <2>8, AskedFor, LooksOn DEF EditStages
<1> QED
  BY <1>3, <1>4

\* What an update that has read the category s knows when its slug is free.
LEMMA KnowsThePath ==
  ASSUME TreeInv, NEW u \in EditUnderWay, u.ask.op = "update", NEW s \in SeenCategories,
         NEW l, l = AfterSlug(u.ask, s),
         NEW n, NEW w, w = [at |-> l, ask |-> u.ask, seen |-> s, newPath |-> n, subs |-> u.subs]
  PROVE  /\ l \in EditStages \ {"findSubs", "reindex"} /\ StageFits(w)
         /\ s.parent \notin NotYet => KnowsParent(w)
         /\ StaysAbove(u) /\ s.parent # u.ask.id => StaysAbove(w)
         /\ /\ upset \subseteq {"late"} /\ Agree(live, parent, slug, path) /\ u.ask.parent # NoCategory
            /\ n = KnownPath(u.ask, s) /\ u.ask.id \in live
            /\ s = [slug |-> slug[u.ask.id], path |-> path[u.ask.id], parent |-> parent[u.ask.id]]
            => Current(w)
<1>1. /\ u.ask.parent \in CategoryIds \union {NoCategory, Keep} /\ NoCategory \notin CategoryIds
      /\ Keep \notin CategoryIds \union {NoCategory} /\ s.parent \in CategoryIds \union {NoCategory}
      /\ NotYet \subseteq CategoryIds
  BY AskedFor, NamesAssumption, NotYetIds DEF SeenCategories, TreeInv
<1>2. /\ w.at = l /\ w.ask = u.ask /\ w.seen = s /\ w.newPath = n
      /\ l \in {"write", "refused", "parent"}
  BY DEF AfterSlug
<1>3. /\ l = "write" => u.ask.parent = NoCategory \/ u.ask.parent \in {Keep, s.parent}
      /\ l = "parent" => u.ask.parent \in CategoryIds /\ u.ask.parent # u.ask.id
      /\ l = "refused" => u.ask.parent = u.ask.id
  BY <1>1 DEF AfterSlug, AsksToMove, OwnParent
<1>4. l \in EditStages \ {"findSubs", "reindex"} /\ StageFits(w)
  BY <1>2, <1>3 DEF EditStages, StageFits, HasRead
<1>5. ASSUME s.parent \notin NotYet PROVE KnowsParent(w)
  BY <1>1, <1>2, <1>3, <1>5 DEF KnowsParent
<1>6. ASSUME StaysAbove(u), s.parent # u.ask.id PROVE StaysAbove(w)
  BY <1>1, <1>2, <1>3, <1>6 DEF StaysAbove
<1>7. ASSUME upset \subseteq {"late"}, Agree(live, parent, slug, path), u.ask.parent # NoCategory,
             n = KnownPath(u.ask, s), u.ask.id \in live,
             s = [slug |-> slug[u.ask.id], path |-> path[u.ask.id], parent |-> parent[u.ask.id]]
      PROVE  Current(w)
  <2>1. ASSUME l = "write"
        PROVE  NewParent(w) \in live \union {NoCategory} /\ w.newPath = PathAt(NewParent(w), slug, path)
    <3>1. u.ask.parent \in {Keep, s.parent} /\ KnownPath(u.ask, s) = s.path
      BY <1>1, <1>3, <1>7, <2>1 DEF KnownPath, AsksToMove
    <3>2. NewParent(w) = parent[u.ask.id] /\ s.path = path[u.ask.id]
      BY <1>1, <1>2, <1>7, <3>1 DEF NewParent
    <3>3. /\ parent[u.ask.id] \in live \union {NoCategory}
          /\ path[u.ask.id] = PathAt(parent[u.ask.id], slug, path)
      BY <1>7 DEF Agree, PathAt
    <3> QED
      BY <1>2, <1>7, <3>1, <3>2, <3>3
  <2> QED
    BY <1>2, <1>7, <2>1 DEF Current
<1> QED
  BY <1>4, <1>5, <1>6, <1>7

LEMMA UpdateReadStep == ASSUME TreeInv, NEW r \in Editors, UpdateRead(r) PROVE TreeInv'
<1> DEFINE u == editor[r]
           i == u.ask.id
           s == [slug |-> slug[i], path |-> path[i], parent |-> parent[i]]
           n == KnownPath(u.ask, s)
           l == IF u.ask.slug \notin {Keep, s.slug} THEN "updateSlug" ELSE AfterSlug(u.ask, s)
<1>1. u.at = "updateRead" /\ UNCHANGED docs /\ upset' = upset
  BY DEF UpdateRead
<1>2. /\ Working(r) /\ u \in EditUnderWay /\ StageFits(u) /\ u.ask.op = "update" /\ i \in CategoryIds
  BY <1>1, AtWork, AskedFor DEF TreeInv, EditStages, StageFits
<1>3. CASE i \notin live
  BY <1>1, <1>2, <1>3, EditorGoes, IsThrough DEF TreeInv, UpdateRead
<1>4. CASE i \in live
  <2>1. Onward(r, l, s, n, u.subs)
    <3>1. editor' = [editor EXCEPT ![r].seen = s, ![r].newPath = n, ![r].at = l]
      BY <1>4 DEF UpdateRead
    <3> HIDE DEF s, n, l
    <3> QED
      BY <1>2, <3>1, EditorGoes DEF TreeInv
  <2>2. s \in SeenCategories /\ n \in Seq(Slugs)
    <3>1. slug[i] \in Slugs /\ path[i] \in Seq(Slugs) /\ parent[i] \in CategoryIds \union {NoCategory}
      BY <1>2, <1>4 DEF TreeInv, CategoryTypes
    <3>2. <<>> \in Seq(Slugs)
      OBVIOUS
    <3> QED
      BY <3>1, <3>2 DEF SeenCategories, KnownPath
  <2>3. PICK w : w = editor'[r] /\ w = [at |-> l, ask |-> u.ask, seen |-> s, newPath |-> n, subs |-> u.subs]
    BY <2>1 DEF Onward
  <2>4. s.parent = parent[i] /\ s.parent \notin NotYet
    BY <1>2 DEF TreeInv, Births
  <2>5. NoCycle(live, parent) => s.parent # i
    BY <1>2, <1>4, UpIs DEF NoCycle, TreeInv, CategoryTypes
  <2>6. upset \subseteq {"late"} /\ Current(u) => u.ask.parent # NoCategory
    BY <1>2 DEF Current
  <2>7. ~(Creating(r)')
    <3>1. w.ask.op = "update"
      BY <1>2, <2>3
    <3> QED
      BY <2>3, <3>1 DEF Creating
  <2> DEFINE Fits == /\ l \in EditStages \ {"findSubs", "reindex"} /\ StageFits(w) /\ KnowsParent(w)
                     /\ NoCycle(live, parent) /\ StaysAbove(u) => StaysAbove(w)
                     /\ upset \subseteq {"late"} /\ Agree(live, parent, slug, path) /\ Current(u) => Current(w)
  <2>8. ASSUME l = "updateSlug" PROVE Fits
    <3>1. w.at = l /\ w.ask = u.ask /\ w.seen = s /\ w.newPath = n
      BY <2>3
    <3>2. l \in EditStages \ {"findSubs", "reindex"} /\ StageFits(w) /\ KnowsParent(w)
      <4> HIDE DEF s, l
      <4> QED
        BY <1>2, <2>2, <2>4, <2>8, <3>1 DEF EditStages, StageFits, HasRead, KnowsParent
    <3>3. NoCycle(live, parent) /\ StaysAbove(u) => StaysAbove(w)
      <4> HIDE DEF s, l
      <4> QED
        BY <2>5, <2>8, <3>1 DEF StaysAbove
    <3>4. upset \subseteq {"late"} /\ Agree(live, parent, slug, path) /\ Current(u) => Current(w)
      <4> HIDE DEF l
      <4> QED
        BY <1>4, <2>6, <2>8, <3>1 DEF Current
    <3> QED
      BY <3>2, <3>3, <3>4
  <2>9. ASSUME l # "updateSlug" PROVE Fits
    <3>1. l = AfterSlug(u.ask, s)
      BY <2>9
    <3>2. s = [slug |-> slug[i], path |-> path[i], parent |-> parent[i]] /\ n = KnownPath(u.ask, s)
      OBVIOUS
    <3> HIDE DEF s, l, n
    <3>3. w = [at |-> l, ask |-> u.ask, seen |-> s, newPath |-> n, subs |-> u.subs]
      BY <2>3
    <3>4. l \in EditStages \ {"findSubs", "reindex"} /\ StageFits(w) /\ KnowsParent(w)
      BY <1>2, <2>2, <2>4, <3>1, <3>3, KnowsThePath
    <3>5. StaysAbove(u) /\ s.parent # i => StaysAbove(w)
      BY <1>2, <2>2, <3>1, <3>3, KnowsThePath
    <3>6. upset \subseteq {"late"} /\ Agree(live, parent, slug, path) /\ u.ask.parent # NoCategory => Current(w)
      <4>1. u.ask.id = i /\ i \in live
        BY <1>4
      <4> QED
        BY <1>2, <2>2, <3>1, <3>2, <3>3, <4>1, KnowsThePath
    <3> QED
      BY <2>5, <2>6, <3>4, <3>5, <3>6
  <2>10. Fits
    BY <2>8, <2>9
  <2> HIDE DEF s, l, n
  <2> QED
    BY <1>1, <1>2, <2>1, <2>2, <2>3, <2>7, <2>10, LooksOn
<1> QED
  BY <1>3, <1>4

LEMMA UpdateCheckSlugStep == ASSUME TreeInv, NEW r \in Editors, UpdateCheckSlug(r) PROVE TreeInv'
<1> DEFINE u == editor[r]
           l == AfterSlug(u.ask, u.seen)
<1>1. u.at = "updateSlug" /\ UNCHANGED docs /\ upset' = upset
  BY DEF UpdateCheckSlug
<1>2. /\ Working(r) /\ u \in EditUnderWay /\ u.ask.op = "update" /\ u.seen \in SeenCategories /\ HasRead(u)
      /\ u.newPath \in Seq(Slugs)
  BY <1>1, AtWork, AskedFor DEF TreeInv, EditStages, StageFits, HasRead
<1>3. CASE SlugTaken(u.ask)
  BY <1>1, <1>2, <1>3, EditorGoes, IsThrough DEF TreeInv, UpdateCheckSlug
<1>4. CASE ~SlugTaken(u.ask)
  <2>1. Onward(r, l, u.seen, u.newPath, u.subs)
    BY <1>2, <1>4, EditorGoes DEF TreeInv, UpdateCheckSlug
  <2>2. PICK w : /\ w = editor'[r]
                 /\ w = [at |-> l, ask |-> u.ask, seen |-> u.seen, newPath |-> u.newPath, subs |-> u.subs]
    BY <2>1 DEF Onward
  <2>3. u.seen.parent \notin NotYet
    BY <1>2 DEF TreeInv, Births, KnowsParent
  <2>4. ~(Creating(r)')
    <3>1. w.ask.op = "update"
      BY <1>2, <2>2
    <3> QED
      BY <2>2, <3>1 DEF Creating
  <2>5. StaysAbove(u) => StaysAbove(u) /\ (u.seen.parent # u.ask.id \/ u.ask.parent # u.ask.id)
    BY <1>1, <1>2, AskedFor DEF StaysAbove
  <2>6. Current(u) =>
          /\ u.newPath = KnownPath(u.ask, u.seen) /\ u.ask.parent # NoCategory /\ u.ask.id \in live
          /\ u.seen = [slug |-> slug[u.ask.id], path |-> path[u.ask.id], parent |-> parent[u.ask.id]]
    BY <1>1, <1>2 DEF Current
  <2>7. /\ l \in EditStages \ {"findSubs", "reindex"} /\ StageFits(w) /\ KnowsParent(w)
        /\ StaysAbove(u) /\ u.seen.parent # u.ask.id => StaysAbove(w)
        /\ upset \subseteq {"late"} /\ Agree(live, parent, slug, path) /\ Current(u) => Current(w)
    <3> HIDE DEF u, l
    <3>1. l = AfterSlug(u.ask, u.seen)
      BY DEF l
    <3> QED
      BY <1>2, <2>2, <2>3, <2>6, <3>1, KnowsThePath
  <2>8. StaysAbove(u) => StaysAbove(w)
    <3>1. u.ask.parent # u.ask.id /\ StaysAbove(u) => StaysAbove(w)
      BY <2>2 DEF StaysAbove
    <3> QED
      BY <2>5, <2>7, <3>1
  <2> HIDE DEF l
  <2> QED
    BY <1>1, <1>2, <2>1, <2>2, <2>4, <2>7, <2>8, LooksOn
<1> QED
  BY <1>3, <1>4

LEMMA LookStep ==
  ASSUME TreeInv, NEW r \in Editors, Refuse(r) \/ DeleteRead(r) \/ CountChildren(r) \/ CountProducts(r) \/ DelTree(r)
  PROVE  TreeInv'
<1> DEFINE u == editor[r]
<1>1. u.at \in {"refused", "deleteRead", "children", "products", "delTree"} /\ UNCHANGED docs /\ upset' = upset
  BY DEF Refuse, DeleteRead, CountChildren, CountProducts, DelTree
<1>2. Working(r) /\ u \in EditUnderWay /\ StageFits(u)
  BY <1>1, AtWork DEF TreeInv, EditStages
<1>3. \/ Leave(r)
      \/ /\ u.at \in {"deleteRead", "children", "products"}
         /\ \E l \in {"children", "products", "delete"} :
              /\ EditorAt(r, l)
              /\ l \in {"products", "delete"} => u.at = "products" \/ \A c \in live : parent[c] # u.ask.id
  BY DEF Refuse, DeleteRead, CountChildren, CountProducts, DelTree
<1>4. CASE Leave(r)
  BY <1>1, <1>2, <1>4, EditorGoes, IsThrough DEF TreeInv
<1>5. ASSUME u.at \in {"deleteRead", "children", "products"}, NEW l \in {"children", "products", "delete"},
             EditorAt(r, l),
             l \in {"products", "delete"} => u.at = "products" \/ \A c \in live : parent[c] # u.ask.id
      PROVE  TreeInv'
  <2>1. Onward(r, l, u.seen, u.newPath, u.subs) /\ u.ask.op = "delete"
    BY <1>2, <1>5, EditorGoes DEF TreeInv, StageFits
  <2>2. PICK w : w = editor'[r] /\ w.at = l /\ w.ask = u.ask
    BY <2>1 DEF Onward
  <2>3. StageFits(w) /\ KnowsParent(w) /\ StaysAbove(w) /\ ~(Creating(r)')
    BY <2>1, <2>2 DEF StageFits, HasRead, KnowsParent, StaysAbove, Creating
  <2>4. Current(u) => Current(w)
    BY <1>5, <2>1, <2>2 DEF Current, HasRead
  <2> QED
    BY <1>1, <1>2, <2>1, <2>2, <2>3, <2>4, AskedFor, LooksOn DEF EditStages
<1> QED
  BY <1>3, <1>4, <1>5

LEMMA ReindexedStep == ASSUME TreeInv, NEW r \in Editors, Reindexed(r) PROVE TreeInv'
<1> DEFINE u == editor[r]
<1>1. u.at = "reindex" /\ DOMAIN u.subs = {} /\ UNCHANGED docs /\ upset' = upset /\ EditorAt(r, "delTree")
  BY DEF Reindexed
<1>2. Working(r) /\ u \in EditUnderWay /\ u.ask.op = "update"
  BY <1>1, AtWork DEF TreeInv, EditStages, StageFits
<1>3. Finished(u) = path
  BY <1>1 DEF Finished, TreeInv, CategoryTypes
<1>4. Onward(r, "delTree", u.seen, u.newPath, u.subs)
  BY <1>1, <1>2, EditorGoes DEF TreeInv
<1>5. PICK w : w = editor'[r] /\ w.at = "delTree" /\ w.ask = u.ask
  BY <1>4 DEF Onward
<1>6. StageFits(w) /\ KnowsParent(w) /\ ~(Creating(r)')
  BY <1>5 DEF StageFits, HasRead, KnowsParent, Creating
<1>7. (StaysAbove(u) => StaysAbove(w)) /\ (Current(u) => Current(w))
  BY <1>2, <1>5 DEF StaysAbove, Current, HasRead
<1> QED
  BY <1>1, <1>2, <1>3, <1>4, <1>5, <1>6, <1>7, AskedFor, LooksOn DEF EditStages

LEMMA CutOff ==
  ASSUME TreeInv, NEW r \in Editors, Working(r), Leave(r), UNCHANGED docs,
         upset \subseteq upset', "crash" \in upset'
  PROVE  TreeInv'
<1>1. /\ Working(r) /\ Gone(r) /\ UNCHANGED docs /\ upset \subseteq upset' /\ "crash" \in upset'
  BY EditorGoes DEF TreeInv
<1>2. Others(r) /\ editor'[r] = Served /\ ~Working(r)' /\ ~Creating(r)'
  BY <1>1 DEF Gone, Working, Creating
<1>3. CategoryTypes' /\ EditorTypes'
  <2>1. CategoryTypes'
    BY <1>1 DEF TreeInv, CategoryTypes, docs
  <2> QED
    BY <1>2, <2>1, EditorsFit DEF TreeInv
<1>4. Births'
  <2>1. live \intersect NotYet' = {}
    <3>1. \A q \in Editors : Creating(q)' => Creating(q) /\ editor'[q] = editor[q]
      BY <1>2 DEF TreeInv, EditorTypes, Others, Creating, Working
    <3>2. NotYet' \subseteq NotYet
      BY <1>1, <3>1 DEF NotYet, docs
    <3> QED
      BY <3>2 DEF TreeInv, Births
  <2>2. \A c \in CategoryIds : parent'[c] \notin NotYet
    BY <1>1 DEF TreeInv, Births, docs
  <2> QED
    BY <1>1, <1>2, <2>1, <2>2, BirthsStay DEF TreeInv, docs
<1>5. NoLoops'
  BY <1>1, <1>2, NoLoopsStay DEF TreeInv, docs
<1>6. InTurn'
  BY <1>1 DEF InTurn
<1> QED
  BY <1>3, <1>4, <1>5, <1>6 DEF TreeInv

LEMMA CrashStep == ASSUME TreeInv, NEW r \in Editors, CategoriesCrash(r) PROVE TreeInv'
BY CutOff DEF CategoriesCrash

\* The paths an update rewrites.
LEMMA PrefixesRewritten ==
  ASSUME NEW u \in EditUnderWay, u.ask.op = "update", u.seen \in SeenCategories
  PROVE  OldPrefix(u) \in Seq(Slugs) /\ NewPrefix(u) \in Seq(Slugs)
<1>1. u.seen.path \in Seq(Slugs) /\ u.seen.slug \in Slugs
  BY DEF SeenCategories
<1>2. u.newPath \in Seq(Slugs) /\ u.ask.slug \in Slugs \union {Keep}
  BY AskedFor
<1> DEFINE s == IF u.ask.slug = Keep THEN u.seen.slug ELSE u.ask.slug
<1>3. s \in Slugs
  BY <1>1, <1>2
<1> HIDE DEF s
<1>4. Prefix(u.seen.path, u.seen.slug) \in Seq(Slugs) /\ Prefix(u.newPath, s) \in Seq(Slugs)
  BY <1>1, <1>2, <1>3, PrefixIs
<1>5. OldPrefix(u) = Prefix(u.seen.path, u.seen.slug)
  BY DEF OldPrefix
<1>6. NewPrefix(u) = Prefix(u.newPath, s)
  BY DEF NewPrefix, s
<1> QED
  BY <1>4, <1>5, <1>6

LEMMA FoundStep ==
  ASSUME TreeInv, NEW r \in Editors, editor[r].at = "findSubs", NEW B \in SUBSET live, Found(r, B),
         UNCHANGED docs, upset \subseteq upset',
         upset' \subseteq {"late"} => B = Below(OldPrefix(editor[r]))
  PROVE  TreeInv'
<1> DEFINE u == editor[r]
           b == [c \in B |-> path[c]]
<1>1. u.at = "findSubs" /\ UNCHANGED docs /\ upset \subseteq upset'
  OBVIOUS
<1>2. /\ Working(r) /\ u \in EditUnderWay /\ StageFits(u) /\ u.ask.op = "update" /\ u.seen \in SeenCategories
      /\ HasRead(u)
  BY <1>1, AtWork DEF TreeInv, EditStages, StageFits, HasRead
<1>3. b \in PathsFound /\ B \subseteq live /\ DOMAIN b = B
  <2>1. B \subseteq live /\ live \subseteq CategoryIds
    BY DEF TreeInv, CategoryTypes
  <2>2. \A c \in B : path[c] \in Seq(Slugs)
    BY <2>1 DEF TreeInv, CategoryTypes
  <2> QED
    BY <2>1, <2>2 DEF PathsFound
<1>4. Onward(r, "reindex", u.seen, u.newPath, b)
  <2>1. editor' = [editor EXCEPT ![r].at = "reindex", ![r].subs = b]
    BY DEF Found
  <2> HIDE DEF b
  <2> QED
    BY <1>2, <2>1, EditorGoes DEF TreeInv
<1>5. PICK w : /\ w = editor'[r] /\ w.at = "reindex" /\ w.ask = u.ask /\ w.seen = u.seen
               /\ w.newPath = u.newPath /\ w.subs = b
  <2> HIDE DEF b
  <2> QED
    BY <1>4 DEF Onward
<1>6. StageFits(w) /\ HasRead(w) /\ ~(Creating(r)') /\ KnowsParent(w)
  <2>1. u.seen.parent \notin NotYet
    BY <1>2 DEF TreeInv, Births, KnowsParent
  <2> QED
    BY <1>2, <1>5, <2>1 DEF StageFits, HasRead, Creating, KnowsParent
<1>7. StaysAbove(u) => StaysAbove(w)
  BY <1>2, <1>5 DEF StaysAbove
<1>8. OldPrefix(w) = OldPrefix(u) /\ NewPrefix(w) = NewPrefix(u)
  BY <1>5 DEF OldPrefix, NewPrefix
<1>9. ASSUME upset' \subseteq {"late"} PROVE Finished(editor[r])' = Finished(u)
  <2>1. \A c \in B : b[c] = path[c]
    OBVIOUS
  <2>2. Finished(w)' = Finished(u)
    <3> HIDE DEF b
    <3> QED
      BY <1>1, <1>3, <1>5, <1>8, <1>9, <2>1 DEF Finished, docs
  <2> QED
    BY <1>5, <2>2 DEF Finished
<1>10. Current(u) => Current(editor[r])'
  <2>1. Current(u) => Current(w)
    BY <1>2, <1>3, <1>5 DEF Current, HasRead
  <2> QED
    BY <1>1, <1>5, <2>1 DEF Current, docs, PathAt, NewParent, HasRead, KnownPath, AsksToMove
<1>11. CategoryTypes'
  BY <1>1 DEF TreeInv, CategoryTypes, docs
<1> HIDE DEF b
<1> QED
  BY <1>1, <1>2, <1>3, <1>4, <1>5, <1>6, <1>7, <1>9, <1>10, <1>11, AskedFor, GoesOn DEF EditStages, docs

LEMMA FindSubsStep == ASSUME TreeInv, NEW r \in Editors, FindSubs(r) PROVE TreeInv'
<1>1. Below(OldPrefix(editor[r])) \in SUBSET live
  BY DEF Below
<1> QED
  BY <1>1, FoundStep DEF FindSubs

LEMMA FindByPatternStep == ASSUME TreeInv, NEW r \in Editors, FindByPattern(r) PROVE TreeInv'
<1>1. editor[r].at = "findSubs" /\ UNCHANGED docs /\ upset \subseteq upset'
  BY DEF FindByPattern
<1>2. CASE (\E S \in SUBSET live : Found(r, S)) /\ "pattern" \in upset'
  BY <1>1, <1>2, FoundStep
<1>3. CASE Leave(r) /\ "crash" \in upset'
  <2>1. Working(r)
    BY <1>1, AtWork DEF TreeInv, EditStages
  <2> QED
    BY <1>1, <1>3, <2>1, CutOff
<1> QED
  BY <1>2, <1>3 DEF FindByPattern

LEMMA WriteChildStep ==
  ASSUME TreeInv, NEW r \in Editors, editor[r].at = "reindex", NEW c \in DOMAIN editor[r].subs,
         NEW new \in Seq(Slugs), WriteChild(r, c, new), upset \subseteq upset',
         upset' \subseteq {"late"} =>
           new = Rebased(editor[r].subs[c], OldPrefix(editor[r]), NewPrefix(editor[r]))
  PROVE  TreeInv'
<1> DEFINE u == editor[r]
<1>1. u.at = "reindex" /\ UNCHANGED <<live, unused, parent, slug>> /\ upset \subseteq upset'
  BY DEF WriteChild
<1>2. /\ Working(r) /\ u \in EditUnderWay /\ StageFits(u) /\ u.ask.op = "update" /\ u.seen \in SeenCategories
      /\ HasRead(u) /\ u.subs \in PathsFound
  BY <1>1, AtWork, AskedFor DEF TreeInv, EditStages, StageFits, HasRead
<1>3. /\ c \in DOMAIN u.subs
      /\ path' = IF c \in live THEN [path EXCEPT ![c] = new] ELSE path
      /\ editor' = [editor EXCEPT ![r].subs = [d \in DOMAIN @ \ {c} |-> @[d]]]
  BY DEF WriteChild
<1>4. PICK D \in SUBSET CategoryIds : D = DOMAIN u.subs /\ u.subs \in [D -> Seq(Slugs)]
  BY <1>2 DEF PathsFound
<1> DEFINE b == [d \in D \ {c} |-> u.subs[d]]
<1>5. b \in PathsFound /\ DOMAIN b = D \ {c} /\ \A d \in D \ {c} : b[d] = u.subs[d]
  <2>1. \A d \in D \ {c} : u.subs[d] \in Seq(Slugs)
    BY <1>4
  <2>2. PICK E \in SUBSET CategoryIds : E = D \ {c}
    OBVIOUS
  <2>3. b \in [E -> Seq(Slugs)]
    BY <2>1, <2>2
  <2> QED
    BY <2>2, <2>3 DEF PathsFound
<1>7. Onward(r, "reindex", u.seen, u.newPath, b)
  <2>1. editor' = [editor EXCEPT ![r].subs = b]
    BY <1>2, <1>3, <1>4 DEF TreeInv, EditorTypes
  <2> HIDE DEF b
  <2> QED
    BY <1>1, <1>2, <2>1, EditorGoes DEF TreeInv
<1> HIDE DEF b
<1>8. PICK w : /\ w = editor'[r] /\ w.at = "reindex" /\ w.ask = u.ask /\ w.seen = u.seen
               /\ w.newPath = u.newPath /\ w.subs = b
  BY <1>7 DEF Onward
<1>9. StageFits(w) /\ HasRead(w) /\ ~(Creating(r)') /\ KnowsParent(w)
  <2>1. u.seen.parent \notin NotYet
    BY <1>2 DEF TreeInv, Births, KnowsParent
  <2> QED
    BY <1>2, <1>8, <2>1 DEF StageFits, HasRead, Creating, KnowsParent
<1>10. StaysAbove(u) => StaysAbove(w)
  BY <1>2, <1>8 DEF StaysAbove
<1>11. OldPrefix(w) = OldPrefix(u) /\ NewPrefix(w) = NewPrefix(u)
  BY <1>8 DEF OldPrefix, NewPrefix
<1>12. CategoryTypes'
  BY <1>1, <1>3 DEF TreeInv, CategoryTypes
<1>13. ASSUME upset' \subseteq {"late"}, Current(u) PROVE Finished(editor[r])' = Finished(u)
  <2>1. c \in live
    BY <1>1, <1>3, <1>13 DEF Current
  <2>2. ASSUME c \in live PROVE \A d \in CategoryIds : path'[d] = IF d = c THEN new ELSE path[d]
    BY <1>3, <2>2 DEF TreeInv, CategoryTypes
  <2>3. c \in live => Finished(w)' = Finished(u)
    <3> SUFFICES ASSUME c \in live PROVE Finished(w)' = Finished(u)
      OBVIOUS
    <3>1. Finished(w)' = [d \in CategoryIds |-> IF d \in D \ {c} THEN Rebased(u.subs[d], OldPrefix(u), NewPrefix(u))
                                                ELSE path'[d]]
      BY <1>5, <1>8, <1>11 DEF Finished
    <3>2. Finished(u) = [d \in CategoryIds |-> IF d \in D THEN Rebased(u.subs[d], OldPrefix(u), NewPrefix(u))
                                               ELSE path[d]]
      BY <1>1, <1>4 DEF Finished
    <3>3. \A d \in CategoryIds : path'[d] = IF d = c THEN Rebased(u.subs[c], OldPrefix(u), NewPrefix(u)) ELSE path[d]
      BY <1>13, <2>2
    <3> QED
      BY <1>3, <1>4, <3>1, <3>2, <3>3
  <2> QED
    BY <1>8, <2>1, <2>3 DEF Finished
<1>14. Current(u) => Current(editor[r])'
  BY <1>1, <1>2, <1>4, <1>5, <1>8 DEF Current, HasRead
<1> QED
  BY <1>1, <1>2, <1>5, <1>7, <1>8, <1>9, <1>10, <1>12, <1>13, <1>14, AskedFor, GoesOn DEF EditStages

LEMMA ReindexOneStep ==
  ASSUME TreeInv, NEW r \in Editors, ReindexOne(r) \/ ReindexByPattern(r)
  PROVE  TreeInv'
<1> DEFINE u == editor[r]
<1>1. u.at = "reindex"
  BY DEF ReindexOne, ReindexByPattern
<1>2. /\ Working(r) /\ u \in EditUnderWay /\ u.ask.op = "update" /\ u.seen \in SeenCategories
      /\ u.subs \in PathsFound
  BY <1>1, AtWork, AskedFor DEF TreeInv, EditStages, StageFits, HasRead
<1>3. ASSUME NEW c \in DOMAIN u.subs
      PROVE  u.subs[c] \in Seq(Slugs) /\ Rebased(u.subs[c], OldPrefix(u), NewPrefix(u)) \in Seq(Slugs)
  <2>1. OldPrefix(u) \in Seq(Slugs) /\ NewPrefix(u) \in Seq(Slugs)
    <3> HIDE DEF u
    <3> QED
      BY <1>2, PrefixesRewritten
  <2>2. u.subs[c] \in Seq(Slugs)
    BY <1>2, <1>3 DEF PathsFound
  <2> QED
    BY <2>1, <2>2, RebasedIs
<1>4. CASE ReindexOne(r)
  <2>1. PICK c \in DOMAIN u.subs : WriteChild(r, c, Rebased(u.subs[c], OldPrefix(u), NewPrefix(u)))
    BY <1>4 DEF ReindexOne
  <2>2. upset' = upset
    BY <1>4 DEF ReindexOne
  <2> QED
    BY <1>1, <1>3, <2>1, <2>2, WriteChildStep
<1>5. CASE ReindexByPattern(r)
  <2>1. PICK c \in DOMAIN u.subs :
          \E p \in {u.subs[c], Rebased(u.subs[c], OldPrefix(u), NewPrefix(u))} \union Garbled :
             WriteChild(r, c, p)
    BY <1>5 DEF ReindexByPattern
  <2>2. \E p \in Seq(Slugs) : WriteChild(r, c, p)
    BY <1>3, <2>1, PatternsAssumption
  <2>3. upset \subseteq upset' /\ "pattern" \in upset'
    BY <1>5 DEF ReindexByPattern
  <2> QED
    BY <1>1, <2>2, <2>3, WriteChildStep
<1> QED
  BY <1>4, <1>5

LEMMA DeleteOneStep == ASSUME TreeInv, NEW r \in Editors, DeleteOne(r) PROVE TreeInv'
<1> DEFINE u == editor[r]
<1>1. /\ u.at = "delete" /\ UNCHANGED <<unused, parent, slug, path>> /\ upset' = upset
      /\ live' = live \ {u.ask.id} /\ EditorAt(r, "delTree")
  BY DEF DeleteOne
<1>2. Working(r) /\ u \in EditUnderWay /\ u.ask.op = "delete"
  BY <1>1, AtWork DEF TreeInv, EditStages, StageFits
<1>3. Onward(r, "delTree", u.seen, u.newPath, u.subs)
  BY <1>1, <1>2, EditorGoes DEF TreeInv
<1>4. PICK w : w = editor'[r] /\ w.at = "delTree" /\ w.ask = u.ask
  BY <1>3 DEF Onward
<1>5. StageFits(w) /\ KnowsParent(w) /\ ~(Creating(r)') /\ StaysAbove(w)
  BY <1>2, <1>4 DEF StageFits, HasRead, KnowsParent, Creating, StaysAbove
<1>6. CategoryTypes'
  BY <1>1 DEF TreeInv, CategoryTypes
<1>7. Current(editor[r])'
  BY <1>2, <1>4 DEF Current, HasRead
<1>8. Finished(u) = path /\ Finished(editor[r])' = path
  BY <1>1, <1>4, <1>6, NothingLeft, NothingLeftThen DEF TreeInv
<1>9. Current(u) /\ Agree(live, parent, slug, path) => Agree(live', parent', slug', path)
  BY <1>1, PathsShrink DEF Current
<1> QED
  BY <1>1, <1>2, <1>3, <1>4, <1>5, <1>6, <1>7, <1>8, <1>9, AskedFor, GoesOn DEF EditStages

-----------------------------------------------------------------------------
(* Creations and updates. *)

LEMMA InsertStep == ASSUME TreeInv, NEW r \in Editors, Insert(r) PROVE TreeInv'
<1> DEFINE u == editor[r]
           i == u.ask.id
           p == u.ask.parent
<1>1. u.at = "insert" /\ upset' = upset
  BY DEF Insert
<1>2. /\ Working(r) /\ u \in EditUnderWay /\ StageFits(u) /\ u.ask.op = "create" /\ i \in CategoryIds
      /\ p \in CategoryIds \union {NoCategory} /\ u.ask.slug \in Slugs /\ u.newPath \in Seq(Slugs)
  BY <1>1, AtWork, AskedFor DEF TreeInv, EditStages, StageFits
<1>3. CASE SlugTaken(u.ask)
  BY <1>1, <1>2, <1>3, EditorGoes, IsThrough DEF TreeInv, Insert
<1>4. CASE ~SlugTaken(u.ask)
  <2>1. /\ live' = live \union {i} /\ unused' = unused
        /\ parent' = [parent EXCEPT ![i] = p] /\ slug' = [slug EXCEPT ![i] = u.ask.slug]
        /\ path' = [path EXCEPT ![i] = u.newPath]
        /\ EditorAt(r, "delTree")
    BY <1>4 DEF Insert
  <2>2. Onward(r, "delTree", u.seen, u.newPath, u.subs)
    BY <1>2, <2>1, EditorGoes DEF TreeInv
  <2>3. PICK w : w = editor'[r] /\ w.at = "delTree" /\ w.ask = u.ask /\ w \in EditUnderWay /\ Others(r)
    BY <1>2, <2>2 DEF Onward, EditUnderWay, EditStages
  <2>4. Creating(r) /\ i \in NotYet /\ i \notin live /\ p \notin NotYet /\ p # i
    <3>1. Creating(r) /\ i \in NotYet
      BY <1>1, <1>2 DEF Creating, NotYet
    <3>2. p \notin NotYet
      BY <1>1, <1>2 DEF TreeInv, Births, KnowsParent
    <3> QED
      BY <3>1, <3>2 DEF TreeInv, Births
  <2>5. \A c \in CategoryIds : parent[c] # i
    BY <2>4 DEF TreeInv, Births
  <2>6. StageFits(w) /\ ~(Creating(r)') /\ KnowsParent(w) /\ Working(r)'
    <3>1. w \notin {Waiting, Served}
      BY <2>3 DEF Waiting, Served
    <3> QED
      BY <1>2, <2>3, <3>1 DEF StageFits, HasRead, Creating, KnowsParent, Working
  <2>7. CategoryTypes'
    <3>1. CategoryTypes /\ \A c \in live : slug[c] # u.ask.slug
      BY <1>4, <2>4 DEF TreeInv, SlugTaken
    <3> QED
      BY <1>2, <2>1, <2>4, <3>1 DEF CategoryTypes
  <2>8. EditorTypes'
    BY <2>3, <2>6, EditorsFit DEF TreeInv
  <2>9. Births'
    <3>1. \A q \in Editors : Creating(q)' => Creating(q) /\ editor'[q].ask = editor[q].ask /\ q # r
      BY <2>3, <2>6 DEF TreeInv, EditorTypes, Others, Creating, Working
    <3>2. i \notin NotYet' /\ NotYet' \subseteq NotYet
      BY <2>1, <2>4, <3>1 DEF NotYet, TreeInv, Births
    <3>3. live' \intersect NotYet' = {}
      BY <2>1, <3>2 DEF TreeInv, Births
    <3>4. \A c \in CategoryIds : parent'[c] \notin NotYet
      BY <2>1, <2>4 DEF TreeInv, Births, CategoryTypes
    <3> QED
      BY <2>1, <2>3, <2>6, <3>3, <3>4, BirthsStay DEF TreeInv
  <2>10. NoLoops'
    <3> SUFFICES ASSUME upset \intersect {"loop", "moves"} = {}
                 PROVE  /\ NoCycle(live', parent')
                        /\ \A q, t \in Editors : Working(q)' /\ SetsParent(editor'[q].ask)
                                                 /\ Working(t)' /\ SetsParent(editor'[t].ask) => q = t
                        /\ \A q \in Editors : Working(q)' => StaysAbove(editor[q])'
      BY <1>1 DEF NoLoops, SetsParent
    <3>1. /\ NoCycle(live, parent)
          /\ \A q, t \in Editors : Working(q) /\ SetsParent(editor[q].ask)
                                   /\ Working(t) /\ SetsParent(editor[t].ask) => q = t
      BY DEF TreeInv, NoLoops
    <3>2. NoCycle(live', parent')
      BY <1>2, <2>1, <2>4, <2>5, <3>1, UpWhenBorn DEF TreeInv, CategoryTypes
    <3>3. \A q \in Editors : Working(q)' => Working(q) /\ editor'[q].ask = editor[q].ask
      BY <1>2, <2>3 DEF TreeInv, EditorTypes, Others, Working
    <3>4. ASSUME NEW q \in Editors, Working(q)' PROVE StaysAbove(editor[q])'
      <4>1. SUFFICES ASSUME editor[q].ask.op = "update", editor[q].ask.parent \in CategoryIds PROVE FALSE
        BY <3>3, <3>4 DEF StaysAbove
      <4>2. SetsParent(editor[q].ask) /\ SetsParent(u.ask)
        BY <1>2, <4>1, NamesAssumption DEF SetsParent
      <4>3. q = r
        BY <1>2, <3>1, <3>3, <3>4, <4>2
      <4> QED
        BY <1>2, <4>1, <4>3
    <3> QED
      BY <3>1, <3>2, <3>3, <3>4
  <2>11. InTurn'
    <3>1. Finished(u) = path /\ Finished(editor[r])' = path'
      BY <1>1, <2>3, <2>7, NothingLeft, NothingLeftThen DEF TreeInv
    <3>2. ASSUME Agree(live, parent, slug, path), Current(u) PROVE Agree(live', parent', slug', path')
      <4>1. p \in live \union {NoCategory} /\ u.newPath = PathAt(p, slug, path)
        BY <1>1, <3>2 DEF Current
      <4>2. ATree(live, parent, slug, path)
        BY <3>2 DEF ATree, TreeInv, CategoryTypes
      <4>3. i \in CategoryIds \ live /\ \A c \in live : parent[c] # i
        BY <1>2, <2>4, <2>5 DEF TreeInv, CategoryTypes
      <4> HIDE DEF p, i, u
      <4> QED
        BY <2>1, <4>1, <4>2, <4>3, PathsGrow
    <3>3. Current(editor[r])'
      BY <1>2, <2>3 DEF Current, HasRead
    <3> QED
      BY <1>1, <1>2, <2>3, <2>6, <3>1, <3>2, <3>3, TurnGoesOn DEF TreeInv
  <2> QED
    BY <2>7, <2>8, <2>9, <2>10, <2>11 DEF TreeInv
<1> QED
  BY <1>3, <1>4

\* What an update writes, with what it will rewrite, makes the paths follow again.
LEMMA WriteFollows ==
  ASSUME TreeInv, NEW u \in EditUnderWay, u.at = "write", u.ask.op = "update", StaysAbove(u), NoCycle(live, parent),
         Agree(live, parent, slug, path), Current(u), ~SlugTaken(u.ask),
         NEW w, w.at = IF OldPrefix(u) # NewPrefix(u) THEN "findSubs" ELSE "delTree",
         w.ask = u.ask, w.seen = u.seen, w.newPath = u.newPath,
         live' = live,
         parent' = [parent EXCEPT ![u.ask.id] = IF u.ask.parent \in CategoryIds THEN u.ask.parent ELSE @],
         slug' = [slug EXCEPT ![u.ask.id] = IF u.ask.slug = Keep THEN @ ELSE u.ask.slug],
         path' = [path EXCEPT ![u.ask.id] = u.newPath], CategoryTypes'
  PROVE  Agree(live', parent', slug', Finished(w)')
<1> DEFINE i == u.ask.id
           p == NewParent(u)
           s == IF u.ask.slug = Keep THEN slug[i] ELSE u.ask.slug
           o == OldPrefix(u)
           n == NewPrefix(u)
           f == Rewritten(live, path', o, n)
<1>1. /\ i \in live /\ u.seen = [slug |-> slug[i], path |-> path[i], parent |-> parent[i]]
      /\ p \in live \union {NoCategory} /\ u.newPath = PathAt(p, slug, path)
  BY DEF Current, HasRead
<1>2. ATree(live, parent, slug, path)
  BY DEF ATree, TreeInv, CategoryTypes
<1>3. p \in live => i \notin Up(live, parent, p)
  <2>1. CASE u.ask.parent \in CategoryIds
    <3>1. p = u.ask.parent /\ i \notin Above(p)
      BY <2>1 DEF NewParent, StaysAbove
    <3> QED
      BY <3>1, AboveIsUp
  <2>2. CASE u.ask.parent \notin CategoryIds
    BY <1>1, <2>2 DEF NewParent, NoCycle
  <2> QED
    BY <2>1, <2>2
<1>4. s \in Slugs /\ \A c \in live \ {i} : slug[c] # s
  <2>1. \A c \in live : slug[c] \in Slugs /\ \A d \in live : slug[c] = slug[d] => c = d
    BY DEF TreeInv, CategoryTypes
  <2>2. CASE u.ask.slug = Keep
    BY <1>1, <2>1, <2>2
  <2>3. CASE u.ask.slug # Keep
    BY <2>3, AskedFor DEF SlugTaken
  <2> QED
    BY <2>2, <2>3
<1>5. o = Prefix(path[i], slug[i])
  BY <1>1 DEF OldPrefix
<1>6. n = Prefix(u.newPath, s)
  BY <1>1 DEF NewPrefix
<1>7. parent' = [parent EXCEPT ![i] = p] /\ slug' = [slug EXCEPT ![i] = s] /\ path' = [path EXCEPT ![i] = u.newPath]
  <2>1. parent' = [parent EXCEPT ![i] = p]
    BY DEF NewParent
  <2>2. slug' = [slug EXCEPT ![i] = s]
    OBVIOUS
  <2> QED
    BY <2>1, <2>2
<1> HIDE DEF i, p, s, o, n
<1> HIDE DEF f
<1>8. Agree(live, parent', slug', f) /\ (o = n => f = path')
  <2>1. AMove(live, parent, slug, path, i, p, s, parent', slug', path', o, n)
    BY <1>1, <1>2, <1>3, <1>4, <1>5, <1>6, <1>7 DEF AMove
  <2> QED
    BY <2>1, PathsMove DEF f
<1>9. OldPrefix(w) = o /\ NewPrefix(w) = n
  BY DEF OldPrefix, NewPrefix, o, n
<1>10. Finished(w)' = f
  <2>1. CASE o # n
    <3>1. w.at = "findSubs" /\ Below(o)' = {c \in live : IsPrefix(o, path'[c])}
      BY <2>1 DEF o, n, Below
    <3> QED
      BY <1>9, <3>1 DEF Finished, Rewritten, f
  <2>2. CASE o = n
    <3>1. w.at = "delTree"
      BY <2>2 DEF o, n
    <3>2. Finished(w)' = path'
      BY <3>1 DEF Finished, CategoryTypes
    <3> QED
      BY <1>8, <2>2, <3>2
  <2> QED
    BY <2>1, <2>2
<1> QED
  BY <1>8, <1>10

LEMMA UpdateWriteStep == ASSUME TreeInv, NEW r \in Editors, UpdateWrite(r) PROVE TreeInv'
<1> DEFINE u == editor[r]
           i == u.ask.id
           l == IF OldPrefix(u) # NewPrefix(u) THEN "findSubs" ELSE "delTree"
<1>1. u.at = "write" /\ upset' = upset
  BY DEF UpdateWrite
<1>2. /\ Working(r) /\ u \in EditUnderWay /\ StageFits(u) /\ u.ask.op = "update" /\ i \in CategoryIds
      /\ u.ask.parent \in CategoryIds \union {NoCategory, Keep} /\ u.ask.slug \in Slugs \union {Keep}
      /\ u.newPath \in Seq(Slugs) /\ u.seen \in SeenCategories /\ HasRead(u)
  BY <1>1, AtWork, AskedFor DEF TreeInv, EditStages, StageFits, HasRead
<1>3. CASE i \notin live \/ SlugTaken(u.ask)
  BY <1>1, <1>2, <1>3, EditorGoes, IsThrough DEF TreeInv, UpdateWrite
<1>4. CASE ~(i \notin live \/ SlugTaken(u.ask))
  <2>1. /\ live' = live /\ unused' = unused
        /\ parent' = [parent EXCEPT ![i] = IF u.ask.parent \in CategoryIds THEN u.ask.parent ELSE @]
        /\ slug' = [slug EXCEPT ![i] = IF u.ask.slug = Keep THEN @ ELSE u.ask.slug]
        /\ path' = [path EXCEPT ![i] = u.newPath]
        /\ EditorAt(r, l)
    BY <1>4 DEF UpdateWrite
  <2>2. Onward(r, l, u.seen, u.newPath, u.subs)
    BY <1>2, <2>1, EditorGoes DEF TreeInv
  <2>3. PICK w : /\ w = editor'[r] /\ w.at = l /\ w.ask = u.ask /\ w.seen = u.seen /\ w.newPath = u.newPath
                 /\ w \in EditUnderWay /\ Others(r)
    BY <1>2, <2>2 DEF Onward, EditUnderWay, EditStages
  <2>4. /\ StageFits(w) /\ ~(Creating(r)') /\ KnowsParent(w) /\ Working(r)'
    <3>1. w \notin {Waiting, Served}
      BY <2>3 DEF Waiting, Served
    <3>2. u.seen.parent \notin NotYet
      BY <1>2 DEF TreeInv, Births, KnowsParent
    <3> QED
      BY <1>2, <2>3, <3>1, <3>2 DEF StageFits, HasRead, Creating, KnowsParent, Working
  <2>5. CategoryTypes'
    <3>1. CategoryTypes /\ \A c \in live \ {i} : slug[c] # u.ask.slug
      BY <1>4 DEF TreeInv, SlugTaken
    <3>2. /\ parent' \in [CategoryIds -> CategoryIds \union {NoCategory}]
          /\ slug' \in [CategoryIds -> Slugs \union {Keep}]
          /\ path' \in [CategoryIds -> Seq(Slugs)]
      BY <1>2, <2>1, <3>1 DEF CategoryTypes
    <3>3. \A c \in live : slug'[c] = IF c = i /\ u.ask.slug # Keep THEN u.ask.slug ELSE slug[c]
      BY <2>1, <3>1 DEF CategoryTypes
    <3> QED
      BY <1>2, <2>1, <3>1, <3>2, <3>3 DEF CategoryTypes
  <2>6. EditorTypes'
    BY <2>3, <2>4, EditorsFit DEF TreeInv
  <2>7. Births'
    <3>1. \A q \in Editors : Creating(q)' => Creating(q) /\ editor'[q].ask = editor[q].ask
      BY <2>3, <2>4 DEF TreeInv, EditorTypes, Others, Creating, Working
    <3>2. NotYet' \subseteq NotYet
      BY <2>1, <3>1 DEF NotYet
    <3>3. u.ask.parent \notin NotYet
      BY <1>1, <1>2 DEF TreeInv, Births, KnowsParent
    <3>4. \A c \in CategoryIds : parent'[c] \notin NotYet
      BY <2>1, <3>3 DEF TreeInv, Births, CategoryTypes
    <3>5. live' \intersect NotYet' = {}
      BY <2>1, <3>2 DEF TreeInv, Births
    <3> QED
      BY <2>1, <2>3, <2>4, <3>4, <3>5, BirthsStay DEF TreeInv
  <2>8. NoLoops'
    <3>1. CASE u.ask.parent \notin CategoryIds
      <4>1. parent' = parent
        BY <2>1, <3>1 DEF TreeInv, CategoryTypes
      <4>2. StaysAbove(w)
        BY <2>3, <3>1 DEF StaysAbove
      <4> QED
        BY <1>1, <1>2, <2>1, <2>3, <4>1, <4>2, NoLoopsStay DEF TreeInv
    <3>2. CASE u.ask.parent \in CategoryIds
      <4> PICK k, p \in CategoryIds : k = i /\ p = u.ask.parent
        BY <1>2, <3>2
      <4> SUFFICES ASSUME upset \intersect {"loop", "moves"} = {}
                   PROVE  /\ NoCycle(live', parent')
                          /\ \A q, t \in Editors : Working(q)' /\ SetsParent(editor'[q].ask)
                                                   /\ Working(t)' /\ SetsParent(editor'[t].ask) => q = t
                          /\ \A q \in Editors : Working(q)' => StaysAbove(editor[q])'
        BY <1>1 DEF NoLoops, SetsParent
      <4>1. /\ NoCycle(live, parent) /\ StaysAbove(u)
            /\ \A q, t \in Editors : Working(q) /\ SetsParent(editor[q].ask)
                                     /\ Working(t) /\ SetsParent(editor[t].ask) => q = t
        BY <1>2 DEF TreeInv, NoLoops
      <4>2. p # k /\ k \notin Up(live, parent, p)
        BY <1>1, <1>2, <3>2, <4>1, AboveIsUp DEF StaysAbove
      <4>3. parent' = [parent EXCEPT ![k] = p] /\ live' = live
        BY <2>1, <3>2
      <4>4. NoCycle(live', parent') /\ k \notin Up(live', parent', p)
        <5>1. live \in SUBSET CategoryIds /\ parent \in [CategoryIds -> CategoryIds \union {NoCategory}]
          BY DEF TreeInv, CategoryTypes
        <5> QED
          BY <4>1, <4>2, <4>3, <5>1, UpWhenMoved
      <4>5. \A q \in Editors : Working(q)' => Working(q) /\ editor'[q].ask = editor[q].ask
        BY <1>2, <2>3 DEF TreeInv, EditorTypes, Others, Working
      <4>6. ASSUME NEW q \in Editors, Working(q)' PROVE StaysAbove(editor[q])'
        <5>1. CASE q = r
          <6>1. k \notin Above(p)'
            BY <4>4, AboveIsUp
          <6> QED
            BY <2>3, <4>2, <5>1, <6>1 DEF StaysAbove
        <5>2. CASE q # r
          <6>1. SUFFICES ASSUME editor[q].ask.op = "update", editor[q].ask.parent \in CategoryIds PROVE FALSE
            BY <4>5, <4>6 DEF StaysAbove
          <6>2. SetsParent(editor[q].ask) /\ SetsParent(u.ask)
            BY <1>2, <3>2, <6>1, NamesAssumption DEF SetsParent
          <6> QED
            BY <1>2, <4>1, <4>5, <4>6, <5>2, <6>2
        <5> QED
          BY <5>1, <5>2
      <4> QED
        BY <4>1, <4>4, <4>5, <4>6
    <3> QED
      BY <3>1, <3>2
  <2>9. InTurn'
    <3>1. Finished(u) = path
      BY <1>1, NothingLeft DEF TreeInv
    <3>2. ASSUME upset \subseteq {"late"}, Agree(live, parent, slug, path), Current(u)
          PROVE  Agree(live', parent', slug', Finished(editor[r])')
      <4>1. NoCycle(live, parent) /\ StaysAbove(u)
        BY <1>2, <3>2 DEF TreeInv, NoLoops
      <4>2. ~SlugTaken(u.ask)
        BY <1>4
      <4>3. Agree(live', parent', slug', Finished(w)')
        <5>1. w.at = IF OldPrefix(u) # NewPrefix(u) THEN "findSubs" ELSE "delTree"
          BY <2>3
        <5> HIDE DEF u
        <5> QED
          BY <1>1, <1>2, <2>1, <2>3, <2>5, <3>2, <4>1, <4>2, <5>1, WriteFollows DEF i
      <4> QED
        BY <2>3, <4>3 DEF Finished
    <3>3. Current(u) => Current(editor[r])'
      BY <1>2, <2>3 DEF Current, HasRead
    <3> QED
      BY <1>1, <1>2, <2>3, <2>4, <3>1, <3>2, <3>3, TurnGoesOn DEF TreeInv
  <2> QED
    BY <2>5, <2>6, <2>7, <2>8, <2>9 DEF TreeInv
<1> QED
  BY <1>3, <1>4

-----------------------------------------------------------------------------
(* Arrivals, and what is not an edit. *)

LEMMA UpsetBy ==
  ASSUME NEW e
  PROVE  /\ "overlap" \in Upsets(e) <=> \E q \in Editors : Working(q)
         /\ "moves" \in Upsets(e) <=> SetsParent(e) /\ \E q \in Editors : Working(q) /\ SetsParent(editor[q].ask)
         /\ "loop" \in Upsets(e) <=> e.parent \in CategoryIds /\ e.parent # e.id /\ e.id \in Above(e.parent)
         /\ "top" \in Upsets(e) <=> e.op = "update" /\ e.parent = NoCategory
BY DEF Upsets

LEMMA ArriveStep == ASSUME TreeInv, NEW r \in Editors, NEW e \in Edit, Arrive(r, e) PROVE TreeInv'
<1>1. /\ editor[r] = Waiting /\ (e.op = "create" <=> e.id \in unused) /\ unused' = unused \ {e.id}
      /\ UNCHANGED <<live, parent, slug, path>> /\ upset' = upset \union Upsets(e)
      /\ editor' = [editor EXCEPT ![r] = Started(e, FirstStep[e.op])]
  BY DEF Arrive
<1>2. /\ e.op \in {"create", "update", "delete"} /\ e.id \in CategoryIds
      /\ FirstStep[e.op] \in {"createSlug", "updateRead", "deleteRead"}
      /\ FirstStep[e.op] = "createSlug" <=> e.op = "create"
      /\ FirstStep[e.op] = "updateRead" <=> e.op = "update"
      /\ FirstStep[e.op] = "deleteRead" <=> e.op = "delete"
  BY DEF Edit, FirstStep
<1>3. PICK w : /\ w = Started(e, FirstStep[e.op]) /\ w = editor'[r] /\ Others(r) /\ w \in EditUnderWay
               /\ w.at = FirstStep[e.op] /\ w.ask = e /\ w.newPath = <<>>
  <2>1. PICK w : w = Started(e, FirstStep[e.op])
    OBVIOUS
  <2>2. w = editor'[r] /\ Others(r)
    BY <1>1, <2>1 DEF Others, TreeInv, EditorTypes
  <2>3. [c \in {} |-> <<>>] \in PathsFound
    <3>1. [c \in {} |-> <<>>] \in [{} -> Seq(Slugs)]
      OBVIOUS
    <3> QED
      BY <3>1 DEF PathsFound
  <2>4. <<>> \in Seq(Slugs) /\ FirstStep[e.op] \in EditStages
    BY <1>2 DEF EditStages
  <2>5. w \in EditUnderWay
    BY <2>1, <2>3, <2>4 DEF Started, EditUnderWay
  <2>6. w.at = FirstStep[e.op] /\ w.ask = e /\ w.newPath = <<>>
    BY <2>1 DEF Started
  <2> QED
    BY <2>1, <2>2, <2>5, <2>6
<1>4. \A q \in Editors \ {r} : editor'[q] = editor[q]
  BY <1>3 DEF Others, TreeInv, EditorTypes
<1>5. /\ StageFits(w) /\ ~HasRead(w) /\ ~Working(r) /\ (Creating(r)' <=> e.op = "create")
  <2>1. StageFits(w) /\ ~HasRead(w)
    BY <1>2, <1>3 DEF StageFits, HasRead
  <2>2. w \notin {Waiting, Served}
    BY <1>2, <1>3 DEF Waiting, Served
  <2>3. ~Working(r) /\ Working(r)'
    BY <1>1, <1>3, <2>2 DEF Working
  <2> QED
    BY <1>2, <1>3, <2>1, <2>3 DEF Creating
<1>6. CategoryTypes' /\ EditorTypes'
  <2>1. CategoryTypes'
    BY <1>1 DEF TreeInv, CategoryTypes
  <2> QED
    BY <1>3, <1>5, <2>1, EditorsFit DEF TreeInv
<1>7. Births'
  <2>1. \A q \in Editors \ {r} : (Creating(q)' <=> Creating(q)) /\ editor'[q].ask = editor[q].ask
    BY <1>4 DEF Creating, Working
  <2>2. ~Creating(r)
    BY <1>5 DEF Creating
  <2>3. NotYet' \subseteq NotYet
    BY <1>1, <1>3, <1>5, <2>1 DEF NotYet
  <2>4. ASSUME NEW q \in Editors, Creating(q)'
        PROVE  /\ editor'[q].ask.id \notin unused'
               /\ \A t \in Editors : Creating(t)' /\ editor'[t].ask.id = editor'[q].ask.id => t = q
    <3>1. \A t \in Editors \ {r} : Creating(t)' => editor'[t].ask.id \notin unused
      BY <2>1 DEF TreeInv, Births
    <3>2. Creating(r)' => editor'[r].ask.id = e.id /\ e.id \in unused
      BY <1>1, <1>3, <1>5
    <3> QED
      BY <1>1, <2>1, <2>4, <3>1, <3>2 DEF TreeInv, Births
  <2>5. ASSUME NEW q \in Editors, Working(q)' PROVE KnowsParent(editor[q])'
    <3>1. CASE q = r
      BY <1>2, <1>3, <1>5, <3>1 DEF KnowsParent, HasRead
    <3>2. CASE q # r
      <4>1. Working(q) /\ editor'[q] = editor[q]
        BY <1>4, <2>5, <3>2 DEF Working
      <4>2. KnowsParent(editor[q])
        BY <4>1 DEF TreeInv, Births
      <4> QED
        BY <2>3, <4>1, <4>2 DEF KnowsParent, HasRead
    <3> QED
      BY <3>1, <3>2
  <2> QED
    BY <1>1, <2>3, <2>4, <2>5 DEF TreeInv, Births
<1>8. NoLoops'
  <2> SUFFICES ASSUME upset' \intersect {"loop", "moves"} = {}
               PROVE  /\ NoCycle(live', parent')
                      /\ \A q, t \in Editors : Working(q)' /\ SetsParent(editor'[q].ask)
                                               /\ Working(t)' /\ SetsParent(editor'[t].ask) => q = t
                      /\ \A q \in Editors : Working(q)' => StaysAbove(editor[q])'
    BY DEF NoLoops, SetsParent
  <2>1. /\ ~(SetsParent(e) /\ \E q \in Editors : Working(q) /\ SetsParent(editor[q].ask))
        /\ ~(e.parent \in CategoryIds /\ e.parent # e.id /\ e.id \in Above(e.parent))
        /\ upset \intersect {"loop", "moves"} = {}
    BY <1>1, UpsetBy
  <2>2. /\ NoCycle(live, parent)
        /\ \A q, t \in Editors : Working(q) /\ SetsParent(editor[q].ask)
                                 /\ Working(t) /\ SetsParent(editor[t].ask) => q = t
        /\ \A q \in Editors : Working(q) => StaysAbove(editor[q])
    BY <2>1 DEF TreeInv, NoLoops
  <2>3. \A q \in Editors \ {r} : Working(q)' => Working(q) /\ editor'[q] = editor[q]
    BY <1>4 DEF Working
  <2>4. \A q, t \in Editors : Working(q)' /\ SetsParent(editor'[q].ask)
                              /\ Working(t)' /\ SetsParent(editor'[t].ask) => q = t
    BY <1>3, <2>1, <2>2, <2>3
  <2>5. \A c : Above(c)' = Above(c)
    BY <1>1 DEF Above, Closed
  <2>6. ASSUME NEW q \in Editors, Working(q)' PROVE StaysAbove(editor[q])'
    <3>1. CASE q = r
      <4>1. StaysAbove(w)
        BY <1>2, <1>3, <2>1 DEF StaysAbove
      <4> QED
        BY <1>3, <2>5, <3>1, <4>1 DEF StaysAbove
    <3>2. CASE q # r
      BY <2>2, <2>3, <2>5, <2>6, <3>2 DEF StaysAbove
    <3> QED
      BY <3>1, <3>2
  <2> QED
    BY <1>1, <2>2, <2>4, <2>6
<1>9. InTurn'
  <2> SUFFICES ASSUME upset' \subseteq {"late"}
               PROVE  /\ \A q, t \in Editors : Working(q)' /\ Working(t)' => q = t
                      /\ (\A q \in Editors : ~Working(q)') => Agree(live', parent', slug', path')
                      /\ \A q \in Editors : Working(q)' => /\ Agree(live', parent', slug', Finished(editor[q])')
                                                           /\ Current(editor[q])'
    BY DEF InTurn, Agree
  <2>1. (\A q \in Editors : ~Working(q)) /\ ~(e.op = "update" /\ e.parent = NoCategory)
    <3>1. "overlap" \notin Upsets(e) /\ "top" \notin Upsets(e)
      BY <1>1
    <3> QED
      BY <3>1, UpsetBy
  <2>2. \A q \in Editors : Working(q)' => q = r
    BY <1>4, <2>1 DEF Working
  <2>3. Agree(live, parent, slug, path)
    BY <1>1, <2>1 DEF TreeInv, InTurn
  <2>4. Finished(editor[r])' = path'
    BY <1>2, <1>3, <1>6, NothingLeftThen
  <2>5. Current(editor[r])'
    BY <1>2, <1>3, <2>1 DEF Current, HasRead
  <2> QED
    BY <1>1, <2>2, <2>3, <2>4, <2>5
<1> QED
  BY <1>6, <1>7, <1>8, <1>9 DEF TreeInv

LEMMA TreeStays == ASSUME TreeInv, UNCHANGED <<docs, editor>>, upset \subseteq upset' PROVE TreeInv'
<1>1. CategoryTypes' /\ EditorTypes' /\ Births'
  BY DEF TreeInv, CategoryTypes, EditorTypes, Births, docs, NotYet, Creating, KnowsParent, HasRead, Working, StageFits
<1>2. \A c : Above(c)' = Above(c)
  BY DEF Above, Closed, docs
<1>3. NoLoops'
  BY <1>2 DEF TreeInv, NoLoops, docs, Working, StaysAbove
<1>4. ASSUME NEW q \in Editors
      PROVE  Finished(editor[q])' = Finished(editor[q]) /\ (Current(editor[q]) => Current(editor[q])')
  BY DEF Finished, docs, Below, OldPrefix, NewPrefix, Current, PathAt, NewParent, HasRead, KnownPath, AsksToMove
<1>5. InTurn'
  BY <1>4 DEF TreeInv, InTurn, docs, Working
<1> QED
  BY <1>1, <1>3, <1>5 DEF TreeInv

LEMMA TreeInvNext == TreeInv /\ [CategoriesNext]_catVars => TreeInv'
<1> SUFFICES ASSUME TreeInv, [CategoriesNext]_catVars PROVE TreeInv'
  OBVIOUS
<1>1. ASSUME NEW r \in Editors, EditStep(r) PROVE TreeInv'
  BY <1>1, ArriveStep, CreateCheckSlugStep, ReadParentStep, InsertStep, UpdateReadStep, UpdateCheckSlugStep,
     UpdateWriteStep, FindSubsStep, FindByPatternStep, ReindexOneStep, ReindexedStep, LookStep, DeleteOneStep, CrashStep
     DEF EditStep
<1>2. CASE (\E v \in Visitors : GetTree(v) \/ FindAllActive(v) \/ SetTree(v)) \/ TreeExpires \/ UNCHANGED catVars
  <2>1. UNCHANGED <<docs, editor>> /\ upset \subseteq upset'
    BY <1>2 DEF GetTree, FindAllActive, SetTree, TreeExpires, catVars
  <2> QED
    BY <2>1, TreeStays
<1> QED
  BY <1>1, <1>2 DEF CategoriesNext

LEMMA TreeIsSo == TreeInv => OnlyMovesMakeCycles /\ PathsFollowParents
<1> SUFFICES ASSUME TreeInv PROVE OnlyMovesMakeCycles /\ PathsFollowParents
  OBVIOUS
<1>1. OnlyMovesMakeCycles
  BY AboveIsUp DEF TreeInv, NoLoops, NoCycle, OnlyMovesMakeCycles
<1>2. PathsFollowParents
  BY DEF TreeInv, InTurn, Agree, PathsFollowParents, PathIsRight
<1> QED
  BY <1>1, <1>2

-----------------------------------------------------------------------------

\* While one part of the catalogue is at work, the others rest.
LEMMA StoreInTurn ==
  ASSUME [StoreNext]_storeVars
  PROVE  [CategoriesNext]_catVars /\ [ProductsNext]_productVars /\ [ReviewsNext]_reviewVars
         /\ [SearchNext]_searchVars /\ [PromotionsNext]_promotionVars
BY DEF StoreNext, storeVars, SearchNext

\* Whatever requests, renamings and listeners interleave, a product carries a slug its
\* category has or had, unless two requests clashed (updateProduct; updateCategory
\* leaves the copies as they are); and its rating is that of its approved reviews once
\* their events are handled, unless an older aggregation was stored over a newer one or
\* a listener swallowed an error and no later aggregation was stored
\* (handleReviewApproved and handleReviewRejected).
THEOREM CopiesAlwaysFollow == StoreSpec => []CopiesFollow
<1>1. StoreInit => ShelfInv /\ ReviewInv
  BY InitShelf, InitReview DEF StoreInit
<1>2. ShelfInv /\ ReviewInv /\ [StoreNext]_storeVars => (ShelfInv /\ ReviewInv)'
  BY StoreInTurn, ShelfInvNext, ReviewInvNext
<1>3. ShelfInv /\ ReviewInv => CopiesFollow
  <2>1. ReviewInv => RatingsFollowReviews
    BY DEF ReviewInv, TurnsDiffer, NewestIsSo, OnItsWay, Carried, RatingsFollowReviews
  <2> QED
    BY <2>1 DEF ShelfInv, CopiesFollow
<1> QED
  BY <1>1, <1>2, <1>3, PTL DEF StoreSpec

\* Whatever edits, reads and expiries interleave, what Redis holds of the tree of
\* categories, of products and lists of them and of coupons is what the documents
\* say, but for the keys an edit has still to delete and for the exceptions each
\* names (the del calls after the writes in the three services, and getOrSet).
THEOREM CachesAreAlwaysFresh == StoreSpec => []CachesAreFresh
<1> DEFINE Tree == EditorsAreSomewhere /\ TreeCacheIsFresh
           Shelf == ShelfInv /\ ProductCacheIsFresh
<1>1. StoreInit => Tree /\ Shelf /\ CopyInv
  BY InitTree, InitShelf, InitCopies DEF StoreInit
<1>2. Tree /\ Shelf /\ CopyInv /\ [StoreNext]_storeVars => (Tree /\ Shelf /\ CopyInv)'
  BY StoreInTurn, TreeFreshNext, ShelfInvNext, ShelfFreshNext, CopyInvNext
<1>3. Tree /\ Shelf /\ CopyInv => CachesAreFresh
  BY DEF CopyInv, CachesAreFresh
<1> QED
  BY <1>1, <1>2, <1>3, PTL DEF StoreSpec

\* Whatever jobs overlap and are retried, no deleted product is suggested once all
\* events are handled, unless reindexes mixed or one was lost (handleReindexAll); and
\* the history of a user holds the terms searched for last, the latest first and
\* each once (trackSearchQuery).
THEOREM SearchAlwaysFollows == StoreSpec => []SearchFollows
<1> DEFINE Inv == IndexInv /\ Recent(searches, history)
<1>1. StoreInit => Inv
  <2>1. SearchInit => Recent(searches, history)
    BY HistoryLimitAssumption DEF SearchInit, Recent
  <2> QED
    BY <2>1, InitIndex DEF StoreInit
<1>2. Inv /\ [StoreNext]_storeVars => Inv'
  BY StoreInTurn, IndexInvNext, RecentNext
<1>3. Inv => SearchFollows
  BY QuietForgets, RecentIsRecent DEF SearchFollows
<1> QED
  BY <1>1, <1>2, <1>3, PTL DEF StoreSpec

\* Whatever creations, renamings, moves, deletions and crashes interleave, no category
\* is ever above itself, unless a move below itself was asked for or two requests that
\* set a parent overlapped (createCategory and updateCategory, which reads the new
\* parent before it writes); and with edits one at a time that are not cut off, and
\* slugs that mean themselves in a regular expression, each path is that of the parent
\* and its slug (the subcategories updateCategory finds with findDescendants).
THEOREM TreeAlwaysHolds == StoreSpec => []TreeHolds
<1>1. StoreInit => TreeInv
  BY InitTreeInv DEF StoreInit
<1>2. TreeInv /\ [StoreNext]_storeVars => TreeInv'
  BY StoreInTurn, TreeInvNext
<1>3. TreeInv => TreeHolds
  BY TreeIsSo DEF TreeHolds
<1> QED
  BY <1>1, <1>2, <1>3, PTL DEF StoreSpec

-----------------------------------------------------------------------------
(* Types.  What the proofs above did not need of them: where the rating and  *)
(* the counts come from, and what only grows to a bound or is only noted.    *)

\* A rating in tenths and the number of reviews it is of.
Rates(r, n) == r \in 0 .. 50 /\ n \in 0 .. Cardinality(Buyers) /\ (n = 0 <=> r = 0)

ReviewTypes ==
  /\ review \in [Customers -> [status : ReviewStatus, stars : Stars] \union {NoReview}]
  /\ \A c \in Customers : review[c] # NoReview => c \in Buyers
  /\ submission \in [Customers -> {"idle", "create", "done"}]
  /\ \A c \in Customers : submission[c] = "create" => c \in Buyers
  /\ DOMAIN delivery = Moderators /\ \A m \in Moderators : Letter(delivery[m])
  /\ \A m \in Moderators : Carried(m) => Rates(delivery[m].average, delivery[m].count)
  /\ Rates(rating, reviewCount)

LEMMA InitReviewTypes == ReviewsInit => ReviewTypes
<1>1. Cardinality(Buyers) \in Nat
  BY BuyersAssumption, FS_CardinalityType
<1> QED
  BY <1>1 DEF ReviewsInit, ReviewTypes, NoReview, Carried, Rates, Letter, Unsent

\* The average of n ratings of 1 to 5 stars, in tenths and rounded, is from 10 to 50.
LEMMA TenthsAre ==
  ASSUME NEW n \in Nat \ {0}, NEW sum \in Nat, n <= sum, sum <= 5 * n
  PROVE  Tenths(sum, n) \in 10 .. 50
<1>1. PICK d, a : d = 2 * n /\ a = 20 * sum + n
  OBVIOUS
<1>2. /\ d \in Nat /\ d > 0 /\ a \in Nat
      /\ 10 * d <= a /\ a < 51 * d
  BY <1>1
<1>3. PICK q, m : q = a \div d /\ m = a % d
  OBVIOUS
<1>4. q \in Int /\ m \in 0 .. d - 1 /\ a = d * q + m
  BY <1>2, <1>3
<1>5. q >= 10
  <2> SUFFICES ASSUME q <= 9 PROVE FALSE
    BY <1>4
  <2>1. d * q <= d * 9
    BY <1>2, <1>4
  <2> QED
    BY <1>2, <1>4, <2>1
<1>6. q <= 50
  <2> SUFFICES ASSUME q >= 51 PROVE FALSE
    BY <1>4
  <2>1. d * q >= d * 51
    BY <1>2, <1>4
  <2> QED
    BY <1>2, <1>4, <2>1
<1> QED
  BY <1>1, <1>3, <1>4, <1>5, <1>6 DEF Tenths

\* What the aggregation finds.
LEMMA AggregateRates == ASSUME ReviewTypes PROVE Rates(AverageRating, TotalCount)
<1> DEFINE f == [c \in Counted |-> review[c].stars]
           n == Cardinality(Counted)
<1>1. Counted \in SUBSET Buyers /\ f \in [Counted -> 1 .. 5]
  <2>1. ASSUME NEW c \in Counted PROVE c \in Buyers /\ review[c].stars \in 1 .. 5
    <3>1. c \in Customers /\ review[c].status = "APPROVED"
      BY <2>1 DEF Counted
    <3>2. review[c] # NoReview
      BY <3>1 DEF NoReview
    <3>3. review[c] \in [status : ReviewStatus, stars : Stars]
      BY <3>1, <3>2 DEF ReviewTypes
    <3> QED
      BY <3>1, <3>2, <3>3, StarsAssumption DEF ReviewTypes
  <2> QED
    BY <2>1
<1>2. IsFiniteSet(Counted) /\ n \in Nat /\ n <= Cardinality(Buyers) /\ Cardinality(Buyers) \in Nat
  BY <1>1, BuyersAssumption, FS_Subset, FS_CardinalityType
<1>3. SumFunction(f) \in Nat /\ n <= SumFunction(f) /\ SumFunction(f) <= 5 * n
  BY <1>1, <1>2, SumBetween
<1>4. n = 0 <=> Counted = {}
  BY <1>2, FS_EmptySet
<1>5. AverageRating = IF Counted = {} THEN 0 ELSE Tenths(SumFunction(f), n)
  BY DEF AverageRating, Average
<1>6. n # 0 => Tenths(SumFunction(f), n) \in 10 .. 50
  BY <1>2, <1>3, TenthsAre
<1> HIDE DEF f
<1> QED
  BY <1>2, <1>4, <1>5, <1>6 DEF Rates, TotalCount

LEMMA ReviewTypesNext == ReviewTypes /\ [ReviewsNext]_reviewVars => ReviewTypes'
<1> SUFFICES ASSUME ReviewTypes, [ReviewsNext]_reviewVars PROVE ReviewTypes'
  OBVIOUS
<1>1. ASSUME NEW c \in Customers, VerifyBuyer(c) PROVE ReviewTypes'
  BY <1>1 DEF VerifyBuyer, ReviewTypes, Carried
<1>2. ASSUME NEW c \in Customers, NEW n \in Stars, CreateReview(c, n) PROVE ReviewTypes'
  BY <1>2 DEF CreateReview, ReviewTypes, Carried, ReviewStatus
<1>3. ASSUME NEW m \in Moderators, NEW c \in Customers, NEW s \in {"APPROVED", "REJECTED"},
             UpdateStatus(m, c, s)
      PROVE  ReviewTypes'
  <2>1. UNCHANGED <<submission, delivery, rating, reviewCount>>
    BY <1>3 DEF UpdateStatus
  <2>2. CASE review[c] = NoReview
    BY <1>3, <2>1, <2>2 DEF UpdateStatus, ReviewTypes, Carried
  <2>3. CASE review[c] # NoReview
    <3>1. /\ review' \in [Customers -> [status : ReviewStatus, stars : Stars] \union {NoReview}]
          /\ \A d \in Customers : d # c => review'[d] = review[d]
      BY <1>3, <2>3 DEF UpdateStatus, ReviewTypes, ReviewStatus
    <3> QED
      BY <2>1, <2>3, <3>1 DEF ReviewTypes, Carried
  <2> QED
    BY <2>2, <2>3
<1>4. ASSUME NEW m \in Moderators, SaveReviewEvent(m) PROVE ReviewTypes'
  BY <1>4 DEF SaveReviewEvent, ReviewTypes, Carried, Letter
<1>5. ASSUME NEW m \in Moderators, Aggregate(m) PROVE ReviewTypes'
  BY <1>5, AggregateRates DEF Aggregate, ReviewTypes, Carried, Letter
<1>6. ASSUME NEW m \in Moderators, StoreRating(m) \/ ListenerFails(m) \/ Redeliver(m) PROVE ReviewTypes'
  BY <1>6 DEF StoreRating, ListenerFails, Redeliver, ReviewTypes, Carried, Letter, Unsent
<1>7. CASE UNCHANGED reviewVars
  BY <1>7 DEF reviewVars, ReviewTypes, Carried
<1> QED
  BY <1>1, <1>2, <1>3, <1>4, <1>5, <1>6, <1>7 DEF ReviewsNext

\* What has happened, what readers ask for, what was noted of codes and faults.
UpsetTypes == upset \subseteq {"overlap", "moves", "loop", "top", "pattern", "crash", "late"}
ReaderTypes ==
  /\ DOMAIN reader = ProductReaders
  /\ \A r \in ProductReaders : reader[r].at \in {"factory", "set"} => reader[r].key \in CacheKeys
  /\ late \subseteq CacheKeys
  /\ productCrashes \in 0 .. MaxProductCrashes
NotedTypes ==
  /\ basket \in SubTotals \union {0}
  /\ staleCodes \subseteq CouponCodes /\ hour \in 0 .. LastHour
SearchBounded == searchFaults \in 0 .. MaxSearchFaults

LEMMA UpsetTypesNext == UpsetTypes /\ [CategoriesNext]_catVars => UpsetTypes'
<1> SUFFICES ASSUME UpsetTypes, [CategoriesNext]_catVars PROVE UpsetTypes'
  OBVIOUS
<1>1. CASE upset' = upset
  BY <1>1 DEF UpsetTypes
<1>2. CASE \E r \in Editors : \E e \in Edit : Arrive(r, e)
  BY <1>2 DEF Arrive, Upsets, UpsetTypes
<1>3. CASE \/ \E r \in Editors : FindByPattern(r) \/ ReindexByPattern(r) \/ CategoriesCrash(r)
           \/ \E v \in Visitors : SetTree(v)
  <2>1. upset' \subseteq upset \union {"pattern", "crash", "late"}
    BY <1>3 DEF FindByPattern, ReindexByPattern, CategoriesCrash, SetTree
  <2> QED
    BY <2>1 DEF UpsetTypes
<1>4. ASSUME NEW r \in Editors, EditStep(r), ~\E e \in Edit : Arrive(r, e),
             ~FindByPattern(r), ~ReindexByPattern(r), ~CategoriesCrash(r)
      PROVE  upset' = upset
  BY <1>4 DEF EditStep, CreateCheckSlug, ReadParent, Insert, UpdateRead, UpdateCheckSlug, Refuse, UpdateWrite,
     FindSubs, ReindexOne, Reindexed, DeleteRead, CountChildren, CountProducts, DeleteOne, DelTree
<1>5. ASSUME NEW v \in Visitors, GetTree(v) \/ FindAllActive(v) PROVE upset' = upset
  BY <1>5 DEF GetTree, FindAllActive
<1>6. CASE TreeExpires \/ UNCHANGED catVars
  BY <1>6, <1>1 DEF TreeExpires, catVars
<1> QED
  BY <1>1, <1>2, <1>3, <1>4, <1>5, <1>6 DEF CategoriesNext

LEMMA InitReaderTypes == ProductsInit => ReaderTypes
BY ProductCrashesAssumption DEF ProductsInit, ReaderTypes, ToCome

LEMMA ReaderTypesNext == ReaderTypes /\ [ProductsNext]_productVars => ReaderTypes'
<1> SUFFICES ASSUME ReaderTypes, [ProductsNext]_productVars PROVE ReaderTypes'
  OBVIOUS
<1> USE DEF ReaderTypes
<1>1. CASE /\ UNCHANGED reader /\ late' \subseteq late
           /\ productCrashes' \in {productCrashes} \union 1 .. MaxProductCrashes
  BY <1>1
<1>2. ASSUME NEW w \in ProductWriters, WriterStep(w)
      PROVE  /\ UNCHANGED reader /\ late' \subseteq late
             /\ productCrashes' \in {productCrashes} \union 1 .. MaxProductCrashes
  <2>1. CASE ProductCrash(w)
    BY <2>1, ProductCrashesAssumption DEF ProductCrash
  <2>2. CASE ~ProductCrash(w)
    BY <1>2, <2>2 DEF WriterStep, Receive, ReadCategory, FindBySlugAdmin, CreateProduct, ReadExisting,
       UpdateProduct, DeleteProduct, DelId, DelSlug, DelNewSlug, FindLists, DelLists, Del
  <2> QED
    BY <2>1, <2>2
<1>3. ASSUME NEW r \in ProductReaders, NEW k \in CacheKeys, CacheGet(r, k) PROVE ReaderTypes'
  BY <1>3 DEF CacheGet, Over
<1>4. ASSUME NEW r \in ProductReaders, Factory(r) PROVE ReaderTypes'
  BY <1>4 DEF Factory, Over
<1>5. ASSUME NEW r \in ProductReaders, CacheSet(r) PROVE ReaderTypes'
  BY <1>5 DEF CacheSet, Over
<1>6. ASSUME NEW k \in CacheKeys, KeyExpires(k) PROVE UNCHANGED <<reader, productCrashes>> /\ late' \subseteq late
  BY <1>6 DEF KeyExpires, Del
<1>7. CASE UNCHANGED productVars
  BY <1>7 DEF productVars
<1>8. ASSUME NEW s \in Shelves, RenameShelf(s) PROVE UNCHANGED <<reader, late, productCrashes>>
  BY <1>8 DEF RenameShelf
<1> QED
  BY <1>1, <1>2, <1>3, <1>4, <1>5, <1>6, <1>7, <1>8 DEF ProductsNext

LEMMA SearchBoundedNext == SearchBounded /\ [SearchNext]_searchVars => SearchBounded'
<1> SUFFICES ASSUME SearchBounded, [SearchNext]_searchVars PROVE SearchBounded'
  OBVIOUS
<1>1. searchFaults' = searchFaults \/ (searchFaults < MaxSearchFaults /\ searchFaults' = searchFaults + 1)
  BY DEF SearchNext, IndexNext, HistoryNext, JobStep, ProductCreated, ProductUpdated, ProductGone, Announce,
     Enqueue, EnqueueFails, HandleIndexProduct, ReindexDel, ReindexFind, ReindexAdd, JobFails, ClearHistory,
     TrackSearch, searchVars
<1> QED
  BY <1>1, SearchFaultsAssumption DEF SearchBounded

LEMMA NotedTypesNext == CartInv /\ NotedTypes /\ [PromotionsNext]_promotionVars => NotedTypes'
<1> SUFFICES ASSUME CartInv, NotedTypes, [PromotionsNext]_promotionVars PROVE NotedTypes'
  OBVIOUS
<1> USE DEF NotedTypes
<1>1. ASSUME NEW e \in CouponEditors, CouponEditorStep(e) PROVE NotedTypes'
  <2>1. UNCHANGED <<basket, hour>>
    BY <1>1 DEF CouponEditorStep, CreateCoupon, UpdateCoupon, DeleteCoupon, EditCoupon, FindCoupon,
       WriteCoupon, DelCopy, CouponEditorFails, cartVars
  <2>2. CASE staleCodes' \subseteq staleCodes
    BY <2>1, <2>2
  <2>3. CASE CouponEditorFails(e)
    <3>1. couponEditor[e] \in CouponEdit
      BY <2>3 DEF CouponEditorFails, CartInv, DocumentInv, Resting
    <3>2. couponEditor[e].dels \subseteq CouponCodes
      BY <3>1 DEF CouponEdit
    <3> QED
      BY <2>1, <2>3, <3>2 DEF CouponEditorFails
  <2>4. CASE ~CouponEditorFails(e)
    BY <1>1, <2>2, <2>4 DEF CouponEditorStep, CreateCoupon, UpdateCoupon, DeleteCoupon, EditCoupon, FindCoupon,
       WriteCoupon, DelCopy, copyVars
  <2> QED
    BY <2>3, <2>4
<1>2. ASSUME NEW s \in Shoppers, ShopperStep(s) PROVE NotedTypes'
  <2>1. CASE FillCopy(s)
    <3>1. Asked(shopper[s]) \in CouponCodes
      BY <2>1, UnderWay DEF FillCopy, Rightly
    <3> QED
      BY <2>1, <3>1 DEF FillCopy, cartVars
  <2>2. CASE ~FillCopy(s)
    <3>1. UNCHANGED <<staleCodes, hour>> /\ basket' \in {basket, 0}
      BY <1>2, <2>2 DEF ShopperStep, GetCart, AskCheckout, ApplyCoupon, RemoveCoupon, MergeGuestCart,
         Ask, ReadBasket, LookUpCopy, FindByCode, Decide, ClearCode, Priced, ClearBasket, ReadBoth,
         WriteCode, copyVars, cartVars
    <3> QED
      BY <3>1
  <2> QED
    BY <2>1, <2>2
<1>3. CASE ChangeBasket \/ (\E k \in CouponCodes : ForgetCopy(k)) \/ UNCHANGED promotionVars
  BY <1>3 DEF ChangeBasket, ForgetCopy, promotionVars, copyVars, cartVars
<1>4. CASE PassHour
  BY <1>4, LastHourAssumption DEF PassHour, copyVars, cartVars
<1> QED
  BY <1>1, <1>2, <1>3, <1>4 DEF PromotionsNext

LEMMA StoreIsTyped ==
  ASSUME TreeInv, ShelfInv, JobTypes, Recent(searches, history), CartInv,
         UpsetTypes, ReaderTypes, ReviewTypes, SearchBounded, NotedTypes
  PROVE  StoreTypesOK
<1>1. CategoriesTypeOK
  <2>1. live \subseteq CategoryIds \ unused
    BY DEF TreeInv, CategoryTypes, Births, NotYet
  <2> QED
    BY <2>1 DEF TreeInv, CategoryTypes, UpsetTypes, CategoriesTypeOK
<1>2. ProductsTypeOK
  <2>1. ASSUME NEW p \in ProductIds, Exists(p)
        PROVE  product[p].slug \in ProductSlugs /\ ~SlugInUse(product[p].slug, p)
    <3>1. product[p] \in ProductDoc
      BY <2>1 DEF ShelfInv, ProductTypes, Exists
    <3>2. ~SlugInUse(product[p].slug, p)
      BY <2>1 DEF ShelfInv, SlugsDiffer, SlugInUse
    <3> QED
      BY <3>1, <3>2 DEF ProductDoc
  <2> QED
    BY <2>1 DEF ShelfInv, ProductTypes, ReaderTypes, ProductsTypeOK
<1>3. ReviewsTypeOK
  BY DEF ReviewTypes, Rates, ReviewsTypeOK
<1>4. SearchTypeOK
  BY DEF JobTypes, Recent, SearchBounded, SearchTypeOK
<1>5. PromotionsTypeOK
  <2>1. ASSUME NEW i \in CouponIds, Standing(i)
        PROVE  coupon[i].code \in CouponCodes /\ coupon[i].terms \in Copies
    BY <2>1 DEF CartInv, DocumentInv, Document, Standing, Copies
  <2> QED
    BY <2>1 DEF CartInv, NotedTypes, Codes, PromotionsTypeOK
<1> QED
  BY <1>1, <1>2, <1>3, <1>4, <1>5 DEF StoreTypesOK

\* Whatever happens to the catalogue, its variables have their types: slugs of
\* categories and of products are unique, an id is given out before its category
\* exists, only buyers have reviews and the rating is one of a count of them (or both
\* are zero), the history is no longer than its limit (the unique indexes, verifyBuyer,
\* getRatingAggregation and trackSearchQuery).
THEOREM StoreTypesCorrect == StoreSpec => []StoreTypesOK
<1> DEFINE Invs == TreeInv /\ ShelfInv /\ IndexInv /\ Recent(searches, history) /\ CartInv
           Types == UpsetTypes /\ ReaderTypes /\ ReviewTypes /\ SearchBounded /\ NotedTypes
<1>1. StoreInit => Invs
  <2>1. SearchInit => Recent(searches, history)
    BY HistoryLimitAssumption DEF SearchInit, Recent
  <2> QED
    BY <2>1, InitTreeInv, InitShelf, InitIndex, InitCart DEF StoreInit
<1>2. StoreInit => Types
  BY InitReaderTypes, InitReviewTypes, SearchFaultsAssumption, LastHourAssumption
  DEF StoreInit, CategoriesInit, SearchInit, PromotionsInit, UpsetTypes, SearchBounded, NotedTypes
<1>3. Invs /\ Types /\ [StoreNext]_storeVars => (Invs /\ Types)'
  BY StoreInTurn, TreeInvNext, ShelfInvNext, IndexInvNext, RecentNext, CartInvNext,
     UpsetTypesNext, ReaderTypesNext, ReviewTypesNext, SearchBoundedNext, NotedTypesNext
<1>4. Invs /\ Types => StoreTypesOK
  BY StoreIsTyped DEF IndexInv
<1> QED
  BY <1>1, <1>2, <1>3, <1>4, PTL DEF StoreSpec
=============================================================================
