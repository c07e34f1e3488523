------------------------------- MODULE MCStore -------------------------------
(***************************************************************************)
(* The catalogue on a small instance: categories, products, reviews, search *)
(* and promotions.  They share no state (a product is not told when its    *)
(* category changes, and events reach search and reviews as those modules  *)
(* say), so a behaviour is about one subject, which Init chooses, while    *)
(* the others rest: the states add up instead of multiplying.              *)
(***************************************************************************)
EXTENDS Categories, Products, Reviews, Search, Promotions, TLC

CONSTANTS
  top, sub,                         \* the categories at first; a third may be created
  slugA, slugB, slugC, slugD,
  p1, p2, t1, t2, shelf1, shelf2,   \* products, their slugs, their categories
  i1, i2, code1, code2              \* coupons and their codes

VARIABLE subject

MCInitialTrees ==
  {top :> [parent |-> NoCategory, slug |-> slugA, path |-> <<>>]
     @@ sub :> [parent |-> top, slug |-> slugB, path |-> <<slugA>>]}

Product(s, c) == [slug |-> s, category |-> c, categorySlug |-> <<c, 0>>, active |-> TRUE, rev |-> NoValue]
MCInitialProducts == p1 :> Product(t1, shelf1)
Change(o, p, s, c, a) == [op |-> o, id |-> p, slug |-> s, category |-> c, active |-> a]
MCChanges ==
  { Change("create", p2, t1, shelf1, TRUE), Change("create", p2, t2, shelf2, TRUE),
    Change("update", p1, t2, Same, Same), Change("update", p1, Same, shelf2, Same),
    Change("update", p1, Same, Same, FALSE), Change("update", p2, t1, Same, Same),
    Change("rate", p1, Same, Same, Same), Change("delete", p1, Same, Same, Same) }

TenPercent ==
  [isActive |-> TRUE, startDate |-> 0, expiresAt |-> 0, minOrderAmount |-> 0,
   discountType |-> "PERCENTAGE", discountValue |-> 10, maxDiscountAmount |-> 50,
   applicableTo |-> {1000}]
FiveHundred ==
  [TenPercent EXCEPT !.discountType = "FIXED_AMOUNT", !.discountValue = 500, !.expiresAt = 1,
                     !.applicableTo = {}]
Inactive == [FiveHundred EXCEPT !.isActive = FALSE]
Negative == [FiveHundred EXCEPT !.discountValue = -100]
MCInitialCoupons ==
  [i \in {i1, i2} |-> IF i = i1 THEN [code |-> code1, terms |-> FiveHundred] ELSE NoCoupon]
MCOfferedTerms == {TenPercent}
MCEditedTerms == {Inactive, Negative}

MCGarbled == {<<slugA, slugA>>}

MCSymmetry == Permutations(Editors)

Subjects == {"categories", "products", "reviews", "search", "history", "promotions"}

StoreInit ==
  /\ subject \in Subjects
  /\ CategoriesInit /\ ProductsInit /\ ReviewsInit /\ SearchInit /\ PromotionsInit

StoreNext ==
  \/ /\ subject = "categories" /\ CategoriesNext
     /\ UNCHANGED <<subject, productVars, reviewVars, searchVars, promotionVars>>
  \/ /\ subject = "products" /\ ProductsNext
     /\ UNCHANGED <<subject, catVars, reviewVars, searchVars, promotionVars>>
  \/ /\ subject = "reviews" /\ ReviewsNext
     /\ UNCHANGED <<subject, catVars, productVars, searchVars, promotionVars>>
  \/ /\ subject = "search" /\ IndexNext
     /\ UNCHANGED <<subject, catVars, productVars, reviewVars, promotionVars>>
  \/ /\ subject = "history" /\ HistoryNext
     /\ UNCHANGED <<subject, catVars, productVars, reviewVars, promotionVars>>
  \/ /\ subject = "promotions" /\ PromotionsNext
     /\ UNCHANGED <<subject, catVars, productVars, reviewVars, searchVars>>

storeVars == <<subject, catVars, productVars, reviewVars, searchVars, promotionVars>>

StoreSpec == StoreInit /\ [][StoreNext]_storeVars

-----------------------------------------------------------------------------
(* Every variable of the catalogue has its type. *)
StoreTypesOK ==
  /\ CategoriesTypeOK /\ ProductsTypeOK /\ ReviewsTypeOK /\ SearchTypeOK /\ PromotionsTypeOK

(* The categories are a tree unless a move under a descendant made a cycle, *)
(* and their paths follow their parents (Categories.OnlyMovesMakeCycles,   *)
(* Categories.PathsFollowParents, each with its exceptions).               *)
TreeHolds == OnlyMovesMakeCycles /\ PathsFollowParents

(* What a product stores of others follows them: its slug of a category is *)
(* one of the category it was put in, its rating the approved reviews      *)
(* (Products.CategorySlugFollows, Reviews.RatingsFollowReviews, each with  *)
(* its exceptions).                                                        *)
CopiesFollow == CategorySlugFollows /\ RatingsFollowReviews

(* What Redis holds of the catalogue is what the documents say, once the   *)
(* requests that change them are through: the tree of categories, products *)
(* and lists of them, coupons (Categories.TreeCacheIsFresh,                *)
(* Products.ProductCacheIsFresh, Promotions.CouponCopyIsFresh, each with   *)
(* its exceptions).                                                        *)
CachesAreFresh == TreeCacheIsFresh /\ ProductCacheIsFresh /\ CouponCopyIsFresh

(* The search index forgets the products whose deletion it was told of,    *)
(* and a user's history is what was searched last                          *)
(* (Search.DeletedAreForgotten, Search.HistoryIsRecent).                   *)
SearchFollows == DeletedAreForgotten /\ HistoryIsRecent

=============================================================================
