------------------------------ MODULE Reviews ------------------------------
(***************************************************************************)
(* Reviews of one product and its rating (src/src/modules/reviews).  A     *)
(* buyer submits a review, moderators approve and reject it, each by one   *)
(* unconditional write and then an outbox event.  When the event is        *)
(* delivered a listener aggregates the approved reviews and writes what it *)
(* found to the product.  Deliveries overlap, and may be repeated; an error *)
(* of a listener is logged, and its event is not delivered again for it.   *)
(*                                                                         *)
(* One customer writes one review; titles, images and helpful votes are    *)
(* left out, and the deletion of the product's cached copies is in         *)
(* Products (the writers with op "rate").                                  *)
(***************************************************************************)
EXTENDS Naturals, FiniteSets, Functions

CONSTANTS
  Customers,     \* each may review the product once: the unique index
  Buyers,        \* those with a delivered order of the product
  Stars,         \* ratings a review may give
  Moderators,    \* moderators' requests, each served once
  MaxReviewFaults

ASSUME StarsAssumption == Stars \subseteq 1..5
ASSUME BuyersAssumption == Buyers \subseteq Customers /\ IsFiniteSet(Buyers)

VARIABLES
  review,        \* by customer: none, or status and rating
  submission,    \* where each customer's request is
  moderation,    \* where each moderator's request is, and what it is about
  delivery,      \* by moderation: where its event is, and what its listener aggregated
  rating, reviewCount, \* of the product
  turns,         \* aggregations so far (history)
  lastTurn,      \* the aggregation the product's rating is from (history)
  overtaken,     \* whether an older aggregation ever replaced a newer one (history)
  lost,          \* the first aggregation to come after the last listener that failed (history)
  reviewFaults

reviewVars == <<review, submission, moderation, delivery, rating, reviewCount,
                turns, lastTurn, overtaken, lost, reviewFaults>>

ReviewStatus == {"PENDING", "APPROVED", "REJECTED"}
NoReview == [status |-> "none", stars |-> 0]
Unsent == [at |-> "none", turn |-> 0, average |-> 0, count |-> 0]

ReviewsInit ==
  /\ review = [c \in Customers |-> NoReview]
  /\ submission = [c \in Customers |-> "idle"]
  /\ moderation = [m \in Moderators |-> [at |-> "idle"]]
  /\ delivery = [m \in Moderators |-> Unsent]
  /\ rating = 0 /\ reviewCount = 0
  /\ turns = 0 /\ lastTurn = 0
  /\ overtaken = FALSE
  /\ lost = 0
  /\ reviewFaults = 0

-----------------------------------------------------------------------------
(* submitReview.  Its own event has no listener that changes anything here. *)

VerifyBuyer(c) ==
  /\ submission[c] = "idle"
  /\ submission' = [submission EXCEPT ![c] = IF c \in Buyers THEN "create" ELSE "done"]
  /\ UNCHANGED <<review, moderation, delivery, rating, reviewCount, turns, lastTurn, overtaken, lost, reviewFaults>>

CreateReview(c, n) ==
  /\ submission[c] = "create"
  /\ submission' = [submission EXCEPT ![c] = "done"]
  /\ review' = [review EXCEPT ![c] = IF @ = NoReview THEN [status |-> "PENDING", stars |-> n] ELSE @]
  /\ UNCHANGED <<moderation, delivery, rating, reviewCount, turns, lastTurn, overtaken, lost, reviewFaults>>

-----------------------------------------------------------------------------
(* approveReview and rejectReview *)

UpdateStatus(m, c, s) ==
  /\ moderation[m].at = "idle"
  /\ IF review[c] = NoReview
     THEN moderation' = [moderation EXCEPT ![m] = [at |-> "done"]] /\ UNCHANGED review
     ELSE /\ review' = [review EXCEPT ![c].status = s]
          /\ moderation' = [moderation EXCEPT ![m] = [at |-> "event"]]
  /\ UNCHANGED <<submission, delivery, rating, reviewCount, turns, lastTurn, overtaken, lost, reviewFaults>>

SaveReviewEvent(m) ==
  /\ moderation[m].at = "event"
  /\ moderation' = [moderation EXCEPT ![m] = [at |-> "done"]]
  /\ delivery' = [delivery EXCEPT ![m].at = "saved"]
  /\ UNCHANGED <<review, submission, rating, reviewCount, turns, lastTurn, overtaken, lost, reviewFaults>>

-----------------------------------------------------------------------------
(* handleReviewApproved and handleReviewRejected: the same code twice.      *)

\* Math.round(average * 10) / 10, in tenths.
Tenths(sum, n) == (20 * sum + n) \div (2 * n)

\* Variant: reviews that await moderation count as well.
NotRejected == {c \in Customers : review[c].status \in {"PENDING", "APPROVED"}}
Counted == {c \in Customers : review[c].status = "APPROVED"}

Average(stars) ==
  IF DOMAIN stars = {} THEN 0 ELSE Tenths(SumFunction(stars), Cardinality(DOMAIN stars))

TotalCount == Cardinality(Counted)
AverageRating == Average([c \in Counted |-> review[c].stars])

Aggregate(m) ==
  /\ delivery[m].at = "saved"
  /\ delivery' = [delivery EXCEPT ![m] =
       [at |-> "aggregated", turn |-> turns + 1, average |-> AverageRating, count |-> TotalCount]]
  /\ turns' = turns + 1
  /\ UNCHANGED <<review, submission, moderation, rating, reviewCount, lastTurn, overtaken, lost, reviewFaults>>

\* Variant: a rejection leaves the rating as it is.
StoreIfRaised(m) ==
  /\ delivery[m].at = "aggregated"
  /\ IF delivery[m].count >= reviewCount
     THEN rating' = delivery[m].average /\ reviewCount' = delivery[m].count
     ELSE UNCHANGED <<rating, reviewCount>>
  /\ overtaken' = (overtaken \/ delivery[m].turn < lastTurn)
  /\ lastTurn' = delivery[m].turn
  /\ delivery' = [delivery EXCEPT ![m] = [Unsent EXCEPT !.at = "handled"]]
  /\ UNCHANGED <<review, submission, moderation, turns, lost, reviewFaults>>

StoreRating(m) ==
  /\ delivery[m].at = "aggregated"
  /\ rating' = delivery[m].average
  /\ reviewCount' = delivery[m].count
  /\ overtaken' = (overtaken \/ delivery[m].turn < lastTurn)
  /\ lastTurn' = delivery[m].turn
  /\ delivery' = [delivery EXCEPT ![m] = [Unsent EXCEPT !.at = "handled"]]
  /\ UNCHANGED <<review, submission, moderation, turns, lost, reviewFaults>>

\* The aggregation or the write of its result throws; the event counts as handled.
\* A throwing write that was applied is StoreRating.
ListenerFails(m) ==
  /\ delivery[m].at \in {"saved", "aggregated"}
  /\ reviewFaults < MaxReviewFaults
  /\ reviewFaults' = reviewFaults + 1
  /\ delivery' = [delivery EXCEPT ![m] = [Unsent EXCEPT !.at = "handled"]]
  /\ lost' = turns + 1
  /\ UNCHANGED <<review, submission, moderation, rating, reviewCount, turns, lastTurn, overtaken>>

\* The outbox delivers an event again (markPublished failed).
Redeliver(m) ==
  /\ delivery[m].at = "handled"
  /\ reviewFaults < MaxReviewFaults
  /\ reviewFaults' = reviewFaults + 1
  /\ delivery' = [delivery EXCEPT ![m] = [Unsent EXCEPT !.at = "saved"]]
  /\ UNCHANGED <<review, submission, moderation, rating, reviewCount, turns, lastTurn, overtaken, lost>>

-----------------------------------------------------------------------------

ReviewsNext ==
  \/ \E c \in Customers : VerifyBuyer(c) \/ (\E n \in Stars : CreateReview(c, n))
  \/ \E m \in Moderators :
       \/ \E c \in Customers, s \in {"APPROVED", "REJECTED"} : UpdateStatus(m, c, s)
       \/ SaveReviewEvent(m) \/ Aggregate(m) \/ StoreRating(m) \/ ListenerFails(m) \/ Redeliver(m)

ReviewsSpec == ReviewsInit /\ [][ReviewsNext]_reviewVars

-----------------------------------------------------------------------------

ReviewsTypeOK ==
  /\ review \in [Customers -> [status : ReviewStatus, stars : Stars] \union {NoReview}]
  /\ \A c \in Customers : review[c] # NoReview => c \in Buyers
  /\ rating \in 0..50 /\ reviewCount \in 0..Cardinality(Buyers)
  /\ reviewCount = 0 <=> rating = 0

\* Once every moderation's event has been handled, the rating and the count of
\* the product are those of its approved reviews, in whatever order events were
\* delivered and however often - unless a listener that aggregated earlier stored
\* its result later than another, which nothing prevents, or one failed and no
\* later aggregation has been stored yet.
RatingsFollowReviews ==
  /\ \A m \in Moderators : moderation[m].at # "event" /\ delivery[m].at \in {"none", "handled"}
  /\ ~overtaken
  /\ lost <= lastTurn
  => rating = AverageRating /\ reviewCount = TotalCount
=============================================================================
