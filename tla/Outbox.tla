------------------------------- MODULE Outbox -------------------------------
(***************************************************************************)
(* The transactional outbox (src/src/infrastructure/outbox): events saved  *)
(* by the domain services, and the polling workers (one per API replica)   *)
(* that claim batches of them, hand each one to the in-process listeners   *)
(* with emitAsync, and record the outcome.  Every database call is a step  *)
(* of its own; a worker can die between two of them, and a call can fail   *)
(* before or after the database has applied it.                            *)
(***************************************************************************)
EXTENDS Naturals, FiniteSets

CONSTANTS
  NumEvents,       \* events are numbered in creation order
  Workers,         \* OutboxWorker instances polling the collection
  BatchSize,       \* outbox.batchSize
  MaxRetries,      \* outbox.maxRetries
  MaxFaults        \* bound on crashes and failed database calls

ASSUME OutboxAssumption ==
  /\ NumEvents \in Nat
  /\ BatchSize \in Nat \ {0}
  /\ MaxRetries \in Nat \ {0}
  /\ MaxFaults \in Nat

Events == 1..NumEvents

VARIABLES
  status,     \* status of each event document ("none": not saved yet)
  retryCount, \* retryCount of each event document
  stage,      \* what each worker is doing with each event of its batch
  readCount,  \* the retryCount a worker's markFailed has read
  emitted,    \* how often each event was handed to the listeners (history)
  handled,    \* events whose listeners all succeeded once (history)
  doubtful,   \* events a worker went on with unclaimed, or whose failed markPublished
              \* was applied (history)
  dropped,    \* events a crash or a failed call may have left claimed (history)
  faults      \* crashes and failed calls so far

vars == <<status, retryCount, stage, readCount, emitted, handled, doubtful, dropped, faults>>

Statuses == {"none", "PENDING", "PROCESSING", "PUBLISHED", "FAILED", "purged"}
Stages == {"none", "found", "emit", "publish", "fail", "retry"}
Working == {"emit", "publish", "fail", "retry"}

Init ==
  /\ status = [e \in Events |-> "none"]
  /\ retryCount = [e \in Events |-> 0]
  /\ stage = [w \in Workers |-> [e \in Events |-> "none"]]
  /\ readCount = [w \in Workers |-> [e \in Events |-> 0]]
  /\ emitted = [e \in Events |-> 0]
  /\ handled = {}
  /\ doubtful = {}
  /\ dropped = {}
  /\ faults = 0

Batch(w, s) == {e \in Events : stage[w][e] = s}
\* isRunning: the worker's processEvents has not returned yet.
Idle(w) == \A e \in Events : stage[w][e] = "none"
To(w, e, s) == stage' = [stage EXCEPT ![w][e] = s]
Fault == faults < MaxFaults /\ faults' = faults + 1

\* OutboxService.saveEvent: createdAt grows with every event.
Save(e) ==
  /\ status[e] = "none"
  /\ \A f \in Events : f < e => status[f] # "none"
  /\ status' = [status EXCEPT ![e] = "PENDING"]
  /\ UNCHANGED <<retryCount, stage, readCount, emitted, handled, doubtful, dropped, faults>>

-----------------------------------------------------------------------------
(* processEvents *)

\* The n oldest events of S.
Oldest(S, n) == {e \in S : Cardinality({f \in S : f < e}) < n}

\* findPendingBatch, unless the previous run of this worker is still going on.
Poll(w) ==
  LET found == Oldest({e \in Events : status[e] = "PENDING"}, BatchSize) IN
  /\ Idle(w)
  /\ found # {}
  /\ stage' = [stage EXCEPT ![w] = [e \in Events |-> IF e \in found THEN "found" ELSE "none"]]
  /\ UNCHANGED <<status, retryCount, readCount, emitted, handled, doubtful, dropped, faults>>

\* What w found and another worker has claimed in the meantime.
Missed(w) == {e \in Batch(w, "found") : status[e] # "PENDING"}

\* Variant: the claim already records the events as published.
ClaimAsPublished(w) ==
  /\ Batch(w, "found") # {}
  /\ status' = [e \in Events |-> IF e \in Batch(w, "found") THEN "PUBLISHED" ELSE status[e]]
  /\ stage' = [stage EXCEPT ![w] = [e \in Events |-> IF @[e] = "found" THEN "emit" ELSE @[e]]]
  /\ doubtful' = doubtful \union Missed(w)
  /\ UNCHANGED <<retryCount, readCount, emitted, handled, dropped, faults>>

\* claimBatch moves to PROCESSING what is still PENDING; the worker goes on
\* with everything it found, whatever the update matched.
Claim(w) ==
  /\ Batch(w, "found") # {}
  /\ status' = [e \in Events |->
       IF e \in Batch(w, "found") /\ status[e] = "PENDING" THEN "PROCESSING" ELSE status[e]]
  /\ stage' = [stage EXCEPT ![w] = [e \in Events |-> IF @[e] = "found" THEN "emit" ELSE @[e]]]
  /\ doubtful' = doubtful \union Missed(w)
  /\ UNCHANGED <<retryCount, readCount, emitted, handled, dropped, faults>>

\* The updateMany fails, with any part of the batch claimed: processEvents logs
\* it and returns.
ClaimFails(w) ==
  /\ Batch(w, "found") # {}
  /\ Fault
  /\ \E S \in SUBSET (Batch(w, "found") \ Missed(w)) :
       /\ status' = [e \in Events |-> IF e \in S THEN "PROCESSING" ELSE status[e]]
       /\ dropped' = dropped \union S
  /\ stage' = [stage EXCEPT ![w] = [e \in Events |-> "none"]]
  /\ UNCHANGED <<retryCount, readCount, emitted, handled, doubtful>>

-----------------------------------------------------------------------------
(* publishEvent, run for every event of the batch in parallel *)

\* emitAsync: the listeners run.  EventEmitterModule.forRoot({ wildcard: true })
\* leaves suppressErrors on, so a listener that fails is logged by its wrapper
\* and the promise fulfils all the same.
Emit(w, e) ==
  /\ stage[w][e] = "emit"
  /\ emitted' = [emitted EXCEPT ![e] = @ + 1]
  /\ handled' \in {handled, handled \union {e}}
  /\ To(w, e, "publish")
  /\ UNCHANGED <<status, retryCount, readCount, doubtful, dropped, faults>>

\* updateOne matches nothing when the TTL index has purged the document.
Written(e, s) == IF status[e] = "purged" THEN "purged" ELSE s

\* Variant: the statement after markPublished throws, still inside the try.
MarkPublishedThenThrow(w, e) ==
  /\ stage[w][e] = "publish"
  /\ status' = [status EXCEPT ![e] = Written(e, "PUBLISHED")]
  /\ To(w, e, "fail")
  /\ UNCHANGED <<retryCount, readCount, emitted, handled, doubtful, dropped, faults>>

MarkPublished(w, e) ==
  /\ stage[w][e] = "publish"
  /\ status' = [status EXCEPT ![e] = Written(e, "PUBLISHED")]
  /\ To(w, e, "none")
  /\ UNCHANGED <<retryCount, readCount, emitted, handled, doubtful, dropped, faults>>

\* markPublished is inside the try, and it can fail with its write applied.
MarkPublishedFails(w, e) ==
  /\ stage[w][e] = "publish"
  /\ Fault
  /\ \/ UNCHANGED <<status, doubtful>>
     \/ /\ status' = [status EXCEPT ![e] = Written(e, "PUBLISHED")]
        /\ doubtful' = doubtful \union {e}
  /\ To(w, e, "fail")
  /\ UNCHANGED <<retryCount, readCount, emitted, handled, dropped>>

\* markFailed reads the document, then writes: two steps.
ReadRetryCount(w, e) ==
  /\ stage[w][e] = "fail"
  /\ \/ status[e] = "purged" /\ To(w, e, "none") /\ UNCHANGED readCount
     \/ /\ status[e] # "purged"
        /\ readCount' = [readCount EXCEPT ![w][e] = retryCount[e]]
        /\ To(w, e, "retry")
  /\ UNCHANGED <<status, retryCount, emitted, handled, doubtful, dropped, faults>>

\* Variant: a failed event is left claimed.
AfterFailureStuck(n) == IF n >= MaxRetries THEN "FAILED" ELSE "PROCESSING"

AfterFailure(n) == IF n >= MaxRetries THEN "FAILED" ELSE "PENDING"

WriteFailure(w, e) ==
  LET n == readCount[w][e] + 1 IN
  /\ status' = [status EXCEPT ![e] = Written(e, AfterFailure(n))]
  /\ retryCount' = [retryCount EXCEPT ![e] = n]

MarkFailed(w, e) ==
  /\ stage[w][e] = "retry"
  /\ WriteFailure(w, e)
  /\ To(w, e, "none")
  /\ UNCHANGED <<readCount, emitted, handled, doubtful, dropped, faults>>

\* Either call of markFailed fails, the write before or after it was applied:
\* allSettled swallows the rejection.
MarkFailedFails(w, e) ==
  /\ stage[w][e] \in {"fail", "retry"}
  /\ Fault
  /\ \/ /\ dropped' = dropped \union {e}
        /\ UNCHANGED <<status, retryCount>>
     \/ /\ stage[w][e] = "retry" /\ WriteFailure(w, e)
        /\ UNCHANGED dropped
  /\ To(w, e, "none")
  /\ UNCHANGED <<readCount, emitted, handled, doubtful>>

-----------------------------------------------------------------------------
(* The environment *)

\* The process dies and restarts; isRunning and the batch were in memory.
Crash(w) ==
  /\ ~Idle(w)
  /\ Fault
  /\ stage' = [stage EXCEPT ![w] = [e \in Events |-> "none"]]
  /\ dropped' = dropped \union {e \in Events : stage[w][e] \in Working}
  /\ UNCHANGED <<status, retryCount, readCount, emitted, handled, doubtful>>

\* The TTL index on publishedAt, seven days later: no worker still has it.
Purge(e) ==
  /\ status[e] = "PUBLISHED"
  /\ \A w \in Workers : stage[w][e] = "none"
  /\ status' = [status EXCEPT ![e] = "purged"]
  /\ UNCHANGED <<retryCount, stage, readCount, emitted, handled, doubtful, dropped, faults>>

Publish(w, e) ==
  Emit(w, e) \/ MarkPublished(w, e) \/ ReadRetryCount(w, e) \/ MarkFailed(w, e)

Next ==
  \/ \E e \in Events : Save(e) \/ Purge(e)
  \/ \E w \in Workers :
       \/ Poll(w) \/ Claim(w) \/ ClaimFails(w) \/ Crash(w)
       \/ \E e \in Events :
            Publish(w, e) \/ MarkPublishedFails(w, e) \/ MarkFailedFails(w, e)

Spec == Init /\ [][Next]_vars

\* setInterval keeps polling, and a call that was made returns.
FairSpec ==
  /\ Spec
  /\ \A w \in Workers :
       /\ WF_vars(Poll(w)) /\ WF_vars(Claim(w))
       /\ \A e \in Events : WF_vars(Publish(w, e))

-----------------------------------------------------------------------------
(* Properties *)

TypeOK ==
  /\ status \in [Events -> Statuses]
  /\ retryCount \in [Events -> Nat]
  /\ stage \in [Workers -> [Events -> Stages]]
  /\ readCount \in [Workers -> [Events -> Nat]]
  /\ emitted \in [Events -> Nat]
  /\ handled \subseteq Events
  /\ doubtful \subseteq Events
  /\ dropped \subseteq Events
  /\ faults \in 0..MaxFaults

\* At-least-once: no event counts as published, and none is purged, before it
\* has been handed to the listeners - with any number of workers, crashes and
\* failed calls.
PublishedWasEmitted ==
  \A e \in Events : status[e] \in {"PUBLISHED", "purged"} => emitted[e] > 0

\* Once published, an event is never put back or failed, a late markFailed of
\* another worker included - unless a worker had gone on with it unclaimed, or
\* the markPublished that published it reported a failure.
PublishedIsFinal ==
  [][\A e \in Events \ doubtful :
       status[e] = "PUBLISHED" => status'[e] \in {"PUBLISHED", "purged"}]_vars

Settled(e) == status[e] \in {"PUBLISHED", "FAILED", "purged"}

\* Every saved event is eventually published, or failed after its retries,
\* however many workers share it and whichever calls fail, unless a process or
\* the call that would let it go failed while it was claimed.
SettledUnlessDropped ==
  \A e \in Events : status[e] = "PENDING" ~> Settled(e) \/ e \in dropped

\* "guaranteed zero-data-loss delivery": the same, whatever fails.
EventuallySettled == \A e \in Events : status[e] = "PENDING" ~> Settled(e)

\* "Worker retries on failure up to maxRetries": an event counts as published
\* only when a delivery of it succeeded.
PublishedWasHandled ==
  \A e \in Events : status[e] \in {"PUBLISHED", "purged"} => e \in handled
=============================================================================
