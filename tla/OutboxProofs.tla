---------------------------- MODULE OutboxProofs ----------------------------
(***************************************************************************)
(* Proofs about Outbox.tla for any number of events, workers, retries and  *)
(* faults: an event is never recorded as published before it was delivered,*)
(* and once published it stays so unless it is one of the doubtful ones.   *)
(***************************************************************************)
EXTENDS Outbox, TLAPS

\* What a worker about to mark an event as published knows about it.
DeliveryInv ==
  /\ \A w \in Workers, e \in Events : stage[w][e] = "publish" => emitted[e] > 0
  /\ \A e \in Events : status[e] \in {"PUBLISHED", "purged"} => emitted[e] > 0

IInv == TypeOK /\ DeliveryInv

\* Steps that change no delivery history and mark nothing as published.
LEMMA QuietStep ==
  ASSUME IInv, TypeOK', UNCHANGED emitted,
         \A w \in Workers, e \in Events :
           stage'[w][e] = "publish" => stage[w][e] = "publish",
         \A e \in Events :
           status'[e] \in {"PUBLISHED", "purged"} =>
             \/ status[e] \in {"PUBLISHED", "purged"}
             \/ \E w \in Workers : stage[w][e] = "publish"
  PROVE  IInv'
BY DEF IInv, DeliveryInv

LEMMA WorkerTypes ==
  ASSUME TypeOK, NEW w \in Workers, NEW e \in Events, NEW s \in Stages
  PROVE  /\ [stage EXCEPT ![w][e] = s] \in [Workers -> [Events -> Stages]]
         /\ \A v \in Workers, f \in Events :
              [stage EXCEPT ![w][e] = s][v][f] = IF v = w /\ f = e THEN s ELSE stage[v][f]
BY DEF TypeOK

LEMMA BatchTypes ==
  ASSUME TypeOK, NEW w \in Workers, NEW f \in [Events -> Stages]
  PROVE  /\ [stage EXCEPT ![w] = f] \in [Workers -> [Events -> Stages]]
         /\ \A v \in Workers, e \in Events :
              [stage EXCEPT ![w] = f][v][e] = IF v = w THEN f[e] ELSE stage[v][e]
BY DEF TypeOK

LEMMA FaultTypes == ASSUME TypeOK, Fault PROVE faults' \in 0..MaxFaults
BY OutboxAssumption DEF TypeOK, Fault

LEMMA EventSteps ==
  ASSUME IInv, NEW e \in Events, Save(e) \/ Purge(e)
  PROVE  IInv'
<1>1. CASE Save(e)
  <2>1. TypeOK' /\ UNCHANGED <<emitted, stage>>
    BY <1>1 DEF Save, IInv, TypeOK, Statuses
  <2>2. \A f \in Events : status'[f] = "PENDING" \/ status'[f] = status[f]
    BY <1>1 DEF Save, IInv, TypeOK
  <2>3. QED
    BY <2>1, <2>2, QuietStep
<1>2. CASE Purge(e)
  <2>1. TypeOK' /\ UNCHANGED <<emitted, stage>>
    BY <1>2 DEF Purge, IInv, TypeOK, Statuses
  <2>2. \A f \in Events : status'[f] = status[f] \/ status[f] = "PUBLISHED"
    BY <1>2 DEF Purge, IInv, TypeOK
  <2>3. QED
    BY <2>1, <2>2, QuietStep
<1>3. QED
  BY <1>1, <1>2

LEMMA BatchSteps ==
  ASSUME IInv, NEW w \in Workers, Poll(w) \/ Claim(w) \/ ClaimFails(w) \/ Crash(w)
  PROVE  IInv'
<1>1. CASE Poll(w)
  <2>1. PICK f \in [Events -> {"found", "none"}] : stage' = [stage EXCEPT ![w] = f]
    BY <1>1 DEF Poll
  <2>2. UNCHANGED <<status, retryCount, readCount, emitted, handled, doubtful, dropped, faults>>
    BY <1>1 DEF Poll
  <2>3. f \in [Events -> Stages]
    BY DEF Stages
  <2>4. QED
    BY <2>1, <2>2, <2>3, BatchTypes, QuietStep DEF IInv, TypeOK
<1>2. CASE Claim(w)
  <2> DEFINE f == [e \in Events |-> IF stage[w][e] = "found" THEN "emit" ELSE stage[w][e]]
  <2>1. /\ stage' = [stage EXCEPT ![w] = f]
        /\ doubtful' \subseteq Events
        /\ UNCHANGED <<retryCount, readCount, emitted, handled, dropped, faults>>
    BY <1>2 DEF Claim, Missed, Batch, IInv, TypeOK
  <2>2. f \in [Events -> Stages]
    BY DEF IInv, TypeOK, Stages
  <2>3. /\ status' \in [Events -> Statuses]
        /\ \A e \in Events : status'[e] = status[e] \/ status'[e] = "PROCESSING"
    BY <1>2 DEF Claim, IInv, TypeOK, Statuses
  <2>4. \A e \in Events : f[e] = "publish" => stage[w][e] = "publish"
    OBVIOUS
  <2> HIDE DEF f
  <2>5. QED
    BY <2>1, <2>2, <2>3, <2>4, BatchTypes, QuietStep DEF IInv, TypeOK
<1>3. CASE ClaimFails(w) \/ Crash(w)
  <2>1. /\ stage' = [stage EXCEPT ![w] = [e \in Events |-> "none"]] /\ Fault
        /\ UNCHANGED <<retryCount, readCount, emitted, handled, doubtful>>
    BY <1>3 DEF ClaimFails, Crash
  <2>2. [e \in Events |-> "none"] \in [Events -> Stages]
    BY DEF Stages
  <2>3. faults' \in 0..MaxFaults
    BY <2>1, FaultTypes DEF IInv
  <2>4. /\ status' \in [Events -> Statuses] /\ dropped' \subseteq Events
        /\ \A e \in Events : status'[e] = status[e] \/ status'[e] = "PROCESSING"
    BY <1>3 DEF ClaimFails, Crash, Batch, IInv, TypeOK, Statuses
  <2>5. QED
    BY <2>1, <2>2, <2>3, <2>4, BatchTypes, QuietStep DEF IInv, TypeOK
<1>4. QED
  BY <1>1, <1>2, <1>3

LEMMA PublishSteps ==
  ASSUME IInv, NEW w \in Workers, NEW e \in Events,
         Publish(w, e) \/ MarkPublishedFails(w, e) \/ MarkFailedFails(w, e)
  PROVE  IInv'
<1>1. CASE Emit(w, e)
  <2>1. /\ To(w, e, "publish")
        /\ handled' \in {handled, handled \union {e}}
        /\ emitted' = [emitted EXCEPT ![e] = @ + 1]
        /\ UNCHANGED <<status, retryCount, readCount, doubtful, dropped, faults>>
    BY <1>1 DEF Emit
  <2>2. TypeOK'
    BY <2>1, WorkerTypes DEF IInv, TypeOK, Stages, To
  <2>3. emitted'[e] > 0 /\ \A f \in Events : emitted[f] > 0 => emitted'[f] > 0
    BY <2>1 DEF IInv, TypeOK
  <2>4. \A v \in Workers, f \in Events :
          stage'[v][f] = IF v = w /\ f = e THEN "publish" ELSE stage[v][f]
    BY <2>1, WorkerTypes DEF IInv, To, Stages
  <2>5. QED
    BY <2>1, <2>2, <2>3, <2>4 DEF IInv, DeliveryInv
<1>2. CASE MarkPublished(w, e)
  <2>1. /\ To(w, e, "none") /\ stage[w][e] = "publish"
        /\ UNCHANGED <<retryCount, readCount, emitted, handled, doubtful, dropped, faults>>
        /\ status' = [status EXCEPT ![e] = Written(e, "PUBLISHED")]
    BY <1>2 DEF MarkPublished
  <2>2. TypeOK'
    BY <2>1, WorkerTypes DEF IInv, TypeOK, Stages, Statuses, To, Written
  <2>3. \A f \in Events : f # e => status'[f] = status[f]
    BY <2>1 DEF IInv, TypeOK
  <2>4. \A v \in Workers, f \in Events : stage'[v][f] = "publish" => stage[v][f] = "publish"
    BY <2>1, WorkerTypes DEF IInv, To, Stages
  <2>5. QED
    BY <2>1, <2>2, <2>3, <2>4, QuietStep
<1>3. CASE MarkFailed(w, e)
  <2> DEFINE n == readCount[w][e] + 1
  <2>1. /\ To(w, e, "none")
        /\ UNCHANGED <<readCount, emitted, handled, doubtful, dropped, faults>>
        /\ status' = [status EXCEPT ![e] = Written(e, AfterFailure(n))]
        /\ retryCount' = [retryCount EXCEPT ![e] = n]
    BY <1>3 DEF MarkFailed, WriteFailure
  <2>2. n \in Nat
    BY DEF IInv, TypeOK
  <2> HIDE DEF n
  <2>3. TypeOK'
    BY <2>1, <2>2, WorkerTypes DEF IInv, TypeOK, Stages, Statuses, To, Written, AfterFailure
  <2>4. \A f \in Events : status'[f] \in {"PUBLISHED", "purged"} => status[f] \in {"PUBLISHED", "purged"}
    BY <2>1 DEF IInv, TypeOK, Written, AfterFailure
  <2>5. \A v \in Workers, f \in Events : stage'[v][f] = "publish" => stage[v][f] = "publish"
    BY <2>1, WorkerTypes DEF IInv, To, Stages
  <2>6. QED
    BY <2>1, <2>3, <2>4, <2>5, QuietStep
<1>4. CASE ReadRetryCount(w, e)
  <2>1. PICK s \in {"none", "retry"} : To(w, e, s)
    BY <1>4 DEF ReadRetryCount
  <2>2. /\ UNCHANGED <<status, retryCount, emitted, handled, doubtful, dropped, faults>>
        /\ readCount' \in {readCount, [readCount EXCEPT ![w][e] = retryCount[e]]}
    BY <1>4 DEF ReadRetryCount
  <2>3. readCount' \in [Workers -> [Events -> Nat]]
    <3>1. [readCount[w] EXCEPT ![e] = retryCount[e]] \in [Events -> Nat]
      BY DEF IInv, TypeOK
    <3>2. [readCount EXCEPT ![w][e] = retryCount[e]] \in [Workers -> [Events -> Nat]]
      BY <3>1 DEF IInv, TypeOK
    <3>3. QED
      BY <2>2, <3>2 DEF IInv, TypeOK
  <2>4. stage' \in [Workers -> [Events -> Stages]]
    BY <2>1, WorkerTypes DEF IInv, To, Stages
  <2>5. TypeOK'
    BY <2>2, <2>3, <2>4 DEF IInv, TypeOK
  <2>6. \A v \in Workers, f \in Events : stage'[v][f] = "publish" => stage[v][f] = "publish"
    BY <2>1, WorkerTypes DEF IInv, To, Stages
  <2>7. QED
    BY <2>2, <2>5, <2>6, QuietStep
<1>5. CASE MarkPublishedFails(w, e)
  <2>1. /\ To(w, e, "fail") /\ stage[w][e] = "publish" /\ Fault
        /\ UNCHANGED <<retryCount, readCount, emitted, handled, dropped>>
        /\ doubtful' \in {doubtful, doubtful \union {e}}
        /\ status' \in {status, [status EXCEPT ![e] = Written(e, "PUBLISHED")]}
    BY <1>5 DEF MarkPublishedFails
  <2>2. TypeOK'
    BY <2>1, WorkerTypes, FaultTypes DEF IInv, TypeOK, Stages, Statuses, To, Written
  <2>3. \A f \in Events : f # e => status'[f] = status[f]
    BY <2>1 DEF IInv, TypeOK
  <2>4. \A v \in Workers, f \in Events : stage'[v][f] = "publish" => stage[v][f] = "publish"
    BY <2>1, WorkerTypes DEF IInv, To, Stages
  <2>5. QED
    BY <2>1, <2>2, <2>3, <2>4, QuietStep
<1>6. CASE MarkFailedFails(w, e)
  <2> DEFINE n == readCount[w][e] + 1
  <2>1. /\ To(w, e, "none") /\ Fault
        /\ UNCHANGED <<readCount, emitted, handled, doubtful>>
        /\ dropped' \in {dropped, dropped \union {e}}
        /\ status' \in {status, [status EXCEPT ![e] = Written(e, AfterFailure(n))]}
        /\ retryCount' \in {retryCount, [retryCount EXCEPT ![e] = n]}
    BY <1>6 DEF MarkFailedFails, WriteFailure
  <2>2. n \in Nat
    BY DEF IInv, TypeOK
  <2> HIDE DEF n
  <2>3. TypeOK'
    <3>1. stage' \in [Workers -> [Events -> Stages]] /\ faults' \in 0..MaxFaults
      BY <2>1, WorkerTypes, FaultTypes DEF IInv, Stages, To
    <3>2. Written(e, AfterFailure(n)) \in Statuses
      BY DEF Written, AfterFailure, Statuses
    <3>3. status' \in [Events -> Statuses] /\ retryCount' \in [Events -> Nat]
      BY <2>1, <2>2, <3>2 DEF IInv, TypeOK
    <3>4. QED
      BY <2>1, <3>1, <3>3 DEF IInv, TypeOK
  <2>4. \A f \in Events : status'[f] \in {"PUBLISHED", "purged"} => status[f] \in {"PUBLISHED", "purged"}
    BY <2>1 DEF IInv, TypeOK, Written, AfterFailure
  <2>5. \A v \in Workers, f \in Events : stage'[v][f] = "publish" => stage[v][f] = "publish"
    BY <2>1, WorkerTypes DEF IInv, To, Stages
  <2>6. QED
    BY <2>1, <2>3, <2>4, <2>5, QuietStep
<1>7. QED
  BY <1>1, <1>2, <1>3, <1>4, <1>5, <1>6 DEF Publish

LEMMA Invariance == Spec => []IInv
<1>1. Init => IInv
  <2> SUFFICES ASSUME Init PROVE IInv
    OBVIOUS
  <2>1. [e \in Events |-> "none"] \in [Events -> Stages]
    BY DEF Stages
  <2>2. stage \in [Workers -> [Events -> Stages]]
    BY <2>1 DEF Init
  <2>3. [e \in Events |-> 0] \in [Events -> Nat]
    OBVIOUS
  <2>4. readCount \in [Workers -> [Events -> Nat]]
    BY <2>3 DEF Init
  <2>5. doubtful \subseteq Events /\ dropped \subseteq Events
    BY DEF Init
  <2>6. faults \in 0..MaxFaults
    BY OutboxAssumption DEF Init
  <2>7. status \in [Events -> Statuses] /\ handled \subseteq Events
    BY DEF Init, Statuses
  <2>8. TypeOK
    BY <2>2, <2>3, <2>4, <2>5, <2>6, <2>7 DEF Init, TypeOK
  <2>9. DeliveryInv
    BY DEF Init, DeliveryInv
  <2>10. QED
    BY <2>8, <2>9 DEF IInv
<1>2. IInv /\ [Next]_vars => IInv'
  <2>1. ASSUME IInv, UNCHANGED vars PROVE IInv'
    BY <2>1 DEF vars, IInv, TypeOK, DeliveryInv
  <2>2. QED
    BY <2>1, EventSteps, BatchSteps, PublishSteps DEF Next
<1>3. QED
  BY <1>1, <1>2, PTL DEF Spec

\* The status of every event, the stages of every worker and the counters keep
\* their ranges, however many workers share the events.
THEOREM TypeCorrect == Spec => []TypeOK
<1>1. IInv => TypeOK
  BY DEF IInv
<1>2. QED
  BY <1>1, Invariance, PTL

\* At-least-once: with any number of workers, crashes, failed calls and
\* reordered outcomes, a published event has been handed to the listeners.
THEOREM AtLeastOnce == Spec => []PublishedWasEmitted
<1>1. IInv => PublishedWasEmitted
  BY DEF IInv, DeliveryInv, PublishedWasEmitted
<1>2. QED
  BY <1>1, Invariance, PTL

-----------------------------------------------------------------------------
(* Events that are in doubt for nobody. *)

\* A worker that works on an event not in doubt has it claimed, and alone.
ClaimInv ==
  \A w \in Workers, e \in Events \ doubtful : stage[w][e] \in Working =>
    /\ status[e] = "PROCESSING"
    /\ \A v \in Workers : stage[v][e] \in Working => v = w

\* A step of a worker on an event of its batch, that goes on with it as it is,
\* lets it go or puts it in doubt.
LEMMA OwnEventStep ==
  ASSUME TypeOK, ClaimInv, NEW w \in Workers, NEW e \in Events, NEW s \in Stages,
         To(w, e, s), doubtful \subseteq doubtful', stage[w][e] \in Working,
         \A f \in Events \ {e} : status'[f] = status[f],
         s \in Working => status'[e] = status[e] \/ e \in doubtful'
  PROVE  ClaimInv'
<1>1. \A v \in Workers, f \in Events : stage'[v][f] = IF v = w /\ f = e THEN s ELSE stage[v][f]
  BY WorkerTypes DEF To
<1>2. QED
  BY <1>1 DEF ClaimInv

LEMMA NextClaim == IInv /\ ClaimInv /\ [Next]_vars => ClaimInv'
<1> SUFFICES ASSUME TypeOK, ClaimInv, [Next]_vars PROVE ClaimInv'
  BY DEF IInv
<1>1. CASE UNCHANGED vars
  BY <1>1 DEF vars, ClaimInv
<1>2. ASSUME NEW e \in Events, Save(e) \/ Purge(e) PROVE ClaimInv'
  <2>1. UNCHANGED <<stage, doubtful>> /\ \A f \in Events : status[f] = "PROCESSING" => status'[f] = status[f]
    BY <1>2 DEF Save, Purge, TypeOK
  <2>2. QED
    BY <2>1 DEF ClaimInv
<1>3. ASSUME NEW w \in Workers, Poll(w) PROVE ClaimInv'
  <2>1. PICK f \in [Events -> {"found", "none"}] : stage' = [stage EXCEPT ![w] = f]
    BY <1>3 DEF Poll
  <2>2. UNCHANGED <<status, doubtful>> /\ f \in [Events -> Stages]
    BY <1>3 DEF Poll, Stages
  <2>3. \A v \in Workers, e \in Events : stage'[v][e] \in Working => stage[v][e] \in Working
    BY <2>1, <2>2, BatchTypes DEF Working
  <2>4. QED
    BY <2>2, <2>3 DEF ClaimInv
<1>4. ASSUME NEW w \in Workers, Claim(w) PROVE ClaimInv'
  <2>1. /\ doubtful \subseteq doubtful'
        /\ \A e \in Events \ doubtful' : stage[w][e] = "found" => status[e] = "PENDING"
    BY <1>4 DEF Claim, Missed, Batch
  <2>2. \A v \in Workers, e \in Events :
          stage'[v][e] = IF v = w /\ stage[w][e] = "found" THEN "emit" ELSE stage[v][e]
    BY <1>4 DEF Claim, TypeOK
  <2>3. \A e \in Events \ doubtful' :
          status'[e] = IF stage[w][e] = "found" THEN "PROCESSING" ELSE status[e]
    BY <1>4, <2>1 DEF Claim, Batch
  <2>4. \A v \in Workers, e \in Events \ doubtful' :
          stage[w][e] = "found" => stage[v][e] \notin Working
    BY <2>1 DEF ClaimInv
  <2>5. QED
    BY <2>1, <2>2, <2>3, <2>4 DEF ClaimInv, Working
<1>5. ASSUME NEW w \in Workers, ClaimFails(w) \/ Crash(w) PROVE ClaimInv'
  <2>1. stage' = [stage EXCEPT ![w] = [e \in Events |-> "none"]] /\ UNCHANGED doubtful
    BY <1>5 DEF ClaimFails, Crash
  <2>2. [e \in Events |-> "none"] \in [Events -> Stages]
    BY DEF Stages
  <2>3. \A v \in Workers, e \in Events : stage'[v][e] \in Working => stage[v][e] \in Working
    BY <2>1, <2>2, BatchTypes DEF Working
  <2>4. \A e \in Events : status[e] = "PROCESSING" => status'[e] = "PROCESSING"
    BY <1>5 DEF ClaimFails, Crash, TypeOK
  <2>5. QED
    BY <2>1, <2>3, <2>4 DEF ClaimInv
<1>6. ASSUME NEW w \in Workers, NEW e \in Events,
             Publish(w, e) \/ MarkPublishedFails(w, e) \/ MarkFailedFails(w, e)
      PROVE  ClaimInv'
  <2>1. doubtful \subseteq doubtful' /\ stage[w][e] \in Working
    BY <1>6 DEF Publish, Emit, MarkPublished, ReadRetryCount, MarkFailed, MarkPublishedFails,
                MarkFailedFails, Working
  <2>2. PICK s \in Stages : To(w, e, s) /\ (s \in Working => UNCHANGED status \/ e \in doubtful')
    BY <1>6 DEF Publish, Emit, MarkPublished, ReadRetryCount, MarkFailed, MarkPublishedFails,
                MarkFailedFails, Working, Stages
  <2>3. \A f \in Events \ {e} : status'[f] = status[f]
    BY <1>6 DEF Publish, Emit, MarkPublished, ReadRetryCount, MarkFailed, MarkPublishedFails,
                MarkFailedFails, WriteFailure, TypeOK
  <2>4. QED
    BY <2>1, <2>2, <2>3, OwnEventStep
<1>7. QED
  BY <1>1, <1>2, <1>3, <1>4, <1>5, <1>6 DEF Next

\* markPublished, markFailed: no published event is put back to PENDING or
\* failed, by a late markFailed of another worker either, unless it is in doubt:
\* taken on unclaimed, or published by a call that reported a failure.
THEOREM Finality == Spec => PublishedIsFinal
<1> DEFINE Step == \A e \in Events \ doubtful :
      status[e] = "PUBLISHED" => status'[e] \in {"PUBLISHED", "purged"}
<1>1. Init => ClaimInv
  BY DEF Init, ClaimInv, Working
<1>2. IInv /\ ClaimInv /\ [Next]_vars => [Step]_vars
  <2> SUFFICES ASSUME TypeOK, ClaimInv, Next, NEW e \in Events, e \notin doubtful,
                      status[e] = "PUBLISHED"
               PROVE  status'[e] \in {"PUBLISHED", "purged"}
    BY DEF IInv, vars
  <2>1. CASE UNCHANGED status
    BY <2>1
  <2>2. ASSUME NEW f \in Events, Save(f) \/ Purge(f) PROVE status'[e] \in {"PUBLISHED", "purged"}
    BY <2>2 DEF Save, Purge, TypeOK
  <2>3. ASSUME NEW w \in Workers, Claim(w) \/ ClaimFails(w)
        PROVE  status'[e] \in {"PUBLISHED", "purged"}
    BY <2>3 DEF Claim, ClaimFails, Missed, Batch
  <2>4. ASSUME NEW w \in Workers, NEW f \in Events,
               \/ MarkPublished(w, f) \/ MarkFailed(w, f)
               \/ MarkPublishedFails(w, f) \/ MarkFailedFails(w, f)
        PROVE  status'[e] \in {"PUBLISHED", "purged"}
    <3>1. f # e
      BY <2>4 DEF ClaimInv, Working, MarkPublished, MarkFailed, MarkPublishedFails, MarkFailedFails
    <3>2. QED
      BY <2>4, <3>1 DEF MarkPublished, MarkFailed, MarkPublishedFails, MarkFailedFails,
                        WriteFailure, TypeOK
  <2>5. QED
    BY <2>1, <2>2, <2>3, <2>4 DEF Next, Publish, Poll, Crash, Emit, ReadRetryCount
<1>3. QED
  BY <1>1, <1>2, Invariance, NextClaim, PTL DEF Spec, PublishedIsFinal
=============================================================================
