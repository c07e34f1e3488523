------------------------------ MODULE Analytics ------------------------------
(***************************************************************************)
(* Analytics events (src/src/modules/analytics): requests and domain       *)
(* events are put in a buffer in memory, which is written to MongoDB when  *)
(* it is full, and every five seconds.  flushBuffer takes the buffer and   *)
(* empties it before it awaits the insert, so several batches may be under *)
(* way; a batch that fails is logged and gone, a process that stops takes  *)
(* its buffer and batches along.                                           *)
(***************************************************************************)
EXTENDS Naturals, FiniteSets

CONSTANTS
  Tracked,            \* events, each tracked once
  BufferLimit,        \* 100
  MaxAnalyticsFaults

ASSUME BufferAssumption == BufferLimit \in Nat \ {0}

VARIABLES
  tracked,            \* events a request or listener has handed over (history)
  eventBuffer,
  batches,            \* batches being inserted
  recorded,           \* how often each event is in the collection
  dropped,            \* events of failed batches and stopped processes (history)
  analyticsFaults

analyticsVars == <<tracked, eventBuffer, batches, recorded, dropped, analyticsFaults>>

AnalyticsInit ==
  /\ tracked = {}
  /\ eventBuffer = {}
  /\ batches = {}
  /\ recorded = [e \in Tracked |-> 0]
  /\ dropped = {}
  /\ analyticsFaults = 0

\* Variant: the buffer is emptied when the insert is done.
Uncleared(buffer) == buffer

\* The buffer is replaced in the same turn of the event loop as it is copied.
Cleared(buffer) == {}

\* trackEvent, from a request or from a listener of cart, checkout, order and
\* payment events; the full buffer is flushed in the same turn.
TrackEvent(e) ==
  /\ e \notin tracked
  /\ tracked' = tracked \union {e}
  /\ LET buffer == eventBuffer \union {e} IN
       IF Cardinality(buffer) >= BufferLimit
       THEN batches' = batches \union {buffer} /\ eventBuffer' = Cleared(buffer)
       ELSE eventBuffer' = buffer /\ UNCHANGED batches
  /\ UNCHANGED <<recorded, dropped, analyticsFaults>>

\* The timer.
FlushBuffer ==
  /\ eventBuffer # {}
  /\ batches' = batches \union {eventBuffer}
  /\ eventBuffer' = Cleared(eventBuffer)
  /\ UNCHANGED <<tracked, recorded, dropped, analyticsFaults>>

Store(b, some) ==
  /\ recorded' = [e \in Tracked |-> recorded[e] + (IF e \in some THEN 1 ELSE 0)]
  /\ batches' = batches \ {b}

BatchInserted ==
  /\ \E b \in batches : Store(b, b)
  /\ UNCHANGED <<tracked, eventBuffer, dropped, analyticsFaults>>

\* insertMany is not ordered: what it could insert stays.
BatchFails ==
  /\ analyticsFaults < MaxAnalyticsFaults
  /\ \E b \in batches : \E some \in SUBSET b : Store(b, some) /\ dropped' = dropped \union (b \ some)
  /\ analyticsFaults' = analyticsFaults + 1
  /\ UNCHANGED <<tracked, eventBuffer>>

AnalyticsStops ==
  /\ analyticsFaults < MaxAnalyticsFaults
  /\ dropped' = dropped \union eventBuffer \union UNION batches
  /\ eventBuffer' = {}
  /\ batches' = {}
  /\ analyticsFaults' = analyticsFaults + 1
  /\ UNCHANGED <<tracked, recorded>>

AnalyticsNext == (\E e \in Tracked : TrackEvent(e)) \/ FlushBuffer \/ BatchInserted \/ BatchFails \/ AnalyticsStops

AnalyticsSpec == AnalyticsInit /\ [][AnalyticsNext]_analyticsVars

-----------------------------------------------------------------------------
AnalyticsTypeOK ==
  /\ tracked \subseteq Tracked /\ eventBuffer \subseteq Tracked
  /\ batches \subseteq SUBSET Tracked
  /\ recorded \in [Tracked -> Nat]
  /\ dropped \subseteq Tracked /\ analyticsFaults \in Nat

(* What was tracked is counted once or still on its way, whatever flushes  *)
(* overlap: it is in the buffer, in one batch or in the collection, never  *)
(* in two of them and never in none, but where an insert failed or the     *)
(* process stopped; and the buffer never holds BufferLimit events between  *)
(* two turns (flushBuffer at analytics.service.ts:38).                     *)
EventsCountOnce ==
  /\ \A e \in Tracked :
       recorded[e] + Cardinality({b \in batches : e \in b})
         + (IF e \in eventBuffer THEN 1 ELSE 0) + (IF e \in dropped THEN 1 ELSE 0)
       = (IF e \in tracked THEN 1 ELSE 0)
  /\ dropped # {} => analyticsFaults > 0
  /\ Cardinality(eventBuffer) < BufferLimit

=============================================================================
