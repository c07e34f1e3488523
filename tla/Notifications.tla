---------------------------- MODULE Notifications ----------------------------
(***************************************************************************)
(* In-app notifications and the jobs that carry messages out               *)
(* (src/src/modules/notifications): a broadcast lists the active users and *)
(* inserts a notification for each; the listener welcomes a user who is    *)
(* verified - perhaps more than once, events are delivered at least once - *)
(* and copies the latest texts; users delete.  Push and SMS workers        *)
(* swallow what their provider throws, the e-mail worker does not; a       *)
(* provider is configured for each queue.                                  *)
(*                                                                         *)
(* A text is a broadcast or the welcome; other notifications (orders,      *)
(* payments, reviews) are one insert each and are left out, and so is      *)
(* isRead.  A text is as recent as its last insertion.                     *)
(***************************************************************************)
EXTENDS Integers, SequencesExt, FiniteSetsExt, Lists

CONSTANTS
  Members,          \* users; registration makes them active at once
  Broadcasts,       \* administrators' broadcasts, each made once
  Welcome,          \* text of the welcome notification
  RecentTexts,      \* how many texts a newcomer gets: 3
  Posts,            \* jobs of the push, SMS and e-mail queues
  ChannelOf,        \* the queue of each of them
  PostAttempts,     \* attempts in the defaultJobOptions of QueueService
  PostStallLimit,   \* maxStalledCount of the three workers: 1
  MaxDeliveries,    \* bound on deliveries of USER_VERIFIED to one member
  MaxDeletions      \* bound on notifications deleted

ASSUME WelcomeAssumption == Welcome \notin Broadcasts
ASSUME BroadcastsAssumption == IsFiniteSet(Broadcasts)
ASSUME InboxBoundAssumption == MaxDeliveries \in Nat
ASSUME PostAssumption ==
  /\ PostAttempts \in Nat \ {0} /\ PostStallLimit \in Nat
  /\ ChannelOf \in [Posts -> {"push", "sms", "email"}]

VARIABLES
  joined,           \* members with an account
  notices,          \* how many notifications of each text each member has
  recency,          \* the texts ever inserted, newest first
  cast,             \* where each broadcast is, and the users it read
  greeting,         \* where the handling of USER_VERIFIED is, and what it read
  deliveries,       \* deliveries of that event to each member
  deletions,
  copied,           \* broadcasts each member got as a newcomer (history)
  post, postTries,  \* the jobs, and their failed attempts
  postStalls,       \* how often BullMQ found each of them stalled
  postTaken         \* whether the provider took the message (history)

castVars == <<joined, cast>>
postVars == <<post, postTries, postStalls, postTaken>>
notificationVars == <<castVars, notices, recency, greeting, deliveries, deletions, copied, postVars>>

Texts == Broadcasts \union {Welcome}
NoNotices == [t \in Texts |-> 0]
NoGreeting == [at |-> "idle", recent |-> NoNotices]

NotificationsInit ==
  /\ joined = {}
  /\ notices = [u \in Members |-> NoNotices]
  /\ recency = <<>>
  /\ cast = [b \in Broadcasts |-> [at |-> "idle", to |-> {}]]
  /\ greeting = [u \in Members |-> NoGreeting]
  /\ deliveries = [u \in Members |-> 0]
  /\ deletions = 0
  /\ copied = [u \in Members |-> {}]
  /\ post = [p \in Posts |-> "none"]
  /\ postTries = [p \in Posts |-> 0]
  /\ postStalls = [p \in Posts |-> 0]
  /\ postTaken = [p \in Posts |-> FALSE]

Freshened(texts) == SetToSeq(texts) \o Dropping(recency, texts)

-----------------------------------------------------------------------------
(* broadcast *)

FindActiveUsers(b) ==
  /\ cast[b].at = "idle"
  /\ cast' = [cast EXCEPT ![b] = [at |-> IF joined = {} THEN "done" ELSE "insert", to |-> joined]]
  /\ UNCHANGED <<joined, notices, recency, greeting, deliveries, deletions, copied, postVars>>

InsertBroadcast(b) ==
  /\ cast[b].at = "insert"
  /\ notices' = [u \in Members |-> [notices[u] EXCEPT ![b] = @ + (IF u \in cast[b].to THEN 1 ELSE 0)]]
  /\ recency' = Freshened({b})
  /\ cast' = [cast EXCEPT ![b].at = "done"]
  /\ UNCHANGED <<joined, greeting, deliveries, deletions, copied, postVars>>

-----------------------------------------------------------------------------
(* sendWelcomeAndRecentNotifications *)

Register(u) ==
  /\ u \notin joined
  /\ joined' = joined \union {u}
  /\ UNCHANGED <<cast, notices, recency, greeting, deliveries, deletions, copied, postVars>>

\* The outbox delivers USER_VERIFIED; the handler sends the welcome first.
HandleUserVerified(u) ==
  /\ u \in joined /\ greeting[u].at = "idle"
  /\ deliveries[u] < MaxDeliveries
  /\ deliveries' = [deliveries EXCEPT ![u] = @ + 1]
  /\ greeting' = [greeting EXCEPT ![u].at = "recent"]
  /\ notices' = [notices EXCEPT ![u][Welcome] = @ + 1]
  /\ recency' = Freshened({Welcome})
  /\ UNCHANGED <<castVars, deletions, copied, postVars>>

Total(t) == MapThenSumSet(LAMBDA u : notices[u][t], Members)
Newer(t, s) == \E i, j \in DOMAIN recency : i < j /\ recency[i] = t /\ recency[j] = s
AmongRecent(t) == Total(t) > 0 /\ Cardinality({s \in Texts : Total(s) > 0 /\ Newer(s, t)}) < RecentTexts

\* Variant: the latest notifications are not grouped by text.
Ungrouped == [t \in Texts |-> IF AmongRecent(t) THEN Total(t) ELSE 0]

\* The aggregation groups by text: one notification for each of the latest texts.
RecentDistinct == [t \in Texts |-> IF AmongRecent(t) THEN 1 ELSE 0]

FindRecentDistinct(u) ==
  /\ greeting[u].at = "recent"
  /\ greeting' = [greeting EXCEPT ![u] = [at |-> "copy", recent |-> RecentDistinct]]
  /\ UNCHANGED <<castVars, notices, recency, deliveries, deletions, copied, postVars>>

InsertCopies(u) ==
  /\ greeting[u].at = "copy"
  /\ LET recent == greeting[u].recent
         texts == {t \in Texts : recent[t] > 0}
     IN
       /\ notices' = [notices EXCEPT ![u] = [t \in Texts |-> @[t] + recent[t]]]
       /\ recency' = Freshened(texts)
       /\ copied' = [copied EXCEPT ![u] = @ \union texts]
  /\ greeting' = [greeting EXCEPT ![u] = NoGreeting]
  /\ UNCHANGED <<castVars, deliveries, deletions, postVars>>

\* A command fails or the process stops between the steps; a broadcast is not
\* taken up again, the event is delivered again.
GreetingStops(u) ==
  /\ greeting[u].at # "idle"
  /\ greeting' = [greeting EXCEPT ![u] = NoGreeting]
  /\ UNCHANGED <<castVars, notices, recency, deliveries, deletions, copied, postVars>>

DeleteNotice(u, t) ==
  /\ notices[u][t] > 0
  /\ deletions < MaxDeletions
  /\ notices' = [notices EXCEPT ![u][t] = @ - 1]
  /\ deletions' = deletions + 1
  /\ UNCHANGED <<castVars, recency, greeting, deliveries, copied, postVars>>

-----------------------------------------------------------------------------
(* The workers of the three queues. *)

PostAt(p, l) == post' = [post EXCEPT ![p] = l]

QueuePost(p) ==
  /\ post[p] = "none"
  /\ PostAt(p, "waiting")
  /\ UNCHANGED <<castVars, notices, recency, greeting, deliveries, deletions, copied,
                 postTries, postStalls, postTaken>>

\* The provider takes the message.
ProviderTakes(p) ==
  /\ post[p] = "waiting"
  /\ postTaken' = [postTaken EXCEPT ![p] = TRUE]
  /\ PostAt(p, "completed")
  /\ UNCHANGED <<castVars, notices, recency, greeting, deliveries, deletions, copied,
                 postTries, postStalls>>

\* Variant: sendEmail only logs what the provider throws.
Nothing(p) == FALSE

\* sendEmail throws on, the others log and return.
Rethrown(p) == ChannelOf[p] = "email"

\* The provider refuses the message, or takes it and the answer is lost.
ProviderFails(p) ==
  /\ post[p] = "waiting"
  /\ \E took \in BOOLEAN : postTaken' = [postTaken EXCEPT ![p] = @ \/ took]
  /\ IF Rethrown(p)
     THEN /\ postTries' = [postTries EXCEPT ![p] = @ + 1]
          /\ PostAt(p, IF postTries[p] + 1 < PostAttempts THEN "waiting" ELSE "failed")
     ELSE PostAt(p, "completed") /\ UNCHANGED postTries
  /\ UNCHANGED <<castVars, notices, recency, greeting, deliveries, deletions, copied, postStalls>>

\* The worker stops, before the provider has the message or before BullMQ
\* hears that it has: the job stalls.  BullMQ hands it out again up to the
\* limit, then fails it, whatever attempts it has left.
PostStalls(p) ==
  /\ post[p] = "waiting"
  /\ \E took \in BOOLEAN : postTaken' = [postTaken EXCEPT ![p] = @ \/ took]
  /\ postStalls' = [postStalls EXCEPT ![p] = @ + 1]
  /\ PostAt(p, IF postStalls[p] < PostStallLimit THEN "waiting" ELSE "failed")
  /\ UNCHANGED <<castVars, notices, recency, greeting, deliveries, deletions, copied, postTries>>

InboxNext ==
  \/ \E b \in Broadcasts : FindActiveUsers(b) \/ InsertBroadcast(b)
  \/ \E u \in Members :
       \/ Register(u) \/ HandleUserVerified(u)
       \/ FindRecentDistinct(u) \/ InsertCopies(u) \/ GreetingStops(u)
       \/ \E t \in Texts : DeleteNotice(u, t)
PostNext ==
  \E p \in Posts : QueuePost(p) \/ ProviderTakes(p) \/ ProviderFails(p) \/ PostStalls(p)
NotificationsNext == InboxNext \/ PostNext

NotificationsSpec == NotificationsInit /\ [][NotificationsNext]_notificationVars

-----------------------------------------------------------------------------
NotificationsTypeOK ==
  /\ joined \subseteq Members
  /\ notices \in [Members -> [Texts -> Nat]]
  /\ ToSet(recency) \subseteq Texts /\ IsInjective(recency)
  /\ \A b \in Broadcasts : cast[b].at \in {"idle", "insert", "done"} /\ cast[b].to \subseteq joined
  /\ \A u \in Members : greeting[u].at \in {"idle", "recent", "copy"} /\ deliveries[u] <= MaxDeliveries
  /\ post \in [Posts -> {"none", "waiting", "completed", "failed"}]
  /\ \A p \in Posts : postTries[p] <= PostAttempts /\ postStalls[p] <= PostStallLimit + 1

(* A member has a broadcast once, however many have it.  Twice it comes    *)
(* only to those who had joined when it was sent and verified only after,  *)
(* and to those whose USER_VERIFIED was delivered more than once           *)
(* (broadcast and sendWelcomeAndRecentNotifications at                     *)
(* notifications.service.ts:65 and 142).                                   *)
BroadcastsComeOnce ==
  \A u \in Members, b \in Broadcasts :
    notices[u][b] > 1 => deliveries[u] > 1 \/ (u \in cast[b].to /\ b \in copied[u])

(* An e-mail is given up only after all its attempts, or when its worker   *)
(* stopped over it more often than BullMQ allows; and its job counts as    *)
(* completed only when the provider took the message - with a provider     *)
(* configured: without one the e-mail worker only logs.  Push and SMS jobs *)
(* complete although their message is lost (email.worker.ts:58 and 188,    *)
(* push.worker.ts:145, sms.worker.ts:110).                                 *)
CompletedWasTaken ==
  \A p \in Posts :
    /\ post[p] = "completed" => postTaken[p] \/ ChannelOf[p] # "email"
    /\ post[p] = "failed" => postTries[p] = PostAttempts \/ postStalls[p] > PostStallLimit

=============================================================================
