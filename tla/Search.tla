------------------------------- MODULE Search -------------------------------
(***************************************************************************)
(* Search (src/src/modules/search): the autocomplete set in Redis, which   *)
(* jobs of the search queue maintain as product events arrive, and the     *)
(* history of searches of a user.  The worker runs several jobs at once.   *)
(*                                                                         *)
(* A product is one term (its name; SKUs are the same).  The full-text     *)
(* query itself, popular terms and the limit of suggestions are left out.  *)
(***************************************************************************)
EXTENDS Naturals, FiniteSets, SequencesExt, Lists

CONSTANTS
  Goods,           \* products that exist or may be created
  InitialGoods,    \* those that exist and are active at first
  SearchJobs,      \* identities of events and of their jobs
  Terms,           \* what users search for
  HistoryLimit,    \* 20
  MaxSearches,     \* bound of a run
  SearchAttempts,  \* attempts of a job: 3
  MaxSearchFaults

ASSUME HistoryLimitAssumption == HistoryLimit \in Nat \ {0}
ASSUME SearchAttemptsAssumption == SearchAttempts \in Nat \ {0}
ASSUME SearchFaultsAssumption == MaxSearchFaults \in Nat

VARIABLES
  good,          \* by product: new, active, inactive, deleted
  autocomplete,  \* vitaform:search:autocomplete
  job,           \* by identity: its event, then its job
  history,       \* vitaform:search:history of a user
  searches,      \* every query that was tracked since history was cleared (history)
  mixed,         \* whether a reindex ever ran beside another, or was given up (history)
  searchFaults

searchVars == <<good, autocomplete, job, history, searches, mixed, searchFaults>>

Unused == [at |-> "none"]
Quiet == \A j \in SearchJobs : job[j].at \in {"none", "done"}
Reindexing(j) == job[j].at \in {"find", "write"}
Active == {g \in Goods : good[g] = "active"}
JobAt(j, l) == job' = [job EXCEPT ![j].at = l]

SearchInit ==
  /\ good = [g \in Goods |-> IF g \in InitialGoods THEN "active" ELSE "new"]
  /\ autocomplete = {}
  /\ job = [j \in SearchJobs |-> Unused]
  /\ history = <<>> /\ searches = <<>>
  /\ mixed = FALSE
  /\ searchFaults = 0

-----------------------------------------------------------------------------
(* Changes of products; the outbox emits each as a wrapper around what the  *)
(* products service saved.                                                  *)

Wrapper(type, g) == [eventType |-> type, aggregateId |-> g, payload |-> [name |-> g]]

Announce(j, type, g) ==
  /\ job[j] = Unused
  /\ job' = [job EXCEPT ![j] = [at |-> "event", data |-> Wrapper(type, g), attempts |-> 0, found |-> {}]]
  /\ UNCHANGED <<autocomplete, history, searches, mixed, searchFaults>>

ProductCreated(j, g) ==
  /\ good[g] = "new"
  /\ \E s \in {"active", "inactive"} : good' = [good EXCEPT ![g] = s]
  /\ Announce(j, "ProductCreated", g)

ProductUpdated(j, g) ==
  /\ good[g] \in {"active", "inactive"}
  /\ \E s \in {"active", "inactive"} : good' = [good EXCEPT ![g] = s]
  /\ Announce(j, "ProductUpdated", g)

ProductGone(j, g) ==
  /\ good[g] \in {"active", "inactive"}
  /\ good' = [good EXCEPT ![g] = "deleted"]
  /\ Announce(j, "ProductDeleted", g)

\* handleProductMutated and handleProductDeleted: the wrapper is the job's data.
Enqueue(j) ==
  /\ job[j].at = "event"
  /\ JobAt(j, "waiting")
  /\ UNCHANGED <<good, autocomplete, history, searches, mixed, searchFaults>>

\* An error of the queue is logged, and the event counts as handled.
EnqueueFails(j) ==
  /\ job[j].at = "event"
  /\ searchFaults < MaxSearchFaults
  /\ searchFaults' = searchFaults + 1
  /\ mixed' = TRUE
  /\ JobAt(j, "done")
  /\ UNCHANGED <<good, autocomplete, history, searches>>

-----------------------------------------------------------------------------
(* SearchProcessor *)

\* The terms found in a job's data: fields of the product itself.
IndexTerms(data) == IF "name" \in DOMAIN data THEN {data.name} ELSE {}

HandleIndexProduct(j) ==
  /\ job[j].at = "waiting" /\ job[j].data.eventType # "ProductDeleted"
  /\ autocomplete' = autocomplete \union IndexTerms(job[j].data)
  /\ JobAt(j, "done")
  /\ UNCHANGED <<good, history, searches, mixed, searchFaults>>

\* Variant: terms are added to those that are there.
KeepTerms(j) ==
  /\ job[j].at = "waiting" /\ job[j].data.eventType = "ProductDeleted"
  /\ mixed' = (mixed \/ \E k \in SearchJobs : Reindexing(k))
  /\ JobAt(j, "find")
  /\ UNCHANGED <<good, autocomplete, history, searches, searchFaults>>

ReindexDel(j) ==
  /\ job[j].at = "waiting" /\ job[j].data.eventType = "ProductDeleted"
  /\ autocomplete' = {}
  /\ mixed' = (mixed \/ \E k \in SearchJobs : Reindexing(k))
  /\ JobAt(j, "find")
  /\ UNCHANGED <<good, history, searches, searchFaults>>

ReindexFind(j) ==
  /\ job[j].at = "find"
  /\ job' = [job EXCEPT ![j] = IF Active = {} THEN [@ EXCEPT !.at = "done"]
                               ELSE [@ EXCEPT !.at = "write", !.found = Active]]
  /\ UNCHANGED <<good, autocomplete, history, searches, mixed, searchFaults>>

ReindexAdd(j) ==
  /\ job[j].at = "write"
  /\ autocomplete' = autocomplete \union job[j].found
  /\ JobAt(j, "done")
  /\ UNCHANGED <<good, history, searches, mixed, searchFaults>>

\* A job that throws is run again from the start, until its attempts are used up.
JobFails(j) ==
  /\ Reindexing(j)
  /\ searchFaults < MaxSearchFaults
  /\ searchFaults' = searchFaults + 1
  /\ LET n == job[j].attempts + 1 IN
       /\ job' = [job EXCEPT ![j].at = IF n < SearchAttempts THEN "waiting" ELSE "done",
                             ![j].attempts = n, ![j].found = {}]
       /\ mixed' = (mixed \/ n = SearchAttempts)
  /\ UNCHANGED <<good, autocomplete, history, searches>>

-----------------------------------------------------------------------------
(* trackSearchQuery and clearHistory: one MULTI and one DEL. *)

\* LREM of every occurrence.
Without(h, q) == Dropping(h, {q})

Push(h, q) == <<q>> \o Without(h, q)

TrackSearch(q) ==
  /\ Len(searches) < MaxSearches
  /\ searches' = Append(searches, q)
  /\ LET pushed == Push(history, q) IN
       history' = SubSeq(pushed, 1, IF Len(pushed) < HistoryLimit THEN Len(pushed) ELSE HistoryLimit)
  /\ UNCHANGED <<good, autocomplete, job, mixed, searchFaults>>

ClearHistory ==
  /\ history' = <<>> /\ searches' = <<>>
  /\ UNCHANGED <<good, autocomplete, job, mixed, searchFaults>>

-----------------------------------------------------------------------------

JobStep(j) ==
  \/ \E g \in Goods : ProductCreated(j, g) \/ ProductUpdated(j, g) \/ ProductGone(j, g)
  \/ Enqueue(j) \/ EnqueueFails(j)
  \/ HandleIndexProduct(j) \/ ReindexDel(j) \/ ReindexFind(j) \/ ReindexAdd(j) \/ JobFails(j)

IndexNext == \E j \in SearchJobs : JobStep(j)
HistoryNext == ClearHistory \/ \E q \in Terms : TrackSearch(q)

SearchNext == IndexNext \/ HistoryNext

SearchSpec == SearchInit /\ [][SearchNext]_searchVars

-----------------------------------------------------------------------------

SearchTypeOK ==
  /\ good \in [Goods -> {"new", "active", "inactive", "deleted"}]
  /\ autocomplete \subseteq Goods
  /\ history \in Seq(Terms) /\ Len(history) <= HistoryLimit
  /\ searchFaults \in 0..MaxSearchFaults

\* Once all events are handled and all jobs have run, no deleted product is
\* suggested any more - whatever was created, updated and deleted while jobs ran,
\* were retried and overlapped with others - unless two reindexes ran at once, or
\* one was given up or never queued.
DeletedAreForgotten ==
  Quiet /\ ~mixed => \A g \in autocomplete : good[g] # "deleted"

\* When a term was searched for last.
LastAt(s, q) == CHOOSE n \in DOMAIN s : s[n] = q /\ \A m \in DOMAIN s : s[m] = q => m <= n

\* The history holds the terms searched for last, the latest first and each
\* once, however often a term is repeated.
HistoryIsRecent ==
  LET asked == ToSet(searches)
      newer(q) == {r \in asked : LastAt(searches, r) > LastAt(searches, q)}
      kept == {q \in asked : Cardinality(newer(q)) < HistoryLimit}
  IN /\ Len(history) = Cardinality(kept)
     /\ \A q \in kept : history[Cardinality(newer(q)) + 1] = q
=============================================================================
