------------------------------ MODULE Warranty ------------------------------
(***************************************************************************)
(* Warranties (src/src/modules/warranty): registration of a serial number, *)
(* claims and their moderation, and the daily job that marks warranties as *)
(* expired and announces those that soon will.  Nothing is in a            *)
(* transaction; the job is a loop of awaited writes, which a failure       *)
(* interrupts, and it is run again.                                        *)
(*                                                                         *)
(* Owners, products and the texts of claims are left out.  Time is how far *)
(* off the end of a warranty is: fresh, soon (30 days), over.  VOIDED is   *)
(* in the code, but nothing sets it.                                       *)
(***************************************************************************)
EXTENDS Naturals, FiniteSets

CONSTANTS
  Serials,            \* serial numbers
  Claims,             \* identities of claims, given out once each
  WarrantyRequests,   \* requests, each served once
  MaxJobs,            \* bound of a run: how often the job is started
  MaxWarrantyFaults,
  NoWarranty

Registration == [status : {"ACTIVE", "EXPIRED", "CLAIM_PENDING"}, notified : BOOLEAN]

ASSUME WarrantyBoundAssumption == MaxWarrantyFaults \in Nat
ASSUME NoWarrantyAssumption == NoWarranty \notin Serials \union Registration

VARIABLES
  warranty,     \* by serial: NoWarranty, or status and expiryNotified
  claims,       \* by claim: unused, or its serial and status
  distance,     \* by serial: how far off the end is
  form,         \* by request: where it is
  job,          \* the expiry job: where it is and what it has found
  jobs,         \* how often it was started
  announced,    \* by serial: how many WARRANTY_EXPIRING events were saved (history)
  late,         \* claims filed although the status said expired (history)
  together,     \* serials on which two requests worked at once, or the job beside one (history)
  reopened,     \* serials with a claim that was moderated when already settled (history)
  warrantyFaults

warrantyVars == <<warranty, claims, distance, form, job, jobs, announced, late, together, reopened, warrantyFaults>>

warrantyNotes == <<together, reopened>>

FormIdle == [at |-> "idle"]
FormDone == [at |-> "done"]
Filling(r) == form[r] \notin {FormIdle, FormDone}
FormAt(r, l) == form' = [form EXCEPT ![r].at = l]
Submit(r) == form' = [form EXCEPT ![r] = FormDone]
JobIdle == [at |-> "idle", found |-> {}, todo |-> {}]
FreeClaim == [of |-> NoWarranty, status |-> "none"]

OpenStatus == {"PENDING", "APPROVED"}
ClaimsOf(s, states) == {c \in Claims : claims[c].of = s /\ claims[c].status \in states}

WarrantyInit ==
  /\ warranty = [s \in Serials |-> NoWarranty]
  /\ claims = [c \in Claims |-> FreeClaim]
  /\ distance = [s \in Serials |-> "fresh"]
  /\ form = [r \in WarrantyRequests |-> FormIdle]
  /\ job = JobIdle /\ jobs = 0
  /\ announced = [s \in Serials |-> 0]
  /\ late = {} /\ together = {} /\ reopened = {}
  /\ warrantyFaults = 0

TimePasses(s) ==
  /\ distance[s] # "over"
  /\ distance' = [distance EXCEPT ![s] = IF @ = "fresh" THEN "soon" ELSE "over"]
  /\ UNCHANGED <<warranty, claims, form, job, jobs, announced, late, warrantyNotes, warrantyFaults>>

-----------------------------------------------------------------------------
(* Requests *)

Fill(r, l, s, c) ==
  /\ form[r] = FormIdle
  /\ form' = [form EXCEPT ![r] = [at |-> l, serial |-> s, claim |-> c]]
  /\ together' = IF job.at # "idle" \/ \E q \in WarrantyRequests : Filling(q) /\ form[q].serial = s
                 THEN together \union {s} ELSE together
  /\ UNCHANGED <<warranty, claims, distance, job, jobs, announced, late, reopened, warrantyFaults>>

AskRegister(r, s) == Fill(r, "findSerial", s, NoWarranty)
FileClaim(r, s) == Fill(r, "readWarranty", s, NoWarranty)
AskModerate(r, c) == claims[c] # FreeClaim /\ Fill(r, "moderate", claims[c].of, c)

\* registerWarranty; the unique index refuses a serial number that was taken since.
FindSerial(r) ==
  /\ form[r].at = "findSerial"
  /\ IF warranty[form[r].serial] = NoWarranty THEN FormAt(r, "create") ELSE Submit(r)
  /\ UNCHANGED <<warranty, claims, distance, job, jobs, announced, late, warrantyNotes, warrantyFaults>>

CreateWarranty(r) ==
  /\ form[r].at = "create"
  /\ LET s == form[r].serial IN
       warranty' = IF warranty[s] # NoWarranty THEN warranty
                   ELSE [warranty EXCEPT ![s] = [status |-> IF distance[s] = "over" THEN "EXPIRED" ELSE "ACTIVE",
                                                 notified |-> FALSE]]
  /\ Submit(r)
  /\ UNCHANGED <<claims, distance, job, jobs, announced, late, warrantyNotes, warrantyFaults>>

\* fileClaim: the date is not looked at, only the status.
\* Variant: a pending claim does not keep anybody from filing another.
NotExpired(s) == warranty[s].status # "EXPIRED"
MayClaim(s) == warranty[s].status # "EXPIRED" /\ ClaimsOf(s, {"PENDING"}) = {}

ReadWarranty(r) ==
  /\ form[r].at = "readWarranty"
  /\ LET s == form[r].serial IN
       IF warranty[s] = NoWarranty THEN Submit(r)
       ELSE IF MayClaim(s) THEN FormAt(r, "addClaim") ELSE Submit(r)
  /\ UNCHANGED <<warranty, claims, distance, job, jobs, announced, late, warrantyNotes, warrantyFaults>>

AddClaim(r) ==
  /\ form[r].at = "addClaim"
  /\ \E c \in Claims :
       LET s == form[r].serial IN
         /\ claims[c] = FreeClaim
         /\ claims' = [claims EXCEPT ![c] = [of |-> s, status |-> "PENDING"]]
         /\ warranty' = [warranty EXCEPT ![s].status = "CLAIM_PENDING"]
         /\ late' = IF warranty[s].status = "EXPIRED" THEN late \union {c} ELSE late
  /\ Submit(r)
  /\ UNCHANGED <<distance, job, jobs, announced, warrantyNotes, warrantyFaults>>

\* moderateClaim: whatever the claim's status was, and whatever other claims there are.
\* Variant: the warranty stays as it is.
Unsettled(s, status) == warranty
Settled(s, status) == IF status \in OpenStatus THEN warranty ELSE [warranty EXCEPT ![s].status = "ACTIVE"]

UpdateClaimStatus(r, status) ==
  /\ form[r].at = "moderate"
  /\ LET c == form[r].claim  s == form[r].serial IN
       /\ claims' = [claims EXCEPT ![c].status = status]
       /\ warranty' = Settled(s, status)
       /\ reopened' = IF \/ claims[c].status \notin OpenStatus
                         \/ status = "PENDING" /\ claims[c].status # "PENDING"
                         \/ ClaimsOf(s, OpenStatus) # {c}
                      THEN reopened \union {s} ELSE reopened
  /\ Submit(r)
  /\ UNCHANGED <<distance, job, jobs, announced, late, together, warrantyFaults>>

-----------------------------------------------------------------------------
(* processExpiringWarranties *)

StartJob ==
  /\ job.at = "idle" /\ jobs < MaxJobs
  /\ jobs' = jobs + 1
  /\ job' = [job EXCEPT !.at = "expire"]
  /\ together' = together \union {form[r].serial : r \in {r \in WarrantyRequests : Filling(r)}}
  /\ UNCHANGED <<warranty, claims, distance, form, announced, late, reopened, warrantyFaults>>

ActiveSerials(d) ==
  {s \in Serials : /\ warranty[s] # NoWarranty
                   /\ warranty[s].status = "ACTIVE" /\ distance[s] = d}

MarkExpired ==
  /\ job.at = "expire"
  /\ warranty' = [s \in Serials |-> IF s \in ActiveSerials("over")
                                    THEN [warranty[s] EXCEPT !.status = "EXPIRED"] ELSE warranty[s]]
  /\ job' = [job EXCEPT !.at = "find"]
  /\ UNCHANGED <<claims, distance, form, jobs, announced, late, warrantyNotes, warrantyFaults>>

\* Variant: those that were announced are found again.
AnyExpiring == ActiveSerials("soon")
Expiring == {s \in ActiveSerials("soon") : ~warranty[s].notified}

FindExpiringWithin ==
  /\ job.at = "find"
  /\ job' = IF Expiring = {} THEN JobIdle
            ELSE [at |-> "announce", found |-> Expiring, todo |-> Expiring]
  /\ UNCHANGED <<warranty, claims, distance, form, jobs, announced, late, warrantyNotes, warrantyFaults>>

Announce(s) ==
  /\ job.at = "announce" /\ s \in job.todo
  /\ announced' = [announced EXCEPT ![s] = @ + 1]
  /\ job' = [job EXCEPT !.todo = @ \ {s}]
  /\ UNCHANGED <<warranty, claims, distance, form, jobs, late, warrantyNotes, warrantyFaults>>

MarkAsNotified ==
  /\ job.at = "announce" /\ job.todo = {}
  /\ warranty' = [s \in Serials |-> IF s \in job.found THEN [warranty[s] EXCEPT !.notified = TRUE] ELSE warranty[s]]
  /\ job' = JobIdle
  /\ UNCHANGED <<claims, distance, form, jobs, announced, late, warrantyNotes, warrantyFaults>>

\* A call fails or the process dies: the job is run again, today or tomorrow.
JobFails ==
  /\ job.at # "idle"
  /\ warrantyFaults < MaxWarrantyFaults
  /\ warrantyFaults' = warrantyFaults + 1
  /\ job' = JobIdle
  /\ UNCHANGED <<warranty, claims, distance, form, jobs, announced, late, warrantyNotes>>

-----------------------------------------------------------------------------

FormStep(r) ==
  \/ \E s \in Serials : AskRegister(r, s) \/ FileClaim(r, s)
  \/ \E c \in Claims : AskModerate(r, c)
  \/ FindSerial(r) \/ CreateWarranty(r) \/ ReadWarranty(r) \/ AddClaim(r)
  \/ \E status \in {"PENDING", "APPROVED", "REJECTED", "RESOLVED"} : UpdateClaimStatus(r, status)

WarrantyNext ==
  \/ \E r \in WarrantyRequests : FormStep(r)
  \/ \E s \in Serials : TimePasses(s) \/ Announce(s)
  \/ StartJob \/ MarkExpired \/ FindExpiringWithin \/ MarkAsNotified \/ JobFails

WarrantySpec == WarrantyInit /\ [][WarrantyNext]_warrantyVars

-----------------------------------------------------------------------------

WarrantyTypeOK ==
  /\ warranty \in [Serials -> Registration \union {NoWarranty}]
  /\ \A c \in Claims : claims[c] # FreeClaim => warranty[claims[c].of] # NoWarranty
  /\ job.todo \subseteq job.found
  /\ warrantyFaults \in 0..MaxWarrantyFaults

\* A warranty has one pending claim at most, and says CLAIM_PENDING exactly while
\* it has a claim that is not settled; no claim is filed once the job has marked
\* it as expired.  Excepted are serial numbers on which two requests, or a request
\* and the job, worked at once, and those where a claim was moderated again after
\* it was settled or beside another open one.
ClaimsShow ==
  /\ \A c \in late : claims[c].of \in together
  /\ \A s \in Serials \ (together \union reopened) :
       warranty[s] # NoWarranty =>
         /\ Cardinality(ClaimsOf(s, {"PENDING"})) <= 1
         /\ warranty[s].status = "CLAIM_PENDING" <=> ClaimsOf(s, OpenStatus) # {}

\* That a warranty is about to expire is announced before it is noted as announced,
\* and only once, however often the job runs - or once more for every run that
\* failed on the way.
AnnouncedOnce ==
  \A s \in Serials :
    /\ announced[s] <= 1 + warrantyFaults
    /\ warranty[s] # NoWarranty => (warranty[s].notified => announced[s] >= 1)
=============================================================================
