-------------------------------- MODULE Admin --------------------------------
(***************************************************************************)
(* What administrators change (src/src/modules/admin): accounts and roles  *)
(* of users, promotional banners and the platform settings, each change    *)
(* followed by an entry in the audit log, and none of it in a transaction. *)
(*                                                                         *)
(* A role stands for its permissions as well, which are written with it;   *)
(* a banner, a password and the settings are named by the request that     *)
(* wrote them.  Lists, metrics and reports are left out.                   *)
(***************************************************************************)
EXTENDS Naturals, SequencesExt

CONSTANTS
  Staff,           \* accounts that exist or may be created
  Roles,
  Banners,         \* banner ids, given out once each
  AdminRequests,   \* requests, each served once
  Absent,          \* an account or a banner that is not there
  Initially,       \* who wrote what was there at first
  MaxAdminCrashes

Settings == "settings"
Account == [id : AdminRequests, role : Roles, password : AdminRequests]

ASSUME AdminNamesAssumption ==
  /\ Absent \notin Roles \union Account /\ Initially \notin AdminRequests
  /\ Staff \cap Banners = {} /\ Settings \notin Staff \union Banners

ASSUME AdminRequestsAssumption == IsFiniteSet(AdminRequests)

VARIABLES
  staff,         \* accounts by e-mail: id (the request that created it), role, password
  banner,        \* banners: who wrote them last
  freeBanners,   \* ids not given out yet
  settings,      \* the documents of the settings, oldest first
  audit,         \* the audit log
  admin,         \* by request: where it is and what it has read
  crossed,       \* entities on which two requests worked at once (history)
  adminCrashes

adminVars == <<staff, banner, freeBanners, settings, audit, admin, crossed, adminCrashes>>

AdminRequest ==
  [action : {"CREATE_USER", "UPDATE_USER_ROLE"}, entity : Staff, role : Roles]
    \union [action : {"RESET_USER_PASSWORD", "DELETE_USER"}, entity : Staff]
    \union [action : {"CREATE_BANNER", "UPDATE_BANNER", "DELETE_BANNER"}, entity : Banners]
    \union [action : {"UPDATE_SETTINGS"}, entity : {Settings}]

Pending == [at |-> "idle"]
Closed == [at |-> "done"]
AtWork(r) == admin[r] \notin {Pending, Closed}
AdminAt(r, l) == admin' = [admin EXCEPT ![r].at = l]
Close(r) == admin' = [admin EXCEPT ![r] = Closed]
Does(r, l, as) == admin[r].at = l /\ admin[r].ask.action \in as

NewAccount == {"CREATE_USER"}
OldAccount == {"UPDATE_USER_ROLE", "RESET_USER_PASSWORD", "DELETE_USER"}
OldBanner == {"UPDATE_BANNER", "DELETE_BANNER"}

AdminInit ==
  /\ staff = [u \in Staff |-> Absent]
  /\ banner = [b \in Banners |-> Absent]
  /\ freeBanners = Banners
  /\ settings = <<>>
  /\ audit = <<>>
  /\ admin = [r \in AdminRequests |-> Pending]
  /\ crossed = {}
  /\ adminCrashes = 0

-----------------------------------------------------------------------------

Order(r, q) ==
  /\ admin[r] = Pending
  /\ q.action = "CREATE_BANNER" <=> q.entity \in freeBanners
  /\ freeBanners' = freeBanners \ {q.entity}
  /\ admin' = [admin EXCEPT ![r] = [at |-> IF q.action = "CREATE_BANNER" THEN "write" ELSE "read",
                                   ask |-> q, of |-> Absent]]
  /\ crossed' = IF \E s \in AdminRequests : AtWork(s) /\ admin[s].ask.entity = q.entity
                THEN crossed \union {q.entity} ELSE crossed
  /\ UNCHANGED <<staff, banner, settings, audit, adminCrashes>>

\* createUserByAdmin refuses an account that exists; the others refuse what does not.
FindStaff(r) ==
  /\ Does(r, "read", NewAccount \union OldAccount)
  /\ LET account == staff[admin[r].ask.entity]  found == account # Absent IN
       IF found = (admin[r].ask.action \in NewAccount) THEN Close(r)
       ELSE admin' = [admin EXCEPT ![r].at = "write", ![r].of = IF found THEN account.id ELSE Absent]
  /\ UNCHANGED <<staff, banner, freeBanners, settings, audit, crossed, adminCrashes>>

FindBanner(r) ==
  /\ Does(r, "read", OldBanner)
  /\ IF banner[admin[r].ask.entity] = Absent THEN Close(r) ELSE AdminAt(r, "write")
  /\ UNCHANGED <<staff, banner, freeBanners, settings, audit, crossed, adminCrashes>>

\* getSettings creates the document if there is none, in two steps.
FindSettings(r) ==
  /\ Does(r, "read", {"UPDATE_SETTINGS"})
  /\ AdminAt(r, IF settings = <<>> THEN "defaults" ELSE "write")
  /\ UNCHANGED <<staff, banner, freeBanners, settings, audit, crossed, adminCrashes>>

CreateSettings(r) ==
  /\ Does(r, "defaults", {"UPDATE_SETTINGS"})
  /\ settings' = Append(settings, Initially)
  /\ AdminAt(r, "write")
  /\ UNCHANGED <<staff, banner, freeBanners, audit, crossed, adminCrashes>>

-----------------------------------------------------------------------------
(* The writes. *)

\* The account a request has found is still there, under the id it had.
StillThere(r) == LET u == admin[r].ask.entity IN staff[u] # Absent /\ staff[u].id = admin[r].of

\* The unique index refuses a second account, save() one that was deleted.
WriteStaff(r) ==
  /\ Does(r, "write", {"CREATE_USER", "UPDATE_USER_ROLE", "RESET_USER_PASSWORD"})
  /\ LET q == admin[r].ask IN
       IF IF q.action \in NewAccount THEN staff[q.entity] # Absent ELSE ~StillThere(r)
       THEN Close(r) /\ UNCHANGED staff
       ELSE /\ staff' = [staff EXCEPT ![q.entity] =
                 CASE q.action = "CREATE_USER" -> [id |-> r, role |-> q.role, password |-> r]
                   [] q.action = "UPDATE_USER_ROLE" -> [@ EXCEPT !.role = q.role]
                   [] q.action = "RESET_USER_PASSWORD" -> [@ EXCEPT !.password = r]]
            /\ AdminAt(r, "audit")
  /\ UNCHANGED <<banner, freeBanners, settings, audit, crossed, adminCrashes>>

DeleteStaff(r) ==
  /\ Does(r, "write", {"DELETE_USER"})
  /\ staff' = [staff EXCEPT ![admin[r].ask.entity] = IF StillThere(r) THEN Absent ELSE @]
  /\ AdminAt(r, "audit")
  /\ UNCHANGED <<banner, freeBanners, settings, audit, crossed, adminCrashes>>

\* An update that finds no banner any more is recorded all the same.
WriteBanner(r) ==
  /\ Does(r, "write", {"CREATE_BANNER", "UPDATE_BANNER", "DELETE_BANNER"})
  /\ LET q == admin[r].ask IN
       banner' = [banner EXCEPT ![q.entity] =
         CASE q.action = "CREATE_BANNER" -> r
           [] q.action = "UPDATE_BANNER" -> IF @ = Absent THEN Absent ELSE r
           [] q.action = "DELETE_BANNER" -> Absent]
  /\ AdminAt(r, "audit")
  /\ UNCHANGED <<staff, freeBanners, settings, audit, crossed, adminCrashes>>

\* findOne gives the oldest document.
WriteSettings(r) ==
  /\ Does(r, "write", {"UPDATE_SETTINGS"})
  /\ settings' = [settings EXCEPT ![1] = r]
  /\ AdminAt(r, "audit")
  /\ UNCHANGED <<staff, banner, freeBanners, audit, crossed, adminCrashes>>

\* What an entry says the entity is now; of a new password it says nothing.
After(r) ==
  LET q == admin[r].ask IN
    CASE q.action \in {"CREATE_USER", "UPDATE_USER_ROLE"} -> q.role
      [] q.action \in {"DELETE_USER", "DELETE_BANNER"} -> Absent
      [] OTHER -> r

\* Variant: the entry of a deletion is forgotten.
AuditUnlessDeleted(r) ==
  /\ AtWork(r) /\ admin[r].at = "audit"
  /\ audit' = IF After(r) = Absent THEN audit
              ELSE Append(audit, [action |-> admin[r].ask.action, entity |-> admin[r].ask.entity, after |-> After(r)])
  /\ Close(r)
  /\ UNCHANGED <<staff, banner, freeBanners, settings, crossed, adminCrashes>>

CreateAuditLog(r) ==
  /\ AtWork(r) /\ admin[r].at = "audit"
  /\ audit' = Append(audit, [action |-> admin[r].ask.action, entity |-> admin[r].ask.entity, after |-> After(r)])
  /\ Close(r)
  /\ UNCHANGED <<staff, banner, freeBanners, settings, crossed, adminCrashes>>

AdminCrash(r) ==
  /\ AtWork(r)
  /\ adminCrashes < MaxAdminCrashes
  /\ adminCrashes' = adminCrashes + 1
  /\ Close(r)
  /\ UNCHANGED <<staff, banner, freeBanners, settings, audit, crossed>>

-----------------------------------------------------------------------------

AdminStep(r) ==
  \/ \E q \in AdminRequest : Order(r, q)
  \/ FindStaff(r) \/ FindBanner(r) \/ FindSettings(r) \/ CreateSettings(r)
  \/ WriteStaff(r) \/ DeleteStaff(r) \/ WriteBanner(r) \/ WriteSettings(r)
  \/ CreateAuditLog(r) \/ AdminCrash(r)

AdminNext == \E r \in AdminRequests : AdminStep(r)

AdminSpec == AdminInit /\ [][AdminNext]_adminVars

-----------------------------------------------------------------------------

AdminTypeOK ==
  /\ staff \in [Staff -> Account \union {Absent}]
  /\ banner \in [Banners -> AdminRequests \union {Absent}]
  /\ \A b \in freeBanners : banner[b] = Absent
  /\ settings \in Seq(AdminRequests \union {Initially})
  /\ Len(audit) <= Cardinality(AdminRequests)

\* The state of an entity as the audit log tells it.
Told(e) ==
  LET entries == {n \in DOMAIN audit : audit[n].entity = e /\ audit[n].action # "RESET_USER_PASSWORD"}
  IN IF entries = {} THEN Absent ELSE audit[Max(entries)].after

\* The newest entry of the audit log about an account, a banner or the settings
\* says what it is now, and what never changed has no entry - once no request is
\* at work, and except for entities that two requests changed at once, and after
\* a crash between a change and its entry.
AuditTellsTheLast ==
  (\A r \in AdminRequests : ~AtWork(r)) /\ adminCrashes = 0 =>
    /\ \A u \in Staff \ crossed : Told(u) = IF staff[u] = Absent THEN Absent ELSE staff[u].role
    /\ \A b \in Banners \ crossed : Told(b) = banner[b]
    /\ Settings \notin crossed => Len(settings) <= 1
    /\ Settings \notin crossed /\ settings # <<>> => Told(Settings) = settings[1]
=============================================================================
