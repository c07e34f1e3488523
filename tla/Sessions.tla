------------------------------ MODULE Sessions ------------------------------
(***************************************************************************)
(* The Redis sessions of one user (src/src/modules/auth/session.service.ts *)
(* and the guard that checks them): a hash per token and a set of tokens,  *)
(* kept in step by requests that interleave between any two commands:      *)
(*                                                                         *)
(*   login                limit check, hset of the hash, sadd to the set   *)
(*   logout, remote revocation   hgetall, del of the hash, srem            *)
(*   logoutAll (also password reset)  smembers, del of each hash and the set *)
(*   list                 smembers, hgetall of each, srem of what is gone  *)
(*   any guarded request  hgetall, then hset of lastActivity (not awaited) *)
(*                                                                         *)
(* Hashes expire, the set does not.  Which session is the oldest is left   *)
(* open: any one that was read may be.                                     *)
(***************************************************************************)
EXTENDS Naturals, FiniteSets

CONSTANTS
  Requests,    \* requests, each served once; a login's token is its own name
  OldTokens,   \* tokens of sessions that exist at first
  MaxDevices,  \* SESSION_MAX_DEVICES
  MaxFaults    \* bound on crashes

Tokens == Requests \union OldTokens

ASSUME TokensAssumption == Requests \intersect OldTokens = {}
ASSUME DevicesAssumption ==
  /\ MaxDevices \in Nat \ {0}
  /\ IsFiniteSet(OldTokens) /\ Cardinality(OldTokens) <= MaxDevices
ASSUME FaultsAssumption == MaxFaults \in Nat

VARIABLES
  hash,      \* session:<token>: absent, with all its fields, or lastActivity only
  listed,    \* user:sessions:<userId>
  pc, op,    \* where each request is, and what it does
  target,    \* the token a request is about
  todo,      \* tokens a request has read from the set and not looked at yet
  live,      \* tokens a request has found a session for
  ended,     \* tokens whose session was ended (history)
  present,   \* sessions that were there when a logoutAll read the set (history)
  blind,     \* whether a logoutAll deleted a set it had not read in full (history)
  overlapped, \* whether two logins ever overlapped (history)
  faults

redis == <<hash, listed>>
local == <<op, target, todo, live>>
history == <<ended, present, blind, overlapped>>
vars == <<redis, pc, local, history, faults>>

\* The guard takes a session hash for valid if it has a userId.
Valid(t) == hash[t] = "full"
Running(r) == pc[r] \notin {"idle", "done", "crashed"}
Goto(r, l) == pc' = [pc EXCEPT ![r] = l]

Init ==
  /\ hash = [t \in Tokens |-> IF t \in OldTokens THEN "full" ELSE "absent"]
  /\ listed = OldTokens
  /\ pc = [r \in Requests |-> "idle"]
  /\ op = [r \in Requests |-> "none"]
  /\ target = [r \in Requests |-> r]
  /\ todo = [r \in Requests |-> {}]
  /\ live = [r \in Requests |-> {}]
  /\ ended = {}
  /\ present = [r \in Requests |-> {}]
  /\ blind = FALSE
  /\ overlapped = FALSE
  /\ faults = 0

-----------------------------------------------------------------------------
(* Arrivals, each up to its first command. *)

Start(r, o, t, l) ==
  /\ pc[r] = "idle"
  /\ op' = [op EXCEPT ![r] = o]
  /\ target' = [target EXCEPT ![r] = t]
  /\ overlapped' = (overlapped \/ (o = "login" /\ \E q \in Requests : Running(q) /\ op[q] = "login"))
  /\ Goto(r, l)
  /\ UNCHANGED <<redis, todo, live, ended, present, blind, faults>>

Login(r) == Start(r, "login", r, "members")
List(r) == Start(r, "list", r, "members")
LogoutAll(r) == Start(r, "logoutAll", r, "members")

\* A client only knows the token of a login that has returned.
Known(t) == t \in Requests => op[t] = "login" /\ pc[t] = "done"
Logout(r, t) == Known(t) /\ Start(r, "logout", t, "read")
RevokeRemote(r, t) == Known(t) /\ Start(r, "revokeRemote", t, "owner")
Access(r, t) == Known(t) /\ Start(r, "access", t, "guard")

-----------------------------------------------------------------------------
(* Reading the set: enforceDeviceLimits, listUserSessions, logoutAll. *)

\* Variant: one device more than the limit.
AboveLimit(n) == n > MaxDevices

AtLimit(n) == n >= MaxDevices

\* Where a request goes that has read the tokens S.
AfterMembers(o, S) ==
  CASE o = "login" -> IF AtLimit(Cardinality(S)) THEN "scan" ELSE "create"
    [] o = "list" -> "scan"
    [] OTHER -> IF S = {} THEN "done" ELSE "wipe"

Members(r) ==
  /\ pc[r] = "members"
  /\ todo' = [todo EXCEPT ![r] = listed]
  /\ present' = [present EXCEPT ![r] =
       IF op[r] = "logoutAll" THEN {t \in Tokens : Valid(t) /\ Known(t)} ELSE {}]
  /\ Goto(r, AfterMembers(op[r], listed))
  /\ UNCHANGED <<redis, op, target, live, ended, blind, overlapped, faults>>

\* hgetall of one token after the other; one without a session is pruned.
Scan(r) ==
  /\ pc[r] = "scan"
  /\ \E t \in todo[r] :
       /\ todo' = [todo EXCEPT ![r] = @ \ {t}]
       /\ IF Valid(t)
          THEN live' = [live EXCEPT ![r] = @ \union {t}] /\ UNCHANGED <<target, pc>>
          ELSE target' = [target EXCEPT ![r] = t] /\ Goto(r, "prune") /\ UNCHANGED live
  /\ UNCHANGED <<redis, op, history, faults>>

\* Variant: a stale token makes the whole set stale.
PruneAll(r) ==
  /\ pc[r] = "prune"
  /\ listed' = {}
  /\ Goto(r, "scan")
  /\ UNCHANGED <<hash, local, history, faults>>

Prune(r) ==
  /\ pc[r] = "prune"
  /\ listed' = listed \ {target[r]}
  /\ Goto(r, "scan")
  /\ UNCHANGED <<hash, local, history, faults>>

\* All looked at: a login over the limit evicts one, whichever is oldest.
Scanned(r) ==
  /\ pc[r] = "scan"
  /\ todo[r] = {}
  /\ \/ /\ op[r] = "login" /\ AtLimit(Cardinality(live[r]))
        /\ \E t \in live[r] : target' = [target EXCEPT ![r] = t]
        /\ Goto(r, "read")
     \/ /\ op[r] = "login" /\ ~AtLimit(Cardinality(live[r]))
        /\ Goto(r, "create")
        /\ UNCHANGED target
     \/ /\ op[r] = "list"
        /\ Goto(r, "done")
        /\ UNCHANGED target
  /\ UNCHANGED <<redis, op, todo, live, history, faults>>

-----------------------------------------------------------------------------
(* createSession, after the limit check. *)

CreateHash(r) ==
  /\ pc[r] = "create"
  /\ hash' = [hash EXCEPT ![r] = "full"]
  /\ Goto(r, "add")
  /\ UNCHANGED <<listed, local, history, faults>>

AddToSet(r) ==
  /\ pc[r] = "add"
  /\ listed' = listed \union {r}
  /\ Goto(r, "done")
  /\ UNCHANGED <<hash, local, history, faults>>

-----------------------------------------------------------------------------
(* revokeSession: a logout, a remote revocation or an eviction. *)

\* revokeRemoteSession reads the session once before revokeSession does; every
\* session here is the user's own.
CheckOwner(r) ==
  /\ pc[r] = "owner"
  /\ Goto(r, IF Valid(target[r]) THEN "read" ELSE "done")
  /\ UNCHANGED <<redis, local, history, faults>>

ReadSession(r) ==
  /\ pc[r] = "read"
  /\ Goto(r, IF Valid(target[r]) THEN "del" ELSE "delOnly")
  /\ UNCHANGED <<redis, local, history, faults>>

\* What follows a revocation.
AfterRevoke(r) == IF op[r] = "login" THEN "create" ELSE "done"

DelHash(r) ==
  /\ pc[r] \in {"del", "delOnly"}
  /\ hash' = [hash EXCEPT ![target[r]] = "absent"]
  /\ ended' = ended \union {target[r]}
  /\ Goto(r, IF pc[r] = "del" THEN "srem" ELSE AfterRevoke(r))
  /\ UNCHANGED <<listed, local, present, blind, overlapped, faults>>

RemoveFromSet(r) ==
  /\ pc[r] = "srem"
  /\ listed' = listed \ {target[r]}
  /\ Goto(r, AfterRevoke(r))
  /\ UNCHANGED <<hash, local, history, faults>>

-----------------------------------------------------------------------------
(* revokeAllUserSessions. *)

\* Variant: only the hash of the last token read is deleted.
WipeLast(r) ==
  /\ pc[r] = "wipe"
  /\ \E t \in todo[r] :
       /\ hash' = [hash EXCEPT ![t] = "absent"]
       /\ ended' = ended \union {t}
       /\ todo' = [todo EXCEPT ![r] = {}]
  /\ live' = [live EXCEPT ![r] = todo[r]]
  /\ UNCHANGED <<listed, pc, op, target, present, blind, overlapped, faults>>

\* One del for each token that was read ...
WipeHash(r) ==
  /\ pc[r] = "wipe"
  /\ \E t \in todo[r] :
       /\ hash' = [hash EXCEPT ![t] = "absent"]
       /\ ended' = ended \union {t}
       /\ todo' = [todo EXCEPT ![r] = @ \ {t}]
       /\ live' = [live EXCEPT ![r] = @ \union {t}]
  /\ UNCHANGED <<listed, pc, op, target, present, blind, overlapped, faults>>

\* ... and one for the set, with whatever was added to it since.
WipeSet(r) ==
  /\ pc[r] = "wipe"
  /\ todo[r] = {}
  /\ listed' = {}
  /\ blind' = (blind \/ ~(listed \subseteq live[r]))
  /\ Goto(r, "done")
  /\ UNCHANGED <<hash, local, ended, present, overlapped, faults>>

-----------------------------------------------------------------------------
(* SessionAuthGuard. *)

\* A valid session lets the request in; its refresh is sent meanwhile.
Guard(r) ==
  /\ pc[r] = "guard"
  /\ Goto(r, IF Valid(target[r]) THEN "refresh" ELSE "done")
  /\ UNCHANGED <<redis, local, history, faults>>

\* Variant: the whole session is written back.
Refreshed(t) == "full"

\* hset of lastActivity creates the key again if it is gone, without a userId.
Touched(t) == IF hash[t] = "full" THEN "full" ELSE "activity"

RefreshSession(r) ==
  /\ pc[r] = "refresh"
  /\ hash' = [hash EXCEPT ![target[r]] = Touched(target[r])]
  /\ Goto(r, "done")
  /\ UNCHANGED <<listed, local, history, faults>>

-----------------------------------------------------------------------------

\* Seven days without a refresh.
Expire(t) ==
  /\ hash[t] # "absent"
  /\ hash' = [hash EXCEPT ![t] = "absent"]
  /\ ended' = ended \union {t}
  /\ UNCHANGED <<listed, pc, local, present, blind, overlapped, faults>>

\* A command fails or the replica dies: the request ends where it is.
Crash(r) ==
  /\ Running(r)
  /\ faults < MaxFaults
  /\ faults' = faults + 1
  /\ Goto(r, "crashed")
  /\ UNCHANGED <<redis, local, history>>

Continue(r) ==
  \/ Members(r) \/ Scan(r) \/ Prune(r) \/ Scanned(r) \/ CreateHash(r) \/ AddToSet(r)
  \/ CheckOwner(r) \/ ReadSession(r) \/ DelHash(r) \/ RemoveFromSet(r)
  \/ WipeHash(r) \/ WipeSet(r) \/ Guard(r) \/ RefreshSession(r)

Next ==
  \/ \E r \in Requests :
       \/ Login(r) \/ List(r) \/ LogoutAll(r) \/ Continue(r) \/ Crash(r)
       \/ \E t \in Tokens : Logout(r, t) \/ RevokeRemote(r, t) \/ Access(r, t)
  \/ \E t \in Tokens : Expire(t)

Spec == Init /\ [][Next]_vars

-----------------------------------------------------------------------------
(* Properties. *)

Stages == {"idle", "members", "scan", "prune", "create", "add", "owner", "read", "del", "delOnly",
           "srem", "wipe", "guard", "refresh", "done", "crashed"}

\* Types, and: only a login creates a session.
TypeOK ==
  /\ hash \in [Tokens -> {"absent", "activity", "full"}]
  /\ listed \subseteq Tokens
  /\ pc \in [Requests -> Stages]
  /\ \A r \in Requests : pc[r] \in {"create", "add"} => op[r] = "login"
  /\ op \in [Requests -> {"none", "login", "list", "logoutAll", "logout", "revokeRemote", "access"}]
  /\ target \in [Requests -> Tokens]
  /\ todo \in [Requests -> SUBSET Tokens]
  /\ live \in [Requests -> SUBSET Tokens]
  /\ ended \subseteq Tokens
  /\ present \in [Requests -> SUBSET Tokens]
  /\ blind \in BOOLEAN
  /\ overlapped \in BOOLEAN
  /\ faults \in 0..MaxFaults

\* A session that was logged out, evicted, revoked or expired never lets
\* anyone in again, although refreshes sent before are still to come and
\* create its key again.
EndedStaysEnded == \A t \in ended : ~Valid(t)

\* logoutAll and the device list find sessions in the set only: every session
\* is there from the end of its login on, whatever expiries, evictions and
\* clean-ups of listUserSessions overlap - unless a logoutAll deleted the set
\* with tokens in it that it had not read.
SessionsAreListed ==
  ~blind => \A t \in Tokens :
    Valid(t) => t \in listed \/ (t \in Requests /\ pc[t] \in {"add", "crashed"})

\* "terminates all active sessions across all devices for a user": when a
\* logoutAll or a password reset is over, no session whose login had returned
\* before is left.
LogoutAllEndsSessions ==
  \A r \in Requests : op[r] = "logoutAll" /\ pc[r] = "done" => \A t \in present[r] : ~Valid(t)

\* It holds as long as no other logoutAll has taken tokens off the set unread.
LogoutAllEndsListedSessions == ~blind => LogoutAllEndsSessions

\* "Enforces max 5 concurrent device sessions per account", for logins that do
\* not overlap; evictions race expiries, logouts and clean-ups of the set.
DeviceLimit == ~overlapped => Cardinality({t \in listed : Valid(t)}) <= MaxDevices
=============================================================================
