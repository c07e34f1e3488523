---------------------------- MODULE SessionsProofs ----------------------------
(***************************************************************************)
(* That an ended session stays ended, that every session can be found in   *)
(* the set of its user, and that logoutAll ends all of them - for any      *)
(* number of requests, sessions and crashes, and any device limit.         *)
(*                                                                         *)
(* The argument rests on when a token is born: nothing in Redis, and       *)
(* nothing a request holds, names a token whose login has not written its  *)
(* hash yet.  So a token that was found without a session, or was ended,   *)
(* never gets one again, and may be taken off the set.                     *)
(***************************************************************************)
EXTENDS Sessions, FiniteSetTheorems, TLAPS

BornAt == {"add", "done", "crashed"}
Born(t) == t \in Requests => pc[t] \in BornAt

\* Stages at which target[r] is a token the request has been given or has read.
Aiming == {"prune", "owner", "read", "del", "delOnly", "srem", "guard", "refresh"}

OnlyBornAreNamed ==
  /\ \A t \in Tokens : hash[t] # "absent" => Born(t)
  /\ \A t \in listed \union ended : Born(t)
  /\ \A r \in Requests : \A t \in todo[r] \union live[r] : Born(t)
  /\ \A r \in Requests : pc[r] \in Aiming => Born(target[r])

\* What is taken off the set has no session.
RemovedAreOver ==
  /\ \A r \in Requests : pc[r] = "prune" => ~Valid(target[r])
  /\ \A r \in Requests : pc[r] = "srem" => target[r] \in ended
  /\ \A r \in Requests : pc[r] \in {"idle", "members"} => live[r] = {}
  /\ \A r \in Requests : pc[r] = "wipe" => live[r] \subseteq ended

\* A logoutAll has every session it found ahead of it or behind it.
WipesAreComplete ==
  /\ \A r \in Requests : op[r] = "logoutAll" => pc[r] \in {"members", "wipe", "done", "crashed"}
  /\ ~blind => \A r \in Requests : op[r] = "logoutAll" =>
       /\ pc[r] = "wipe" => present[r] \subseteq todo[r] \union ended
       /\ pc[r] = "done" => present[r] \subseteq ended

IInv ==
  TypeOK /\ OnlyBornAreNamed /\ RemovedAreOver /\ EndedStaysEnded /\ SessionsAreListed /\ WipesAreComplete

LEMMA InitInv == Init => IInv
<1> SUFFICES ASSUME Init PROVE IInv
  OBVIOUS
<1>1. /\ hash \in [Tokens -> {"absent", "activity", "full"}]
      /\ listed \subseteq Tokens /\ ended \subseteq Tokens
  BY DEF Init, Tokens
<1>2. /\ pc \in [Requests -> Stages] /\ \A r \in Requests : pc[r] = "idle"
      /\ op \in [Requests -> {"none", "login", "list", "logoutAll", "logout", "revokeRemote", "access"}]
      /\ target \in [Requests -> Tokens]
  BY DEF Init, Stages, Tokens
<1>3. /\ todo \in [Requests -> SUBSET Tokens] /\ live \in [Requests -> SUBSET Tokens]
      /\ present \in [Requests -> SUBSET Tokens]
  BY DEF Init
<1>4. TypeOK
  <2>1. blind \in BOOLEAN /\ overlapped \in BOOLEAN
    BY DEF Init
  <2>2. faults \in 0..MaxFaults
    BY FaultsAssumption DEF Init
  <2> QED
    BY <1>1, <1>2, <1>3, <2>1, <2>2 DEF TypeOK
<1>5. OnlyBornAreNamed /\ RemovedAreOver /\ WipesAreComplete
  BY TokensAssumption DEF Init, OnlyBornAreNamed, Born, Aiming, RemovedAreOver, WipesAreComplete
<1>6. EndedStaysEnded /\ SessionsAreListed
  BY TokensAssumption DEF Init, EndedStaysEnded, SessionsAreListed, Valid
<1> QED
  BY <1>4, <1>5, <1>6 DEF IInv

-----------------------------------------------------------------------------
(* Arrivals.  A request is about a token that is born, as Known says. *)

LEMMA LoginStep == ASSUME IInv, NEW r \in Requests, Login(r) PROVE IInv'
<1>1. TypeOK'
  BY DEF Login, Start, redis, Goto, IInv, TypeOK, Stages, Tokens
<1>2. OnlyBornAreNamed'
  BY DEF Login, Start, redis, Goto, IInv, OnlyBornAreNamed, Born, BornAt, Aiming
<1>3. RemovedAreOver'
  BY DEF Login, Start, redis, Goto, IInv, RemovedAreOver, Valid
<1>4. EndedStaysEnded'
  BY DEF Login, Start, redis, IInv, EndedStaysEnded, Valid
<1>5. SessionsAreListed'
  BY DEF Login, Start, redis, Goto, IInv, SessionsAreListed, Valid
<1>6. WipesAreComplete'
  BY DEF Login, Start, Goto, IInv, WipesAreComplete
<1> QED
  BY <1>1, <1>2, <1>3, <1>4, <1>5, <1>6 DEF IInv

LEMMA ListStep == ASSUME IInv, NEW r \in Requests, List(r) PROVE IInv'
<1>1. TypeOK'
  BY DEF List, Start, redis, Goto, IInv, TypeOK, Stages, Tokens
<1>2. OnlyBornAreNamed'
  BY DEF List, Start, redis, Goto, IInv, OnlyBornAreNamed, Born, BornAt, Aiming
<1>3. RemovedAreOver'
  BY DEF List, Start, redis, Goto, IInv, RemovedAreOver, Valid
<1>4. EndedStaysEnded'
  BY DEF List, Start, redis, IInv, EndedStaysEnded, Valid
<1>5. SessionsAreListed'
  BY DEF List, Start, redis, Goto, IInv, SessionsAreListed, Valid
<1>6. WipesAreComplete'
  BY DEF List, Start, Goto, IInv, WipesAreComplete
<1> QED
  BY <1>1, <1>2, <1>3, <1>4, <1>5, <1>6 DEF IInv

LEMMA LogoutAllStep == ASSUME IInv, NEW r \in Requests, LogoutAll(r) PROVE IInv'
<1>1. TypeOK'
  BY DEF LogoutAll, Start, redis, Goto, IInv, TypeOK, Stages, Tokens
<1>2. OnlyBornAreNamed'
  BY DEF LogoutAll, Start, redis, Goto, IInv, OnlyBornAreNamed, Born, BornAt, Aiming
<1>3. RemovedAreOver'
  BY DEF LogoutAll, Start, redis, Goto, IInv, RemovedAreOver, Valid
<1>4. EndedStaysEnded'
  BY DEF LogoutAll, Start, redis, IInv, EndedStaysEnded, Valid
<1>5. SessionsAreListed'
  BY DEF LogoutAll, Start, redis, Goto, IInv, SessionsAreListed, Valid
<1>6. WipesAreComplete'
  BY DEF LogoutAll, Start, Goto, IInv, WipesAreComplete, TypeOK
<1> QED
  BY <1>1, <1>2, <1>3, <1>4, <1>5, <1>6 DEF IInv

\* These three go first to a stage that looks at the token they were given.
LEMMA LogoutStep == ASSUME IInv, NEW r \in Requests, NEW t \in Tokens, Logout(r, t) PROVE IInv'
<1>1. TypeOK'
  BY DEF Logout, Start, redis, Goto, IInv, TypeOK, Stages
<1>2. OnlyBornAreNamed'
  BY DEF Logout, Known, Start, redis, Goto, IInv, OnlyBornAreNamed, Born, BornAt, TypeOK
<1>3. RemovedAreOver'
  BY DEF Logout, Start, redis, Goto, IInv, RemovedAreOver, Valid
<1>4. EndedStaysEnded'
  BY DEF Logout, Start, redis, IInv, EndedStaysEnded, Valid
<1>5. SessionsAreListed'
  BY DEF Logout, Start, redis, Goto, IInv, SessionsAreListed, Valid
<1>6. WipesAreComplete'
  BY DEF Logout, Start, Goto, IInv, WipesAreComplete
<1> QED
  BY <1>1, <1>2, <1>3, <1>4, <1>5, <1>6 DEF IInv

LEMMA RevokeRemoteStep == ASSUME IInv, NEW r \in Requests, NEW t \in Tokens, RevokeRemote(r, t) PROVE IInv'
<1>1. TypeOK'
  BY DEF RevokeRemote, Start, redis, Goto, IInv, TypeOK, Stages
<1>2. OnlyBornAreNamed'
  BY DEF RevokeRemote, Known, Start, redis, Goto, IInv, OnlyBornAreNamed, Born, BornAt, TypeOK
<1>3. RemovedAreOver'
  BY DEF RevokeRemote, Start, redis, Goto, IInv, RemovedAreOver, Valid
<1>4. EndedStaysEnded'
  BY DEF RevokeRemote, Start, redis, IInv, EndedStaysEnded, Valid
<1>5. SessionsAreListed'
  BY DEF RevokeRemote, Start, redis, Goto, IInv, SessionsAreListed, Valid
<1>6. WipesAreComplete'
  BY DEF RevokeRemote, Start, Goto, IInv, WipesAreComplete
<1> QED
  BY <1>1, <1>2, <1>3, <1>4, <1>5, <1>6 DEF IInv

LEMMA AccessStep == ASSUME IInv, NEW r \in Requests, NEW t \in Tokens, Access(r, t) PROVE IInv'
<1>1. TypeOK'
  BY DEF Access, Start, redis, Goto, IInv, TypeOK, Stages
<1>2. OnlyBornAreNamed'
  BY DEF Access, Known, Start, redis, Goto, IInv, OnlyBornAreNamed, Born, BornAt, TypeOK
<1>3. RemovedAreOver'
  BY DEF Access, Start, redis, Goto, IInv, RemovedAreOver, Valid
<1>4. EndedStaysEnded'
  BY DEF Access, Start, redis, IInv, EndedStaysEnded, Valid
<1>5. SessionsAreListed'
  BY DEF Access, Start, redis, Goto, IInv, SessionsAreListed, Valid
<1>6. WipesAreComplete'
  BY DEF Access, Start, Goto, IInv, WipesAreComplete
<1> QED
  BY <1>1, <1>2, <1>3, <1>4, <1>5, <1>6 DEF IInv

-----------------------------------------------------------------------------
(* Reading the set, and pruning what has no session any more. *)

LEMMA MembersStep == ASSUME IInv, NEW r \in Requests, Members(r) PROVE IInv'
<1>1. TypeOK'
  BY DEF Members, AfterMembers, redis, Goto, IInv, TypeOK, Stages
<1>2. OnlyBornAreNamed'
  BY DEF Members, AfterMembers, redis, Goto, IInv, OnlyBornAreNamed, Born, BornAt, Aiming
<1>3. RemovedAreOver'
  BY DEF Members, AfterMembers, redis, Goto, IInv, RemovedAreOver, Valid
<1>4. EndedStaysEnded'
  BY DEF Members, redis, IInv, EndedStaysEnded, Valid
<1>5. SessionsAreListed'
  BY DEF Members, redis, Goto, IInv, SessionsAreListed, Valid
<1>6. WipesAreComplete'
  BY DEF Members, AfterMembers, Goto, IInv, WipesAreComplete, TypeOK, SessionsAreListed, Known
<1> QED
  BY <1>1, <1>2, <1>3, <1>4, <1>5, <1>6 DEF IInv

LEMMA ScanStep == ASSUME IInv, NEW r \in Requests, Scan(r) PROVE IInv'
<1>1. TypeOK'
  BY DEF Scan, redis, history, Goto, IInv, TypeOK, Stages
<1>2. OnlyBornAreNamed'
  BY DEF Scan, redis, history, Goto, IInv, OnlyBornAreNamed, Born, BornAt, TypeOK
<1>3. RemovedAreOver'
  BY DEF Scan, redis, history, Goto, IInv, RemovedAreOver, Valid, TypeOK
<1>4. EndedStaysEnded'
  BY DEF Scan, redis, history, IInv, EndedStaysEnded, Valid
<1>5. SessionsAreListed'
  BY DEF Scan, redis, history, Goto, IInv, SessionsAreListed, Valid, TypeOK
<1>6. WipesAreComplete'
  BY DEF Scan, history, Goto, IInv, WipesAreComplete, TypeOK
<1> QED
  BY <1>1, <1>2, <1>3, <1>4, <1>5, <1>6 DEF IInv

LEMMA PruneStep == ASSUME IInv, NEW r \in Requests, Prune(r) PROVE IInv'
<1>1. TypeOK'
  BY DEF Prune, local, history, Goto, IInv, TypeOK, Stages
<1>2. OnlyBornAreNamed'
  BY DEF Prune, local, history, Goto, IInv, OnlyBornAreNamed, Born, BornAt, Aiming
<1>3. RemovedAreOver'
  BY DEF Prune, local, history, Goto, IInv, RemovedAreOver, Valid
<1>4. EndedStaysEnded'
  BY DEF Prune, history, IInv, EndedStaysEnded, Valid
<1>5. SessionsAreListed'
  BY DEF Prune, history, Goto, IInv, SessionsAreListed, Valid, RemovedAreOver
<1>6. WipesAreComplete'
  BY DEF Prune, local, history, Goto, IInv, WipesAreComplete
<1> QED
  BY <1>1, <1>2, <1>3, <1>4, <1>5, <1>6 DEF IInv

LEMMA ScannedStep == ASSUME IInv, NEW r \in Requests, Scanned(r) PROVE IInv'
<1>1. TypeOK'
  BY DEF Scanned, redis, history, Goto, IInv, TypeOK, Stages
<1>2. OnlyBornAreNamed'
  BY DEF Scanned, redis, history, Goto, IInv, OnlyBornAreNamed, Born, BornAt, Aiming, TypeOK
<1>3. RemovedAreOver'
  BY DEF Scanned, redis, history, Goto, IInv, RemovedAreOver, Valid, TypeOK
<1>4. EndedStaysEnded'
  BY DEF Scanned, redis, history, IInv, EndedStaysEnded, Valid
<1>5. SessionsAreListed'
  BY DEF Scanned, redis, history, Goto, IInv, SessionsAreListed, Valid, TypeOK
<1>6. WipesAreComplete'
  BY DEF Scanned, history, Goto, IInv, WipesAreComplete, TypeOK
<1> QED
  BY <1>1, <1>2, <1>3, <1>4, <1>5, <1>6 DEF IInv

-----------------------------------------------------------------------------
(* A login writes its own hash: nobody named it before, so nobody ended it. *)

LEMMA CreateHashStep == ASSUME IInv, NEW r \in Requests, CreateHash(r) PROVE IInv'
<1>1. TypeOK'
  BY DEF CreateHash, local, history, Goto, IInv, TypeOK, Stages
<1>2. OnlyBornAreNamed'
  BY DEF CreateHash, local, history, Goto, IInv, OnlyBornAreNamed, Born, BornAt, Aiming, TypeOK
<1>3. RemovedAreOver'
  BY DEF CreateHash, local, history, Goto, IInv, RemovedAreOver, Valid, OnlyBornAreNamed, Born,
    BornAt, Aiming
<1>4. EndedStaysEnded'
  BY DEF CreateHash, history, IInv, EndedStaysEnded, Valid, OnlyBornAreNamed, Born, BornAt
<1>5. SessionsAreListed'
  BY DEF CreateHash, history, Goto, IInv, SessionsAreListed, Valid, TypeOK
<1>6. WipesAreComplete'
  BY DEF CreateHash, local, history, Goto, IInv, WipesAreComplete
<1> QED
  BY <1>1, <1>2, <1>3, <1>4, <1>5, <1>6 DEF IInv

LEMMA AddToSetStep == ASSUME IInv, NEW r \in Requests, AddToSet(r) PROVE IInv'
<1>1. TypeOK'
  BY DEF AddToSet, local, history, Goto, IInv, TypeOK, Stages, Tokens
<1>2. OnlyBornAreNamed'
  BY DEF AddToSet, local, history, Goto, IInv, OnlyBornAreNamed, Born, BornAt, Aiming
<1>3. RemovedAreOver'
  BY DEF AddToSet, local, history, Goto, IInv, RemovedAreOver, Valid
<1>4. EndedStaysEnded'
  BY DEF AddToSet, history, IInv, EndedStaysEnded, Valid
<1>5. SessionsAreListed'
  BY DEF AddToSet, history, Goto, IInv, SessionsAreListed, Valid
<1>6. WipesAreComplete'
  BY DEF AddToSet, local, history, Goto, IInv, WipesAreComplete
<1> QED
  BY <1>1, <1>2, <1>3, <1>4, <1>5, <1>6 DEF IInv

-----------------------------------------------------------------------------
(* Revocations. *)

LEMMA CheckOwnerStep == ASSUME IInv, NEW r \in Requests, CheckOwner(r) PROVE IInv'
<1>1. TypeOK'
  BY DEF CheckOwner, redis, local, history, Goto, IInv, TypeOK, Stages
<1>2. OnlyBornAreNamed'
  BY DEF CheckOwner, redis, local, history, Goto, IInv, OnlyBornAreNamed, Born, BornAt, Aiming
<1>3. RemovedAreOver'
  BY DEF CheckOwner, redis, local, history, Goto, IInv, RemovedAreOver, Valid
<1>4. EndedStaysEnded'
  BY DEF CheckOwner, redis, history, IInv, EndedStaysEnded, Valid
<1>5. SessionsAreListed'
  BY DEF CheckOwner, redis, history, Goto, IInv, SessionsAreListed, Valid
<1>6. WipesAreComplete'
  BY DEF CheckOwner, local, history, Goto, IInv, WipesAreComplete
<1> QED
  BY <1>1, <1>2, <1>3, <1>4, <1>5, <1>6 DEF IInv

LEMMA ReadSessionStep == ASSUME IInv, NEW r \in Requests, ReadSession(r) PROVE IInv'
<1>1. TypeOK'
  BY DEF ReadSession, redis, local, history, Goto, IInv, TypeOK, Stages
<1>2. OnlyBornAreNamed'
  BY DEF ReadSession, redis, local, history, Goto, IInv, OnlyBornAreNamed, Born, BornAt, Aiming
<1>3. RemovedAreOver'
  BY DEF ReadSession, redis, local, history, Goto, IInv, RemovedAreOver, Valid
<1>4. EndedStaysEnded'
  BY DEF ReadSession, redis, history, IInv, EndedStaysEnded, Valid
<1>5. SessionsAreListed'
  BY DEF ReadSession, redis, history, Goto, IInv, SessionsAreListed, Valid
<1>6. WipesAreComplete'
  BY DEF ReadSession, local, history, Goto, IInv, WipesAreComplete
<1> QED
  BY <1>1, <1>2, <1>3, <1>4, <1>5, <1>6 DEF IInv

LEMMA DelHashStep == ASSUME IInv, NEW r \in Requests, DelHash(r) PROVE IInv'
<1>1. TypeOK'
  BY DEF DelHash, AfterRevoke, local, Goto, IInv, TypeOK, Stages
<1>2. OnlyBornAreNamed'
  BY DEF DelHash, local, Goto, IInv, OnlyBornAreNamed, Born, BornAt, Aiming
<1>3. RemovedAreOver'
  BY DEF DelHash, AfterRevoke, local, Goto, IInv, RemovedAreOver, Valid
<1>4. EndedStaysEnded'
  BY DEF DelHash, IInv, EndedStaysEnded, Valid, TypeOK
<1>5. SessionsAreListed'
  BY DEF DelHash, Goto, IInv, SessionsAreListed, Valid
<1>6. WipesAreComplete'
  BY DEF DelHash, local, Goto, IInv, WipesAreComplete
<1> QED
  BY <1>1, <1>2, <1>3, <1>4, <1>5, <1>6 DEF IInv

LEMMA RemoveFromSetStep == ASSUME IInv, NEW r \in Requests, RemoveFromSet(r) PROVE IInv'
<1>1. TypeOK'
  BY DEF RemoveFromSet, AfterRevoke, local, history, Goto, IInv, TypeOK, Stages
<1>2. OnlyBornAreNamed'
  BY DEF RemoveFromSet, local, history, Goto, IInv, OnlyBornAreNamed, Born, BornAt, Aiming
<1>3. RemovedAreOver'
  BY DEF RemoveFromSet, AfterRevoke, local, history, Goto, IInv, RemovedAreOver, Valid
<1>4. EndedStaysEnded'
  BY DEF RemoveFromSet, history, IInv, EndedStaysEnded, Valid
<1>5. SessionsAreListed'
  BY DEF RemoveFromSet, history, Goto, IInv, SessionsAreListed, Valid, RemovedAreOver,
    EndedStaysEnded
<1>6. WipesAreComplete'
  BY DEF RemoveFromSet, local, history, Goto, IInv, WipesAreComplete
<1> QED
  BY <1>1, <1>2, <1>3, <1>4, <1>5, <1>6 DEF IInv

-----------------------------------------------------------------------------
(* logoutAll: what it has deleted is ended, and blind notes what it missed. *)

LEMMA WipeHashStep == ASSUME IInv, NEW r \in Requests, WipeHash(r) PROVE IInv'
<1>1. TypeOK'
  BY DEF WipeHash, IInv, TypeOK
<1>2. OnlyBornAreNamed'
  BY DEF WipeHash, IInv, OnlyBornAreNamed, Born
<1>3. RemovedAreOver'
  BY DEF WipeHash, IInv, RemovedAreOver, Valid
<1>4. EndedStaysEnded'
  BY DEF WipeHash, IInv, EndedStaysEnded, Valid, TypeOK
<1>5. SessionsAreListed'
  BY DEF WipeHash, IInv, SessionsAreListed, Valid
<1>6. WipesAreComplete'
  BY DEF WipeHash, IInv, WipesAreComplete
<1> QED
  BY <1>1, <1>2, <1>3, <1>4, <1>5, <1>6 DEF IInv

LEMMA WipeSetStep == ASSUME IInv, NEW r \in Requests, WipeSet(r) PROVE IInv'
<1>1. TypeOK'
  BY DEF WipeSet, local, Goto, IInv, TypeOK, Stages
<1>2. OnlyBornAreNamed'
  BY DEF WipeSet, local, Goto, IInv, OnlyBornAreNamed, Born, BornAt, Aiming
<1>3. RemovedAreOver'
  BY DEF WipeSet, local, Goto, IInv, RemovedAreOver, Valid
<1>4. EndedStaysEnded'
  BY DEF WipeSet, IInv, EndedStaysEnded, Valid
<1>5. SessionsAreListed'
  BY DEF WipeSet, Goto, IInv, SessionsAreListed, Valid, TypeOK, RemovedAreOver, EndedStaysEnded
<1>6. WipesAreComplete'
  BY DEF WipeSet, local, Goto, IInv, WipesAreComplete, TypeOK
<1> QED
  BY <1>1, <1>2, <1>3, <1>4, <1>5, <1>6 DEF IInv

-----------------------------------------------------------------------------
(* The guard: a late refresh brings the key back, but not the userId. *)

LEMMA GuardStep == ASSUME IInv, NEW r \in Requests, Guard(r) PROVE IInv'
<1>1. TypeOK'
  BY DEF Guard, redis, local, history, Goto, IInv, TypeOK, Stages
<1>2. OnlyBornAreNamed'
  BY DEF Guard, redis, local, history, Goto, IInv, OnlyBornAreNamed, Born, BornAt, Aiming
<1>3. RemovedAreOver'
  BY DEF Guard, redis, local, history, Goto, IInv, RemovedAreOver, Valid
<1>4. EndedStaysEnded'
  BY DEF Guard, redis, history, IInv, EndedStaysEnded, Valid
<1>5. SessionsAreListed'
  BY DEF Guard, redis, history, Goto, IInv, SessionsAreListed, Valid
<1>6. WipesAreComplete'
  BY DEF Guard, local, history, Goto, IInv, WipesAreComplete
<1> QED
  BY <1>1, <1>2, <1>3, <1>4, <1>5, <1>6 DEF IInv

LEMMA RefreshSessionStep == ASSUME IInv, NEW r \in Requests, RefreshSession(r) PROVE IInv'
<1>1. TypeOK'
  BY DEF RefreshSession, Touched, local, history, Goto, IInv, TypeOK, Stages
<1>2. OnlyBornAreNamed'
  BY DEF RefreshSession, local, history, Goto, IInv, OnlyBornAreNamed, Born, BornAt, Aiming
<1>3. RemovedAreOver'
  BY DEF RefreshSession, Touched, local, history, Goto, IInv, RemovedAreOver, Valid
<1>4. EndedStaysEnded'
  BY DEF RefreshSession, Touched, history, IInv, EndedStaysEnded, Valid
<1>5. SessionsAreListed'
  BY DEF RefreshSession, Touched, history, Goto, IInv, SessionsAreListed, Valid
<1>6. WipesAreComplete'
  BY DEF RefreshSession, local, history, Goto, IInv, WipesAreComplete
<1> QED
  BY <1>1, <1>2, <1>3, <1>4, <1>5, <1>6 DEF IInv

-----------------------------------------------------------------------------
(* Crashes, expiries, and all steps together. *)

LEMMA CrashStep == ASSUME IInv, NEW r \in Requests, Crash(r) PROVE IInv'
<1>1. TypeOK'
  BY FaultsAssumption DEF Crash, redis, local, history, Goto, IInv, TypeOK, Stages
<1>2. OnlyBornAreNamed'
  BY DEF Crash, redis, local, history, Goto, IInv, OnlyBornAreNamed, Born, BornAt, Aiming
<1>3. RemovedAreOver'
  BY DEF Crash, redis, local, history, Goto, IInv, RemovedAreOver, Valid
<1>4. EndedStaysEnded'
  BY DEF Crash, redis, history, IInv, EndedStaysEnded, Valid
<1>5. SessionsAreListed'
  BY DEF Crash, redis, history, Goto, IInv, SessionsAreListed, Valid
<1>6. WipesAreComplete'
  BY DEF Crash, local, history, Goto, IInv, WipesAreComplete
<1> QED
  BY <1>1, <1>2, <1>3, <1>4, <1>5, <1>6 DEF IInv

LEMMA ExpireStep == ASSUME IInv, NEW t \in Tokens, Expire(t) PROVE IInv'
<1>1. TypeOK'
  BY DEF Expire, local, IInv, TypeOK
<1>2. OnlyBornAreNamed'
  BY DEF Expire, local, IInv, OnlyBornAreNamed, Born
<1>3. RemovedAreOver'
  BY DEF Expire, local, IInv, RemovedAreOver, Valid
<1>4. EndedStaysEnded'
  BY DEF Expire, IInv, EndedStaysEnded, Valid, TypeOK
<1>5. SessionsAreListed'
  BY DEF Expire, IInv, SessionsAreListed, Valid
<1>6. WipesAreComplete'
  BY DEF Expire, local, IInv, WipesAreComplete
<1> QED
  BY <1>1, <1>2, <1>3, <1>4, <1>5, <1>6 DEF IInv

\* Every step keeps the invariant.
LEMMA NextInv == IInv /\ [Next]_vars => IInv'
<1> SUFFICES ASSUME IInv, [Next]_vars PROVE IInv'
  OBVIOUS
<1>1. ASSUME NEW r \in Requests, Login(r) \/ List(r) \/ LogoutAll(r) \/ Crash(r) PROVE IInv'
  BY <1>1, LoginStep, ListStep, LogoutAllStep, CrashStep
<1>2. ASSUME NEW r \in Requests, NEW t \in Tokens, Logout(r, t) \/ RevokeRemote(r, t) \/ Access(r, t)
      PROVE  IInv'
  BY <1>2, LogoutStep, RevokeRemoteStep, AccessStep
<1>3. ASSUME NEW r \in Requests, Continue(r) PROVE IInv'
  BY <1>3, MembersStep, ScanStep, PruneStep, ScannedStep, CreateHashStep, AddToSetStep,
    CheckOwnerStep,
    ReadSessionStep, DelHashStep, RemoveFromSetStep, WipeHashStep, WipeSetStep, GuardStep,
    RefreshSessionStep DEF Continue
<1>4. CASE UNCHANGED vars
  BY <1>4 DEF vars, redis, local, history, IInv, TypeOK, OnlyBornAreNamed, Born, RemovedAreOver,
    EndedStaysEnded, SessionsAreListed, Valid, WipesAreComplete
<1> QED
  BY <1>1, <1>2, <1>3, <1>4, ExpireStep DEF Next

THEOREM SpecInv == Spec => []IInv
BY InitInv, NextInv, PTL DEF Spec

-----------------------------------------------------------------------------

\* Requests, tokens and what is stored of a session are what they should be in
\* every state, and only logins create sessions (session.service.ts:37).
THEOREM TypeCorrect == Spec => []TypeOK
<1>1. IInv => TypeOK
  BY DEF IInv
<1> QED
  BY SpecInv, <1>1, PTL

\* A session that was logged out, evicted, revoked or expired never lets anyone
\* in again, however late the refreshes of lastActivity come: the guard does not
\* wait for them (session-auth.guard.ts).
THEOREM EndedSessionsStayEnded == Spec => []EndedStaysEnded
<1>1. IInv => EndedStaysEnded
  BY DEF IInv
<1> QED
  BY SpecInv, <1>1, PTL

\* Every session can be found in the set from the end of its login on, as long as
\* no logoutAll deletes a set it has not read in full.
THEOREM SessionsCanBeFound == Spec => []SessionsAreListed
<1>1. IInv => SessionsAreListed
  BY DEF IInv
<1> QED
  BY SpecInv, <1>1, PTL

\* Under the same condition a logoutAll leaves no session that was there when it
\* read the set: all of them are ended, and ended sessions stay ended.
THEOREM LogoutAllEndsThem == Spec => []LogoutAllEndsListedSessions
<1>1. IInv => LogoutAllEndsListedSessions
  BY DEF IInv, LogoutAllEndsListedSessions, LogoutAllEndsSessions, WipesAreComplete, EndedStaysEnded
<1> QED
  BY SpecInv, <1>1, PTL
-----------------------------------------------------------------------------
(* The device limit. *)

\* The sessions that count: in the set, with all their fields.
Devices == {t \in listed : Valid(t)}

\* What a login has found, or may still find, of them.
Found(r) == live[r] \union {t \in todo[r] : Valid(t)}

\* A login that is over has no stage here, so at most one request is at one.
LoggingIn(r) == op[r] = "login" /\ Running(r)
OneLogin == \A r, q \in Requests : LoggingIn(r) /\ LoggingIn(q) => r = q

\* Up to the eviction a login has all devices in what it found, within the
\* limit, and evicts one of those; from then on there is room for one more.
LoginKnows(r) ==
  LoggingIn(r) =>
    /\ pc[r] \in {"scan", "prune", "read", "del", "delOnly"} =>
         /\ Devices \subseteq Found(r)
         /\ IsFiniteSet(Found(r)) /\ Cardinality(Found(r)) <= MaxDevices
    /\ pc[r] \in {"read", "del", "delOnly"} => todo[r] = {} /\ target[r] \in live[r]
    /\ pc[r] \in {"srem", "create", "add"} => Cardinality(Devices \ {r}) < MaxDevices
    /\ pc[r] \notin {"idle", "owner", "guard", "refresh", "wipe"}

LimitInv ==
  /\ IsFiniteSet(listed)
  /\ ~overlapped => /\ OneLogin
                    /\ Cardinality(Devices) <= MaxDevices
                    /\ \A r \in Requests : LoginKnows(r)

LEMMA SmallerSet ==
  ASSUME NEW S, NEW T \in SUBSET S, IsFiniteSet(S)
  PROVE  /\ IsFiniteSet(T) /\ Cardinality(T) \in Nat
         /\ Cardinality(S) \in Nat /\ Cardinality(T) <= Cardinality(S)
BY FS_Subset, FS_CardinalityType

LEMMA OneLess ==
  ASSUME NEW S, IsFiniteSet(S), Cardinality(S) <= MaxDevices, NEW x \in S, NEW T \in SUBSET (S \ {x})
  PROVE  Cardinality(T) < MaxDevices
<1>1. IsFiniteSet(S \ {x}) /\ Cardinality(S \ {x}) = Cardinality(S) - 1 /\ Cardinality(S) \in Nat
  BY FS_RemoveElement, FS_CardinalityType
<1>2. Cardinality(T) \in Nat /\ Cardinality(T) <= Cardinality(S \ {x})
  BY <1>1, SmallerSet
<1> QED
  BY <1>1, <1>2, DevicesAssumption

LEMMA OneMore ==
  ASSUME NEW S, IsFiniteSet(S), NEW x, Cardinality(S \ {x}) < MaxDevices, NEW T \in SUBSET (S \union {x})
  PROVE  Cardinality(T) <= MaxDevices
<1>1. IsFiniteSet(S \ {x}) /\ Cardinality(S \ {x}) \in Nat
  BY SmallerSet
<1>2. /\ IsFiniteSet((S \ {x}) \union {x})
      /\ Cardinality((S \ {x}) \union {x}) = Cardinality(S \ {x}) + 1
  BY <1>1, FS_AddElement
<1>3. Cardinality(T) \in Nat /\ Cardinality(T) <= Cardinality((S \ {x}) \union {x})
  BY <1>2, SmallerSet
<1> QED
  BY <1>1, <1>2, <1>3, DevicesAssumption

\* Steps that add no device leave what another request knows as it is.
LEMMA FewerDevices ==
  ASSUME IsFiniteSet(listed), NEW r \in Requests, LoginKnows(r), Devices' \subseteq Devices,
         \A t \in Tokens : Valid(t)' => Valid(t), listed' \subseteq Tokens,
         pc'[r] = pc[r], op'[r] = op[r], todo'[r] = todo[r], live'[r] = live[r],
         target'[r] = target[r], todo[r] \subseteq Tokens
  PROVE  LoginKnows(r)'
<1> SUFFICES ASSUME LoggingIn(r)' PROVE LoginKnows(r)'
  BY DEF LoginKnows
<1>1. LoggingIn(r)
  BY DEF LoggingIn, Running
<1>2. ASSUME pc[r] \in {"scan", "prune", "read", "del", "delOnly"}
      PROVE  /\ Devices' \subseteq Found(r)'
             /\ IsFiniteSet(Found(r)') /\ Cardinality(Found(r)') <= MaxDevices
  <2>1. /\ Devices \subseteq Found(r)
        /\ IsFiniteSet(Found(r)) /\ Cardinality(Found(r)) <= MaxDevices
    BY <1>1, <1>2 DEF LoginKnows
  <2>2. Found(r)' \subseteq Found(r)
    BY DEF Found
  <2>3. Devices' \subseteq Found(r)'
    BY <2>1 DEF Found, Devices
  <2> QED
    BY <2>1, <2>2, <2>3, SmallerSet, DevicesAssumption
<1>3. ASSUME pc[r] \in {"srem", "create", "add"} PROVE Cardinality(Devices' \ {r}) < MaxDevices
  <2>1. IsFiniteSet(Devices \ {r}) /\ Cardinality(Devices \ {r}) < MaxDevices
    BY <1>1, <1>3, SmallerSet DEF LoginKnows, Devices
  <2> QED
    BY <2>1, SmallerSet, DevicesAssumption
<1> QED
  BY <1>1, <1>2, <1>3 DEF LoginKnows

\* So such a step is harmless if it is no login's, or the login's own
\* knowledge is still right.
LEMMA QuietStep ==
  ASSUME IInv, TypeOK', LimitInv, NEW r \in Requests,
         listed' \subseteq listed, \A t \in Tokens : Valid(t)' => Valid(t),
         overlapped' = overlapped,
         \A q \in Requests \ {r} : /\ pc'[q] = pc[q] /\ op'[q] = op[q] /\ todo'[q] = todo[q]
                                   /\ live'[q] = live[q] /\ target'[q] = target[q],
         LoggingIn(r)' => LoggingIn(r),
         ~overlapped => LoginKnows(r)'
  PROVE  LimitInv'
<1>1. IsFiniteSet(listed')
  BY SmallerSet DEF LimitInv
<1> SUFFICES ASSUME ~overlapped
             PROVE  OneLogin' /\ Cardinality(Devices') <= MaxDevices /\ \A q \in Requests : LoginKnows(q)'
  BY <1>1 DEF LimitInv
<1>2. Devices' \subseteq Devices
  BY DEF Devices, IInv, TypeOK
<1>3. IsFiniteSet(Devices) /\ Cardinality(Devices) <= MaxDevices
  BY SmallerSet DEF LimitInv, Devices
<1>4. Cardinality(Devices') <= MaxDevices
  BY <1>2, <1>3, SmallerSet, DevicesAssumption
<1>5. \A q \in Requests : LoggingIn(q)' => LoggingIn(q)
  BY DEF LoggingIn, Running
<1>6. OneLogin'
  BY <1>5 DEF OneLogin, LimitInv
<1>7. ASSUME NEW q \in Requests \ {r} PROVE LoginKnows(q)'
  BY <1>2, FewerDevices DEF LimitInv, IInv, TypeOK
<1> QED
  BY <1>4, <1>6, <1>7

-----------------------------------------------------------------------------

\* Arrivals: a login is the only one, or it overlaps another.
LEMMA StartLimit ==
  ASSUME IInv, TypeOK', LimitInv, NEW r \in Requests, NEW o, NEW t, NEW l, Start(r, o, t, l),
         o = "login" => l = "members", Running(r)'
  PROVE  LimitInv'
<1>1. /\ UNCHANGED <<hash, listed, todo, live>>
      /\ pc[r] = "idle" /\ pc'[r] = l /\ op'[r] = o
      /\ \A q \in Requests \ {r} : pc'[q] = pc[q] /\ op'[q] = op[q] /\ target'[q] = target[q]
  BY DEF Start, Goto, redis, IInv, TypeOK
<1>2. Devices' = Devices
  BY <1>1 DEF Devices, Valid
<1> SUFFICES ASSUME ~overlapped'
             PROVE  OneLogin' /\ Cardinality(Devices') <= MaxDevices /\ \A q \in Requests : LoginKnows(q)'
  BY <1>1 DEF LimitInv
<1>3. ~overlapped /\ (o = "login" => \A q \in Requests : ~LoggingIn(q))
  BY DEF Start, LoggingIn
<1>4. \A q \in Requests \ {r} : LoggingIn(q)' => LoggingIn(q)
  BY <1>1 DEF LoggingIn, Running
<1>5. OneLogin'
  BY <1>1, <1>3, <1>4 DEF OneLogin, LimitInv, LoggingIn
<1>6. ASSUME NEW q \in Requests \ {r} PROVE LoginKnows(q)'
  BY <1>1, <1>2, <1>3, FewerDevices DEF LimitInv, IInv, TypeOK, Valid
<1>7. LoginKnows(r)'
  BY <1>1 DEF LoginKnows, LoggingIn
<1> QED
  BY <1>2, <1>3, <1>5, <1>6, <1>7 DEF LimitInv

LEMMA ArrivalLimit ==
  ASSUME IInv, TypeOK', LimitInv, NEW r \in Requests, NEW t \in Tokens,
         \/ Login(r) \/ List(r) \/ LogoutAll(r) \/ Logout(r, t) \/ RevokeRemote(r, t) \/ Access(r, t)
  PROVE  LimitInv'
<1>1. PICK o, l, u : Start(r, o, u, l) /\ (o = "login" => l = "members")
                     /\ l \in {"members", "read", "owner", "guard"}
  BY DEF Login, List, LogoutAll, Logout, RevokeRemote, Access
<1>2. Running(r)'
  BY <1>1 DEF Start, Goto, Running, IInv, TypeOK
<1> QED
  BY <1>1, <1>2, StartLimit

\* Reading the set, all of it.
LEMMA MembersLimit == ASSUME IInv, TypeOK', LimitInv, NEW r \in Requests, Members(r) PROVE LimitInv'
<1>1. /\ pc[r] = "members" /\ UNCHANGED <<hash, listed, op, target, live, overlapped>>
      /\ todo'[r] = listed /\ pc'[r] = AfterMembers(op[r], listed)
      /\ \A q \in Requests \ {r} : pc'[q] = pc[q] /\ todo'[q] = todo[q]
  BY DEF Members, Goto, redis, IInv, TypeOK
<1>2. live[r] = {}
  BY <1>1 DEF IInv, RemovedAreOver
<1>3. ASSUME ~overlapped, LoggingIn(r)' PROVE LoginKnows(r)'
  <2>1. op[r] = "login" /\ LoggingIn(r)
    BY <1>1, <1>3 DEF LoggingIn, Running
  <2>2. Devices' = Devices /\ Found(r)' = Devices
    BY <1>1, <1>2 DEF Devices, Found, Valid
  <2>3. /\ IsFiniteSet(Devices) /\ Cardinality(Devices) <= MaxDevices
        /\ Cardinality(Devices \ {r}) <= Cardinality(listed)
        /\ Cardinality(Devices \ {r}) \in Nat /\ Cardinality(listed) \in Nat
    BY <1>3, SmallerSet DEF LimitInv, Devices
  <2>4. CASE pc'[r] = "scan"
    BY <2>2, <2>3, <2>4 DEF LoginKnows
  <2>5. CASE pc'[r] = "create" /\ ~AtLimit(Cardinality(listed))
    <3>1. Cardinality(Devices \ {r}) < MaxDevices
      BY <2>3, <2>5, DevicesAssumption DEF AtLimit
    <3> QED
      BY <2>2, <2>5, <3>1 DEF LoginKnows
  <2> QED
    BY <1>1, <2>1, <2>4, <2>5 DEF AfterMembers
<1>4. LoggingIn(r)' => LoggingIn(r)
  BY <1>1 DEF LoggingIn, Running
<1>5. ~overlapped => LoginKnows(r)'
  BY <1>3 DEF LoginKnows
<1> QED
  BY <1>1, <1>4, <1>5, QuietStep DEF Valid

\* Looking at one token after the other changes nothing found or to be found.
LEMMA ScanLimit ==
  ASSUME IInv, TypeOK', LimitInv, NEW r \in Requests, Scan(r) \/ Prune(r)
  PROVE  LimitInv'
<1>1. /\ pc[r] \in {"scan", "prune"} /\ pc'[r] \in {"scan", "prune"}
      /\ UNCHANGED <<hash, op, overlapped>> /\ listed' \subseteq listed
      /\ \A q \in Requests \ {r} : /\ pc'[q] = pc[q] /\ todo'[q] = todo[q] /\ live'[q] = live[q]
                                   /\ target'[q] = target[q]
  BY DEF Scan, Prune, Goto, redis, local, history, IInv, TypeOK
<1>2. Found(r)' = Found(r)
  BY DEF Scan, Prune, redis, local, history, IInv, TypeOK, Found, Valid
<1>3. Devices' \subseteq Devices
  BY <1>1 DEF Devices, Valid
<1>4. LoggingIn(r)' => LoggingIn(r)
  BY <1>1 DEF LoggingIn, Running
<1>5. ~overlapped => LoginKnows(r)'
  BY <1>1, <1>2, <1>3, <1>4 DEF LimitInv, LoginKnows
<1> QED
  BY <1>1, <1>4, <1>5, QuietStep DEF Valid

\* All looked at: there is room, or one of those found is evicted.
LEMMA ScannedLimit == ASSUME IInv, TypeOK', LimitInv, NEW r \in Requests, Scanned(r) PROVE LimitInv'
<1>1. /\ pc[r] = "scan" /\ todo[r] = {} /\ UNCHANGED <<hash, listed, op, todo, live, overlapped>>
      /\ \A q \in Requests \ {r} : pc'[q] = pc[q] /\ target'[q] = target[q]
      /\ \/ pc'[r] = "read" /\ target'[r] \in live[r]
         \/ op[r] = "login" /\ pc'[r] = "create" /\ ~AtLimit(Cardinality(live[r]))
         \/ op[r] = "list" /\ pc'[r] = "done"
  BY DEF Scanned, Goto, redis, history, IInv, TypeOK
<1>2. Found(r) = live[r] /\ Found(r)' = live[r] /\ Devices' = Devices
  BY <1>1 DEF Found, Devices, Valid
<1>3. LoggingIn(r)' => LoggingIn(r)
  BY <1>1 DEF LoggingIn, Running
<1>4. ASSUME ~overlapped, LoggingIn(r)' PROVE LoginKnows(r)'
  <2>1. Devices \subseteq live[r] /\ IsFiniteSet(live[r]) /\ Cardinality(live[r]) <= MaxDevices
    BY <1>1, <1>2, <1>3, <1>4 DEF LimitInv, LoginKnows
  <2>2. CASE pc'[r] = "read" /\ target'[r] \in live[r]
    BY <1>1, <1>2, <2>1, <2>2 DEF LoginKnows
  <2>3. CASE pc'[r] = "create" /\ ~AtLimit(Cardinality(live[r]))
    <3>1. /\ Cardinality(Devices \ {r}) <= Cardinality(live[r])
          /\ Cardinality(Devices \ {r}) \in Nat /\ Cardinality(live[r]) \in Nat
      BY <2>1, SmallerSet
    <3>2. Cardinality(Devices \ {r}) < MaxDevices
      BY <2>3, <3>1, DevicesAssumption DEF AtLimit
    <3> QED
      BY <1>2, <2>3, <3>2 DEF LoginKnows
  <2> QED
    BY <1>1, <1>4, <2>2, <2>3 DEF LoggingIn, Running
<1>5. ~overlapped => LoginKnows(r)'
  BY <1>4 DEF LoginKnows
<1> QED
  BY <1>1, <1>3, <1>5, QuietStep DEF Valid

\* The new session: its hash counts only once the token is in the set.
LEMMA CreateHashLimit == ASSUME IInv, TypeOK', LimitInv, NEW r \in Requests, CreateHash(r) PROVE LimitInv'
<1>1. /\ pc[r] = "create" /\ pc'[r] = "add"
      /\ UNCHANGED <<listed, op, target, todo, live, overlapped>>
      /\ \A q \in Requests \ {r} : pc'[q] = pc[q]
      /\ \A t \in Tokens \ {r} : hash'[t] = hash[t]
      /\ LoggingIn(r) /\ LoggingIn(r)'
  BY DEF CreateHash, Goto, local, history, IInv, TypeOK, LoggingIn, Running
<1>2. r \notin listed
  <2>1. r \in listed => Born(r)
    BY DEF IInv, OnlyBornAreNamed
  <2> QED
    BY <1>1, <2>1 DEF Born, BornAt
<1>3. Devices' = Devices
  BY <1>1, <1>2 DEF Devices, Valid, IInv, TypeOK
<1> SUFFICES ASSUME ~overlapped PROVE OneLogin' /\ \A q \in Requests : LoginKnows(q)'
  BY <1>1, <1>3 DEF LimitInv
<1>4. \A q \in Requests : LoggingIn(q)' => q = r
  BY <1>1 DEF LimitInv, OneLogin, LoggingIn, Running
<1>5. LoginKnows(r)'
  BY <1>1, <1>3 DEF LimitInv, LoginKnows
<1> QED
  BY <1>4, <1>5 DEF OneLogin, LoginKnows

LEMMA AddToSetLimit == ASSUME IInv, TypeOK', LimitInv, NEW r \in Requests, AddToSet(r) PROVE LimitInv'
<1>1. /\ pc[r] = "add" /\ pc'[r] = "done"
      /\ listed' = listed \union {r} /\ UNCHANGED <<hash, op, overlapped>>
      /\ \A q \in Requests \ {r} : pc'[q] = pc[q]
      /\ LoggingIn(r)
  BY DEF AddToSet, Goto, local, history, IInv, TypeOK, LoggingIn, Running
<1>2. IsFiniteSet(listed')
  BY <1>1, FS_AddElement DEF LimitInv
<1> SUFFICES ASSUME ~overlapped
             PROVE  OneLogin' /\ Cardinality(Devices') <= MaxDevices /\ \A q \in Requests : LoginKnows(q)'
  BY <1>1, <1>2 DEF LimitInv
<1>3. \A q \in Requests : ~LoggingIn(q)'
  BY <1>1 DEF LimitInv, OneLogin, LoggingIn, Running
<1>4. IsFiniteSet(Devices) /\ Cardinality(Devices \ {r}) < MaxDevices
  BY <1>1, SmallerSet DEF LimitInv, LoginKnows, Devices
<1>5. Devices' \subseteq Devices \union {r}
  BY <1>1 DEF Devices, Valid
<1> QED
  BY <1>3, <1>4, <1>5, OneMore DEF OneLogin, LoginKnows

\* An eviction makes room for one.
LEMMA DelHashLimit == ASSUME IInv, TypeOK', LimitInv, NEW r \in Requests, DelHash(r) PROVE LimitInv'
<1>1. /\ pc[r] \in {"del", "delOnly"}
      /\ UNCHANGED <<listed, op, target, todo, live, overlapped>>
      /\ ~Valid(target[r])' /\ \A t \in Tokens : Valid(t)' => Valid(t)
      /\ \A q \in Requests \ {r} : pc'[q] = pc[q]
      /\ pc'[r] = "srem" \/ pc'[r] = AfterRevoke(r)
  BY DEF DelHash, Goto, local, Valid, IInv, TypeOK
<1>2. LoggingIn(r)' => LoggingIn(r)
  BY <1>1 DEF LoggingIn, Running
<1>3. ASSUME ~overlapped, LoggingIn(r)' PROVE LoginKnows(r)'
  <2>1. /\ Devices \subseteq Found(r) /\ todo[r] = {} /\ target[r] \in live[r]
        /\ IsFiniteSet(Found(r)) /\ Cardinality(Found(r)) <= MaxDevices
    BY <1>1, <1>2, <1>3 DEF LimitInv, LoginKnows
  <2>2. target[r] \in Found(r) /\ Devices' \ {r} \subseteq Found(r) \ {target[r]}
    BY <1>1, <2>1 DEF Found, Devices, IInv, TypeOK
  <2>3. Cardinality(Devices' \ {r}) < MaxDevices
    BY <2>1, <2>2, OneLess
  <2>4. pc'[r] \in {"srem", "create"}
    BY <1>1, <1>3 DEF AfterRevoke, LoggingIn, Running
  <2> QED
    BY <2>3, <2>4 DEF LoginKnows
<1>4. ~overlapped => LoginKnows(r)'
  BY <1>3 DEF LoginKnows
<1> QED
  BY <1>1, <1>2, <1>4, QuietStep

\* The other steps only take sessions or tokens away.
LEMMA OtherLimit ==
  ASSUME IInv, TypeOK', LimitInv, NEW r \in Requests,
         \/ CheckOwner(r) \/ ReadSession(r) \/ RemoveFromSet(r) \/ WipeHash(r) \/ WipeSet(r)
         \/ Guard(r) \/ RefreshSession(r) \/ Crash(r)
  PROVE  LimitInv'
<1>1. /\ UNCHANGED <<op, target, overlapped>> /\ listed' \subseteq listed
      /\ \A t \in Tokens : Valid(t)' => Valid(t)
      /\ \A q \in Requests \ {r} : pc'[q] = pc[q] /\ todo'[q] = todo[q] /\ live'[q] = live[q]
  BY DEF CheckOwner, ReadSession, RemoveFromSet, WipeHash, WipeSet, Guard, RefreshSession, Crash,
         Touched, Goto, redis, local, history, Valid, IInv, TypeOK
<1>2. LoggingIn(r)' => LoggingIn(r)
  BY DEF CheckOwner, ReadSession, RemoveFromSet, WipeHash, WipeSet, Guard, RefreshSession, Crash,
         Goto, local, LoggingIn, Running, IInv, TypeOK
<1>3. Devices' \subseteq Devices
  BY <1>1 DEF Devices, IInv, TypeOK
<1>4. ASSUME ~overlapped, LoggingIn(r)' PROVE LoginKnows(r)'
  <2>1. LoginKnows(r) /\ LoggingIn(r)
    BY <1>2, <1>4 DEF LimitInv
  <2>2. CASE ReadSession(r)
    <3>1. /\ pc[r] = "read" /\ pc'[r] \in {"del", "delOnly"}
          /\ UNCHANGED <<hash, listed, todo, live, target>>
      BY <2>2 DEF ReadSession, Goto, redis, local, IInv, TypeOK
    <3>2. Devices' = Devices /\ Found(r)' = Found(r)
      BY <3>1 DEF Devices, Found, Valid
    <3> QED
      BY <2>1, <3>1, <3>2 DEF LoginKnows
  <2>3. CASE RemoveFromSet(r)
    <3>1. pc[r] = "srem" /\ pc'[r] = "create"
      BY <2>1, <2>3 DEF RemoveFromSet, AfterRevoke, Goto, LoggingIn, IInv, TypeOK
    <3>2. IsFiniteSet(Devices \ {r}) /\ Cardinality(Devices \ {r}) < MaxDevices
      BY <2>1, <3>1, SmallerSet DEF LimitInv, LoginKnows, Devices
    <3>3. Cardinality(Devices' \ {r}) < MaxDevices
      BY <1>3, <3>2, SmallerSet, DevicesAssumption
    <3> QED
      BY <3>1, <3>3 DEF LoginKnows
  <2>4. CASE CheckOwner(r) \/ WipeHash(r) \/ WipeSet(r) \/ Guard(r) \/ RefreshSession(r)
    BY <2>1, <2>4 DEF LoginKnows, CheckOwner, WipeHash, WipeSet, Guard, RefreshSession
  <2>5. CASE Crash(r)
    BY <1>4, <2>5 DEF Crash, Goto, LoggingIn, Running, IInv, TypeOK
  <2> QED
    BY <2>2, <2>3, <2>4, <2>5
<1>5. ~overlapped => LoginKnows(r)'
  BY <1>4 DEF LoginKnows
<1> QED
  BY <1>1, <1>2, <1>5, QuietStep

LEMMA ExpireLimit == ASSUME IInv, TypeOK', LimitInv, NEW t \in Tokens, Expire(t) PROVE LimitInv'
<1>1. /\ UNCHANGED <<listed, pc, op, target, todo, live, overlapped>>
      /\ \A u \in Tokens : Valid(u)' => Valid(u)
  BY DEF Expire, local, Valid, IInv, TypeOK
<1>2. Devices' \subseteq Devices
  BY <1>1 DEF Devices, IInv, TypeOK
<1>3. ASSUME NEW q \in Requests, LoginKnows(q) PROVE LoginKnows(q)'
  BY <1>1, <1>2, <1>3, FewerDevices DEF LimitInv, IInv, TypeOK
<1>4. IsFiniteSet(Devices)
  BY SmallerSet DEF LimitInv, Devices
<1>5. Cardinality(Devices) <= MaxDevices => Cardinality(Devices') <= MaxDevices
  BY <1>2, <1>4, SmallerSet, DevicesAssumption
<1> QED
  BY <1>1, <1>3, <1>5 DEF LimitInv, OneLogin, LoggingIn, Running

LEMMA NextLimit == IInv /\ LimitInv /\ [Next]_vars => LimitInv'
<1> SUFFICES ASSUME IInv, LimitInv, [Next]_vars PROVE LimitInv'
  OBVIOUS
<1>1. TypeOK'
  BY NextInv DEF IInv
<1>2. ASSUME NEW r \in Requests, NEW t \in Tokens,
             \/ Login(r) \/ List(r) \/ LogoutAll(r) \/ Logout(r, t) \/ RevokeRemote(r, t) \/ Access(r, t)
      PROVE  LimitInv'
  BY <1>1, <1>2, ArrivalLimit
<1>3. ASSUME NEW r \in Requests, Continue(r) \/ Crash(r) PROVE LimitInv'
  BY <1>1, <1>3, MembersLimit, ScanLimit, ScannedLimit, CreateHashLimit, AddToSetLimit,
    DelHashLimit, OtherLimit DEF Continue
<1>4. ASSUME NEW t \in Tokens, Expire(t) PROVE LimitInv'
  BY <1>1, <1>4, ExpireLimit
<1>5. CASE UNCHANGED vars
  BY <1>5 DEF vars, redis, local, history, LimitInv, OneLogin, LoggingIn, Running, LoginKnows, Found,
    Devices, Valid
<1>6. Requests \subseteq Tokens
  BY DEF Tokens
<1> QED
  BY <1>2, <1>3, <1>4, <1>5, <1>6 DEF Next

LEMMA InitLimit == Init => LimitInv
<1> SUFFICES ASSUME Init PROVE LimitInv
  OBVIOUS
<1>1. listed = OldTokens /\ IsFiniteSet(OldTokens) /\ Cardinality(OldTokens) <= MaxDevices
  BY DevicesAssumption DEF Init
<1>2. Cardinality(Devices) <= MaxDevices
  BY <1>1, SmallerSet, DevicesAssumption DEF Devices
<1>3. \A r \in Requests : ~LoggingIn(r)
  BY DEF Init, LoggingIn
<1> QED
  BY <1>1, <1>2, <1>3 DEF LimitInv, OneLogin, LoginKnows

\* enforceDeviceLimits: for any limit, number of requests and crashes, logins
\* that do not overlap leave no more sessions than the limit, although what they
\* read of the set and of the sessions is stale when they evict one.
THEOREM DevicesAreLimited == Spec => []DeviceLimit
<1>1. LimitInv => DeviceLimit
  BY DEF LimitInv, DeviceLimit, Devices
<1> QED
  BY <1>1, SpecInv, InitLimit, NextLimit, PTL DEF Spec
=============================================================================
