---------------------------- MODULE PeopleProofs ----------------------------
(***************************************************************************)
(* What is proved of accounts and of the services around orders, for any   *)
(* number of users, requests, codes, addresses, entries, agents, sockets,  *)
(* jobs, workers and faults.                                               *)
(*                                                                         *)
(* Accounts: a one-time code works once, the limits on guesses and on      *)
(* failed logins hold and end, the audit log tells the last change, and an *)
(* address book has one default address.  Services: a support ticket is    *)
(* given to one claimant, shows as it is, and no message is missed; a      *)
(* warranty says whether a claim is open; what is queued or buffered is    *)
(* done once, and agrees with what was told of it.                         *)
(***************************************************************************)
EXTENDS MCPeople, DataLemmas

-----------------------------------------------------------------------------
(* One-time codes.  That a code works once speaks of the past; it is         *)
(* inductive once it is said of the code that is in Redis: one that was      *)
(* accepted already and is still there is in the hands of a request that is  *)
(* about to delete it.                                                       *)

\* A request that has been told a guess, from its first look at the lockout on.
Guessing == [at : {"lockout", "get", "delCode", "delGuesses", "delLockout", "use", "incr"},
             kind : Kinds, guess : Nat]

\* Requests in their other stages.
Others ==
  [at : {"idle", "done", "create"}]
    \union [at : {"cooldown"}, todo : SUBSET Kinds]
    \union [at : {"setCode", "setCooldown"}, todo : SUBSET Kinds, kind : Kinds]
    \union [at : {"expire", "lock", "restart"}, kind : Kinds, count : Nat]

AskTypes ==
  /\ ask \in [CodeRequests -> Guessing \union Others]
  /\ issued \in Nat
  /\ code \in [Kinds -> Nat]
  /\ guesses \in [Identifiers -> Nat]

\* Codes in Redis, and codes that were accepted, have been issued, each for
\* one kind.
CodesAreIssued ==
  /\ \A k \in Kinds : code[k] <= issued
  /\ \A k, j \in Kinds : k # j /\ code[k] # 0 => code[k] # code[j]
  /\ \A n \in accepted : n \in Nat /\ n <= issued

Holding(q, n) == ask[q].at = "delCode" /\ ask[q].guess = n

\* An accepted code that is still there is about to be deleted, or was shared.
AcceptedIsHeld ==
  \A k \in Kinds :
    code[k] \in accepted /\ code[k] # 0 =>
      \/ code[k] \in shared
      \/ \E q \in CodeRequests : Holding(q, code[k]) /\ ask[q].kind = k

OnceInv == AskTypes /\ CodesAreIssued /\ AcceptedIsHeld /\ CodesWorkOnce

LEMMA InitOnce == CodesInit => OnceInv
<1> SUFFICES ASSUME CodesInit PROVE OnceInv
  OBVIOUS
<1>1. AskTypes
  BY DEF CodesInit, AskTypes, Idle, Others
<1>2. CodesAreIssued /\ AcceptedIsHeld /\ CodesWorkOnce
  BY DEF CodesInit, CodesAreIssued, AcceptedIsHeld, CodesWorkOnce
<1> QED
  BY <1>1, <1>2 DEF OnceInv

-----------------------------------------------------------------------------

\* A request that holds no code for deletion goes on to do no such thing; no
\* code is set or accepted.
LEMMA QuietStep ==
  ASSUME OnceInv, NEW r \in CodeRequests, ask[r].at # "delCode",
         NEW a \in Guessing \union Others, ask' = [ask EXCEPT ![r] = a],
         a.at # "delCode",
         guesses' \in [Identifiers -> Nat],
         UNCHANGED <<code, issued, told>>
  PROVE  OnceInv'
<1>1. AskTypes'
  BY DEF OnceInv, AskTypes
<1>2. \A q \in CodeRequests, n \in Nat : Holding(q, n) => Holding(q, n)' /\ ask'[q] = ask[q]
  BY DEF OnceInv, AskTypes, Holding
<1>3. CodesAreIssued' /\ CodesWorkOnce'
  BY DEF OnceInv, CodesAreIssued, CodesWorkOnce, told
<1>4. AcceptedIsHeld'
  BY <1>2 DEF OnceInv, AskTypes, AcceptedIsHeld, told
<1> QED
  BY <1>1, <1>3, <1>4 DEF OnceInv

\* A guess moves on in the protocol.
LEMMA GuessMovesOn ==
  ASSUME AskTypes, NEW r \in CodeRequests, ask[r] \in Guessing,
         NEW l \in {"get", "delCode", "delGuesses", "delLockout", "use", "incr"}, AskAt(r, l)
  PROVE  /\ ask' = [ask EXCEPT ![r] = [at |-> l, kind |-> ask[r].kind, guess |-> ask[r].guess]]
         /\ [at |-> l, kind |-> ask[r].kind, guess |-> ask[r].guess] \in Guessing
<1>1. [ask[r] EXCEPT !.at = l] = [at |-> l, kind |-> ask[r].kind, guess |-> ask[r].guess]
  BY DEF Guessing
<1>2. ask' = [ask EXCEPT ![r] = [ask[r] EXCEPT !.at = l]]
  BY DEF AskAt
<1> QED
  BY <1>1, <1>2 DEF Guessing

LEMMA AtGuessing ==
  ASSUME AskTypes, NEW r \in CodeRequests,
         ask[r].at \in {"lockout", "get", "delCode", "delGuesses", "delLockout", "use", "incr"}
  PROVE  ask[r] \in Guessing
BY DEF AskTypes, Guessing, Others

LEMMA DoneType == Answered \in Guessing \union Others /\ Answered.at # "delCode"
BY DEF Answered, Others

\* A request is answered, or goes on outside verifyOtp.
LEMMA OtherSteps ==
  ASSUME OnceInv, NEW r \in CodeRequests,
         \/ FindAccount(r) \/ CreateAccount(r) \/ \E k \in Kinds : AskForCode(r, k)
         \/ CheckCooldown(r) \/ SetCooldown(r)
  PROVE  OnceInv'
<1>1. ask[r].at # "delCode"
  BY DEF FindAccount, CreateAccount, AskForCode, CheckCooldown, SetCooldown, Idle
<1>2. UNCHANGED <<code, issued, told>>
  BY DEF FindAccount, CreateAccount, AskForCode, CheckCooldown, SetCooldown
<1>3. \E a \in Guessing \union Others : ask' = [ask EXCEPT ![r] = a] /\ a.at # "delCode"
  <2>1. CASE FindAccount(r)
    BY <2>1, DoneType DEF FindAccount, Answer, Others
  <2>2. CASE CreateAccount(r)
    BY <2>2, DoneType DEF CreateAccount, Answer, Others, FirstKinds
  <2>3. CASE \E k \in Kinds : AskForCode(r, k)
    BY <2>3, DoneType DEF AskForCode, Answer, Others
  <2>4. CASE CheckCooldown(r)
    <3>1. ask[r] \in [at : {"cooldown"}, todo : SUBSET Kinds]
      BY <2>4 DEF CheckCooldown, OnceInv, AskTypes, Guessing, Others
    <3> QED
      BY <2>4, <3>1, DoneType DEF CheckCooldown, Others
  <2>5. CASE SetCooldown(r)
    <3>1. ask[r] \in [at : {"setCooldown"}, todo : SUBSET Kinds, kind : Kinds]
      BY <2>5 DEF SetCooldown, OnceInv, AskTypes, Guessing, Others
    <3> QED
      BY <2>5, <3>1, DoneType DEF SetCooldown, Others
  <2> QED
    BY <2>1, <2>2, <2>3, <2>4, <2>5
<1>4. guesses' \in [Identifiers -> Nat]
  BY DEF FindAccount, CreateAccount, AskForCode, CheckCooldown, SetCooldown, limits, OnceInv, AskTypes
<1> QED
  BY <1>1, <1>2, <1>3, <1>4, QuietStep

\* A guess arrives, is looked at, and is used: but for GET and DEL of the code.
LEMMA GuessSteps ==
  ASSUME OnceInv, NEW r \in CodeRequests,
         \/ \E k \in Kinds, n \in 0..MaxCodes : Guess(r, k, n)
         \/ CheckLockout(r) \/ DelGuesses(r) \/ DelLockout(r) \/ UseCode(r)
  PROVE  OnceInv'
<1>1. ask[r].at # "delCode"
  BY DEF Guess, CheckLockout, DelGuesses, DelLockout, UseCode, Idle
<1>2. UNCHANGED <<code, issued, told>>
  BY DEF Guess, CheckLockout, DelGuesses, DelLockout, UseCode
<1>3. \E a \in Guessing \union Others : ask' = [ask EXCEPT ![r] = a] /\ a.at # "delCode"
  <2>1. CASE \E k \in Kinds, n \in 0..MaxCodes : Guess(r, k, n)
    BY <2>1, DoneType DEF Guess, Answer, Guessing
  <2>2. CASE CheckLockout(r) \/ DelGuesses(r) \/ DelLockout(r)
    <3>1. ask[r].at \in {"lockout", "delGuesses", "delLockout"}
      BY <2>2 DEF CheckLockout, DelGuesses, DelLockout
    <3>2. ask[r] \in Guessing
      BY <3>1, AtGuessing DEF OnceInv
    <3>3. Answer(r) \/ \E l \in {"get", "delLockout", "use"} : AskAt(r, l)
      BY <2>2 DEF CheckLockout, DelGuesses, DelLockout
    <3>4. CASE Answer(r)
      BY <3>4, DoneType DEF Answer
    <3>5. ASSUME NEW l \in {"get", "delLockout", "use"}, AskAt(r, l)
          PROVE  \E a \in Guessing \union Others : ask' = [ask EXCEPT ![r] = a] /\ a.at # "delCode"
      <4> DEFINE a == [at |-> l, kind |-> ask[r].kind, guess |-> ask[r].guess]
      <4>1. ask' = [ask EXCEPT ![r] = a] /\ a \in Guessing
        BY <3>2, <3>5, GuessMovesOn DEF OnceInv
      <4>2. a.at # "delCode"
        OBVIOUS
      <4> HIDE DEF a
      <4> QED
        BY <4>1, <4>2
    <3> QED
      BY <3>3, <3>4, <3>5
  <2>3. CASE UseCode(r)
    BY <2>3, DoneType DEF UseCode, Answer
  <2> QED
    BY <2>1, <2>2, <2>3
<1>4. guesses' \in [Identifiers -> Nat]
  BY DEF Guess, CheckLockout, DelGuesses, ForgetGuesses, DelLockout, UseCode, limits, OnceInv, AskTypes
<1> QED
  BY <1>1, <1>2, <1>3, <1>4, QuietStep

\* recordFailedAttempt: the request keeps its kind and the count it was told.
LEMMA FailureSteps ==
  ASSUME OnceInv, NEW r \in CodeRequests,
         IncrGuesses(r) \/ ExpireGuesses(r) \/ SetLockout(r) \/ RestartGuesses(r)
  PROVE  OnceInv'
<1> DEFINE Counting == [at : {"expire", "lock", "restart"}, kind : Kinds, count : Nat]
<1>1. ask[r].at # "delCode"
  BY DEF IncrGuesses, ExpireGuesses, SetLockout, RestartGuesses
<1>2. UNCHANGED <<code, issued, told>>
  BY DEF IncrGuesses, ExpireGuesses, SetLockout, RestartGuesses
<1>3. ask[r] \in Guessing \union Counting
  BY DEF IncrGuesses, ExpireGuesses, SetLockout, RestartGuesses, OnceInv, AskTypes, Guessing, Others
<1>4. Id(r) \in Identifiers
  BY <1>3 DEF Id, Identifiers, Guessing
<1>5. guesses' \in [Identifiers -> Nat]
  BY <1>4 DEF IncrGuesses, ExpireGuesses, SetLockout, RestartGuesses, ForgetGuesses, OnceInv, AskTypes
<1>6. ASSUME NEW l \in {"expire", "lock", "done"}, NEW n \in Nat, GoOn(r, l, n)
      PROVE  \E a \in Guessing \union Others : ask' = [ask EXCEPT ![r] = a] /\ a.at # "delCode"
  <2> DEFINE a == IF l = "done" THEN Answered ELSE [at |-> l, kind |-> ask[r].kind, count |-> n]
  <2>1. ask' = [ask EXCEPT ![r] = a]
    BY <1>6 DEF GoOn
  <2>2. a \in Guessing \union Others /\ a.at # "delCode"
    BY <1>3, DoneType DEF Guessing, Others
  <2> HIDE DEF a
  <2> QED
    BY <2>1, <2>2
<1>7. \E a \in Guessing \union Others : ask' = [ask EXCEPT ![r] = a] /\ a.at # "delCode"
  <2>1. CASE IncrGuesses(r)
    <3>1. guesses[Id(r)] + 1 \in Nat
      BY <1>4 DEF OnceInv, AskTypes
    <3> QED
      BY <2>1, <3>1, <1>6 DEF IncrGuesses, AfterIncr
  <2>2. CASE ExpireGuesses(r)
    BY <2>2, <1>3, <1>6 DEF ExpireGuesses, AfterExpire, Guessing
  <2>3. CASE SetLockout(r)
    <3> DEFINE a == [at |-> "restart", kind |-> ask[r].kind, count |-> ask[r].count]
    <3>1. ask[r] \in Counting
      BY <2>3, <1>3 DEF SetLockout, Guessing
    <3>2. ask' = [ask EXCEPT ![r] = a]
      <4>1. [ask[r] EXCEPT !.at = "restart"] = a
        BY <3>1
      <4>2. ask' = [ask EXCEPT ![r] = [ask[r] EXCEPT !.at = "restart"]]
        BY <2>3 DEF SetLockout, AskAt
      <4> QED
        BY <4>1, <4>2
    <3>3. a \in Others /\ a.at # "delCode"
      BY <3>1 DEF Others
    <3> HIDE DEF a
    <3> QED
      BY <3>2, <3>3
  <2>4. CASE RestartGuesses(r)
    BY <2>4, DoneType DEF RestartGuesses, Answer
  <2> QED
    BY <2>1, <2>2, <2>3, <2>4
<1> QED
  BY <1>1, <1>2, <1>5, <1>7, QuietStep

-----------------------------------------------------------------------------
(* The steps on codes. *)

\* A new code is not one that was accepted.
LEMMA SetCodeStep == ASSUME OnceInv, NEW r \in CodeRequests, SetCode(r) PROVE OnceInv'
<1>1. ask[r] \in [at : {"setCode"}, todo : SUBSET Kinds, kind : Kinds]
  BY DEF SetCode, OnceInv, AskTypes, Guessing, Others
<1>2. AskTypes'
  BY <1>1 DEF SetCode, AskAt, limits, OnceInv, AskTypes, Others
<1>3. \A q \in CodeRequests, n \in Nat : Holding(q, n) => Holding(q, n)' /\ ask'[q] = ask[q]
  BY <1>1 DEF SetCode, AskAt, Holding, OnceInv, AskTypes
<1>4. CodesAreIssued' /\ CodesWorkOnce'
  BY <1>1 DEF SetCode, told, OnceInv, AskTypes, CodesAreIssued, CodesWorkOnce
<1>5. issued + 1 \notin accepted
  BY DEF OnceInv, AskTypes, CodesAreIssued
<1>6. AcceptedIsHeld'
  BY <1>1, <1>3, <1>5 DEF SetCode, told, OnceInv, AskTypes, AcceptedIsHeld
<1> QED
  BY <1>2, <1>4, <1>6 DEF OnceInv

\* A code is accepted by a request that has it now: if another had accepted it
\* before, that one still holds it.
LEMMA GetCodeStep == ASSUME OnceInv, NEW r \in CodeRequests, GetCode(r) PROVE OnceInv'
<1> DEFINE n == code[ask[r].kind]
           hit == n # 0 /\ n = ask[r].guess
<1>1. ask[r] \in Guessing /\ ask[r].at = "get"
  BY AtGuessing DEF GetCode, OnceInv
<1>2. CASE ~hit
  <2>1. UNCHANGED <<code, issued, told>> /\ guesses' \in [Identifiers -> Nat]
    BY <1>2 DEF GetCode, told, limits, OnceInv, AskTypes
  <2>2. Answer(r) \/ AskAt(r, "incr")
    BY <1>2 DEF GetCode
  <2>3. CASE Answer(r)
    BY <1>1, <2>1, <2>3, DoneType, QuietStep DEF Answer
  <2>4. CASE AskAt(r, "incr")
    BY <1>1, <2>1, <2>4, GuessMovesOn, QuietStep DEF OnceInv
  <2> QED
    BY <2>2, <2>3, <2>4
<1>3. CASE hit
  <2>1. AskAt(r, "delCode")
    BY <1>3 DEF GetCode
  <2>2. ask' = [ask EXCEPT ![r] = [at |-> "delCode", kind |-> ask[r].kind, guess |-> ask[r].guess]]
    BY <1>1, <2>1, GuessMovesOn DEF OnceInv
  <2>3. AskTypes'
    BY <1>1, <2>2 DEF GetCode, limits, OnceInv, AskTypes, Guessing
  <2>4. n \in Nat /\ n <= issued /\ n = ask[r].guess
    BY <1>1, <1>3 DEF OnceInv, AskTypes, CodesAreIssued, Guessing
  <2>5. /\ accepted' = accepted \union {n} /\ UNCHANGED <<code, issued>>
        /\ shared \subseteq shared'
        /\ reused' = IF n \in accepted THEN reused \union {n} ELSE reused
        /\ Held(n, r) => n \in shared'
    BY <1>3 DEF GetCode
  <2>6. CodesAreIssued'
    BY <2>4, <2>5 DEF OnceInv, CodesAreIssued
  <2>7. n \in accepted => n \in shared'
    BY <1>1, <1>3, <2>5 DEF OnceInv, AcceptedIsHeld, Holding, Held, Guessing
  <2>8. CodesWorkOnce'
    BY <2>5, <2>7 DEF OnceInv, CodesWorkOnce
  <2>9. AcceptedIsHeld'
    <3> SUFFICES ASSUME NEW k \in Kinds, code[k] \in accepted', code[k] # 0, code[k] \notin shared'
                 PROVE  \E q \in CodeRequests : Holding(q, code[k])' /\ ask'[q].kind = k
      BY <2>5 DEF AcceptedIsHeld
    <3>1. CASE k = ask[r].kind
      BY <1>1, <2>2, <2>4, <2>5, <3>1 DEF Holding, OnceInv, AskTypes
    <3>2. CASE k # ask[r].kind
      <4>1. code[k] # n /\ code[k] \in accepted
        BY <1>1, <1>3, <2>5, <3>2 DEF OnceInv, CodesAreIssued, Guessing
      <4>2. PICK q \in CodeRequests : Holding(q, code[k]) /\ ask[q].kind = k
        BY <2>5, <4>1 DEF OnceInv, AcceptedIsHeld
      <4>3. q # r
        BY <1>1, <4>2 DEF Holding
      <4>4. ask'[q] = ask[q]
        BY <2>2, <4>3 DEF OnceInv, AskTypes
      <4> QED
        BY <2>5, <4>2, <4>4 DEF Holding
    <3> QED
      BY <3>1, <3>2
  <2> QED
    BY <2>3, <2>6, <2>8, <2>9 DEF OnceInv
<1> QED
  BY <1>2, <1>3

\* The code goes, so nobody need hold it.
LEMMA DelCodeStep == ASSUME OnceInv, NEW r \in CodeRequests, DelCode(r) PROVE OnceInv'
<1>1. ask[r] \in Guessing /\ ask[r].at = "delCode"
  BY AtGuessing DEF DelCode, OnceInv
<1>2. ask' = [ask EXCEPT ![r] = [at |-> "delGuesses", kind |-> ask[r].kind, guess |-> ask[r].guess]]
  BY <1>1, GuessMovesOn DEF DelCode, OnceInv
<1>3. /\ code' = [code EXCEPT ![ask[r].kind] = 0]
      /\ UNCHANGED <<guesses, issued, accepted, reused, shared>>
  BY DEF DelCode, limits, told
<1>4. AskTypes'
  BY <1>1, <1>2, <1>3 DEF OnceInv, AskTypes, Guessing
<1>5. CodesAreIssued' /\ CodesWorkOnce'
  BY <1>1, <1>3 DEF OnceInv, AskTypes, CodesAreIssued, CodesWorkOnce, Guessing
<1>6. AcceptedIsHeld'
  <2> SUFFICES ASSUME NEW k \in Kinds, code'[k] \in accepted, code'[k] # 0, code'[k] \notin shared
               PROVE  \E q \in CodeRequests : Holding(q, code[k])' /\ ask'[q].kind = k
    BY <1>3 DEF AcceptedIsHeld
  <2>1. k # ask[r].kind /\ code'[k] = code[k]
    BY <1>1, <1>3 DEF OnceInv, AskTypes, Guessing
  <2>2. PICK q \in CodeRequests : Holding(q, code[k]) /\ ask[q].kind = k
    BY <2>1 DEF OnceInv, AcceptedIsHeld
  <2>3. ask'[q] = ask[q]
    BY <1>2, <2>1, <2>2 DEF OnceInv, AskTypes
  <2> QED
    BY <2>1, <2>2, <2>3 DEF Holding
<1> QED
  BY <1>4, <1>5, <1>6 DEF OnceInv

\* A request that crashes with a code in its hands has shared it.
LEMMA CrashStep == ASSUME OnceInv, NEW r \in CodeRequests, CodeRequestCrashes(r) PROVE OnceInv'
<1>1. ask' = [ask EXCEPT ![r] = Answered] /\ UNCHANGED <<code, issued, accepted, reused, guesses>>
  BY DEF CodeRequestCrashes, Answer, limits
<1>2. CASE ask[r].at # "delCode"
  BY <1>1, <1>2, DoneType, QuietStep DEF CodeRequestCrashes, OnceInv, AskTypes, told
<1>3. CASE ask[r].at = "delCode"
  <2>1. shared' = shared \union {ask[r].guess}
    BY <1>3 DEF CodeRequestCrashes
  <2>2. AskTypes'
    BY <1>1, DoneType DEF OnceInv, AskTypes
  <2>3. CodesAreIssued' /\ CodesWorkOnce'
    BY <1>1, <2>1 DEF OnceInv, CodesAreIssued, CodesWorkOnce
  <2>4. AcceptedIsHeld'
    <3> SUFFICES ASSUME NEW k \in Kinds, code[k] \in accepted, code[k] # 0, code[k] \notin shared'
                 PROVE  \E q \in CodeRequests : Holding(q, code[k])' /\ ask'[q].kind = k
      BY <1>1 DEF AcceptedIsHeld
    <3>1. PICK q \in CodeRequests : Holding(q, code[k]) /\ ask[q].kind = k
      BY <2>1 DEF OnceInv, AcceptedIsHeld
    <3>2. q # r
      BY <2>1, <3>1 DEF Holding
    <3>3. ask'[q] = ask[q]
      BY <1>1, <3>2 DEF OnceInv, AskTypes
    <3> QED
      BY <1>1, <3>1, <3>3 DEF Holding
  <2> QED
    BY <2>2, <2>3, <2>4 DEF OnceInv
<1> QED
  BY <1>2, <1>3

\* What expires takes codes away, or does not touch them.
LEMMA TimeSteps ==
  ASSUME OnceInv,
         \/ \E k \in Kinds : CodeExpires(k) \/ CooldownExpires(k)
         \/ \E i \in Identifiers : GuessesExpire(i) \/ LockoutExpires(i)
         \/ UNCHANGED codeVars
  PROVE  OnceInv'
<1>1. UNCHANGED <<ask, issued, accepted, reused, shared>> /\ guesses' \in [Identifiers -> Nat]
  BY DEF CodeExpires, CooldownExpires, GuessesExpire, LockoutExpires, ForgetGuesses, codeVars,
         limits, told, OnceInv, AskTypes
<1>2. code' \in [Kinds -> Nat] /\ \A k \in Kinds : code'[k] \in {0, code[k]}
  BY DEF CodeExpires, CooldownExpires, GuessesExpire, LockoutExpires, codeVars, OnceInv, AskTypes
<1>3. AskTypes'
  BY <1>1, <1>2 DEF OnceInv, AskTypes
<1>4. CodesAreIssued' /\ CodesWorkOnce'
  BY <1>1, <1>2 DEF OnceInv, AskTypes, CodesAreIssued, CodesWorkOnce
<1>5. AcceptedIsHeld'
  BY <1>1, <1>2 DEF OnceInv, AcceptedIsHeld, Holding
<1> QED
  BY <1>3, <1>4, <1>5 DEF OnceInv

-----------------------------------------------------------------------------

LEMMA OnceInvNext == OnceInv /\ [CodesNext]_codeVars => OnceInv'
BY OtherSteps, GuessSteps, FailureSteps, SetCodeStep, GetCodeStep, DelCodeStep, CrashStep, TimeSteps
   DEF CodesNext, CodeStep

\* A code that verifyOtp accepted is not accepted again, for all numbers of
\* requests, kinds and codes, unless two requests read it before either deleted
\* it or a crash came in between (otp.service.ts:50).
THEOREM CodesWorkOnceAlways == CodesSpec => []CodesWorkOnce
<1>1. OnceInv /\ [CodesNext]_codeVars => OnceInv'
  BY OnceInvNext
<1>2. OnceInv => CodesWorkOnce
  BY DEF OnceInv
<1> QED
  BY InitOnce, <1>1, <1>2, PTL DEF CodesSpec

-----------------------------------------------------------------------------
(* The limits on guesses.  While an identifier is not locked, no more wrong  *)
(* guesses count than the key in Redis says: whoever is told the limit       *)
(* cannot be told less.                                                      *)

Locks(i) ==
  wrongs[i] >= GuessLimit => i \in lockout \/ \E r \in CodeRequests : WillLock(r) /\ Id(r) = i
Fades(i) ==
  guesses[i] = 0 \/ i \in guessesTTL \/ \E r \in CodeRequests : ask[r].at = "expire" /\ Id(r) = i
NotOver(i) == i \notin lockout => wrongs[i] <= guesses[i]

GuessInv ==
  /\ wrongs \in [Identifiers -> Nat]
  /\ codeFaults \in Nat
  /\ \A i \in Identifiers : NotOver(i) /\ (codeFaults = 0 => Locks(i) /\ Fades(i))

LEMMA InitGuess == CodesInit => GuessInv
BY GuessLimitAssumption DEF CodesInit, GuessInv, NotOver, Locks, Fades

\* What other requests are about to do stays.
LEMMA OthersStay ==
  ASSUME AskTypes, NEW r \in CodeRequests, NEW a, ask' = [ask EXCEPT ![r] = a]
  PROVE  \A q \in CodeRequests \ {r} : ask'[q] = ask[q] /\ Id(q)' = Id(q) /\ (WillLock(q) => WillLock(q)')
BY DEF AskTypes, Id, WillLock

\* A step that touches no limit, of a request that is not about to.
LEMMA CalmStep ==
  ASSUME AskTypes, GuessInv, UNCHANGED <<limits, codeFaults>>,
         \/ UNCHANGED ask
         \/ \E r \in CodeRequests : /\ ask[r].at \notin {"expire", "lock"}
                                    /\ \E a : ask' = [ask EXCEPT ![r] = a]
  PROVE  GuessInv'
<1>1. UNCHANGED <<guesses, guessesTTL, lockout, wrongs, codeFaults>>
  BY DEF limits
<1>2. \A q \in CodeRequests : /\ WillLock(q) => WillLock(q)' /\ Id(q)' = Id(q)
                              /\ ask[q].at = "expire" => ask'[q].at = "expire" /\ Id(q)' = Id(q)
  <2>1. CASE UNCHANGED ask
    BY <2>1 DEF WillLock, Id
  <2>2. ASSUME NEW r \in CodeRequests, ask[r].at \notin {"expire", "lock"}, NEW a, ask' = [ask EXCEPT ![r] = a]
        PROVE  \A q \in CodeRequests : /\ WillLock(q) => WillLock(q)' /\ Id(q)' = Id(q)
                                       /\ ask[q].at = "expire" => ask'[q].at = "expire" /\ Id(q)' = Id(q)
    BY <2>2, OthersStay DEF WillLock
  <2> QED
    BY <2>1, <2>2
<1>3. \A i \in Identifiers : (NotOver(i) => NotOver(i)') /\ (Locks(i) => Locks(i)') /\ (Fades(i) => Fades(i)')
  BY <1>1, <1>2 DEF NotOver, Locks, Fades
<1> QED
  BY <1>1, <1>3 DEF GuessInv

LEMMA CalmSteps ==
  ASSUME OnceInv, GuessInv,
         \/ \E r \in CodeRequests :
              \/ FindAccount(r) \/ CreateAccount(r)
              \/ \E k \in Kinds : AskForCode(r, k)
              \/ \E k \in Kinds, n \in 0..MaxCodes : Guess(r, k, n)
              \/ CheckCooldown(r) \/ SetCode(r) \/ SetCooldown(r)
              \/ CheckLockout(r) \/ GetCode(r) \/ DelCode(r) \/ UseCode(r)
         \/ \E k \in Kinds : CodeExpires(k) \/ CooldownExpires(k)
         \/ UNCHANGED codeVars
  PROVE  GuessInv'
<1>1. UNCHANGED <<limits, codeFaults>>
  BY DEF FindAccount, CreateAccount, AskForCode, Guess, CheckCooldown, SetCode, SetCooldown,
         CheckLockout, GetCode, DelCode, UseCode, CodeExpires, CooldownExpires, codeVars, limits
<1>2. \/ UNCHANGED ask
      \/ \E r \in CodeRequests : /\ ask[r].at \notin {"expire", "lock"}
                                 /\ \E a : ask' = [ask EXCEPT ![r] = a]
  <2>1. CASE (\E k \in Kinds : CodeExpires(k) \/ CooldownExpires(k)) \/ UNCHANGED codeVars
    BY <2>1 DEF CodeExpires, CooldownExpires, codeVars
  <2>2. ASSUME NEW r \in CodeRequests,
               \/ FindAccount(r) \/ CreateAccount(r)
               \/ \E k \in Kinds : AskForCode(r, k)
               \/ \E k \in Kinds, n \in 0..MaxCodes : Guess(r, k, n)
               \/ CheckCooldown(r) \/ SetCode(r) \/ SetCooldown(r)
        PROVE  ask[r].at \notin {"expire", "lock"} /\ \E a : ask' = [ask EXCEPT ![r] = a]
    BY <2>2 DEF FindAccount, CreateAccount, AskForCode, Guess, CheckCooldown, SetCode, SetCooldown,
                Idle, Answer, AskAt
  <2>3. ASSUME NEW r \in CodeRequests, CheckLockout(r) \/ GetCode(r) \/ DelCode(r) \/ UseCode(r)
        PROVE  ask[r].at \notin {"expire", "lock"} /\ \E a : ask' = [ask EXCEPT ![r] = a]
    BY <2>3 DEF CheckLockout, GetCode, DelCode, UseCode, Answer, AskAt
  <2> QED
    BY <2>1, <2>2, <2>3
<1> QED
  BY <1>1, <1>2, CalmStep DEF OnceInv

\* A right code makes an end of the count and of the lockout.
LEMMA ForgetSteps ==
  ASSUME OnceInv, GuessInv, NEW r \in CodeRequests, DelGuesses(r) \/ DelLockout(r)
  PROVE  GuessInv'
<1>1. ask[r] \in Guessing /\ ask[r].at \in {"delGuesses", "delLockout"}
  BY AtGuessing DEF DelGuesses, DelLockout, OnceInv
<1>2. PICK a : ask' = [ask EXCEPT ![r] = a]
  BY DEF DelGuesses, DelLockout, AskAt
<1>3. \A q \in CodeRequests : ask[q].at \in {"expire", "lock"} =>
         ask'[q] = ask[q] /\ Id(q)' = Id(q) /\ (WillLock(q) => WillLock(q)')
  BY <1>1, <1>2, OthersStay DEF OnceInv
<1>4. Id(r) \in Identifiers
  BY <1>1 DEF Id, Identifiers, Guessing
<1>5. /\ wrongs' = [wrongs EXCEPT ![Id(r)] = 0] /\ UNCHANGED codeFaults
      /\ \A i \in Identifiers \ {Id(r)} : /\ guesses'[i] = guesses[i] /\ (i \in guessesTTL' <=> i \in guessesTTL)
                                          /\ i \in lockout' <=> i \in lockout
  BY <1>4 DEF DelGuesses, DelLockout, ForgetGuesses, OnceInv, AskTypes
<1>6. \/ guesses'[Id(r)] = 0
      \/ guesses'[Id(r)] = guesses[Id(r)] /\ (Id(r) \in guessesTTL' <=> Id(r) \in guessesTTL)
  BY <1>4 DEF DelGuesses, DelLockout, ForgetGuesses, OnceInv, AskTypes
<1>7. guesses'[Id(r)] \in Nat
  BY <1>4, <1>6 DEF OnceInv, AskTypes
<1>8. ASSUME NEW i \in Identifiers
      PROVE  NotOver(i)' /\ (Locks(i) => Locks(i)') /\ (Fades(i) => Fades(i)')
  <2>1. CASE i = Id(r)
    BY <1>3, <1>4, <1>5, <1>6, <1>7, <2>1, GuessLimitAssumption DEF NotOver, Locks, Fades, GuessInv
  <2>2. CASE i # Id(r)
    BY <1>3, <1>4, <1>5, <2>2 DEF NotOver, Locks, Fades, WillLock, GuessInv
  <2> QED
    BY <2>1, <2>2
<1> QED
  BY <1>4, <1>5, <1>8 DEF GuessInv

\* A request in recordFailedAttempt goes where the count sends it.
LEMMA GoesOn ==
  ASSUME AskTypes, NEW r \in CodeRequests, NEW l \in {"expire", "lock"}, NEW n \in Nat, GoOn(r, l, n)
  PROVE  ask'[r].at = l /\ ask'[r].count = n /\ Id(r)' = Id(r)
BY DEF AskTypes, GoOn, Id

\* One more wrong guess: whoever counts the last one allowed is told so.
LEMMA IncrStep ==
  ASSUME OnceInv, GuessInv, NEW r \in CodeRequests, IncrGuesses(r) PROVE GuessInv'
<1> DEFINE n == guesses[Id(r)] + 1
<1>1. ask[r] \in Guessing /\ ask[r].at = "incr"
  BY AtGuessing DEF IncrGuesses, OnceInv
<1>2. Id(r) \in Identifiers
  BY <1>1 DEF Id, Identifiers, Guessing
<1>3. /\ guesses' = [guesses EXCEPT ![Id(r)] = n] /\ wrongs' = [wrongs EXCEPT ![Id(r)] = @ + 1]
      /\ GoOn(r, AfterIncr(n), n) /\ UNCHANGED <<guessesTTL, lockout, codeFaults>>
  BY DEF IncrGuesses
<1>4. n \in Nat /\ guesses[Id(r)] \in Nat /\ wrongs[Id(r)] \in Nat
  BY <1>2 DEF OnceInv, AskTypes, GuessInv
<1>5. PICK a : ask' = [ask EXCEPT ![r] = a]
  BY <1>3 DEF GoOn
<1>6. \A q \in CodeRequests : ask[q].at \in {"expire", "lock"} =>
         ask'[q] = ask[q] /\ Id(q)' = Id(q) /\ (WillLock(q) => WillLock(q)')
  BY <1>1, <1>5, OthersStay DEF OnceInv
<1>7. n >= GuessLimit => WillLock(r)' /\ Id(r)' = Id(r)
  <2> SUFFICES ASSUME n >= GuessLimit PROVE WillLock(r)' /\ Id(r)' = Id(r)
    OBVIOUS
  <2>1. AfterIncr(n) \in {"expire", "lock"}
    BY DEF AfterIncr, FirstGuess, LimitReached
  <2> HIDE DEF n
  <2>2. ask'[r].at \in {"expire", "lock"} /\ ask'[r].count = n /\ Id(r)' = Id(r)
    BY <1>3, <1>4, <2>1, GoesOn DEF OnceInv
  <2> QED
    BY <2>2 DEF WillLock
<1>8. n = 1 => ask'[r].at = "expire" /\ Id(r)' = Id(r)
  <2> SUFFICES ASSUME n = 1 PROVE ask'[r].at = "expire" /\ Id(r)' = Id(r)
    OBVIOUS
  <2>1. AfterIncr(n) = "expire"
    BY DEF AfterIncr, FirstGuess
  <2> HIDE DEF n
  <2> QED
    BY <1>3, <1>4, <2>1, GoesOn DEF OnceInv
<1>9. ASSUME NEW i \in Identifiers, NotOver(i)
      PROVE  NotOver(i)' /\ (Locks(i) => Locks(i)') /\ (Fades(i) => Fades(i)')
  <2>1. CASE i = Id(r)
    <3>1. wrongs'[i] = wrongs[i] + 1 /\ guesses'[i] = n
      BY <1>2, <1>3, <2>1 DEF OnceInv, AskTypes, GuessInv
    <3>2. NotOver(i)'
      BY <1>3, <1>4, <1>9, <2>1, <3>1 DEF NotOver
    <3>3. Locks(i)'
      BY <1>3, <1>4, <1>7, <2>1, <3>1, <3>2, GuessLimitAssumption DEF NotOver, Locks
    <3>4. Fades(i) => Fades(i)'
      BY <1>3, <1>4, <1>6, <1>8, <2>1 DEF Fades
    <3> QED
      BY <3>2, <3>3, <3>4
  <2>2. CASE i # Id(r)
    BY <1>2, <1>3, <1>6, <2>2 DEF NotOver, Locks, Fades, WillLock, OnceInv, AskTypes, GuessInv
  <2> QED
    BY <2>1, <2>2
<1> HIDE DEF n
<1>10. wrongs' \in [Identifiers -> Nat]
  BY <1>2, <1>3 DEF GuessInv
<1> QED
  BY <1>3, <1>9, <1>10 DEF GuessInv

\* A request that is answered, or goes on to the lockout, having seen to the expiry.
LEMMA ExpireStep ==
  ASSUME OnceInv, GuessInv, NEW r \in CodeRequests, ExpireGuesses(r) PROVE GuessInv'
<1>1. ask[r] \in [at : {"expire"}, kind : Kinds, count : Nat]
  BY DEF ExpireGuesses, OnceInv, AskTypes, Guessing, Others
<1>2. Id(r) \in Identifiers
  BY <1>1 DEF Id, Identifiers
<1>3. /\ guessesTTL' = IF guesses[Id(r)] = 0 THEN guessesTTL ELSE guessesTTL \union {Id(r)}
      /\ GoOn(r, AfterExpire(ask[r].count), ask[r].count) /\ UNCHANGED <<guesses, wrongs, lockout, codeFaults>>
  BY DEF ExpireGuesses
<1>4. PICK a : ask' = [ask EXCEPT ![r] = a]
  BY <1>3 DEF GoOn
<1>5. \A q \in CodeRequests \ {r} : ask'[q] = ask[q] /\ Id(q)' = Id(q) /\ (WillLock(q) => WillLock(q)')
  BY <1>4, OthersStay DEF OnceInv
<1>6. WillLock(r) => WillLock(r)' /\ Id(r)' = Id(r)
  <2> SUFFICES ASSUME WillLock(r) PROVE WillLock(r)' /\ Id(r)' = Id(r)
    OBVIOUS
  <2>1. AfterExpire(ask[r].count) = "lock"
    BY <1>1 DEF WillLock, AfterExpire, LimitReached
  <2>2. ask'[r].at = "lock" /\ Id(r)' = Id(r)
    BY <1>1, <1>3, <2>1, GoesOn DEF OnceInv
  <2> QED
    BY <2>2 DEF WillLock
<1>7. ASSUME NEW i \in Identifiers
      PROVE  (NotOver(i) => NotOver(i)') /\ (Locks(i) => Locks(i)') /\ (Fades(i) => Fades(i)')
  BY <1>3, <1>5, <1>6 DEF NotOver, Locks, Fades
<1> QED
  BY <1>3, <1>7 DEF GuessInv

LEMMA LockSteps ==
  ASSUME OnceInv, GuessInv, NEW r \in CodeRequests, SetLockout(r) \/ RestartGuesses(r)
  PROVE  GuessInv'
<1>1. ask[r] \in [at : {"lock", "restart"}, kind : Kinds, count : Nat]
  BY DEF SetLockout, RestartGuesses, OnceInv, AskTypes, Guessing, Others
<1>2. Id(r) \in Identifiers
  BY <1>1 DEF Id, Identifiers
<1>3. PICK a : ask' = [ask EXCEPT ![r] = a]
  BY DEF SetLockout, RestartGuesses, AskAt, Answer
<1>4. \A q \in CodeRequests \ {r} : ask'[q] = ask[q] /\ Id(q)' = Id(q) /\ (WillLock(q) => WillLock(q)')
  BY <1>3, OthersStay DEF OnceInv
<1>5. CASE SetLockout(r)
  <2>1. lockout' = lockout \union {Id(r)} /\ UNCHANGED <<guesses, guessesTTL, wrongs, codeFaults>>
    BY <1>5 DEF SetLockout
  <2>2. ask[r].at = "lock"
    BY <1>5 DEF SetLockout
  <2>3. \A i \in Identifiers : (NotOver(i) => NotOver(i)') /\ (Locks(i) => Locks(i)') /\ (Fades(i) => Fades(i)')
    BY <1>4, <2>1, <2>2 DEF NotOver, Locks, Fades
  <2> QED
    BY <2>1, <2>3 DEF GuessInv
<1>6. CASE RestartGuesses(r)
  <2>1. /\ guesses' = [guesses EXCEPT ![Id(r)] = 0] /\ guessesTTL' = guessesTTL \ {Id(r)}
        /\ wrongs' = [wrongs EXCEPT ![Id(r)] = IF Id(r) \in lockout THEN wrongs[Id(r)] ELSE 0]
        /\ UNCHANGED <<lockout, codeFaults>>
    BY <1>6 DEF RestartGuesses, ForgetGuesses
  <2>2. ask[r].at = "restart"
    BY <1>6 DEF RestartGuesses
  <2>3. wrongs' \in [Identifiers -> Nat]
    BY <1>2, <2>1 DEF GuessInv
  <2>4. guesses'[Id(r)] = 0 /\ wrongs'[Id(r)] = (IF Id(r) \in lockout THEN wrongs[Id(r)] ELSE 0)
    BY <1>2, <2>1 DEF OnceInv, AskTypes, GuessInv
  <2>5. ASSUME NEW i \in Identifiers
        PROVE  (NotOver(i) => NotOver(i)') /\ (Locks(i) => Locks(i)') /\ (Fades(i) => Fades(i)')
    <3>1. CASE i = Id(r)
      BY <2>1, <2>4, <3>1, GuessLimitAssumption DEF NotOver, Locks, Fades
    <3>2. CASE i # Id(r)
      <4>1. guesses'[i] = guesses[i] /\ wrongs'[i] = wrongs[i]
        BY <1>2, <2>1, <3>2 DEF OnceInv, AskTypes, GuessInv
      <4> QED
        BY <1>4, <2>1, <2>2, <3>2, <4>1 DEF NotOver, Locks, Fades, WillLock
    <3> QED
      BY <3>1, <3>2
  <2> QED
    BY <2>1, <2>3, <2>5 DEF GuessInv
<1> QED
  BY <1>5, <1>6

\* Redis lets a key go; a request's crash is the exception to both limits.
LEMMA EndSteps ==
  ASSUME OnceInv, GuessInv,
         \/ \E i \in Identifiers : GuessesExpire(i) \/ LockoutExpires(i)
         \/ \E r \in CodeRequests : CodeRequestCrashes(r)
  PROVE  GuessInv'
<1>1. CASE \E r \in CodeRequests : CodeRequestCrashes(r)
  <2>1. codeFaults' = codeFaults + 1 /\ UNCHANGED <<guesses, guessesTTL, lockout, wrongs>>
    BY <1>1 DEF CodeRequestCrashes, limits
  <2> QED
    BY <2>1 DEF GuessInv, NotOver
<1>2. ASSUME NEW i \in Identifiers, GuessesExpire(i) \/ LockoutExpires(i) PROVE GuessInv'
  <2>1. UNCHANGED <<ask, codeFaults>>
    BY <1>2 DEF GuessesExpire, LockoutExpires
  <2>2. \A q \in CodeRequests : ask'[q] = ask[q] /\ Id(q)' = Id(q) /\ (WillLock(q) => WillLock(q)')
    BY <2>1 DEF Id, WillLock
  <2>3. CASE GuessesExpire(i)
    <3>1. /\ guesses' = [guesses EXCEPT ![i] = 0] /\ guessesTTL' = guessesTTL \ {i} /\ UNCHANGED lockout
          /\ wrongs' = [wrongs EXCEPT ![i] = IF i \in lockout THEN wrongs[i] ELSE 0]
      BY <2>3 DEF GuessesExpire, ForgetGuesses
    <3>2. /\ wrongs' \in [Identifiers -> Nat] /\ guesses'[i] = 0
          /\ wrongs'[i] = IF i \in lockout THEN wrongs[i] ELSE 0
          /\ \A j \in Identifiers \ {i} : guesses'[j] = guesses[j] /\ wrongs'[j] = wrongs[j]
      BY <3>1 DEF OnceInv, AskTypes, GuessInv
    <3>3. ASSUME NEW j \in Identifiers
          PROVE  (NotOver(j) => NotOver(j)') /\ (Locks(j) => Locks(j)') /\ (Fades(j) => Fades(j)')
      <4>1. CASE j = i
        BY <3>1, <3>2, <4>1, GuessLimitAssumption DEF NotOver, Locks, Fades
      <4>2. CASE j # i
        BY <2>2, <3>1, <3>2, <4>2 DEF NotOver, Locks, Fades
      <4> QED
        BY <4>1, <4>2
    <3> QED
      BY <2>1, <3>2, <3>3 DEF GuessInv
  <2>4. CASE LockoutExpires(i)
    <3>1. lockout' = lockout \ {i} /\ wrongs' = [wrongs EXCEPT ![i] = 0] /\ UNCHANGED <<guesses, guessesTTL>>
      BY <2>4 DEF LockoutExpires
    <3>2. /\ wrongs' \in [Identifiers -> Nat] /\ wrongs'[i] = 0
          /\ \A j \in Identifiers \ {i} : wrongs'[j] = wrongs[j]
      BY <3>1 DEF GuessInv
    <3>3. ASSUME NEW j \in Identifiers
          PROVE  (NotOver(j) => NotOver(j)') /\ (Locks(j) => Locks(j)') /\ (Fades(j) => Fades(j)')
      <4>1. CASE j = i
        BY <2>2, <3>1, <3>2, <4>1, GuessLimitAssumption DEF NotOver, Locks, Fades, OnceInv, AskTypes
      <4>2. CASE j # i
        BY <2>2, <3>1, <3>2, <4>2 DEF NotOver, Locks, Fades
      <4> QED
        BY <4>1, <4>2
    <3> QED
      BY <2>1, <3>2, <3>3 DEF GuessInv
  <2> QED
    BY <1>2, <2>3, <2>4
<1> QED
  BY <1>1, <1>2

-----------------------------------------------------------------------------
(* Failed logins: whoever counts the first failure sees to the expiry.       *)

AttemptTypes ==
  attempt \in [Attempts ->
    [at : {"idle", "done"}] \union [at : {"compare"}, ip : Addresses]
      \union [at : {"forget"}, ip : Addresses, todo : SUBSET Counters]
      \union [at : {"count"}, ip : Addresses, todo : SUBSET Counters, first : SUBSET Counters]]

WillExpire(a, c) == attempt[a].at = "count" /\ c \in attempt[a].first
Ends(c) == failures[c] = 0 \/ c \in expiring \/ \E a \in Attempts : WillExpire(a, c)

LoginInv ==
  /\ AttemptTypes
  /\ failures \in [Counters -> Nat]
  /\ loginCrashes \in Nat
  /\ loginCrashes = 0 => \A c \in Counters : Ends(c)

LEMMA InitLogin == LoginsInit => LoginInv
BY DEF LoginsInit, LoginInv, AttemptTypes, NotYet, Ends

\* A request comes to another stage having nothing left to see to.
LEMMA StageStep ==
  ASSUME LoginInv, NEW a \in Attempts, NEW rec, attempt' = [attempt EXCEPT ![a] = rec], AttemptTypes',
         \A c \in Counters : ~WillExpire(a, c), UNCHANGED <<failures, expiring, loginCrashes>>
  PROVE  LoginInv'
<1>1. \A b \in Attempts, c \in Counters : WillExpire(b, c) => WillExpire(b, c)'
  BY DEF LoginInv, AttemptTypes, WillExpire
<1>2. \A c \in Counters : Ends(c) => Ends(c)'
  BY <1>1 DEF Ends
<1> QED
  BY <1>2 DEF LoginInv

LEMMA LoginStep == ASSUME LoginInv, NEW a \in Attempts, AttemptStep(a) PROVE LoginInv'
<1>1. ASSUME NEW ip \in Addresses, ReadLimits(a, ip) PROVE LoginInv'
  <2>1. PICK rec : attempt' = [attempt EXCEPT ![a] = rec] /\ rec \in {Through, [at |-> "compare", ip |-> ip]}
    BY <1>1 DEF ReadLimits
  <2>2. AttemptTypes' /\ attempt[a].at = "idle"
    BY <1>1, <2>1 DEF ReadLimits, LoginInv, AttemptTypes, Through, NotYet
  <2> QED
    BY <1>1, <2>1, <2>2, StageStep DEF ReadLimits, WillExpire
<1>2. CASE Compare(a)
  <2>1. attempt[a] \in [at : {"compare"}, ip : Addresses]
    BY <1>2 DEF Compare, LoginInv, AttemptTypes
  <2>2. Mine(a) \in SUBSET Counters
    BY <2>1 DEF Mine, Counters
  <2>3. PICK rec : /\ attempt' = [attempt EXCEPT ![a] = rec]
                   /\ rec \in {Through, [at |-> "forget", ip |-> attempt[a].ip, todo |-> Mine(a)],
                               [at |-> "count", ip |-> attempt[a].ip, todo |-> Mine(a), first |-> {}]}
    BY <1>2 DEF Compare
  <2>4. AttemptTypes'
    BY <2>1, <2>2, <2>3 DEF LoginInv, AttemptTypes, Through
  <2> QED
    BY <1>2, <2>1, <2>3, <2>4, StageStep DEF Compare, WillExpire
<1>3. CASE EndAttempt(a)
  <2>1. attempt' = [attempt EXCEPT ![a] = Through] /\ \A c \in Counters : ~WillExpire(a, c)
    BY <1>3 DEF EndAttempt, WillExpire
  <2>2. AttemptTypes'
    BY <2>1 DEF LoginInv, AttemptTypes, Through
  <2> QED
    BY <1>3, <2>1, <2>2, StageStep DEF EndAttempt
<1>4. ASSUME NEW c \in Counters, Forget(a, c) PROVE LoginInv'
  <2>1. attempt[a] \in [at : {"forget"}, ip : Addresses, todo : SUBSET Counters]
    BY <1>4 DEF Forget, LoginInv, AttemptTypes
  <2> DEFINE rec == [at |-> "forget", ip |-> attempt[a].ip, todo |-> attempt[a].todo \ {c}]
  <2>2. attempt' = [attempt EXCEPT ![a] = rec]
    <3>1. [attempt[a] EXCEPT !.todo = attempt[a].todo \ {c}] = rec
      BY <2>1
    <3> QED
      BY <1>4, <3>1 DEF Forget
  <2>3. rec \in [at : {"forget"}, ip : Addresses, todo : SUBSET Counters]
    BY <2>1
  <2> HIDE DEF rec
  <2>4. AttemptTypes'
    BY <2>2, <2>3 DEF LoginInv, AttemptTypes
  <2>5. \A b \in Attempts, d \in Counters : WillExpire(b, d) => WillExpire(b, d)'
    BY <2>1, <2>2 DEF LoginInv, AttemptTypes, WillExpire
  <2>6. /\ failures' = [failures EXCEPT ![c] = 0] /\ expiring' = expiring \ {c} /\ UNCHANGED loginCrashes
    BY <1>4 DEF Forget
  <2>7. \A d \in Counters : Ends(d) => Ends(d)'
    BY <2>5, <2>6 DEF LoginInv, Ends
  <2> QED
    BY <2>4, <2>6, <2>7 DEF LoginInv
<1>5. ASSUME NEW c \in Counters, Count(a, c) PROVE LoginInv'
  <2>1. attempt[a] \in [at : {"count"}, ip : Addresses, todo : SUBSET Counters, first : SUBSET Counters]
    BY <1>5 DEF Count, LoginInv, AttemptTypes
  <2> DEFINE f == IF FirstFailure(failures[c] + 1) THEN attempt[a].first \union {c} ELSE attempt[a].first
             rec == [at |-> "count", ip |-> attempt[a].ip, todo |-> attempt[a].todo \ {c}, first |-> f]
  <2>2. attempt' = [attempt EXCEPT ![a] = rec]
    <3> HIDE DEF f
    <3> DEFINE t == attempt[a].todo \ {c}
    <3>1. [attempt[a] EXCEPT !.todo = t] = [at |-> "count", ip |-> attempt[a].ip, todo |-> t, first |-> attempt[a].first]
      <4> HIDE DEF t
      <4> QED
        BY <2>1
    <3>2. [[at |-> "count", ip |-> attempt[a].ip, todo |-> t, first |-> attempt[a].first] EXCEPT !.first = f] = rec
      OBVIOUS
    <3>3. attempt' = [attempt EXCEPT ![a] = [[attempt[a] EXCEPT !.todo = t] EXCEPT !.first = f]]
      BY <1>5, ZenonT(30) DEF Count, f
    <3> QED
      BY <3>1, <3>2, <3>3
  <2>3. /\ rec \in [at : {"count"}, ip : Addresses, todo : SUBSET Counters, first : SUBSET Counters]
        /\ attempt[a].first \subseteq rec.first /\ (FirstFailure(failures[c] + 1) => c \in rec.first)
    BY <2>1
  <2> HIDE DEF rec
  <2>4. AttemptTypes'
    BY <2>2, <2>3 DEF LoginInv, AttemptTypes
  <2>5. \A b \in Attempts, d \in Counters : WillExpire(b, d) => WillExpire(b, d)'
    BY <2>1, <2>2, <2>3 DEF LoginInv, AttemptTypes, WillExpire
  <2>6. /\ failures' = [failures EXCEPT ![c] = failures[c] + 1] /\ UNCHANGED <<expiring, loginCrashes>>
    BY <1>5 DEF Count
  <2>7. failures[c] = 0 => WillExpire(a, c)'
    BY <2>2, <2>3 DEF FirstFailure, LoginInv, AttemptTypes, WillExpire
  <2>8. \A d \in Counters : Ends(d) => Ends(d)'
    BY <2>5, <2>6, <2>7 DEF LoginInv, Ends
  <2> QED
    BY <2>4, <2>6, <2>8 DEF LoginInv
<1>6. ASSUME NEW c \in Counters, SetExpiry(a, c) PROVE LoginInv'
  <2>1. attempt[a] \in [at : {"count"}, ip : Addresses, todo : SUBSET Counters, first : SUBSET Counters]
    BY <1>6 DEF SetExpiry, LoginInv, AttemptTypes
  <2> DEFINE rec == [at |-> "count", ip |-> attempt[a].ip, todo |-> attempt[a].todo, first |-> attempt[a].first \ {c}]
  <2>2. attempt' = [attempt EXCEPT ![a] = rec]
    <3>1. [attempt[a] EXCEPT !.first = attempt[a].first \ {c}] = rec
      BY <2>1
    <3> QED
      BY <1>6, <3>1 DEF SetExpiry
  <2>3. /\ rec \in [at : {"count"}, ip : Addresses, todo : SUBSET Counters, first : SUBSET Counters]
        /\ rec.first = attempt[a].first \ {c}
    BY <2>1
  <2> HIDE DEF rec
  <2>4. AttemptTypes'
    BY <2>2, <2>3 DEF LoginInv, AttemptTypes
  <2>5. \A b \in Attempts, d \in Counters : WillExpire(b, d) /\ d # c => WillExpire(b, d)'
    BY <2>1, <2>2, <2>3 DEF LoginInv, AttemptTypes, WillExpire
  <2>6. /\ expiring' = IF failures[c] = 0 THEN expiring ELSE expiring \union {c}
        /\ UNCHANGED <<failures, loginCrashes>>
    BY <1>6 DEF SetExpiry
  <2>7. \A d \in Counters : Ends(d) => Ends(d)'
    BY <2>5, <2>6 DEF Ends
  <2> QED
    BY <2>4, <2>6, <2>7 DEF LoginInv
<1>7. CASE LoginCrashes(a)
  <2>1. /\ attempt' = [attempt EXCEPT ![a] = Through] /\ loginCrashes' = loginCrashes + 1
        /\ UNCHANGED failures
    BY <1>7 DEF LoginCrashes
  <2>2. AttemptTypes'
    BY <2>1 DEF LoginInv, AttemptTypes, Through
  <2> QED
    BY <2>1, <2>2 DEF LoginInv
<1> QED
  BY <1>1, <1>2, <1>3, <1>4, <1>5, <1>6, <1>7 DEF AttemptStep

LEMMA LoginNext == LoginInv /\ [LoginsNext]_loginVars => LoginInv'
<1> SUFFICES ASSUME LoginInv, [LoginsNext]_loginVars PROVE LoginInv'
  OBVIOUS
<1>1. ASSUME NEW c \in Counters, CounterExpires(c) PROVE LoginInv'
  <2>1. /\ failures' = [failures EXCEPT ![c] = 0] /\ expiring' = expiring \ {c}
        /\ UNCHANGED <<attempt, loginCrashes>>
    BY <1>1 DEF CounterExpires
  <2>2. \A d \in Counters : Ends(d) => Ends(d)'
    BY <2>1 DEF LoginInv, Ends, WillExpire
  <2> QED
    BY <2>1, <2>2 DEF LoginInv, AttemptTypes
<1>2. CASE UNCHANGED loginVars
  BY <1>2 DEF loginVars, LoginInv, AttemptTypes, Ends, WillExpire
<1> QED
  BY <1>1, <1>2, LoginStep DEF LoginsNext

-----------------------------------------------------------------------------

\* For all numbers of requests, identifiers and addresses and every limit: wrong
\* codes up to the limit lock the identifier (recordFailedAttempt), and counts of
\* wrong codes and of failed logins end, unless a process crashed between two
\* commands (recordFailedAttempt, recordFailedLogin).
THEOREM LimitsAlwaysHold == PeopleSpec => []LimitsHold
<1>1. PeopleInit => OnceInv /\ GuessInv /\ LoginInv
  BY InitOnce, InitGuess, InitLogin DEF PeopleInit
<1>2. OnceInv /\ [CodesNext]_codeVars => OnceInv'
  BY OnceInvNext
<1>3. OnceInv /\ GuessInv /\ [CodesNext]_codeVars => GuessInv'
  BY CalmSteps, ForgetSteps, IncrStep, ExpireStep, LockSteps, EndSteps DEF CodesNext, CodeStep
<1>4. [PeopleNext]_peopleVars => [CodesNext]_codeVars /\ [LoginsNext]_loginVars
  BY DEF PeopleNext, AccessNext, peopleVars, accessVars
<1>5. OnceInv /\ GuessInv /\ LoginInv /\ [PeopleNext]_peopleVars => (OnceInv /\ GuessInv /\ LoginInv)'
  BY <1>2, <1>3, <1>4, LoginNext
<1>6. OnceInv /\ GuessInv /\ LoginInv => LimitsHold
  <2>1. GuessInv => LimitLocks /\ GuessesAreForgotten
    BY DEF GuessInv, Locks, Fades, LimitLocks, GuessesAreForgotten
  <2>2. LoginInv => FailuresAreForgotten
    BY DEF LoginInv, Ends, WillExpire, FailuresAreForgotten, NotYet, Through
  <2> QED
    BY <2>1, <2>2 DEF LimitsHold
<1> QED
  BY <1>1, <1>5, <1>6, PTL DEF PeopleSpec

-----------------------------------------------------------------------------
(* The audit log.  A request's change is in the database before its entry is *)
(* in the log: what the last entry tells is so, or the request that made it  *)
(* otherwise has yet to write of it, and where others did not overtake it    *)
(* there is one such request.                                                *)

Actions == {"CREATE_USER", "UPDATE_USER_ROLE", "RESET_USER_PASSWORD", "DELETE_USER",
            "CREATE_BANNER", "UPDATE_BANNER", "DELETE_BANNER", "UPDATE_SETTINGS"}
Entry == [action : Actions, entity : Staff \union Banners \union {Settings},
          after : Roles \union AdminRequests \union {Absent}]
AdminWork == [at : {"read", "defaults", "write", "audit"}, ask : AdminRequest, of : AdminRequests \union {Absent}]

EntriesOf(e) == {n \in DOMAIN audit : audit[n].entity = e /\ audit[n].action # "RESET_USER_PASSWORD"}

\* A request whose change is made and not yet in the log.
Logging(r, e) ==
  /\ admin[r] \in AdminWork /\ admin[r].at = "audit"
  /\ admin[r].ask.entity = e /\ admin[r].ask.action # "RESET_USER_PASSWORD"
\* The log tells of e what it shows, or is about to.
Logged(e, shown) ==
  IF \E r \in AdminRequests : Logging(r, e)
  THEN \A r \in AdminRequests : Logging(r, e) => shown = After(r)
  ELSE Told(e) = shown

AuditTypes ==
  /\ staff \in [Staff -> Account \union {Absent}]
  /\ DOMAIN banner = Banners
  /\ settings \in Seq(AdminRequests \union {Initially})
  /\ audit \in Seq(Entry)
  /\ admin \in [AdminRequests -> AdminWork \union {Pending, Closed}]
  /\ \A r \in AdminRequests :
       admin[r] \in AdminWork /\ admin[r].at = "defaults" => admin[r].ask.action = "UPDATE_SETTINGS"
  /\ adminCrashes \in Nat

ByOne ==
  \A r, s \in AdminRequests :
    admin[r] \in AdminWork /\ admin[s] \in AdminWork /\ admin[r].ask.entity = admin[s].ask.entity /\ r # s
      => admin[r].ask.entity \in crossed

\* What a request that is about to write has found is still so.
Standing ==
  \A r \in AdminRequests :
    admin[r] \in AdminWork /\ admin[r].ask.entity \notin crossed =>
      /\ admin[r].at = "write" /\ admin[r].ask.action \in OldAccount =>
           staff[admin[r].ask.entity] # Absent /\ staff[admin[r].ask.entity].id = admin[r].of
      /\ admin[r].at = "write" /\ admin[r].ask.action \in OldBanner => banner[admin[r].ask.entity] # Absent
      /\ admin[r].at = "defaults" => settings = <<>>
      /\ admin[r].at \in {"write", "audit"} /\ admin[r].ask.entity = Settings => settings # <<>>

Shown(u) == IF staff[u] = Absent THEN Absent ELSE staff[u].role

LogInv ==
  adminCrashes = 0 =>
    /\ \A u \in Staff \ crossed : Logged(u, Shown(u))
    /\ \A b \in Banners \ crossed : Logged(b, banner[b])
    /\ Settings \notin crossed =>
         /\ Len(settings) <= 1
         /\ \/ settings = <<>> /\ ~\E r \in AdminRequests : Logging(r, Settings)
            \/ settings # <<>> /\ Logged(Settings, settings[1])
            \/ \E r \in AdminRequests : /\ admin[r] \in AdminWork
                                        /\ admin[r].ask.entity = Settings /\ admin[r].at = "write"

AuditInv == AuditTypes /\ ByOne /\ Standing /\ LogInv

LEMMA InitAudit == AdminInit => AuditInv
<1> SUFFICES ASSUME AdminInit PROVE AuditInv
  OBVIOUS
<1>1. \A r \in AdminRequests : admin[r] = Pending /\ Pending \notin AdminWork
  BY DEF AdminInit, Pending, AdminWork
<1>2. AuditTypes
  BY <1>1 DEF AdminInit, AuditTypes
<1>3. ByOne /\ Standing
  BY <1>1 DEF ByOne, Standing
<1>4. \A e : Told(e) = Absent
  BY DEF AdminInit, Told
<1>5. LogInv
  BY <1>1, <1>4 DEF AdminInit, LogInv, Logged, Logging, Shown
<1> QED
  BY <1>2, <1>3, <1>5 DEF AuditInv

\* Requests: what they ask for determines the entity.
LEMMA AskedFor ==
  ASSUME NEW q \in AdminRequest
  PROVE  /\ q.action \in Actions /\ q.entity \in Staff \union Banners \union {Settings}
         /\ q.action \in NewAccount \union OldAccount <=> q.entity \in Staff
         /\ q.action \in {"CREATE_BANNER", "UPDATE_BANNER", "DELETE_BANNER"} <=> q.entity \in Banners
         /\ q.action = "UPDATE_SETTINGS" <=> q.entity = Settings
         /\ q.action \in {"CREATE_USER", "UPDATE_USER_ROLE"} => q.role \in Roles
BY AdminNamesAssumption DEF AdminRequest, Actions, NewAccount, OldAccount

LEMMA WorkIsNotRest == AdminWork \cap {Pending, Closed} = {} /\ Pending # Closed
BY DEF AdminWork, Pending, Closed

\* One request moves on, the others stay where they are.
LEMMA OneMoves ==
  ASSUME AuditTypes, NEW r \in AdminRequests, NEW d \in AdminWork \union {Closed},
         admin' = [admin EXCEPT ![r] = d]
  PROVE  /\ admin' \in [AdminRequests -> AdminWork \union {Pending, Closed}]
         /\ admin'[r] = d
         /\ \A s \in AdminRequests \ {r} :
              admin'[s] = admin[s] /\ After(s)' = After(s) /\ \A e : Logging(s, e)' <=> Logging(s, e)
<1>1. /\ admin' \in [AdminRequests -> AdminWork \union {Pending, Closed}]
      /\ admin'[r] = d /\ \A s \in AdminRequests \ {r} : admin'[s] = admin[s]
  BY DEF AuditTypes
<1> QED
  BY <1>1, Zenon DEF After, Logging

LEMMA WorkGoesOn ==
  ASSUME AuditTypes, NEW r \in AdminRequests, admin[r] \in AdminWork,
         NEW l \in {"read", "defaults", "write", "audit"}
  PROVE  LET d == [admin[r] EXCEPT !.at = l] IN
           /\ d \in AdminWork /\ d.at = l /\ d.ask = admin[r].ask /\ d.of = admin[r].of
           /\ [admin EXCEPT ![r].at = l] = [admin EXCEPT ![r] = d]
BY DEF AuditTypes, AdminWork

\* The log of an entity that nothing happens to tells the same.
LEMMA LoggedStays ==
  ASSUME AuditTypes, NEW r \in AdminRequests, NEW d \in AdminWork \union {Closed},
         admin' = [admin EXCEPT ![r] = d], NEW e, Told(e)' = Told(e), ~Logging(r, e), ~Logging(r, e)'
  PROVE  /\ (\E s \in AdminRequests : Logging(s, e)') <=> (\E s \in AdminRequests : Logging(s, e))
         /\ \A s \in AdminRequests : Logging(s, e) => After(s)' = After(s) /\ Logging(s, e)'
         /\ \A s \in AdminRequests : Logging(s, e)' => After(s)' = After(s) /\ Logging(s, e)
         /\ \A x : Logged(e, x) => IF \E s \in AdminRequests : Logging(s, e)'
                                   THEN \A s \in AdminRequests : Logging(s, e)' => x = After(s)'
                                   ELSE Told(e)' = x
<1>1. \A s \in AdminRequests \ {r} : After(s)' = After(s) /\ (Logging(s, e)' <=> Logging(s, e))
  BY OneMoves
<1>2. \A s \in AdminRequests : Logging(s, e) \/ Logging(s, e)' => s \in AdminRequests \ {r}
  OBVIOUS
<1> QED
  BY <1>1, <1>2 DEF Logged

\* A request that neither was nor is at its entry, and writes nothing.
LEMMA NothingLogged ==
  ASSUME AuditInv, NEW r \in AdminRequests, NEW d \in AdminWork \union {Closed},
         admin' = [admin EXCEPT ![r] = d], \A e : ~Logging(r, e) /\ ~Logging(r, e)',
         UNCHANGED <<staff, banner, settings, audit, adminCrashes>>, crossed \subseteq crossed',
         \/ Settings \in crossed'
         \/ ~(admin[r] \in AdminWork /\ admin[r].ask.entity = Settings /\ admin[r].at = "write")
  PROVE  LogInv'
<1>1. \A e : Told(e)' = Told(e)
  BY DEF Told
<1>2. \A u \in Staff : Shown(u)' = Shown(u)
  BY DEF Shown
<1>3. \A s \in AdminRequests \ {r} : admin'[s] = admin[s]
  BY OneMoves DEF AuditInv
<1>4. ASSUME NEW e, NEW x, Logged(e, x)
      PROVE  IF \E s \in AdminRequests : Logging(s, e)'
             THEN \A s \in AdminRequests : Logging(s, e)' => x = After(s)' ELSE Told(e)' = x
  BY <1>1, <1>4, LoggedStays DEF AuditInv
<1>5. ASSUME adminCrashes' = 0, NEW u \in Staff \ crossed' PROVE Logged(u, Shown(u))'
  BY <1>2, <1>4, <1>5 DEF AuditInv, LogInv, Logged
<1>6. ASSUME adminCrashes' = 0, NEW b \in Banners \ crossed' PROVE Logged(b, banner[b])'
  BY <1>4, <1>6 DEF AuditInv, LogInv, Logged
<1>7. ASSUME adminCrashes' = 0, Settings \notin crossed'
      PROVE  /\ Len(settings') <= 1
             /\ \/ settings' = <<>> /\ ~\E s \in AdminRequests : Logging(s, Settings)'
                \/ settings' # <<>> /\ Logged(Settings, settings[1])'
                \/ \E s \in AdminRequests : /\ admin'[s] \in AdminWork
                                            /\ admin'[s].ask.entity = Settings /\ admin'[s].at = "write"
  <2>1. Len(settings') <= 1
    BY <1>7 DEF AuditInv, LogInv
  <2>2. CASE settings = <<>> /\ ~\E s \in AdminRequests : Logging(s, Settings)
    BY <1>1, <2>1, <2>2, LoggedStays DEF AuditInv
  <2>3. CASE settings # <<>> /\ Logged(Settings, settings[1])
    BY <1>4, <2>1, <2>3 DEF Logged
  <2>4. CASE \E s \in AdminRequests : /\ admin[s] \in AdminWork
                                      /\ admin[s].ask.entity = Settings /\ admin[s].at = "write"
    BY <1>3, <1>7, <2>1, <2>4
  <2> QED
    BY <1>7, <2>2, <2>3, <2>4 DEF AuditInv, LogInv
<1> QED
  BY <1>5, <1>6, <1>7 DEF LogInv

LEMMA OrderStep ==
  ASSUME AuditInv, NEW r \in AdminRequests, NEW q \in AdminRequest, Order(r, q)
  PROVE  AuditInv'
<1> DEFINE d == [at |-> IF q.action = "CREATE_BANNER" THEN "write" ELSE "read", ask |-> q, of |-> Absent]
<1>1. /\ d \in AdminWork /\ d.ask = q /\ d.at \in {"read", "write"}
      /\ d.at = "write" <=> q.action = "CREATE_BANNER"
  BY DEF AdminWork
<1>2. /\ admin[r] = Pending /\ admin' = [admin EXCEPT ![r] = d]
      /\ UNCHANGED <<staff, banner, settings, audit, adminCrashes>>
      /\ crossed' = IF \E s \in AdminRequests : AtWork(s) /\ admin[s].ask.entity = q.entity
                    THEN crossed \union {q.entity} ELSE crossed
  BY DEF Order
<1> HIDE DEF d
<1>3. /\ admin' \in [AdminRequests -> AdminWork \union {Pending, Closed}] /\ admin'[r] = d
      /\ \A s \in AdminRequests \ {r} : admin'[s] = admin[s]
  BY <1>1, <1>2, OneMoves DEF AuditInv
<1>4. AuditTypes'
  BY <1>1, <1>2, <1>3 DEF AuditInv, AuditTypes
<1>5. \A s \in AdminRequests : admin[s] \in AdminWork => AtWork(s)
  BY WorkIsNotRest DEF AtWork
<1>6. ByOne'
  BY <1>1, <1>2, <1>3, <1>5 DEF AuditInv, ByOne
<1>7. q.action = "CREATE_BANNER" => q.action \notin OldAccount \union OldBanner /\ q.entity # Settings
  BY AskedFor, AdminNamesAssumption DEF OldAccount, OldBanner
<1>8. Standing'
  BY <1>1, <1>2, <1>3, <1>7 DEF AuditInv, Standing
<1>9. \A e : ~Logging(r, e) /\ ~Logging(r, e)'
  BY <1>1, <1>2, <1>3, WorkIsNotRest DEF Logging
<1>10. LogInv'
  BY <1>1, <1>2, <1>9, NothingLogged, WorkIsNotRest
<1> QED
  BY <1>4, <1>6, <1>8, <1>10 DEF AuditInv

\* A request that closes, or reads and goes on, and writes nothing.
LEMMA ReadSteps ==
  ASSUME AuditInv, NEW r \in AdminRequests, FindStaff(r) \/ FindBanner(r) \/ FindSettings(r)
  PROVE  AuditInv'
<1>1. /\ admin[r] \in AdminWork /\ admin[r].at = "read"
      /\ UNCHANGED <<staff, banner, settings, audit, adminCrashes, crossed>>
  BY WorkIsNotRest DEF FindStaff, FindBanner, FindSettings, Does, AuditInv, AuditTypes, Pending, Closed
<1>2. PICK d \in AdminWork \union {Closed} :
        /\ admin' = [admin EXCEPT ![r] = d]
        /\ d # Closed =>
             /\ d.ask = admin[r].ask /\ d.at \in {"write", "defaults"}
             /\ d.at = "write" /\ d.ask.action \in OldAccount =>
                  staff[d.ask.entity] # Absent /\ staff[d.ask.entity].id = d.of
             /\ d.at = "write" /\ d.ask.action \in OldBanner => banner[d.ask.entity] # Absent
             /\ d.at = "defaults" => settings = <<>> /\ d.ask.action = "UPDATE_SETTINGS"
             /\ d.at = "write" /\ d.ask.entity = Settings => settings # <<>>
  <2>1. /\ admin[r].ask \in AdminRequest
        /\ admin[r].ask.action \in OldAccount => admin[r].ask.action \notin OldBanner
        /\ admin[r].ask.action \in NewAccount => admin[r].ask.action \notin OldBanner \union OldAccount
        /\ admin[r].ask.action = "UPDATE_SETTINGS" => admin[r].ask.action \notin OldBanner \union OldAccount
    BY <1>1 DEF AdminWork, OldAccount, OldBanner, NewAccount
  <2>2. CASE admin' = [admin EXCEPT ![r] = Closed]
    BY <2>2
  <2>3. CASE FindStaff(r) /\ admin' # [admin EXCEPT ![r] = Closed]
    <3> DEFINE of == IF staff[admin[r].ask.entity] # Absent THEN staff[admin[r].ask.entity].id ELSE Absent
               d == [admin[r] EXCEPT !.at = "write", !.of = of]
    <3>1. admin[r].ask.action \in NewAccount \union OldAccount
      BY <2>3 DEF FindStaff, Does
    <3>2. admin[r].ask.entity \in Staff
      BY <2>1, <3>1, AskedFor
    <3>3. of \in AdminRequests \union {Absent}
      BY <3>2 DEF AuditInv, AuditTypes, Account
    <3>4. /\ (staff[admin[r].ask.entity] # Absent) # (admin[r].ask.action \in NewAccount)
          /\ admin' = [admin EXCEPT ![r].at = "write", ![r].of = of]
      BY <2>3 DEF FindStaff, Close
    <3>5. admin' = [admin EXCEPT ![r] = d]
      BY <3>4
    <3>6. d \in AdminWork /\ d.at = "write" /\ d.ask = admin[r].ask /\ d.of = of
      BY <1>1, <3>3 DEF AdminWork
    <3>7. d.ask.entity # Settings
      BY <3>2, <3>6, AdminNamesAssumption
    <3>8. d.ask.action \in OldAccount => staff[d.ask.entity] # Absent /\ staff[d.ask.entity].id = d.of
      BY <2>1, <3>4, <3>6
    <3>9. d.ask.action \notin OldBanner
      BY <2>1, <3>1, <3>6
    <3> HIDE DEF d, of
    <3> QED
      BY <3>5, <3>6, <3>7, <3>8, <3>9
  <2>4. CASE FindBanner(r) /\ admin' # [admin EXCEPT ![r] = Closed]
    <3> DEFINE d == [admin[r] EXCEPT !.at = "write"]
    <3>1. /\ admin[r].ask.action \in OldBanner /\ banner[admin[r].ask.entity] # Absent
          /\ admin' = [admin EXCEPT ![r] = d] /\ d \in AdminWork /\ d.at = "write" /\ d.ask = admin[r].ask
      BY <1>1, <2>4, WorkGoesOn DEF FindBanner, Does, Close, AdminAt, AuditInv
    <3>2. d.ask.entity # Settings /\ d.ask.action \notin OldAccount
      BY <2>1, <3>1, AskedFor, AdminNamesAssumption DEF OldBanner
    <3> HIDE DEF d
    <3> QED
      BY <3>1, <3>2
  <2>5. CASE FindSettings(r)
    <3> DEFINE l == IF settings = <<>> THEN "defaults" ELSE "write"
               d == [admin[r] EXCEPT !.at = l]
    <3>1. /\ admin[r].ask.action = "UPDATE_SETTINGS"
          /\ admin' = [admin EXCEPT ![r] = d] /\ d \in AdminWork /\ d.at = l /\ d.ask = admin[r].ask
      BY <1>1, <2>5, WorkGoesOn DEF FindSettings, Does, AdminAt, AuditInv
    <3>2. d.ask.action \notin OldAccount \union OldBanner
      BY <2>1, <3>1
    <3> HIDE DEF d
    <3> QED
      BY <3>1, <3>2
  <2> QED
    BY <2>2, <2>3, <2>4, <2>5
<1>3. /\ admin' \in [AdminRequests -> AdminWork \union {Pending, Closed}] /\ admin'[r] = d
      /\ \A s \in AdminRequests \ {r} : admin'[s] = admin[s]
  BY <1>2, OneMoves DEF AuditInv
<1>4. AuditTypes'
  BY <1>1, <1>2, <1>3, WorkIsNotRest DEF AuditInv, AuditTypes
<1>5. ByOne'
  BY <1>1, <1>2, <1>3, WorkIsNotRest DEF AuditInv, ByOne
<1>6. Standing'
  BY <1>1, <1>2, <1>3, WorkIsNotRest DEF AuditInv, Standing
<1>7. \A e : ~Logging(r, e) /\ ~Logging(r, e)'
  BY <1>1, <1>2, <1>3, WorkIsNotRest DEF Logging
<1>8. LogInv'
  BY <1>1, <1>2, <1>7, NothingLogged
<1> QED
  BY <1>4, <1>5, <1>6, <1>8 DEF AuditInv

LEMMA AdminCrashStep == ASSUME AuditInv, NEW r \in AdminRequests, AdminCrash(r) PROVE AuditInv'
<1>1. /\ admin' = [admin EXCEPT ![r] = Closed] /\ adminCrashes' = adminCrashes + 1
      /\ UNCHANGED <<staff, banner, settings, audit, crossed>>
  BY DEF AdminCrash, Close
<1>2. /\ admin' \in [AdminRequests -> AdminWork \union {Pending, Closed}] /\ admin'[r] = Closed
      /\ \A s \in AdminRequests \ {r} : admin'[s] = admin[s]
  BY <1>1, OneMoves DEF AuditInv
<1>3. AuditTypes' /\ adminCrashes' # 0
  BY <1>1, <1>2, WorkIsNotRest DEF AuditInv, AuditTypes
<1>4. ByOne' /\ Standing'
  BY <1>1, <1>2, WorkIsNotRest DEF AuditInv, ByOne, Standing
<1> QED
  BY <1>3, <1>4 DEF AuditInv, LogInv

-----------------------------------------------------------------------------
(* The log. *)

\* A set of positions that is not empty has a last one.
LEMMA LastPosition ==
  ASSUME NEW n \in Nat, NEW T \in SUBSET (1..n), T # {}
  PROVE  Max(T) \in T /\ \A k \in T : k <= Max(T)
<1> DEFINE D == {n - k : k \in T}
<1>1. D \subseteq Nat /\ D # {}
  OBVIOUS
<1>2. IsWellFoundedOn(OpToRel(<, Nat), Nat)
  BY NatLessThanWellFounded
<1>3. PICK x \in D : \A y \in D : ~(<<y, x>> \in OpToRel(<, Nat))
  BY <1>1, <1>2, WFMin, Zenon
<1>4. \A y \in D : ~(y < x)
  BY <1>1, <1>3, Zenon DEF OpToRel
<1>5. PICK m \in T : x = n - m
  OBVIOUS
<1>6. \A k \in T : k <= m
  BY <1>4, <1>5
<1> QED
  BY <1>6 DEF Max

LEMMA LastEntry ==
  ASSUME audit \in Seq(Entry), NEW e, EntriesOf(e) # {}
  PROVE  /\ Max(EntriesOf(e)) \in EntriesOf(e)
         /\ \A k \in EntriesOf(e) : k <= Max(EntriesOf(e))
<1>1. Len(audit) \in Nat /\ EntriesOf(e) \in SUBSET (1..Len(audit))
  BY DEF EntriesOf
<1> QED
  BY <1>1, LastPosition

LEMMA ToldIs == ASSUME NEW e PROVE Told(e) = IF EntriesOf(e) = {} THEN Absent ELSE audit[Max(EntriesOf(e))].after
BY DEF Told, EntriesOf

\* An entry about e is what the log tells of it from then on; others change nothing.
LEMMA EntryTells ==
  ASSUME audit \in Seq(Entry), NEW x \in Entry, audit' = Append(audit, x), NEW e
  PROVE  Told(e)' = IF x.entity = e /\ x.action # "RESET_USER_PASSWORD" THEN x.after ELSE Told(e)
<1> DEFINE n == Len(audit) + 1
<1>1. /\ audit' \in Seq(Entry) /\ DOMAIN audit' = 1..n /\ audit'[n] = x
      /\ DOMAIN audit = 1..(n - 1) /\ n \in Nat \ {0} /\ \A i \in 1..(n - 1) : audit'[i] = audit[i]
  OBVIOUS
<1> HIDE DEF n
<1>2. CASE x.entity = e /\ x.action # "RESET_USER_PASSWORD"
  <2>1. n \in EntriesOf(e)' /\ EntriesOf(e)' \subseteq 1..n
    BY <1>1, <1>2 DEF EntriesOf
  <2>2. Max(EntriesOf(e)') \in EntriesOf(e)' /\ n <= Max(EntriesOf(e)')
    BY <1>1, <2>1, LastPosition
  <2>3. Max(EntriesOf(e)') = n
    BY <1>1, <2>1, <2>2
  <2>4. Told(e)' = IF EntriesOf(e)' = {} THEN Absent ELSE audit'[Max(EntriesOf(e)')].after
    BY DEF Told, EntriesOf
  <2> QED
    BY <1>1, <1>2, <2>1, <2>3, <2>4
<1>3. CASE ~(x.entity = e /\ x.action # "RESET_USER_PASSWORD")
  <2>1. EntriesOf(e)' = EntriesOf(e)
    BY <1>1, <1>3 DEF EntriesOf
  <2>2. EntriesOf(e) # {} => Max(EntriesOf(e)) \in 1..(n - 1)
    BY <1>1, LastEntry DEF EntriesOf
  <2>3. Told(e)' = IF EntriesOf(e)' = {} THEN Absent ELSE audit'[Max(EntriesOf(e)')].after
    BY DEF Told, EntriesOf
  <2> QED
    BY <1>1, <1>3, <2>1, <2>2, <2>3, ToldIs
<1> QED
  BY <1>2, <1>3

LEMMA LogStep == ASSUME AuditInv, NEW r \in AdminRequests, CreateAuditLog(r) PROVE AuditInv'
<1> DEFINE q == admin[r].ask
           x == [action |-> q.action, entity |-> q.entity, after |-> After(r)]
<1>1. /\ admin[r] \in AdminWork /\ admin[r].at = "audit"
      /\ audit' = Append(audit, x) /\ admin' = [admin EXCEPT ![r] = Closed]
      /\ UNCHANGED <<staff, banner, settings, adminCrashes, crossed>>
  BY WorkIsNotRest DEF CreateAuditLog, AtWork, Close, AuditInv, AuditTypes
<1>2. q \in AdminRequest /\ q.action \in Actions /\ q.entity \in Staff \union Banners \union {Settings}
  BY <1>1, AskedFor DEF AdminWork
<1>3. After(r) \in Roles \union AdminRequests \union {Absent}
  BY <1>2, AskedFor DEF After
<1>4. x \in Entry
  BY <1>2, <1>3 DEF Entry
<1>5. /\ admin' \in [AdminRequests -> AdminWork \union {Pending, Closed}] /\ admin'[r] = Closed
      /\ \A s \in AdminRequests \ {r} :
           admin'[s] = admin[s] /\ After(s)' = After(s) /\ \A e : Logging(s, e)' <=> Logging(s, e)
  BY <1>1, OneMoves DEF AuditInv
<1>6. audit' \in Seq(Entry)
  BY <1>1, <1>4 DEF AuditInv, AuditTypes
<1>7. AuditTypes'
  BY <1>1, <1>5, <1>6, WorkIsNotRest DEF AuditInv, AuditTypes
<1>8. ByOne'
  BY <1>1, <1>5, WorkIsNotRest DEF AuditInv, ByOne
<1>9. Standing'
  BY <1>1, <1>5, WorkIsNotRest DEF AuditInv, Standing
<1>10. ASSUME NEW e PROVE Told(e)' = IF q.entity = e /\ q.action # "RESET_USER_PASSWORD" THEN After(r) ELSE Told(e)
  <2>1. audit \in Seq(Entry)
    BY DEF AuditInv, AuditTypes
  <2>2. x.entity = q.entity /\ x.action = q.action /\ x.after = After(r)
    OBVIOUS
  <2> HIDE DEF x
  <2> QED
    BY <1>1, <1>4, <2>1, <2>2, EntryTells
<1>11. Logging(r, q.entity) <=> q.action # "RESET_USER_PASSWORD"
  BY <1>1 DEF Logging
<1>12. \A e : ~Logging(r, e)' /\ (e # q.entity => ~Logging(r, e))
  BY <1>5, WorkIsNotRest DEF Logging
<1> HIDE DEF q, x
\* What the log tells, or is about to, it goes on to tell.
<1>13. ASSUME NEW e, e \notin crossed, NEW shown, Logged(e, shown)
       PROVE  IF \E s \in AdminRequests : Logging(s, e)'
              THEN \A s \in AdminRequests : Logging(s, e)' => shown = After(s)' ELSE Told(e)' = shown
  <2>1. CASE Logging(r, e)
    <3>1. \A s \in AdminRequests \ {r} : ~Logging(s, e)
      BY <1>1, <1>13, <2>1 DEF Logging, AuditInv, ByOne
    <3>2. \A s \in AdminRequests : ~Logging(s, e)'
      BY <1>5, <1>12, <3>1
    <3>3. shown = After(r) /\ e = q.entity
      BY <1>12, <1>13, <2>1 DEF Logged
    <3> QED
      BY <1>10, <1>11, <2>1, <3>2, <3>3
  <2>2. CASE ~Logging(r, e)
    <3>1. Told(e)' = Told(e)
      BY <1>10, <1>11, <2>2
    <3> QED
      BY <1>1, <1>12, <1>13, <2>2, <3>1, LoggedStays DEF AuditInv
  <2> QED
    BY <2>1, <2>2
<1>14. LogInv'
  <2>1. ASSUME adminCrashes' = 0, NEW u \in Staff \ crossed' PROVE Logged(u, Shown(u))'
    <3>1. Shown(u)' = Shown(u)
      BY <1>1 DEF Shown
    <3> QED
      BY <1>1, <1>13, <2>1, <3>1 DEF AuditInv, LogInv, Logged
  <2>2. ASSUME adminCrashes' = 0, NEW b \in Banners \ crossed' PROVE Logged(b, banner[b])'
    BY <1>1, <1>13, <2>2 DEF AuditInv, LogInv, Logged
  <2>3. ASSUME adminCrashes' = 0, Settings \notin crossed'
        PROVE  /\ Len(settings') <= 1
               /\ \/ settings' = <<>> /\ ~\E s \in AdminRequests : Logging(s, Settings)'
                  \/ settings' # <<>> /\ Logged(Settings, settings[1])'
                  \/ \E s \in AdminRequests : /\ admin'[s] \in AdminWork
                                              /\ admin'[s].ask.entity = Settings /\ admin'[s].at = "write"
    <3>1. Len(settings') <= 1
      BY <1>1, <2>3 DEF AuditInv, LogInv
    <3>2. CASE settings = <<>> /\ ~\E s \in AdminRequests : Logging(s, Settings)
      BY <1>1, <1>5, <1>12, <3>1, <3>2
    <3>3. CASE settings # <<>> /\ Logged(Settings, settings[1])
      BY <1>1, <1>13, <2>3, <3>1, <3>3 DEF Logged
    <3>4. CASE \E s \in AdminRequests : /\ admin[s] \in AdminWork
                                        /\ admin[s].ask.entity = Settings /\ admin[s].at = "write"
      BY <1>1, <1>5, <3>1, <3>4
    <3> QED
      BY <1>1, <2>3, <3>2, <3>3, <3>4 DEF AuditInv, LogInv
  <2> QED
    BY <2>1, <2>2, <2>3 DEF LogInv
<1> QED
  BY <1>7, <1>8, <1>9, <1>14 DEF AuditInv

-----------------------------------------------------------------------------
(* The writes. *)

\* A request that has written e, and goes to its entry or closes.
LEMMA CreateSettingsStep == ASSUME AuditInv, NEW r \in AdminRequests, CreateSettings(r) PROVE AuditInv'
<1> DEFINE d == [admin[r] EXCEPT !.at = "write"]
<1>1. /\ admin[r] \in AdminWork /\ admin[r].at = "defaults" /\ admin[r].ask.action = "UPDATE_SETTINGS"
      /\ settings' = Append(settings, Initially)
      /\ UNCHANGED <<staff, banner, audit, adminCrashes, crossed>>
  BY DEF CreateSettings, Does, AuditInv, AuditTypes, Pending, Closed
<1>2. admin' = [admin EXCEPT ![r] = d] /\ d \in AdminWork /\ d.at = "write" /\ d.ask = admin[r].ask
  BY <1>1, WorkGoesOn DEF CreateSettings, AdminAt, AuditInv
<1>3. admin[r].ask.entity = Settings /\ d.ask.action \notin OldAccount \union OldBanner
  BY <1>1, <1>2, AskedFor DEF AdminWork, OldAccount, OldBanner
<1> HIDE DEF d
<1>4. /\ admin' \in [AdminRequests -> AdminWork \union {Pending, Closed}] /\ admin'[r] = d
      /\ \A s \in AdminRequests \ {r} : admin'[s] = admin[s]
  BY <1>2, OneMoves DEF AuditInv
<1>5. settings \in Seq(AdminRequests \union {Initially})
  BY DEF AuditInv, AuditTypes
<1>6. /\ settings' \in Seq(AdminRequests \union {Initially}) /\ settings' # <<>>
      /\ Len(settings') = Len(settings) + 1
  BY <1>1, <1>5
<1>7. AuditTypes'
  BY <1>1, <1>2, <1>4, <1>6 DEF AuditInv, AuditTypes
<1>8. ByOne'
  BY <1>1, <1>2, <1>4 DEF AuditInv, ByOne
<1>9. \A s \in AdminRequests \ {r} :
        admin[s] \in AdminWork /\ admin[s].at = "defaults" => Settings \in crossed /\ admin[s].ask.entity = Settings
  <2>1. ASSUME NEW s \in AdminRequests \ {r}, admin[s] \in AdminWork, admin[s].at = "defaults"
        PROVE  Settings \in crossed /\ admin[s].ask.entity = Settings
    <3>1. admin[s].ask \in AdminRequest /\ admin[s].ask.action = "UPDATE_SETTINGS"
      BY <2>1 DEF AdminWork, AuditInv, AuditTypes
    <3>2. admin[s].ask.entity = Settings
      BY <3>1, AskedFor
    <3> QED
      BY <1>1, <1>3, <2>1, <3>2 DEF AuditInv, ByOne
  <2> QED
    BY <2>1
<1>10. Standing'
  BY <1>1, <1>2, <1>3, <1>4, <1>6, <1>9 DEF AuditInv, Standing
<1>11. \A e : ~Logging(r, e) /\ ~Logging(r, e)' /\ Told(e)' = Told(e)
  BY <1>1, <1>2, <1>4 DEF Logging, Told
<1>12. ASSUME NEW e, NEW x, Logged(e, x)
       PROVE  IF \E s \in AdminRequests : Logging(s, e)'
              THEN \A s \in AdminRequests : Logging(s, e)' => x = After(s)' ELSE Told(e)' = x
  BY <1>2, <1>11, <1>12, LoggedStays DEF AuditInv
<1>13. LogInv'
  <2>1. ASSUME adminCrashes' = 0, NEW u \in Staff \ crossed' PROVE Logged(u, Shown(u))'
    <3>1. Shown(u)' = Shown(u)
      BY <1>1 DEF Shown
    <3> QED
      BY <1>1, <1>12, <2>1, <3>1 DEF AuditInv, LogInv, Logged
  <2>2. ASSUME adminCrashes' = 0, NEW b \in Banners \ crossed' PROVE Logged(b, banner[b])'
    BY <1>1, <1>12, <2>2 DEF AuditInv, LogInv, Logged
  <2>3. ASSUME Settings \notin crossed'
        PROVE  /\ Len(settings') <= 1
               /\ admin'[r] \in AdminWork /\ admin'[r].ask.entity = Settings /\ admin'[r].at = "write"
    <3>1. settings = <<>>
      BY <1>1, <1>3, <2>3 DEF AuditInv, Standing
    <3> QED
      BY <1>2, <1>3, <1>4, <1>6, <3>1
  <2> QED
    BY <2>1, <2>2, <2>3 DEF LogInv
<1> QED
  BY <1>7, <1>8, <1>10, <1>13 DEF AuditInv

\* What a write has to show: it changes its entity only, to what its entry will say.
LEMMA WriteKeeps ==
  ASSUME AuditInv, NEW r \in AdminRequests, admin[r] \in AdminWork, admin[r].at = "write",
         NEW e, e = admin[r].ask.entity,
         NEW d \in AdminWork \union {Closed}, admin' = [admin EXCEPT ![r] = d],
         d # Closed => d.at = "audit" /\ d.ask = admin[r].ask,
         UNCHANGED <<audit, adminCrashes, crossed>>,
         staff' \in [Staff -> Account \union {Absent}], DOMAIN banner' = Banners,
         settings' \in Seq(AdminRequests \union {Initially}),
         \A u \in Staff \ {e} : staff'[u] = staff[u],
         \A b \in Banners \ {e} : banner'[b] = banner[b],
         e # Settings => settings' = settings,
         e = Settings /\ e \notin crossed =>
           d # Closed /\ settings' # <<>> /\ Len(settings') = Len(settings) /\ settings'[1] = After(r),
         e \in Staff /\ e \notin crossed =>
           IF d = Closed \/ admin[r].ask.action = "RESET_USER_PASSWORD"
           THEN Shown(e)' = Shown(e) ELSE Shown(e)' = After(r),
         e \in Banners /\ e \notin crossed => d # Closed /\ banner'[e] = After(r)
  PROVE  AuditInv'
<1>1. /\ admin' \in [AdminRequests -> AdminWork \union {Pending, Closed}] /\ admin'[r] = d
      /\ \A s \in AdminRequests \ {r} :
           admin'[s] = admin[s] /\ After(s)' = After(s) /\ \A f : Logging(s, f)' <=> Logging(s, f)
  BY OneMoves DEF AuditInv
<1>2. AuditTypes'
  BY <1>1, WorkIsNotRest DEF AuditInv, AuditTypes
<1>3. ByOne'
  BY <1>1, WorkIsNotRest DEF AuditInv, ByOne
<1>4. ASSUME NEW s \in AdminRequests \ {r}, admin[s] \in AdminWork, admin[s].ask.entity = e
      PROVE  e \in crossed
  BY <1>4 DEF AuditInv, ByOne
<1>5. \A s \in AdminRequests : admin[s] \in AdminWork =>
        /\ admin[s].ask.action \in OldAccount => admin[s].ask.entity \in Staff
        /\ admin[s].ask.action \in OldBanner => admin[s].ask.entity \in Banners
        /\ admin[s].at = "defaults" => admin[s].ask.entity = Settings
  <2>1. \A s \in AdminRequests : admin[s] \in AdminWork => admin[s].ask \in AdminRequest
    BY DEF AdminWork
  <2>2. \A s \in AdminRequests : admin[s] \in AdminWork /\ admin[s].at = "defaults" =>
          admin[s].ask.action = "UPDATE_SETTINGS"
    BY DEF AuditInv, AuditTypes
  <2> QED
    BY <2>1, <2>2, AskedFor DEF OldBanner
<1>6. Standing'
  <2> SUFFICES ASSUME NEW s \in AdminRequests, admin'[s] \in AdminWork, admin'[s].ask.entity \notin crossed
               PROVE  /\ admin'[s].at = "write" /\ admin'[s].ask.action \in OldAccount =>
                           staff'[admin'[s].ask.entity] # Absent /\ staff'[admin'[s].ask.entity].id = admin'[s].of
                      /\ admin'[s].at = "write" /\ admin'[s].ask.action \in OldBanner =>
                           banner'[admin'[s].ask.entity] # Absent
                      /\ admin'[s].at = "defaults" => settings' = <<>>
                      /\ admin'[s].at \in {"write", "audit"} /\ admin'[s].ask.entity = Settings => settings' # <<>>
    BY DEF Standing
  <2>1. CASE s = r
    BY <1>1, <2>1, WorkIsNotRest
  <2>2. CASE s # r
    <3>1. admin'[s] = admin[s] /\ admin[s] \in AdminWork /\ admin[s].ask.entity # e
      BY <1>1, <1>4, <2>2
    <3> QED
      BY <1>5, <3>1 DEF AuditInv, Standing
  <2> QED
    BY <2>1, <2>2
<1>7. \A f : Told(f)' = Told(f)
  BY DEF Told
<1>8. \A f : ~Logging(r, f) /\ (f # e => ~Logging(r, f)')
  BY <1>1, WorkIsNotRest DEF Logging
<1>9. Logging(r, e)' <=> d # Closed /\ admin[r].ask.action # "RESET_USER_PASSWORD"
  BY <1>1, WorkIsNotRest DEF Logging
<1>10. d # Closed => After(r)' = After(r)
  BY <1>1, Zenon DEF After
<1>11. ASSUME NEW f, f # e, NEW x, Logged(f, x)
       PROVE  IF \E s \in AdminRequests : Logging(s, f)'
              THEN \A s \in AdminRequests : Logging(s, f)' => x = After(s)' ELSE Told(f)' = x
  BY <1>7, <1>8, <1>11, LoggedStays DEF AuditInv
<1>12. ASSUME e \notin crossed
       PROVE  \A s \in AdminRequests : ~Logging(s, e) /\ (Logging(s, e)' => s = r)
  <2>1. \A s \in AdminRequests \ {r} : ~Logging(s, e)
    BY <1>4, <1>12 DEF Logging
  <2> QED
    BY <1>1, <1>8, <2>1
<1>13. ASSUME adminCrashes' = 0, NEW u \in Staff \ crossed' PROVE Logged(u, Shown(u))'
  <2>1. CASE u # e
    <3>1. Shown(u)' = Shown(u)
      BY <2>1 DEF Shown
    <3>2. Logged(u, Shown(u))
      BY <1>13 DEF AuditInv, LogInv
    <3> QED
      BY <1>11, <2>1, <3>1, <3>2 DEF Logged
  <2>2. CASE u = e
    <3>1. Told(e) = Shown(e)
      BY <1>12, <1>13, <2>2 DEF AuditInv, LogInv, Logged
    <3>2. \A s \in AdminRequests : Logging(s, e)' => s = r
      BY <1>12, <1>13, <2>2
    <3>3. CASE Logging(r, e)'
      <4>1. Shown(e)' = After(r)'
        BY <1>9, <1>10, <1>13, <2>2, <3>3
      <4> QED
        BY <2>2, <3>2, <3>3, <4>1 DEF Logged
    <3>4. CASE ~Logging(r, e)'
      <4>1. Shown(e)' = Shown(e)
        BY <1>9, <1>13, <2>2, <3>4
      <4>2. Told(e)' = Shown(e)'
        BY <1>7, <3>1, <4>1
      <4> QED
        BY <2>2, <3>2, <3>4, <4>2 DEF Logged
    <3> QED
      BY <3>3, <3>4
  <2> QED
    BY <2>1, <2>2
<1>14. ASSUME adminCrashes' = 0, NEW b \in Banners \ crossed' PROVE Logged(b, banner[b])'
  <2>1. CASE b # e
    <3>1. Logged(b, banner[b]) /\ banner'[b] = banner[b]
      BY <1>14, <2>1 DEF AuditInv, LogInv
    <3>2. IF \E s \in AdminRequests : Logging(s, b)'
          THEN \A s \in AdminRequests : Logging(s, b)' => banner[b] = After(s)' ELSE Told(b)' = banner[b]
      BY <1>11, <2>1, <3>1
    <3> QED
      BY <3>1, <3>2 DEF Logged
  <2>2. CASE b = e
    <3>1. admin[r].ask \in AdminRequest
      BY DEF AdminWork
    <3>2. admin[r].ask.action # "RESET_USER_PASSWORD"
      BY <2>2, <3>1, AskedFor
    <3> QED
      BY <1>7, <1>9, <1>10, <1>12, <1>14, <2>2, <3>2 DEF Logged
  <2> QED
    BY <2>1, <2>2
<1>15. ASSUME adminCrashes' = 0, Settings \notin crossed'
       PROVE  /\ Len(settings') <= 1
              /\ \/ settings' = <<>> /\ ~\E s \in AdminRequests : Logging(s, Settings)'
                 \/ settings' # <<>> /\ Logged(Settings, settings[1])'
                 \/ \E s \in AdminRequests : /\ admin'[s] \in AdminWork
                                             /\ admin'[s].ask.entity = Settings /\ admin'[s].at = "write"
  <2>0. Len(settings) <= 1
    BY <1>15 DEF AuditInv, LogInv
  <2>1. CASE e = Settings
    <3>1. admin[r].ask \in AdminRequest
      BY DEF AdminWork
    <3>2. admin[r].ask.action # "RESET_USER_PASSWORD"
      BY <2>1, <3>1, AskedFor
    <3> QED
      BY <1>7, <1>9, <1>10, <1>12, <1>15, <2>0, <2>1, <3>2 DEF Logged
  <2>2. CASE e # Settings
    <3>1. settings' = settings
      BY <2>2
    <3>2. CASE settings = <<>> /\ ~\E s \in AdminRequests : Logging(s, Settings)
      BY <1>1, <1>8, <2>0, <2>2, <3>1, <3>2
    <3>3. CASE settings # <<>> /\ Logged(Settings, settings[1])
      BY <1>11, <2>0, <2>2, <3>1, <3>3 DEF Logged
    <3>4. CASE \E s \in AdminRequests : /\ admin[s] \in AdminWork
                                        /\ admin[s].ask.entity = Settings /\ admin[s].at = "write"
      BY <1>1, <2>0, <2>2, <3>1, <3>4
    <3> QED
      BY <1>15, <3>2, <3>3, <3>4 DEF AuditInv, LogInv
  <2> QED
    BY <2>1, <2>2
<1>16. LogInv'
  BY <1>13, <1>14, <1>15 DEF LogInv
<1> QED
  BY <1>2, <1>3, <1>6, <1>16 DEF AuditInv

LEMMA WriteStaffStep == ASSUME AuditInv, NEW r \in AdminRequests, WriteStaff(r) PROVE AuditInv'
<1> DEFINE q == admin[r].ask
           d == [admin[r] EXCEPT !.at = "audit"]
<1>1. /\ admin[r] \in AdminWork /\ admin[r].at = "write"
      /\ q.action \in {"CREATE_USER", "UPDATE_USER_ROLE", "RESET_USER_PASSWORD"}
      /\ UNCHANGED <<banner, settings, audit, crossed, adminCrashes>>
  BY DEF WriteStaff, Does, AuditInv, AuditTypes, Pending, Closed
<1>0. q \in AdminRequest /\ q.entity \in Staff
  BY <1>1, AskedFor DEF AdminWork, NewAccount, OldAccount
<1>2. PICK u \in Staff : u = q.entity
  BY <1>0
<1>3. d \in AdminWork /\ d.at = "audit" /\ d.ask = q /\ [admin EXCEPT ![r].at = "audit"] = [admin EXCEPT ![r] = d]
  BY <1>1, WorkGoesOn DEF AuditInv
<1>4. staff \in [Staff -> Account \union {Absent}] /\ DOMAIN banner = Banners
      /\ settings \in Seq(AdminRequests \union {Initially})
  BY DEF AuditInv, AuditTypes
<1>5. u # Settings /\ u \notin Banners
  BY <1>2, AdminNamesAssumption
<1>6. CASE admin' = [admin EXCEPT ![r] = Closed] /\ UNCHANGED staff
  <2>1. Shown(u)' = Shown(u)
    BY <1>6 DEF Shown
  <2>2. u = admin[r].ask.entity
    BY <1>2
  <2> HIDE DEF q, d
  <2> QED
    BY <1>1, <1>2, <1>4, <1>5, <1>6, <2>1, <2>2, WriteKeeps
<1>7. CASE ~(admin' = [admin EXCEPT ![r] = Closed] /\ UNCHANGED staff)
  <2> DEFINE a == CASE q.action = "CREATE_USER" -> [id |-> r, role |-> q.role, password |-> r]
                    [] q.action = "UPDATE_USER_ROLE" -> [staff[u] EXCEPT !.role = q.role]
                    [] q.action = "RESET_USER_PASSWORD" -> [staff[u] EXCEPT !.password = r]
  <2>1. /\ ~IF q.action \in NewAccount THEN staff[u] # Absent ELSE ~StillThere(r)
        /\ staff' = [staff EXCEPT ![u] = a]
        /\ AdminAt(r, "audit")
    BY <1>2, <1>7 DEF WriteStaff, Close
  <2>2. q.action # "CREATE_USER" => staff[u] \in Account
    BY <1>1, <1>2, <1>4, <2>1 DEF NewAccount, StillThere
  <2>3. q.action # "RESET_USER_PASSWORD" => q.role \in Roles
    BY <1>0, <1>1, AskedFor
  <2>4. /\ a \in Account
        /\ q.action # "RESET_USER_PASSWORD" => a.role = q.role
        /\ q.action = "RESET_USER_PASSWORD" => a.role = staff[u].role
    <3>1. CASE q.action = "CREATE_USER"
      BY <2>3, <3>1 DEF Account
    <3>2. CASE q.action = "UPDATE_USER_ROLE"
      <4>1. a = [staff[u] EXCEPT !.role = q.role]
        BY <3>2
      <4> HIDE DEF a
      <4> QED
        BY <2>2, <2>3, <3>2, <4>1 DEF Account
    <3>3. CASE q.action = "RESET_USER_PASSWORD"
      <4>1. a = [staff[u] EXCEPT !.password = r]
        BY <3>3
      <4> HIDE DEF a
      <4> QED
        BY <2>2, <3>3, <4>1 DEF Account
    <3> QED
      BY <1>1, <3>1, <3>2, <3>3
  <2>5. q.action # "RESET_USER_PASSWORD" => After(r) = q.role
    BY <1>1 DEF After
  <2>11. u = admin[r].ask.entity /\ q = admin[r].ask
    BY <1>2
  <2> HIDE DEF a, q, d
  <2>6. staff' \in [Staff -> Account \union {Absent}] /\ staff'[u] = a /\ \A v \in Staff \ {u} : staff'[v] = staff[v]
    BY <1>2, <1>4, <2>1, <2>4
  <2>7. staff'[u] # Absent
    BY <2>4, <2>6, AdminNamesAssumption
  <2>8. Shown(u)' = a.role
    BY <2>6, <2>7 DEF Shown
  <2>9. q.action = "RESET_USER_PASSWORD" => Shown(u)' = Shown(u)
    BY <2>2, <2>4, <2>8, AdminNamesAssumption DEF Shown
  <2>10. admin' = [admin EXCEPT ![r] = d] /\ d # Closed
    BY <1>3, <2>1, WorkIsNotRest DEF AdminAt
  <2>12. d # Closed => d.at = "audit" /\ d.ask = admin[r].ask
    BY <1>3, <2>11
  <2>13. u \in Staff /\ u \notin crossed =>
           IF d = Closed \/ q.action = "RESET_USER_PASSWORD" THEN Shown(u)' = Shown(u) ELSE Shown(u)' = After(r)
    BY <2>4, <2>5, <2>8, <2>9, <2>10
  <2> QED
    BY <1>1, <1>2, <1>3, <1>4, <1>5, <2>6, <2>10, <2>11, <2>12, <2>13, WriteKeeps
<1> QED
  BY <1>6, <1>7

LEMMA DeleteStaffStep == ASSUME AuditInv, NEW r \in AdminRequests, DeleteStaff(r) PROVE AuditInv'
<1> DEFINE d == [admin[r] EXCEPT !.at = "audit"]
<1>1. /\ admin[r] \in AdminWork /\ admin[r].at = "write" /\ admin[r].ask.action = "DELETE_USER"
      /\ UNCHANGED <<banner, settings, audit, crossed, adminCrashes>>
  BY DEF DeleteStaff, Does, AuditInv, AuditTypes, Pending, Closed
<1>2. admin[r].ask \in AdminRequest /\ admin[r].ask.entity \in Staff
  BY <1>1, AskedFor DEF AdminWork, OldAccount
<1>3. PICK u \in Staff : u = admin[r].ask.entity
  BY <1>2
<1>4. d \in AdminWork /\ d.at = "audit" /\ d.ask = admin[r].ask /\ admin' = [admin EXCEPT ![r] = d]
  BY <1>1, WorkGoesOn DEF DeleteStaff, AdminAt, AuditInv
<1>5. staff \in [Staff -> Account \union {Absent}] /\ DOMAIN banner = Banners
      /\ settings \in Seq(AdminRequests \union {Initially})
  BY DEF AuditInv, AuditTypes
<1>6. staff' = [staff EXCEPT ![u] = IF StillThere(r) THEN Absent ELSE staff[u]]
  BY <1>3, <1>5 DEF DeleteStaff
<1>7. /\ staff' \in [Staff -> Account \union {Absent}] /\ \A v \in Staff \ {u} : staff'[v] = staff[v]
      /\ StillThere(r) => staff'[u] = Absent
  BY <1>3, <1>5, <1>6
<1>8. u \notin crossed => StillThere(r)
  BY <1>1, <1>3 DEF AuditInv, Standing, StillThere, OldAccount
<1>9. After(r) = Absent
  BY <1>1 DEF After
<1>10. u \notin crossed => Shown(u)' = After(r)
  BY <1>7, <1>8, <1>9 DEF Shown
<1>11. u # Settings /\ u \notin Banners
  BY <1>3, AdminNamesAssumption
<1> HIDE DEF d
<1> QED
  BY <1>1, <1>3, <1>4, <1>5, <1>7, <1>10, <1>11, WriteKeeps, WorkIsNotRest

LEMMA WriteBannerStep == ASSUME AuditInv, NEW r \in AdminRequests, WriteBanner(r) PROVE AuditInv'
<1> DEFINE q == admin[r].ask
           d == [admin[r] EXCEPT !.at = "audit"]
<1>1. /\ admin[r] \in AdminWork /\ admin[r].at = "write"
      /\ q.action \in {"CREATE_BANNER", "UPDATE_BANNER", "DELETE_BANNER"}
      /\ UNCHANGED <<staff, settings, audit, crossed, adminCrashes>>
  BY DEF WriteBanner, Does, AuditInv, AuditTypes, Pending, Closed
<1>2. q \in AdminRequest /\ q.entity \in Banners
  BY <1>1, AskedFor DEF AdminWork
<1>3. PICK b \in Banners : b = q.entity
  BY <1>2
<1>4. d \in AdminWork /\ d.at = "audit" /\ d.ask = admin[r].ask /\ admin' = [admin EXCEPT ![r] = d]
  BY <1>1, WorkGoesOn DEF WriteBanner, AdminAt, AuditInv
<1>5. staff \in [Staff -> Account \union {Absent}] /\ DOMAIN banner = Banners
      /\ settings \in Seq(AdminRequests \union {Initially})
  BY DEF AuditInv, AuditTypes
<1> DEFINE x == CASE q.action = "CREATE_BANNER" -> r
                  [] q.action = "UPDATE_BANNER" -> IF banner[b] = Absent THEN Absent ELSE r
                  [] q.action = "DELETE_BANNER" -> Absent
<1>6. banner' = [banner EXCEPT ![b] = x]
  BY <1>3, <1>5 DEF WriteBanner
<1>7. DOMAIN banner' = Banners /\ banner'[b] = x /\ \A c \in Banners \ {b} : banner'[c] = banner[c]
  BY <1>5, <1>6
<1>8. b \notin crossed /\ q.action = "UPDATE_BANNER" => banner[b] # Absent
  BY <1>1, <1>3 DEF AuditInv, Standing, OldBanner
<1>9. q.action # "DELETE_BANNER" => After(r) = r
  BY <1>1 DEF After
<1>10. q.action = "DELETE_BANNER" => After(r) = Absent
  BY DEF After
<1>11. b \notin crossed => x = After(r)
  BY <1>1, <1>8, <1>9, <1>10
<1>12. b # Settings /\ b \notin Staff /\ b = admin[r].ask.entity
  BY <1>3, AdminNamesAssumption
<1> HIDE DEF d, x, q
<1> QED
  BY <1>1, <1>4, <1>5, <1>7, <1>11, <1>12, WriteKeeps, WorkIsNotRest

LEMMA WriteSettingsStep == ASSUME AuditInv, NEW r \in AdminRequests, WriteSettings(r) PROVE AuditInv'
<1> DEFINE d == [admin[r] EXCEPT !.at = "audit"]
<1>1. /\ admin[r] \in AdminWork /\ admin[r].at = "write" /\ admin[r].ask.action = "UPDATE_SETTINGS"
      /\ UNCHANGED <<staff, banner, audit, crossed, adminCrashes>>
  BY DEF WriteSettings, Does, AuditInv, AuditTypes, Pending, Closed
<1>2. admin[r].ask \in AdminRequest /\ admin[r].ask.entity = Settings
  BY <1>1, AskedFor DEF AdminWork
<1>3. d \in AdminWork /\ d.at = "audit" /\ d.ask = admin[r].ask /\ admin' = [admin EXCEPT ![r] = d]
  BY <1>1, WorkGoesOn DEF WriteSettings, AdminAt, AuditInv
<1>4. staff \in [Staff -> Account \union {Absent}] /\ DOMAIN banner = Banners
      /\ settings \in Seq(AdminRequests \union {Initially})
  BY DEF AuditInv, AuditTypes
<1>5. settings' = [settings EXCEPT ![1] = r]
  BY DEF WriteSettings
<1>6. settings' \in Seq(AdminRequests \union {Initially}) /\ Len(settings') = Len(settings)
  <2> DEFINE S == AdminRequests \union {Initially}
  <2>1. r \in S
    OBVIOUS
  <2> HIDE DEF S
  <2>2. /\ settings \in Seq(S) /\ Len(settings) \in Nat /\ settings \in [1..Len(settings) -> S]
    BY <1>4 DEF S
  <2>3. settings' \in [1..Len(settings) -> S]
    BY <1>5, <2>1, <2>2
  <2> QED
    BY <2>2, <2>3 DEF S
<1>7. settings # <<>> => settings'[1] = r /\ settings' # <<>>
  BY <1>4, <1>5
<1>8. Settings \notin crossed => settings # <<>>
  BY <1>1, <1>2 DEF AuditInv, Standing
<1>9. After(r) = r
  BY <1>1 DEF After
<1>10. Settings \notin Staff \union Banners
  BY AdminNamesAssumption
<1> HIDE DEF d
<1> QED
  BY <1>1, <1>2, <1>3, <1>4, <1>6, <1>7, <1>8, <1>9, <1>10, WriteKeeps, WorkIsNotRest

LEMMA AuditInvNext == AuditInv /\ [AdminNext]_adminVars => AuditInv'
<1> SUFFICES ASSUME AuditInv, [AdminNext]_adminVars PROVE AuditInv'
  OBVIOUS
<1>1. CASE UNCHANGED adminVars
  <2>1. UNCHANGED <<staff, banner, settings, audit, admin, crossed, adminCrashes>>
    BY <1>1 DEF adminVars
  <2>2. AuditTypes' /\ ByOne' /\ Standing'
    BY <2>1 DEF AuditInv, AuditTypes, ByOne, Standing
  <2>3. /\ \A e : Told(e)' = Told(e) /\ \A r \in AdminRequests : Logging(r, e)' <=> Logging(r, e)
        /\ \A r \in AdminRequests : After(r)' = After(r)
        /\ \A u \in Staff : Shown(u)' = Shown(u)
    BY <2>1, Zenon DEF Told, Logging, After, Shown
  <2>4. LogInv'
    BY <2>1, <2>3 DEF AuditInv, LogInv, Logged
  <2> QED
    BY <2>2, <2>4 DEF AuditInv
<1>2. CASE AdminNext
  BY <1>2, OrderStep, ReadSteps, CreateSettingsStep, WriteStaffStep, DeleteStaffStep, WriteBannerStep,
     WriteSettingsStep, LogStep, AdminCrashStep DEF AdminNext, AdminStep
<1> QED
  BY <1>1, <1>2

\* Of every account, banner and the settings, the last entry of the audit log tells
\* what is there once nothing is under way, but for the exceptions the property
\* names (the changes and their logging in admin.service.ts).
THEOREM AuditTellsTheLastAlways == PeopleSpec => []AuditTellsTheLast
<1>1. PeopleInit => AuditInv
  BY InitAudit DEF PeopleInit
<1>2. AuditInv /\ [PeopleNext]_peopleVars => AuditInv'
  <2>1. ASSUME [PeopleNext]_peopleVars PROVE [AdminNext]_adminVars
    BY <2>1 DEF PeopleNext, peopleVars, AccessNext, ProfileNext, OfficeNext, QueueNext, officeVars
  <2> QED
    BY <2>1, AuditInvNext
<1>3. AuditInv => AuditTellsTheLast
  <2> SUFFICES ASSUME AuditInv, \A r \in AdminRequests : ~AtWork(r), adminCrashes = 0
               PROVE  /\ \A u \in Staff \ crossed : Told(u) = Shown(u)
                      /\ \A b \in Banners \ crossed : Told(b) = banner[b]
                      /\ Settings \notin crossed => Len(settings) <= 1
                      /\ Settings \notin crossed /\ settings # <<>> => Told(Settings) = settings[1]
    BY DEF AuditTellsTheLast, Shown
  <2>1. \A r \in AdminRequests : admin[r] \notin AdminWork
    BY WorkIsNotRest DEF AtWork
  <2>2. \A e : \A r \in AdminRequests : ~Logging(r, e)
    BY <2>1 DEF Logging
  <2> QED
    BY <2>1, <2>2 DEF AuditInv, LogInv, Logged
<1> QED
  BY <1>1, <1>2, <1>3, PTL DEF PeopleSpec

-----------------------------------------------------------------------------
(* Profiles.  A removal that mingled with no other change of the addresses   *)
(* is the only one under way, so that what a request found when it read the  *)
(* profile still holds when it writes: whether the book was empty, that the  *)
(* address is in it, whether it was the default one.                         *)

\* It has the other elements, and each at one place if s has.
LEMMA DroppingKeeps ==
  ASSUME NEW S, NEW s \in Seq(S), NEW out
  PROVE  /\ Dropping(s, out) \in Seq(S)
         /\ ToSet(Dropping(s, out)) = ToSet(s) \ out
         /\ IsInjective(s) => IsInjective(Dropping(s, out))
<1>1. PICK h : Placed(Dropping(s, out), s, out, Len(s), h)
  BY DroppingIs
<1>2. PICK t : t = Dropping(s, out)
  OBVIOUS
<1>3. t \in Seq(S) /\ DOMAIN s = 1 .. Len(s)
  BY <1>2, DroppingIs
<1>4. ToSet(t) = ToSet(s) \ out
  BY <1>1, <1>2, <1>3 DEF Placed, ToSet
<1>5. IsInjective(s) => IsInjective(t)
  BY <1>1, <1>2, <1>3 DEF Placed, IsInjective
<1> QED
  BY <1>2, <1>3, <1>4, <1>5

\* Ids and default ones of an address book.
Book == [id : AddressIds, isDefault : BOOLEAN]
IdsIn(xs) == {xs[n].id : n \in DOMAIN xs}
DefaultsIn(xs) == {xs[n].id : n \in {m \in DOMAIN xs : xs[m].isDefault}}

LEMMA BookIs ==
  /\ Ids = IdsIn(addresses) /\ Defaults = DefaultsIn(addresses)
  /\ Defaults \subseteq Ids
  /\ \A i : IsDefault(i) <=> i \in Defaults
BY DEF Ids, IdsIn, Defaults, DefaultsIn, IsDefault

LEMMA NoAddress == ASSUME NEW xs \in Seq(Book) PROVE xs = <<>> <=> IdsIn(xs) = {}
<1>1. DOMAIN xs = 1 .. Len(xs) /\ Len(xs) \in Nat
  OBVIOUS
<1>2. xs # <<>> => xs[1].id \in IdsIn(xs)
  BY <1>1 DEF IdsIn
<1>3. IdsIn(<<>>) = {}
  BY DEF IdsIn
<1> QED
  BY <1>2, <1>3

LEMMA UnsetIs ==
  ASSUME NEW xs \in Seq(Book)
  PROVE  Unset(xs) \in Seq(Book) /\ IdsIn(Unset(xs)) = IdsIn(xs) /\ DefaultsIn(Unset(xs)) = {}
<1>1. DOMAIN Unset(xs) = DOMAIN xs
  BY DEF Unset
<1>2. \A n \in DOMAIN xs : Unset(xs)[n] \in Book /\ Unset(xs)[n].id = xs[n].id /\ ~Unset(xs)[n].isDefault
  <2> TAKE n \in DOMAIN xs
  <2>1. xs[n] \in Book
    OBVIOUS
  <2> QED
    BY <2>1 DEF Unset, Book
<1>3. Unset(xs) \in Seq(Book)
  BY <1>2 DEF Unset
<1> QED
  BY <1>1, <1>2, <1>3 DEF IdsIn, DefaultsIn

LEMMA MarkIs ==
  ASSUME NEW xs \in Seq(Book), NEW i \in AddressIds, NEW d \in BOOLEAN
  PROVE  /\ Mark(xs, i, d) \in Seq(Book) /\ IdsIn(Mark(xs, i, d)) = IdsIn(xs)
         /\ DefaultsIn(Mark(xs, i, d)) = (DefaultsIn(xs) \ {i}) \union (IF d THEN {i} \intersect IdsIn(xs) ELSE {})
<1>1. DOMAIN Mark(xs, i, d) = DOMAIN xs
  BY DEF Mark
<1>2. \A n \in DOMAIN xs :
        /\ Mark(xs, i, d)[n] \in Book /\ Mark(xs, i, d)[n].id = xs[n].id
        /\ Mark(xs, i, d)[n].isDefault = IF xs[n].id = i THEN d ELSE xs[n].isDefault
  <2> TAKE n \in DOMAIN xs
  <2>1. xs[n] \in Book
    OBVIOUS
  <2> QED
    BY <2>1 DEF Mark, Book
<1>3. Mark(xs, i, d) \in Seq(Book)
  BY <1>2 DEF Mark
<1> QED
  BY <1>1, <1>2, <1>3 DEF IdsIn, DefaultsIn

LEMMA AddedIs ==
  ASSUME NEW xs \in Seq(Book), NEW i \in AddressIds, NEW d \in BOOLEAN
  PROVE  /\ Added(xs, i, d) \in Seq(Book) /\ IdsIn(Added(xs, i, d)) = IdsIn(xs) \union {i}
         /\ DefaultsIn(Added(xs, i, d)) = IF d THEN {i} ELSE DefaultsIn(xs)
<1> DEFINE ys == IF d THEN Unset(xs) ELSE xs
           a == [id |-> i, isDefault |-> d]
<1>1. ys \in Seq(Book) /\ IdsIn(ys) = IdsIn(xs) /\ DefaultsIn(ys) = IF d THEN {} ELSE DefaultsIn(xs)
  BY UnsetIs
<1>2. a \in Book /\ a.id = i /\ a.isDefault = d /\ Added(xs, i, d) = Append(ys, a)
  BY DEF Book, Added
<1> HIDE DEF ys, a
<1>3. /\ Append(ys, a) \in Seq(Book) /\ DOMAIN Append(ys, a) = 1 .. Len(ys) + 1 /\ Len(ys) \in Nat
      /\ DOMAIN ys = 1 .. Len(ys) /\ Append(ys, a)[Len(ys) + 1] = a
      /\ \A n \in 1 .. Len(ys) : Append(ys, a)[n] = ys[n]
  BY <1>1, <1>2
<1>4. IdsIn(Append(ys, a)) = IdsIn(ys) \union {i}
  BY <1>2, <1>3 DEF IdsIn
<1>5. DefaultsIn(Append(ys, a)) = DefaultsIn(ys) \union (IF d THEN {i} ELSE {})
  BY <1>2, <1>3 DEF DefaultsIn
<1> QED
  BY <1>1, <1>2, <1>3, <1>4, <1>5

LEMMA PulledIs ==
  ASSUME NEW xs \in Seq(Book), NEW i
  PROVE  /\ Pulled(xs, i) \in Seq(Book)
         /\ IdsIn(Pulled(xs, i)) = IdsIn(xs) \ {i} /\ DefaultsIn(Pulled(xs, i)) = DefaultsIn(xs) \ {i}
<1>1. PICK ys : ys = Pulled(xs, i)
  OBVIOUS
<1>2. ys \in Seq(Book) /\ ToSet(ys) = {a \in ToSet(xs) : a.id # i}
  BY <1>1, DroppingKeeps DEF Pulled
<1>3. \A zs \in Seq(Book) : IdsIn(zs) = {a.id : a \in ToSet(zs)}
                            /\ DefaultsIn(zs) = {a.id : a \in {e \in ToSet(zs) : e.isDefault}}
  BY DEF IdsIn, DefaultsIn, ToSet
<1> QED
  BY <1>1, <1>2, <1>3

\* What calls there are, in their stages.
Calls == [at : {"read", "write", "promote", "deactivate"}, ask : UserRequest, first : BOOLEAN, wasDefault : BOOLEAN]
CallTypes ==
  /\ addresses \in Seq(Book) /\ unusedIds \subseteq AddressIds
  /\ call \in [UserRequests -> Calls \union {NoCall, Returned}]
  /\ userCrashes \in Nat
  /\ \A r \in UserRequests : call[r] \in Calls =>
       /\ call[r].at = "deactivate" <=> call[r].ask.op = "deactivate"
       /\ call[r].at = "promote" => call[r].ask.op = "remove"

\* A removal that did not mingle is the only change under way, and a change of the
\* phone and a deactivation are not under way together.
Separate ==
  \A r, s \in UserRequests : r # s /\ call[r] \in Calls /\ call[s] \in Calls =>
    /\ ~mingled => ~Mingle(call[r].ask, call[s].ask)
    /\ ~outrun => {call[r].ask.op, call[s].ask.op} # {"profile", "deactivate"}

\* So what a call has found is still there when it writes.
FindsAgain(c) ==
  /\ c.ask.op = "update" /\ c.ask.asked = "no" => unmarked
  /\ ~mingled =>
       /\ c.at = "write" /\ c.ask.op = "add" => c.first \/ Ids # {}
       /\ c.at = "write" /\ c.ask.op = "update" => c.ask.id \in Ids
       /\ c.at = "write" /\ c.ask.op = "remove" => (c.wasDefault <=> c.ask.id \in Defaults)
       /\ c.at = "promote" => Defaults = {} /\ c.ask.id \in Ids
  /\ ~outrun /\ c.at = "write" /\ c.ask.op = "profile" => active

Promoting == \E r \in UserRequests : call[r] \in Calls /\ call[r].at = "promote"
HasDefault ==
  ~mingled =>
    /\ \A i, j \in Defaults : i = j
    /\ Defaults # {} \/ Ids = {} \/ unmarked \/ userCrashes > 0 \/ Promoting

ProfileInv ==
  /\ CallTypes /\ Separate
  /\ \A r \in UserRequests : call[r] \in Calls => FindsAgain(call[r])
  /\ HasDefault
  /\ DeactivatedFreesPhone

LEMMA Requests ==
  \A q \in UserRequest :
    /\ q.op \in {"add", "update", "remove", "profile", "deactivate"}
    /\ q.op = "add" => q.asked \in {"yes", "no"}
    /\ q.op = "update" => q.id \in AddressIds /\ q.asked \in {"yes", "no", "keep"}
    /\ q.op = "remove" => q \in [op : {"remove"}, id : AddressIds]
    /\ q.op = "profile" => q.phone \in Phones
BY DEF UserRequest, AddressRequest

LEMMA NotCalls == NoCall \notin Calls /\ Returned \notin Calls /\ NoCall # Returned
BY DEF NoCall, Returned, Calls

LEMMA OpenIs == ASSUME CallTypes, NEW r \in UserRequests PROVE Open(r) <=> call[r] \in Calls
BY NotCalls DEF CallTypes, Open

LEMMA BookIsThen ==
  /\ Ids' = IdsIn(addresses') /\ Defaults' = DefaultsIn(addresses')
  /\ Defaults' \subseteq Ids'
BY DEF Ids, IdsIn, Defaults, DefaultsIn, IsDefault

LEMMA InitProfile == UsersInit => ProfileInv
<1> SUFFICES ASSUME UsersInit PROVE ProfileInv
  OBVIOUS
<1>1. addresses = <<>> /\ unusedIds = AddressIds /\ userCrashes = 0 /\ ~mingled /\ ~unmarked /\ ~outrun /\ active
  BY DEF UsersInit
<1>2. call = [r \in UserRequests |-> NoCall] /\ \A r \in UserRequests : call[r] \notin Calls
  BY NotCalls DEF UsersInit
<1>3. addresses \in Seq(Book)
  BY <1>1
<1>4. Ids = {} /\ Defaults = {}
  BY <1>1, BookIs DEF IdsIn
<1> QED
  BY <1>1, <1>2, <1>3, <1>4
     DEF ProfileInv, CallTypes, Separate, HasDefault, DeactivatedFreesPhone

\* A call goes on or ends, and no new one comes.
Moves(r) ==
  /\ call' \in [UserRequests -> Calls \union {NoCall, Returned}]
  /\ \A s \in UserRequests \ {r} : call'[s] = call[s]
  /\ UNCHANGED <<mingled, unmarked, outrun>>

\* The same, with what was asked for; an address to promote replaces one to remove.
LEMMA SeparateStays ==
  ASSUME ProfileInv, NEW r \in UserRequests, Moves(r),
         call'[r] \in Calls => call[r] \in Calls /\ call'[r].ask.op = call[r].ask.op
  PROVE  Separate'
<1>1. \A s \in UserRequests : call'[s] \in Calls => call[s] \in Calls /\ call'[s].ask.op = call[s].ask.op
  BY DEF Moves
<1> QED
  BY <1>1 DEF ProfileInv, Separate, Moves, Mingle, Changes

\* A step that changes neither the book nor the account.
LEMMA BookStays ==
  ASSUME ProfileInv, NEW r \in UserRequests, Moves(r), UNCHANGED <<active, phone, addresses, unusedIds>>,
         userCrashes' \in Nat, userCrashes' >= userCrashes,
         call[r] \in Calls /\ call[r].at = "promote" => userCrashes' > 0,
         call'[r] \in Calls => /\ call[r] \in Calls /\ call'[r].ask = call[r].ask
                               /\ call'[r].at \in {"read", "write"} /\ call'[r].ask.op # "deactivate"
                               /\ FindsAgain(call'[r])
  PROVE  ProfileInv'
<1>1. UNCHANGED <<Ids, Defaults>>
  BY DEF Ids, Defaults, IsDefault
<1>2. CallTypes'
  <2>1. CallTypes
    BY DEF ProfileInv
  <2>2. \A s \in UserRequests : call'[s] \in Calls =>
          /\ call'[s].at = "deactivate" <=> call'[s].ask.op = "deactivate"
          /\ call'[s].at = "promote" => call'[s].ask.op = "remove"
    BY <2>1 DEF CallTypes, Moves
  <2> QED
    BY <2>1, <2>2 DEF CallTypes, Moves
<1>3. Separate'
  BY SeparateStays
<1>4. \A s \in UserRequests : call'[s] \in Calls => FindsAgain(call'[s])
  BY DEF ProfileInv, Moves
<1>5. (\A s \in UserRequests : call[s] \in Calls => FindsAgain(call[s]))'
  BY <1>1, <1>4 DEF FindsAgain, Moves
<1>6. HasDefault'
  <2>1. Promoting => Promoting' \/ userCrashes' > 0
    BY DEF Promoting, Moves
  <2>2. userCrashes > 0 => userCrashes' > 0
    BY DEF ProfileInv, CallTypes
  <2> QED
    BY <1>1, <2>1, <2>2 DEF ProfileInv, HasDefault, Moves
<1> QED
  BY <1>2, <1>3, <1>5, <1>6 DEF ProfileInv, DeactivatedFreesPhone, Moves

\* Arrivals.
LEMMA BeginStep ==
  ASSUME ProfileInv, NEW r \in UserRequests, NEW q \in UserRequest, Begin(r, q)
  PROVE  ProfileInv'
<1> DEFINE c == Called(q, IF q.op = "deactivate" THEN "deactivate" ELSE "read")
           others == {call[s].ask : s \in {s \in UserRequests : call[s] \in Calls}}
<1>1. CallTypes /\ call[r] \notin Calls
  BY NotCalls DEF ProfileInv, Begin
<1>2. /\ call' = [call EXCEPT ![r] = c]
      /\ mingled' = (mingled \/ \E d \in others : Mingle(d, q))
      /\ outrun' = (outrun \/ \E d \in others : {d.op, q.op} = {"profile", "deactivate"})
      /\ unmarked' = (unmarked \/ (q.op = "update" /\ q.asked = "no"))
      /\ UNCHANGED <<active, phone, addresses, unusedIds, userCrashes>>
  BY <1>1, OpenIs DEF Begin, profile
<1>3. c \in Calls /\ c.ask = q /\ c.at = (IF q.op = "deactivate" THEN "deactivate" ELSE "read")
  BY DEF Called, Calls
<1>4. call'[r] = c /\ \A s \in UserRequests \ {r} : call'[s] = call[s]
  BY <1>1, <1>2 DEF CallTypes
<1> HIDE DEF c
<1>5. UNCHANGED <<Ids, Defaults>>
  BY <1>2 DEF Ids, Defaults, IsDefault
<1>6. CallTypes'
  BY <1>1, <1>2, <1>3, <1>4 DEF CallTypes
<1>7. \A s \in UserRequests \ {r} : call[s] \in Calls =>
        /\ ~mingled' => ~Mingle(call[s].ask, q) /\ ~Mingle(q, call[s].ask)
        /\ ~outrun' => {call[s].ask.op, q.op} # {"profile", "deactivate"}
  BY <1>2 DEF Mingle
<1>8. Separate'
  <2>1. Separate /\ (~mingled' => ~mingled) /\ (~outrun' => ~outrun)
    BY <1>2 DEF ProfileInv
  <2> SUFFICES ASSUME NEW s \in UserRequests, NEW t \in UserRequests, s # t,
                      call'[s] \in Calls, call'[t] \in Calls
               PROVE  /\ ~mingled' => ~Mingle(call'[s].ask, call'[t].ask)
                      /\ ~outrun' => {call'[s].ask.op, call'[t].ask.op} # {"profile", "deactivate"}
    BY DEF Separate, Mingle, Changes
  <2>2. CASE s # r /\ t # r
    BY <1>4, <2>1, <2>2 DEF Separate
  <2>3. CASE s = r \/ t = r
    BY <1>3, <1>4, <1>7, <2>3
  <2> QED
    BY <2>2, <2>3
<1>9. (\A s \in UserRequests : call[s] \in Calls => FindsAgain(call[s]))'
  <2>1. FindsAgain(c)'
    BY <1>2, <1>3 DEF FindsAgain
  <2>2. ASSUME NEW s \in UserRequests \ {r}, call[s] \in Calls PROVE FindsAgain(call[s])'
    <3>1. FindsAgain(call[s]) /\ call'[s] = call[s]
      BY <1>4, <2>2 DEF ProfileInv
    <3>2. (~mingled' => ~mingled) /\ (~outrun' => ~outrun) /\ (unmarked => unmarked') /\ active' = active
      BY <1>2
    <3> QED
      BY <1>5, <3>1, <3>2 DEF FindsAgain
  <2> QED
    BY <1>4, <2>1, <2>2
<1>10. HasDefault' /\ DeactivatedFreesPhone'
  <2>1. Promoting => Promoting'
    BY <1>1, <1>4 DEF Promoting
  <2> QED
    BY <1>2, <1>5, <2>1 DEF ProfileInv, HasDefault, DeactivatedFreesPhone
<1> QED
  BY <1>6, <1>8, <1>9, <1>10 DEF ProfileInv

LEMMA ProfileReadStep == ASSUME ProfileInv, NEW r \in UserRequests, GetProfile(r) PROVE ProfileInv'
<1>1. CallTypes /\ call[r] \in Calls /\ call[r].at = "read" /\ UNCHANGED <<active, phone, addresses, unusedIds, userCrashes>>
  BY DEF ProfileInv, CallTypes, GetProfile, NoCall, Returned, profile
<1>2. UNCHANGED <<mingled, unmarked, outrun>>
  BY DEF GetProfile, marks
<1>3. CASE call' = [call EXCEPT ![r] = Returned]
  <2>1. call'[r] = Returned /\ Moves(r)
    BY <1>1, <1>2, <1>3 DEF CallTypes, Moves
  <2> QED
    BY <1>1, <2>1, NotCalls, BookStays DEF CallTypes
<1>4. CASE ~(call' = [call EXCEPT ![r] = Returned])
  <2> DEFINE q == call[r].ask
  <2>1. /\ active /\ (q.op \in {"update", "remove"} => q.id \in Ids)
        /\ call' = [call EXCEPT ![r].at = "write", ![r].first = addresses = <<>>,
                                ![r].wasDefault = q.op = "remove" /\ IsDefault(q.id)]
    BY <1>4 DEF GetProfile, Return, HasProfile
  <2>2. q \in UserRequest /\ q.op # "deactivate"
    BY <1>1 DEF CallTypes, Calls
  <2>3. /\ call'[r] \in Calls /\ call'[r].ask = q /\ call'[r].at = "write"
        /\ call'[r].first = (addresses = <<>>)
        /\ call'[r].wasDefault = (q.op = "remove" /\ IsDefault(q.id))
        /\ Moves(r)
    BY <1>1, <1>2, <2>1 DEF CallTypes, Calls, Moves
  <2>4. addresses = <<>> <=> Ids = {}
    BY <1>1, BookIs, NoAddress DEF CallTypes
  <2>5. FindsAgain(call[r])
    BY <1>1 DEF ProfileInv
  <2>6. FindsAgain(call'[r])
    BY <1>1, <2>1, <2>3, <2>4, <2>5, BookIs DEF FindsAgain
  <2> QED
    BY <1>1, <2>2, <2>3, <2>6, BookStays DEF CallTypes
<1> QED
  BY <1>3, <1>4

LEMMA GiveUpStep == ASSUME ProfileInv, NEW r \in UserRequests, GiveUp(r) PROVE ProfileInv'
<1>1. CallTypes /\ userCrashes' = userCrashes + 1 /\ call' = [call EXCEPT ![r] = Returned]
  BY DEF ProfileInv, GiveUp, Return
<1>2. UNCHANGED <<active, phone, addresses, unusedIds, mingled, unmarked, outrun>>
  BY DEF GiveUp, profile, marks
<1>3. call'[r] = Returned /\ Moves(r)
  BY <1>1, <1>2 DEF CallTypes, Moves
<1> QED
  BY <1>1, <1>2, <1>3, NotCalls, BookStays DEF CallTypes

\* A step of one call that changes the address book or the account, and ends the
\* call or goes on to promote; what it does to ids and defaults is given.
LEMMA OthersInBook ==
  ASSUME ProfileInv, NEW r \in UserRequests, Moves(r), call[r] \in Calls,
         UNCHANGED <<active, phone, userCrashes>>,
         NEW s \in UserRequests \ {r}, call[s] \in Calls,
         call[r].ask.op \in {"add", "update"}, Ids \subseteq Ids'
  PROVE  FindsAgain(call[s])'
<1>1. FindsAgain(call[s]) /\ call'[s] = call[s]
  BY DEF ProfileInv, Moves
<1>2. ~mingled => ~Mingle(call[r].ask, call[s].ask)
  BY DEF ProfileInv, Separate
<1>3. ~mingled => call[s].ask.op # "remove" /\ call[s].at # "promote"
  BY <1>2 DEF Mingle, Changes, ProfileInv, CallTypes
<1> QED
  BY <1>1, <1>3 DEF FindsAgain, Moves

LEMMA WithRemoval ==
  ASSUME ProfileInv, NEW r \in UserRequests, Moves(r), call[r] \in Calls,
         UNCHANGED <<active, phone, userCrashes>>,
         NEW s \in UserRequests \ {r}, call[s] \in Calls,
         call[r].ask.op = "remove"
  PROVE  FindsAgain(call[s])'
<1>1. FindsAgain(call[s]) /\ call'[s] = call[s]
  BY DEF ProfileInv, Moves
<1>2. ~mingled => ~Mingle(call[r].ask, call[s].ask)
  BY DEF ProfileInv, Separate
<1>3. ~mingled => call[s].ask.op \notin {"add", "update", "remove"} /\ call[s].at # "promote"
  BY <1>2 DEF Mingle, Changes, ProfileInv, CallTypes
<1> QED
  BY <1>1, <1>3 DEF FindsAgain, Moves

\* While only additions and updates go on nobody is promoting.
LEMMA NoPromotion ==
  ASSUME ProfileInv, NEW r \in UserRequests, call[r] \in Calls, Changes(call[r].ask), ~mingled
  PROVE  \A s \in UserRequests \ {r} : call[s] \in Calls => call[s].at # "promote"
<1> SUFFICES ASSUME NEW s \in UserRequests \ {r}, call[s] \in Calls, call[s].at = "promote" PROVE FALSE
  OBVIOUS
<1>1. ~Mingle(call[r].ask, call[s].ask) /\ call[s].ask.op = "remove"
  BY DEF ProfileInv, Separate, CallTypes
<1> QED
  BY <1>1 DEF Mingle, Changes

LEMMA AddStep == ASSUME ProfileInv, NEW r \in UserRequests, AddAddress(r) PROVE ProfileInv'
<1>1. CallTypes /\ call[r] \in Calls /\ call[r].at = "write" /\ call[r].ask.op = "add"
  BY NotCalls DEF ProfileInv, CallTypes, AddAddress, NoCall, Returned
<1>2. PICK i \in unusedIds : /\ addresses' = Added(addresses, i, call[r].ask.asked = "yes" \/ call[r].first)
                             /\ unusedIds' = unusedIds \ {i}
  BY DEF AddAddress
<1>3. UNCHANGED <<active, phone, userCrashes>> /\ call' = [call EXCEPT ![r] = Returned]
  BY DEF AddAddress, Return
<1>4. Moves(r) /\ call'[r] = Returned
  BY <1>1, <1>3 DEF AddAddress, marks, CallTypes, Moves
<1> DEFINE d == call[r].ask.asked = "yes" \/ call[r].first
<1>5. i \in AddressIds /\ d \in BOOLEAN
  BY <1>1, <1>2 DEF CallTypes, Calls
<1>6. addresses' \in Seq(Book) /\ Ids' = Ids \union {i} /\ Defaults' = IF d THEN {i} ELSE Defaults
  <2> HIDE DEF d
  <2> QED
    BY <1>1, <1>2, <1>5, AddedIs, BookIs, BookIsThen DEF CallTypes, d
<1>7. CallTypes'
  BY <1>1, <1>2, <1>3, <1>4, <1>6, NotCalls DEF CallTypes, Moves
<1>8. Separate'
  BY <1>4, NotCalls, SeparateStays
<1>9. (\A s \in UserRequests : call[s] \in Calls => FindsAgain(call[s]))'
  BY <1>1, <1>3, <1>4, <1>6, NotCalls, OthersInBook DEF Moves
<1>10. HasDefault'
  <2> SUFFICES ASSUME ~mingled
               PROVE  /\ \A j, k \in Defaults' : j = k
                      /\ Defaults' # {} \/ unmarked' \/ userCrashes' > 0
    BY <1>4 DEF HasDefault, Moves
  <2>1. d \/ Ids # {}
    BY <1>1 DEF ProfileInv, FindsAgain
  <2>2. ~Promoting
    BY <1>1, NoPromotion DEF Promoting, Changes
  <2> QED
    BY <1>3, <1>4, <1>6, <2>1, <2>2 DEF ProfileInv, HasDefault, Moves
<1> QED
  BY <1>3, <1>4, <1>7, <1>8, <1>9, <1>10 DEF ProfileInv, DeactivatedFreesPhone, Moves

LEMMA UpdateStep == ASSUME ProfileInv, NEW r \in UserRequests, UpdateAddress(r) PROVE ProfileInv'
<1>1. CallTypes /\ call[r] \in Calls /\ call[r].at = "write" /\ call[r].ask.op = "update"
  BY NotCalls DEF ProfileInv, CallTypes, UpdateAddress, NoCall, Returned
<1> DEFINE q == call[r].ask
<1>2. q.id \in AddressIds /\ q.asked \in {"yes", "no", "keep"}
  BY <1>1, Requests DEF Calls
<1>3. UNCHANGED <<active, phone, unusedIds, userCrashes>> /\ call' = [call EXCEPT ![r] = Returned]
  BY DEF UpdateAddress, Return
<1>4. Moves(r) /\ call'[r] = Returned
  BY <1>1, <1>3 DEF UpdateAddress, marks, CallTypes, Moves
<1>5. /\ q.asked = "yes" => addresses' = Mark(Unset(addresses), q.id, TRUE)
      /\ q.asked = "no" => addresses' = Mark(addresses, q.id, FALSE)
      /\ q.asked = "keep" => addresses' = addresses
  BY DEF UpdateAddress
<1> HIDE DEF q
<1>6. /\ addresses' \in Seq(Book) /\ Ids' = Ids
      /\ Defaults' = CASE q.asked = "yes" -> {q.id} \intersect Ids
                       [] q.asked = "no" -> Defaults \ {q.id}
                       [] q.asked = "keep" -> Defaults
  <2>1. addresses \in Seq(Book) /\ Unset(addresses) \in Seq(Book)
    BY <1>1, UnsetIs DEF CallTypes
  <2>2. CASE q.asked = "yes"
    <3>1. IdsIn(Unset(addresses)) = Ids /\ DefaultsIn(Unset(addresses)) = {}
      BY <2>1, UnsetIs, BookIs
    <3>2. /\ addresses' \in Seq(Book) /\ IdsIn(addresses') = IdsIn(Unset(addresses))
          /\ DefaultsIn(addresses') = (DefaultsIn(Unset(addresses)) \ {q.id}) \union ({q.id} \intersect IdsIn(Unset(addresses)))
      <4> DEFINE xs == Unset(addresses)
      <4>1. xs \in Seq(Book) /\ addresses' = Mark(xs, q.id, TRUE)
        BY <1>5, <2>1, <2>2
      <4> HIDE DEF xs
      <4>2. /\ addresses' \in Seq(Book) /\ IdsIn(addresses') = IdsIn(xs)
            /\ DefaultsIn(addresses') = (DefaultsIn(xs) \ {q.id}) \union ({q.id} \intersect IdsIn(xs))
        BY <1>2, <4>1, MarkIs
      <4> QED
        BY <4>2 DEF xs
    <3> QED
      BY <2>2, <3>1, <3>2, BookIsThen
  <2>3. CASE q.asked = "no"
    <3>1. /\ addresses' \in Seq(Book) /\ IdsIn(addresses') = IdsIn(addresses)
          /\ DefaultsIn(addresses') = DefaultsIn(addresses) \ {q.id}
      <4>1. addresses' = Mark(addresses, q.id, FALSE)
        BY <1>5, <2>3
      <4> DEFINE i == q.id
      <4>2. i \in AddressIds
        BY <1>2
      <4> HIDE DEF i
      <4>3. /\ Mark(addresses, i, FALSE) \in Seq(Book) /\ IdsIn(Mark(addresses, i, FALSE)) = IdsIn(addresses)
            /\ DefaultsIn(Mark(addresses, i, FALSE)) = DefaultsIn(addresses) \ {i}
        <5> DEFINE d == FALSE
        <5>1. d \in BOOLEAN /\ ~d
          OBVIOUS
        <5> HIDE DEF d
        <5>2. /\ Mark(addresses, i, d) \in Seq(Book) /\ IdsIn(Mark(addresses, i, d)) = IdsIn(addresses)
              /\ DefaultsIn(Mark(addresses, i, d)) = DefaultsIn(addresses) \ {i}
          BY <2>1, <4>2, <5>1, MarkIs
        <5> QED
          BY <5>2 DEF d
      <4> QED
        BY <4>1, <4>3 DEF i
    <3> QED
      BY <2>3, <3>1, BookIs, BookIsThen
  <2>4. CASE q.asked = "keep"
    BY <1>5, <2>1, <2>4, BookIs, BookIsThen
  <2> QED
    BY <1>2, <2>2, <2>3, <2>4
<1>7. CallTypes'
  BY <1>1, <1>3, <1>4, <1>6, NotCalls DEF CallTypes, Moves
<1>8. Separate'
  BY <1>4, NotCalls, SeparateStays
<1>9. FindsAgain(call[r])
  BY <1>1 DEF ProfileInv
<1>10. (\A s \in UserRequests : call[s] \in Calls => FindsAgain(call[s]))'
  <2> SUFFICES ASSUME NEW s \in UserRequests \ {r}, call[s] \in Calls PROVE FindsAgain(call[s])'
    BY <1>4, NotCalls DEF Moves
  <2> QED
    BY <1>1, <1>3, <1>4, <1>6, OthersInBook
<1>11. HasDefault'
  <2> SUFFICES ASSUME ~mingled
               PROVE  /\ \A j, k \in Defaults' : j = k
                      /\ Defaults' # {} \/ Ids' = {} \/ unmarked' \/ userCrashes' > 0
    BY <1>4 DEF HasDefault, Moves
  <2>1. q.id \in Ids /\ (q.asked = "no" => unmarked)
    BY <1>1, <1>9 DEF FindsAgain, q
  <2>2. ~Promoting
    BY <1>1, NoPromotion DEF Promoting, Changes
  <2>3. unmarked' = unmarked
    BY <1>4 DEF Moves
  <2>4. (\A j, k \in Defaults : j = k) /\ (Defaults # {} \/ Ids = {} \/ unmarked \/ userCrashes > 0)
    BY <2>2 DEF ProfileInv, HasDefault
  <2> QED
    BY <1>2, <1>3, <1>6, <2>1, <2>3, <2>4
<1> QED
  BY <1>3, <1>4, <1>7, <1>8, <1>10, <1>11 DEF ProfileInv, DeactivatedFreesPhone, Moves

LEMMA RemoveStep == ASSUME ProfileInv, NEW r \in UserRequests, RemoveAddress(r) PROVE ProfileInv'
<1>1. CallTypes /\ call[r] \in Calls /\ call[r].at = "write" /\ call[r].ask.op = "remove"
  BY NotCalls DEF ProfileInv, CallTypes, RemoveAddress, NoCall, Returned
<1> DEFINE q == call[r].ask
<1>2. q \in [op : {"remove"}, id : AddressIds]
  BY <1>1, Requests DEF Calls
<1>3. /\ addresses' = Pulled(addresses, q.id)
      /\ call' = IF call[r].wasDefault /\ addresses' # <<>>
                 THEN [call EXCEPT ![r].ask.id = addresses'[1].id, ![r].at = "promote"]
                 ELSE [call EXCEPT ![r] = Returned]
      /\ UNCHANGED <<active, phone, unusedIds, userCrashes, mingled, unmarked, outrun>>
  BY DEF RemoveAddress, Return, marks
<1>4. addresses' \in Seq(Book) /\ Ids' = Ids \ {q.id} /\ Defaults' = Defaults \ {q.id}
  BY <1>1, <1>3, PulledIs, BookIs, BookIsThen DEF CallTypes
<1>5. /\ addresses' = <<>> <=> Ids' = {}
      /\ addresses' # <<>> => addresses'[1] \in Book /\ addresses'[1].id \in Ids'
  <2>1. addresses' = <<>> <=> Ids' = {}
    BY <1>4, NoAddress, BookIsThen
  <2>2. addresses' # <<>> => 1 \in DOMAIN addresses' /\ addresses'[1] \in Book
    BY <1>4
  <2>3. addresses' # <<>> => addresses'[1].id \in Ids'
    BY <2>2, BookIsThen DEF IdsIn
  <2> QED
    BY <2>1, <2>2, <2>3
<1>6. /\ Moves(r)
      /\ \/ call'[r] = Returned /\ (~call[r].wasDefault \/ Ids' = {})
         \/ /\ call'[r] \in Calls /\ call'[r].at = "promote" /\ call'[r].ask.op = "remove"
            /\ call'[r].ask.id \in Ids' /\ call[r].wasDefault
  <2>1. CASE ~(call[r].wasDefault /\ addresses' # <<>>)
    BY <1>1, <1>3, <1>5, <2>1 DEF CallTypes, Moves, Calls
  <2>2. CASE call[r].wasDefault /\ addresses' # <<>>
    <3>1. addresses'[1].id \in AddressIds /\ addresses'[1].id \in Ids'
      BY <1>5, <2>2 DEF Book
    <3>2. [q EXCEPT !.id = addresses'[1].id] \in UserRequest
      BY <1>2, <3>1 DEF UserRequest, AddressRequest
    <3>3. /\ call'[r] = [call[r] EXCEPT !.ask = [q EXCEPT !.id = addresses'[1].id], !.at = "promote"]
          /\ \A s \in UserRequests \ {r} : call'[s] = call[s]
      BY <1>1, <1>3, <2>2 DEF CallTypes, Calls
    <3>4. /\ call'[r] \in Calls /\ call'[r].at = "promote"
          /\ call'[r].ask = [q EXCEPT !.id = addresses'[1].id]
      BY <1>1, <3>2, <3>3 DEF Calls
    <3>5. call' \in [UserRequests -> Calls \union {NoCall, Returned}]
      BY <1>1, <1>3, <2>2, <3>3, <3>4 DEF CallTypes
    <3> QED
      <4>1. Moves(r)
        BY <1>3, <3>3, <3>5 DEF Moves
      <4>2. call'[r].ask.op = "remove" /\ call'[r].ask.id \in Ids' /\ call[r].wasDefault
        BY <1>2, <2>2, <3>1, <3>4
      <4> QED
        BY <3>4, <4>1, <4>2
  <2> QED
    BY <2>1, <2>2
<1>7. CallTypes'
  <2>1. \A s \in UserRequests : call'[s] \in Calls =>
          /\ call'[s].at = "deactivate" <=> call'[s].ask.op = "deactivate"
          /\ call'[s].at = "promote" => call'[s].ask.op = "remove"
    BY <1>1, <1>6, NotCalls DEF CallTypes, Moves
  <2> QED
    BY <1>1, <1>3, <1>4, <1>6, <2>1 DEF CallTypes, Moves
<1>8. Separate'
  BY <1>1, <1>6, NotCalls, SeparateStays
<1>9. FindsAgain(call[r]) /\ \A i \in Defaults : \A j \in Defaults : ~mingled => i = j
  BY <1>1 DEF ProfileInv, HasDefault
<1>10. (\A s \in UserRequests : call[s] \in Calls => FindsAgain(call[s]))'
  <2>1. call'[r] \in Calls => FindsAgain(call[r])'
    <3> SUFFICES ASSUME call'[r] \in Calls PROVE FindsAgain(call[r])'
      OBVIOUS
    <3>1. call'[r].at = "promote" /\ call'[r].ask.op = "remove" /\ call'[r].ask.id \in Ids' /\ call[r].wasDefault
      BY <1>6, NotCalls
    <3>2. ~mingled => q.id \in Defaults
      BY <1>1, <1>9, <3>1 DEF FindsAgain
    <3>3. ~mingled => Defaults' = {}
      BY <1>4, <1>9, <3>2
    <3> QED
      BY <1>3, <3>1, <3>3 DEF FindsAgain
  <2>2. \A s \in UserRequests \ {r} : call'[s] \in Calls => FindsAgain(call[s])'
    BY <1>1, <1>3, <1>6, WithRemoval DEF Moves
  <2> QED
    BY <2>1, <2>2
<1>11. HasDefault'
  <2> SUFFICES ASSUME ~mingled
               PROVE  /\ \A j, k \in Defaults' : j = k
                      /\ Defaults' # {} \/ Ids' = {} \/ unmarked' \/ userCrashes' > 0 \/ Promoting'
    BY <1>3 DEF HasDefault
  <2>1. ~Promoting
    BY <1>1, NoPromotion DEF Promoting, Changes
  <2>2. Defaults # {} \/ Ids = {} \/ unmarked \/ userCrashes > 0
    BY <2>1 DEF ProfileInv, HasDefault
  <2>3. CASE call'[r] = Returned
    <3>1. Ids' = {} \/ q.id \notin Defaults
      BY <1>1, <1>6, <1>9, <2>3, NotCalls DEF FindsAgain
    <3> QED
      BY <1>3, <1>4, <1>9, <2>2, <3>1
  <2>4. CASE call'[r] # Returned
    <3>1. Promoting'
      BY <1>6, <2>4 DEF Promoting
    <3> QED
      BY <1>4, <1>9, <3>1
  <2> QED
    BY <2>3, <2>4
<1> QED
  BY <1>3, <1>7, <1>8, <1>10, <1>11 DEF ProfileInv, DeactivatedFreesPhone

LEMMA PromoteStep == ASSUME ProfileInv, NEW r \in UserRequests, PromoteFirst(r) PROVE ProfileInv'
<1>1. CallTypes /\ call[r] \in Calls /\ call[r].at = "promote" /\ call[r].ask.op = "remove"
  BY NotCalls DEF ProfileInv, CallTypes, PromoteFirst, NoCall, Returned
<1> DEFINE i == call[r].ask.id
<1>2. i \in AddressIds
  BY <1>1, Requests DEF Calls
<1>3. /\ addresses' = Mark(addresses, i, TRUE) /\ call' = [call EXCEPT ![r] = Returned]
      /\ UNCHANGED <<active, phone, unusedIds, userCrashes, mingled, unmarked, outrun>>
  BY DEF PromoteFirst, Return, marks
<1>4. Moves(r) /\ call'[r] = Returned
  BY <1>1, <1>3 DEF CallTypes, Moves
<1> HIDE DEF i
<1>5. addresses' \in Seq(Book) /\ Ids' = Ids /\ Defaults' = (Defaults \ {i}) \union ({i} \intersect Ids)
  BY <1>1, <1>2, <1>3, MarkIs, BookIs, BookIsThen DEF CallTypes
<1>6. CallTypes'
  BY <1>1, <1>3, <1>4, <1>5, NotCalls DEF CallTypes, Moves
<1>7. Separate'
  BY <1>4, NotCalls, SeparateStays
<1>8. FindsAgain(call[r])
  BY <1>1 DEF ProfileInv
<1>9. (\A s \in UserRequests : call[s] \in Calls => FindsAgain(call[s]))'
  BY <1>1, <1>3, <1>4, NotCalls, WithRemoval DEF Moves
<1>10. HasDefault'
  <2>1. ~mingled => Defaults = {} /\ i \in Ids
    BY <1>1, <1>8 DEF FindsAgain, i
  <2> QED
    BY <1>3, <1>5, <2>1 DEF HasDefault
<1> QED
  BY <1>3, <1>6, <1>7, <1>9, <1>10 DEF ProfileInv, DeactivatedFreesPhone

LEMMA AccountSteps == ASSUME ProfileInv, NEW r \in UserRequests, UpdateProfile(r) \/ DeleteAccount(r) PROVE ProfileInv'
<1>1. /\ CallTypes /\ call[r] \in Calls
      /\ UpdateProfile(r) => call[r].at = "write" /\ call[r].ask.op = "profile"
      /\ DeleteAccount(r) => call[r].at = "deactivate" /\ call[r].ask.op = "deactivate"
  BY NotCalls DEF ProfileInv, CallTypes, UpdateProfile, DeleteAccount, NoCall, Returned
<1>2. /\ call' = [call EXCEPT ![r] = Returned]
      /\ UNCHANGED <<addresses, unusedIds, userCrashes, mingled, unmarked, outrun>>
  BY DEF UpdateProfile, DeleteAccount, Return, marks
<1>3. Moves(r) /\ call'[r] = Returned
  BY <1>1, <1>2 DEF CallTypes, Moves
<1>4. UNCHANGED <<Ids, Defaults>>
  BY <1>2 DEF Ids, Defaults, IsDefault
<1>5. CallTypes'
  BY <1>1, <1>2, <1>3, NotCalls DEF CallTypes, Moves
<1>6. Separate'
  BY <1>3, NotCalls, SeparateStays
<1>7. ASSUME NEW s \in UserRequests \ {r}, call[s] \in Calls PROVE FindsAgain(call[s])'
  <2>1. FindsAgain(call[s]) /\ call'[s] = call[s]
    BY <1>3, <1>7 DEF ProfileInv, Moves
  <2>2. ~outrun /\ call[s].ask.op = "profile" => ~DeleteAccount(r)
    BY <1>1, <1>7 DEF ProfileInv, Separate
  <2>3. ~DeleteAccount(r) => active' = active
    BY DEF UpdateProfile
  <2> QED
    BY <1>2, <1>4, <2>1, <2>2, <2>3 DEF FindsAgain
<1>8. (\A s \in UserRequests : call[s] \in Calls => FindsAgain(call[s]))'
  BY <1>3, <1>7, NotCalls DEF Moves
<1>9. HasDefault'
  <2>1. Promoting => Promoting'
    BY <1>1, <1>3 DEF Promoting, Moves
  <2> QED
    BY <1>2, <1>4, <2>1 DEF ProfileInv, HasDefault
<1>10. DeactivatedFreesPhone'
  <2>1. CASE DeleteAccount(r)
    BY <2>1 DEF DeleteAccount, DeactivatedFreesPhone
  <2>2. CASE UpdateProfile(r)
    <3>1. ~outrun => active
      BY <1>1, <2>2 DEF ProfileInv, FindsAgain
    <3> QED
      BY <1>2, <2>2, <3>1 DEF UpdateProfile, DeactivatedFreesPhone
  <2> QED
    BY <2>1, <2>2
<1> QED
  BY <1>5, <1>6, <1>8, <1>9, <1>10 DEF ProfileInv

LEMMA ProfileInvNext == ProfileInv /\ [UsersNext]_userVars => ProfileInv'
<1> SUFFICES ASSUME ProfileInv, [UsersNext]_userVars PROVE ProfileInv'
  OBVIOUS
<1>1. CASE CallNext
  BY <1>1, BeginStep, ProfileReadStep, AddStep, UpdateStep, RemoveStep, PromoteStep, AccountSteps, GiveUpStep
     DEF CallNext, CallStep
<1>2. CASE DeviceNext \/ UNCHANGED userVars
  <2>1. UNCHANGED <<active, phone, addresses, unusedIds, call, mingled, unmarked, outrun, userCrashes>>
    BY <1>2 DEF DeviceNext, RegisterDevice, RemoveDevice, userVars, marks
  <2>2. UNCHANGED <<Ids, Defaults, Promoting>>
    BY <2>1 DEF Ids, Defaults, IsDefault, Promoting
  <2> QED
    BY <2>1, <2>2 DEF ProfileInv, CallTypes, Separate, FindsAgain, HasDefault, DeactivatedFreesPhone
<1> QED
  BY <1>1, <1>2 DEF UsersNext

LEMMA BooksHaveADefault == ProfileInv => OneDefaultAddress /\ DeactivatedFreesPhone
<1> SUFFICES ASSUME ProfileInv PROVE OneDefaultAddress
  BY DEF ProfileInv
<1>1. \A r \in UserRequests : call[r] \in Calls => Open(r)
  BY OpenIs DEF ProfileInv
<1>2. Promoting => \E r \in UserRequests : Open(r) /\ call[r].at = "promote"
  BY <1>1 DEF Promoting
<1>3. addresses = <<>> <=> Ids = {}
  BY NoAddress, BookIs DEF ProfileInv, CallTypes
<1>4. ASSUME \A i, j \in Defaults : i = j PROVE Cardinality(Defaults) <= 1
  <2>1. CASE Defaults = {}
    <3>1. Cardinality(Defaults) = 0
      BY <2>1, FS_EmptySet
    <3> QED
      BY <3>1
  <2>2. CASE Defaults # {}
    <3>1. PICK i : i \in Defaults
      BY <2>2
    <3>2. Defaults = {i}
      BY <1>4, <3>1
    <3>3. Cardinality({i}) = 1
      BY FS_Singleton, Zenon
    <3>4. Cardinality(Defaults) = 1
      BY <3>2, <3>3
    <3> QED
      BY <3>4
  <2> QED
    BY <2>1, <2>2
<1> QED
  BY <1>2, <1>3, <1>4 DEF ProfileInv, HasDefault, OneDefaultAddress

\* An address book that is not empty has one default address, and a deactivated
\* account holds no phone number, but for the exceptions the properties name
\* (addAddress, updateAddress, removeAddress and deleteAccount of users.service.ts).
THEOREM ProfilesAlwaysAgree == PeopleSpec => []ProfilesAgree
<1>1. PeopleInit => ProfileInv
  BY InitProfile DEF PeopleInit
<1>2. ProfileInv /\ [PeopleNext]_peopleVars => ProfileInv'
  <2>1. ASSUME [PeopleNext]_peopleVars PROVE [UsersNext]_userVars
    BY <2>1 DEF PeopleNext, peopleVars, ProfileNext, UsersNext
  <2> QED
    BY <2>1, ProfileInvNext
<1>3. ProfileInv => ProfilesAgree
  BY BooksHaveADefault DEF ProfilesAgree
<1> QED
  BY <1>1, <1>2, <1>3, PTL DEF PeopleSpec

-----------------------------------------------------------------------------
(* Types.  The invariants above hold most of each type invariant; what       *)
(* follows adds the rest: that an expiry is only of a count that is there,   *)
(* that the ids of a book and the devices of a user differ, that an audit    *)
(* log has no more entries than requests have closed.  PeopleTypesCorrect    *)
(* puts them together.                                                       *)

CodeTypes ==
  /\ registered \in BOOLEAN /\ verified \in BOOLEAN
  /\ password \in CodeRequests \union {Nobody}
  /\ cooldown \subseteq Kinds
  /\ guessesTTL \subseteq Identifiers /\ lockout \subseteq Identifiers
  /\ \A i \in guessesTTL : guesses[i] > 0
  /\ reused \subseteq accepted

LEMMA InitCodeTypes == CodesInit => CodeTypes
BY DEF CodesInit, CodeTypes

LEMMA CodeTypesNext == OnceInv /\ CodeTypes /\ [CodesNext]_codeVars => CodeTypes'
<1> SUFFICES ASSUME OnceInv, CodeTypes, [CodesNext]_codeVars PROVE CodeTypes'
  OBVIOUS
<1>1. \A r \in CodeRequests :
        /\ ask[r].at = "setCooldown" => ask[r].kind \in Kinds
        /\ ask[r].at \in {"delGuesses", "incr", "expire", "lock", "restart"} => Id(r) \in Identifiers
  BY DEF OnceInv, AskTypes, Guessing, Others, Id, Identifiers
<1>2. guesses \in [Identifiers -> Nat]
  BY DEF OnceInv, AskTypes
<1>3. ASSUME NEW r \in CodeRequests,
             \/ FindAccount(r) \/ CreateAccount(r) \/ UseCode(r)
             \/ \E k \in Kinds : AskForCode(r, k)
             \/ \E k \in Kinds, n \in 0..MaxCodes : Guess(r, k, n)
             \/ CheckCooldown(r) \/ SetCode(r) \/ CheckLockout(r) \/ DelCode(r)
      PROVE  CodeTypes'
  BY <1>3 DEF CodeTypes, FindAccount, CreateAccount, UseCode, AskForCode, Guess, CheckCooldown, SetCode,
     CheckLockout, DelCode, account, limits, told
<1>4. ASSUME NEW r \in CodeRequests, SetCooldown(r) \/ GetCode(r) \/ CodeRequestCrashes(r)
      PROVE  CodeTypes'
  BY <1>1, <1>4 DEF CodeTypes, SetCooldown, GetCode, CodeRequestCrashes, account, limits, told
<1>5. ASSUME NEW r \in CodeRequests, DelGuesses(r) \/ DelLockout(r) \/ IncrGuesses(r) \/ ExpireGuesses(r)
                                       \/ SetLockout(r) \/ RestartGuesses(r)
      PROVE  CodeTypes'
  BY <1>1, <1>2, <1>5 DEF CodeTypes, DelGuesses, DelLockout, IncrGuesses, ExpireGuesses, SetLockout,
     RestartGuesses, ForgetGuesses, account, told
<1>6. ASSUME NEW k \in Kinds, CodeExpires(k) \/ CooldownExpires(k)
      PROVE  CodeTypes'
  BY <1>6 DEF CodeTypes, CodeExpires, CooldownExpires, account, limits, told
<1>7. ASSUME NEW i \in Identifiers, GuessesExpire(i) \/ LockoutExpires(i)
      PROVE  CodeTypes'
  BY <1>2, <1>7 DEF CodeTypes, GuessesExpire, LockoutExpires, ForgetGuesses, account, told
<1>8. CASE UNCHANGED codeVars
  BY <1>8 DEF codeVars, CodeTypes
<1> QED
  BY <1>3, <1>4, <1>5, <1>6, <1>7, <1>8 DEF CodesNext, CodeStep

LEMMA CodesAreTyped == OnceInv /\ CodeTypes => CodesTypeOK
BY DEF OnceInv, AskTypes, CodesAreIssued, CodeTypes, CodesTypeOK

LoginTypes ==
  /\ expiring \subseteq {c \in Counters : failures[c] > 0}
  /\ loginCrashes \in 0..MaxLoginCrashes

LEMMA InitLoginTypes == LoginsInit => LoginTypes
BY LoginBoundAssumption DEF LoginsInit, LoginTypes

LEMMA LoginTypesNext == LoginInv /\ LoginTypes /\ [LoginsNext]_loginVars => LoginTypes'
<1> SUFFICES ASSUME LoginInv, LoginTypes, [LoginsNext]_loginVars PROVE LoginTypes'
  OBVIOUS
<1>1. failures \in [Counters -> Nat]
  BY DEF LoginInv
<1>2. ASSUME NEW a \in Attempts, (\E ip \in Addresses : ReadLimits(a, ip)) \/ Compare(a) \/ EndAttempt(a) \/ LoginCrashes(a)
      PROVE  LoginTypes'
  BY <1>2, LoginBoundAssumption DEF LoginTypes, ReadLimits, Compare, EndAttempt, LoginCrashes
<1>3. ASSUME NEW a \in Attempts, NEW c \in Counters, Forget(a, c) \/ Count(a, c) \/ SetExpiry(a, c)
      PROVE  LoginTypes'
  BY <1>1, <1>3 DEF LoginTypes, Forget, Count, SetExpiry
<1>4. ASSUME NEW c \in Counters, CounterExpires(c)
      PROVE  LoginTypes'
  BY <1>1, <1>4 DEF LoginTypes, CounterExpires
<1>5. CASE UNCHANGED loginVars
  BY <1>5 DEF loginVars, LoginTypes
<1> QED
  BY <1>2, <1>3, <1>4, <1>5 DEF LoginsNext, AttemptStep

LEMMA LoginsAreTyped == LoginInv /\ LoginTypes => LoginsTypeOK
BY DEF LoginInv, LoginTypes, LoginsTypeOK

\* As many elements as places, where each is at one place.
LEMMA CountOnce ==
  ASSUME NEW n \in Nat, NEW S, NEW f \in [1 .. n -> S], IsInjective(f), \A x \in S : \E a \in 1 .. n : f[a] = x
  PROVE  IsFiniteSet(S) /\ Cardinality(S) = n
<1>1. f \in Bijection(1 .. n, S)
  BY DEF Bijection, Injection, Surjection
<1>2. ExistsBijection(1 .. n, S)
  BY <1>1, Zenon DEF ExistsBijection
<1> QED
  BY <1>2, FS_CountingElements, FS_NatBijection

\* Each id is at one place of the book.
Distinct(xs) == \A m, n \in DOMAIN xs : xs[m].id = xs[n].id => m = n

LEMMA DistinctStays ==
  ASSUME NEW xs \in Seq(Book), Distinct(xs), NEW i \in AddressIds, NEW d \in BOOLEAN
  PROVE  /\ Distinct(Unset(xs)) /\ Distinct(Mark(xs, i, d)) /\ Distinct(Pulled(xs, i))
         /\ i \notin IdsIn(xs) => Distinct(Added(xs, i, d))
<1>1. Unset(xs) \in Seq(Book) /\ Distinct(Unset(xs)) /\ IdsIn(Unset(xs)) = IdsIn(xs)
  <2>1. DOMAIN Unset(xs) = DOMAIN xs /\ \A n \in DOMAIN xs : xs[n] \in Book /\ Unset(xs)[n] = [xs[n] EXCEPT !.isDefault = FALSE]
    BY DEF Unset
  <2>2. DOMAIN Unset(xs) = DOMAIN xs /\ \A n \in DOMAIN xs : Unset(xs)[n].id = xs[n].id
    BY <2>1 DEF Book
  <2> QED
    BY <2>2, UnsetIs DEF Distinct
<1>2. Distinct(Mark(xs, i, d))
  <2>1. DOMAIN Mark(xs, i, d) = DOMAIN xs /\ \A n \in DOMAIN xs : Mark(xs, i, d)[n].id = xs[n].id
    BY DEF Mark, Book
  <2> QED
    BY <2>1 DEF Distinct
<1>3. Distinct(Pulled(xs, i))
  <2>1. PICK out : Pulled(xs, i) = Dropping(xs, out)
    BY DEF Pulled
  <2>2. PICK h : Placed(Pulled(xs, i), xs, out, Len(xs), h)
    BY <2>1, DroppingIs
  <2> QED
    BY <2>2 DEF Placed, Distinct
<1>4. ASSUME i \notin IdsIn(xs) PROVE Distinct(Added(xs, i, d))
  <2>1. PICK ys \in Seq(Book) : ys = (IF d THEN Unset(xs) ELSE xs)
    BY <1>1
  <2>2. Distinct(ys) /\ i \notin IdsIn(ys)
    BY <1>1, <1>4, <2>1
  <2>3. PICK zs : zs = Append(ys, [id |-> i, isDefault |-> d])
    OBVIOUS
  <2>4. /\ DOMAIN ys = 1 .. Len(ys) /\ DOMAIN zs = 1 .. Len(ys) + 1 /\ Len(ys) \in Nat
        /\ \A n \in 1 .. Len(ys) : zs[n] = ys[n]
        /\ zs[Len(ys) + 1].id = i
    BY <2>3
  <2>5. Distinct(zs)
    BY <2>2, <2>4 DEF Distinct, IdsIn
  <2> QED
    BY <2>1, <2>3, <2>5 DEF Added
<1> QED
  BY <1>1, <1>2, <1>3, <1>4

UserTypes ==
  /\ active \in BOOLEAN /\ phone \in Phones \union {Deleted}
  /\ Distinct(addresses) /\ IdsIn(addresses) \cap unusedIds = {}
  /\ devices \in Seq(Devices) /\ IsInjective(devices) /\ Len(devices) <= DeviceLimit

LEMMA InitUserTypes == UsersInit => UserTypes
BY PhonesAssumption, DeviceLimitAssumption DEF UsersInit, UserTypes, Distinct, IdsIn, IsInjective

LEMMA BookTypes ==
  ASSUME ProfileInv, UserTypes, NEW r \in UserRequests,
         AddAddress(r) \/ UpdateAddress(r) \/ RemoveAddress(r) \/ PromoteFirst(r)
  PROVE  UserTypes'
<1>1. CallTypes /\ call[r] \in Calls
  <2>1. call[r].at \in {"write", "promote"}
    BY DEF AddAddress, UpdateAddress, RemoveAddress, PromoteFirst
  <2> QED
    BY <2>1 DEF ProfileInv, CallTypes, NoCall, Returned
<1>2. /\ call[r].ask.op \in {"update", "remove"} => call[r].ask.id \in AddressIds
      /\ call[r].ask.op = "add" => call[r].ask.asked \in {"yes", "no"}
      /\ call[r].ask.op = "update" => call[r].ask.asked \in {"yes", "no", "keep"}
  BY <1>1, Requests DEF Calls
<1>3. addresses \in Seq(Book) /\ unusedIds \subseteq AddressIds
  BY <1>1 DEF CallTypes
<1>4. ASSUME UNCHANGED <<active, phone, devices>>, Distinct(addresses'), IdsIn(addresses') \cap unusedIds' = {}
      PROVE  UserTypes'
  BY <1>4 DEF UserTypes
<1>5. CASE AddAddress(r)
  <2>1. PICK i \in unusedIds, d \in BOOLEAN : addresses' = Added(addresses, i, d) /\ unusedIds' = unusedIds \ {i}
    <3>1. (call[r].ask.asked = "yes" \/ call[r].first) \in BOOLEAN
      OBVIOUS
    <3> QED
      BY <1>5, <3>1 DEF AddAddress
  <2>2. i \in AddressIds /\ i \notin IdsIn(addresses)
    BY <1>3, <2>1 DEF UserTypes
  <2>3. Distinct(addresses') /\ IdsIn(addresses') = IdsIn(addresses) \union {i}
    BY <1>3, <2>1, <2>2, DistinctStays, AddedIs DEF UserTypes
  <2> QED
    BY <1>4, <1>5, <2>1, <2>3 DEF AddAddress, UserTypes
<1>6. CASE UpdateAddress(r)
  <2> DEFINE q == call[r].ask
  <2>1. q.op = "update"
    BY <1>6 DEF UpdateAddress
  <2>2. q.id \in AddressIds /\ q.asked \in {"yes", "no", "keep"}
    BY <1>2, <2>1
  <2>3. addresses' \in {Mark(Unset(addresses), q.id, TRUE), Mark(addresses, q.id, FALSE), addresses}
    BY <1>6, <2>2 DEF UpdateAddress
  <2> HIDE DEF q
  <2>4. /\ Unset(addresses) \in Seq(Book) /\ Distinct(Unset(addresses))
        /\ IdsIn(Unset(addresses)) = IdsIn(addresses)
    BY <1>3, <2>2, UnsetIs, DistinctStays DEF UserTypes
  <2>5. \A xs \in Seq(Book), d \in BOOLEAN : Distinct(xs) =>
          Distinct(Mark(xs, q.id, d)) /\ IdsIn(Mark(xs, q.id, d)) = IdsIn(xs)
    BY <2>2, MarkIs, DistinctStays
  <2>6. Distinct(addresses') /\ IdsIn(addresses') = IdsIn(addresses)
    BY <1>3, <2>3, <2>4, <2>5 DEF UserTypes
  <2> QED
    BY <1>4, <1>6, <2>6 DEF UpdateAddress, UserTypes
<1>7. CASE RemoveAddress(r)
  <2>1. addresses' = Pulled(addresses, call[r].ask.id) /\ call[r].ask.id \in AddressIds
    BY <1>2, <1>7 DEF RemoveAddress
  <2>2. Distinct(addresses') /\ IdsIn(addresses') \subseteq IdsIn(addresses)
    BY <1>3, <2>1, PulledIs, DistinctStays DEF UserTypes
  <2> QED
    BY <1>4, <1>7, <2>2 DEF RemoveAddress, UserTypes
<1>8. CASE PromoteFirst(r)
  <2>1. call[r].ask.op = "remove"
    BY <1>1, <1>8 DEF PromoteFirst, CallTypes
  <2>2. addresses' = Mark(addresses, call[r].ask.id, TRUE) /\ call[r].ask.id \in AddressIds
    BY <1>2, <1>8, <2>1 DEF PromoteFirst
  <2>3. Distinct(addresses') /\ IdsIn(addresses') = IdsIn(addresses)
    BY <1>3, <2>2, MarkIs, DistinctStays DEF UserTypes
  <2> QED
    BY <1>4, <1>8, <2>3 DEF PromoteFirst, UserTypes
<1> QED
  BY <1>5, <1>6, <1>7, <1>8

\* The last element is a device that is nowhere else, and what goes is at the front.
LEMMA RegisterTypes == ASSUME UserTypes, NEW d \in Devices, RegisterDevice(d) PROVE UserTypes'
<1>1. PICK t : t = Without(d)
  OBVIOUS
<1>2. t \in Seq(Devices) /\ d \notin ToSet(t) /\ IsInjective(t)
  BY <1>1, DroppingKeeps DEF Without, UserTypes
<1>3. PICK ds : ds = Append(t, d)
  OBVIOUS
<1>4. /\ ds \in Seq(Devices) /\ Len(ds) = Len(t) + 1 /\ Len(t) \in Nat /\ ds[Len(ds)] = d
      /\ DOMAIN ds = 1 .. Len(ds) /\ DOMAIN t = 1 .. Len(t) /\ \A n \in 1 .. Len(t) : ds[n] = t[n]
  BY <1>2, <1>3
<1>5. IsInjective(ds)
  BY <1>2, <1>4 DEF IsInjective, ToSet
<1>6. PICK k : k = (IF Len(ds) > DeviceLimit THEN Len(ds) - DeviceLimit + 1 ELSE 1)
  OBVIOUS
<1>7. k \in 1 .. Len(ds) /\ Len(ds) - k + 1 <= DeviceLimit
  BY <1>4, <1>6, DeviceLimitAssumption
<1>8. devices' = SubSeq(ds, k, Len(ds)) /\ UNCHANGED <<active, phone, addresses, unusedIds>>
  BY <1>1, <1>3, <1>6 DEF RegisterDevice
<1>9. /\ devices' \in Seq(Devices) /\ Len(devices') = Len(ds) - k + 1 /\ DOMAIN devices' = 1 .. Len(ds) - k + 1
      /\ \A n \in 1 .. Len(ds) - k + 1 : devices'[n] = ds[k + n - 1]
  BY <1>4, <1>7, <1>8
<1>10. IsInjective(devices')
  <2> SUFFICES ASSUME NEW a \in 1 .. Len(ds) - k + 1, NEW b \in 1 .. Len(ds) - k + 1, devices'[a] = devices'[b]
               PROVE  a = b
    BY <1>9 DEF IsInjective
  <2>1. k + a - 1 \in DOMAIN ds /\ k + b - 1 \in DOMAIN ds /\ ds[k + a - 1] = ds[k + b - 1]
    BY <1>4, <1>7, <1>9
  <2>2. k + a - 1 = k + b - 1
    BY <1>5, <2>1 DEF IsInjective
  <2> QED
    BY <1>4, <1>7, <2>2
<1> QED
  BY <1>7, <1>8, <1>9, <1>10 DEF UserTypes

LEMMA RemoveDeviceTypes == ASSUME UserTypes, NEW d \in Devices, RemoveDevice(d) PROVE UserTypes'
<1>1. devices' = Dropping(devices, {d}) /\ UNCHANGED <<active, phone, addresses, unusedIds>>
  BY DEF RemoveDevice, Without
<1>2. PICK h : Placed(devices', devices, {d}, Len(devices), h)
  BY <1>1, DroppingIs DEF UserTypes
<1>3. devices' \in Seq(Devices) /\ IsInjective(devices')
  BY <1>1, DroppingKeeps DEF UserTypes
<1>4. Len(devices') <= Len(devices)
  <2>1. h \in [1 .. Len(devices') -> 1 .. Len(devices)] /\ \A a, b \in 1 .. Len(devices') : h[a] = h[b] => a = b
    BY <1>2, <1>3 DEF Placed
  <2>2. PICK m \in Nat, n \in Nat : m = Len(devices') /\ n = Len(devices)
    BY <1>3 DEF UserTypes
  <2>3. h \in Injection(1 .. m, 1 .. n)
    BY <2>1, <2>2 DEF Injection, IsInjective
  <2>4. /\ IsFiniteSet(1 .. n) /\ Cardinality(1 .. n) = n
        /\ Cardinality(1 .. m) = m
    BY FS_Interval
  <2>5. Cardinality(1 .. m) <= Cardinality(1 .. n)
    BY <2>3, <2>4, FS_Injection
  <2> QED
    BY <2>2, <2>4, <2>5
<1> QED
  BY <1>1, <1>3, <1>4, DeviceLimitAssumption DEF UserTypes

LEMMA UserTypesNext == ProfileInv /\ UserTypes /\ [UsersNext]_userVars => UserTypes'
<1> SUFFICES ASSUME ProfileInv, UserTypes, [UsersNext]_userVars PROVE UserTypes'
  OBVIOUS
<1>1. ASSUME NEW r \in UserRequests, (\E q \in UserRequest : Begin(r, q)) \/ GetProfile(r) \/ GiveUp(r)
      PROVE  UserTypes'
  BY <1>1 DEF Begin, GetProfile, GiveUp, profile, UserTypes, Distinct, IdsIn
<1>2. ASSUME NEW r \in UserRequests, UpdateProfile(r) \/ DeleteAccount(r)
      PROVE  UserTypes'
  <2>1. UpdateProfile(r) => call[r].ask.phone \in Phones
    BY Requests, NotCalls DEF ProfileInv, CallTypes, UpdateProfile, Calls, NoCall, Returned
  <2> QED
    BY <1>2, <2>1 DEF UpdateProfile, DeleteAccount, UserTypes, Distinct, IdsIn
<1>3. CASE UNCHANGED userVars
  BY <1>3 DEF userVars, UserTypes, Distinct, IdsIn
<1> QED
  BY <1>1, <1>2, <1>3, BookTypes, RegisterTypes, RemoveDeviceTypes DEF UsersNext, CallNext, CallStep, DeviceNext

LEMMA UsersAreTyped == ProfileInv /\ UserTypes => UsersTypeOK
<1> SUFFICES ASSUME ProfileInv, UserTypes PROVE UsersTypeOK
  OBVIOUS
<1>1. addresses \in Seq(Book) /\ Len(addresses) \in Nat /\ DOMAIN addresses = 1 .. Len(addresses)
  BY DEF ProfileInv, CallTypes
<1>2. addresses \in Seq([id : AddressIds \ unusedIds, isDefault : BOOLEAN])
  <2>1. ASSUME NEW n \in 1 .. Len(addresses)
        PROVE  addresses[n] \in [id : AddressIds \ unusedIds, isDefault : BOOLEAN]
    <3>1. addresses[n] \in Book /\ addresses[n].id \in IdsIn(addresses)
      BY <1>1 DEF IdsIn
    <3>2. addresses[n].id \notin unusedIds
      BY <3>1 DEF UserTypes
    <3> QED
      BY <3>1, <3>2 DEF Book
  <2>2. addresses = [n \in 1 .. Len(addresses) |-> addresses[n]]
    BY <1>1
  <2>3. [n \in 1 .. Len(addresses) |-> addresses[n]] \in Seq([id : AddressIds \ unusedIds, isDefault : BOOLEAN])
    BY <1>1, <2>1
  <2> QED
    BY <2>2, <2>3
<1>3. Cardinality(Ids) = Len(addresses)
  <2>1. PICK f : f = [n \in 1 .. Len(addresses) |-> addresses[n].id]
    OBVIOUS
  <2>2. f \in [1 .. Len(addresses) -> Ids] /\ IsInjective(f) /\ \A x \in Ids : \E n \in 1 .. Len(addresses) : f[n] = x
    BY <1>1, <2>1 DEF UserTypes, Distinct, IsInjective, Ids
  <2> QED
    BY <1>1, <2>2, CountOnce
<1>4. Len(devices) = Cardinality(ToSet(devices))
  <2>1. Len(devices) \in Nat /\ DOMAIN devices = 1 .. Len(devices)
    BY DEF UserTypes
  <2>2. devices \in [1 .. Len(devices) -> ToSet(devices)]
    BY <2>1 DEF UserTypes, ToSet
  <2>3. \A x \in ToSet(devices) : \E n \in 1 .. Len(devices) : devices[n] = x
    BY <2>1 DEF ToSet
  <2> QED
    BY <2>1, <2>2, <2>3, CountOnce DEF UserTypes
<1> QED
  BY <1>2, <1>3, <1>4 DEF UserTypes, UsersTypeOK

\* An entry is written by a request that closes, and an id that is free is in no
\* request and in no document.
ClosedOnes == {r \in AdminRequests : admin[r] = Closed}
AdminTypes ==
  /\ banner \in [Banners -> AdminRequests \union {Absent}]
  /\ \A b \in freeBanners : b \in Banners /\ banner[b] = Absent
  /\ \A r \in AdminRequests : admin[r] \in AdminWork => admin[r].ask.entity \notin freeBanners
  /\ Len(audit) <= Cardinality(ClosedOnes)

LEMMA InitAdminTypes == AdminInit => AdminTypes
<1> SUFFICES ASSUME AdminInit PROVE AdminTypes
  OBVIOUS
<1>1. ClosedOnes = {} /\ \A r \in AdminRequests : admin[r] \notin AdminWork
  BY WorkIsNotRest DEF AdminInit, ClosedOnes
<1> QED
  BY <1>1, FS_EmptySet DEF AdminInit, AdminTypes

\* A request at work goes on with what it was asked for, or closes.
LEMMA ClosedGrow ==
  ASSUME AuditTypes, NEW r \in AdminRequests, admin[r] # Closed, NEW d \in AdminWork \union {Closed},
         admin' = [admin EXCEPT ![r] = d]
  PROVE  /\ Cardinality(ClosedOnes) \in Nat
         /\ Cardinality(ClosedOnes') = IF d = Closed THEN Cardinality(ClosedOnes) + 1 ELSE Cardinality(ClosedOnes)
<1>1. IsFiniteSet(ClosedOnes) /\ r \notin ClosedOnes
  BY AdminRequestsAssumption, FS_Subset DEF ClosedOnes
<1>2. ClosedOnes' = IF d = Closed THEN ClosedOnes \union {r} ELSE ClosedOnes
  BY DEF AuditTypes, ClosedOnes
<1> QED
  BY <1>1, <1>2, FS_AddElement, FS_CardinalityType

LEMMA GoesOnTyped ==
  ASSUME AuditTypes, AdminTypes, NEW r \in AdminRequests, admin[r] \in AdminWork,
         NEW d \in AdminWork \union {Closed}, admin' = [admin EXCEPT ![r] = d],
         d \in AdminWork => d.ask = admin[r].ask,
         audit' = audit \/ (d = Closed /\ \E e : audit' = Append(audit, e)),
         UNCHANGED freeBanners, banner' \in [Banners -> AdminRequests \union {Absent}],
         \A b \in freeBanners : banner'[b] = banner[b]
  PROVE  AdminTypes'
<1>1. /\ Cardinality(ClosedOnes) \in Nat
      /\ Cardinality(ClosedOnes') = IF d = Closed THEN Cardinality(ClosedOnes) + 1 ELSE Cardinality(ClosedOnes)
  BY WorkIsNotRest, ClosedGrow
<1>2. audit \in Seq(Entry) /\ Len(audit) <= Cardinality(ClosedOnes)
  BY DEF AuditTypes, AdminTypes
<1>3. Len(audit') = Len(audit) \/ (d = Closed /\ Len(audit') = Len(audit) + 1)
  BY <1>2
<1>4. Len(audit') <= Cardinality(ClosedOnes')
  BY <1>1, <1>2, <1>3
<1>5. \A s \in AdminRequests : admin'[s] \in AdminWork => admin'[s].ask.entity \notin freeBanners
  BY DEF AuditTypes, AdminTypes
<1> QED
  BY <1>4, <1>5 DEF AdminTypes

LEMMA AdminTypesNext == AuditInv /\ AdminTypes /\ [AdminNext]_adminVars => AdminTypes'
<1> SUFFICES ASSUME AuditInv, AdminTypes, [AdminNext]_adminVars PROVE AdminTypes'
  OBVIOUS
<1>1. AuditTypes
  BY DEF AuditInv
<1>2. CASE UNCHANGED adminVars
  BY <1>2 DEF adminVars, AdminTypes, ClosedOnes
<1>3. ASSUME NEW r \in AdminRequests, NEW q \in AdminRequest, Order(r, q)
      PROVE  AdminTypes'
  <2> DEFINE d == [at |-> IF q.action = "CREATE_BANNER" THEN "write" ELSE "read", ask |-> q, of |-> Absent]
  <2>1. d \in AdminWork /\ d.ask = q
    BY DEF AdminWork
  <2>2. /\ admin[r] = Pending /\ admin' = [admin EXCEPT ![r] = d] /\ freeBanners' = freeBanners \ {q.entity}
        /\ UNCHANGED <<banner, audit>>
    BY <1>3 DEF Order
  <2> HIDE DEF d
  <2>3. Cardinality(ClosedOnes') = Cardinality(ClosedOnes)
    BY <1>1, <2>1, <2>2, WorkIsNotRest, ClosedGrow
  <2>4. \A s \in AdminRequests : admin'[s] \in AdminWork => admin'[s].ask.entity \notin freeBanners'
    BY <1>1, <2>1, <2>2 DEF AuditTypes, AdminTypes
  <2> QED
    BY <2>2, <2>3, <2>4 DEF AdminTypes
<1>4. ASSUME NEW r \in AdminRequests,
             \/ FindStaff(r) \/ FindBanner(r) \/ FindSettings(r) \/ CreateSettings(r)
             \/ WriteStaff(r) \/ DeleteStaff(r) \/ WriteBanner(r) \/ WriteSettings(r)
             \/ CreateAuditLog(r) \/ AdminCrash(r)
      PROVE  AdminTypes'
  <2>1. admin[r] \in AdminWork
    <3>1. AtWork(r) \/ admin[r].at \in {"read", "defaults", "write"}
      BY <1>4 DEF FindStaff, FindBanner, FindSettings, CreateSettings, WriteStaff, DeleteStaff, WriteBanner,
         WriteSettings, CreateAuditLog, AdminCrash, Does
    <3> QED
      BY <1>1, <3>1 DEF AuditTypes, AtWork, Pending, Closed
  <2>2. PICK d \in AdminWork \union {Closed} : admin' = [admin EXCEPT ![r] = d] /\ (d \in AdminWork => d.ask = admin[r].ask)
    <3>1. CASE FindStaff(r)
      <4>1. CASE admin' = [admin EXCEPT ![r] = Closed]
        BY <4>1, WorkIsNotRest
      <4>2. ASSUME NEW i \in AdminRequests \union {Absent}, admin' = [admin EXCEPT ![r].at = "write", ![r].of = i]
            PROVE  \E d \in AdminWork : admin' = [admin EXCEPT ![r] = d] /\ d.ask = admin[r].ask
        <5> DEFINE d == [admin[r] EXCEPT !.at = "write", !.of = i]
        <5>1. d \in AdminWork /\ d.ask = admin[r].ask
          BY <2>1 DEF AdminWork
        <5>2. admin' = [admin EXCEPT ![r] = d]
          BY <4>2
        <5> QED
          BY <5>1, <5>2
      <4>3. \/ admin' = [admin EXCEPT ![r] = Closed]
            \/ \E i \in AdminRequests \union {Absent} : admin' = [admin EXCEPT ![r].at = "write", ![r].of = i]
        <5> DEFINE u == admin[r].ask.entity
        <5>1. staff[u] # Absent /\ u \in Staff => staff[u].id \in AdminRequests
          BY <1>1 DEF AuditTypes, Account
        <5>2. u \in Staff
          BY <2>1, <3>1, AskedFor DEF FindStaff, Does, AdminWork
        <5> HIDE DEF u
        <5>3. CASE staff[u] = Absent
          BY <3>1, <5>3 DEF FindStaff, Close, u
        <5>4. CASE staff[u] # Absent
          BY <3>1, <5>1, <5>2, <5>4 DEF FindStaff, Close, u
        <5> QED
          BY <5>3, <5>4
      <4> QED
        BY <4>1, <4>2, <4>3
    <3>2. CASE ~FindStaff(r)
      <4>1. Close(r) \/ \E l \in {"read", "defaults", "write", "audit"} : AdminAt(r, l)
        BY <1>4, <3>2 DEF FindBanner, FindSettings, CreateSettings, WriteStaff, DeleteStaff, WriteBanner,
           WriteSettings, CreateAuditLog, AdminCrash
      <4>2. CASE Close(r)
        BY <4>2, WorkIsNotRest DEF Close
      <4>3. ASSUME NEW l \in {"read", "defaults", "write", "audit"}, AdminAt(r, l)
            PROVE  \E d \in AdminWork : admin' = [admin EXCEPT ![r] = d] /\ d.ask = admin[r].ask
        BY <1>1, <2>1, <4>3, WorkGoesOn DEF AdminAt
      <4> QED
        BY <4>1, <4>2, <4>3
    <3> QED
      BY <3>1, <3>2
  <2>3. audit' = audit \/ (d = Closed /\ \E e : audit' = Append(audit, e))
    <3>1. CASE CreateAuditLog(r)
      <4>1. admin' = [admin EXCEPT ![r] = Closed] /\ \E e : audit' = Append(audit, e)
        BY <3>1 DEF CreateAuditLog, Close
      <4>2. d = Closed
        BY <1>1, <2>2, <4>1 DEF AuditTypes
      <4> QED
        BY <4>1, <4>2
    <3>2. CASE ~CreateAuditLog(r)
      <4>1. audit' = audit
        BY <1>4, <3>2 DEF FindStaff, FindBanner, FindSettings, CreateSettings, WriteStaff, DeleteStaff, WriteBanner,
           WriteSettings, AdminCrash
      <4> QED
        BY <4>1
    <3> QED
      BY <3>1, <3>2
  <2>4. UNCHANGED freeBanners
    BY <1>4 DEF FindStaff, FindBanner, FindSettings, CreateSettings, WriteStaff, DeleteStaff, WriteBanner,
         WriteSettings, CreateAuditLog, AdminCrash
  <2>5. banner' \in [Banners -> AdminRequests \union {Absent}] /\ \A b \in freeBanners : banner'[b] = banner[b]
    <3>1. CASE WriteBanner(r)
      <4>1. PICK x \in AdminRequests \union {Absent} : banner' = [banner EXCEPT ![admin[r].ask.entity] = x]
        <5>1. admin[r].ask.entity \in Banners /\ admin[r].ask.action \in {"CREATE_BANNER", "UPDATE_BANNER", "DELETE_BANNER"}
          BY <2>1, <3>1, AskedFor DEF WriteBanner, Does, AdminWork
        <5>2. banner[admin[r].ask.entity] \in AdminRequests \union {Absent}
          BY <5>1 DEF AdminTypes
        <5> QED
          BY <3>1, <5>1, <5>2 DEF WriteBanner
      <4>2. admin[r].ask.entity \notin freeBanners
        BY <2>1 DEF AdminTypes
      <4> QED
        BY <4>1, <4>2 DEF AdminTypes
    <3>2. CASE ~WriteBanner(r)
      <4>1. UNCHANGED banner
        BY <1>4, <3>2 DEF FindStaff, FindBanner, FindSettings, CreateSettings, WriteStaff, DeleteStaff,
           WriteSettings, CreateAuditLog, AdminCrash
      <4> QED
        BY <4>1 DEF AdminTypes
    <3> QED
      BY <3>1, <3>2
  <2> QED
    BY <1>1, <2>1, <2>2, <2>3, <2>4, <2>5, GoesOnTyped
<1> QED
  BY <1>2, <1>3, <1>4 DEF AdminNext, AdminStep

LEMMA AdminIsTyped == AuditInv /\ AdminTypes => AdminTypeOK
<1> SUFFICES ASSUME AuditInv, AdminTypes PROVE AdminTypeOK
  OBVIOUS
<1>1. Cardinality(ClosedOnes) <= Cardinality(AdminRequests) /\ Cardinality(ClosedOnes) \in Nat /\ Cardinality(AdminRequests) \in Nat
  BY AdminRequestsAssumption, FS_Subset, FS_CardinalityType DEF ClosedOnes
<1>2. Len(audit) \in Nat
  BY DEF AuditInv, AuditTypes
<1> QED
  BY <1>1, <1>2 DEF AuditInv, AuditTypes, AdminTypes, AdminTypeOK

-----------------------------------------------------------------------------
(* Tickets.  A claim needs an OPEN ticket, and nothing opens one again; so *)
(* whatever the lock does, the first claim is the last.                    *)

Ticket == [status : {"OPEN", "ASSIGNED", "CLOSED"}, agent : Agents \union {NoAgent}, rated : BOOLEAN]
Desk == {DeskIdle, DeskDone} \union
  [at : {"lock", "claim", "unlock", "emit", "assign", "close", "readTicket", "rate"},
   op : {"claim", "assign", "close", "rate"}, agent : Agents \union {NoAgent}]

ClaimInv ==
  /\ ticket \in Ticket
  /\ desk \in [TicketRequests -> Desk]
  /\ ticket.status = "OPEN" => claimed = {}
  /\ claimed = {} \/ \E a \in Agents \union {NoAgent} : claimed = {a}
  /\ ~assigned => \A a \in claimed : ticket.agent = a

LEMMA InitClaims == SupportInit => ClaimInv
BY DEF SupportInit, ClaimInv, Ticket, Desk

\* Whoever is past idle has a request, and moving it on leaves it one.
LEMMA DeskMoves ==
  ASSUME ClaimInv, NEW r \in TicketRequests, desk[r] \notin {DeskIdle, DeskDone}
  PROVE  /\ desk[r].agent \in Agents \union {NoAgent}
         /\ \A l \in {"claim", "unlock", "emit", "rate"} : DeskAt(r, l) => desk' \in [TicketRequests -> Desk]
         /\ LeaveDesk(r) => desk' \in [TicketRequests -> Desk]
<1> DEFINE q == desk[r]
<1>1. q \in Desk \ {DeskIdle, DeskDone}
  BY DEF ClaimInv
<1>2. \A l \in {"claim", "unlock", "emit", "rate"} : [q EXCEPT !.at = l] \in Desk
  BY <1>1 DEF Desk
<1>3. \A l : DeskAt(r, l) => desk' = [desk EXCEPT ![r] = [q EXCEPT !.at = l]]
  BY DEF DeskAt
<1>4. \A d \in Desk : desk' = [desk EXCEPT ![r] = d] => desk' \in [TicketRequests -> Desk]
  BY DEF ClaimInv
<1>5. DeskDone \in Desk
  BY DEF Desk
<1>6. q.agent \in Agents \union {NoAgent}
  BY <1>1 DEF Desk
<1> HIDE DEF q
<1> QED
  BY <1>2, <1>3, <1>4, <1>5, <1>6 DEF LeaveDesk, q

\* What a request has once it is under way.
LEMMA AtMeansServing == \A r \in TicketRequests :
  desk[r].at \notin {"idle", "done"} => desk[r] \notin {DeskIdle, DeskDone}
BY DEF DeskIdle, DeskDone

\* A request comes in.
LEMMA ServeStep ==
  ASSUME ClaimInv, NEW r \in TicketRequests,
         (\E a \in Agents : AskClaim(r, a) \/ AskAssign(r, a)) \/ AskClose(r) \/ AskRate(r)
  PROVE  ClaimInv'
<1>1. PICK q \in Desk : Serve(r, q)
  BY DEF AskClaim, AskAssign, AskClose, AskRate, Desk
<1> QED
  BY <1>1 DEF Serve, ClaimInv

\* The first claim; Claimable says that the ticket is OPEN.
LEMMA ClaimStep == ASSUME ClaimInv, NEW r \in TicketRequests, ClaimConversation(r) PROVE ClaimInv'
<1>1. desk[r].agent \in Agents \union {NoAgent} /\ desk' \in [TicketRequests -> Desk]
  BY AtMeansServing, DeskMoves DEF ClaimConversation
<1>2. CASE Claimable
  <2>1. /\ ticket' = [ticket EXCEPT !.status = "ASSIGNED", !.agent = desk[r].agent]
        /\ claimed' = claimed \union {desk[r].agent} /\ UNCHANGED assigned
    BY <1>2 DEF ClaimConversation
  <2>2. ticket' \in Ticket /\ ticket'.status = "ASSIGNED" /\ ticket'.agent = desk[r].agent
    BY <1>1, <2>1 DEF ClaimInv, Ticket
  <2>3. claimed' = {desk[r].agent}
    BY <1>2, <2>1 DEF Claimable, ClaimInv
  <2> QED
    BY <1>1, <2>2, <2>3 DEF ClaimInv
<1>3. CASE ~Claimable
  BY <1>1, <1>3 DEF ClaimConversation, ClaimInv
<1> QED
  BY <1>2, <1>3

\* An assignment is recorded, a closing leaves the agent; neither opens a ticket.
LEMMA UpdateTicketStep == ASSUME ClaimInv, NEW r \in TicketRequests, UpdateConversation(r) PROVE ClaimInv'
<1>1. desk[r].agent \in Agents \union {NoAgent} /\ desk' \in [TicketRequests -> Desk]
  BY AtMeansServing, DeskMoves DEF UpdateConversation
<1>2. CASE desk[r].at = "assign"
  <2>1. /\ ticket' = [ticket EXCEPT !.status = "ASSIGNED", !.agent = desk[r].agent]
        /\ assigned' = TRUE /\ UNCHANGED claimed
    BY <1>2 DEF UpdateConversation
  <2>2. ticket' \in Ticket /\ ticket'.status = "ASSIGNED"
    BY <1>1, <2>1 DEF ClaimInv, Ticket
  <2> QED
    BY <1>1, <2>1, <2>2 DEF ClaimInv
<1>3. CASE desk[r].at = "close"
  <2>1. ticket' = [ticket EXCEPT !.status = "CLOSED"] /\ UNCHANGED <<claimed, assigned>>
    BY <1>3 DEF UpdateConversation
  <2>2. ticket' \in Ticket /\ ticket'.status = "CLOSED" /\ ticket'.agent = ticket.agent
    BY <2>1 DEF ClaimInv, Ticket
  <2> QED
    BY <1>1, <2>1, <2>2 DEF ClaimInv
<1> QED
  BY <1>2, <1>3 DEF UpdateConversation

LEMMA RateStep == ASSUME ClaimInv, NEW r \in TicketRequests, RateConversation(r) PROVE ClaimInv'
<1>1. desk' \in [TicketRequests -> Desk]
  BY AtMeansServing, DeskMoves DEF RateConversation
<1>2. ticket' = [ticket EXCEPT !.rated = TRUE] /\ UNCHANGED <<claimed, assigned>>
  BY DEF RateConversation
<1>3. ticket' \in Ticket /\ ticket'.status = ticket.status /\ ticket'.agent = ticket.agent
  BY <1>2 DEF ClaimInv, Ticket
<1> QED
  BY <1>1, <1>2, <1>3 DEF ClaimInv

\* The lock, the broadcast, a failed check and a crash do not touch the ticket.
LEMMA OtherDeskSteps ==
  ASSUME ClaimInv, NEW r \in TicketRequests,
         SetTicketLock(r) \/ DelTicketLock(r) \/ DeskCrashes(r) \/ ReadTicket(r) \/ TicketUpdated(r)
  PROVE  ClaimInv'
<1>1. UNCHANGED <<ticket, claimed, assigned>>
  BY DEF SetTicketLock, DelTicketLock, DeskCrashes, ReadTicket, TicketUpdated
<1>2. desk[r] \notin {DeskIdle, DeskDone}
  BY AtMeansServing DEF SetTicketLock, DelTicketLock, DeskCrashes, Serving, ReadTicket,
        TicketUpdated
<1>3. (\E l \in {"claim", "unlock", "emit", "rate"} : DeskAt(r, l)) \/ LeaveDesk(r)
  BY DEF SetTicketLock, DelTicketLock, DeskCrashes, ReadTicket, TicketUpdated
<1>4. desk' \in [TicketRequests -> Desk]
  BY <1>2, <1>3, DeskMoves
<1> QED
  BY <1>1, <1>4 DEF ClaimInv

LEMMA ClaimInvNext == ClaimInv /\ [SupportNext]_supportVars => ClaimInv'
<1> SUFFICES ASSUME ClaimInv, [SupportNext]_supportVars PROVE ClaimInv'
  OBVIOUS
<1>1. ASSUME UNCHANGED <<ticket, desk, claimed, assigned>> PROVE ClaimInv'
  BY <1>1 DEF ClaimInv
<1>2. CASE TicketNext
  <2>1. CASE TicketLockExpires
    BY <2>1, <1>1 DEF TicketLockExpires
  <2>2. ASSUME NEW r \in TicketRequests, DeskStep(r) PROVE ClaimInv'
    BY <2>2, ServeStep, ClaimStep, UpdateTicketStep, RateStep, OtherDeskSteps DEF DeskStep
  <2> QED
    BY <1>2, <2>1, <2>2 DEF TicketNext
<1>3. CASE RoomNext
  <2>1. UNCHANGED ticketVars
    BY <1>3 DEF RoomNext, MessageStep, SaveMessage, StampConversation, Broadcast, CountRoom,
      SenderCrashes, Join, Disconnect, MessageSeen, MessageDelivered
  <2> QED
    BY <2>1, <1>1 DEF ticketVars
<1>4. CASE UNCHANGED supportVars
  BY <1>1, <1>4 DEF supportVars, ticketVars
<1> QED
  BY <1>2, <1>3, <1>4 DEF SupportNext

-----------------------------------------------------------------------------
(* Dashboards.  What a request is doing says what it is, and while only    *)
(* one is under way and none has crashed, the board is behind the ticket   *)
(* by its broadcast or not at all.                                         *)

TicketShown == [status |-> ticket.status, agent |-> ticket.agent]

OpOf(l) == IF l \in {"lock", "claim", "unlock"} THEN "claim"
           ELSE IF l \in {"assign", "close"} THEN l
           ELSE "rate"

KnowsItsOp(r) == IF desk[r].at = "emit" THEN desk[r].op # "rate" ELSE desk[r].op = OpOf(desk[r].at)

OneServed == ~reordered => \A r, s \in TicketRequests : Serving(r) /\ Serving(s) => r = s

BoardIsBehind ==
  ~reordered /\ supportFaults = 0 =>
    /\ \A r \in TicketRequests : desk[r].at = "emit" => BoardAfter(r) = TicketShown
    /\ (\A r \in TicketRequests : desk[r].at # "emit") => board = TicketShown

BoardInv ==
  /\ ClaimInv
  /\ board \in [status : {"OPEN", "ASSIGNED", "CLOSED"}, agent : Agents \union {NoAgent}]
  /\ supportFaults \in Nat /\ reordered \in BOOLEAN
  /\ \A r \in TicketRequests : Serving(r) => KnowsItsOp(r)
  /\ OneServed
  /\ BoardIsBehind

LEMMA InitBoard == SupportInit => BoardInv
<1> SUFFICES ASSUME SupportInit PROVE BoardInv
  OBVIOUS
<1>1. \A r \in TicketRequests : ~Serving(r) /\ desk[r].at # "emit"
  BY DEF SupportInit, Serving, DeskIdle
<1>2. board = TicketShown /\ ~reordered /\ supportFaults = 0
  BY DEF SupportInit, TicketShown
<1>3. board \in [status : {"OPEN", "ASSIGNED", "CLOSED"}, agent : Agents \union {NoAgent}]
  BY DEF SupportInit
<1>4. supportFaults \in Nat /\ reordered \in BOOLEAN
  BY DEF SupportInit
<1> QED
  BY <1>1, <1>2, <1>3, <1>4, InitClaims DEF BoardInv, OneServed, BoardIsBehind

\* Nobody is served beside r as long as nothing was reordered.
LEMMA Alone ==
  ASSUME BoardInv, ~reordered, NEW r \in TicketRequests, Serving(r)
  PROVE  \A s \in TicketRequests \ {r} : ~Serving(s) /\ desk[s].at # "emit"
BY DEF BoardInv, OneServed, Serving, DeskIdle, DeskDone

\* What a step of a request that is under way has to show.
LEMMA BoardMoves ==
  ASSUME BoardInv, NEW r \in TicketRequests, Serving(r), ClaimInv',
         NEW q, desk' = [desk EXCEPT ![r] = q], UNCHANGED reordered,
         board' \in [status : {"OPEN", "ASSIGNED", "CLOSED"}, agent : Agents \union {NoAgent}],
         supportFaults' \in Nat,
         Serving(r)' => KnowsItsOp(r)',
         ~reordered /\ supportFaults' = 0 =>
           /\ supportFaults = 0
           /\ IF q.at = "emit" THEN BoardAfter(r)' = TicketShown' ELSE board' = TicketShown'
  PROVE  BoardInv'
<1>1. desk'[r] = q /\ \A s \in TicketRequests \ {r} : desk'[s] = desk[s]
  BY DEF BoardInv, ClaimInv
<1>2. \A s \in TicketRequests : Serving(s)' => KnowsItsOp(s)'
  BY <1>1 DEF BoardInv, Serving, KnowsItsOp
<1>3. OneServed'
  BY <1>1 DEF BoardInv, OneServed, Serving
<1>4. BoardIsBehind'
  BY <1>1, Alone DEF BoardIsBehind
<1> QED
  BY <1>2, <1>3, <1>4 DEF BoardInv

\* A request comes in: if it is the only one, there is nothing under way.
LEMMA ServeBoard ==
  ASSUME BoardInv, ClaimInv', NEW r \in TicketRequests,
         (\E a \in Agents : AskClaim(r, a) \/ AskAssign(r, a)) \/ AskClose(r) \/ AskRate(r)
  PROVE  BoardInv'
<1>1. PICK q : Serve(r, q) /\ q.at # "emit" /\ q.op = OpOf(q.at)
  <2>1. PICK l \in {"lock", "assign", "close", "readTicket"}, a \in Agents \union {NoAgent} :
          Serve(r, [at |-> l, op |-> OpOf(l), agent |-> a])
    <3>1. /\ OpOf("lock") = "claim" /\ OpOf("assign") = "assign"
          /\ OpOf("close") = "close" /\ OpOf("readTicket") = "rate"
      BY DEF OpOf
    <3> QED
      BY <3>1 DEF AskClaim, AskAssign, AskClose, AskRate
  <2> DEFINE q == [at |-> l, op |-> OpOf(l), agent |-> a]
  <2>2. q.at # "emit" /\ q.op = OpOf(q.at)
    OBVIOUS
  <2> HIDE DEF q
  <2> QED
    BY <2>1, <2>2 DEF q
<1>2. desk'[r] = q /\ \A s \in TicketRequests \ {r} : desk'[s] = desk[s]
  BY <1>1 DEF Serve, BoardInv, ClaimInv
<1>3. UNCHANGED <<ticket, board, supportFaults>>
  BY <1>1 DEF Serve
<1>4. reordered' = (reordered \/ \E s \in TicketRequests : Serving(s))
  BY <1>1 DEF Serve
<1>5. \A s \in TicketRequests : Serving(s)' => KnowsItsOp(s)'
  BY <1>1, <1>2 DEF BoardInv, Serving, KnowsItsOp
<1>6. OneServed'
  BY <1>2, <1>4 DEF OneServed, Serving
<1>7. BoardIsBehind'
  <2> SUFFICES ASSUME ~reordered', supportFaults = 0
               PROVE  /\ \A s \in TicketRequests : desk'[s].at # "emit"
                      /\ board = TicketShown
    BY <1>3 DEF BoardIsBehind, TicketShown
  <2>1. ~reordered /\ \A s \in TicketRequests : desk[s].at # "emit"
    <3>1. ~(reordered \/ \E s \in TicketRequests : Serving(s))
      BY <1>4, Zenon
    <3> QED
      BY <3>1 DEF Serving, DeskIdle, DeskDone
  <2>2. board = TicketShown
    BY <2>1 DEF BoardInv, BoardIsBehind
  <2> QED
    BY <1>1, <1>2, <2>1, <2>2
<1> QED
  BY <1>3, <1>4, <1>5, <1>6, <1>7 DEF BoardInv

\* The steps that change the ticket go on to the broadcast of what they wrote.
LEMMA WriteBoard ==
  ASSUME BoardInv, ClaimInv', NEW r \in TicketRequests,
         ClaimConversation(r) \/ UpdateConversation(r)
  PROVE  BoardInv'
<1> DEFINE q == [desk[r] EXCEPT !.at = "emit"]
<1>1. /\ desk[r] \in Desk \ {DeskIdle, DeskDone} /\ Serving(r) /\ KnowsItsOp(r)
      /\ UNCHANGED <<reordered, board, supportFaults>>
  BY AtMeansServing DEF ClaimConversation, UpdateConversation, BoardInv, ClaimInv, Serving
<1>2. /\ q \in Desk \ {DeskIdle, DeskDone} /\ q.at = "emit"
      /\ q.op = desk[r].op /\ q.agent = desk[r].agent
  BY <1>1 DEF Desk, DeskIdle, DeskDone
<1>3. ASSUME desk' = [desk EXCEPT ![r] = q],
             desk[r].op # "rate",
             ~reordered /\ supportFaults = 0 => BoardAfter(r)' = TicketShown'
      PROVE  BoardInv'
  <2>1. desk'[r] = q
    BY <1>3 DEF BoardInv, ClaimInv
  <2>2. KnowsItsOp(r)'
    BY <1>2, <1>3, <2>1 DEF KnowsItsOp
  <2> HIDE DEF q
  <2> QED
    BY <1>1, <1>2, <1>3, <2>2, BoardMoves DEF BoardInv
<1>4. ASSUME ~reordered, supportFaults = 0 PROVE board = TicketShown
  BY <1>1, <1>4, Alone DEF BoardInv, BoardIsBehind, ClaimConversation, UpdateConversation
<1>5. CASE ClaimConversation(r) /\ Claimable
  <2>1. /\ desk' = [desk EXCEPT ![r] = q] /\ desk[r].at = "claim"
        /\ ticket' = [ticket EXCEPT !.status = "ASSIGNED", !.agent = desk[r].agent]
    BY <1>5 DEF ClaimConversation, DeskAt
  <2>2. desk[r].op = "claim"
    BY <1>1, <2>1 DEF KnowsItsOp, OpOf
  <2>3. ticket'.status = "ASSIGNED" /\ ticket'.agent = desk[r].agent
    BY <2>1 DEF BoardInv, ClaimInv, Ticket
  <2>4. desk'[r] = q
    BY <2>1 DEF BoardInv, ClaimInv
  <2>5. BoardAfter(r)' = TicketShown'
    BY <1>2, <2>2, <2>3, <2>4 DEF BoardAfter, TicketShown
  <2> QED
    BY <1>3, <2>1, <2>2, <2>5
<1>6. CASE ClaimConversation(r) /\ ~Claimable
  <2> DEFINE u == [desk[r] EXCEPT !.at = "unlock"]
  <2>1. desk' = [desk EXCEPT ![r] = u] /\ UNCHANGED ticket /\ desk[r].at = "claim"
    BY <1>6 DEF ClaimConversation, DeskAt
  <2>2. desk[r].op = "claim"
    BY <1>1, <2>1 DEF KnowsItsOp, OpOf
  <2>3. u.at = "unlock" /\ u.op = "claim"
    BY <1>1, <2>2 DEF Desk, DeskIdle, DeskDone
  <2>4. desk'[r] = u
    BY <2>1 DEF BoardInv, ClaimInv
  <2>5. KnowsItsOp(r)'
    BY <2>3, <2>4 DEF KnowsItsOp, OpOf
  <2>6. TicketShown' = TicketShown
    BY <2>1 DEF TicketShown
  <2> HIDE DEF u
  <2> QED
    BY <1>1, <1>4, <2>1, <2>3, <2>5, <2>6, BoardMoves DEF BoardInv
<1>7. CASE UpdateConversation(r) /\ desk[r].at = "assign"
  <2>1. /\ desk' = [desk EXCEPT ![r] = q]
        /\ ticket' = [ticket EXCEPT !.status = "ASSIGNED", !.agent = desk[r].agent]
    BY <1>7 DEF UpdateConversation, DeskAt
  <2>2. desk[r].op = "assign"
    BY <1>1, <1>7 DEF KnowsItsOp, OpOf
  <2>3. ticket'.status = "ASSIGNED" /\ ticket'.agent = desk[r].agent
    BY <2>1 DEF BoardInv, ClaimInv, Ticket
  <2>4. desk'[r] = q
    BY <2>1 DEF BoardInv, ClaimInv
  <2>5. BoardAfter(r)' = TicketShown'
    BY <1>2, <2>2, <2>3, <2>4 DEF BoardAfter, TicketShown
  <2> QED
    BY <1>3, <2>1, <2>2, <2>5
<1>8. CASE UpdateConversation(r) /\ desk[r].at = "close"
  <2>1. /\ desk' = [desk EXCEPT ![r] = q]
        /\ ticket' = [ticket EXCEPT !.status = "CLOSED"]
    BY <1>8 DEF UpdateConversation, DeskAt
  <2>2. desk[r].op = "close"
    BY <1>1, <1>8 DEF KnowsItsOp, OpOf
  <2>3. ticket'.status = "CLOSED" /\ ticket'.agent = ticket.agent
    BY <2>1 DEF BoardInv, ClaimInv, Ticket
  <2>4. desk'[r] = q
    BY <2>1 DEF BoardInv, ClaimInv
  <2>5. BoardAfter(r)' = [board EXCEPT !.status = "CLOSED"]
    BY <1>1, <1>2, <2>2, <2>4 DEF BoardAfter
  <2>6. ASSUME ~reordered, supportFaults = 0 PROVE BoardAfter(r)' = TicketShown'
    BY <1>4, <2>3, <2>5, <2>6 DEF TicketShown
  <2> QED
    BY <1>3, <2>1, <2>2, <2>6
<1> QED
  BY <1>5, <1>6, <1>7, <1>8 DEF UpdateConversation

\* The broadcast catches up.
LEMMA EmitBoard == ASSUME BoardInv, ClaimInv', NEW r \in TicketRequests, TicketUpdated(r) PROVE BoardInv'
<1>1. /\ desk[r] \in Desk \ {DeskIdle, DeskDone} /\ Serving(r) /\ desk[r].at = "emit"
      /\ desk[r].op # "rate" /\ board' = BoardAfter(r) /\ UNCHANGED <<ticket, reordered, supportFaults>>
  BY AtMeansServing DEF TicketUpdated, BoardInv, ClaimInv, Serving, KnowsItsOp
<1>2. board' \in [status : {"OPEN", "ASSIGNED", "CLOSED"}, agent : Agents \union {NoAgent}]
  BY <1>1 DEF BoardAfter, BoardInv, Desk, DeskIdle, DeskDone
<1>3. ~reordered /\ supportFaults = 0 => board' = TicketShown'
  BY <1>1 DEF BoardInv, BoardIsBehind, TicketShown
<1>4. CASE desk[r].op = "claim"
  <2> DEFINE u == [desk[r] EXCEPT !.at = "unlock"]
  <2>1. desk' = [desk EXCEPT ![r] = u] /\ u.at = "unlock" /\ u.op = "claim"
    BY <1>1, <1>4 DEF TicketUpdated, DeskAt, Desk, DeskIdle, DeskDone
  <2>2. desk'[r] = u
    BY <2>1 DEF BoardInv, ClaimInv
  <2>3. KnowsItsOp(r)'
    BY <2>1, <2>2 DEF KnowsItsOp, OpOf
  <2> HIDE DEF u
  <2> QED
    BY <1>1, <1>2, <1>3, <2>1, <2>3, BoardMoves DEF BoardInv
<1>5. CASE desk[r].op # "claim"
  <2>1. desk' = [desk EXCEPT ![r] = DeskDone]
    BY <1>5 DEF TicketUpdated, LeaveDesk
  <2>2. ~Serving(r)' /\ DeskDone.at # "emit"
    BY <2>1 DEF BoardInv, ClaimInv, Serving, DeskDone
  <2> QED
    BY <1>1, <1>2, <1>3, <2>1, <2>2, BoardMoves DEF BoardInv
<1> QED
  BY <1>4, <1>5

\* Whatever is left leaves the ticket and the board as they are to a reader, or
\* crashes.
LEMMA QuietBoard ==
  ASSUME BoardInv, ClaimInv', NEW r \in TicketRequests,
         \/ SetTicketLock(r) \/ DelTicketLock(r) \/ ReadTicket(r) \/ RateConversation(r)
         \/ DeskCrashes(r)
  PROVE  BoardInv'
<1>1. /\ desk[r] \in Desk \ {DeskIdle, DeskDone} /\ Serving(r) /\ KnowsItsOp(r)
      /\ UNCHANGED <<reordered, board>>
  BY AtMeansServing DEF SetTicketLock, DelTicketLock, ReadTicket, RateConversation, DeskCrashes,
    Serving, BoardInv, ClaimInv
<1>2. supportFaults' \in Nat /\ (supportFaults' = 0 => supportFaults = 0 /\ ~DeskCrashes(r))
  BY DEF SetTicketLock, DelTicketLock, ReadTicket, RateConversation, DeskCrashes, BoardInv
<1>3. TicketShown' = TicketShown
  BY DEF SetTicketLock, DelTicketLock, ReadTicket, RateConversation, DeskCrashes, BoardInv,
        ClaimInv,
    Ticket, TicketShown
<1>4. ASSUME ~reordered, supportFaults' = 0 PROVE supportFaults = 0 /\ board' = TicketShown'
  <2>1. desk[r].at # "emit"
    BY <1>2, <1>4 DEF SetTicketLock, DelTicketLock, ReadTicket, RateConversation
  <2> QED
    BY <1>1, <1>2, <1>3, <1>4, <2>1, Alone DEF BoardInv, BoardIsBehind
<1>5. CASE LeaveDesk(r)
  <2>1. desk' = [desk EXCEPT ![r] = DeskDone]
    BY <1>5 DEF LeaveDesk
  <2>2. ~Serving(r)' /\ DeskDone.at # "emit"
    BY <2>1 DEF BoardInv, ClaimInv, Serving, DeskDone
  <2> QED
    BY <1>1, <1>2, <1>4, <2>1, <2>2, BoardMoves DEF BoardInv
<1>6. ASSUME NEW l \in {"claim", "rate"}, DeskAt(r, l), desk[r].op = OpOf(l) PROVE BoardInv'
  <2> DEFINE u == [desk[r] EXCEPT !.at = l]
  <2>1. desk' = [desk EXCEPT ![r] = u] /\ u.at = l /\ u.op = OpOf(l)
    BY <1>1, <1>6 DEF DeskAt, Desk, DeskIdle, DeskDone
  <2>2. desk'[r] = u
    BY <2>1 DEF BoardInv, ClaimInv
  <2>3. KnowsItsOp(r)'
    BY <2>1, <2>2 DEF KnowsItsOp
  <2> HIDE DEF u
  <2> QED
    BY <1>1, <1>2, <1>4, <2>1, <2>3, BoardMoves DEF BoardInv
<1>7. CASE SetTicketLock(r) \/ ReadTicket(r)
  BY <1>1, <1>5, <1>6, <1>7 DEF SetTicketLock, ReadTicket, KnowsItsOp, OpOf
<1> QED
  BY <1>5, <1>7 DEF DelTicketLock, RateConversation, DeskCrashes

LEMMA BoardInvNext == BoardInv /\ [SupportNext]_supportVars => BoardInv'
<1> SUFFICES ASSUME BoardInv, [SupportNext]_supportVars PROVE BoardInv'
  OBVIOUS
<1>1. ClaimInv'
  BY ClaimInvNext DEF BoardInv
<1>2. ASSUME UNCHANGED <<ticket, desk, board, reordered>>,
             supportFaults' \in Nat, supportFaults' = 0 => supportFaults = 0
      PROVE  BoardInv'
  BY <1>1, <1>2 DEF BoardInv, OneServed, BoardIsBehind, Serving, KnowsItsOp, BoardAfter, TicketShown
<1>3. CASE TicketNext
  <2>1. CASE TicketLockExpires
    BY <1>2, <2>1 DEF TicketLockExpires, BoardInv
  <2>2. ASSUME NEW r \in TicketRequests, DeskStep(r) PROVE BoardInv'
    BY <1>1, <2>2, ServeBoard, WriteBoard, EmitBoard, QuietBoard DEF DeskStep
  <2> QED
    BY <1>3, <2>1, <2>2 DEF TicketNext
<1>4. CASE RoomNext
  <2>1. UNCHANGED ticketVars
    BY <1>4 DEF RoomNext, MessageStep, SaveMessage, StampConversation, Broadcast, CountRoom,
      SenderCrashes, Join, Disconnect, MessageSeen, MessageDelivered
  <2>2. supportFaults' = supportFaults \/ supportFaults' = supportFaults + 1
    BY <1>4 DEF RoomNext, MessageStep, SaveMessage, StampConversation, Broadcast, CountRoom,
      SenderCrashes, Join, Disconnect, MessageSeen, MessageDelivered
  <2>3. supportFaults' \in Nat /\ (supportFaults' = 0 => supportFaults = 0)
    BY <2>2 DEF BoardInv
  <2> QED
    BY <1>2, <2>1, <2>3 DEF ticketVars
<1>5. CASE UNCHANGED supportVars
  BY <1>2, <1>5 DEF supportVars, ticketVars, BoardInv
<1> QED
  BY <1>3, <1>4, <1>5 DEF SupportNext

\* However many agents claim a ticket, with a lock that expires or is deleted by a
\* claim that lost, one at most is told that it is theirs, and it stays theirs
\* until it is assigned (claimTicket at support-chat.service.ts:75).
THEOREM OneClaimAlwaysHolds == SupportSpec => []OneClaimHolds
<1>1. ClaimInv => OneClaimHolds
  <2> SUFFICES ASSUME ClaimInv PROVE Cardinality(claimed) <= 1
    BY DEF ClaimInv, OneClaimHolds
  <2>1. CASE claimed = {}
    BY <2>1, FS_EmptySet
  <2>2. ASSUME NEW a, claimed = {a} PROVE Cardinality(claimed) <= 1
    <3>1. Cardinality({a}) = 1
      BY FS_Singleton
    <3> QED
      BY <2>2, <3>1
  <2> QED
    BY <2>1, <2>2 DEF ClaimInv
<1> QED
  BY InitClaims, ClaimInvNext, <1>1, PTL DEF SupportSpec

\* And once nothing is under way the dashboards show its status and its agent,
\* unless two changes overlapped or one crashed before its broadcast.
THEOREM TicketsAlwaysAgree == SupportSpec => []TicketsAgree
<1>1. BoardInv => BoardShowsTicket
  BY DEF BoardInv, BoardIsBehind, BoardShowsTicket, TicketShown, Serving, DeskIdle, DeskDone
<1>2. SupportSpec => []BoardShowsTicket
  BY InitBoard, BoardInvNext, <1>1, PTL DEF SupportSpec
<1> QED
  BY <1>2, OneClaimAlwaysHolds, PTL DEF TicketsAgree

-----------------------------------------------------------------------------
(* Messages. *)

\* Sides that a message not yet counted has reached: all that are in the room,
\* as long as nobody came in since.
Side == {"CUSTOMER", "AGENT"}
Msg == [at : {"saved", "stamped", "sent", "done", "lost"}, by : Side, reached : SUBSET Side,
        pushed : BOOLEAN, joined : BOOLEAN, crowd : BOOLEAN, seen : BOOLEAN, delivered : BOOLEAN]

ReachedIsTheRoom ==
  \A m \in Messages :
    message[m].at = "sent" /\ ~message[m].joined => \A s \in room : SideOf[s] \in message[m].reached

MessageInv ==
  /\ room \subseteq Sockets
  /\ message \in [Messages -> Msg \union {NoMessage}]
  /\ ReachedIsTheRoom
  /\ NobodyIsMissed

LEMMA InitMessages == SupportInit => MessageInv
BY DEF SupportInit, MessageInv, ReachedIsTheRoom, NobodyIsMissed, NoMessage

\* If the room is not taken for empty and the sender's side is no crowd, there
\* is somebody of the other side.
LEMMA SomebodyElse ==
  ASSUME room \subseteq Sockets, NEW side \in Side,
         ~LooksOffline(room), ~(Cardinality(InRoom(side)) > 1)
  PROVE  \E s \in room : SideOf[s] # side
<1>1. IsFiniteSet(room) /\ IsFiniteSet(InRoom(side))
  BY SocketsAssumption, FS_Subset DEF InRoom
<1>2. Cardinality(room) \in Nat /\ Cardinality(InRoom(side)) \in Nat
  BY <1>1, FS_CardinalityType
<1>3. InRoom(side) # room
  BY <1>2 DEF LooksOffline
<1> QED
  BY <1>3 DEF InRoom

LEMMA CountRoomStep == ASSUME MessageInv, NEW m \in Messages, CountRoom(m) PROVE MessageInv'
<1> DEFINE crowd == Cardinality(InRoom(message[m].by)) > 1
           msg == [message[m] EXCEPT !.at = "done", !.pushed = LooksOffline(room), !.crowd = crowd]
<1>1. message[m] \in Msg /\ message[m].at = "sent"
  BY DEF CountRoom, MessageInv, NoMessage
<1>2. message' = [message EXCEPT ![m] = msg] /\ UNCHANGED room
  BY DEF CountRoom
<1>3. /\ msg \in Msg /\ msg.at = "done" /\ msg.by = message[m].by
      /\ msg.pushed = LooksOffline(room) /\ msg.crowd = crowd
      /\ msg.joined = message[m].joined /\ msg.reached = message[m].reached
  <2>1. crowd \in BOOLEAN /\ LooksOffline(room) \in BOOLEAN
    BY DEF LooksOffline
  <2> HIDE DEF crowd
  <2> QED
    BY <1>1, <2>1 DEF Msg
<1>4. ~msg.crowd /\ ~msg.joined => msg.pushed \/ msg.reached \ {msg.by} # {}
  <2> SUFFICES ASSUME ~crowd, ~message[m].joined, ~LooksOffline(room)
               PROVE  message[m].reached \ {message[m].by} # {}
    BY <1>3
  <2>1. PICK s \in room : SideOf[s] # message[m].by
    BY <1>1, SomebodyElse DEF MessageInv, Msg
  <2>2. SideOf[s] \in message[m].reached
    BY <1>1 DEF MessageInv, ReachedIsTheRoom
  <2> QED
    BY <2>1, <2>2
<1> HIDE DEF crowd, msg
<1>5. /\ message' \in [Messages -> Msg \union {NoMessage}]
      /\ message'[m] = msg /\ \A n \in Messages \ {m} : message'[n] = message[n]
  BY <1>2, <1>3 DEF MessageInv
<1>6. ReachedIsTheRoom'
  BY <1>2, <1>3, <1>5 DEF MessageInv, ReachedIsTheRoom
<1>7. NobodyIsMissed'
  BY <1>3, <1>4, <1>5 DEF MessageInv, NobodyIsMissed
<1> QED
  BY <1>2, <1>5, <1>6, <1>7 DEF MessageInv

\* A message is saved, and goes on to its broadcast, or is lost.
LEMMA SendingSteps ==
  ASSUME MessageInv, NEW m \in Messages,
         \/ \E s \in Sockets : SaveMessage(m, s)
         \/ StampConversation(m) \/ Broadcast(m) \/ SenderCrashes(m)
  PROVE  MessageInv'
<1>1. UNCHANGED room
  BY DEF SaveMessage, StampConversation, Broadcast, SenderCrashes
<1>2. PICK msg \in Msg :
        /\ message' = [message EXCEPT ![m] = msg]
        /\ msg.at # "done"
        /\ msg.at = "sent" => msg.reached = {SideOf[s] : s \in room}
  <2>1. CASE \E s \in Sockets : SaveMessage(m, s)
    <3> PICK s \in Sockets : SaveMessage(m, s)
      BY <2>1
    <3> DEFINE msg == [at |-> "saved", by |-> SideOf[s], reached |-> {}, pushed |-> FALSE,
                       joined |-> FALSE, crowd |-> FALSE, seen |-> FALSE, delivered |-> FALSE]
    <3>1. message' = [message EXCEPT ![m] = msg]
      BY DEF SaveMessage
    <3>2. msg \in Msg /\ msg.at = "saved"
      BY SideOfAssumption DEF Msg, Side
    <3> HIDE DEF msg
    <3> QED
      BY <3>1, <3>2
  <2>2. CASE StampConversation(m) \/ SenderCrashes(m)
    <3>1. message[m] \in Msg
      BY <2>2 DEF StampConversation, SenderCrashes, Sending, MessageInv, NoMessage
    <3>2. PICK l \in {"stamped", "lost"} : message' = [message EXCEPT ![m] = [message[m] EXCEPT !.at = l]]
      BY <2>2 DEF StampConversation, SenderCrashes
    <3>3. [message[m] EXCEPT !.at = l] \in Msg /\ [message[m] EXCEPT !.at = l].at = l
      BY <3>1 DEF Msg
    <3> QED
      BY <3>2, <3>3
  <2>3. CASE Broadcast(m)
    <3> DEFINE msg == [message[m] EXCEPT !.at = "sent", !.reached = {SideOf[s] : s \in room}]
    <3>1. message[m] \in Msg
      BY <2>3 DEF Broadcast, MessageInv, NoMessage
    <3>2. {SideOf[s] : s \in room} \subseteq Side
      BY SideOfAssumption DEF MessageInv, Side
    <3>3. msg \in Msg /\ msg.at = "sent" /\ msg.reached = {SideOf[s] : s \in room}
      BY <3>1, <3>2 DEF Msg
    <3>4. message' = [message EXCEPT ![m] = msg]
      BY <2>3 DEF Broadcast
    <3> HIDE DEF msg
    <3> QED
      BY <3>3, <3>4
  <2> QED
    BY <2>1, <2>2, <2>3
<1>3. /\ message' \in [Messages -> Msg \union {NoMessage}]
      /\ message'[m] = msg /\ \A n \in Messages \ {m} : message'[n] = message[n]
  BY <1>2 DEF MessageInv
<1>4. ReachedIsTheRoom'
  BY <1>1, <1>2, <1>3 DEF MessageInv, ReachedIsTheRoom
<1>5. NobodyIsMissed'
  BY <1>2, <1>3 DEF MessageInv, NobodyIsMissed
<1> QED
  BY <1>1, <1>3, <1>4, <1>5 DEF MessageInv

\* Who comes in while a message is on its way is noted; who leaves only makes
\* the room smaller.
LEMMA RoomSteps ==
  ASSUME MessageInv, NEW s \in Sockets, Join(s) \/ Disconnect(s)
  PROVE  MessageInv'
<1>1. CASE Join(s)
  <2>1. room' = room \union {s}
    BY <1>1 DEF Join
  <2>2. \A m \in Messages : message[m] \in Msg => [message[m] EXCEPT !.joined = TRUE] \in Msg
    BY DEF Msg
  <2>3. \A m \in Messages : message[m].at = "sent" => message[m] \in Msg
    BY DEF MessageInv, NoMessage
  <2>4. /\ message' \in [Messages -> Msg \union {NoMessage}]
        /\ \A m \in Messages : message'[m] =
             IF message[m].at = "sent" THEN [message[m] EXCEPT !.joined = TRUE] ELSE message[m]
    BY <1>1, <2>2, <2>3 DEF Join, MessageInv
  <2>5. \A m \in Messages : message[m].at = "sent" => message'[m].joined /\ message'[m].at = "sent"
    BY <2>3, <2>4 DEF Msg
  <2>6. ReachedIsTheRoom' /\ NobodyIsMissed'
    BY <2>4, <2>5 DEF MessageInv, ReachedIsTheRoom, NobodyIsMissed
  <2> QED
    BY <2>1, <2>4, <2>6 DEF MessageInv
<1>2. CASE Disconnect(s)
  BY <1>2 DEF Disconnect, MessageInv, ReachedIsTheRoom, NobodyIsMissed
<1> QED
  BY <1>1, <1>2

\* Receipts change nothing that matters here.
LEMMA ReceiptSteps ==
  ASSUME MessageInv, NEW side \in Side, MessageSeen(side) \/ MessageDelivered(side)
  PROVE  MessageInv'
<1>1. \A m \in Messages :
        \/ message'[m] = message[m]
        \/ /\ message[m] \in Msg
           /\ \/ message'[m] = [message[m] EXCEPT !.seen = TRUE]
              \/ message'[m] = [message[m] EXCEPT !.delivered = TRUE]
  BY DEF MessageSeen, MessageDelivered, ToRead, MessageInv
<1>2. \A m \in Messages : message[m] \in Msg =>
        /\ message'[m] \in Msg /\ message'[m].at = message[m].at /\ message'[m].by = message[m].by
        /\ message'[m].reached = message[m].reached /\ message'[m].pushed = message[m].pushed
        /\ message'[m].joined = message[m].joined /\ message'[m].crowd = message[m].crowd
  <2> SUFFICES ASSUME NEW m \in Messages, message[m] \in Msg
               PROVE  /\ message'[m] \in Msg /\ message'[m].at = message[m].at
                      /\ message'[m].by = message[m].by /\ message'[m].reached = message[m].reached
                      /\ message'[m].pushed = message[m].pushed
                      /\ message'[m].joined = message[m].joined /\ message'[m].crowd = message[m].crowd
    OBVIOUS
  <2>1. CASE message'[m] = message[m]
    BY <2>1
  <2>2. CASE message'[m] = [message[m] EXCEPT !.seen = TRUE]
    BY <2>2 DEF Msg
  <2>3. CASE message'[m] = [message[m] EXCEPT !.delivered = TRUE]
    BY <2>3 DEF Msg
  <2> QED
    BY <1>1, <2>1, <2>2, <2>3
<1>3. UNCHANGED room /\ message' \in [Messages -> Msg \union {NoMessage}]
  BY <1>1, <1>2 DEF MessageSeen, MessageDelivered, MessageInv
<1>4. ReachedIsTheRoom' /\ NobodyIsMissed'
  BY <1>1, <1>2, <1>3 DEF MessageInv, ReachedIsTheRoom, NobodyIsMissed
<1> QED
  BY <1>3, <1>4 DEF MessageInv

LEMMA MessageInvNext == MessageInv /\ [SupportNext]_supportVars => MessageInv'
<1> SUFFICES ASSUME MessageInv, [SupportNext]_supportVars PROVE MessageInv'
  OBVIOUS
<1>1. ASSUME UNCHANGED roomVars PROVE MessageInv'
  BY <1>1 DEF roomVars, MessageInv, ReachedIsTheRoom, NobodyIsMissed
<1>2. CASE TicketNext
  <2>1. CASE TicketLockExpires
    BY <2>1, <1>1 DEF TicketLockExpires
  <2>2. CASE \E r \in TicketRequests : DeskStep(r)
    <3> PICK r \in TicketRequests : DeskStep(r)
      BY <2>2
    <3>1. CASE (\E a \in Agents : AskClaim(r, a) \/ AskAssign(r, a)) \/ AskClose(r) \/ AskRate(r)
      BY <3>1, <1>1 DEF AskClaim, AskAssign, AskClose, AskRate, Serve
    <3>2. CASE SetTicketLock(r) \/ ClaimConversation(r) \/ DelTicketLock(r) \/ DeskCrashes(r)
      BY <3>2, <1>1 DEF SetTicketLock, ClaimConversation, DelTicketLock, DeskCrashes
    <3>3. CASE UpdateConversation(r) \/ ReadTicket(r) \/ RateConversation(r) \/ TicketUpdated(r)
      BY <3>3, <1>1 DEF UpdateConversation, ReadTicket, RateConversation, TicketUpdated
    <3> QED
      BY <3>1, <3>2, <3>3 DEF DeskStep
  <2> QED
    BY <1>2, <2>1, <2>2 DEF TicketNext
<1>3. CASE RoomNext
  <2>1. \A s \in Sockets : SideOf[s] \in Side
    BY SideOfAssumption DEF Side
  <2> QED
    BY <1>3, <2>1, SendingSteps, CountRoomStep, RoomSteps, ReceiptSteps DEF RoomNext, MessageStep
<1>4. CASE UNCHANGED supportVars
  BY <1>1, <1>4 DEF supportVars
<1> QED
  BY <1>2, <1>3, <1>4 DEF SupportNext

\* A message that was sent has reached the other side or a push was asked for, for
\* any number of sockets that come and go, but for the two exceptions that the
\* property names (handleSendMessage at support-chat.gateway.ts:164).
THEOREM NobodyIsEverMissed == SupportSpec => []NobodyIsMissed
<1>1. MessageInv => NobodyIsMissed
  BY DEF MessageInv
<1> QED
  BY InitMessages, MessageInvNext, <1>1, PTL DEF SupportSpec

-----------------------------------------------------------------------------
(* Warranties.  Where two requests never worked on a serial at once, one     *)
(* that has read may still rely on what it read.                             *)

Claim == [of : Serials \union {NoWarranty}, status : {"none", "PENDING", "APPROVED", "REJECTED", "RESOLVED"}]
Form == [at : {"findSerial", "create", "readWarranty", "addClaim", "moderate"},
         serial : Serials, claim : Claims \union {NoWarranty}]

WarrantyTypes ==
  /\ warranty \in [Serials -> Registration \union {NoWarranty}]
  /\ claims \in [Claims -> Claim]
  /\ \A c \in Claims : claims[c] # FreeClaim =>
       claims[c].of \in Serials /\ claims[c].status # "none" /\ warranty[claims[c].of] # NoWarranty
  /\ form \in [WarrantyRequests -> Form \union {FormIdle, FormDone}]
  /\ \A r \in WarrantyRequests : form[r].at = "moderate" =>
       form[r].claim \in Claims /\ claims[form[r].claim] # FreeClaim /\ claims[form[r].claim].of = form[r].serial
  /\ job \in [at : {"idle", "expire", "find", "announce"}, found : SUBSET Serials, todo : SUBSET Serials]
  /\ announced \in [Serials -> Nat] /\ warrantyFaults \in Nat
  /\ late \subseteq Claims /\ together \subseteq Serials /\ reopened \subseteq Serials

\* Where two were never at work at once, a request is the only one, and the job rests.
OnlyOne ==
  \A r \in WarrantyRequests : form[r] \in Form /\ form[r].serial \notin together =>
    /\ job.at = "idle"
    /\ \A q \in WarrantyRequests : form[q] \in Form /\ form[q].serial = form[r].serial => q = r

\* A request that is about to add a claim has found none pending and the warranty not expired.
MayStillClaim ==
  \A r \in WarrantyRequests : form[r] \in Form /\ form[r].at = "addClaim" =>
    /\ warranty[form[r].serial] # NoWarranty
    /\ form[r].serial \notin together =>
         warranty[form[r].serial].status # "EXPIRED" /\ ClaimsOf(form[r].serial, {"PENDING"}) = {}

StatusShows ==
  /\ \A c \in late : claims[c].of \in together
  /\ \A s \in Serials \ (together \union reopened) : warranty[s] # NoWarranty =>
       /\ \A c, d \in ClaimsOf(s, {"PENDING"}) : c = d
       /\ warranty[s].status = "CLAIM_PENDING" <=> ClaimsOf(s, OpenStatus) # {}

Noted(s) == warranty[s] # NoWarranty /\ warranty[s].notified
\* A run of the job announces those it has found, none of them noted as announced.
Announcing ==
  /\ job.todo \subseteq job.found
  /\ job.at # "announce" => job.found = {}
  /\ \A s \in job.found : warranty[s] # NoWarranty /\ ~warranty[s].notified
  /\ \A s \in Serials :
       /\ Noted(s) => announced[s] \in 1 .. (1 + warrantyFaults)
       /\ s \in job.found \ job.todo => announced[s] \in 1 .. (1 + warrantyFaults)
       /\ ~Noted(s) /\ s \notin job.found \ job.todo => announced[s] <= warrantyFaults

WarrantyInv == WarrantyTypes /\ OnlyOne /\ MayStillClaim /\ StatusShows /\ Announcing

LEMMA FormFacts ==
  /\ FormIdle \notin Form /\ FormDone \notin Form /\ FormIdle # FormDone
  /\ \A f \in Form \union {FormIdle, FormDone} :
       f.at \in {"findSerial", "create", "readWarranty", "addClaim", "moderate"} => f \in Form
BY DEF Form, FormIdle, FormDone

LEMMA FillingIs == ASSUME WarrantyTypes, NEW r \in WarrantyRequests PROVE Filling(r) <=> form[r] \in Form
BY FormFacts DEF WarrantyTypes, Filling

LEMMA InitWarranty == WarrantyInit => WarrantyInv
<1> SUFFICES ASSUME WarrantyInit PROVE WarrantyInv
  OBVIOUS
<1>1. WarrantyTypes
  BY DEF WarrantyInit, WarrantyTypes, Claim, FreeClaim, FormIdle, JobIdle
<1>2. OnlyOne /\ MayStillClaim
  BY FormFacts DEF WarrantyInit, OnlyOne, MayStillClaim
<1>3. StatusShows /\ Announcing
  BY DEF WarrantyInit, StatusShows, Announcing, JobIdle, Noted
<1> QED
  BY <1>1, <1>2, <1>3 DEF WarrantyInv

\* The claims of a serial number are those that are not free.
LEMMA ClaimsAreTaken ==
  ASSUME WarrantyTypes, NEW s \in Serials, NEW states \in SUBSET {"PENDING", "APPROVED"}, NEW c \in ClaimsOf(s, states)
  PROVE  c \in Claims /\ claims[c] # FreeClaim /\ claims[c].of = s /\ claims[c].status \in states
BY DEF ClaimsOf, FreeClaim

\* Steps that leave warranties and claims alone keep what is said of them.
LEMMA Untouched ==
  ASSUME WarrantyInv, UNCHANGED <<warranty, claims, late>>, together \subseteq together', reopened \subseteq reopened'
  PROVE  /\ StatusShows' /\ \A s, states : ClaimsOf(s, states)' = ClaimsOf(s, states)
         /\ \A s \in Serials : Noted(s)' = Noted(s)
<1>1. \A s, states : ClaimsOf(s, states)' = ClaimsOf(s, states)
  BY DEF ClaimsOf
<1>2. \A s \in Serials : Noted(s)' = Noted(s)
  BY DEF Noted
<1> QED
  BY <1>1, <1>2 DEF WarrantyInv, StatusShows

LEMMA TimeStep == ASSUME WarrantyInv, NEW s \in Serials, TimePasses(s) PROVE WarrantyInv'
<1>1. UNCHANGED <<warranty, claims, form, job, jobs, announced, late, together, reopened, warrantyFaults>>
  BY DEF TimePasses, warrantyNotes
<1>2. WarrantyTypes'
  BY <1>1 DEF WarrantyInv, WarrantyTypes
<1>3. OnlyOne'
  BY <1>1 DEF WarrantyInv, OnlyOne
<1>4. StatusShows' /\ MayStillClaim'
  BY <1>1, Untouched DEF WarrantyInv, MayStillClaim
<1>5. Announcing'
  BY <1>1, Untouched DEF WarrantyInv, Announcing
<1> QED
  BY <1>2, <1>3, <1>4, <1>5 DEF WarrantyInv

\* One request moves on; the others stay where they are.
LEMMA FormMoves ==
  ASSUME WarrantyTypes, NEW r \in WarrantyRequests, NEW d \in Form \union {FormDone},
         form' = [form EXCEPT ![r] = d]
  PROVE  /\ form' \in [WarrantyRequests -> Form \union {FormIdle, FormDone}]
         /\ form'[r] = d /\ \A q \in WarrantyRequests \ {r} : form'[q] = form[q]
BY DEF WarrantyTypes

LEMMA FillStep ==
  ASSUME WarrantyInv, NEW r \in WarrantyRequests, NEW s \in Serials, NEW c \in Claims \union {NoWarranty},
         NEW l \in {"findSerial", "readWarranty", "moderate"}, Fill(r, l, s, c),
         l = "moderate" => c \in Claims /\ claims[c] # FreeClaim /\ claims[c].of = s
  PROVE  WarrantyInv'
<1> DEFINE d == [at |-> l, serial |-> s, claim |-> c]
<1>1. d \in Form /\ d.at = l /\ d.serial = s /\ d.claim = c
  BY DEF Form
<1>2. /\ form' = [form EXCEPT ![r] = d]
      /\ together' = IF job.at # "idle" \/ \E q \in WarrantyRequests : Filling(q) /\ form[q].serial = s
                     THEN together \union {s} ELSE together
      /\ UNCHANGED <<warranty, claims, job, announced, late, reopened, warrantyFaults>>
  BY DEF Fill
<1> HIDE DEF d
<1>3. /\ form' \in [WarrantyRequests -> Form \union {FormIdle, FormDone}]
      /\ form'[r] = d /\ \A q \in WarrantyRequests \ {r} : form'[q] = form[q]
  BY <1>1, <1>2, FormMoves DEF WarrantyInv
<1>4. WarrantyTypes'
  BY <1>1, <1>2, <1>3 DEF WarrantyInv, WarrantyTypes
<1>5. \A q \in WarrantyRequests : Filling(q) <=> form[q] \in Form
  BY FillingIs DEF WarrantyInv
<1>6. OnlyOne'
  BY <1>1, <1>2, <1>3, <1>5 DEF WarrantyInv, OnlyOne
<1>7. together \subseteq together'
  BY <1>2
<1>8. MayStillClaim'
  BY <1>1, <1>2, <1>3, <1>7, Untouched DEF WarrantyInv, MayStillClaim
<1>9. StatusShows' /\ Announcing'
  BY <1>2, <1>7, Untouched DEF WarrantyInv, Announcing
<1> QED
  BY <1>4, <1>6, <1>8, <1>9 DEF WarrantyInv

LEMMA AskSteps ==
  ASSUME WarrantyInv, NEW r \in WarrantyRequests,
         \/ \E s \in Serials : AskRegister(r, s) \/ FileClaim(r, s)
         \/ \E c \in Claims : AskModerate(r, c)
  PROVE  WarrantyInv'
<1>1. ASSUME NEW s \in Serials, AskRegister(r, s) \/ FileClaim(r, s) PROVE WarrantyInv'
  BY <1>1, FillStep DEF AskRegister, FileClaim
<1>2. ASSUME NEW c \in Claims, AskModerate(r, c) PROVE WarrantyInv'
  BY <1>2, FillStep DEF AskModerate, WarrantyInv, WarrantyTypes
<1> QED
  BY <1>1, <1>2

\* A request goes on or ends, with the warranty as it is.
LEMMA ReadsOn ==
  ASSUME WarrantyInv, NEW r \in WarrantyRequests, form[r] \in Form, NEW d \in Form \union {FormDone},
         form' = [form EXCEPT ![r] = d],
         d # FormDone => d.serial = form[r].serial /\ d.at # "moderate",
         d # FormDone /\ d.at = "addClaim" =>
           /\ warranty[d.serial] # NoWarranty
           /\ warranty[d.serial].status # "EXPIRED" /\ ClaimsOf(d.serial, {"PENDING"}) = {},
         UNCHANGED <<warranty, claims, job, announced, late, together, reopened, warrantyFaults>>
  PROVE  WarrantyInv'
<1>1. /\ form' \in [WarrantyRequests -> Form \union {FormIdle, FormDone}]
      /\ form'[r] = d /\ \A q \in WarrantyRequests \ {r} : form'[q] = form[q]
  BY FormMoves DEF WarrantyInv
<1>2. FormDone.at # "moderate" /\ FormDone \notin Form
  BY FormFacts DEF FormDone
<1>3. WarrantyTypes'
  BY <1>1, <1>2 DEF WarrantyInv, WarrantyTypes
<1>4. OnlyOne'
  BY <1>1, <1>2 DEF WarrantyInv, OnlyOne
<1>5. MayStillClaim'
  BY <1>1, <1>2, Untouched DEF WarrantyInv, MayStillClaim
<1>6. StatusShows' /\ Announcing'
  BY Untouched DEF WarrantyInv, Announcing
<1> QED
  BY <1>3, <1>4, <1>5, <1>6 DEF WarrantyInv

LEMMA LookSteps ==
  ASSUME WarrantyInv, NEW r \in WarrantyRequests, FindSerial(r) \/ ReadWarranty(r)
  PROVE  WarrantyInv'
<1>1. /\ form[r] \in Form
      /\ UNCHANGED <<warranty, claims, job, announced, late, together, reopened, warrantyFaults>>
  BY FormFacts DEF FindSerial, ReadWarranty, WarrantyInv, WarrantyTypes, warrantyNotes
<1>2. ASSUME NEW l \in {"create", "addClaim"}
      PROVE  LET d == [form[r] EXCEPT !.at = l] IN
               /\ d \in Form /\ d.at = l /\ d.serial = form[r].serial
               /\ FormAt(r, l) => form' = [form EXCEPT ![r] = d]
  BY <1>1 DEF Form, FormAt
<1>3. CASE Submit(r)
  BY <1>1, <1>3, ReadsOn DEF Submit
<1>4. CASE FormAt(r, "create")
  BY <1>1, <1>2, <1>4, ReadsOn
<1>5. CASE ReadWarranty(r) /\ ~Submit(r)
  <2>1. /\ warranty[form[r].serial] # NoWarranty /\ FormAt(r, "addClaim")
        /\ warranty[form[r].serial].status # "EXPIRED" /\ ClaimsOf(form[r].serial, {"PENDING"}) = {}
    BY <1>5 DEF ReadWarranty, MayClaim
  <2> QED
    BY <1>1, <1>2, <2>1, ReadsOn
<1> QED
  BY <1>3, <1>4, <1>5 DEF FindSerial

\* A request is over, and no other was at work on its serial number.
LEMMA FormEnds ==
  ASSUME WarrantyInv, NEW r \in WarrantyRequests, form[r] \in Form, Submit(r), UNCHANGED <<job, together>>
  PROVE  /\ form' \in [WarrantyRequests -> Form \union {FormIdle, FormDone}]
         /\ form'[r] = FormDone /\ \A q \in WarrantyRequests \ {r} : form'[q] = form[q]
         /\ OnlyOne' /\ FormDone \notin Form /\ FormDone.at = "done"
<1>1. /\ form' \in [WarrantyRequests -> Form \union {FormIdle, FormDone}]
      /\ form'[r] = FormDone /\ \A q \in WarrantyRequests \ {r} : form'[q] = form[q]
  BY FormMoves DEF WarrantyInv, Submit
<1>2. FormDone \notin Form /\ FormDone.at = "done"
  BY FormFacts DEF FormDone
<1>3. OnlyOne'
  BY <1>1, <1>2 DEF WarrantyInv, OnlyOne
<1> QED
  BY <1>1, <1>2, <1>3

LEMMA CreateStep == ASSUME WarrantyInv, NEW r \in WarrantyRequests, CreateWarranty(r) PROVE WarrantyInv'
<1>1. /\ form[r] \in Form /\ form[r].at = "create"
      /\ Submit(r) /\ UNCHANGED <<claims, job, announced, late, together, reopened, warrantyFaults>>
  BY FormFacts DEF CreateWarranty, WarrantyInv, WarrantyTypes, warrantyNotes
<1>2. PICK s \in Serials : s = form[r].serial
  BY <1>1 DEF Form
<1>3. /\ form' \in [WarrantyRequests -> Form \union {FormIdle, FormDone}]
      /\ form'[r] = FormDone /\ \A q \in WarrantyRequests \ {r} : form'[q] = form[q]
      /\ OnlyOne' /\ FormDone \notin Form /\ FormDone.at = "done"
  BY <1>1, FormEnds
<1>4. CASE warranty[s] # NoWarranty
  <2>1. warranty' = warranty
    BY <1>2, <1>4 DEF CreateWarranty
  <2>2. form' = [form EXCEPT ![r] = FormDone]
    BY <1>1 DEF Submit
  <2> QED
    BY <1>1, <2>1, <2>2, ReadsOn
<1>5. CASE warranty[s] = NoWarranty
  <2> DEFINE w == [status |-> IF distance[s] = "over" THEN "EXPIRED" ELSE "ACTIVE", notified |-> FALSE]
  <2>1. warranty' = [warranty EXCEPT ![s] = w]
    BY <1>2, <1>5 DEF CreateWarranty
  <2>2. w \in Registration /\ w.status # "CLAIM_PENDING" /\ ~w.notified
    BY DEF Registration
  <2>3. w # NoWarranty
    BY <2>2, NoWarrantyAssumption
  <2> HIDE DEF w
  <2>4. /\ warranty' \in [Serials -> Registration \union {NoWarranty}]
        /\ warranty'[s] = w /\ \A t \in Serials \ {s} : warranty'[t] = warranty[t]
    BY <2>1, <2>2 DEF WarrantyInv, WarrantyTypes
  <2>5. \A c \in Claims : claims[c].of = s => claims[c] = FreeClaim
    BY <1>5 DEF WarrantyInv, WarrantyTypes
  <2>6. WarrantyTypes'
    BY <1>1, <1>3, <2>3, <2>4 DEF WarrantyInv, WarrantyTypes
  <2>7. \A t, states : ClaimsOf(t, states)' = ClaimsOf(t, states)
    BY <1>1 DEF ClaimsOf
  <2>8. MayStillClaim'
    <3>1. \A q \in WarrantyRequests : form'[q] \in Form => form'[q] = form[q]
      BY <1>3
    <3>2. \A q \in WarrantyRequests : form[q] \in Form /\ form[q].at = "addClaim" => form[q].serial \in Serials \ {s}
      BY <1>5 DEF WarrantyInv, MayStillClaim, Form
    <3> QED
      BY <1>1, <2>4, <2>7, <3>1, <3>2 DEF WarrantyInv, MayStillClaim
  <2>9. \A states \in SUBSET {"PENDING", "APPROVED"} : ClaimsOf(s, states) = {}
    BY <2>5 DEF ClaimsOf, FreeClaim
  <2>10. StatusShows'
    <3>1. ClaimsOf(s, {"PENDING"}) = {} /\ ClaimsOf(s, OpenStatus) = {}
      BY <2>9 DEF OpenStatus
    <3> QED
      BY <1>1, <2>2, <2>4, <2>7, <3>1 DEF WarrantyInv, StatusShows
  <2>11. \A t \in Serials : Noted(t)' = Noted(t)
    BY <1>5, <2>2, <2>4 DEF Noted
  <2>12. Announcing'
    BY <1>1, <1>5, <2>4, <2>11 DEF WarrantyInv, WarrantyTypes, Announcing
  <2> QED
    BY <1>3, <2>6, <2>8, <2>10, <2>12 DEF WarrantyInv
<1> QED
  BY <1>4, <1>5

\* What becomes of the status of a warranty keeps what is said of its announcement.
LEMMA StatusOnly ==
  ASSUME WarrantyInv, UNCHANGED <<job, announced, warrantyFaults>>,
         \A s \in Serials : /\ warranty'[s] # NoWarranty <=> warranty[s] # NoWarranty
                            /\ warranty[s] # NoWarranty => warranty'[s].notified = warranty[s].notified
  PROVE  Announcing'
<1>1. \A s \in Serials : Noted(s)' = Noted(s)
  BY DEF Noted, WarrantyInv, WarrantyTypes, Registration
<1>2. job.found \subseteq Serials
  BY DEF WarrantyInv, WarrantyTypes
<1> QED
  BY <1>1, <1>2 DEF WarrantyInv, Announcing

\* A claim is added to, or changed in, those of its serial number alone.
LEMMA ClaimChanges ==
  ASSUME WarrantyInv, NEW s \in Serials, NEW c \in Claims, NEW d \in Claim,
         d.of = s, d.status # "none", claims' = [claims EXCEPT ![c] = d],
         claims[c] # FreeClaim => claims[c].of = s
  PROVE  /\ claims' \in [Claims -> Claim] /\ claims'[c] = d
         /\ \A e \in Claims \ {c} : claims'[e] = claims[e]
         /\ \A t \in Serials \ {s} : \A states : ClaimsOf(t, states)' = ClaimsOf(t, states)
         /\ \A states : ClaimsOf(s, states)' = IF d.status \in states THEN ClaimsOf(s, states) \union {c}
                                                 ELSE ClaimsOf(s, states) \ {c}
<1>1. claims' \in [Claims -> Claim] /\ claims'[c] = d /\ \A e \in Claims \ {c} : claims'[e] = claims[e]
  BY DEF WarrantyInv, WarrantyTypes
<1>2. FreeClaim.of = NoWarranty /\ NoWarranty \notin Serials
  BY NoWarrantyAssumption DEF FreeClaim
<1> QED
  BY <1>1, <1>2 DEF ClaimsOf

LEMMA AddClaimStep == ASSUME WarrantyInv, NEW r \in WarrantyRequests, AddClaim(r) PROVE WarrantyInv'
<1>1. /\ form[r] \in Form /\ form[r].at = "addClaim"
      /\ Submit(r) /\ UNCHANGED <<job, announced, together, reopened, warrantyFaults>>
  BY FormFacts DEF AddClaim, WarrantyInv, WarrantyTypes, warrantyNotes
<1>2. PICK s \in Serials : s = form[r].serial
  BY <1>1 DEF Form
<1> DEFINE d == [of |-> s, status |-> "PENDING"]
<1>3. PICK c \in Claims :
        /\ claims[c] = FreeClaim /\ claims' = [claims EXCEPT ![c] = d]
        /\ warranty' = [warranty EXCEPT ![s].status = "CLAIM_PENDING"]
        /\ late' = IF warranty[s].status = "EXPIRED" THEN late \union {c} ELSE late
  BY <1>2 DEF AddClaim
<1>4. d \in Claim /\ d.of = s /\ d.status = "PENDING"
  BY DEF Claim
<1> HIDE DEF d
<1>5. /\ form' \in [WarrantyRequests -> Form \union {FormIdle, FormDone}]
      /\ form'[r] = FormDone /\ \A q \in WarrantyRequests \ {r} : form'[q] = form[q]
      /\ OnlyOne' /\ FormDone \notin Form /\ FormDone.at = "done"
  BY <1>1, FormEnds
<1>6. /\ claims' \in [Claims -> Claim] /\ claims'[c] = d
      /\ \A e \in Claims \ {c} : claims'[e] = claims[e]
      /\ \A t \in Serials \ {s} : \A states : ClaimsOf(t, states)' = ClaimsOf(t, states)
      /\ \A states : ClaimsOf(s, states)' = IF d.status \in states THEN ClaimsOf(s, states) \union {c}
                                              ELSE ClaimsOf(s, states) \ {c}
  BY <1>3, <1>4, ClaimChanges
<1>7. warranty[s] \in Registration
  BY <1>1, <1>2 DEF WarrantyInv, WarrantyTypes, MayStillClaim
<1>8. /\ warranty' \in [Serials -> Registration \union {NoWarranty}]
      /\ warranty'[s] \in Registration /\ warranty'[s].status = "CLAIM_PENDING"
      /\ warranty'[s].notified = warranty[s].notified
      /\ \A t \in Serials \ {s} : warranty'[t] = warranty[t]
  BY <1>3, <1>7 DEF WarrantyInv, WarrantyTypes, Registration
<1>9. warranty[s] # NoWarranty /\ warranty'[s] # NoWarranty
  BY <1>7, <1>8, NoWarrantyAssumption
<1>10. WarrantyTypes'
  BY <1>1, <1>3, <1>4, <1>5, <1>6, <1>8, <1>9 DEF WarrantyInv, WarrantyTypes
<1>11. s \notin together => /\ warranty[s].status # "EXPIRED" /\ ClaimsOf(s, {"PENDING"}) = {}
                            /\ \A q \in WarrantyRequests \ {r} : form[q] \in Form => form[q].serial # s
  BY <1>1, <1>2 DEF WarrantyInv, MayStillClaim, OnlyOne
<1>12. MayStillClaim'
  BY <1>1, <1>5, <1>6, <1>8, <1>9, <1>11 DEF WarrantyInv, MayStillClaim, Form
<1>13. /\ ClaimsOf(s, {"PENDING"})' = ClaimsOf(s, {"PENDING"}) \union {c}
       /\ ClaimsOf(s, OpenStatus)' = ClaimsOf(s, OpenStatus) \union {c}
  BY <1>4, <1>6 DEF OpenStatus
<1>14. \A e \in late' : claims'[e].of \in together
  <2>1. c \notin late
    BY <1>3, NoWarrantyAssumption DEF WarrantyInv, WarrantyTypes, StatusShows, FreeClaim
  <2>2. \A e \in late : claims'[e].of \in together
    BY <1>6, <2>1 DEF WarrantyInv, WarrantyTypes, StatusShows
  <2>3. c \in late' => claims'[c].of \in together
    BY <1>3, <1>4, <1>6, <1>11, <2>1
  <2>4. late' \subseteq late \union {c}
    BY <1>3
  <2> QED
    BY <2>2, <2>3, <2>4
<1>15. StatusShows'
  BY <1>1, <1>6, <1>8, <1>11, <1>13, <1>14 DEF WarrantyInv, StatusShows, OpenStatus
<1>16. Announcing'
  BY <1>1, <1>8, <1>9, StatusOnly
<1> QED
  BY <1>5, <1>10, <1>12, <1>15, <1>16 DEF WarrantyInv

LEMMA ModerateStep ==
  ASSUME WarrantyInv, NEW r \in WarrantyRequests,
         NEW status \in {"PENDING", "APPROVED", "REJECTED", "RESOLVED"}, UpdateClaimStatus(r, status)
  PROVE  WarrantyInv'
<1>1. /\ form[r] \in Form /\ form[r].at = "moderate"
      /\ Submit(r) /\ UNCHANGED <<job, announced, late, together, warrantyFaults>>
  BY FormFacts DEF UpdateClaimStatus, WarrantyInv, WarrantyTypes
<1>2. PICK s \in Serials, c \in Claims :
        s = form[r].serial /\ c = form[r].claim /\ claims[c] # FreeClaim /\ claims[c].of = s
  BY <1>1 DEF Form, WarrantyInv, WarrantyTypes
<1> DEFINE d == [claims[c] EXCEPT !.status = status]
<1>3. /\ claims' = [claims EXCEPT ![c] = d]
      /\ warranty' = Settled(s, status)
      /\ s \notin reopened' =>
           /\ s \notin reopened /\ claims[c].status \in OpenStatus
           /\ status = "PENDING" => claims[c].status = "PENDING"
           /\ ClaimsOf(s, OpenStatus) = {c}
      /\ reopened' = reopened \/ reopened' = reopened \union {s}
  BY <1>2 DEF UpdateClaimStatus
<1>4. d \in Claim /\ d.of = s /\ d.status = status /\ status # "none"
  BY <1>2 DEF Claim, WarrantyInv, WarrantyTypes
<1> HIDE DEF d
<1>5. /\ form' \in [WarrantyRequests -> Form \union {FormIdle, FormDone}]
      /\ form'[r] = FormDone /\ \A q \in WarrantyRequests \ {r} : form'[q] = form[q]
      /\ OnlyOne' /\ FormDone \notin Form /\ FormDone.at = "done"
  BY <1>1, FormEnds
<1>6. /\ claims' \in [Claims -> Claim] /\ claims'[c] = d
      /\ \A e \in Claims \ {c} : claims'[e] = claims[e]
      /\ \A t \in Serials \ {s} : \A states : ClaimsOf(t, states)' = ClaimsOf(t, states)
      /\ \A states : ClaimsOf(s, states)' = IF d.status \in states THEN ClaimsOf(s, states) \union {c}
                                              ELSE ClaimsOf(s, states) \ {c}
  <2>1. d.of = s /\ d.status # "none" /\ claims' = [claims EXCEPT ![c] = d] /\ claims[c].of = s
    BY <1>2, <1>3, <1>4
  <2> QED
    BY <1>4, <2>1, ClaimChanges
<1>7. warranty[s] \in Registration /\ warranty[s] # NoWarranty
  BY <1>2 DEF WarrantyInv, WarrantyTypes
<1>8. /\ warranty' \in [Serials -> Registration \union {NoWarranty}]
      /\ warranty'[s] \in Registration
      /\ warranty'[s].status = IF status \in OpenStatus THEN warranty[s].status ELSE "ACTIVE"
      /\ warranty'[s].notified = warranty[s].notified
      /\ \A t \in Serials \ {s} : warranty'[t] = warranty[t]
  BY <1>3, <1>7 DEF WarrantyInv, WarrantyTypes, Registration, Settled
<1>9. warranty'[s] # NoWarranty
  BY <1>8, NoWarrantyAssumption
<1>10. c \in Claims /\ claims'[c] # FreeClaim /\ claims'[c].of = s
  BY <1>4, <1>6 DEF FreeClaim
<1>11. WarrantyTypes'
  BY <1>1, <1>2, <1>3, <1>4, <1>5, <1>6, <1>8, <1>9, <1>10 DEF WarrantyInv, WarrantyTypes
<1>12. s \notin together => \A q \in WarrantyRequests \ {r} : form[q] \in Form => form[q].serial # s
  BY <1>1, <1>2 DEF WarrantyInv, OnlyOne
<1>13. MayStillClaim'
  BY <1>1, <1>5, <1>6, <1>8, <1>9, <1>12 DEF WarrantyInv, MayStillClaim, Form
<1>14. \A e \in Claims : claims'[e].of = claims[e].of
  BY <1>2, <1>4, <1>6
<1>15. ASSUME s \notin together \union reopened'
       PROVE  /\ \A e, f \in ClaimsOf(s, {"PENDING"})' : e = f
              /\ warranty'[s].status = "CLAIM_PENDING" <=> ClaimsOf(s, OpenStatus)' # {}
  <2>1. /\ \A e, f \in ClaimsOf(s, {"PENDING"}) : e = f
        /\ warranty[s].status = "CLAIM_PENDING" <=> ClaimsOf(s, OpenStatus) # {}
    BY <1>3, <1>7, <1>15 DEF WarrantyInv, StatusShows
  <2>2. ClaimsOf(s, OpenStatus) = {c} /\ (status = "PENDING" => c \in ClaimsOf(s, {"PENDING"}))
    <3>1. ClaimsOf(s, OpenStatus) = {c} /\ (status = "PENDING" => claims[c].status = "PENDING")
      BY <1>3, <1>15
    <3>2. claims[c].status = "PENDING" => c \in ClaimsOf(s, {"PENDING"})
      BY <1>2 DEF ClaimsOf
    <3> QED
      BY <3>1, <3>2
  <2>3. ClaimsOf(s, {"PENDING"})' = IF status = "PENDING" THEN ClaimsOf(s, {"PENDING"})
                                                          ELSE ClaimsOf(s, {"PENDING"}) \ {c}
    <3>1. ClaimsOf(s, {"PENDING"})' = IF d.status \in {"PENDING"} THEN ClaimsOf(s, {"PENDING"}) \union {c}
                                                          ELSE ClaimsOf(s, {"PENDING"}) \ {c}
      BY <1>6
    <3> QED
      BY <1>4, <2>2, <3>1
  <2>4. ClaimsOf(s, OpenStatus)' = IF status \in OpenStatus THEN {c} ELSE {}
    BY <1>4, <1>6, <2>2
  <2> QED
    BY <1>8, <2>1, <2>2, <2>3, <2>4
<1>16. StatusShows'
  BY <1>1, <1>3, <1>6, <1>8, <1>14, <1>15 DEF WarrantyInv, WarrantyTypes, StatusShows
<1>17. Announcing'
  BY <1>1, <1>7, <1>8, <1>9, StatusOnly
<1> QED
  BY <1>5, <1>11, <1>13, <1>16, <1>17 DEF WarrantyInv

-----------------------------------------------------------------------------
(* The job. *)

LEMMA StartStep == ASSUME WarrantyInv, StartJob PROVE WarrantyInv'
<1>1. /\ job.at = "idle" /\ job' = [job EXCEPT !.at = "expire"]
      /\ together' = together \union {form[r].serial : r \in {r \in WarrantyRequests : Filling(r)}}
      /\ UNCHANGED <<warranty, claims, form, announced, late, reopened, warrantyFaults>>
  BY DEF StartJob
<1>2. \A r \in WarrantyRequests : form[r] \in Form => form[r].serial \in together'
  BY <1>1, FillingIs DEF WarrantyInv
<1>3. together' \subseteq Serials /\ together \subseteq together'
  BY <1>1, FillingIs DEF WarrantyInv, WarrantyTypes, Form
<1>4. /\ job' \in [at : {"idle", "expire", "find", "announce"}, found : SUBSET Serials, todo : SUBSET Serials]
      /\ job'.at = "expire" /\ job'.found = job.found /\ job'.todo = job.todo
  BY <1>1 DEF WarrantyInv, WarrantyTypes
<1>5. WarrantyTypes'
  BY <1>1, <1>3, <1>4 DEF WarrantyInv, WarrantyTypes
<1>6. OnlyOne'
  BY <1>1, <1>2 DEF OnlyOne
<1>7. MayStillClaim' /\ StatusShows'
  BY <1>1, <1>2, <1>3, Untouched DEF WarrantyInv, MayStillClaim
<1>8. Announcing'
  BY <1>1, <1>3, <1>4, Untouched DEF WarrantyInv, Announcing
<1> QED
  BY <1>5, <1>6, <1>7, <1>8 DEF WarrantyInv

\* A step of the job that changes no claim: where the job is at work, no request is alone.
LEMMA JobWrites ==
  ASSUME WarrantyInv, job.at # "idle", UNCHANGED <<claims, form, late, together, reopened>>,
         warranty' \in [Serials -> Registration \union {NoWarranty}],
         \A s \in Serials : /\ warranty'[s] # NoWarranty <=> warranty[s] # NoWarranty
                            /\ warranty[s] # NoWarranty =>
                                 (warranty'[s].status = "CLAIM_PENDING" <=> warranty[s].status = "CLAIM_PENDING"),
         job' \in [at : {"idle", "expire", "find", "announce"}, found : SUBSET Serials, todo : SUBSET Serials],
         announced' \in [Serials -> Nat], warrantyFaults' \in Nat, Announcing'
  PROVE  WarrantyInv'
<1>1. \A s, states : ClaimsOf(s, states)' = ClaimsOf(s, states)
  BY DEF ClaimsOf
<1>2. WarrantyTypes'
  BY DEF WarrantyInv, WarrantyTypes
<1>3. \A r \in WarrantyRequests : form[r] \in Form => form[r].serial \in together
  BY DEF WarrantyInv, OnlyOne
<1>4. OnlyOne'
  BY <1>3 DEF OnlyOne
<1>5. MayStillClaim'
  BY <1>3 DEF WarrantyInv, MayStillClaim, Form
<1>6. StatusShows'
  BY <1>1 DEF WarrantyInv, StatusShows
<1> QED
  BY <1>2, <1>4, <1>5, <1>6 DEF WarrantyInv

LEMMA MarkExpiredStep == ASSUME WarrantyInv, MarkExpired PROVE WarrantyInv'
<1>1. /\ job.at = "expire" /\ job' = [job EXCEPT !.at = "find"]
      /\ warranty' = [s \in Serials |-> IF s \in ActiveSerials("over")
                                    THEN [warranty[s] EXCEPT !.status = "EXPIRED"] ELSE warranty[s]]
      /\ UNCHANGED <<claims, form, announced, late, together, reopened, warrantyFaults>>
  BY DEF MarkExpired, warrantyNotes
<1>2. \A s \in ActiveSerials("over") : warranty[s] \in Registration /\ warranty[s].status = "ACTIVE"
  BY DEF ActiveSerials, WarrantyInv, WarrantyTypes
<1>3. \A s \in ActiveSerials("over") :
        LET w == [warranty[s] EXCEPT !.status = "EXPIRED"] IN
          w \in Registration /\ w.status = "EXPIRED" /\ w.notified = warranty[s].notified
  BY <1>2 DEF Registration
<1>4. warranty' \in [Serials -> Registration \union {NoWarranty}]
  BY <1>1, <1>3 DEF WarrantyInv, WarrantyTypes
<1>5. \A s \in Serials : s \notin ActiveSerials("over") => warranty'[s] = warranty[s]
  BY <1>1
<1>6. \A s \in Serials : s \in ActiveSerials("over") =>
        /\ warranty'[s] \in Registration /\ warranty'[s].status = "EXPIRED"
        /\ warranty'[s].notified = warranty[s].notified
  BY <1>1, <1>3
<1>7. \A s \in Serials : /\ warranty'[s] # NoWarranty <=> warranty[s] # NoWarranty
                         /\ warranty[s] # NoWarranty => warranty'[s].notified = warranty[s].notified
                         /\ warranty[s] # NoWarranty =>
                              (warranty'[s].status = "CLAIM_PENDING" <=> warranty[s].status = "CLAIM_PENDING")
  BY <1>2, <1>5, <1>6, NoWarrantyAssumption
<1>8. /\ job' \in [at : {"idle", "expire", "find", "announce"}, found : SUBSET Serials, todo : SUBSET Serials]
      /\ job'.at = "find" /\ job'.found = job.found /\ job'.todo = job.todo
  BY <1>1 DEF WarrantyInv, WarrantyTypes
<1>9. Announcing'
  <2>1. \A s \in Serials : Noted(s)' = Noted(s)
    BY <1>4, <1>7 DEF Noted, WarrantyInv, WarrantyTypes, Registration
  <2>2. job.found \subseteq Serials
    BY DEF WarrantyInv, WarrantyTypes
  <2> QED
    BY <1>1, <1>7, <1>8, <2>1, <2>2 DEF WarrantyInv, Announcing
<1>10. announced \in [Serials -> Nat] /\ warrantyFaults \in Nat
  BY DEF WarrantyInv, WarrantyTypes
<1> QED
  BY <1>1, <1>4, <1>7, <1>8, <1>9, <1>10, JobWrites

LEMMA FindStep == ASSUME WarrantyInv, FindExpiringWithin PROVE WarrantyInv'
<1>1. /\ job.at = "find" /\ UNCHANGED <<warranty, claims, form, announced, late, together, reopened, warrantyFaults>>
      /\ job' = IF Expiring = {} THEN JobIdle ELSE [at |-> "announce", found |-> Expiring, todo |-> Expiring]
  BY DEF FindExpiringWithin, warrantyNotes
<1>2. Expiring \subseteq Serials /\ \A s \in Expiring : warranty[s] # NoWarranty /\ ~warranty[s].notified
  BY DEF Expiring, ActiveSerials
<1>3. /\ job' \in [at : {"idle", "expire", "find", "announce"}, found : SUBSET Serials, todo : SUBSET Serials]
      /\ job'.todo = job'.found /\ job'.found \subseteq Expiring /\ (job'.at # "announce" => job'.found = {})
  BY <1>1, <1>2 DEF JobIdle
<1>4. job.found = {}
  BY <1>1 DEF WarrantyInv, Announcing
<1>5. Announcing'
  BY <1>1, <1>2, <1>3, <1>4, Untouched DEF WarrantyInv, Announcing
<1>6. /\ announced \in [Serials -> Nat] /\ warrantyFaults \in Nat
      /\ warranty \in [Serials -> Registration \union {NoWarranty}]
  BY DEF WarrantyInv, WarrantyTypes
<1> QED
  BY <1>1, <1>3, <1>5, <1>6, JobWrites

LEMMA AnnounceStep == ASSUME WarrantyInv, NEW s \in Serials, Announce(s) PROVE WarrantyInv'
<1>1. /\ job.at = "announce" /\ s \in job.todo /\ announced' = [announced EXCEPT ![s] = @ + 1]
      /\ job' = [job EXCEPT !.todo = @ \ {s}]
      /\ UNCHANGED <<warranty, claims, form, late, together, reopened, warrantyFaults>>
  BY DEF Announce, warrantyNotes
<1>2. /\ job' \in [at : {"idle", "expire", "find", "announce"}, found : SUBSET Serials, todo : SUBSET Serials]
      /\ job'.at = "announce" /\ job'.found = job.found /\ job'.todo = job.todo \ {s}
  BY <1>1 DEF WarrantyInv, WarrantyTypes
<1>3. announced[s] \in Nat /\ warrantyFaults \in Nat /\ announced[s] <= warrantyFaults /\ s \in job.found
  BY <1>1 DEF WarrantyInv, WarrantyTypes, Announcing, Noted
<1>4. /\ announced' \in [Serials -> Nat] /\ announced'[s] = announced[s] + 1
      /\ \A t \in Serials \ {s} : announced'[t] = announced[t]
  BY <1>1 DEF WarrantyInv, WarrantyTypes
<1>5. announced'[s] \in 1 .. (1 + warrantyFaults)
  BY <1>3, <1>4
<1>6. Announcing'
  <2>1. \A t \in Serials : Noted(t)' = Noted(t)
    BY <1>1 DEF Noted
  <2>2. \A t \in Serials \ {s} : t \in job'.found \ job'.todo <=> t \in job.found \ job.todo
    BY <1>2
  <2>3. s \in job'.found \ job'.todo
    BY <1>2, <1>3
  <2> QED
    BY <1>1, <1>2, <1>4, <1>5, <2>1, <2>2, <2>3 DEF WarrantyInv, Announcing
<1>7. /\ warrantyFaults \in Nat /\ warranty \in [Serials -> Registration \union {NoWarranty}]
  BY DEF WarrantyInv, WarrantyTypes
<1> QED
  BY <1>1, <1>2, <1>4, <1>6, <1>7, JobWrites

LEMMA NoteStep == ASSUME WarrantyInv, MarkAsNotified PROVE WarrantyInv'
<1>1. /\ job.at = "announce" /\ job.todo = {} /\ job' = JobIdle
      /\ warranty' = [s \in Serials |-> IF s \in job.found THEN [warranty[s] EXCEPT !.notified = TRUE] ELSE warranty[s]]
      /\ UNCHANGED <<claims, form, announced, late, together, reopened, warrantyFaults>>
  BY DEF MarkAsNotified, warrantyNotes
<1>2. \A s \in job.found : s \in Serials /\ warranty[s] \in Registration
  BY DEF WarrantyInv, WarrantyTypes, Announcing
<1>3. \A s \in job.found :
        LET w == [warranty[s] EXCEPT !.notified = TRUE] IN
          w \in Registration /\ w.notified /\ w.status = warranty[s].status
  BY <1>2 DEF Registration
<1>4. warranty' \in [Serials -> Registration \union {NoWarranty}]
  BY <1>1, <1>3 DEF WarrantyInv, WarrantyTypes
<1>5. \A s \in Serials : s \notin job.found => warranty'[s] = warranty[s]
  BY <1>1
<1>6. \A s \in job.found :
        warranty'[s] \in Registration /\ warranty'[s].notified /\ warranty'[s].status = warranty[s].status
  BY <1>1, <1>2, <1>3
<1>7. \A s \in Serials : /\ warranty'[s] # NoWarranty <=> warranty[s] # NoWarranty
                         /\ warranty[s] # NoWarranty =>
                              (warranty'[s].status = "CLAIM_PENDING" <=> warranty[s].status = "CLAIM_PENDING")
  BY <1>2, <1>5, <1>6, NoWarrantyAssumption
<1>8. /\ job' \in [at : {"idle", "expire", "find", "announce"}, found : SUBSET Serials, todo : SUBSET Serials]
      /\ job'.found = {} /\ job'.todo = {}
  BY <1>1 DEF JobIdle
<1>9. \A s \in Serials : Noted(s)' <=> Noted(s) \/ s \in job.found
  <2>1. ASSUME NEW s \in Serials, s \in job.found PROVE Noted(s)'
    BY <1>6, <1>7, <2>1, <1>2, NoWarrantyAssumption DEF Noted
  <2>2. ASSUME NEW s \in Serials, s \notin job.found PROVE Noted(s)' = Noted(s)
    BY <1>5, <2>2 DEF Noted
  <2> QED
    BY <2>1, <2>2
<1>10. Announcing'
  BY <1>1, <1>8, <1>9 DEF WarrantyInv, Announcing
<1>11. announced \in [Serials -> Nat] /\ warrantyFaults \in Nat
  BY DEF WarrantyInv, WarrantyTypes
<1> QED
  BY <1>1, <1>4, <1>7, <1>8, <1>10, <1>11, JobWrites

LEMMA JobFailsStep == ASSUME WarrantyInv, JobFails PROVE WarrantyInv'
<1>1. /\ job.at # "idle" /\ warrantyFaults' = warrantyFaults + 1 /\ job' = JobIdle
      /\ UNCHANGED <<warranty, claims, form, announced, late, together, reopened>>
  BY DEF JobFails, warrantyNotes
<1>2. /\ job' \in [at : {"idle", "expire", "find", "announce"}, found : SUBSET Serials, todo : SUBSET Serials]
      /\ job'.found = {} /\ job'.todo = {}
  BY <1>1 DEF JobIdle
<1>3. /\ announced \in [Serials -> Nat] /\ warrantyFaults \in Nat
      /\ warranty \in [Serials -> Registration \union {NoWarranty}]
  BY DEF WarrantyInv, WarrantyTypes
<1>4. Announcing'
  <2>1. \A s \in Serials : Noted(s)' = Noted(s)
    BY <1>1 DEF Noted
  <2>2. \A s \in Serials : /\ Noted(s) => announced[s] \in 1 .. (1 + warrantyFaults)
                           /\ announced[s] <= warrantyFaults + 1 /\ announced[s] \in Nat
    BY <1>3 DEF WarrantyInv, Announcing
  <2> QED
    BY <1>1, <1>2, <1>3, <2>1, <2>2 DEF WarrantyInv, Announcing
<1> QED
  BY <1>1, <1>2, <1>3, <1>4, JobWrites

LEMMA WarrantyInvNext == WarrantyInv /\ [WarrantyNext]_warrantyVars => WarrantyInv'
<1> SUFFICES ASSUME WarrantyInv, [WarrantyNext]_warrantyVars PROVE WarrantyInv'
  OBVIOUS
<1>1. CASE UNCHANGED warrantyVars
  <2>1. UNCHANGED <<warranty, claims, form, job, announced, late, together, reopened, warrantyFaults>>
    BY <1>1 DEF warrantyVars
  <2> QED
    <3>1. WarrantyTypes' /\ OnlyOne'
      BY <2>1 DEF WarrantyInv, WarrantyTypes, OnlyOne
    <3>2. MayStillClaim' /\ StatusShows'
      BY <2>1, Untouched DEF WarrantyInv, MayStillClaim
    <3>3. Announcing'
      BY <2>1, Untouched DEF WarrantyInv, Announcing
    <3> QED
      BY <3>1, <3>2, <3>3 DEF WarrantyInv
<1>2. CASE WarrantyNext
  BY <1>2, TimeStep, AskSteps, LookSteps, CreateStep, AddClaimStep, ModerateStep, StartStep, MarkExpiredStep,
     FindStep,
     AnnounceStep, NoteStep, JobFailsStep DEF WarrantyNext, FormStep
<1> QED
  BY <1>1, <1>2

\* The invariant says what the run checks.
LEMMA WarrantiesDoAgree == WarrantyInv => WarrantiesAgree
<1> SUFFICES ASSUME WarrantyInv PROVE WarrantiesAgree
  OBVIOUS
<1>1. ASSUME NEW s \in Serials \ (together \union reopened), warranty[s] # NoWarranty
      PROVE  Cardinality(ClaimsOf(s, {"PENDING"})) <= 1
  <2>1. ClaimsOf(s, {"PENDING"}) = {} \/ \E c : ClaimsOf(s, {"PENDING"}) = {c}
    <3>1. \A c, d \in ClaimsOf(s, {"PENDING"}) : c = d
      BY <1>1 DEF WarrantyInv, StatusShows
    <3> QED
      BY <3>1
  <2>2. Cardinality(ClaimsOf(s, {"PENDING"})) = 0 \/ Cardinality(ClaimsOf(s, {"PENDING"})) = 1
    BY <2>1, FS_EmptySet, FS_Singleton, Zenon
  <2> QED
    BY <2>2
<1>2. ClaimsShow
  BY <1>1 DEF WarrantyInv, StatusShows, ClaimsShow
<1>3. AnnouncedOnce
  BY DEF WarrantyInv, WarrantyTypes, Announcing, AnnouncedOnce, Noted
<1> QED
  BY <1>2, <1>3 DEF WarrantiesAgree

\* A warranty shows whether it has an open claim, and has one pending at most, but for
\* the overlaps the property names; one that ends soon is announced, and once but for
\* runs of the job that failed (warranty.service.ts, warranty-expiry.job.ts).
THEOREM WarrantiesAlwaysAgree == PeopleSpec => []WarrantiesAgree
<1>1. PeopleInit => WarrantyInv
  BY InitWarranty DEF PeopleInit
<1>2. WarrantyInv /\ [PeopleNext]_peopleVars => WarrantyInv'
  <2>1. ASSUME [PeopleNext]_peopleVars PROVE [WarrantyNext]_warrantyVars
    BY <2>1 DEF PeopleNext, peopleVars, AccessNext, ProfileNext, OfficeNext, QueueNext, officeVars
  <2> QED
    BY <2>1, WarrantyInvNext
<1> QED
  BY <1>1, <1>2, WarrantiesDoAgree, PTL DEF PeopleSpec

-----------------------------------------------------------------------------
(* The sleep quiz. *)

Slots ==
  \A w \in WorkerSlots : slot[w] # Resting =>
    /\ slot[w].quiz \in Quizzes
    /\ slot[w].at \in {"analyze", "complete", "ack", "failed", "throw"}
    /\ quizJob[slot[w].quiz] = "active"

Apart ==
  \A v, w \in WorkerSlots :
    slot[v] # Resting /\ slot[w] # Resting /\ slot[v].quiz = slot[w].quiz => v = w

Acknowledged ==
  \A w \in WorkerSlots : slot[w].at = "ack" =>
    quiz[slot[w].quiz] = "COMPLETED" /\ answer[slot[w].quiz]

Answers ==
  \A q \in Quizzes : answer[q] =>
    \/ stalls[q] > 0 \/ q \in doubted \/ quizJob[q] = "completed"
    \/ \E w \in WorkerSlots : slot[w].at = "ack" /\ slot[w].quiz = q

Tries ==
  \A q \in Quizzes :
    /\ quiz[q] = "absent" => quizJob[q] = "none"
    /\ quizJob[q] \in {"none", "toAdd", "waiting", "active"} => tries[q] < JobAttempts

QuizInv == QuizTypeOK /\ Slots /\ Apart /\ Acknowledged /\ Answers /\ Tries /\ StatusAgreesWithJob

LEMMA InitQuiz == QuizInit => QuizInv
BY NoQuizAssumption, QuizBoundsAssumption
   DEF QuizInit, QuizInv, QuizTypeOK, QuizStatus, Slots, Apart, Acknowledged, Answers, Tries,
       StatusAgreesWithJob, Resting

\* The steps of submitQuiz.
LEMMA SubmitSteps ==
  ASSUME QuizInv, NEW q \in Quizzes, CreateQuiz(q) \/ EnqueueQuiz(q) \/ EnqueueFails(q)
  PROVE  QuizInv'
BY QuizBoundsAssumption
   DEF QuizInv, QuizTypeOK, QuizStatus, Slots, Apart, Acknowledged, Answers, Tries,
       StatusAgreesWithJob, Resting, CreateQuiz, EnqueueQuiz, EnqueueFails, QuizFault

\* A job is taken by one slot.
LEMMA TakeStep == ASSUME QuizInv, NEW w \in WorkerSlots, TakeQuizJob(w) PROVE QuizInv'
BY NoQuizAssumption, QuizBoundsAssumption
   DEF QuizInv, QuizTypeOK, QuizStatus, Slots, Apart, Acknowledged, Answers, Tries,
       StatusAgreesWithJob, Resting, TakeQuizJob

\* The slot at work moves on.
LEMMA SlotMoves ==
  ASSUME QuizInv, NEW w \in WorkerSlots, NEW l \in {"analyze", "complete", "ack", "failed", "throw"},
         slot[w] # Resting, SlotAt(w, l)
  PROVE  /\ slot' \in [WorkerSlots -> [quiz : Quizzes \union {NoQuiz},
                               at : {"free", "analyze", "complete", "ack", "failed", "throw"}]]
         /\ slot'[w].at = l /\ slot'[w].quiz = slot[w].quiz /\ slot'[w] # Resting
         /\ \A v \in WorkerSlots : v # w => slot'[v] = slot[v]
BY DEF QuizInv, QuizTypeOK, Resting, SlotAt

\* The slot at work moves on, and may write what its quiz shows.
LEMMA WriteQuiz ==
  ASSUME QuizInv, NEW w \in WorkerSlots, NEW l \in {"complete", "ack", "failed", "throw"},
         slot[w].at \in {"analyze", "complete", "failed"}, SlotAt(w, l),
         NEW s \in QuizStatus, NEW a \in BOOLEAN,
         quiz' = [quiz EXCEPT ![slot[w].quiz] = s], answer' = [answer EXCEPT ![slot[w].quiz] = a],
         quizJob' = quizJob, tries' = tries, stalls' = stalls,
         doubted \subseteq doubted', doubted' \subseteq Quizzes,
         s = "COMPLETED" \/ answer[slot[w].quiz] => a,
         l = "ack" => s = "COMPLETED",
         a => answer[slot[w].quiz] \/ l = "ack" \/ slot[w].quiz \in doubted',
         s = "FAILED" => l # "ack"
  PROVE  QuizInv'
<1>1. slot[w] # Resting
  BY DEF Resting
<1>2. /\ slot' \in [WorkerSlots -> [quiz : Quizzes \union {NoQuiz},
                               at : {"free", "analyze", "complete", "ack", "failed", "throw"}]]
      /\ slot'[w].at = l /\ slot'[w].quiz = slot[w].quiz /\ slot'[w] # Resting
      /\ \A v \in WorkerSlots : v # w => slot'[v] = slot[v]
  BY <1>1, SlotMoves
<1> DEFINE q == slot[w].quiz
<1>3. q \in Quizzes /\ quizJob[q] = "active"
  BY <1>1 DEF QuizInv, Slots
<1>4. \A v \in WorkerSlots : v # w /\ slot[v].at # "free" => slot[v].quiz # q
  BY <1>1 DEF QuizInv, Apart, Resting, q
<1>5. answer[q] => stalls[q] > 0 \/ q \in doubted
  BY <1>3, <1>4 DEF QuizInv, Answers
<1> HIDE DEF q
<1>6. /\ quiz' = [quiz EXCEPT ![q] = s] /\ answer' = [answer EXCEPT ![q] = a]
      /\ answer[q] => a
      /\ a => answer[q] \/ l = "ack" \/ q \in doubted'
      /\ slot'[w].quiz = q
  BY <1>2 DEF q
<1>7. QuizTypeOK'
  BY <1>2, <1>3, <1>6 DEF QuizInv, QuizTypeOK
<1>8. Slots' /\ Apart'
  BY <1>1, <1>2, <1>3 DEF QuizInv, Slots, Apart, q
<1>9. Tries'
  BY <1>3, <1>6 DEF QuizInv, QuizTypeOK, QuizStatus, Tries
<1>10. Acknowledged'
  BY <1>2, <1>3, <1>4, <1>6 DEF QuizInv, QuizTypeOK, Acknowledged, q
<1>11. Answers'
  <2> SUFFICES ASSUME NEW p \in Quizzes, answer'[p]
               PROVE  \/ stalls[p] > 0 \/ p \in doubted' \/ quizJob[p] = "completed"
                      \/ \E v \in WorkerSlots : slot'[v].at = "ack" /\ slot'[v].quiz = p
    BY DEF Answers
  <2>1. CASE p = q
    BY <1>2, <1>3, <1>5, <1>6, <2>1 DEF QuizInv, QuizTypeOK
  <2>2. CASE p # q
    <3>1. answer[p]
      BY <1>3, <1>6, <2>2 DEF QuizInv, QuizTypeOK
    <3>2. \/ stalls[p] > 0 \/ p \in doubted \/ quizJob[p] = "completed"
          \/ \E v \in WorkerSlots : slot[v].at = "ack" /\ slot[v].quiz = p
      BY <3>1 DEF QuizInv, Answers
    <3> QED
      BY <1>2, <2>2, <3>2 DEF q
  <2> QED
    BY <2>1, <2>2
<1>12. StatusAgreesWithJob'
  <2>1. s = "FAILED" /\ a => stalls[q] > 0 \/ q \in doubted'
    BY <1>5, <1>6
  <2>2. \A p \in Quizzes \ {q} : quiz'[p] = quiz[p] /\ answer'[p] = answer[p]
    BY <1>6 DEF QuizInv, QuizTypeOK
  <2>3. quiz'[q] = s /\ answer'[q] = a /\ quizJob[q] # "completed"
    BY <1>3, <1>6 DEF QuizInv, QuizTypeOK
  <2>4. ASSUME NEW p \in Quizzes
        PROVE  /\ quiz'[p] = "COMPLETED" => answer'[p]
               /\ quizJob[p] = "completed" => quiz'[p] = "COMPLETED"
               /\ quiz'[p] = "FAILED" /\ answer'[p] => stalls[p] > 0 \/ p \in doubted'
    BY <2>1, <2>2, <2>3 DEF QuizInv, StatusAgreesWithJob
  <2> QED
    BY <2>4 DEF StatusAgreesWithJob
<1> QED
  BY <1>7, <1>8, <1>9, <1>10, <1>11, <1>12 DEF QuizInv

LEMMA SlotSteps ==
  ASSUME QuizInv, NEW w \in WorkerSlots,
         \/ AnalyzeSleepQuiz(w) \/ MarkCompleted(w) \/ AnalysisFails(w)
         \/ MarkFailed(w) \/ MarkFailedFails(w)
  PROVE  QuizInv'
<1> DEFINE q == slot[w].quiz
<1>1. slot[w].at \in {"analyze", "complete", "failed"} /\ quizJob' = quizJob /\ tries' = tries /\ stalls' = stalls
  BY DEF AnalyzeSleepQuiz, MarkCompleted, AnalysisFails, MarkFailed, MarkFailedFails
<1>2. q \in Quizzes /\ quizJob[q] = "active"
  BY <1>1 DEF QuizInv, Slots, Resting
<1>3. /\ quiz[q] \in QuizStatus /\ answer[q] \in BOOLEAN /\ doubted \subseteq Quizzes
      /\ quiz[q] = "COMPLETED" => answer[q]
      /\ quiz = [quiz EXCEPT ![q] = quiz[q]] /\ answer = [answer EXCEPT ![q] = answer[q]]
  BY <1>2 DEF QuizInv, QuizTypeOK, Tries, StatusAgreesWithJob
<1>4. CASE \E l \in {"complete", "failed", "throw"} :
             SlotAt(w, l) /\ quiz' = quiz /\ answer' = answer /\ doubted' = doubted
  BY <1>1, <1>3, <1>4, WriteQuiz
<1>5. CASE \E l \in {"failed", "ack"} :
             /\ SlotAt(w, l) /\ quiz' = [quiz EXCEPT ![q] = "COMPLETED"]
             /\ answer' = [answer EXCEPT ![q] = TRUE]
             /\ doubted' = IF l = "ack" THEN doubted ELSE doubted \union {q}
  <2>1. /\ "COMPLETED" \in QuizStatus /\ doubted \subseteq doubted' /\ doubted' \subseteq Quizzes
    BY <1>2, <1>3, <1>5 DEF QuizStatus
  <2> QED
    BY <1>1, <1>5, <2>1, WriteQuiz
<1>6. CASE /\ SlotAt(w, "throw") /\ quiz' = [quiz EXCEPT ![q] = "FAILED"]
           /\ answer' = answer /\ doubted' = doubted
  <2>1. "FAILED" \in QuizStatus
    BY DEF QuizStatus
  <2> QED
    BY <1>1, <1>3, <1>6, <2>1, WriteQuiz
<1>7. CASE AnalyzeSleepQuiz(w)
  BY <1>4, <1>7 DEF AnalyzeSleepQuiz
<1>8. CASE MarkCompleted(w)
  BY <1>5, <1>8 DEF MarkCompleted
<1>9. CASE AnalysisFails(w)
  BY <1>4, <1>5, <1>9 DEF AnalysisFails
<1>10. CASE MarkFailed(w)
  BY <1>6, <1>10 DEF MarkFailed
<1>11. CASE MarkFailedFails(w)
  BY <1>4, <1>6, <1>11 DEF MarkFailedFails
<1> QED
  BY <1>7, <1>8, <1>9, <1>10, <1>11

\* The slot is free again.
LEMMA RestSteps ==
  ASSUME QuizInv, NEW w \in WorkerSlots, QuizJobCompletes(w) \/ Rethrow(w) \/ WorkerStops(w)
  PROVE  QuizInv'
<1> DEFINE q == slot[w].quiz
<1>1. slot[w] # Resting /\ slot' = [slot EXCEPT ![w] = Resting] /\ quiz' = quiz /\ answer' = answer
      /\ doubted' = doubted
  BY DEF QuizJobCompletes, Rethrow, WorkerStops, Resting
<1>2. q \in Quizzes /\ quizJob[q] = "active" /\ tries[q] < JobAttempts
  BY <1>1 DEF QuizInv, Slots, Tries
<1>3. PICK to \in {"waiting", "completed", "failed"} :
        /\ quizJob' = [quizJob EXCEPT ![q] = to]
        /\ to = "completed" => slot[w].at = "ack"
        /\ to # "completed" /\ slot[w].at = "ack" => stalls'[q] > 0
        /\ to = "waiting" => tries'[q] < JobAttempts
        /\ tries' \in [Quizzes -> 0..JobAttempts] /\ stalls' \in [Quizzes -> Nat]
        /\ stalls'[q] >= stalls[q]
        /\ \A p \in Quizzes \ {q} : tries'[p] = tries[p] /\ stalls'[p] = stalls[p]
  <2>1. CASE QuizJobCompletes(w)
    BY <1>2, <2>1 DEF QuizJobCompletes, QuizInv, QuizTypeOK
  <2>2. CASE Rethrow(w)
    <3>1. /\ AfterThrow(q) \in {"waiting", "failed"}
          /\ AfterThrow(q) = "waiting" => tries[q] + 1 < JobAttempts
      BY DEF AfterThrow, TriesLeft
    <3>2. /\ quizJob' = [quizJob EXCEPT ![q] = AfterThrow(q)] /\ stalls' = stalls
          /\ tries' = [tries EXCEPT ![q] = @ + 1] /\ slot[w].at = "throw"
      BY <2>2 DEF Rethrow
    <3>3. /\ tries \in [Quizzes -> 0..JobAttempts] /\ stalls \in [Quizzes -> Nat]
          /\ tries[q] \in 0..JobAttempts
      BY <1>2 DEF QuizInv, QuizTypeOK
    <3> HIDE DEF q
    <3>4. tries' \in [Quizzes -> 0..JobAttempts] /\ tries'[q] = tries[q] + 1
      BY <1>2, <3>2, <3>3, QuizBoundsAssumption
    <3>5. \A p \in Quizzes \ {q} : tries'[p] = tries[p] /\ stalls'[p] = stalls[p]
      BY <3>2, <3>3
    <3>6. stalls'[q] >= stalls[q]
      BY <1>2, <3>2, <3>3
    <3>7. AfterThrow(q) = "waiting" => tries'[q] < JobAttempts
      BY <3>1, <3>4
    <3> HIDE DEF q
    <3>8. AfterThrow(q) # "completed" /\ slot[w].at # "ack"
      BY <3>1, <3>2
    <3> QED
      BY <3>1, <3>2, <3>3, <3>4, <3>5, <3>6, <3>7, <3>8
  <2>3. CASE WorkerStops(w)
    <3> DEFINE l == IF stalls[q] < StallLimit THEN "waiting" ELSE "failed"
    <3>1. /\ quizJob' = [quizJob EXCEPT ![q] = l] /\ l \in {"waiting", "failed"}
          /\ stalls' = [stalls EXCEPT ![q] = @ + 1] /\ tries' = tries
      BY <2>3 DEF WorkerStops
    <3>2. /\ tries \in [Quizzes -> 0..JobAttempts] /\ stalls \in [Quizzes -> Nat]
      BY <1>2 DEF QuizInv, QuizTypeOK
    <3> HIDE DEF q, l
    <3>3. stalls' \in [Quizzes -> Nat] /\ stalls'[q] = stalls[q] + 1
      BY <1>2, <3>1, <3>2
    <3>4. \A p \in Quizzes \ {q} : tries'[p] = tries[p] /\ stalls'[p] = stalls[p]
      BY <3>1, <3>2
    <3>5. stalls'[q] > 0 /\ stalls'[q] >= stalls[q]
      BY <1>2, <3>2, <3>3
    <3>6. tries' \in [Quizzes -> 0..JobAttempts] /\ tries'[q] < JobAttempts
      BY <1>2, <3>1, <3>2
    <3> QED
      BY <3>1, <3>3, <3>4, <3>5, <3>6
  <2> QED
    BY <2>1, <2>2, <2>3
<1> HIDE DEF q
<1>4. slot' \in [WorkerSlots -> [quiz : Quizzes \union {NoQuiz},
                               at : {"free", "analyze", "complete", "ack", "failed", "throw"}]]
  BY <1>1 DEF QuizInv, QuizTypeOK, Resting
<1>5. \A v \in WorkerSlots : v # w /\ slot[v] # Resting => slot[v].quiz # q
  BY <1>1 DEF QuizInv, Apart, q
<1>6. /\ slot'[w] = Resting
      /\ \A v \in WorkerSlots : v # w => slot'[v] = slot[v]
  BY <1>1 DEF QuizInv, QuizTypeOK
<1>7. QuizTypeOK'
  BY <1>1, <1>2, <1>3, <1>4 DEF QuizInv, QuizTypeOK
<1>8. Slots' /\ Apart'
  BY <1>2, <1>3, <1>5, <1>6 DEF QuizInv, QuizTypeOK, Slots, Apart
<1>9. Tries'
  BY <1>1, <1>2, <1>3 DEF QuizInv, QuizTypeOK, Tries
<1>10. Acknowledged'
  BY <1>1, <1>6 DEF QuizInv, Acknowledged, Resting
<1>11. Answers'
  <2> SUFFICES ASSUME NEW p \in Quizzes, answer[p]
               PROVE  \/ stalls'[p] > 0 \/ p \in doubted \/ quizJob'[p] = "completed"
                      \/ \E v \in WorkerSlots : slot'[v].at = "ack" /\ slot'[v].quiz = p
    BY <1>1 DEF Answers
  <2>1. \/ stalls[p] > 0 \/ p \in doubted \/ quizJob[p] = "completed"
        \/ \E v \in WorkerSlots : slot[v].at = "ack" /\ slot[v].quiz = p
    BY DEF QuizInv, Answers
  <2>2. CASE p = q
    BY <1>2, <1>3, <1>5, <2>1, <2>2 DEF QuizInv, QuizTypeOK, Resting
  <2>3. CASE p # q
    BY <1>2, <1>3, <1>6, <2>1, <2>3 DEF QuizInv, QuizTypeOK, q
  <2> QED
    BY <2>2, <2>3
<1>12. to = "completed" => quiz[q] = "COMPLETED"
  BY <1>3 DEF QuizInv, Acknowledged, q
<1>13. StatusAgreesWithJob'
  BY <1>1, <1>2, <1>3, <1>12 DEF QuizInv, QuizTypeOK, StatusAgreesWithJob
<1> QED
  BY <1>7, <1>8, <1>9, <1>10, <1>11, <1>13 DEF QuizInv

LEMMA QuizInvNext == QuizInv /\ [QuizNext]_quizVars => QuizInv'
<1> SUFFICES ASSUME QuizInv, [QuizNext]_quizVars PROVE QuizInv'
  OBVIOUS
<1>1. CASE UNCHANGED quizVars
  BY <1>1 DEF quizVars, QuizInv, QuizTypeOK, Slots, Apart, Acknowledged, Answers, Tries,
              StatusAgreesWithJob
<1>2. CASE QuizNext
  BY <1>2, SubmitSteps, TakeStep, SlotSteps, RestSteps DEF QuizNext, WorkerStep
<1> QED
  BY <1>1, <1>2

-----------------------------------------------------------------------------
(* The queues of notifications. *)

PostInv ==
  /\ post \in [Posts -> {"none", "waiting", "completed", "failed"}]
  /\ postTries \in [Posts -> Nat] /\ postStalls \in [Posts -> Nat] /\ postTaken \in [Posts -> BOOLEAN]
  /\ \A p \in Posts :
       /\ postTries[p] <= PostAttempts /\ postStalls[p] <= PostStallLimit + 1
       /\ post[p] \in {"none", "waiting"} =>
            postTries[p] < PostAttempts /\ postStalls[p] <= PostStallLimit
  /\ CompletedWasTaken

LEMMA InitPosts == NotificationsInit => PostInv
BY PostAssumption DEF NotificationsInit, PostInv, CompletedWasTaken

\* What a step does to one job, if it keeps to these rules, keeps the invariant.
LEMMA PostMoves ==
  ASSUME PostInv, NEW p \in Posts, post[p] \in {"none", "waiting"},
         NEW l \in {"waiting", "completed", "failed"}, NEW n \in Nat, NEW k \in Nat, NEW t \in BOOLEAN,
         PostAt(p, l), postTries' = [postTries EXCEPT ![p] = n],
         postStalls' = [postStalls EXCEPT ![p] = k], postTaken' = [postTaken EXCEPT ![p] = t],
         n <= PostAttempts, k <= PostStallLimit + 1,
         l = "waiting" => n < PostAttempts /\ k <= PostStallLimit,
         l = "completed" => t \/ ChannelOf[p] # "email",
         l = "failed" => n = PostAttempts \/ k > PostStallLimit
  PROVE  PostInv'
<1>1. /\ post' \in [Posts -> {"none", "waiting", "completed", "failed"}] /\ post'[p] = l
      /\ postTries' \in [Posts -> Nat] /\ postTries'[p] = n
      /\ postStalls' \in [Posts -> Nat] /\ postStalls'[p] = k
      /\ postTaken' \in [Posts -> BOOLEAN] /\ postTaken'[p] = t
  BY DEF PostInv, PostAt
<1>2. ASSUME NEW q \in Posts \ {p}
      PROVE  /\ post'[q] = post[q] /\ postTries'[q] = postTries[q]
             /\ postStalls'[q] = postStalls[q] /\ postTaken'[q] = postTaken[q]
  BY DEF PostInv, PostAt
<1>3. \A q \in Posts :
        /\ postTries'[q] <= PostAttempts /\ postStalls'[q] <= PostStallLimit + 1
        /\ post'[q] \in {"none", "waiting"} =>
             postTries'[q] < PostAttempts /\ postStalls'[q] <= PostStallLimit
  BY <1>1, <1>2 DEF PostInv
<1>4. CompletedWasTaken'
  BY <1>1, <1>2 DEF PostInv, CompletedWasTaken
<1> QED
  BY <1>1, <1>3, <1>4 DEF PostInv

LEMMA PostSteps ==
  ASSUME PostInv, NEW p \in Posts,
         QueuePost(p) \/ ProviderTakes(p) \/ ProviderFails(p) \/ PostStalls(p)
  PROVE  PostInv'
<1>1. /\ postTries[p] \in Nat /\ postStalls[p] \in Nat /\ postTaken[p] \in BOOLEAN
      /\ postTries = [postTries EXCEPT ![p] = postTries[p]]
      /\ postStalls = [postStalls EXCEPT ![p] = postStalls[p]]
      /\ postTaken = [postTaken EXCEPT ![p] = postTaken[p]]
  BY DEF PostInv
<1>2. post[p] \in {"none", "waiting"} /\ postTries[p] < PostAttempts /\ postStalls[p] <= PostStallLimit
  BY DEF QueuePost, ProviderTakes, ProviderFails, PostStalls, PostInv
<1>3. PostAttempts \in Nat \ {0} /\ PostStallLimit \in Nat
  BY PostAssumption
<1>4. CASE QueuePost(p)
  <2>1. PostAt(p, "waiting") /\ postTries' = postTries /\ postStalls' = postStalls /\ postTaken' = postTaken
    BY <1>4 DEF QueuePost
  <2> QED
    BY <1>1, <1>2, <1>3, <2>1, PostMoves
<1>5. CASE ProviderTakes(p)
  <2>1. /\ PostAt(p, "completed")
        /\ postTries' = [postTries EXCEPT ![p] = postTries[p]]
        /\ postStalls' = [postStalls EXCEPT ![p] = postStalls[p]]
        /\ postTaken' = [postTaken EXCEPT ![p] = TRUE]
    BY <1>1, <1>5 DEF ProviderTakes
  <2>2. postTries[p] <= PostAttempts /\ postStalls[p] <= PostStallLimit + 1
    BY <1>1, <1>2, <1>3
  <2> QED
    BY <1>1, <1>2, <2>1, <2>2, PostMoves
<1>6. CASE ProviderFails(p)
  <2>1. PICK took \in BOOLEAN : postTaken' = [postTaken EXCEPT ![p] = @ \/ took]
    BY <1>6 DEF ProviderFails
  <2> DEFINE t == postTaken[p] \/ took
  <2>2. /\ t \in BOOLEAN /\ postTaken' = [postTaken EXCEPT ![p] = t]
        /\ postStalls' = [postStalls EXCEPT ![p] = postStalls[p]]
    BY <1>1, <1>6, <2>1 DEF ProviderFails
  <2> HIDE DEF t
  <2>3. CASE ChannelOf[p] = "email"
    <3> DEFINE l == IF postTries[p] + 1 < PostAttempts THEN "waiting" ELSE "failed"
    <3>1. PostAt(p, l) /\ postTries' = [postTries EXCEPT ![p] = postTries[p] + 1]
      BY <1>6, <2>3 DEF ProviderFails, Rethrown
    <3>2. l \in {"waiting", "failed"} /\ (l = "waiting" <=> postTries[p] + 1 < PostAttempts)
      OBVIOUS
    <3> HIDE DEF l
    <3>3. /\ postTries[p] + 1 \in Nat /\ postTries[p] + 1 <= PostAttempts
          /\ l = "failed" => postTries[p] + 1 = PostAttempts
          /\ l = "waiting" => postTries[p] + 1 < PostAttempts
          /\ postStalls[p] <= PostStallLimit + 1
      BY <1>1, <1>2, <1>3, <3>2
    <3> QED
      BY <1>1, <1>2, <2>2, <3>1, <3>2, <3>3, PostMoves
  <2>4. CASE ChannelOf[p] # "email"
    <3>1. /\ PostAt(p, "completed") /\ postTries' = [postTries EXCEPT ![p] = postTries[p]]
          /\ postTries[p] <= PostAttempts /\ postStalls[p] <= PostStallLimit + 1
      BY <1>1, <1>2, <1>3, <1>6, <2>4 DEF ProviderFails, Rethrown
    <3> QED
      BY <1>1, <1>2, <2>2, <2>4, <3>1, PostMoves
  <2> QED
    BY <2>3, <2>4
<1>7. CASE PostStalls(p)
  <2>1. PICK took \in BOOLEAN : postTaken' = [postTaken EXCEPT ![p] = @ \/ took]
    BY <1>7 DEF PostStalls
  <2> DEFINE t == postTaken[p] \/ took
             l == IF postStalls[p] < PostStallLimit THEN "waiting" ELSE "failed"
  <2>2. /\ t \in BOOLEAN /\ postTaken' = [postTaken EXCEPT ![p] = t]
        /\ PostAt(p, l) /\ postStalls' = [postStalls EXCEPT ![p] = postStalls[p] + 1]
        /\ postTries' = [postTries EXCEPT ![p] = postTries[p]]
    BY <1>1, <1>7, <2>1 DEF PostStalls
  <2>3. l \in {"waiting", "failed"} /\ (l = "waiting" <=> postStalls[p] < PostStallLimit)
    OBVIOUS
  <2> HIDE DEF t, l
  <2>4. /\ postStalls[p] + 1 \in Nat /\ postStalls[p] + 1 <= PostStallLimit + 1
        /\ l = "waiting" => postStalls[p] + 1 <= PostStallLimit
        /\ l = "failed" => postStalls[p] + 1 > PostStallLimit
        /\ postTries[p] <= PostAttempts
    BY <1>1, <1>2, <1>3, <2>3
  <2> QED
    BY <1>1, <1>2, <2>2, <2>3, <2>4, PostMoves
<1> QED
  BY <1>4, <1>5, <1>6, <1>7

LEMMA PostInvNext == PostInv /\ [NotificationsNext]_notificationVars => PostInv'
<1> SUFFICES ASSUME PostInv, [NotificationsNext]_notificationVars PROVE PostInv'
  OBVIOUS
<1>1. CASE UNCHANGED postVars
  BY <1>1 DEF postVars, PostInv, CompletedWasTaken
<1>2. InboxNext \/ UNCHANGED notificationVars => UNCHANGED postVars
  BY DEF InboxNext, notificationVars, FindActiveUsers, InsertBroadcast, Register, HandleUserVerified,
         FindRecentDistinct, InsertCopies, GreetingStops, DeleteNotice
<1> QED
  BY <1>1, <1>2, PostSteps DEF NotificationsNext, PostNext

-----------------------------------------------------------------------------
(* Analytics. *)

\* An event that was tracked is in one place, another in none, and no two batches
\* share one.
PlaceInv ==
  /\ eventBuffer \subseteq Tracked /\ IsFiniteSet(eventBuffer)
  /\ Cardinality(eventBuffer) < BufferLimit
  /\ batches \subseteq SUBSET Tracked /\ dropped \subseteq Tracked
  /\ recorded \in [Tracked -> {0, 1}] /\ analyticsFaults \in Nat
  /\ \A b, c \in batches : b # c => b \cap c = {}
  /\ \A b \in batches : b \cap eventBuffer = {} /\ b \cap dropped = {}
  /\ eventBuffer \cap dropped = {}
  /\ \A e \in Tracked : recorded[e] = 1 =>
       e \notin eventBuffer /\ e \notin dropped /\ \A b \in batches : e \notin b
  /\ tracked \subseteq Tracked
  /\ \A e \in Tracked : e \in tracked <=>
       e \in eventBuffer \/ e \in dropped \/ recorded[e] = 1 \/ \E b \in batches : e \in b
  /\ dropped # {} => analyticsFaults > 0

LEMMA InitPlaces == AnalyticsInit => PlaceInv
BY BufferAssumption, FS_EmptySet DEF AnalyticsInit, PlaceInv

LEMMA TrackStep == ASSUME PlaceInv, NEW e \in Tracked, TrackEvent(e) PROVE PlaceInv'
<1> DEFINE buffer == eventBuffer \union {e}
<1>1. /\ e \notin eventBuffer /\ (\A b \in batches : e \notin b) /\ e \notin dropped /\ recorded[e] = 0
      /\ recorded' = recorded /\ dropped' = dropped /\ analyticsFaults' = analyticsFaults
      /\ tracked' = tracked \union {e}
  BY DEF TrackEvent, PlaceInv
<1>2. IsFiniteSet(buffer) /\ Cardinality(buffer) = Cardinality(eventBuffer) + 1
  BY <1>1, FS_AddElement DEF PlaceInv
<1>3. Cardinality(eventBuffer) \in Nat /\ BufferLimit \in Nat
  BY FS_CardinalityType, BufferAssumption DEF PlaceInv
<1>4. CASE Cardinality(buffer) >= BufferLimit
  <2>1. batches' = batches \union {buffer} /\ eventBuffer' = {}
    BY <1>4 DEF TrackEvent, Cleared
  <2>2. IsFiniteSet({}) /\ Cardinality({}) = 0 /\ 0 < BufferLimit
    BY FS_EmptySet, BufferAssumption
  <2> HIDE DEF buffer
  <2>3. buffer \subseteq Tracked /\ buffer \cap dropped = {} /\ \A b \in batches : b \cap buffer = {}
    BY <1>1 DEF PlaceInv, buffer
  <2>4. \A f \in Tracked : recorded[f] = 1 => f \notin buffer
    BY <1>1 DEF PlaceInv, buffer
  <2>5. \A f \in Tracked : f \in tracked' <=>
          f \in eventBuffer' \/ f \in dropped' \/ recorded'[f] = 1 \/ \E b \in batches' : f \in b
    <3>1. \A f : f \in buffer <=> f \in eventBuffer \/ f = e
      BY DEF buffer
    <3> QED
      BY <1>1, <2>1, <3>1 DEF PlaceInv
  <2>6. /\ eventBuffer' \subseteq Tracked /\ IsFiniteSet(eventBuffer') /\ Cardinality(eventBuffer') < BufferLimit
        /\ tracked' \subseteq Tracked /\ dropped' = dropped /\ recorded' = recorded
        /\ analyticsFaults' = analyticsFaults
    BY <1>1, <2>1, <2>2 DEF PlaceInv
  <2>7. batches' \subseteq SUBSET Tracked /\ \A b, c \in batches' : b # c => b \cap c = {}
    BY <2>1, <2>3 DEF PlaceInv
  <2>8. \A b \in batches' : b \cap eventBuffer' = {} /\ b \cap dropped' = {}
    BY <1>1, <2>1, <2>3 DEF PlaceInv
  <2>9. \A f \in Tracked : recorded'[f] = 1 =>
          f \notin eventBuffer' /\ f \notin dropped' /\ \A b \in batches' : f \notin b
    BY <1>1, <2>1, <2>4 DEF PlaceInv
  <2> QED
    BY <2>1, <2>5, <2>6, <2>7, <2>8, <2>9 DEF PlaceInv
<1>5. CASE Cardinality(buffer) < BufferLimit
  <2>1. batches' = batches /\ eventBuffer' = buffer
    BY <1>2, <1>3, <1>5 DEF TrackEvent
  <2> QED
    BY <1>1, <1>2, <1>5, <2>1 DEF PlaceInv
<1> QED
  BY <1>2, <1>3, <1>4, <1>5

LEMMA FlushStep == ASSUME PlaceInv, FlushBuffer PROVE PlaceInv'
<1>1. IsFiniteSet({}) /\ Cardinality({}) = 0 /\ 0 < BufferLimit
  BY FS_EmptySet, BufferAssumption
<1> QED
  BY <1>1 DEF PlaceInv, FlushBuffer, Cleared

LEMMA StoreStep ==
  ASSUME PlaceInv, NEW b \in batches, NEW some \in SUBSET b, Store(b, some),
         dropped' = dropped \union (b \ some), eventBuffer' = eventBuffer, tracked' = tracked,
         analyticsFaults' \in Nat, analyticsFaults' >= analyticsFaults,
         b \ some # {} => analyticsFaults' > 0
  PROVE  PlaceInv'
<1>1. \A e \in some : e \in Tracked /\ recorded[e] = 0
  BY DEF PlaceInv
<1>2. recorded' \in [Tracked -> {0, 1}] /\ \A e \in Tracked : recorded'[e] = IF e \in some THEN 1 ELSE recorded[e]
  BY <1>1 DEF Store, PlaceInv
<1>3. batches' = batches \ {b}
  BY DEF Store
<1>4. dropped' # {} => analyticsFaults' > 0
  BY DEF PlaceInv
<1>5. \A e \in Tracked : e \in tracked' <=>
        e \in eventBuffer' \/ e \in dropped' \/ recorded'[e] = 1 \/ \E c \in batches' : e \in c
  <2> SUFFICES ASSUME NEW e \in Tracked
               PROVE  e \in tracked <=>
                        e \in eventBuffer \/ e \in dropped' \/ recorded'[e] = 1 \/ \E c \in batches' : e \in c
    OBVIOUS
  <2>1. CASE e \in b
    BY <1>2, <2>1 DEF PlaceInv
  <2>2. CASE e \notin b
    BY <1>2, <1>3, <2>2 DEF PlaceInv
  <2> QED
    BY <2>1, <2>2
<1> QED
  BY <1>1, <1>2, <1>3, <1>4, <1>5 DEF PlaceInv

LEMMA PlaceInvNext == PlaceInv /\ [AnalyticsNext]_analyticsVars => PlaceInv'
<1> SUFFICES ASSUME PlaceInv, [AnalyticsNext]_analyticsVars PROVE PlaceInv'
  OBVIOUS
<1>1. CASE UNCHANGED analyticsVars
  BY <1>1 DEF analyticsVars, PlaceInv
<1>2. CASE BatchInserted
  <2>1. PICK b \in batches : Store(b, b)
    BY <1>2 DEF BatchInserted
  <2>2. /\ dropped' = dropped \union (b \ b) /\ eventBuffer' = eventBuffer /\ tracked' = tracked
        /\ analyticsFaults' \in Nat /\ analyticsFaults' >= analyticsFaults /\ b \ b = {}
    BY <1>2 DEF BatchInserted, PlaceInv
  <2> QED
    BY <2>1, <2>2, StoreStep
<1>3. CASE BatchFails
  <2>1. PICK b \in batches : \E some \in SUBSET b :
               Store(b, some) /\ dropped' = dropped \union (b \ some)
    BY <1>3 DEF BatchFails
  <2>2. /\ eventBuffer' = eventBuffer /\ tracked' = tracked /\ analyticsFaults' \in Nat
        /\ analyticsFaults' >= analyticsFaults /\ analyticsFaults' > 0
    BY <1>3 DEF BatchFails, PlaceInv
  <2> QED
    BY <2>1, <2>2, StoreStep
<1>4. CASE AnalyticsStops
  <2>1. IsFiniteSet({}) /\ Cardinality({}) = 0 /\ 0 < BufferLimit
    BY FS_EmptySet, BufferAssumption
  <2> QED
    BY <1>4, <2>1 DEF PlaceInv, AnalyticsStops
<1> QED
  BY <1>1, <1>2, <1>3, <1>4, TrackStep, FlushStep DEF AnalyticsNext

LEMMA OnePlace == PlaceInv => EventsCountOnce
<1> SUFFICES ASSUME PlaceInv, NEW e \in Tracked
             PROVE  recorded[e] + Cardinality({b \in batches : e \in b})
                      + (IF e \in eventBuffer THEN 1 ELSE 0) + (IF e \in dropped THEN 1 ELSE 0)
                    = (IF e \in tracked THEN 1 ELSE 0)
  BY DEF EventsCountOnce, PlaceInv
<1>1. CASE \A b \in batches : e \notin b
  <2>1. Cardinality({b \in batches : e \in b}) = 0
    BY <1>1, FS_EmptySet, Zenon
  <2>2. /\ recorded[e] \in {0, 1} /\ ~(e \in eventBuffer /\ e \in dropped)
        /\ recorded[e] = 1 => e \notin eventBuffer /\ e \notin dropped
        /\ e \in tracked <=> e \in eventBuffer \/ e \in dropped \/ recorded[e] = 1
    BY <1>1 DEF PlaceInv
  <2> QED
    BY <2>1, <2>2
<1>2. ASSUME NEW b \in batches, e \in b
      PROVE  /\ recorded[e] = 0 /\ e \notin eventBuffer /\ e \notin dropped /\ e \in tracked
             /\ {c \in batches : e \in c} = {b}
  BY <1>2 DEF PlaceInv
<1>3. ASSUME NEW b \in batches, e \in b
      PROVE  Cardinality({c \in batches : e \in c}) = 1
  <2>1. \E x : {c \in batches : e \in c} = {x}
    BY <1>2, <1>3
  <2> QED
    BY <2>1, FS_Singleton, Zenon
<1>4. ASSUME NEW b \in batches, e \in b
      PROVE  recorded[e] + Cardinality({c \in batches : e \in c})
               + (IF e \in eventBuffer THEN 1 ELSE 0) + (IF e \in dropped THEN 1 ELSE 0)
             = (IF e \in tracked THEN 1 ELSE 0)
  BY <1>2, <1>3, <1>4
<1> QED
  BY <1>1, <1>4

-----------------------------------------------------------------------------
(* Broadcasts. *)

\* A member whose USER_VERIFIED came once at most has been copied to once at most.
InboxInv ==
  /\ notices \in [Members -> [Texts -> Nat]]
  /\ \A b \in Broadcasts : cast[b].at \in {"idle", "insert", "done"}
  /\ DOMAIN cast = Broadcasts /\ copied \in [Members -> SUBSET Texts] /\ deliveries \in [Members -> Nat]
  /\ greeting \in [Members -> [at : {"idle", "recent", "copy"}, recent : [Texts -> {0, 1}]]]
  /\ \A u \in Members :
       /\ deliveries[u] = 0 => greeting[u].at = "idle" /\ copied[u] = {}
       /\ deliveries[u] = 1 /\ greeting[u].at # "idle" => copied[u] = {}
  /\ \A u \in Members, b \in Broadcasts : deliveries[u] <= 1 =>
       notices[u][b] <= (IF cast[b].at = "done" /\ u \in cast[b].to THEN 1 ELSE 0)
                          + (IF b \in copied[u] THEN 1 ELSE 0)

LEMMA InitInbox == NotificationsInit => InboxInv
BY DEF NotificationsInit, InboxInv, NoNotices, NoGreeting, Texts

\* What leaves these variables alone, and what only moves a broadcast before it is inserted.
LEMMA CastSteps ==
  ASSUME InboxInv, NEW b \in Broadcasts, FindActiveUsers(b) \/ InsertBroadcast(b)
  PROVE  InboxInv'
<1>1. CASE FindActiveUsers(b)
  BY <1>1 DEF FindActiveUsers, InboxInv
<1>2. CASE InsertBroadcast(b)
  <2>1. /\ notices' = [u \in Members |-> [notices[u] EXCEPT ![b] = @ + (IF u \in cast[b].to THEN 1 ELSE 0)]]
        /\ cast' = [cast EXCEPT ![b].at = "done"] /\ cast[b].at = "insert"
        /\ UNCHANGED <<greeting, deliveries, copied>>
    BY <1>2 DEF InsertBroadcast
  <2>2. b \in Texts /\ \A u \in Members : notices[u] \in [Texts -> Nat]
    BY DEF InboxInv, Texts
  <2>3. /\ notices' \in [Members -> [Texts -> Nat]]
        /\ \A u \in Members : /\ notices'[u][b] = notices[u][b] + (IF u \in cast[b].to THEN 1 ELSE 0)
                                  /\ \A c \in Broadcasts \ {b} : notices'[u][c] = notices[u][c]
    BY <2>1, <2>2 DEF Texts
  <2>4. /\ cast'[b].at = "done" /\ cast'[b].to = cast[b].to /\ DOMAIN cast' = Broadcasts
        /\ \A c \in Broadcasts \ {b} : cast'[c] = cast[c]
    BY <2>1 DEF InboxInv
  <2>5. ASSUME NEW u \in Members, NEW c \in Broadcasts, deliveries'[u] <= 1
        PROVE  notices'[u][c] <= (IF cast'[c].at = "done" /\ u \in cast'[c].to THEN 1 ELSE 0)
                                  + (IF c \in copied'[u] THEN 1 ELSE 0)
    <3>1. notices[u][c] <= (IF cast[c].at = "done" /\ u \in cast[c].to THEN 1 ELSE 0)
                                  + (IF c \in copied[u] THEN 1 ELSE 0)
      BY <2>1, <2>5 DEF InboxInv
    <3>2. notices[u][c] \in Nat
      BY <2>2 DEF Texts
    <3> QED
      BY <2>1, <2>3, <2>4, <3>1, <3>2
  <2> QED
    BY <2>1, <2>3, <2>4, <2>5 DEF InboxInv
<1> QED
  BY <1>1, <1>2

LEMMA WelcomeStep == ASSUME InboxInv, NEW u \in Members, HandleUserVerified(u) PROVE InboxInv'
<1>1. /\ greeting[u].at = "idle" /\ deliveries' = [deliveries EXCEPT ![u] = @ + 1]
      /\ greeting' = [greeting EXCEPT ![u].at = "recent"]
      /\ notices' = [notices EXCEPT ![u][Welcome] = @ + 1]
      /\ cast' = cast /\ copied' = copied
  BY DEF HandleUserVerified, castVars
<1>2. Welcome \in Texts /\ \A b \in Broadcasts : b \in Texts /\ b # Welcome
  BY WelcomeAssumption DEF Texts
<1>3. /\ notices' \in [Members -> [Texts -> Nat]]
      /\ \A v \in Members, b \in Broadcasts : notices'[v][b] = notices[v][b]
  BY <1>1, <1>2 DEF InboxInv
<1>4. /\ deliveries' \in [Members -> Nat] /\ deliveries'[u] = deliveries[u] + 1 /\ deliveries[u] \in Nat
      /\ \A v \in Members \ {u} : deliveries'[v] = deliveries[v] /\ greeting'[v] = greeting[v]
  BY <1>1 DEF InboxInv
<1>5. greeting' \in [Members -> [at : {"idle", "recent", "copy"}, recent : [Texts -> {0, 1}]]]
  BY <1>1 DEF InboxInv
<1>6. \A v \in Members :
        /\ deliveries'[v] = 0 => greeting'[v].at = "idle" /\ copied'[v] = {}
        /\ deliveries'[v] = 1 /\ greeting'[v].at # "idle" => copied'[v] = {}
  BY <1>1, <1>4 DEF InboxInv
<1>7. \A v \in Members, b \in Broadcasts : deliveries'[v] <= 1 => deliveries[v] <= 1
  BY <1>4
<1>8. ASSUME NEW v \in Members, NEW b \in Broadcasts, deliveries'[v] <= 1
      PROVE  notices'[v][b] <= (IF cast'[b].at = "done" /\ v \in cast'[b].to THEN 1 ELSE 0)
                                + (IF b \in copied'[v] THEN 1 ELSE 0)
  BY <1>1, <1>3, <1>7, <1>8 DEF InboxInv
<1>9. (\A b \in Broadcasts : cast'[b].at \in {"idle", "insert", "done"}) /\ DOMAIN cast' = Broadcasts
      /\ copied' \in [Members -> SUBSET Texts]
  BY <1>1 DEF InboxInv
<1> QED
  BY <1>3, <1>4, <1>5, <1>6, <1>8, <1>9 DEF InboxInv

LEMMA CopyStep == ASSUME InboxInv, NEW u \in Members, InsertCopies(u) PROVE InboxInv'
<1> DEFINE recent == greeting[u].recent
           texts == {t \in Texts : recent[t] > 0}
<1>1. /\ greeting[u].at = "copy" /\ cast' = cast /\ deliveries' = deliveries
      /\ notices' = [notices EXCEPT ![u] = [t \in Texts |-> @[t] + recent[t]]]
      /\ copied' = [copied EXCEPT ![u] = @ \union texts]
      /\ greeting' = [greeting EXCEPT ![u] = NoGreeting]
  BY DEF InsertCopies, castVars
<1>2. recent \in [Texts -> {0, 1}]
  BY DEF InboxInv
<1> HIDE DEF recent
<1>3. /\ copied' \in [Members -> SUBSET Texts] /\ copied'[u] = copied[u] \union texts
      /\ \A v \in Members \ {u} : copied'[v] = copied[v] /\ notices'[v] = notices[v] /\ greeting'[v] = greeting[v]
  BY <1>1 DEF InboxInv
<1>4. \A t \in Texts : notices[u][t] \in Nat /\ recent[t] \in {0, 1}
  BY <1>2 DEF InboxInv
<1>5. notices' \in [Members -> [Texts -> Nat]] /\ \A t \in Texts : notices'[u][t] = notices[u][t] + recent[t]
  <2>1. notices \in [Members -> [Texts -> Nat]]
    BY DEF InboxInv
  <2>2. notices' = [notices EXCEPT ![u] = [t \in Texts |-> notices[u][t] + recent[t]]]
    BY <1>1
  <2>3. [t \in Texts |-> notices[u][t] + recent[t]] \in [Texts -> Nat]
    BY <1>4
  <2> QED
    BY <2>1, <2>2, <2>3
<1>6. /\ greeting' \in [Members -> [at : {"idle", "recent", "copy"}, recent : [Texts -> {0, 1}]]]
      /\ greeting'[u].at = "idle"
  BY <1>1 DEF InboxInv, NoGreeting, NoNotices
<1>7. deliveries[u] \in Nat /\ deliveries[u] # 0 /\ (deliveries[u] = 1 => copied[u] = {})
  BY <1>1 DEF InboxInv
<1>8. \A v \in Members :
        /\ deliveries'[v] = 0 => greeting'[v].at = "idle" /\ copied'[v] = {}
        /\ deliveries'[v] = 1 /\ greeting'[v].at # "idle" => copied'[v] = {}
  BY <1>1, <1>3, <1>6, <1>7 DEF InboxInv
<1>9. ASSUME NEW v \in Members, NEW b \in Broadcasts, deliveries'[v] <= 1
      PROVE  notices'[v][b] <= (IF cast'[b].at = "done" /\ v \in cast'[b].to THEN 1 ELSE 0)
                                + (IF b \in copied'[v] THEN 1 ELSE 0)
  <2>1. notices[v][b] <= (IF cast[b].at = "done" /\ v \in cast[b].to THEN 1 ELSE 0)
                                + (IF b \in copied[v] THEN 1 ELSE 0)
    BY <1>1, <1>9 DEF InboxInv
  <2>2. CASE v # u
    BY <1>1, <1>3, <2>1, <2>2
  <2>3. CASE v = u
    <3>1. b \notin copied[u] /\ b \in Texts
      BY <1>1, <1>7, <1>9, <2>3 DEF Texts
    <3>2. notices'[u][b] = notices[u][b] + recent[b] /\ (b \in copied'[u] <=> recent[b] = 1)
      BY <1>3, <1>4, <1>5, <3>1
    <3> QED
      BY <1>1, <1>4, <2>1, <2>3, <3>1, <3>2
  <2> QED
    BY <2>2, <2>3
<1> QED
  BY <1>1, <1>3, <1>5, <1>6, <1>8, <1>9 DEF InboxInv

LEMMA GreetingSteps ==
  ASSUME InboxInv, NEW u \in Members, FindRecentDistinct(u) \/ GreetingStops(u) \/ Register(u)
  PROVE  InboxInv'
<1>1. NoGreeting \in [at : {"idle", "recent", "copy"}, recent : [Texts -> {0, 1}]] /\ NoGreeting.at = "idle"
  BY DEF NoGreeting, NoNotices
<1>2. RecentDistinct \in [Texts -> {0, 1}]
  BY DEF RecentDistinct
<1>3. CASE FindRecentDistinct(u)
  BY <1>2, <1>3 DEF FindRecentDistinct, InboxInv, castVars
<1>4. CASE GreetingStops(u)
  BY <1>1, <1>4 DEF GreetingStops, InboxInv, castVars
<1>5. CASE Register(u)
  BY <1>5 DEF Register, InboxInv
<1> QED
  BY <1>3, <1>4, <1>5

LEMMA DeleteStep ==
  ASSUME InboxInv, NEW u \in Members, NEW t \in Texts, DeleteNotice(u, t)
  PROVE  InboxInv'
<1>1. /\ notices[u][t] > 0 /\ notices' = [notices EXCEPT ![u][t] = @ - 1]
      /\ UNCHANGED <<cast, copied, greeting, deliveries>>
  BY DEF DeleteNotice, castVars
<1>2. /\ notices' \in [Members -> [Texts -> Nat]]
      /\ \A v \in Members, s \in Texts :
           notices'[v][s] \in Nat /\ notices[v][s] \in Nat /\ notices'[v][s] <= notices[v][s]
  BY <1>1 DEF InboxInv
<1>3. ASSUME NEW v \in Members, NEW b \in Broadcasts, deliveries'[v] <= 1
      PROVE  notices'[v][b] <= (IF cast'[b].at = "done" /\ v \in cast'[b].to THEN 1 ELSE 0)
                                + (IF b \in copied'[v] THEN 1 ELSE 0)
  <2>1. notices[v][b] <= (IF cast[b].at = "done" /\ v \in cast[b].to THEN 1 ELSE 0)
                                + (IF b \in copied[v] THEN 1 ELSE 0)
    BY <1>1, <1>3 DEF InboxInv
  <2>2. b \in Texts
    BY DEF Texts
  <2> QED
    BY <1>1, <1>2, <2>1, <2>2
<1> QED
  BY <1>1, <1>2, <1>3 DEF InboxInv

LEMMA InboxInvNext == InboxInv /\ [NotificationsNext]_notificationVars => InboxInv'
<1> SUFFICES ASSUME InboxInv, [NotificationsNext]_notificationVars PROVE InboxInv'
  OBVIOUS
<1>1. CASE UNCHANGED notificationVars \/ PostNext
  <2>1. UNCHANGED <<cast, notices, greeting, deliveries, copied>>
    BY <1>1 DEF notificationVars, castVars, PostNext, QueuePost, ProviderTakes, ProviderFails, PostStalls
  <2> QED
    BY <2>1 DEF InboxInv
<1>2. CASE InboxNext
  BY <1>2, CastSteps, WelcomeStep, CopyStep, GreetingSteps, DeleteStep DEF InboxNext
<1> QED
  BY <1>1, <1>2 DEF NotificationsNext

LEMMA OnceUnlessCopied == InboxInv => BroadcastsComeOnce
<1> SUFFICES ASSUME InboxInv, NEW u \in Members, NEW b \in Broadcasts, notices[u][b] > 1, ~(deliveries[u] > 1)
             PROVE  u \in cast[b].to /\ b \in copied[u]
  BY DEF BroadcastsComeOnce
<1>1. deliveries[u] \in Nat /\ notices[u][b] \in Nat
  BY DEF InboxInv, Texts
<1>2. notices[u][b] <= (IF cast[b].at = "done" /\ u \in cast[b].to THEN 1 ELSE 0)
                          + (IF b \in copied[u] THEN 1 ELSE 0)
  BY <1>1 DEF InboxInv
<1> QED
  BY <1>1, <1>2

-----------------------------------------------------------------------------
\* While one subject is at work, the others rest.
LEMMA EachInTurn ==
  ASSUME [PeopleNext]_peopleVars
  PROVE  [QuizNext]_quizVars /\ [NotificationsNext]_notificationVars /\ [AnalyticsNext]_analyticsVars
BY DEF PeopleNext, peopleVars, AccessNext, ProfileNext, OfficeNext, QueueNext, queueVars,
   NotificationsNext

\* A quiz is COMPLETED only with its answer, its job is completed only with it
\* COMPLETED, and it is FAILED with an answer only if its job stalled or the write of
\* the answer reported a failure (sleep-quiz.worker.ts); an e-mail job that completed
\* was taken by the provider, and one that is given up has used its attempts or stalled
\* more often than allowed (email.worker.ts).
THEOREM JobsAlwaysAgree == PeopleSpec => []JobsAgree
<1>1. PeopleInit => QuizInv /\ PostInv
  BY InitQuiz, InitPosts DEF PeopleInit
<1>2. QuizInv /\ PostInv /\ [PeopleNext]_peopleVars => (QuizInv /\ PostInv)'
  BY EachInTurn, QuizInvNext, PostInvNext
<1>3. QuizInv /\ PostInv => JobsAgree
  BY DEF QuizInv, PostInv, JobsAgree
<1> QED
  BY <1>1, <1>2, <1>3, PTL DEF PeopleSpec

\* A broadcast is in an inbox once, and a tracked event in the statistics once, but
\* for the deliveries and faults that the properties name (broadcast and welcome in
\* notifications.service.ts, the flush of analytics.service.ts).
THEOREM DeliveredOnceAlways == PeopleSpec => []DeliveredOnce
<1>1. PeopleInit => PlaceInv /\ InboxInv
  BY InitPlaces, InitInbox DEF PeopleInit
<1>2. PlaceInv /\ InboxInv /\ [PeopleNext]_peopleVars => (PlaceInv /\ InboxInv)'
  BY EachInTurn, PlaceInvNext, InboxInvNext
<1>3. PlaceInv /\ InboxInv => DeliveredOnce
  BY OnePlace, OnceUnlessCopied DEF DeliveredOnce
<1> QED
  BY <1>1, <1>2, <1>3, PTL DEF PeopleSpec

-----------------------------------------------------------------------------
(* Types, of all of these services.  To the invariants above the bounds on   *)
(* faults are added, who holds the lock, and that a text is in the list of   *)
(* the latest ones once.                                                     *)

\* The rest of the types of tickets and rooms.
TicketTypes ==
  /\ ticketLock \in TicketRequests \union {NoLock}
  /\ ticket.status = "OPEN" => ticket.agent = NoAgent
  /\ room \subseteq Sockets
  /\ supportFaults \in 0..MaxSupportFaults

LEMMA InitTicketTypes == SupportInit => TicketTypes
BY SupportBoundAssumption DEF SupportInit, TicketTypes

LEMMA TicketTypesNext == ClaimInv /\ TicketTypes /\ [SupportNext]_supportVars => TicketTypes'
<1> SUFFICES ASSUME ClaimInv, TicketTypes, [SupportNext]_supportVars PROVE TicketTypes'
  OBVIOUS
<1>1. ticket \in Ticket
  BY DEF ClaimInv
<1>2. CASE UNCHANGED supportVars
  BY <1>2 DEF supportVars, ticketVars, roomVars, TicketTypes
<1>3. CASE TicketLockExpires
  BY <1>3 DEF TicketLockExpires, roomVars, TicketTypes
<1>4. ASSUME NEW r \in TicketRequests, DeskStep(r) PROVE TicketTypes'
  <2>1. CASE (\E a \in Agents : AskClaim(r, a) \/ AskAssign(r, a)) \/ AskClose(r) \/ AskRate(r)
    BY <2>1 DEF AskClaim, AskAssign, AskClose, AskRate, Serve, roomVars, TicketTypes
  <2>2. CASE SetTicketLock(r) \/ DelTicketLock(r) \/ ReadTicket(r) \/ TicketUpdated(r)
    BY <2>2 DEF SetTicketLock, DelTicketLock, ReadTicket, TicketUpdated, roomVars, TicketTypes
  <2>3. CASE ClaimConversation(r) \/ UpdateConversation(r) \/ RateConversation(r)
    BY <1>1, <2>3 DEF ClaimConversation, UpdateConversation, RateConversation, roomVars, TicketTypes, Ticket
  <2>4. CASE DeskCrashes(r)
    BY <2>4, SupportBoundAssumption DEF DeskCrashes, roomVars, TicketTypes
  <2> QED
    BY <1>4, <2>1, <2>2, <2>3, <2>4 DEF DeskStep
<1>5. CASE RoomNext
  <2>1. ASSUME NEW m \in Messages, NEW s \in Sockets,
               \/ SaveMessage(m, s) \/ StampConversation(m) \/ Broadcast(m) \/ CountRoom(m)
               \/ MessageSeen(SideOf[s]) \/ MessageDelivered(SideOf[s])
        PROVE  TicketTypes'
    BY <2>1 DEF SaveMessage, StampConversation, Broadcast, CountRoom, MessageSeen, MessageDelivered, ticketVars,
       TicketTypes
  <2>2. ASSUME NEW m \in Messages, StampConversation(m) \/ Broadcast(m) \/ CountRoom(m)
        PROVE  TicketTypes'
    BY <2>2 DEF StampConversation, Broadcast, CountRoom, ticketVars, TicketTypes
  <2>3. ASSUME NEW m \in Messages, SenderCrashes(m) PROVE TicketTypes'
    BY <2>3, SupportBoundAssumption DEF SenderCrashes, ticketVars, TicketTypes
  <2>4. ASSUME NEW s \in Sockets, Join(s) \/ Disconnect(s) \/ MessageSeen(SideOf[s]) \/ MessageDelivered(SideOf[s])
        PROVE  TicketTypes'
    BY <2>4 DEF Join, Disconnect, MessageSeen, MessageDelivered, ticketVars, TicketTypes
  <2> QED
    BY <1>5, <2>1, <2>2, <2>3, <2>4 DEF RoomNext, MessageStep
<1> QED
  BY <1>2, <1>3, <1>4, <1>5 DEF SupportNext, TicketNext

LEMMA TicketsAreTyped == ClaimInv /\ TicketTypes => SupportTypeOK
BY DEF ClaimInv, TicketTypes, SupportTypeOK, Ticket

\* The job of warranties fails only so often.
FaultsOfWarranty == warrantyFaults <= MaxWarrantyFaults

LEMMA FaultsOfWarrantyNext == WarrantyInv /\ FaultsOfWarranty /\ [WarrantyNext]_warrantyVars => FaultsOfWarranty'
<1> SUFFICES ASSUME WarrantyInv, FaultsOfWarranty, [WarrantyNext]_warrantyVars PROVE FaultsOfWarranty'
  OBVIOUS
<1>1. CASE UNCHANGED warrantyFaults
  BY <1>1 DEF FaultsOfWarranty
<1>2. CASE JobFails
  BY <1>2, WarrantyBoundAssumption DEF JobFails, WarrantyInv, WarrantyTypes, FaultsOfWarranty
<1>3. WarrantyNext => UNCHANGED warrantyFaults \/ JobFails
  BY DEF WarrantyNext, FormStep, AskRegister, FileClaim, AskModerate, Fill, FindSerial, CreateWarranty, ReadWarranty,
     AddClaim, UpdateClaimStatus, TimePasses, Announce, StartJob, MarkExpired, FindExpiringWithin, MarkAsNotified
<1> QED
  BY <1>1, <1>2, <1>3 DEF warrantyVars

LEMMA WarrantiesAreTyped == WarrantyInv /\ FaultsOfWarranty => WarrantyTypeOK
BY DEF WarrantyInv, WarrantyTypes, Announcing, FaultsOfWarranty, WarrantyTypeOK

\* The texts that move to the front are in the list once, as the others are.
LEMMA FreshenedIs ==
  ASSUME recency \in Seq(Texts), IsInjective(recency), NEW texts \in SUBSET Texts
  PROVE  Freshened(texts) \in Seq(Texts) /\ IsInjective(Freshened(texts))
<1>1. IsFiniteSet(texts)
  <2>1. IsFiniteSet(Broadcasts \union {Welcome})
    BY BroadcastsAssumption, FS_AddElement
  <2> QED
    BY <2>1, FS_Subset DEF Texts
<1>2. Cardinality(texts) \in Nat /\ ExistsBijection(1 .. Cardinality(texts), texts)
  BY <1>1, FS_CardinalityType
<1>3. PICK front : front = SetToSeq(texts)
  OBVIOUS
<1>4. front \in [1 .. Cardinality(texts) -> texts] /\ IsInjective(front)
  <2>1. \E f \in [1 .. Cardinality(texts) -> texts] : IsInjective(f)
    BY <1>2 DEF ExistsBijection, Bijection, Injection
  <2> QED
    BY <1>3, <2>1 DEF SetToSeq
<1>5. PICK back : back = Dropping(recency, texts)
  OBVIOUS
<1>6. back \in Seq(Texts) /\ ToSet(back) \cap texts = {} /\ IsInjective(back)
  BY <1>5, DroppingKeeps
<1>7. front \in Seq(Texts) /\ DOMAIN front = 1 .. Len(front) /\ Len(front) \in Nat
  BY <1>2, <1>4
<1>8. DOMAIN back = 1 .. Len(back) /\ Len(back) \in Nat
  BY <1>6
<1>9. PICK all : all = front \o back
  OBVIOUS
<1>10. /\ all \in Seq(Texts) /\ DOMAIN all = 1 .. Len(front) + Len(back)
       /\ \A n \in 1 .. Len(front) : all[n] = front[n]
       /\ \A n \in 1 .. Len(back) : all[Len(front) + n] = back[n]
  BY <1>6, <1>7, <1>8, <1>9
<1>11. \A n \in 1 .. Len(front) : all[n] \in texts
  BY <1>4, <1>7, <1>10
<1>12. \A n \in 1 .. Len(front) + Len(back) : n > Len(front) =>
         /\ n - Len(front) \in 1 .. Len(back) /\ all[n] = back[n - Len(front)] /\ all[n] \notin texts
  <2> SUFFICES ASSUME NEW n \in 1 .. Len(front) + Len(back), n > Len(front)
               PROVE  /\ n - Len(front) \in 1 .. Len(back) /\ all[n] = back[n - Len(front)] /\ all[n] \notin texts
    OBVIOUS
  <2>1. PICK k : k = n - Len(front)
    OBVIOUS
  <2>2. k \in 1 .. Len(back) /\ n = Len(front) + k
    BY <1>7, <1>8, <2>1
  <2>3. back[k] \in ToSet(back)
    BY <1>8, <2>2 DEF ToSet
  <2> QED
    BY <1>6, <1>10, <2>1, <2>2, <2>3
<1>13. IsInjective(all)
  <2> SUFFICES ASSUME NEW a \in 1 .. Len(front) + Len(back), NEW b \in 1 .. Len(front) + Len(back), all[a] = all[b]
               PROVE  a = b
    BY <1>10 DEF IsInjective
  <2>1. CASE a <= Len(front)
    <3>1. b <= Len(front)
      BY <1>7, <1>11, <1>12, <2>1
    <3>2. a \in DOMAIN front /\ b \in DOMAIN front /\ front[a] = front[b]
      BY <1>7, <1>10, <2>1, <3>1
    <3> QED
      BY <1>4, <3>2 DEF IsInjective
  <2>2. CASE a > Len(front)
    <3>1. b > Len(front)
      BY <1>7, <1>11, <1>12, <2>2
    <3>2. /\ a - Len(front) \in DOMAIN back /\ b - Len(front) \in DOMAIN back
          /\ back[a - Len(front)] = back[b - Len(front)]
      BY <1>8, <1>12, <2>2, <3>1
    <3>3. a - Len(front) = b - Len(front)
      BY <1>6, <3>2 DEF IsInjective
    <3> QED
      BY <1>7, <1>8, <3>3
  <2> QED
    BY <1>7, <2>1, <2>2
<1> QED
  BY <1>3, <1>5, <1>9, <1>10, <1>13 DEF Freshened

\* The rest of the types of inboxes and of jobs.
InboxTypes ==
  /\ joined \subseteq Members
  /\ recency \in Seq(Texts) /\ IsInjective(recency)
  /\ \A b \in Broadcasts : cast[b].to \subseteq joined
  /\ \A u \in Members : deliveries[u] <= MaxDeliveries

LEMMA InitInboxTypes == NotificationsInit => InboxTypes
BY InboxBoundAssumption DEF NotificationsInit, InboxTypes, IsInjective

LEMMA InboxTypesNext == InboxInv /\ InboxTypes /\ [NotificationsNext]_notificationVars => InboxTypes'
<1> SUFFICES ASSUME InboxInv, InboxTypes, [NotificationsNext]_notificationVars PROVE InboxTypes'
  OBVIOUS
<1>1. DOMAIN cast = Broadcasts /\ deliveries \in [Members -> Nat]
  BY DEF InboxInv
<1>2. CASE UNCHANGED notificationVars
  BY <1>2 DEF notificationVars, castVars, postVars, InboxTypes
<1>3. ASSUME NEW b \in Broadcasts, FindActiveUsers(b)
      PROVE  InboxTypes'
  BY <1>1, <1>3 DEF FindActiveUsers, postVars, InboxTypes
<1>4. ASSUME NEW b \in Broadcasts, InsertBroadcast(b)
      PROVE  InboxTypes'
  <2>1. recency' = Freshened({b}) /\ {b} \in SUBSET Texts
    BY <1>4 DEF InsertBroadcast, Texts
  <2>2. recency' \in Seq(Texts) /\ IsInjective(recency')
    BY <2>1, FreshenedIs DEF InboxTypes
  <2>3. \A c \in Broadcasts : cast'[c].to = cast[c].to
    BY <1>1, <1>4 DEF InsertBroadcast
  <2> QED
    BY <1>4, <2>2, <2>3 DEF InsertBroadcast, postVars, InboxTypes
<1>5. ASSUME NEW u \in Members, Register(u) \/ FindRecentDistinct(u) \/ GreetingStops(u)
                                  \/ \E t \in Texts : DeleteNotice(u, t)
      PROVE  InboxTypes'
  BY <1>5 DEF Register, FindRecentDistinct, GreetingStops, DeleteNotice, castVars, postVars, InboxTypes
<1>6. ASSUME NEW u \in Members, HandleUserVerified(u)
      PROVE  InboxTypes'
  <2>1. recency' = Freshened({Welcome}) /\ {Welcome} \in SUBSET Texts
    BY <1>6 DEF HandleUserVerified, Texts
  <2>2. recency' \in Seq(Texts) /\ IsInjective(recency')
    BY <2>1, FreshenedIs DEF InboxTypes
  <2>3. \A v \in Members : deliveries'[v] <= MaxDeliveries
    BY <1>1, <1>6, InboxBoundAssumption DEF HandleUserVerified, InboxTypes
  <2> QED
    BY <1>6, <2>2, <2>3 DEF HandleUserVerified, castVars, postVars, InboxTypes
<1>7. ASSUME NEW u \in Members, InsertCopies(u)
      PROVE  InboxTypes'
  <2>1. PICK texts \in SUBSET Texts : recency' = Freshened(texts)
    BY <1>7 DEF InsertCopies
  <2>2. recency' \in Seq(Texts) /\ IsInjective(recency')
    BY <2>1, FreshenedIs DEF InboxTypes
  <2> QED
    BY <1>7, <2>2 DEF InsertCopies, castVars, postVars, InboxTypes
<1>8. ASSUME NEW p \in Posts, QueuePost(p) \/ ProviderTakes(p) \/ ProviderFails(p) \/ PostStalls(p)
      PROVE  InboxTypes'
  BY <1>8 DEF QueuePost, ProviderTakes, ProviderFails, PostStalls, castVars, InboxTypes
<1> QED
  BY <1>2, <1>3, <1>4, <1>5, <1>6, <1>7, <1>8 DEF NotificationsNext, InboxNext, PostNext

LEMMA InboxesAreTyped == InboxInv /\ PostInv /\ InboxTypes => NotificationsTypeOK
<1> SUFFICES ASSUME InboxInv, PostInv, InboxTypes PROVE NotificationsTypeOK
  OBVIOUS
<1>1. ToSet(recency) \subseteq Texts
  BY DEF InboxTypes, ToSet
<1>2. \A u \in Members : greeting[u].at \in {"idle", "recent", "copy"}
  BY DEF InboxInv
<1> QED
  BY <1>1, <1>2 DEF InboxInv, PostInv, InboxTypes, NotificationsTypeOK

-----------------------------------------------------------------------------
\* What is inductive of all accounts and services together.
AllInv ==
  /\ OnceInv /\ LoginInv /\ ProfileInv /\ AuditInv /\ ClaimInv /\ WarrantyInv /\ QuizInv
  /\ PostInv /\ InboxInv /\ PlaceInv
AllTypes ==
  /\ CodeTypes /\ LoginTypes /\ UserTypes /\ AdminTypes /\ TicketTypes /\ FaultsOfWarranty /\ InboxTypes

LEMMA OthersRest ==
  ASSUME [PeopleNext]_peopleVars
  PROVE  /\ [CodesNext]_codeVars /\ [LoginsNext]_loginVars /\ [UsersNext]_userVars
         /\ [AdminNext]_adminVars /\ [SupportNext]_supportVars /\ [WarrantyNext]_warrantyVars
BY DEF PeopleNext, peopleVars, AccessNext, accessVars, ProfileNext, UsersNext, OfficeNext, officeVars,
   SupportNext, QueueNext

LEMMA AllInvNext == AllInv /\ [PeopleNext]_peopleVars => AllInv'
<1> SUFFICES ASSUME AllInv, [PeopleNext]_peopleVars PROVE AllInv'
  OBVIOUS
<1>1. OnceInv' /\ LoginInv' /\ ProfileInv' /\ AuditInv'
  BY OthersRest, OnceInvNext, LoginNext, ProfileInvNext, AuditInvNext DEF AllInv
<1>2. ClaimInv' /\ WarrantyInv'
  BY OthersRest, ClaimInvNext, WarrantyInvNext DEF AllInv
<1>3. QuizInv' /\ PostInv' /\ InboxInv' /\ PlaceInv'
  BY EachInTurn, QuizInvNext, PostInvNext, InboxInvNext, PlaceInvNext DEF AllInv
<1> QED
  BY <1>1, <1>2, <1>3 DEF AllInv

LEMMA AllTypesNext == AllInv /\ AllTypes /\ [PeopleNext]_peopleVars => AllTypes'
<1> SUFFICES ASSUME AllInv, AllTypes, [PeopleNext]_peopleVars PROVE AllTypes'
  OBVIOUS
<1>1. CodeTypes' /\ LoginTypes' /\ UserTypes' /\ AdminTypes'
  BY OthersRest, CodeTypesNext, LoginTypesNext, UserTypesNext, AdminTypesNext DEF AllInv, AllTypes
<1>2. TicketTypes' /\ FaultsOfWarranty' /\ InboxTypes'
  BY OthersRest, EachInTurn, TicketTypesNext, FaultsOfWarrantyNext, InboxTypesNext DEF AllInv, AllTypes
<1> QED
  BY <1>1, <1>2 DEF AllTypes

\* Every variable of these services has its type: so an address book has its ids
\* once and from those that were given out, a user has no more devices than the
\* limit and each once (users.repository.ts), no ticket that is open has an agent
\* (support-chat.repository.ts), and no audit log has more entries than requests
\* (admin.service.ts).
THEOREM PeopleTypesCorrect == PeopleSpec => []PeopleTypesOK
<1>1. PeopleInit => AllInv /\ AllTypes
  <2>1. PeopleInit => AllInv
    BY InitOnce, InitLogin, InitProfile, InitAudit, InitClaims, InitWarranty, InitQuiz, InitPosts, InitInbox,
       InitPlaces DEF PeopleInit, AllInv
  <2>2. PeopleInit => AllTypes
    BY InitCodeTypes, InitLoginTypes, InitUserTypes, InitAdminTypes, InitTicketTypes, WarrantyBoundAssumption,
       InitInboxTypes DEF PeopleInit, AllTypes, WarrantyInit, FaultsOfWarranty
  <2> QED
    BY <2>1, <2>2
<1>2. AllInv /\ AllTypes /\ [PeopleNext]_peopleVars => (AllInv /\ AllTypes)'
  BY AllInvNext, AllTypesNext
<1>3. AllInv /\ AllTypes => PeopleTypesOK
  <2> SUFFICES ASSUME AllInv, AllTypes PROVE PeopleTypesOK
    OBVIOUS
  <2>1. CodesTypeOK /\ LoginsTypeOK /\ UsersTypeOK /\ AdminTypeOK
    BY CodesAreTyped, LoginsAreTyped, UsersAreTyped, AdminIsTyped DEF AllInv, AllTypes
  <2>2. SupportTypeOK /\ WarrantyTypeOK /\ NotificationsTypeOK
    BY TicketsAreTyped, WarrantiesAreTyped, InboxesAreTyped DEF AllInv, AllTypes
  <2>3. QuizTypeOK
    BY DEF AllInv, QuizInv
  <2>4. AnalyticsTypeOK
    BY DEF AllInv, PlaceInv, AnalyticsTypeOK
  <2> QED
    BY <2>1, <2>2, <2>3, <2>4 DEF PeopleTypesOK
<1> QED
  BY <1>1, <1>2, <1>3, PTL DEF PeopleSpec
=============================================================================
