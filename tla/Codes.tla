------------------------------- MODULE Codes -------------------------------
(***************************************************************************)
(* One-time codes (otp.service.ts) and what they are for (auth.service.ts):*)
(* the registration of a user, the verification of the email address or    *)
(* phone number, and the reset of a forgotten password.  A code, the       *)
(* cooldown between codes, the count of wrong guesses and the lockout are  *)
(* Redis keys; every command is a step, and a request's commands come in   *)
(* the order in which it sends them.                                       *)
(*                                                                         *)
(* One user, with an identifier per kind of code.  Codes are numbered as   *)
(* they are issued: that two are equal by chance is left out, and so is    *)
(* the mail that carries them.  A password is the request that set it.     *)
(* What a reset does to sessions is in Sessions.                           *)
(***************************************************************************)
EXTENDS Naturals, FiniteSets

CONSTANTS
  Kinds,            \* "email-verify", "phone-verify", "password-reset"
  IdOf,             \* the identifier that goes with a kind
  CodeRequests,     \* requests, each served once
  GuessLimit,       \* MAX_ATTEMPTS: 5
  MaxCodes,         \* bound of a run
  MaxCodeFaults,
  Nobody

ASSUME GuessLimitAssumption == GuessLimit \in Nat \ {0}
ASSUME KindsAssumption == Kinds \subseteq {"email-verify", "phone-verify", "password-reset"}

VARIABLES
  registered, verified, password,  \* the user
  code,          \* by kind: the number of the code in Redis, 0 if none
  cooldown,      \* the kinds that have one
  guesses,       \* by identifier: vitaform:otp:attempts, 0 if there is no such key
  guessesTTL,    \* the identifiers whose key of guesses expires
  lockout,       \* the identifiers that are locked
  ask,           \* by request: where it is and what it holds
  issued,        \* codes so far
  accepted,      \* codes that were accepted (history)
  reused,        \* codes that were accepted more than once (history)
  shared,        \* codes that two requests held at once, or a crash left (history)
  wrongs,        \* wrong guesses that count, by identifier (history)
  codeFaults

codeVars == <<registered, verified, password, code, cooldown, guesses, guessesTTL, lockout,
              ask, issued, accepted, reused, shared, wrongs, codeFaults>>

account == <<registered, verified, password>>
limits == <<guesses, guessesTTL, lockout, wrongs>>
told == <<accepted, reused, shared>>

Identifiers == {IdOf[k] : k \in Kinds}
Idle == [at |-> "idle"]
Answered == [at |-> "done"]
InFlight(r) == ask[r] \notin {Idle, Answered}
AskAt(r, l) == ask' = [ask EXCEPT ![r].at = l]
Answer(r) == ask' = [ask EXCEPT ![r] = Answered]
Id(r) == IdOf[ask[r].kind]

\* The codes a registration creates.
FirstKinds == Kinds \ {"password-reset"}

CodesInit ==
  /\ registered = FALSE /\ verified = FALSE /\ password = Nobody
  /\ code = [k \in Kinds |-> 0]
  /\ cooldown = {}
  /\ guesses = [i \in Identifiers |-> 0]
  /\ guessesTTL = {} /\ lockout = {}
  /\ ask = [r \in CodeRequests |-> Idle]
  /\ issued = 0
  /\ accepted = {} /\ reused = {} /\ shared = {}
  /\ wrongs = [i \in Identifiers |-> 0]
  /\ codeFaults = 0

-----------------------------------------------------------------------------
(* register *)

FindAccount(r) ==
  /\ ask[r] = Idle
  /\ IF registered THEN Answer(r) ELSE ask' = [ask EXCEPT ![r] = [at |-> "create"]]
  /\ UNCHANGED <<account, code, cooldown, limits, issued, told, codeFaults>>

\* The transaction of the user and the event; the unique indexes refuse a second.
CreateAccount(r) ==
  /\ ask[r].at = "create"
  /\ IF registered
     THEN Answer(r) /\ UNCHANGED <<registered, password>>
     ELSE /\ registered' = TRUE
          /\ password' = r
          /\ ask' = [ask EXCEPT ![r] = [at |-> "cooldown", todo |-> FirstKinds]]
  /\ UNCHANGED <<verified, code, cooldown, limits, issued, told, codeFaults>>

\* resendOtp, and forgotPassword for a code of kind password-reset.
AskForCode(r, k) ==
  /\ ask[r] = Idle
  /\ IF registered THEN ask' = [ask EXCEPT ![r] = [at |-> "cooldown", todo |-> {k}]] ELSE Answer(r)
  /\ UNCHANGED <<account, code, cooldown, limits, issued, told, codeFaults>>

-----------------------------------------------------------------------------
(* createOtp, for each kind to do; one that throws does not stop the others. *)

CheckCooldown(r) ==
  /\ ask[r].at = "cooldown"
  /\ \E k \in ask[r].todo :
       LET left == ask[r].todo \ {k} IN
         IF k \in cooldown
         THEN ask' = [ask EXCEPT ![r] = IF left = {} THEN Answered ELSE [at |-> "cooldown", todo |-> left]]
         ELSE ask' = [ask EXCEPT ![r] = [at |-> "setCode", todo |-> @.todo, kind |-> k]]
  /\ UNCHANGED <<account, code, cooldown, limits, issued, told, codeFaults>>

SetCode(r) ==
  /\ ask[r].at = "setCode"
  /\ issued < MaxCodes
  /\ issued' = issued + 1
  /\ code' = [code EXCEPT ![ask[r].kind] = issued + 1]
  /\ AskAt(r, "setCooldown")
  /\ UNCHANGED <<account, cooldown, limits, told, codeFaults>>

SetCooldown(r) ==
  /\ ask[r].at = "setCooldown"
  /\ cooldown' = cooldown \union {ask[r].kind}
  /\ LET left == ask[r].todo \ {ask[r].kind} IN
       ask' = [ask EXCEPT ![r] = IF left = {} THEN Answered ELSE [at |-> "cooldown", todo |-> left]]
  /\ UNCHANGED <<account, code, limits, issued, told, codeFaults>>

-----------------------------------------------------------------------------
(* verifyOtp, for verifyEmail, verifyPhone and resetPassword *)

\* A guess is a code that was issued, or wrong.
Guess(r, k, n) ==
  /\ ask[r] = Idle
  /\ n \in 0..issued
  /\ IF k = "password-reset" /\ ~registered THEN Answer(r)
     ELSE ask' = [ask EXCEPT ![r] = [at |-> "lockout", kind |-> k, guess |-> n]]
  /\ UNCHANGED <<account, code, cooldown, limits, issued, told, codeFaults>>

CheckLockout(r) ==
  /\ ask[r].at = "lockout"
  /\ IF Id(r) \in lockout THEN Answer(r) ELSE AskAt(r, "get")
  /\ UNCHANGED <<account, code, cooldown, limits, issued, told, codeFaults>>

\* Whether another request holds code n, accepted and not yet deleted.
Held(n, r) == \E q \in CodeRequests \ {r} : ask[q].at = "delCode" /\ ask[q].guess = n

GetCode(r) ==
  /\ ask[r].at = "get"
  /\ LET n == code[ask[r].kind]  hit == n # 0 /\ n = ask[r].guess IN
       /\ CASE n = 0 -> Answer(r)
            [] hit -> AskAt(r, "delCode")
            [] OTHER -> AskAt(r, "incr")
       /\ accepted' = IF hit THEN accepted \union {n} ELSE accepted
       /\ reused' = IF hit /\ n \in accepted THEN reused \union {n} ELSE reused
       /\ shared' = IF hit /\ Held(n, r) THEN shared \union {n} ELSE shared
  /\ UNCHANGED <<account, code, cooldown, limits, issued, codeFaults>>

\* Variant: the code that was right stays.
KeepCode(r) ==
  /\ ask[r].at = "delCode"
  /\ AskAt(r, "delGuesses")
  /\ UNCHANGED <<account, code, cooldown, limits, issued, told, codeFaults>>

DelCode(r) ==
  /\ ask[r].at = "delCode"
  /\ code' = [code EXCEPT ![ask[r].kind] = 0]
  /\ AskAt(r, "delGuesses")
  /\ UNCHANGED <<account, cooldown, limits, issued, told, codeFaults>>

ForgetGuesses(i) ==
  /\ guesses' = [guesses EXCEPT ![i] = 0]
  /\ guessesTTL' = guessesTTL \ {i}

DelGuesses(r) ==
  /\ ask[r].at = "delGuesses"
  /\ ForgetGuesses(Id(r))
  /\ wrongs' = [wrongs EXCEPT ![Id(r)] = 0]
  /\ AskAt(r, "delLockout")
  /\ UNCHANGED <<account, code, cooldown, lockout, issued, told, codeFaults>>

DelLockout(r) ==
  /\ ask[r].at = "delLockout"
  /\ lockout' = lockout \ {Id(r)}
  /\ wrongs' = [wrongs EXCEPT ![Id(r)] = 0]
  /\ AskAt(r, "use")
  /\ UNCHANGED <<account, code, cooldown, guesses, guessesTTL, issued, told, codeFaults>>

\* The transaction at the end: isVerified, or the new password, with its event.
UseCode(r) ==
  /\ ask[r].at = "use"
  /\ IF ask[r].kind = "password-reset"
     THEN password' = r /\ UNCHANGED verified
     ELSE verified' = registered /\ UNCHANGED password
  /\ Answer(r)
  /\ UNCHANGED <<registered, code, cooldown, limits, issued, told, codeFaults>>

-----------------------------------------------------------------------------
(* recordFailedAttempt *)

\* Variant: a key that exists already gets the expiry.
LaterGuess(n) == n = 2
FirstGuess(n) == n = 1

\* Variant: one guess more.
LimitPassed(n) == n > GuessLimit
LimitReached(n) == n >= GuessLimit

AfterIncr(n) == IF FirstGuess(n) THEN "expire" ELSE IF LimitReached(n) THEN "lock" ELSE "done"
AfterExpire(n) == IF LimitReached(n) THEN "lock" ELSE "done"
GoOn(r, l, n) ==
  ask' = [ask EXCEPT ![r] = IF l = "done" THEN Answered ELSE [at |-> l, kind |-> @.kind, count |-> n]]

IncrGuesses(r) ==
  /\ ask[r].at = "incr"
  /\ LET n == guesses[Id(r)] + 1 IN
       /\ guesses' = [guesses EXCEPT ![Id(r)] = n]
       /\ GoOn(r, AfterIncr(n), n)
  /\ wrongs' = [wrongs EXCEPT ![Id(r)] = @ + 1]
  /\ UNCHANGED <<account, code, cooldown, guessesTTL, lockout, issued, told, codeFaults>>

ExpireGuesses(r) ==
  /\ ask[r].at = "expire"
  /\ guessesTTL' = IF guesses[Id(r)] = 0 THEN guessesTTL ELSE guessesTTL \union {Id(r)}
  /\ GoOn(r, AfterExpire(ask[r].count), ask[r].count)
  /\ UNCHANGED <<account, code, cooldown, guesses, lockout, wrongs, issued, told, codeFaults>>

SetLockout(r) ==
  /\ ask[r].at = "lock"
  /\ lockout' = lockout \union {Id(r)}
  /\ AskAt(r, "restart")
  /\ UNCHANGED <<account, code, cooldown, guesses, guessesTTL, wrongs, issued, told, codeFaults>>

\* Should a right code have lifted the lockout since, the deletion of the count
\* takes with it the wrong guesses that came after.
RestartGuesses(r) ==
  /\ ask[r].at = "restart"
  /\ ForgetGuesses(Id(r))
  /\ wrongs' = [wrongs EXCEPT ![Id(r)] = IF Id(r) \in lockout THEN @ ELSE 0]
  /\ Answer(r)
  /\ UNCHANGED <<account, code, cooldown, lockout, issued, told, codeFaults>>

-----------------------------------------------------------------------------
(* Time and faults.  The lockout lasts an hour: it outlives the request that *)
(* set it.                                                                   *)

CodeExpires(k) ==
  /\ code[k] # 0
  /\ code' = [code EXCEPT ![k] = 0]
  /\ UNCHANGED <<account, cooldown, limits, ask, issued, told, codeFaults>>

CooldownExpires(k) ==
  /\ k \in cooldown
  /\ cooldown' = cooldown \ {k}
  /\ UNCHANGED <<account, code, limits, ask, issued, told, codeFaults>>

GuessesExpire(i) ==
  /\ i \in guessesTTL
  /\ ForgetGuesses(i)
  /\ wrongs' = [wrongs EXCEPT ![i] = IF i \in lockout THEN @ ELSE 0]
  /\ UNCHANGED <<account, code, cooldown, lockout, ask, issued, told, codeFaults>>

LockoutExpires(i) ==
  /\ i \in lockout
  /\ ~\E r \in CodeRequests : ask[r].at = "restart" /\ Id(r) = i
  /\ lockout' = lockout \ {i}
  /\ wrongs' = [wrongs EXCEPT ![i] = 0]
  /\ UNCHANGED <<account, code, cooldown, guesses, guessesTTL, ask, issued, told, codeFaults>>

CodeRequestCrashes(r) ==
  /\ InFlight(r)
  /\ codeFaults < MaxCodeFaults
  /\ codeFaults' = codeFaults + 1
  /\ shared' = IF ask[r].at = "delCode" THEN shared \union {ask[r].guess} ELSE shared
  /\ Answer(r)
  /\ UNCHANGED <<account, code, cooldown, limits, issued, accepted, reused>>

-----------------------------------------------------------------------------

CodeStep(r) ==
  \/ FindAccount(r) \/ CreateAccount(r)
  \/ \E k \in Kinds : AskForCode(r, k)
  \/ \E k \in Kinds, n \in 0..MaxCodes : Guess(r, k, n)
  \/ CheckCooldown(r) \/ SetCode(r) \/ SetCooldown(r)
  \/ CheckLockout(r) \/ GetCode(r) \/ DelCode(r) \/ DelGuesses(r) \/ DelLockout(r) \/ UseCode(r)
  \/ IncrGuesses(r) \/ ExpireGuesses(r) \/ SetLockout(r) \/ RestartGuesses(r)
  \/ CodeRequestCrashes(r)

CodesNext ==
  \/ \E r \in CodeRequests : CodeStep(r)
  \/ \E k \in Kinds : CodeExpires(k) \/ CooldownExpires(k)
  \/ \E i \in Identifiers : GuessesExpire(i) \/ LockoutExpires(i)

CodesSpec == CodesInit /\ [][CodesNext]_codeVars

-----------------------------------------------------------------------------

CodesTypeOK ==
  /\ {registered, verified} \subseteq BOOLEAN
  /\ password \in CodeRequests \union {Nobody}
  /\ \A k \in Kinds : code[k] \in 0..issued
  /\ cooldown \subseteq Kinds
  /\ guessesTTL \subseteq Identifiers /\ lockout \subseteq Identifiers
  /\ \A i \in Identifiers : guesses[i] \in Nat /\ (i \in guessesTTL => guesses[i] > 0)
  /\ reused \subseteq accepted

\* No code is accepted twice, by whatever requests, unless two requests looked at
\* it before either had deleted it, or a crash came in between.
CodesWorkOnce == reused \subseteq shared

\* A request was told that the limit is reached, and has yet to lock the identifier.
WillLock(r) == \/ ask[r].at = "lock"
               \/ ask[r].at = "expire" /\ ask[r].count >= GuessLimit

\* Once the limit of wrong guesses is reached the identifier is locked, or a
\* request that was told so is about to lock it: no interleaving of wrong
\* guesses, right ones, expiries and lockouts leaves it open.  What counts are
\* the guesses since a right one, an expiry, or a late deletion of the count.
LimitLocks ==
  codeFaults = 0 =>
    \A i \in Identifiers :
      wrongs[i] >= GuessLimit => i \in lockout \/ \E r \in CodeRequests : WillLock(r) /\ Id(r) = i

\* A count of guesses is always going to expire, or a request is about to see to
\* that; a crash may leave one that stays for ever.
GuessesAreForgotten ==
  codeFaults = 0 =>
    \A i \in Identifiers : guesses[i] = 0 \/ i \in guessesTTL \/ \E r \in CodeRequests :
                             ask[r].at = "expire" /\ Id(r) = i
=============================================================================
