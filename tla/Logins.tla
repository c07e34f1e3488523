------------------------------- MODULE Logins -------------------------------
(***************************************************************************)
(* The limits on logins (login, checkLoginRateLimit and recordFailedLogin  *)
(* of auth.service.ts): failures are counted in Redis by identifier and by *)
(* address, each count with an expiry, and forgotten at a login.  The      *)
(* session that a login creates is in Sessions.                            *)
(*                                                                         *)
(* One identifier is logged into from any address.  The two halves of      *)
(* Promise.all run beside each other: a request keeps a set of what it has *)
(* yet to do.                                                              *)
(***************************************************************************)
EXTENDS Naturals

CONSTANTS
  Addresses,        \* IP addresses
  Attempts,         \* login requests, each served once
  LoginLimit,       \* LOGIN_MAX_ATTEMPTS: 5; addresses are allowed twice as many
  MaxLoginCrashes

ASSUME LoginLimitAssumption == LoginLimit \in Nat \ {0}
ASSUME LoginBoundAssumption == MaxLoginCrashes \in Nat

VARIABLES
  failures,      \* by counter: the identifier's, and one per address
  expiring,      \* counters whose key expires
  attempt,       \* by request: where it is
  loginCrashes

loginVars == <<failures, expiring, attempt, loginCrashes>>

IdCounter == "identifier"
Counters == {IdCounter} \union Addresses
LimitOf(c) == IF c = IdCounter THEN LoginLimit ELSE 2 * LoginLimit
Mine(a) == {IdCounter, attempt[a].ip}
NotYet == [at |-> "idle"]
Through == [at |-> "done"]
AttemptAt(a, l) == attempt' = [attempt EXCEPT ![a].at = l]

LoginsInit ==
  /\ failures = [c \in Counters |-> 0]
  /\ expiring = {}
  /\ attempt = [a \in Attempts |-> NotYet]
  /\ loginCrashes = 0

\* The two GETs of checkLoginRateLimit, then the comparison.
ReadLimits(a, ip) ==
  /\ attempt[a] = NotYet
  /\ attempt' = [attempt EXCEPT ![a] =
       IF \E c \in {IdCounter, ip} : failures[c] >= LimitOf(c) THEN Through ELSE [at |-> "compare", ip |-> ip]]
  /\ UNCHANGED <<failures, expiring, loginCrashes>>

\* The user is looked up and the password compared: right, right for a
\* deactivated user, or wrong.
Compare(a) ==
  /\ attempt[a].at = "compare"
  /\ \/ attempt' = [attempt EXCEPT ![a] = [at |-> "forget", ip |-> @.ip, todo |-> Mine(a)]]
     \/ attempt' = [attempt EXCEPT ![a] = Through]
     \/ attempt' = [attempt EXCEPT ![a] = [at |-> "count", ip |-> @.ip, todo |-> Mine(a), first |-> {}]]
  /\ UNCHANGED <<failures, expiring, loginCrashes>>

Forget(a, c) ==
  /\ attempt[a].at = "forget" /\ c \in attempt[a].todo
  /\ failures' = [failures EXCEPT ![c] = 0]
  /\ expiring' = expiring \ {c}
  /\ attempt' = [attempt EXCEPT ![a].todo = @ \ {c}]
  /\ UNCHANGED loginCrashes

\* Variant: the expiry is set when the limit is reached.
AtLimit(n) == n = LoginLimit
FirstFailure(n) == n = 1

Count(a, c) ==
  /\ attempt[a].at = "count" /\ c \in attempt[a].todo
  /\ failures' = [failures EXCEPT ![c] = @ + 1]
  /\ attempt' = [attempt EXCEPT ![a].todo = @ \ {c},
                                ![a].first = IF FirstFailure(failures[c] + 1) THEN @ \union {c} ELSE @]
  /\ UNCHANGED <<expiring, loginCrashes>>

SetExpiry(a, c) ==
  /\ attempt[a].at = "count" /\ c \in attempt[a].first
  /\ expiring' = IF failures[c] = 0 THEN expiring ELSE expiring \union {c}
  /\ attempt' = [attempt EXCEPT ![a].first = @ \ {c}]
  /\ UNCHANGED <<failures, loginCrashes>>

EndAttempt(a) ==
  /\ \/ attempt[a].at = "forget" /\ attempt[a].todo = {}
     \/ attempt[a].at = "count" /\ attempt[a].todo = {} /\ attempt[a].first = {}
  /\ attempt' = [attempt EXCEPT ![a] = Through]
  /\ UNCHANGED <<failures, expiring, loginCrashes>>

CounterExpires(c) ==
  /\ c \in expiring
  /\ failures' = [failures EXCEPT ![c] = 0]
  /\ expiring' = expiring \ {c}
  /\ UNCHANGED <<attempt, loginCrashes>>

LoginCrashes(a) ==
  /\ attempt[a] \notin {NotYet, Through}
  /\ loginCrashes < MaxLoginCrashes
  /\ loginCrashes' = loginCrashes + 1
  /\ attempt' = [attempt EXCEPT ![a] = Through]
  /\ UNCHANGED <<failures, expiring>>

AttemptStep(a) ==
  \/ \E ip \in Addresses : ReadLimits(a, ip)
  \/ Compare(a)
  \/ \E c \in Counters : Forget(a, c) \/ Count(a, c) \/ SetExpiry(a, c)
  \/ EndAttempt(a) \/ LoginCrashes(a)

LoginsNext == (\E a \in Attempts : AttemptStep(a)) \/ (\E c \in Counters : CounterExpires(c))

LoginsSpec == LoginsInit /\ [][LoginsNext]_loginVars

-----------------------------------------------------------------------------

LoginsTypeOK ==
  /\ failures \in [Counters -> Nat]
  /\ expiring \subseteq {c \in Counters : failures[c] > 0}
  /\ loginCrashes \in 0..MaxLoginCrashes

\* A count of failed logins is always going to expire, or a request is about to
\* see to that: however failures, logins and expiries interleave, nobody who has
\* reached the limit is locked out for ever.  A crash may do that.
FailuresAreForgotten ==
  loginCrashes = 0 =>
    \A c \in Counters : failures[c] = 0 \/ c \in expiring \/ \E a \in Attempts :
                          attempt[a] \notin {NotYet, Through} /\ attempt[a].at = "count" /\ c \in attempt[a].first
=============================================================================
