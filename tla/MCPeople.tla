------------------------------ MODULE MCPeople -------------------------------
(***************************************************************************)
(* Accounts and the services around them on a small instance: one-time     *)
(* codes, the login limiter, users, administration, support, warranties,   *)
(* the sleep quiz, notifications, analytics.  They share no state, so a    *)
(* behaviour is about one subject, which Init chooses, while the others    *)
(* rest: the states add up instead of multiplying.                         *)
(*                                                                         *)
(* The subjects share their symmetric sets, so the group stays small.      *)
(* No set of the quiz is symmetric, and while the quiz is the subject the  *)
(* other variables keep their initial values, which every permutation      *)
(* leaves as they are: the reduction merges no states of the behaviours    *)
(* QuizzesComplete is about.                                               *)
(***************************************************************************)
EXTENDS Codes, Logins, Users, Admin, Support, Warranty, SleepQuiz, Notifications, Analytics, TLC

CONSTANTS
  r1, r2, r3,       \* requests: those of every subject
  o1, o2,           \* identities: of agents, IP addresses, address books, claims, members
  customer,         \* a socket
  push, sms, mail   \* jobs

VARIABLE subject

MCIdOf == [k \in Kinds |-> "e-mail address"]
MCSideOf == [s \in Sockets |-> IF s = customer THEN "CUSTOMER" ELSE "AGENT"]
MCChannelOf == push :> "push" @@ sms :> "sms" @@ mail :> "email"

MCSymmetry == Permutations({r1, r2, r3}) \union Permutations({o1, o2})

Subjects ==
  {"codes", "logins", "profile", "devices", "admin", "tickets", "rooms", "warranty", "quiz",
   "inbox", "posts", "analytics"}

PeopleInit ==
  /\ subject \in Subjects
  /\ CodesInit /\ LoginsInit /\ UsersInit /\ AdminInit /\ SupportInit /\ WarrantyInit
  /\ QuizInit /\ NotificationsInit /\ AnalyticsInit

accessVars == <<codeVars, loginVars>>
officeVars == <<adminVars, supportVars, warrantyVars>>
queueVars == <<quizVars, notificationVars, analyticsVars>>

AccessNext ==
  \/ subject = "codes" /\ CodesNext /\ UNCHANGED loginVars
  \/ subject = "logins" /\ LoginsNext /\ UNCHANGED codeVars

ProfileNext ==
  \/ subject = "profile" /\ CallNext
  \/ subject = "devices" /\ DeviceNext

OfficeNext ==
  \/ subject = "admin" /\ AdminNext /\ UNCHANGED <<supportVars, warrantyVars>>
  \/ subject = "tickets" /\ TicketNext /\ UNCHANGED <<adminVars, warrantyVars>>
  \/ subject = "rooms" /\ RoomNext /\ UNCHANGED <<adminVars, warrantyVars>>
  \/ subject = "warranty" /\ WarrantyNext /\ UNCHANGED <<adminVars, supportVars>>

QueueNext ==
  \/ subject = "quiz" /\ QuizNext /\ UNCHANGED <<notificationVars, analyticsVars>>
  \/ subject = "inbox" /\ InboxNext /\ UNCHANGED <<quizVars, analyticsVars>>
  \/ subject = "posts" /\ PostNext /\ UNCHANGED <<quizVars, analyticsVars>>
  \/ subject = "analytics" /\ AnalyticsNext /\ UNCHANGED <<quizVars, notificationVars>>

PeopleNext ==
  /\ \/ AccessNext /\ UNCHANGED <<userVars, officeVars, queueVars>>
     \/ ProfileNext /\ UNCHANGED <<accessVars, officeVars, queueVars>>
     \/ OfficeNext /\ UNCHANGED <<accessVars, userVars, queueVars>>
     \/ QueueNext /\ UNCHANGED <<accessVars, userVars, officeVars>>
  /\ UNCHANGED subject

peopleVars == <<subject, accessVars, userVars, officeVars, queueVars>>

PeopleSpec == PeopleInit /\ [][PeopleNext]_peopleVars /\ QuizFairness

-----------------------------------------------------------------------------
(* Every variable of these services has its type. *)
PeopleTypesOK ==
  /\ CodesTypeOK /\ LoginsTypeOK /\ UsersTypeOK /\ AdminTypeOK /\ SupportTypeOK
  /\ WarrantyTypeOK /\ QuizTypeOK /\ NotificationsTypeOK /\ AnalyticsTypeOK

(* Limits on guessing hold and end: enough wrong codes lock the address    *)
(* out, and what is counted of wrong codes and failed logins has an expiry *)
(* (Codes.LimitLocks, Codes.GuessesAreForgotten, Logins.FailuresAreForgotten, *)
(* each with its exceptions).                                              *)
LimitsHold == LimitLocks /\ GuessesAreForgotten /\ FailuresAreForgotten

(* A profile agrees with itself: an address book has one default address,  *)
(* and a deactivated account holds no phone number                         *)
(* (Users.OneDefaultAddress, Users.DeactivatedFreesPhone).                 *)
ProfilesAgree == OneDefaultAddress /\ DeactivatedFreesPhone

(* A warranty says whether a claim on it is open, and the end of one is    *)
(* announced once (Warranty.ClaimsShow, Warranty.AnnouncedOnce).           *)
WarrantiesAgree == ClaimsShow /\ AnnouncedOnce

(* The status of a quiz agrees with what became of its job, and a          *)
(* notification job that completed was taken by its provider, where the    *)
(* worker reports errors (SleepQuiz.StatusAgreesWithJob,                   *)
(* Notifications.CompletedWasTaken).                                       *)
JobsAgree == StatusAgreesWithJob /\ CompletedWasTaken

(* What is queued or buffered arrives once: a broadcast in an inbox, a     *)
(* tracked event in the statistics (Notifications.BroadcastsComeOnce,      *)
(* Analytics.EventsCountOnce, each with its exceptions).                   *)
DeliveredOnce == BroadcastsComeOnce /\ EventsCountOnce

=============================================================================
