-------------------------------- MODULE Users --------------------------------
(***************************************************************************)
(* The profile of one user (src/src/modules/users): the phone number, the  *)
(* address book with its default address, the devices, and the             *)
(* deactivation of the account.  A request reads the profile and then      *)
(* writes the document, some in a transaction, which here is one step;     *)
(* removing an address takes two writes and has none.                      *)
(*                                                                         *)
(* The fields of an address, names and preferences are left out; the       *)
(* sessions that a deactivation revokes are in Sessions.                   *)
(***************************************************************************)
EXTENDS Naturals, SequencesExt, Lists

CONSTANTS
  AddressIds,      \* given out once each
  Phones,          \* numbers the user may take
  Devices,
  DeviceLimit,     \* 10
  UserRequests,    \* requests, each served once
  Deleted,         \* the phone number of a deactivated account
  MaxUserCrashes

ASSUME DeviceLimitAssumption == DeviceLimit \in Nat \ {0}
ASSUME PhonesAssumption == Phones # {} /\ Deleted \notin Phones

VARIABLES
  active, phone,
  addresses,   \* the address book: records of id and isDefault
  unusedIds,   \* address ids not given out yet
  devices,     \* device ids, the one registered last at the end
  call,        \* by request: where it is and what it has read
  mingled,     \* whether a removal ever overlapped another change of addresses (history)
  unmarked,    \* whether somebody asked for an address not to be the default (history)
  outrun,      \* whether a change of the phone overlapped a deactivation (history)
  userCrashes

userVars == <<active, phone, addresses, unusedIds, devices, call, mingled, unmarked, outrun, userCrashes>>

profile == <<active, phone, addresses, unusedIds, devices>>
marks == <<mingled, unmarked, outrun>>

NoCall == [at |-> "idle"]
Returned == [at |-> "done"]
Called(q, l) == [at |-> l, ask |-> q, first |-> FALSE, wasDefault |-> FALSE]
Open(r) == call[r] \notin {NoCall, Returned}
CallAt(r, l) == call' = [call EXCEPT ![r].at = l]
Return(r) == call' = [call EXCEPT ![r] = Returned]

\* asked: isDefault of the DTO.
AddressRequest ==
  [op : {"add"}, asked : {"yes", "no"}]
    \union [op : {"update"}, id : AddressIds, asked : {"yes", "no", "keep"}]
    \union [op : {"remove"}, id : AddressIds]
UserRequest == AddressRequest \union [op : {"profile"}, phone : Phones] \union [op : {"deactivate"}]

Ids == {addresses[n].id : n \in DOMAIN addresses}
IsDefault(i) == \E n \in DOMAIN addresses : addresses[n].id = i /\ addresses[n].isDefault

UsersInit ==
  /\ active = TRUE
  /\ phone = CHOOSE p \in Phones : TRUE
  /\ addresses = <<>> /\ unusedIds = AddressIds
  /\ devices = <<>>
  /\ call = [r \in UserRequests |-> NoCall]
  /\ mingled = FALSE /\ unmarked = FALSE /\ outrun = FALSE
  /\ userCrashes = 0

-----------------------------------------------------------------------------
(* Arrivals, and what they read: getProfile refuses a deactivated user, and  *)
(* only a deactivation does without it.                                      *)

\* A removal of an address and another change of the address book.
Changes(q) == q.op \in {"add", "update", "remove"}
Mingle(c, q) == Changes(c) /\ Changes(q) /\ "remove" \in {c.op, q.op}

Begin(r, q) ==
  /\ call[r] = NoCall
  /\ call' = [call EXCEPT ![r] = Called(q, IF q.op = "deactivate" THEN "deactivate" ELSE "read")]
  /\ LET others == {call[s].ask : s \in {s \in UserRequests : Open(s)}} IN
       /\ mingled' = (mingled \/ \E c \in others : Mingle(c, q))
       /\ outrun' = (outrun \/ \E c \in others : {c.op, q.op} = {"profile", "deactivate"})
       /\ unmarked' = (unmarked \/ (q.op = "update" /\ q.asked = "no"))
  /\ UNCHANGED <<profile, userCrashes>>

\* Variant: isActive is not looked at.
Anybody == TRUE
HasProfile == active

GetProfile(r) ==
  /\ call[r].at = "read"
  /\ LET q == call[r].ask IN
       IF ~HasProfile \/ (q.op \in {"update", "remove"} /\ q.id \notin Ids) THEN Return(r)
       ELSE call' = [call EXCEPT ![r].at = "write",
                                 ![r].first = addresses = <<>>,
                                 ![r].wasDefault = q.op = "remove" /\ IsDefault(q.id)]
  /\ UNCHANGED <<profile, marks, userCrashes>>

-----------------------------------------------------------------------------
(* The writes.  A transaction is refused when another one has the document. *)

\* unsetAllAddressesDefault.
Unset(as) == [n \in DOMAIN as |-> [as[n] EXCEPT !.isDefault = FALSE]]
\* updateAddress of the repository: nothing is written if no element has the id.
Mark(as, i, d) == [n \in DOMAIN as |-> IF as[n].id = i THEN [as[n] EXCEPT !.isDefault = d] ELSE as[n]]

\* $pull of the elements with the id.
Pulled(as, i) == Dropping(as, {a \in ToSet(as) : a.id = i})

\* Variant: the new default does not replace the old one.
AddOnly(as, i, d) == Append(as, [id |-> i, isDefault |-> d])
Added(as, i, d) == Append(IF d THEN Unset(as) ELSE as, [id |-> i, isDefault |-> d])

AddAddress(r) ==
  /\ call[r].at = "write" /\ call[r].ask.op = "add"
  /\ \E i \in unusedIds :
       /\ addresses' = Added(addresses, i, call[r].ask.asked = "yes" \/ call[r].first)
       /\ unusedIds' = unusedIds \ {i}
  /\ Return(r)
  /\ UNCHANGED <<active, phone, devices, marks, userCrashes>>

UpdateAddress(r) ==
  /\ call[r].at = "write" /\ call[r].ask.op = "update"
  /\ LET q == call[r].ask IN
       addresses' = CASE q.asked = "yes" -> Mark(Unset(addresses), q.id, TRUE)
                      [] q.asked = "no" -> Mark(addresses, q.id, FALSE)
                      [] q.asked = "keep" -> addresses
  /\ Return(r)
  /\ UNCHANGED <<active, phone, unusedIds, devices, marks, userCrashes>>

RemoveAddress(r) ==
  /\ call[r].at = "write" /\ call[r].ask.op = "remove"
  /\ LET rest == Pulled(addresses, call[r].ask.id) IN
       /\ addresses' = rest
       /\ IF call[r].wasDefault /\ rest # <<>>
          THEN call' = [call EXCEPT ![r].ask.id = rest[1].id, ![r].at = "promote"]
          ELSE Return(r)
  /\ UNCHANGED <<active, phone, unusedIds, devices, marks, userCrashes>>

PromoteFirst(r) ==
  /\ call[r].at = "promote"
  /\ addresses' = Mark(addresses, call[r].ask.id, TRUE)
  /\ Return(r)
  /\ UNCHANGED <<active, phone, unusedIds, devices, marks, userCrashes>>

UpdateProfile(r) ==
  /\ call[r].at = "write" /\ call[r].ask.op = "profile"
  /\ phone' = call[r].ask.phone
  /\ Return(r)
  /\ UNCHANGED <<active, addresses, unusedIds, devices, marks, userCrashes>>

DeleteAccount(r) ==
  /\ call[r].at = "deactivate"
  /\ active' = FALSE
  /\ phone' = Deleted
  /\ Return(r)
  /\ UNCHANGED <<addresses, unusedIds, devices, marks, userCrashes>>

\* A conflict of transactions, or a crash: only between a removal's two writes
\* does it leave anything behind.
GiveUp(r) ==
  /\ Open(r)
  /\ userCrashes < MaxUserCrashes
  /\ userCrashes' = userCrashes + 1
  /\ Return(r)
  /\ UNCHANGED <<profile, marks>>

-----------------------------------------------------------------------------
(* registerDevice and removeDevice: one transaction, one update. *)

\* Variant: the token stays where it is.
Kept(d) == devices
Without(d) == Dropping(devices, {d})

RegisterDevice(d) ==
  /\ LET ds == Append(Without(d), d) IN
       devices' = SubSeq(ds, IF Len(ds) > DeviceLimit THEN Len(ds) - DeviceLimit + 1 ELSE 1, Len(ds))
  /\ UNCHANGED <<active, phone, addresses, unusedIds, call, marks, userCrashes>>

RemoveDevice(d) ==
  /\ devices' = Without(d)
  /\ UNCHANGED <<active, phone, addresses, unusedIds, call, marks, userCrashes>>

-----------------------------------------------------------------------------

CallStep(r) ==
  \/ \E q \in UserRequest : Begin(r, q)
  \/ GetProfile(r) \/ AddAddress(r) \/ UpdateAddress(r) \/ RemoveAddress(r) \/ PromoteFirst(r)
  \/ UpdateProfile(r) \/ DeleteAccount(r) \/ GiveUp(r)

CallNext == \E r \in UserRequests : CallStep(r)
DeviceNext == \E d \in Devices : RegisterDevice(d) \/ RemoveDevice(d)

UsersNext == CallNext \/ DeviceNext

UsersSpec == UsersInit /\ [][UsersNext]_userVars

-----------------------------------------------------------------------------

UsersTypeOK ==
  /\ active \in BOOLEAN
  /\ phone \in Phones \union {Deleted}
  /\ addresses \in Seq([id : AddressIds \ unusedIds, isDefault : BOOLEAN])
  /\ Cardinality(Ids) = Len(addresses)
  /\ Len(devices) <= DeviceLimit /\ Len(devices) = Cardinality(ToSet(devices))

Defaults == {i \in Ids : IsDefault(i)}

\* An address book that is not empty has one default address, whatever was added,
\* changed, removed and promoted in whatever order - unless a removal overlapped
\* another change, a request failed between its writes, or somebody asked for no
\* default.  There are never two unless a removal was overlapped.
OneDefaultAddress ==
  ~mingled =>
    /\ Cardinality(Defaults) <= 1
    /\ \/ Defaults # {} \/ addresses = <<>>
       \/ unmarked \/ userCrashes > 0
       \/ \E r \in UserRequests : Open(r) /\ call[r].at = "promote"

\* The phone number of a deactivated account is free for another, and stays so,
\* unless a change of the profile that was under way wrote it back.
DeactivatedFreesPhone == ~active /\ ~outrun => phone = Deleted
=============================================================================
