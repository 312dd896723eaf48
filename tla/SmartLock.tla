------------------------------ MODULE SmartLock ------------------------------
(***************************************************************************)
(* The smart lock gateway (smartLockGatewayService.js and its controller): *)
(* the locks and digital keys of a lease, physical enforcement of the      *)
(* lease's status, and remote unlocking through the vendors' APIs.  The    *)
(* tables are those of migrations/007_add_smart_lock_integration.sql.      *)
(*                                                                         *)
(* Operations on keys are synchronous blocks of separately committed       *)
(* statements: nothing interleaves with them, but a statement that throws  *)
(* ends them in the middle.  An unlock waits for the vendor, twice when it *)
(* refreshes an expired token, and unlocks overlap.                        *)
(*                                                                         *)
(* Tokens are numbered by the refreshes that made them.  August hands out  *)
(* a new pair of tokens at each refresh and refuses the pair before.       *)
(***************************************************************************)
EXTENDS Naturals, FiniteSets

CONSTANTS
  Leases, Locks, Keys,
  Provider,      \* lock_provider of each lock
  LeaseOfKey,    \* lease_id of each key
  Requests,      \* unlock requests of a lock that may overlap
  MaxChanges,    \* bound: changes of leases and pairings from outside
  MaxExpiries,   \* bound: times a lock's access token expires
  MaxFaults      \* bound: statements that throw, answers that are lost, crashes

ASSUME ProviderType == Provider \in [Locks -> {"august", "yale", "schlage", "other"}]
ASSUME LeaseOfKeyType == LeaseOfKey \in [Keys -> Leases]
ASSUME LockBounds == MaxChanges \in Nat /\ MaxExpiries \in Nat /\ MaxFaults \in Nat

Pairing == {"pending", "paired", "error", "unpaired"}
Unregistered == "unregistered"

VARIABLES
  lease,      \* what enforcement reads of the leases table
  key,        \* digital_keys
  enforced,   \* history variable: the keys a lease had when enforceLeaseStatus last
              \* answered "Keys revoked"
  lock,       \* smart_locks
  vendor,     \* the vendor's side: the tokens in force, and whether the access token is
  request,    \* the unlock requests under way
  opened,     \* history variable: the lock opened since its token last expired
  changes, expiries, faults

keys == <<lease, key, enforced>>
unlocking == <<lock, vendor, request, opened, expiries>>
vars == <<lease, key, enforced, lock, vendor, request, opened, changes, expiries, faults>>

Idle == [pc |-> "idle", token |-> 0]

Init ==
  /\ lease = [l \in Leases |-> [active |-> TRUE, paid |-> TRUE, ended |-> FALSE]]
  /\ key = [k \in Keys |-> [status |-> "none", lapsed |-> FALSE]]
  /\ enforced = [l \in Leases |-> {}]
  /\ lock = [d \in Locks |-> [pairing |-> Unregistered, token |-> 0, dated |-> FALSE]]
  /\ vendor = [d \in Locks |-> [token |-> 0, live |-> TRUE]]
  /\ request = [d \in Locks |-> [r \in Requests |-> Idle]]
  /\ opened = [d \in Locks |-> FALSE]
  /\ changes = 0 /\ expiries = 0 /\ faults = 0

----------------------------------------------------------------------------
(* Keys *)

UsableKeys(l) ==
  {k \in Keys : LeaseOfKey[k] = l /\ key[k].status = "active" /\ ~key[k].lapsed}

\* Another part of the system writes the lease's status or its payments.
updateLease(l) ==
  /\ changes < MaxChanges
  /\ changes' = changes + 1
  /\ \/ lease' = [lease EXCEPT ![l].active = ~@]
     \/ lease' = [lease EXCEPT ![l].paid = ~@]
  /\ UNCHANGED <<key, enforced, unlocking, faults>>

\* The lease's end_date passes.
LeaseEnds(l) ==
  /\ ~lease[l].ended
  /\ lease' = [lease EXCEPT ![l].ended = TRUE]
  /\ UNCHANGED <<key, enforced, unlocking, changes, faults>>

\* Only the lease's status is looked at, neither its end nor its payments.
issueDigitalKey(k) ==
  /\ key[k].status = "none" /\ lease[LeaseOfKey[k]].active
  /\ key' = [key EXCEPT ![k].status = "active"]
  /\ UNCHANGED <<lease, enforced, unlocking, changes, faults>>

\* valid_until passes.
KeyLapses(k) ==
  /\ key[k].status = "active" /\ ~key[k].lapsed
  /\ key' = [key EXCEPT ![k].lapsed = TRUE]
  /\ UNCHANGED <<lease, enforced, unlocking, changes, faults>>

Revoke(ks) == [k \in Keys |-> IF k \in ks THEN [key[k] EXCEPT !.status = "revoked"] ELSE key[k]]

\* A statement throws in a block that revokes ks: some of them are revoked.
RevokeSome(ks) ==
  /\ faults < MaxFaults /\ faults' = faults + 1
  /\ \E done \in SUBSET ks : key' = Revoke(done)

revokeDigitalKey(k) ==
  /\ key[k].status # "none"
  /\ key' = Revoke({k})
  /\ UNCHANGED <<lease, enforced, unlocking, changes, faults>>

revokeExpiredKeys ==
  LET lapsed == {k \in Keys : key[k].status = "active" /\ key[k].lapsed}
  IN  /\ lapsed # {}
      /\ \/ key' = Revoke(lapsed) /\ UNCHANGED faults
         \/ RevokeSome(lapsed)
      /\ UNCHANGED <<lease, enforced, unlocking, changes>>

\* What enforceLeaseStatus finds, which is also the check_type it logs.
Finding(l) ==
  CASE lease[l].ended   -> "lease_expired"
    [] ~lease[l].ended /\ ~lease[l].active -> "lease_not_active"
    [] ~lease[l].ended /\ lease[l].active /\ ~lease[l].paid -> "rent_not_paid"
    [] OTHER -> "lease_active"

\* The check constraint on lease_enforcement_checks.check_type.
CheckTypes == {"rent_payment", "lease_active", "lease_expired", "breach_detected"}

KeysOf(l) == {k \in Keys : LeaseOfKey[k] = l /\ key[k].status # "none"}

\* Mutant: a revocation that throws is caught in the loop, which goes on.
enforceLeaseStatus_Swallows(l) ==
  /\ Finding(l) \in CheckTypes \ {"lease_active"}
  /\ \/ key' = Revoke(UsableKeys(l)) /\ UNCHANGED faults
     \/ RevokeSome(UsableKeys(l))
  /\ enforced' = [enforced EXCEPT ![l] = KeysOf(l)]
  /\ UNCHANGED <<lease, unlocking, changes>>

\* The check is logged before any key is revoked, so a finding the column does
\* not allow ends the call; a passed check changes no key.  A call that throws
\* on its way answers nothing.
enforceLeaseStatus(l) ==
  /\ Finding(l) \in CheckTypes \ {"lease_active"}
  /\ \/ /\ key' = Revoke(UsableKeys(l))
        /\ enforced' = [enforced EXCEPT ![l] = KeysOf(l)]
        /\ UNCHANGED faults
     \/ RevokeSome(UsableKeys(l)) /\ UNCHANGED enforced
  /\ UNCHANGED <<lease, unlocking, changes>>

----------------------------------------------------------------------------
(* Locks *)

\* With or without a tokenExpiresAt, in the pairing status the caller gives.
registerSmartLock(d) ==
  /\ lock[d].pairing = Unregistered
  /\ \E status \in {"pending", "paired"}, dated \in BOOLEAN :
       lock' = [lock EXCEPT ![d] = [pairing |-> status, token |-> vendor[d].token,
                                    dated |-> dated]]
  /\ UNCHANGED <<keys, vendor, request, opened, changes, expiries, faults>>

updateLockPairingStatus(d) ==
  /\ lock[d].pairing # Unregistered /\ changes < MaxChanges
  /\ changes' = changes + 1
  /\ \E status \in Pairing : lock' = [lock EXCEPT ![d].pairing = status]
  /\ UNCHANGED <<keys, vendor, request, opened, expiries, faults>>

\* The vendor's access token expires.
TokenExpires(d) ==
  /\ vendor[d].live /\ expiries < MaxExpiries
  /\ expiries' = expiries + 1
  /\ vendor' = [vendor EXCEPT ![d].live = FALSE]
  /\ opened' = [opened EXCEPT ![d] = FALSE]
  /\ UNCHANGED <<keys, lock, request, changes, faults>>

\* tokenExpiresAt has passed for the row's token.
Expired(d) ==
  lock[d].dated /\ (lock[d].token < vendor[d].token \/ ~vendor[d].live)

\* Mutant: the expiry is compared the wrong way round.
Refreshes_Inverted(d) == Provider[d] = "august" /\ lock[d].dated /\ ~Expired(d)

\* Only August's tokens are ever refreshed.
Refreshes(d) == Provider[d] = "august" /\ Expired(d)

\* A request reads the lock's row and goes on with what it read.
sendUnlockCommand(d, r) ==
  /\ request[d][r].pc = "idle"
  /\ lock[d].pairing = "paired" /\ Provider[d] \in {"august", "yale"}
  /\ request' = [request EXCEPT ![d][r] =
                   [pc |-> IF Refreshes(d) THEN "refresh" ELSE "unlock",
                    token |-> lock[d].token]]
  /\ UNCHANGED <<keys, lock, vendor, opened, changes, expiries, faults>>

\* August answers the refresh: it refuses a pair of tokens it has replaced,
\* and the unlock throws.
refreshAugustToken(d, r) ==
  /\ request[d][r].pc = "refresh"
  /\ IF request[d][r].token = vendor[d].token
     THEN /\ vendor' = [vendor EXCEPT ![d] = [token |-> @.token + 1, live |-> TRUE]]
          /\ request' = [request EXCEPT ![d][r].pc = "store"]
     ELSE /\ request' = [request EXCEPT ![d][r] = Idle]
          /\ UNCHANGED vendor
  /\ UNCHANGED <<keys, lock, opened, changes, expiries, faults>>

\* Mutant: the new access token is used for this unlock, but not written back.
refreshAugustToken_store_NotSaved(d, r) ==
  /\ request[d][r].pc = "store"
  /\ request' = [request EXCEPT ![d][r] = [pc |-> "unlock", token |-> @.token + 1]]
  /\ UNCHANGED <<keys, lock, vendor, opened, changes, expiries, faults>>

\* Mutant: each store counts the row's token up.
refreshAugustToken_store_Twice(d, r) ==
  /\ request[d][r].pc = "store"
  /\ lock' = [lock EXCEPT ![d].token = @ + 2, ![d].dated = TRUE]
  /\ request' = [request EXCEPT ![d][r].pc = "unlock"]
  /\ UNCHANGED <<keys, vendor, opened, changes, expiries, faults>>

\* The answer arrives and the row gets the new tokens.  The request itself goes
\* on with the row it read, that is with the expired access token.
refreshAugustToken_store(d, r) ==
  /\ request[d][r].pc = "store"
  /\ lock' = [lock EXCEPT ![d].token = request[d][r].token + 1, ![d].dated = TRUE]
  /\ request' = [request EXCEPT ![d][r].pc = "unlock"]
  /\ UNCHANGED <<keys, vendor, opened, changes, expiries, faults>>

\* The vendor opens the lock for an access token in force, and refuses others.
unlock(d, r) ==
  /\ request[d][r].pc = "unlock"
  /\ request' = [request EXCEPT ![d][r] = Idle]
  /\ opened' = IF request[d][r].token = vendor[d].token /\ vendor[d].live
               THEN [opened EXCEPT ![d] = TRUE] ELSE opened
  /\ UNCHANGED <<keys, lock, vendor, changes, expiries, faults>>

\* A call to the vendor fails, or its answer is lost: new tokens with it.
VendorCallFails(d, r) ==
  /\ request[d][r].pc # "idle" /\ faults < MaxFaults
  /\ faults' = faults + 1
  /\ request' = [request EXCEPT ![d][r] = Idle]
  /\ UNCHANGED <<keys, lock, vendor, opened, changes, expiries>>

Crash ==
  /\ faults < MaxFaults
  /\ faults' = faults + 1
  /\ request' = [d \in Locks |-> [r \in Requests |-> Idle]]
  /\ UNCHANGED <<keys, lock, vendor, opened, changes, expiries>>

----------------------------------------------------------------------------

UnlockStep(d, r) ==
  refreshAugustToken(d, r) \/ refreshAugustToken_store(d, r) \/ unlock(d, r)

Next ==
  \/ \E l \in Leases : updateLease(l) \/ LeaseEnds(l) \/ enforceLeaseStatus(l)
  \/ \E k \in Keys : issueDigitalKey(k) \/ KeyLapses(k) \/ revokeDigitalKey(k)
  \/ revokeExpiredKeys
  \/ \E d \in Locks : registerSmartLock(d) \/ updateLockPairingStatus(d) \/ TokenExpires(d)
  \/ \E d \in Locks, r \in Requests :
       sendUnlockCommand(d, r) \/ UnlockStep(d, r) \/ VendorCallFails(d, r)
  \/ Crash

\* The opening of each paired lock is requested again and again; the vendor
\* answers or the call fails.
Fairness ==
  \A d \in Locks, r \in Requests :
    WF_vars(sendUnlockCommand(d, r)) /\ WF_vars(UnlockStep(d, r))

Spec == Init /\ [][Next]_vars
FairSpec == Spec /\ Fairness

\* Nothing in the repository schedules enforcement, and no property that holds
\* rests on it; this specification only serves to show what enforcement would
\* not do if it were requested again and again.
EnforcedSpec == Spec /\ \A l \in Leases : WF_vars(enforceLeaseStatus(l))

----------------------------------------------------------------------------
(* Properties *)

\* The type invariant: no row or request holds tokens the vendor has not made.
TypeOK ==
  /\ lease \in [Leases -> [active : BOOLEAN, paid : BOOLEAN, ended : BOOLEAN]]
  /\ key \in [Keys -> [status : {"none", "active", "revoked"}, lapsed : BOOLEAN]]
  /\ enforced \in [Leases -> SUBSET Keys]
  /\ vendor \in [Locks -> [token : 0 .. MaxExpiries, live : BOOLEAN]]
  /\ \A d \in Locks :
       /\ lock[d].pairing \in Pairing \union {Unregistered}
       /\ lock[d].token \in 0 .. vendor[d].token /\ lock[d].dated \in BOOLEAN
       /\ \A r \in Requests :
            /\ request[d][r].pc \in {"idle", "refresh", "store", "unlock"}
            /\ request[d][r].token \in 0 .. vendor[d].token
  /\ opened \in [Locks -> BOOLEAN]
  /\ changes \in 0 .. MaxChanges /\ expiries \in 0 .. MaxExpiries /\ faults \in 0 .. MaxFaults

\* Unless a call was cut short, the tokens August made last are in the row or
\* about to be written there, and nothing older is written over them, however
\* many unlocks found the token expired and refresh it (refreshAugustToken).
TokensAreKept ==
  faults = 0 =>
    \A d \in Locks :
      lock[d].pairing # Unregistered =>
        \/ lock[d].token = vendor[d].token
        \/ \E r \in Requests : /\ request[d][r].pc = "store"
                              /\ request[d][r].token + 1 = vendor[d].token
                              /\ \A q \in Requests \ {r} : request[d][q].pc # "store"

\* Unless a call was cut short, a paired August lock whose token's expiry is
\* known opens again after every expiry, however the requests that refresh the
\* token overlap (augustUnlock, refreshAugustToken): the tokens of the last
\* refresh are never lost or overwritten by older ones.
UnlocksInTheEnd ==
  [](faults = 0) =>
    \A d \in Locks :
      (Provider[d] = "august" /\ lock[d].pairing = "paired" /\ lock[d].dated)
        ~> (opened[d] \/ lock[d].pairing # "paired")

\* "Keys revoked" is a promise: once enforceLeaseStatus has answered so, none of
\* the keys the lease had then opens a door again, although statements throw in
\* the middle of other calls and the lease recovers later.  Only a key issued
\* after the answer may be usable.
EnforcementHolds ==
  \A l \in Leases : UsableKeys(l) \intersect enforced[l] = {}

\* "If check failed, revoke all active keys" (smartLockGatewayService.js:395): a
\* lease that is not active or not paid loses its keys, unless it recovers, when
\* its status is enforced again and again.
BreachedLeaseLosesKeys ==
  \A l \in Leases :
    ~(lease[l].active /\ lease[l].paid)
      ~> (UsableKeys(l) = {} \/ (lease[l].active /\ lease[l].paid))
=============================================================================
