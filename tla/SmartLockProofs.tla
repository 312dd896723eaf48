--------------------------- MODULE SmartLockProofs ---------------------------
(***************************************************************************)
(* The tokens of an August lock, for any set of locks, requests and keys   *)
(* and any number of expiries and faults: no row or request ever holds     *)
(* tokens August has not made, and without a fault the tokens of the last  *)
(* refresh are kept.                                                       *)
(*                                                                         *)
(* August refuses a pair of tokens it has replaced, so of the unlocks that *)
(* overlap one wins; the others were begun with a row no newer than the    *)
(* winner's, and cannot write over what it writes.                         *)
(*                                                                         *)
(* And the keys of a lease: those an enforcement has revoked stay so.      *)
(***************************************************************************)
EXTENDS SmartLock, TLAPS

Row == [pairing : Pairing \union {Unregistered}, token : Nat, dated : BOOLEAN]
Unlock == [pc : {"idle", "refresh", "store", "unlock"}, token : Nat]

Shape ==
  /\ lease \in [Leases -> [active : BOOLEAN, paid : BOOLEAN, ended : BOOLEAN]]
  /\ key \in [Keys -> [status : {"none", "active", "revoked"}, lapsed : BOOLEAN]]
  /\ enforced \in [Leases -> SUBSET Keys]
  /\ lock \in [Locks -> Row]
  /\ vendor \in [Locks -> [token : Nat, live : BOOLEAN]]
  /\ request \in [Locks -> [Requests -> Unlock]]
  /\ opened \in [Locks -> BOOLEAN]
  /\ changes \in 0 .. MaxChanges /\ expiries \in 0 .. MaxExpiries /\ faults \in 0 .. MaxFaults

\* August makes a pair of tokens only for one that has expired.
MadeForExpired ==
  \A d \in Locks :
    vendor[d].token + (IF vendor[d].live THEN 0 ELSE 1) <= expiries

\* Nobody holds tokens August has not made; who asks for a refresh with the
\* pair in force found it expired, and who was given a new pair held an old one.
NotAhead ==
  \A d \in Locks :
    /\ lock[d].token <= vendor[d].token
    /\ \A r \in Requests :
         /\ request[d][r].token <= vendor[d].token
         /\ request[d][r].pc = "refresh" /\ request[d][r].token = vendor[d].token
              => ~vendor[d].live
         /\ request[d][r].pc = "store" => request[d][r].token < vendor[d].token

\* Of one lock, as long as nothing fails: whatever a request read, the row is no
\* older; one request at a time holds new tokens, and until they are stored the
\* row holds those they replace.
Kept(d) ==
  /\ lock[d].pairing = Unregistered => \A r \in Requests : request[d][r].pc = "idle"
  /\ lock[d].pairing # Unregistered =>
       /\ \A r \in Requests :
            /\ request[d][r].pc # "idle" => request[d][r].token <= lock[d].token
            /\ request[d][r].pc = "store" =>
                 /\ request[d][r].token + 1 = vendor[d].token
                 /\ lock[d].token + 1 = vendor[d].token
                 /\ \A q \in Requests \ {r} : request[d][q].pc # "store"
       /\ (\A r \in Requests : request[d][r].pc # "store")
            => lock[d].token = vendor[d].token

Inv ==
  /\ Shape /\ MadeForExpired /\ NotAhead
  /\ faults = 0 => \A d \in Locks : Kept(d)

USE LockBounds

-----------------------------------------------------------------------------

LEMMA InitInv == Init => Inv
<1> SUFFICES ASSUME Init PROVE Inv
  OBVIOUS
<1>1. Shape
  BY DEF Init, Shape, Row, Unlock, Idle
<1>2. MadeForExpired
  BY DEF Init, MadeForExpired
<1>3. NotAhead
  BY DEF Init, NotAhead, Idle
<1>4. \A d \in Locks : Kept(d)
  BY DEF Init, Kept, Idle, Unregistered
<1> QED BY <1>1, <1>2, <1>3, <1>4 DEF Inv

\* What keys and leases go through leaves the locks alone.
LocksAlone == UNCHANGED <<lock, vendor, request, opened, expiries>>

LEMMA LocksAloneStep ==
  ASSUME Inv, LocksAlone, faults' = 0 => faults = 0,
         Shape'
  PROVE  Inv'
  BY DEF Inv, LocksAlone, MadeForExpired, NotAhead, Kept

LEMMA RevokeShape ==
  ASSUME Shape, NEW ks
  PROVE  Revoke(ks) \in [Keys -> [status : {"none", "active", "revoked"}, lapsed : BOOLEAN]]
  BY DEF Shape, Revoke

LEMMA RevokeSomeShape ==
  ASSUME Shape, NEW ks, RevokeSome(ks)
  PROVE  /\ key' \in [Keys -> [status : {"none", "active", "revoked"}, lapsed : BOOLEAN]]
         /\ faults' \in 0 .. MaxFaults /\ (faults' = 0 => faults = 0)
<1>1. PICK done \in SUBSET ks : key' = Revoke(done)
  BY DEF RevokeSome
<1>2. faults < MaxFaults /\ faults' = faults + 1
  BY DEF RevokeSome
<1> QED BY <1>1, <1>2, RevokeShape DEF Shape

LEMMA EnforceShape ==
  ASSUME Shape, NEW l \in Leases, enforceLeaseStatus(l)
  PROVE  /\ key' \in [Keys -> [status : {"none", "active", "revoked"}, lapsed : BOOLEAN]]
         /\ enforced' \in [Leases -> SUBSET Keys]
         /\ faults' \in 0 .. MaxFaults /\ (faults' = 0 => faults = 0)
<1>1. CASE /\ key' = Revoke(UsableKeys(l)) /\ UNCHANGED faults
           /\ enforced' = [enforced EXCEPT ![l] = KeysOf(l)]
  <2>1. KeysOf(l) \in SUBSET Keys
    BY DEF KeysOf
  <2> QED BY <1>1, <2>1, RevokeShape DEF Shape
<1>2. CASE RevokeSome(UsableKeys(l)) /\ UNCHANGED enforced
  BY <1>2, RevokeSomeShape DEF Shape
<1> QED BY <1>1, <1>2 DEF enforceLeaseStatus

KeyActions ==
  \/ \E l \in Leases : updateLease(l) \/ LeaseEnds(l) \/ enforceLeaseStatus(l)
  \/ \E k \in Keys : issueDigitalKey(k) \/ KeyLapses(k) \/ revokeDigitalKey(k)
  \/ revokeExpiredKeys

LEMMA KeyStep == ASSUME Inv, KeyActions PROVE Inv'
<1>0. Shape
  BY DEF Inv
<1>1. ASSUME NEW l \in Leases, updateLease(l) \/ LeaseEnds(l) PROVE Inv'
  <2>1. lease' \in [Leases -> [active : BOOLEAN, paid : BOOLEAN, ended : BOOLEAN]]
    <3>1. lease \in [Leases -> [active : BOOLEAN, paid : BOOLEAN, ended : BOOLEAN]]
      BY <1>0 DEF Shape
    <3>2. CASE lease' = [lease EXCEPT ![l].active = ~@]
      BY <3>1, <3>2, ZenonT(30)
    <3>3. CASE lease' = [lease EXCEPT ![l].paid = ~@]
      BY <3>1, <3>3, ZenonT(30)
    <3>4. CASE lease' = [lease EXCEPT ![l].ended = TRUE]
      BY <3>1, <3>4
    <3> QED BY <1>1, <3>2, <3>3, <3>4 DEF updateLease, LeaseEnds
  <2>2. changes' \in 0 .. MaxChanges
    BY <1>0, <1>1 DEF updateLease, LeaseEnds, Shape
  <2>3. UNCHANGED <<key, enforced, unlocking, faults>>
    BY <1>1 DEF updateLease, LeaseEnds
  <2>4. Shape'
    BY <1>0, <2>1, <2>2, <2>3 DEF Shape, unlocking
  <2> QED BY <2>3, <2>4, LocksAloneStep DEF LocksAlone, unlocking
<1>2. ASSUME NEW l \in Leases, enforceLeaseStatus(l) PROVE Inv'
  <2>1. UNCHANGED <<lease, unlocking, changes>>
    BY <1>2 DEF enforceLeaseStatus
  <2>2. Shape' /\ (faults' = 0 => faults = 0)
    BY <1>0, <1>2, <2>1, EnforceShape DEF Shape, unlocking
  <2> QED BY <2>1, <2>2, LocksAloneStep DEF LocksAlone, unlocking
<1>3. ASSUME NEW k \in Keys, issueDigitalKey(k) \/ KeyLapses(k) \/ revokeDigitalKey(k) PROVE Inv'
  <2>1. key' \in [Keys -> [status : {"none", "active", "revoked"}, lapsed : BOOLEAN]]
    <3>1. CASE issueDigitalKey(k)
      BY <1>0, <3>1 DEF issueDigitalKey, Shape
    <3>2. CASE KeyLapses(k)
      BY <1>0, <3>2 DEF KeyLapses, Shape
    <3>3. CASE revokeDigitalKey(k)
      BY <1>0, <3>3, RevokeShape DEF revokeDigitalKey
    <3> QED BY <1>3, <3>1, <3>2, <3>3
  <2>2. UNCHANGED <<lease, enforced, unlocking, changes, faults>>
    BY <1>3 DEF issueDigitalKey, KeyLapses, revokeDigitalKey
  <2>3. Shape'
    BY <1>0, <2>1, <2>2 DEF Shape, unlocking
  <2> QED BY <2>2, <2>3, LocksAloneStep DEF LocksAlone, unlocking
<1>4. CASE revokeExpiredKeys
  <2>1. PICK ks : (key' = Revoke(ks) /\ UNCHANGED faults) \/ RevokeSome(ks)
    BY <1>4 DEF revokeExpiredKeys
  <2>2. UNCHANGED <<lease, enforced, unlocking, changes>>
    BY <1>4 DEF revokeExpiredKeys
  <2>3. /\ key' \in [Keys -> [status : {"none", "active", "revoked"}, lapsed : BOOLEAN]]
        /\ faults' \in 0 .. MaxFaults /\ (faults' = 0 => faults = 0)
    BY <1>0, <2>1, RevokeShape, RevokeSomeShape DEF Shape
  <2>4. Shape'
    BY <1>0, <2>2, <2>3 DEF Shape, unlocking
  <2> QED BY <2>2, <2>3, <2>4, LocksAloneStep DEF LocksAlone, unlocking
<1> QED BY <1>1, <1>2, <1>3, <1>4 DEF KeyActions

-----------------------------------------------------------------------------
(* Enforcement                                                             *)

\* A key that has been revoked, or whose time has passed, opens nothing.
Dead(k) == key[k].status = "revoked" \/ (key[k].status = "active" /\ key[k].lapsed)

\* The keys a lease had when it was told they are revoked.
AllDead == \A l \in Leases : \A k \in enforced[l] : Dead(k)

\* No operation brings a dead key back: one is issued only under a new name.
LEMMA DeadStaysDead ==
  ASSUME Shape, [Next]_vars, NEW k \in Keys, Dead(k)
  PROVE  Dead(k)'
<1>0. key \in [Keys -> [status : {"none", "active", "revoked"}, lapsed : BOOLEAN]]
  BY DEF Shape
<1>1. ASSUME NEW ks, key' = Revoke(ks) PROVE Dead(k)'
  <2>1. key'[k] = IF k \in ks THEN [key[k] EXCEPT !.status = "revoked"] ELSE key[k]
    BY <1>1 DEF Revoke
  <2>2. CASE k \in ks
    BY <1>0, <2>1, <2>2 DEF Dead
  <2>3. CASE k \notin ks
    BY <2>1, <2>3 DEF Dead
  <2> QED BY <2>2, <2>3
<1>2. CASE UNCHANGED key
  BY <1>2 DEF Dead
<1>3. ASSUME NEW ks, RevokeSome(ks) PROVE Dead(k)'
  BY <1>1, <1>3 DEF RevokeSome
<1>4. ASSUME NEW c \in Keys, issueDigitalKey(c) PROVE Dead(k)'
  <2>1. key[c].status = "none" /\ key' = [key EXCEPT ![c].status = "active"]
    BY <1>4 DEF issueDigitalKey
  <2>2. c # k
    BY <2>1 DEF Dead
  <2> QED BY <1>0, <2>1, <2>2 DEF Dead
<1>5. ASSUME NEW c \in Keys, KeyLapses(c) PROVE Dead(k)'
  BY <1>0, <1>5 DEF KeyLapses, Dead
<1>6. ASSUME NEW l \in Leases, enforceLeaseStatus(l) PROVE Dead(k)'
  BY <1>1, <1>3, <1>6 DEF enforceLeaseStatus
<1>7. ASSUME NEW c \in Keys, revokeDigitalKey(c) PROVE Dead(k)'
  BY <1>1, <1>7 DEF revokeDigitalKey
<1>8. CASE revokeExpiredKeys
  BY <1>1, <1>3, <1>8 DEF revokeExpiredKeys
<1>9. CASE \/ UNCHANGED vars \/ Crash
           \/ \E l \in Leases : updateLease(l) \/ LeaseEnds(l)
           \/ \E d \in Locks : registerSmartLock(d) \/ updateLockPairingStatus(d) \/ TokenExpires(d)
           \/ \E d \in Locks, r \in Requests :
                sendUnlockCommand(d, r) \/ UnlockStep(d, r) \/ VendorCallFails(d, r)
  BY <1>2, <1>9 DEF vars, keys, Crash, updateLease, LeaseEnds, registerSmartLock,
     updateLockPairingStatus, TokenExpires, sendUnlockCommand, UnlockStep,
     refreshAugustToken, refreshAugustToken_store, unlock, VendorCallFails
<1> QED BY <1>4, <1>5, <1>6, <1>7, <1>8, <1>9 DEF Next

\* Only a call that ran to its end answers, and it has revoked every key of the
\* lease that was usable.
LEMMA AnswerIsTrue ==
  ASSUME Shape, NEW l \in Leases, enforceLeaseStatus(l), enforced'[l] # enforced[l]
  PROVE  \A k \in enforced'[l] : Dead(k)'
<1>1. key' = Revoke(UsableKeys(l)) /\ enforced' = [enforced EXCEPT ![l] = KeysOf(l)]
  BY DEF enforceLeaseStatus
<1>2. enforced'[l] = KeysOf(l)
  BY <1>1 DEF Shape
<1> SUFFICES ASSUME NEW k \in KeysOf(l) PROVE Dead(k)'
  BY <1>2
<1>3. /\ k \in Keys /\ LeaseOfKey[k] = l /\ key[k].status # "none"
      /\ key[k] \in [status : {"none", "active", "revoked"}, lapsed : BOOLEAN]
  BY DEF KeysOf, Shape
<1>4. CASE k \in UsableKeys(l)
  BY <1>1, <1>3, <1>4 DEF Revoke, Dead
<1>5. CASE k \notin UsableKeys(l)
  <2>1. key'[k] = key[k]
    BY <1>1, <1>3, <1>5 DEF Revoke
  <2> QED BY <1>3, <1>5, <2>1 DEF UsableKeys, Dead
<1> QED BY <1>4, <1>5

LEMMA EnforcedAlone ==
  ASSUME Shape, [Next]_vars, NEW l \in Leases, enforced'[l] # enforced[l]
  PROVE  enforceLeaseStatus(l)
<1>1. ASSUME NEW m \in Leases, enforceLeaseStatus(m) PROVE m = l
  BY <1>1 DEF enforceLeaseStatus, Shape
<1>2. ~UNCHANGED enforced
  OBVIOUS
<1>3. ~\/ UNCHANGED vars \/ Crash
       \/ \E m \in Leases : updateLease(m) \/ LeaseEnds(m)
       \/ \E k \in Keys : issueDigitalKey(k) \/ KeyLapses(k) \/ revokeDigitalKey(k)
       \/ revokeExpiredKeys
       \/ \E d \in Locks : registerSmartLock(d) \/ updateLockPairingStatus(d) \/ TokenExpires(d)
       \/ \E d \in Locks, r \in Requests :
            sendUnlockCommand(d, r) \/ UnlockStep(d, r) \/ VendorCallFails(d, r)
  BY <1>2 DEF vars, keys, Crash, updateLease, LeaseEnds, issueDigitalKey, KeyLapses,
     revokeDigitalKey, revokeExpiredKeys, registerSmartLock, updateLockPairingStatus,
     TokenExpires, sendUnlockCommand, UnlockStep, refreshAugustToken,
     refreshAugustToken_store, unlock, VendorCallFails
<1> QED BY <1>1, <1>3 DEF Next

LEMMA AllDeadStep == Shape /\ Shape' /\ AllDead /\ [Next]_vars => AllDead'
<1> SUFFICES ASSUME Shape, Shape', AllDead, [Next]_vars,
                    NEW l \in Leases, NEW k \in enforced'[l]
             PROVE  Dead(k)'
  BY DEF AllDead
<1>1. CASE enforced'[l] = enforced[l]
  <2>1. k \in Keys /\ Dead(k)
    BY <1>1 DEF AllDead, Shape
  <2> QED BY <2>1, DeadStaysDead
<1>2. CASE enforced'[l] # enforced[l]
  BY <1>2, EnforcedAlone, AnswerIsTrue
<1> QED BY <1>1, <1>2

-----------------------------------------------------------------------------
(* The rows and the vendor                                                 *)

LEMMA RegisterStep ==
  ASSUME Inv, NEW d \in Locks, registerSmartLock(d)
  PROVE  Inv'
<1>1. PICK s \in {"pending", "paired"}, t \in BOOLEAN :
         lock' = [lock EXCEPT ![d] = [pairing |-> s, token |-> vendor[d].token, dated |-> t]]
  BY DEF registerSmartLock
<1>2. /\ lock[d].pairing = Unregistered
      /\ UNCHANGED <<lease, key, enforced, vendor, request, opened, changes, expiries, faults>>
  BY DEF registerSmartLock, keys
<1>3. vendor[d].token \in Nat /\ s \in Pairing /\ s # Unregistered
  BY <1>1 DEF Inv, Shape, Pairing, Unregistered
<1>4. /\ lock' \in [Locks -> Row] /\ lock'[d].token = vendor[d].token
      /\ lock'[d].pairing = s
      /\ \A e \in Locks \ {d} : lock'[e] = lock[e]
  BY <1>1, <1>3 DEF Inv, Shape, Row
<1>5. Shape' /\ MadeForExpired'
  BY <1>2, <1>4 DEF Inv, Shape, MadeForExpired
<1>6. NotAhead'
  BY <1>2, <1>3, <1>4 DEF Inv, NotAhead
<1>7. ASSUME faults' = 0, NEW e \in Locks PROVE Kept(e)'
  BY <1>2, <1>3, <1>4, <1>7 DEF Inv, Kept
<1> QED BY <1>5, <1>6, <1>7 DEF Inv

LEMMA PairingStep ==
  ASSUME Inv, NEW d \in Locks, updateLockPairingStatus(d)
  PROVE  Inv'
<1>1. PICK s \in Pairing : lock' = [lock EXCEPT ![d].pairing = s]
  BY DEF updateLockPairingStatus
<1>2. /\ lock[d].pairing # Unregistered /\ changes' \in 0 .. MaxChanges
      /\ UNCHANGED <<lease, key, enforced, vendor, request, opened, expiries, faults>>
  BY DEF updateLockPairingStatus, keys, Inv, Shape
<1>3. s # Unregistered
  BY DEF Pairing, Unregistered
<1>4. /\ lock' \in [Locks -> Row] /\ lock'[d].pairing = s
      /\ \A e \in Locks : lock'[e].token = lock[e].token
      /\ \A e \in Locks \ {d} : lock'[e] = lock[e]
  BY <1>1 DEF Inv, Shape, Row
<1>5. Shape' /\ MadeForExpired'
  BY <1>2, <1>4 DEF Inv, Shape, MadeForExpired
<1>6. NotAhead'
  BY <1>2, <1>4 DEF Inv, NotAhead
<1>7. ASSUME faults' = 0, NEW e \in Locks PROVE Kept(e)'
  BY <1>2, <1>3, <1>4, <1>7 DEF Inv, Kept
<1> QED BY <1>5, <1>6, <1>7 DEF Inv

LEMMA ExpiryStep ==
  ASSUME Inv, NEW d \in Locks, TokenExpires(d)
  PROVE  Inv'
<1>1. /\ vendor[d].live /\ expiries < MaxExpiries /\ expiries' = expiries + 1
      /\ vendor' = [vendor EXCEPT ![d].live = FALSE]
      /\ opened' = [opened EXCEPT ![d] = FALSE]
      /\ UNCHANGED <<lease, key, enforced, lock, request, changes, faults>>
  BY DEF TokenExpires, keys
<1>2. /\ vendor' \in [Locks -> [token : Nat, live : BOOLEAN]]
      /\ \A e \in Locks : vendor'[e].token = vendor[e].token
      /\ ~vendor'[d].live
      /\ \A e \in Locks \ {d} : vendor'[e].live = vendor[e].live
  BY <1>1 DEF Inv, Shape
<1>3. opened' \in [Locks -> BOOLEAN]
  BY <1>1 DEF Inv, Shape
<1>4. expiries' \in 0 .. MaxExpiries
  BY <1>1 DEF Inv, Shape
<1>5. Shape'
  BY <1>1, <1>2, <1>3, <1>4 DEF Inv, Shape
<1>6. MadeForExpired'
  <2> SUFFICES ASSUME NEW e \in Locks
               PROVE  vendor'[e].token + (IF vendor'[e].live THEN 0 ELSE 1) <= expiries'
    BY DEF MadeForExpired
  <2>1. PICK t \in Nat : t = vendor[e].token
    BY DEF Inv, Shape
  <2>2. expiries \in Nat /\ expiries' = expiries + 1
    BY <1>1 DEF Inv, Shape
  <2>3. t + (IF vendor[e].live THEN 0 ELSE 1) <= expiries
    BY <2>1 DEF Inv, MadeForExpired
  <2>4. CASE e = d
    <3>1. t <= expiries
      BY <1>1, <2>1, <2>3, <2>4
    <3> QED BY <1>2, <2>1, <2>2, <2>4, <3>1
  <2>5. CASE e # d
    <3>1. (vendor'[e].live <=> vendor[e].live) /\ vendor'[e].token = t
      BY <1>2, <2>1, <2>5
    <3> QED BY <2>2, <2>3, <3>1
  <2> QED BY <2>4, <2>5
<1>7. NotAhead'
  BY <1>1, <1>2 DEF Inv, NotAhead
<1>8. ASSUME faults' = 0, NEW e \in Locks PROVE Kept(e)'
  BY <1>1, <1>2, <1>8 DEF Inv, Kept
<1> QED BY <1>5, <1>6, <1>7, <1>8 DEF Inv

-----------------------------------------------------------------------------
(* The requests                                                            *)

\* A request ends, or goes on with the row it has; nothing else changes.
Moves(d, r, new) ==
  /\ request' = [request EXCEPT ![d][r] = new]
  /\ UNCHANGED <<lease, key, enforced, lock, vendor, changes, expiries>>
  /\ opened' \in [Locks -> BOOLEAN]

\* The request is now at new.
Becomes(d, r, new) == request' = [request EXCEPT ![d][r] = new]

LEMMA Requested ==
  ASSUME Shape, NEW d \in Locks, NEW r \in Requests, NEW new \in Unlock,
         Becomes(d, r, new)
  PROVE  /\ request' \in [Locks -> [Requests -> Unlock]]
         /\ request'[d][r] = new
         /\ \A e \in Locks, q \in Requests :
               e # d \/ q # r => request'[e][q] = request[e][q]
  BY DEF Shape, Becomes

LEMMA SendStep ==
  ASSUME Inv, NEW d \in Locks, NEW r \in Requests, sendUnlockCommand(d, r)
  PROVE  Inv'
<1> DEFINE new == [pc |-> IF Refreshes(d) THEN "refresh" ELSE "unlock",
                   token |-> lock[d].token]
<1>1. /\ lock[d].pairing = "paired" /\ request[d][r].pc = "idle"
      /\ request' = [request EXCEPT ![d][r] = new]
      /\ UNCHANGED <<lease, key, enforced, lock, vendor, opened, changes, expiries, faults>>
  BY DEF sendUnlockCommand, keys
<1>2. lock[d].token \in Nat
  BY DEF Inv, Shape, Row
<1>3. new \in Unlock /\ new.token = lock[d].token /\ new.pc \in {"refresh", "unlock"}
      /\ (new.pc = "refresh" => Refreshes(d))
  BY <1>2 DEF Unlock
<1>4. /\ request' \in [Locks -> [Requests -> Unlock]] /\ request'[d][r] = new
      /\ \A e \in Locks, q \in Requests : e # d \/ q # r => request'[e][q] = request[e][q]
  <2>1. Shape
    BY DEF Inv
  <2>2. new \in Unlock /\ Becomes(d, r, new)
    BY <1>1, <1>3 DEF Becomes
  <2> HIDE DEF new
  <2> QED BY <2>1, <2>2, Requested
<1> HIDE DEF new
<1>5. Shape' /\ MadeForExpired'
  BY <1>1, <1>4 DEF Inv, Shape, MadeForExpired
<1>6. NotAhead'
  <2>1. new.pc = "refresh" /\ new.token = vendor[d].token => ~vendor[d].live
    BY <1>3 DEF Refreshes, Expired, Inv, Shape
  <2>2. new.token <= vendor[d].token
    BY <1>3 DEF Inv, NotAhead
  <2> QED BY <1>1, <1>3, <1>4, <2>1, <2>2 DEF Inv, NotAhead
<1>7. ASSUME faults' = 0, NEW e \in Locks PROVE Kept(e)'
  <2>1. Kept(e)
    BY <1>1, <1>7 DEF Inv
  <2>2. CASE e # d
    BY <1>1, <1>4, <2>1, <2>2 DEF Kept
  <2>3. CASE e = d
    BY <1>1, <1>2, <1>3, <1>4, <2>1, <2>3 DEF Kept, Unregistered
  <2> QED BY <2>2, <2>3
<1> QED BY <1>5, <1>6, <1>7 DEF Inv

\* A request that ends, or that goes on to unlock, without new tokens.
LEMMA MoveStep ==
  ASSUME Inv, NEW d \in Locks, NEW r \in Requests, NEW new \in Unlock,
         Moves(d, r, new), faults' \in 0 .. MaxFaults,
         \/ new.pc = "idle" /\ new.token = 0
         \/ new.pc = "unlock" /\ new.token = request[d][r].token,
         faults' = 0 => faults = 0 /\ request[d][r].pc \in {"refresh", "unlock"}
  PROVE  Inv'
<1>1. /\ request' \in [Locks -> [Requests -> Unlock]] /\ request'[d][r] = new
      /\ \A e \in Locks, q \in Requests : e # d \/ q # r => request'[e][q] = request[e][q]
  <2>1. Shape /\ Becomes(d, r, new)
    BY DEF Moves, Inv, Becomes
  <2> QED BY <2>1, Requested
<1>2. UNCHANGED <<lease, key, enforced, lock, vendor, changes, expiries>> /\ opened' \in [Locks -> BOOLEAN]
  BY DEF Moves
<1>3. Shape' /\ MadeForExpired'
  BY <1>1, <1>2 DEF Inv, Shape, MadeForExpired
<1>4. NotAhead'
  <2>1. new.token <= vendor[d].token /\ vendor[d].token \in Nat
    BY DEF Inv, NotAhead, Shape
  <2> QED BY <1>1, <1>2, <2>1 DEF Inv, NotAhead
<1>5. ASSUME faults' = 0, NEW e \in Locks PROVE Kept(e)'
  <2>1. Kept(e) /\ Kept(d) /\ request[d][r].pc \in {"refresh", "unlock"}
    BY <1>5 DEF Inv
  <2>2. CASE e # d
    <3>1. \A q \in Requests : request'[e][q] = request[e][q]
      BY <1>1, <2>2
    <3> QED BY <1>2, <2>1, <3>1 DEF Kept
  <2>3. CASE e = d
    <3>1. \A q \in Requests \ {r} : request'[d][q] = request[d][q]
      BY <1>1
    <3>2. new.pc # "store" /\ (new.pc # "idle" => new.token = request[d][r].token)
      OBVIOUS
    <3>3. lock[d].pairing # Unregistered
      BY <2>1 DEF Kept
    <3>4. /\ request'[d][r].pc # "store" /\ request[d][r].pc # "idle"
          /\ request'[d][r].pc # "idle" => request'[d][r].token <= lock[d].token
          /\ request[d][r].pc # "store"
      BY <1>1, <2>1, <3>2, <3>3 DEF Kept
    <3>5. ASSUME NEW q \in Requests
          PROVE  /\ request'[d][q].pc # "idle" => request'[d][q].token <= lock[d].token
                 /\ request'[d][q].pc = "store" =>
                      /\ request[d][q].pc = "store" /\ request'[d][q] = request[d][q]
      BY <2>1, <3>1, <3>3, <3>4 DEF Kept
    <3>6. (\A q \in Requests : request'[d][q].pc # "store")
             => \A q \in Requests : request[d][q].pc # "store"
      BY <3>1, <3>4
    <3>7. ASSUME NEW q \in Requests, request'[d][q].pc = "store"
          PROVE  /\ request'[d][q].token + 1 = vendor[d].token
                 /\ lock[d].token + 1 = vendor[d].token
                 /\ \A s \in Requests \ {q} : request'[d][s].pc # "store"
      BY <2>1, <3>1, <3>3, <3>4, <3>5, <3>7 DEF Kept
    <3> QED BY <1>2, <2>1, <2>3, <3>3, <3>5, <3>6, <3>7 DEF Kept
  <2> QED BY <2>2, <2>3
<1> QED BY <1>3, <1>4, <1>5 DEF Inv

LEMMA IdleUnlock == Idle \in Unlock /\ Idle.pc = "idle" /\ Idle.token = 0
  BY DEF Idle, Unlock

LEMMA RefreshStep ==
  ASSUME Inv, NEW d \in Locks, NEW r \in Requests, refreshAugustToken(d, r)
  PROVE  Inv'
<1>1. /\ request[d][r].pc = "refresh"
      /\ UNCHANGED <<lease, key, enforced, lock, opened, changes, expiries, faults>>
  BY DEF refreshAugustToken, keys
<1>2. CASE request[d][r].token # vendor[d].token
  <2>1. Moves(d, r, Idle)
    BY <1>1, <1>2 DEF refreshAugustToken, Moves, Inv, Shape
  <2> QED BY <1>1, <2>1, IdleUnlock, MoveStep DEF Inv, Shape
<1>3. CASE request[d][r].token = vendor[d].token
  <2> DEFINE t == vendor[d].token
             new == [request[d][r] EXCEPT !.pc = "store"]
  <2>1. /\ vendor' = [vendor EXCEPT ![d] = [token |-> t + 1, live |-> TRUE]]
        /\ request' = [request EXCEPT ![d][r].pc = "store"]
    BY <1>3 DEF refreshAugustToken
  <2>2. t \in Nat /\ request[d][r] \in Unlock
    BY DEF Inv, Shape
  <2>3. new \in Unlock /\ new.pc = "store" /\ new.token = t
    BY <1>3, <2>2 DEF Unlock
  <2>4. request' = [request EXCEPT ![d][r] = new]
    BY <2>1
  <2>5. /\ request' \in [Locks -> [Requests -> Unlock]] /\ request'[d][r] = new
        /\ \A e \in Locks, q \in Requests : e # d \/ q # r => request'[e][q] = request[e][q]
    <3>1. Shape
      BY DEF Inv
    <3>2. new \in Unlock /\ Becomes(d, r, new)
      BY <2>3, <2>4 DEF Becomes
    <3> HIDE DEF new
    <3> QED BY <3>1, <3>2, Requested
  <2>6. /\ vendor' \in [Locks -> [token : Nat, live : BOOLEAN]]
        /\ vendor'[d].token = t + 1 /\ vendor'[d].live
        /\ \A e \in Locks \ {d} : vendor'[e] = vendor[e]
    BY <2>1, <2>2 DEF Inv, Shape
  <2>7. ~vendor[d].live
    BY <1>1, <1>3 DEF Inv, NotAhead
  <2> HIDE DEF t, new
  <2>8. Shape'
    BY <1>1, <2>5, <2>6 DEF Inv, Shape
  <2>9. MadeForExpired'
    <3> SUFFICES ASSUME NEW e \in Locks
                 PROVE  vendor'[e].token + (IF vendor'[e].live THEN 0 ELSE 1) <= expiries
      BY <1>1 DEF MadeForExpired
    <3>1. vendor[e].token + (IF vendor[e].live THEN 0 ELSE 1) <= expiries
      BY DEF Inv, MadeForExpired
    <3>2. CASE e # d
      BY <2>6, <3>1, <3>2
    <3>3. CASE e = d
      <4>1. t + 1 <= expiries
        BY <2>7, <3>1, <3>3 DEF t
      <4> QED BY <2>6, <2>2, <3>3, <4>1
    <3> QED BY <3>2, <3>3
  <2>10. NotAhead'
    <3> SUFFICES ASSUME NEW e \in Locks
        PROVE /\ lock[e].token <= vendor'[e].token
              /\ \A q \in Requests :
                   /\ request'[e][q].token <= vendor'[e].token
                   /\ request'[e][q].pc = "refresh" /\ request'[e][q].token = vendor'[e].token
                        => ~vendor'[e].live
                   /\ request'[e][q].pc = "store" => request'[e][q].token < vendor'[e].token
      BY <1>1 DEF NotAhead
    <3>1. CASE e # d
      BY <2>5, <2>6, <3>1 DEF Inv, NotAhead
    <3>2. CASE e = d
      <4>1. lock[d].token \in Nat /\ lock[d].token <= t
        BY DEF Inv, NotAhead, Shape, Row, t
      <4>2. ASSUME NEW q \in Requests
            PROVE  request'[d][q].token \in Nat /\ request'[d][q].token <= t
        <5>1. request[d][q].token \in Nat /\ request[d][q].token <= t
          BY DEF Inv, NotAhead, Shape, Unlock, t
        <5> QED BY <2>2, <2>3, <2>5, <5>1
      <4> QED BY <2>2, <2>6, <3>2, <4>1, <4>2
    <3> QED BY <3>1, <3>2
  <2>11. ASSUME faults' = 0, NEW e \in Locks PROVE Kept(e)'
    <3>1. Kept(e) /\ Kept(d)
      BY <1>1, <2>11 DEF Inv
    <3>2. CASE e # d
      <4>1. \A q \in Requests : request'[e][q] = request[e][q]
        BY <2>5, <3>2
      <4>2. vendor'[e] = vendor[e] /\ lock' = lock
        BY <1>1, <2>6, <3>2
      <4> QED BY <3>1, <4>1, <4>2 DEF Kept
    <3>3. CASE e = d
      <4>1. lock[d].pairing # Unregistered /\ t <= lock[d].token
        BY <1>1, <1>3, <3>1 DEF Kept, t
      <4>2. lock[d].token = t
        <5>1. lock[d].token \in Nat /\ lock[d].token <= vendor[d].token /\ vendor[d].token \in Nat
          BY DEF Inv, NotAhead, Shape, Row
        <5> QED BY <4>1, <5>1 DEF t
      <4>3. \A q \in Requests : request[d][q].pc # "store"
        BY <2>2, <3>1, <4>1, <4>2 DEF Kept, t
      <4>4. \A q \in Requests : q # r => request'[d][q] = request[d][q]
        BY <2>5
      <4>5. ASSUME NEW q \in Requests, request'[d][q].pc # "idle"
            PROVE  request'[d][q].token <= lock[d].token
        <5>1. CASE q = r
          BY <2>2, <2>3, <2>5, <4>2, <5>1
        <5>2. CASE q # r
          BY <3>1, <4>1, <4>4, <4>5, <5>2 DEF Kept
        <5> QED BY <5>1, <5>2
      <4>6. request'[d][r].token = t /\ vendor'[d].token = t + 1 /\ lock' = lock
        BY <1>1, <2>3, <2>5, <2>6
      <4>7. \A q \in Requests \ {r} : request'[d][q].pc # "store"
        BY <4>3, <4>4
      <4>8. request'[d][r].pc = "store"
        BY <2>3, <2>5
      <4> QED BY <3>3, <4>1, <4>2, <4>5, <4>6, <4>7, <4>8 DEF Kept
    <3> QED BY <3>2, <3>3
  <2> QED BY <2>8, <2>9, <2>10, <2>11 DEF Inv
<1> QED BY <1>2, <1>3

LEMMA StoreStep ==
  ASSUME Inv, NEW d \in Locks, NEW r \in Requests, refreshAugustToken_store(d, r)
  PROVE  Inv'
<1> DEFINE t == request[d][r].token
           new == [request[d][r] EXCEPT !.pc = "unlock"]
<1>1. /\ request[d][r].pc = "store"
      /\ lock' = [lock EXCEPT ![d] = [lock[d] EXCEPT !.token = t + 1, !.dated = TRUE]]
      /\ request' = [request EXCEPT ![d][r] = new]
      /\ UNCHANGED <<lease, key, enforced, vendor, opened, changes, expiries, faults>>
  BY DEF refreshAugustToken_store, keys, Inv, Shape
<1>2. t \in Nat /\ request[d][r] \in Unlock /\ lock[d] \in Row
  BY DEF Inv, Shape, Unlock
<1>3. new \in Unlock /\ new.pc = "unlock" /\ new.token = t
  BY <1>2 DEF Unlock
<1>4. /\ request' \in [Locks -> [Requests -> Unlock]] /\ request'[d][r] = new
      /\ \A e \in Locks, q \in Requests : e # d \/ q # r => request'[e][q] = request[e][q]
  <2>1. Shape
    BY DEF Inv
  <2>2. new \in Unlock /\ Becomes(d, r, new)
    BY <1>1, <1>3 DEF Becomes
  <2> HIDE DEF new
  <2> QED BY <2>1, <2>2, Requested
<1>5. /\ lock' \in [Locks -> Row] /\ lock'[d].token = t + 1
      /\ lock'[d].pairing = lock[d].pairing
      /\ \A e \in Locks \ {d} : lock'[e] = lock[e]
  <2>1. lock \in [Locks -> Row]
    BY DEF Inv, Shape
  <2> HIDE DEF t
  <2>2. [lock[d] EXCEPT !.token = t + 1, !.dated = TRUE] \in Row
    <3>1. PICK u : u = t + 1
      OBVIOUS
    <3>2. u \in Nat
      BY <1>2, <3>1
    <3>3. [lock[d] EXCEPT !.token = u, !.dated = TRUE] \in Row
      BY <1>2, <3>2 DEF Row
    <3> QED BY <3>1, <3>3
  <2> DEFINE row == [lock[d] EXCEPT !.token = t + 1, !.dated = TRUE]
  <2> HIDE DEF row
  <2>3. lock' \in [Locks -> Row] /\ lock'[d] = row
    <3>1. lock' = [lock EXCEPT ![d] = row] /\ row \in Row
      BY <1>1, <2>2 DEF row
    <3> QED BY <2>1, <3>1
  <2> USE DEF row
  <2>4. lock'[d].token = t + 1 /\ lock'[d].pairing = lock[d].pairing
    BY <1>2, <2>3 DEF Row
  <2> QED BY <1>1, <2>1, <2>3, <2>4
<1>6. t < vendor[d].token /\ vendor[d].token \in Nat
  BY <1>1 DEF Inv, NotAhead, Shape
<1> HIDE DEF t, new
<1>7. Shape' /\ MadeForExpired'
  BY <1>1, <1>4, <1>5 DEF Inv, Shape, MadeForExpired
<1>8. NotAhead'
  BY <1>1, <1>2, <1>3, <1>4, <1>5, <1>6 DEF Inv, NotAhead
<1>9. ASSUME faults' = 0, NEW e \in Locks PROVE Kept(e)'
  <2>1. Kept(e) /\ Kept(d)
    BY <1>1, <1>9 DEF Inv
  <2>2. CASE e # d
    BY <1>1, <1>4, <1>5, <2>1, <2>2 DEF Kept
  <2>3. CASE e = d
    <3>1. /\ lock[d].pairing # Unregistered
          /\ t + 1 = vendor[d].token /\ lock[d].token + 1 = vendor[d].token
          /\ \A q \in Requests \ {r} : request[d][q].pc # "store"
      BY <1>1, <2>1 DEF Kept, t
    <3>2. \A q \in Requests : request'[d][q].pc # "store"
      BY <1>3, <1>4, <3>1
    <3>3. ASSUME NEW q \in Requests, request'[d][q].pc # "idle"
          PROVE  request'[d][q].token <= lock'[d].token
      <4>1. lock[d].token \in Nat
        BY <1>2 DEF Row
      <4>2. request[d][q].token \in Nat
        BY DEF Inv, Shape, Unlock
      <4>3. CASE q = r
        BY <1>2, <1>3, <1>4, <1>5, <4>3
      <4>4. CASE q # r
        <5>1. request[d][q].token <= lock[d].token /\ request'[d][q] = request[d][q]
          BY <1>4, <2>1, <3>1, <3>3, <4>4 DEF Kept
        <5> QED BY <1>2, <1>5, <3>1, <4>1, <4>2, <5>1
      <4> QED BY <4>3, <4>4
    <3> QED BY <1>1, <1>5, <2>3, <3>1, <3>2, <3>3 DEF Kept
  <2> QED BY <2>2, <2>3
<1> QED BY <1>7, <1>8, <1>9 DEF Inv

LEMMA CrashStep == ASSUME Inv, Crash PROVE Inv'
<1>1. /\ faults' = faults + 1 /\ faults' \in 0 .. MaxFaults
      /\ request' = [d \in Locks |-> [r \in Requests |-> Idle]]
      /\ UNCHANGED <<lease, key, enforced, lock, vendor, opened, changes, expiries>>
  BY DEF Crash, keys, Inv, Shape
<1>2. Shape' /\ MadeForExpired'
  BY <1>1, IdleUnlock DEF Inv, Shape, MadeForExpired
<1>3. NotAhead'
  <2>1. \A d \in Locks : vendor[d].token \in Nat
    BY DEF Inv, Shape
  <2> QED BY <1>1, <2>1, IdleUnlock DEF Inv, NotAhead
<1>4. faults' # 0
  BY <1>1 DEF Inv, Shape
<1> QED BY <1>2, <1>3, <1>4 DEF Inv

LEMMA UnlockStepsHold ==
  ASSUME Inv, NEW d \in Locks, NEW r \in Requests,
         sendUnlockCommand(d, r) \/ UnlockStep(d, r) \/ VendorCallFails(d, r)
  PROVE  Inv'
<1>1. CASE unlock(d, r)
  <2>1. opened' \in [Locks -> BOOLEAN]
    BY <1>1 DEF unlock, Inv, Shape
  <2>2. Moves(d, r, Idle) /\ faults' = faults /\ request[d][r].pc = "unlock"
    BY <1>1, <2>1 DEF unlock, Moves, keys
  <2> QED BY <2>2, IdleUnlock, MoveStep DEF Inv, Shape
<1>2. CASE VendorCallFails(d, r)
  <2>1. Moves(d, r, Idle) /\ faults' = faults + 1 /\ faults < MaxFaults
    BY <1>2 DEF VendorCallFails, Moves, keys, Inv, Shape
  <2>2. faults' \in 0 .. MaxFaults /\ faults' # 0
    BY <2>1 DEF Inv, Shape
  <2> QED BY <2>1, <2>2, IdleUnlock, MoveStep
<1> QED BY <1>1, <1>2, SendStep, RefreshStep, StoreStep DEF UnlockStep

-----------------------------------------------------------------------------
(* The theorems                                                            *)

LEMMA InvStep == Inv /\ [Next]_vars => Inv'
<1> SUFFICES ASSUME Inv, [Next]_vars PROVE Inv'
  OBVIOUS
<1>1. CASE UNCHANGED vars
  <2>1. LocksAlone /\ Shape' /\ faults' = faults
    BY <1>1 DEF vars, LocksAlone, Inv, Shape
  <2> QED BY <2>1, LocksAloneStep
<1>2. CASE Next
  BY <1>2, KeyStep, RegisterStep, PairingStep, ExpiryStep, UnlockStepsHold, CrashStep
     DEF Next, KeyActions
<1> QED BY <1>1, <1>2

LEMMA Invariance == Spec => []Inv
  BY InitInv, InvStep, PTL DEF Spec

\* The tables stay well typed, and neither a row nor a request holds tokens the
\* vendor has not made, whatever fails in the middle of a refresh.
THEOREM SmartLockTypeCorrect == Spec => []TypeOK
<1>1. Inv => TypeOK
  <2> SUFFICES ASSUME Inv PROVE TypeOK
    OBVIOUS
  <2>1. ASSUME NEW d \in Locks PROVE vendor[d].token \in 0 .. MaxExpiries
    <3>1. vendor[d].token \in Nat /\ expiries \in 0 .. MaxExpiries
      BY DEF Inv, Shape
    <3>2. vendor[d].token + (IF vendor[d].live THEN 0 ELSE 1) <= expiries
      BY DEF Inv, MadeForExpired
    <3>3. vendor[d].token <= expiries
      BY <3>1, <3>2
    <3> QED BY <3>1, <3>3
  <2>2. vendor \in [Locks -> [token : 0 .. MaxExpiries, live : BOOLEAN]]
    BY <2>1 DEF Inv, Shape
  <2>3. ASSUME NEW d \in Locks
        PROVE  /\ lock[d].token \in 0 .. vendor[d].token
               /\ \A r \in Requests : request[d][r].token \in 0 .. vendor[d].token
    BY DEF Inv, NotAhead, Shape, Row, Unlock
  <2> QED BY <2>2, <2>3 DEF Inv, Shape, Row, Unlock, TypeOK
<1> QED BY <1>1, Invariance, PTL

\* However many unlocks refresh the token at once, and in whatever order the
\* answers are stored: the tokens made last are in the row, or one request alone
\* is about to put them there.
THEOREM TokensAreAlwaysKept == Spec => []TokensAreKept
<1>1. Inv => TokensAreKept
  BY DEF Inv, Kept, TokensAreKept
<1> QED BY <1>1, Invariance, PTL

\* Once enforceLeaseStatus has answered "Keys revoked", no key the lease had then
\* is usable ever again, for any leases and keys, whatever is issued, revoked or
\* cut short afterwards.
THEOREM EnforcementAlwaysHolds == Spec => []EnforcementHolds
<1>1. Init => AllDead
  BY DEF Init, AllDead
<1>2. Inv => Shape
  BY DEF Inv
<1>3. Shape /\ AllDead => EnforcementHolds
  BY DEF Shape, AllDead, Dead, UsableKeys, EnforcementHolds
<1>4. Spec => [](Shape /\ AllDead)
  BY <1>1, <1>2, Invariance, AllDeadStep, PTL DEF Spec
<1> QED BY <1>3, <1>4, PTL
=============================================================================
