-------------------------- MODULE RentEscrowProofs --------------------------
(***************************************************************************)
(* RentEscrow for any set of escrows and tickets, any percentages and any  *)
(* number of faults.  The argument is bookkeeping: what an escrow has paid *)
(* plus what the operation in progress is still going to log for it never  *)
(* exceeds what its status says it owes, and equals it without faults.     *)
(* From the same invariant the service implements EscrowContract.          *)
(***************************************************************************)
EXTENDS RentEscrow, FiniteSetTheorems, TLAPS

\* Percent the operation in progress is still going to log for e.
Outstanding(e) ==
    IF cur # e THEN 0
    ELSE CASE pc \in {"log_release", "log_return", "log_refund",
                      "log_split_landlord"} -> 100
           [] pc = "log_split_tenant" -> 100 - split
           [] OTHER -> 0

\* What the status of e says was paid out.
Owed(e) == IF escrow[e] \in Settled THEN 100 ELSE 0

\* The deposit row still to be written, and the one that should be there.
OutstandingDeposit(e) == IF cur = e /\ pc = "log_deposit" THEN 100 ELSE 0
OwedDeposit(e) == IF escrow[e] # "none" THEN 100 ELSE 0

LoggingAt(s) ==
    CASE s = "log_release" -> "release"
      [] s = "log_return" -> "return"
      [] s = "log_split_landlord" -> "split_landlord"
      [] s = "log_split_tenant" -> "split_tenant"
      [] s = "log_refund" -> "refund"

LogSteps == {"log_release", "log_return", "log_split_landlord",
             "log_split_tenant", "log_refund"}

\* An operation in progress has an escrow, one that has its status.
InProgress ==
    /\ pc \notin {"idle", "sweep_next"} => cur \in Escrow
    /\ pc \in {"idle", "sweep_next"} => cur = NoEscrow
    /\ pc \in LogSteps => escrow[cur] = StatusOf(LoggingAt(pc))
    /\ pc = "log_deposit" => escrow[cur] # "none"

Bounded == \A e \in Escrow : Paid(e) + Outstanding(e) <= Owed(e)

Exact ==
    faults = 0 =>
        \A e \in Escrow :
            /\ Paid(e) + Outstanding(e) = Owed(e)
            /\ logged[e]["deposit"] + OutstandingDeposit(e) = OwedDeposit(e)

Inv ==
    /\ TypeOK
    /\ InProgress
    /\ Bounded
    /\ LogAgreesWithStatus
    /\ Exact

-----------------------------------------------------------------------------

\* A row of any kind and share keeps the log well typed.
LEMMA LogTyped ==
    ASSUME logged \in [Escrow -> [TxKind -> Nat]],
           NEW e, NEW k \in TxKind, NEW share \in Nat,
           logTransaction(e, k, share)
    PROVE  logged' \in [Escrow -> [TxKind -> Nat]]
<1>1. CASE e \in Escrow
  <2>1. logged[e] \in [TxKind -> Nat]
    BY <1>1
  <2>2. [logged[e] EXCEPT ![k] = @ + share] \in [TxKind -> Nat]
    BY <2>1
  <2> QED BY <2>2, <1>1 DEF logTransaction
<1>2. CASE e \notin Escrow
  BY <1>2 DEF logTransaction
<1> QED BY <1>1, <1>2

\* The control part of the type invariant.
ControlTyped ==
    /\ pc \in Step \union {"idle"}
    /\ cur \in Escrow \union {NoEscrow}
    /\ split \in 0..100
    /\ sweep \in SUBSET Escrow
    /\ inSweep \in BOOLEAN

LEMMA LogStepTyped ==
    ASSUME TypeOK, NEW k \in TxKind, NEW share \in Nat, NEW at,
           LogStep(at, k, share), ControlTyped'
    PROVE  TypeOK'
<1>1. logged' \in [Escrow -> [TxKind -> Nat]]
  BY LogTyped DEF LogStep, TypeOK
<1> QED BY <1>1 DEF LogStep, TypeOK, ControlTyped

\* How an operation leaves the control when it goes on or returns.
LEMMA ControlStep ==
    ASSUME TypeOK
    PROVE  /\ Return => ControlTyped'
           /\ \A s \in Step : GoOn(s, cur) /\ UNCHANGED <<split, sweep, inSweep>>
                  => ControlTyped'
<1>1. ASSUME Return PROVE ControlTyped'
  <2>1. split' \in 0..100
    BY <1>1 DEF Return
  <2> QED BY <1>1, <2>1 DEF Return, TypeOK, ControlTyped, Step
<1>2. ASSUME NEW s \in Step, GoOn(s, cur), UNCHANGED <<split, sweep, inSweep>>
      PROVE  ControlTyped'
  BY <1>2 DEF GoOn, TypeOK, ControlTyped
<1> QED BY <1>1, <1>2

\* Membership facts the steps below need.
LEMMA KindsAreKinds ==
    /\ {"deposit", "release", "return", "refund", "split_landlord",
        "split_tenant"} = TxKind
    /\ {"create_verification", "log_split_tenant"} \subseteq Step
    /\ 100 \in Nat
    /\ \A p \in 0..100 : p \in Nat /\ 100 - p \in Nat
  BY DEF TxKind, PayoutKind, Step

LEMMA InitTyped == Init => TypeOK
<1> SUFFICES ASSUME Init PROVE TypeOK
  OBVIOUS
<1>1. logged \in [Escrow -> [TxKind -> Nat]]
  BY DEF Init
<1>2. /\ ticket \in [Ticket -> TicketStatus \union {"none"}]
      /\ escrow \in [Escrow -> EscrowStatus \union {"none"}]
      /\ answer \in [Escrow -> Answer \union {"none"}]
      /\ triggered \in [Escrow -> BOOLEAN]
      /\ expired \in [Escrow -> BOOLEAN]
      /\ photos \in [Escrow -> BOOLEAN]
  BY DEF Init
<1>3. pc \in Step \union {"idle"} /\ cur \in Escrow \union {NoEscrow}
  BY DEF Init
<1>4. split \in 0..100 /\ faults \in 0..MaxFaults
  BY MaxFaultsAssumption DEF Init
<1>5. sweep \in SUBSET Escrow /\ inSweep \in BOOLEAN
  BY DEF Init
<1> QED BY <1>1, <1>2, <1>3, <1>4, <1>5 DEF TypeOK

LEMMA InitInv == Init => Inv
<1> SUFFICES ASSUME Init PROVE Inv
  OBVIOUS
<1>1. TypeOK
  BY InitTyped
<1>2. InProgress /\ Bounded /\ LogAgreesWithStatus /\ Exact
  BY NoEscrowAssumption
  DEF Init, InProgress, Bounded, LogAgreesWithStatus, Exact, Paid, Outstanding,
      Owed, OutstandingDeposit, OwedDeposit, LogSteps, Settled, EscrowStatus,
      PayoutKind, TxKind
<1> QED BY <1>1, <1>2 DEF Inv

\* Every step keeps the type invariant.
LEMMA TypeStep == TypeOK /\ [Next]_vars => TypeOK'
<1> SUFFICES ASSUME TypeOK, [Next]_vars PROVE TypeOK'
  OBVIOUS
<1> USE DEF TypeOK, Step, Answer, EscrowStatus
<1>1. CASE Proceed
  <2>0. ASSUME NEW k \in TxKind, NEW share \in Nat, NEW at,
               LogStep(at, k, share), ControlTyped'
        PROVE  TypeOK'
    BY <2>0, LogStepTyped
  <2>1. CASE createEscrow_deposit
    BY <2>0, <2>1, KindsAreKinds, ControlStep DEF createEscrow_deposit
  <2>2. CASE createEscrow_verification
    BY <2>2, ControlStep DEF createEscrow_verification, ControlTyped
  <2>3. CASE releaseEscrowToLandlord_log
    BY <2>0, <2>3, KindsAreKinds, ControlStep DEF releaseEscrowToLandlord_log
  <2>4. CASE returnEscrowToTenant_log
    BY <2>0, <2>4, KindsAreKinds, ControlStep DEF returnEscrowToTenant_log
  <2>5. CASE splitEscrow_landlord
    BY <2>0, <2>5, KindsAreKinds, ControlStep DEF splitEscrow_landlord
  <2>6. CASE splitEscrow_tenant
    BY <2>0, <2>6, KindsAreKinds, ControlStep DEF splitEscrow_tenant
  <2>7. CASE cancelEscrow_log
    BY <2>0, <2>7, KindsAreKinds, ControlStep DEF cancelEscrow_log
  <2>8. CASE tenantConfirmRepairs_release
    BY <2>8, ControlStep
    DEF tenantConfirmRepairs_release, Settle, updateEscrowStatus, GoOn,
        ControlTyped
  <2>9. ASSUME NEW e \in Escrow, autoRelease_timeout(e) PROVE TypeOK'
    BY <2>9 DEF autoRelease_timeout, GoOn
  <2>10. CASE autoRelease_release
    BY <2>10, ControlStep
    DEF autoRelease_release, Settle, updateEscrowStatus, GoOn, ControlTyped
  <2>11. CASE autoRelease_end
    BY <2>11 DEF autoRelease_end, tables
  <2> QED
    BY <1>1, <2>1, <2>2, <2>3, <2>4, <2>5, <2>6, <2>7, <2>8, <2>9, <2>10, <2>11
    DEF Proceed
<1>2. CASE Request
  <2> USE DEF Settle, updateEscrowStatus, GoOn
  <2>1. ASSUME NEW e \in Escrow, NEW t \in Ticket, createEscrow(e, t)
        PROVE  TypeOK'
    BY <2>1 DEF createEscrow
  <2>2. ASSUME NEW e \in Escrow, releaseEscrowToLandlord(e) PROVE TypeOK'
    BY <2>2 DEF releaseEscrowToLandlord
  <2>3. ASSUME NEW e \in Escrow, returnEscrowToTenant(e) PROVE TypeOK'
    BY <2>3 DEF returnEscrowToTenant
  <2>4. ASSUME NEW e \in Escrow, NEW p \in Percent, splitEscrow(e, p)
        PROVE  TypeOK'
    BY <2>4, PercentAssumption DEF splitEscrow
  <2>5. ASSUME NEW e \in Escrow, cancelEscrow(e) PROVE TypeOK'
    BY <2>5 DEF cancelEscrow
  <2>6. ASSUME NEW e \in Escrow, uploadRepairPhotos(e) PROVE TypeOK'
    BY <2>6 DEF uploadRepairPhotos, control
  <2>7. ASSUME NEW e \in Escrow, tenantConfirmRepairs(e) PROVE TypeOK'
    BY <2>7 DEF tenantConfirmRepairs
  <2>8. ASSUME NEW e \in Escrow, tenantRejectRepairs(e) PROVE TypeOK'
    BY <2>8 DEF tenantRejectRepairs, control
  <2>9. CASE autoReleaseExpiredVerifications
    BY <2>9 DEF autoReleaseExpiredVerifications, ExpiredVerifications, tables
  <2> QED
    BY <1>2, <2>1, <2>2, <2>3, <2>4, <2>5, <2>6, <2>7, <2>8, <2>9 DEF Request
<1>3. ASSUME NEW t \in Ticket, NEW s \in TicketStatus, UpdateTicket(t, s)
      PROVE  TypeOK'
  BY <1>3 DEF UpdateTicket, control
<1>4. ASSUME NEW e \in Escrow, Expire(e) PROVE TypeOK'
  BY <1>4 DEF Expire, control
<1>5. CASE Crash
  <2>1. faults' \in 0..MaxFaults /\ split' \in 0..100
    BY <1>5, MaxFaultsAssumption DEF Crash
  <2> QED BY <1>5, <2>1 DEF Crash, tables
<1>6. CASE StatementThrows
  BY <1>6, MaxFaultsAssumption, ControlStep
  DEF StatementThrows, ControlTyped, tables
<1>7. CASE UNCHANGED vars
  BY <1>7 DEF vars, tables, control
<1> QED
  BY <1>1, <1>2, <1>3, <1>4, <1>5, <1>6, <1>7 DEF Next

-----------------------------------------------------------------------------
(* The bookkeeping                                                         *)

\* A row adds to the entry of its escrow and kind, and to no other.
LEMMA LogEffect ==
    ASSUME TypeOK, NEW k \in TxKind, NEW share \in Nat, NEW c \in Escrow,
           logTransaction(c, k, share)
    PROVE  \A e \in Escrow, j \in TxKind :
               logged'[e][j] = IF e = c /\ j = k THEN logged[e][j] + share
                               ELSE logged[e][j]
<1>1. \A e \in Escrow : logged[e] \in [TxKind -> Nat]
  BY DEF TypeOK
<1>2. logged' = [logged EXCEPT ![c] = [logged[c] EXCEPT ![k] = @ + share]]
  BY DEF logTransaction
<1>3. logged \in [Escrow -> [TxKind -> Nat]]
  BY DEF TypeOK
<1>4. ASSUME NEW e \in Escrow, NEW j \in TxKind
      PROVE  logged'[e][j] = IF e = c /\ j = k THEN logged[e][j] + share
                             ELSE logged[e][j]
  <2>1. CASE e = c
    <3>1. logged'[e] = [logged[c] EXCEPT ![k] = @ + share]
      BY <1>2, <1>3, <2>1
    <3> QED BY <3>1, <1>1, <2>1
  <2>2. CASE e # c
    BY <1>2, <1>3, <2>2
  <2> QED BY <2>1, <2>2
<1> QED BY <1>4

\* A payout row adds its share to what its escrow has paid.
LEMMA PaidEffect ==
    ASSUME TypeOK, NEW k \in PayoutKind, NEW share \in Nat, NEW c \in Escrow,
           logTransaction(c, k, share)
    PROVE  \A e \in Escrow :
               /\ Paid(e)' = Paid(e) + (IF e = c THEN share ELSE 0)
               /\ logged'[e]["deposit"] = logged[e]["deposit"]
<1> SUFFICES ASSUME NEW e \in Escrow
             PROVE  /\ Paid(e)' = Paid(e) + (IF e = c THEN share ELSE 0)
                    /\ logged'[e]["deposit"] = logged[e]["deposit"]
  OBVIOUS
<1>1. \A j \in TxKind :
         logged'[e][j] = IF e = c /\ j = k THEN logged[e][j] + share
                         ELSE logged[e][j]
  BY LogEffect DEF TxKind
<1>2. \A j \in TxKind : logged[e][j] \in Nat
  BY DEF TypeOK
<1> QED BY <1>1, <1>2 DEF Paid, TxKind, PayoutKind

LEMMA PaidNat == ASSUME TypeOK, NEW e \in Escrow PROVE Paid(e) \in Nat
<1>1. \A j \in TxKind : logged[e][j] \in Nat
  BY DEF TypeOK
<1> QED BY <1>1 DEF Paid, TxKind, PayoutKind

Quiet(p) == p \notin LogSteps \union {"log_deposit"}

\* A step that touches neither an escrow nor the log, and that abandons no
\* row still to be written unless it counts as a fault.
LEMMA QuietStep ==
    ASSUME Inv, TypeOK', UNCHANGED <<escrow, logged>>,
           Quiet(pc'), (Quiet(pc) /\ faults' = faults) \/ faults' > 0,
           \/ pc' \in {"idle", "sweep_next"} /\ cur' = NoEscrow
           \/ pc' \notin {"idle", "sweep_next"} /\ cur' \in Escrow
    PROVE  Inv'
<1> USE DEF Inv
<1>1. InProgress'
  BY DEF InProgress, Quiet, LogSteps
<1>2. \A e \in Escrow : Paid(e)' = Paid(e) /\ Owed(e)' = Owed(e)
                          /\ OwedDeposit(e)' = OwedDeposit(e)
  BY DEF Paid, Owed, OwedDeposit
<1>3. \A e \in Escrow : Outstanding(e)' = 0 /\ OutstandingDeposit(e)' = 0
  BY DEF Quiet, LogSteps, Outstanding, OutstandingDeposit
<1>4. \A e \in Escrow : Outstanding(e) \in Nat
  BY DEF Outstanding, TypeOK
<1>5. Bounded'
  <2> SUFFICES ASSUME NEW e \in Escrow
               PROVE  (Paid(e) + Outstanding(e) <= Owed(e))'
    BY DEF Bounded
  <2>1. Paid(e) + Outstanding(e) <= Owed(e) /\ Paid(e) \in Nat
    BY PaidNat DEF Bounded
  <2> QED BY <1>2, <1>3, <1>4, <2>1 DEF Owed
<1>6. LogAgreesWithStatus'
  BY DEF LogAgreesWithStatus
<1>7. Exact'
  <2>1. CASE faults' > 0
    BY <2>1 DEF Exact
  <2>2. CASE Quiet(pc) /\ faults' = faults
    <3>1. \A e \in Escrow : Outstanding(e) = 0 /\ OutstandingDeposit(e) = 0
      BY <2>2 DEF Quiet, LogSteps, Outstanding, OutstandingDeposit
    <3> QED BY <2>2, <3>1, <1>2, <1>3 DEF Exact
  <2> QED BY <2>1, <2>2
<1> QED BY <1>1, <1>5, <1>6, <1>7

\* The update that starts a settlement: nothing was owed or paid, and now all
\* of it is outstanding.
LEMMA SettleStep ==
    ASSUME Inv, TypeOK', Quiet(pc), UNCHANGED <<logged, faults>>,
           NEW next \in LogSteps \ {"log_split_tenant"}, NEW c \in Escrow,
           Settle(c, StatusOf(LoggingAt(next)), next)
    PROVE  Inv'
<1> USE DEF Inv
<1> DEFINE s == StatusOf(LoggingAt(next))
<1>1. s \in Settled
  BY DEF StatusOf, LoggingAt, LogSteps, Settled, EscrowStatus
<1>2. /\ escrow[c] = "active"
      /\ \A e \in Escrow : escrow'[e] = IF e = c THEN s ELSE escrow[e]
      /\ pc' = next /\ cur' = c
  BY DEF Settle, updateEscrowStatus, GoOn, TypeOK
<1> HIDE DEF s
<1>3. InProgress'
  BY <1>2 DEF InProgress, LogSteps, s
<1>4. \A e \in Escrow : /\ Paid(e)' = Paid(e)
                          /\ Paid(e) \in Nat
                          /\ OwedDeposit(e)' = OwedDeposit(e)
  BY <1>2, <1>1, PaidNat DEF Paid, OwedDeposit, Settled, EscrowStatus
<1>5. \A e \in Escrow :
         /\ Outstanding(e) = 0 /\ OutstandingDeposit(e) = 0
         /\ Outstanding(e)' = (IF e = c THEN 100 ELSE 0)
         /\ OutstandingDeposit(e)' = 0
  BY <1>2 DEF Quiet, LogSteps, Outstanding, OutstandingDeposit
<1>6. /\ Owed(c) = 0 /\ Owed(c)' = 100
      /\ \A e \in Escrow \ {c} : Owed(e)' = Owed(e)
  BY <1>1, <1>2 DEF Owed, Settled, EscrowStatus
<1>7. Bounded'
  <2> SUFFICES ASSUME NEW e \in Escrow
               PROVE  (Paid(e) + Outstanding(e) <= Owed(e))'
    BY DEF Bounded
  <2>1. Paid(e) + Outstanding(e) <= Owed(e)
    BY DEF Bounded
  <2>2. Owed(e) \in {0, 100}
    BY DEF Owed
  <2> QED BY <2>1, <2>2, <1>4, <1>5, <1>6
<1>8. LogAgreesWithStatus'
  <2> SUFFICES ASSUME NEW e \in Escrow, NEW k \in PayoutKind, logged[e][k] > 0
               PROVE  escrow'[e] = StatusOf(k)
    BY DEF LogAgreesWithStatus
  <2>1. escrow[e] = StatusOf(k)
    BY DEF LogAgreesWithStatus
  <2>2. StatusOf(k) # "active"
    BY DEF StatusOf, PayoutKind
  <2> QED BY <2>1, <2>2, <1>2
<1>9. Exact'
  <2> SUFFICES ASSUME faults = 0, NEW e \in Escrow
               PROVE  /\ Paid(e)' + Outstanding(e)' = Owed(e)'
                      /\ logged[e]["deposit"] + OutstandingDeposit(e)'
                           = OwedDeposit(e)'
    BY DEF Exact
  <2>1. /\ Paid(e) + Outstanding(e) = Owed(e)
        /\ logged[e]["deposit"] + OutstandingDeposit(e) = OwedDeposit(e)
    BY DEF Exact
  <2> QED BY <2>1, <1>4, <1>5, <1>6
<1> QED BY <1>3, <1>7, <1>8, <1>9

\* A payout row: what it adds to the log is no longer outstanding.
LEMMA PayoutStep ==
    ASSUME Inv, TypeOK', InProgress', pc \in LogSteps, pc' # "log_deposit",
           NEW c \in Escrow, c = cur, NEW share \in Nat,
           NEW k \in PayoutKind, k = LoggingAt(pc), LogStep(pc, k, share),
           Outstanding(c)' = Outstanding(c) - share,
           \A e \in Escrow \ {c} : Outstanding(e)' = 0
    PROVE  Inv'
<1>1. escrow[c] = StatusOf(k)
  BY DEF InProgress, LogSteps, Inv
<1>2. k \in TxKind
  BY DEF TxKind
<1>3. TypeOK /\ Bounded /\ LogAgreesWithStatus /\ Exact
  BY DEF Inv
<1>4. UNCHANGED <<escrow, faults>> /\ logTransaction(c, k, share)
  BY DEF LogStep
<1>5. \A e \in Escrow : /\ Paid(e)' = Paid(e) + (IF e = c THEN share ELSE 0)
                          /\ logged'[e]["deposit"] = logged[e]["deposit"]
                          /\ Paid(e) \in Nat
  BY <1>2, <1>3, <1>4, PaidEffect, PaidNat
<1>6. \A e \in Escrow : /\ Owed(e)' = Owed(e)
                          /\ OwedDeposit(e)' = OwedDeposit(e)
  BY <1>4 DEF Owed, OwedDeposit
<1>7. \A e \in Escrow : /\ OutstandingDeposit(e) = 0
                           /\ OutstandingDeposit(e)' = 0
  BY DEF OutstandingDeposit, LogSteps
<1>8. \A e \in Escrow \ {c} : Outstanding(e) = 0
  BY DEF Outstanding
<1>9. Outstanding(c) \in Nat
  BY <1>3 DEF Outstanding, TypeOK
<1>10. \A e \in Escrow : Paid(e)' + Outstanding(e)' = Paid(e) + Outstanding(e)
  <2> TAKE e \in Escrow
  <2>1. CASE e = c
    BY <2>1, <1>5, <1>9
  <2>2. CASE e # c
    <3>1. Outstanding(e)' = 0
      BY <2>2
    <3>2. Outstanding(e) = 0
      BY <2>2, <1>8
    <3>3. Paid(e)' = Paid(e)
      BY <2>2, <1>5
    <3> QED BY <3>1, <3>2, <3>3
  <2> QED BY <2>1, <2>2
<1>11. Bounded'
  <2> SUFFICES ASSUME NEW e \in Escrow
               PROVE  (Paid(e) + Outstanding(e) <= Owed(e))'
    BY DEF Bounded
  <2>1. Paid(e) + Outstanding(e) <= Owed(e)
    BY <1>3 DEF Bounded
  <2>2. Owed(e)' = Owed(e)
    BY <1>6
  <2>3. Paid(e)' + Outstanding(e)' = Paid(e) + Outstanding(e)
    BY <1>10
  <2> QED BY <2>1, <2>2, <2>3
<1>12. LogAgreesWithStatus'
  <2> SUFFICES ASSUME NEW e \in Escrow, NEW j \in PayoutKind, logged'[e][j] > 0
               PROVE  escrow[e] = StatusOf(j)
    BY <1>4 DEF LogAgreesWithStatus
  <2>1. CASE e = c /\ j = k
    BY <2>1, <1>1
  <2>2. CASE ~(e = c /\ j = k)
    <3>1. logged'[e][j] = logged[e][j]
      BY <2>2, <1>2, <1>3, <1>4, LogEffect DEF TxKind
    <3> QED BY <3>1, <1>3 DEF LogAgreesWithStatus
  <2> QED BY <2>1, <2>2
<1>13. Exact'
  <2> SUFFICES ASSUME faults = 0, NEW e \in Escrow
               PROVE  /\ Paid(e)' + Outstanding(e)' = Owed(e)'
                      /\ logged'[e]["deposit"] + OutstandingDeposit(e)'
                           = OwedDeposit(e)'
    BY <1>4 DEF Exact
  <2>1. /\ Paid(e) + Outstanding(e) = Owed(e)
        /\ logged[e]["deposit"] + OutstandingDeposit(e) = OwedDeposit(e)
    BY <1>3 DEF Exact
  <2>2. Paid(e)' + Outstanding(e)' = Owed(e)'
    BY <2>1, <1>6, <1>10
  <2>3. logged'[e]["deposit"] + OutstandingDeposit(e)' = OwedDeposit(e)'
    BY <2>1, <1>5, <1>6, <1>7
  <2> QED BY <2>2, <2>3
<1> QED BY <1>11, <1>12, <1>13 DEF Inv

\* The last row of a settlement.
LEMMA LastPayoutStep ==
    ASSUME Inv, TypeOK', pc \in LogSteps \ {"log_split_landlord"},
           LogStep(pc, LoggingAt(pc), Outstanding(cur)), Return
    PROVE  Inv'
<1>1. cur \in Escrow
  BY DEF InProgress, LogSteps, Inv
<1>2. PICK c \in Escrow : c = cur
  BY <1>1
<1>3. Outstanding(c) \in Nat
  BY DEF Outstanding, TypeOK, Inv
<1>4. InProgress'
  BY DEF Return, InProgress, LogSteps
<1>5. \A e \in Escrow : Outstanding(e)' = 0
  BY NoEscrowAssumption DEF Return, Outstanding
<1>6. PICK k \in PayoutKind : k = LoggingAt(pc)
  BY DEF LoggingAt, LogSteps, PayoutKind
<1>8. PICK share \in Nat : share = Outstanding(c)
  BY <1>3
<1>9. LogStep(pc, k, share)
  BY <1>2, <1>6, <1>8
<1>7. pc' # "log_deposit"
  BY DEF Return
<1>10. Outstanding(c)' = Outstanding(c) - share
  BY <1>3, <1>5, <1>8
<1> QED
  BY <1>2, <1>4, <1>5, <1>6, <1>7, <1>8, <1>9, <1>10, PayoutStep DEF LogSteps

\* The landlord's row of a split; the tenant's row stays outstanding.
LEMMA SplitLandlordStep ==
    ASSUME Inv, TypeOK', splitEscrow_landlord
    PROVE  Inv'
<1> USE DEF splitEscrow_landlord
<1>1. pc = "log_split_landlord" /\ pc' = "log_split_tenant" /\ cur' = cur
      /\ split' = split
  BY DEF LogStep, GoOn
<1>2. cur \in Escrow /\ escrow[cur] = "split"
  BY <1>1 DEF InProgress, LogSteps, LoggingAt, StatusOf, Inv
<1>3. PICK c \in Escrow : c = cur
  BY <1>2
<1>4. split \in 0..100
  BY DEF Inv, TypeOK
<1>5. PICK share \in Nat : share = split
  BY <1>4
<1>6. PICK k \in PayoutKind : k = "split_landlord"
  BY DEF PayoutKind
<1>7. k = LoggingAt(pc) /\ LogStep(pc, k, share)
  BY <1>1, <1>5, <1>6 DEF LoggingAt
<1>8. InProgress'
  BY <1>1, <1>2 DEF InProgress, LogSteps, LoggingAt, StatusOf, LogStep
<1>9. Outstanding(c) = 100 /\ Outstanding(c)' = 100 - split
  BY <1>1, <1>3 DEF Outstanding
<1>10. \A e \in Escrow \ {c} : Outstanding(e)' = 0
  BY <1>1, <1>3 DEF Outstanding
<1>11. Outstanding(c)' = Outstanding(c) - share
  BY <1>4, <1>5, <1>9
<1>12. pc \in LogSteps /\ pc' # "log_deposit"
  BY <1>1 DEF LogSteps
<1> QED BY <1>3, <1>7, <1>8, <1>10, <1>11, <1>12, PayoutStep

\* The insert of an escrow leaves its deposit outstanding, nothing else.
LEMMA CreateStep ==
    ASSUME Inv, TypeOK', NEW c \in Escrow, NEW t \in Ticket, createEscrow(c, t)
    PROVE  Inv'
<1> USE DEF Inv, createEscrow
<1>1. /\ escrow[c] = "none"
      /\ \A e \in Escrow : escrow'[e] = IF e = c THEN "active" ELSE escrow[e]
      /\ pc = "idle" /\ pc' = "log_deposit" /\ cur' = c
      /\ UNCHANGED <<logged, faults>>
  BY DEF GoOn, TypeOK
<1>2. InProgress'
  BY <1>1 DEF InProgress, LogSteps
<1>3. \A e \in Escrow : /\ Paid(e)' = Paid(e)
                          /\ Owed(e)' = Owed(e)
                          /\ Outstanding(e) = 0
                          /\ Outstanding(e)' = 0
  BY <1>1 DEF Paid, Owed, Settled, EscrowStatus, Outstanding
<1>4. \A e \in Escrow : Paid(e) + Outstanding(e) <= Owed(e)
  BY DEF Bounded
<1>5. Bounded'
  <2> SUFFICES ASSUME NEW e \in Escrow
               PROVE  (Paid(e) + Outstanding(e) <= Owed(e))'
    BY DEF Bounded
  <2> QED BY <1>3, <1>4
<1>6. LogAgreesWithStatus'
  <2> SUFFICES ASSUME NEW e \in Escrow, NEW k \in PayoutKind, logged[e][k] > 0
               PROVE  escrow'[e] = StatusOf(k)
    BY <1>1 DEF LogAgreesWithStatus
  <2>1. escrow[e] = StatusOf(k)
    BY DEF LogAgreesWithStatus
  <2>2. StatusOf(k) # "none"
    BY DEF StatusOf, PayoutKind
  <2> QED BY <2>1, <2>2, <1>1
<1>7. Exact'
  <2> SUFFICES ASSUME faults = 0, NEW e \in Escrow
               PROVE  /\ Paid(e)' + Outstanding(e)' = Owed(e)'
                      /\ logged[e]["deposit"] + OutstandingDeposit(e)'
                           = OwedDeposit(e)'
    BY <1>1 DEF Exact
  <2>1. /\ Paid(e) + Outstanding(e) = Owed(e)
        /\ logged[e]["deposit"] + OutstandingDeposit(e) = OwedDeposit(e)
    BY DEF Exact
  <2>2. logged[e]["deposit"] \in Nat
    BY DEF TypeOK, TxKind
  <2>3. OutstandingDeposit(e)' = (IF e = c THEN 100 ELSE 0)
        /\ OutstandingDeposit(e) = 0
    BY <1>1 DEF OutstandingDeposit
  <2>4. OwedDeposit(e)' = (IF e = c THEN 100 ELSE OwedDeposit(e))
        /\ OwedDeposit(c) = 0
    BY <1>1 DEF OwedDeposit
  <2>5. CASE e = c
    BY <2>1, <2>2, <2>3, <2>4, <2>5, <1>3
  <2>6. CASE e # c
    BY <2>1, <2>2, <2>3, <2>4, <2>6, <1>3
  <2> QED BY <2>5, <2>6
<1> QED BY <1>2, <1>5, <1>6, <1>7

\* The deposit row.
LEMMA DepositStep ==
    ASSUME Inv, TypeOK', createEscrow_deposit
    PROVE  Inv'
<1> USE DEF Inv, createEscrow_deposit
<1>1. /\ pc = "log_deposit" /\ pc' = "create_verification" /\ cur' = cur
      /\ UNCHANGED <<escrow, faults>>
  BY DEF LogStep, GoOn
<1>2. PICK c \in Escrow : c = cur
  BY <1>1 DEF InProgress
<1>3. InProgress'
  BY <1>1, <1>2 DEF InProgress, LogSteps
<1>4. \A e \in Escrow, j \in TxKind :
         logged'[e][j] = IF e = c /\ j = "deposit" THEN logged[e][j] + 100
                         ELSE logged[e][j]
  <2>1. logTransaction(c, "deposit", 100)
    BY <1>2 DEF LogStep
  <2> QED BY <2>1, LogEffect, KindsAreKinds
<1>10. \A e \in Escrow, k \in PayoutKind : logged'[e][k] = logged[e][k]
  BY <1>4 DEF TxKind, PayoutKind
<1>5. \A e \in Escrow : Paid(e)' = Paid(e)
  BY <1>10 DEF Paid, PayoutKind
<1>6. \A e \in Escrow : /\ Owed(e)' = Owed(e)
                          /\ OwedDeposit(e)' = OwedDeposit(e)
                          /\ Outstanding(e) = 0
                          /\ Outstanding(e)' = 0
  BY <1>1 DEF Owed, OwedDeposit, Outstanding
<1>7. Bounded'
  <2> SUFFICES ASSUME NEW e \in Escrow
               PROVE  (Paid(e) + Outstanding(e) <= Owed(e))'
    BY DEF Bounded
  <2>1. Paid(e) + Outstanding(e) <= Owed(e)
    BY DEF Bounded
  <2> QED BY <2>1, <1>5, <1>6
<1>8. LogAgreesWithStatus'
  <2> SUFFICES ASSUME NEW e \in Escrow, NEW k \in PayoutKind, logged'[e][k] > 0
               PROVE  escrow[e] = StatusOf(k)
    BY <1>1 DEF LogAgreesWithStatus
  <2>1. logged'[e][k] = logged[e][k]
    BY <1>4 DEF TxKind, PayoutKind
  <2> QED BY <2>1 DEF LogAgreesWithStatus
<1>9. Exact'
  <2> SUFFICES ASSUME faults = 0, NEW e \in Escrow
               PROVE  /\ Paid(e)' + Outstanding(e)' = Owed(e)'
                      /\ logged'[e]["deposit"] + OutstandingDeposit(e)'
                           = OwedDeposit(e)'
    BY <1>1 DEF Exact
  <2>1. /\ Paid(e) + Outstanding(e) = Owed(e)
        /\ logged[e]["deposit"] + OutstandingDeposit(e) = OwedDeposit(e)
    BY DEF Exact
  <2>2. logged[e]["deposit"] \in Nat
    BY DEF TypeOK, TxKind
  <2>3. OutstandingDeposit(e) = (IF e = c THEN 100 ELSE 0)
        /\ OutstandingDeposit(e)' = 0
    BY <1>1, <1>2 DEF OutstandingDeposit
  <2>4. logged'[e]["deposit"]
          = IF e = c THEN logged[e]["deposit"] + 100 ELSE logged[e]["deposit"]
    BY <1>4 DEF TxKind
  <2>5. logged'[e]["deposit"] + OutstandingDeposit(e)' = OwedDeposit(e)'
    BY <2>1, <2>2, <2>3, <2>4, <1>6
  <2> QED BY <2>1, <2>5, <1>5, <1>6
<1> QED BY <1>3, <1>7, <1>8, <1>9

-----------------------------------------------------------------------------

\* Every step keeps the inductive invariant.
LEMMA InvStep == Inv /\ [Next]_vars => Inv'
<1> SUFFICES ASSUME Inv, [Next]_vars PROVE Inv'
  OBVIOUS
<1>t. TypeOK' /\ TypeOK
  BY TypeStep DEF Inv
<1>1. CASE Proceed
  <2>1. CASE createEscrow_deposit
    BY <1>t, <2>1, DepositStep
  <2>2. CASE createEscrow_verification
    <3>1. Quiet(pc) /\ Quiet(pc') /\ pc' \in {"idle", "sweep_next"}
          /\ cur' = NoEscrow /\ UNCHANGED <<escrow, logged, faults>>
      BY <2>2 DEF createEscrow_verification, Return, Quiet, LogSteps
    <3> QED BY <1>t, <3>1, QuietStep
  <2>3. CASE releaseEscrowToLandlord_log
    <3>1. pc \in LogSteps \ {"log_split_landlord"}
          /\ LoggingAt(pc) = "release" /\ Outstanding(cur) = 100
      BY <2>3 DEF releaseEscrowToLandlord_log, LogStep, LogSteps, LoggingAt,
                  Outstanding
    <3> QED BY <1>t, <2>3, <3>1, LastPayoutStep
            DEF releaseEscrowToLandlord_log, LogStep
  <2>4. CASE returnEscrowToTenant_log
    <3>1. pc \in LogSteps \ {"log_split_landlord"}
          /\ LoggingAt(pc) = "return" /\ Outstanding(cur) = 100
      BY <2>4 DEF returnEscrowToTenant_log, LogStep, LogSteps, LoggingAt,
                  Outstanding
    <3> QED BY <1>t, <2>4, <3>1, LastPayoutStep
            DEF returnEscrowToTenant_log, LogStep
  <2>5. CASE splitEscrow_landlord
    BY <1>t, <2>5, SplitLandlordStep
  <2>6. CASE splitEscrow_tenant
    <3>1. pc \in LogSteps \ {"log_split_landlord"}
          /\ LoggingAt(pc) = "split_tenant" /\ Outstanding(cur) = 100 - split
      BY <2>6 DEF splitEscrow_tenant, LogStep, LogSteps, LoggingAt, Outstanding
    <3> QED BY <1>t, <2>6, <3>1, LastPayoutStep
            DEF splitEscrow_tenant, LogStep
  <2>7. CASE cancelEscrow_log
    <3>1. pc \in LogSteps \ {"log_split_landlord"}
          /\ LoggingAt(pc) = "refund" /\ Outstanding(cur) = 100
      BY <2>7 DEF cancelEscrow_log, LogStep, LogSteps, LoggingAt, Outstanding
    <3> QED BY <1>t, <2>7, <3>1, LastPayoutStep DEF cancelEscrow_log, LogStep
  <2>r. ASSUME pc \in {"check_confirmed", "sweep_release"},
               \/ Settle(cur, "released_to_landlord", "log_release")
               \/ Return /\ UNCHANGED escrow,
               UNCHANGED <<logged, faults>>
        PROVE  Inv'
    <3>1. Quiet(pc) /\ cur \in Escrow
      BY <2>r DEF Quiet, LogSteps, Inv, InProgress
    <3>2. PICK c \in Escrow : c = cur
      BY <3>1
    <3>3. CASE Settle(cur, "released_to_landlord", "log_release")
      <4>1. "released_to_landlord" = StatusOf(LoggingAt("log_release"))
            /\ "log_release" \in LogSteps \ {"log_split_tenant"}
        BY DEF StatusOf, LoggingAt, LogSteps
      <4> QED BY <1>t, <2>r, <3>1, <3>2, <3>3, <4>1, SettleStep
    <3>4. CASE Return /\ UNCHANGED escrow
      <4>1. Quiet(pc') /\ pc' \in {"idle", "sweep_next"} /\ cur' = NoEscrow
        BY <3>4 DEF Return, Quiet, LogSteps
      <4> QED BY <1>t, <2>r, <3>1, <3>4, <4>1, QuietStep
    <3> QED BY <2>r, <3>3, <3>4
  <2>8. CASE tenantConfirmRepairs_release
    BY <2>8, <2>r DEF tenantConfirmRepairs_release
  <2>9. ASSUME NEW e \in Escrow, autoRelease_timeout(e) PROVE Inv'
    <3>1. Quiet(pc) /\ Quiet(pc') /\ pc' \notin {"idle", "sweep_next"}
          /\ cur' \in Escrow /\ UNCHANGED <<escrow, logged, faults>>
      BY <2>9 DEF autoRelease_timeout, GoOn, Quiet, LogSteps
    <3> QED BY <1>t, <3>1, QuietStep
  <2>10. CASE autoRelease_release
    BY <2>10, <2>r DEF autoRelease_release
  <2>11. CASE autoRelease_end
    <3>1. Quiet(pc) /\ Quiet(pc') /\ pc' = "idle" /\ cur' = NoEscrow
          /\ UNCHANGED <<escrow, logged, faults>>
      BY <2>11 DEF autoRelease_end, tables, Quiet, LogSteps, Inv, InProgress
    <3> QED BY <1>t, <3>1, QuietStep
  <2> QED
    BY <1>1, <2>1, <2>2, <2>3, <2>4, <2>5, <2>6, <2>7, <2>8, <2>9, <2>10, <2>11
    DEF Proceed
<1>2. CASE Request
  <2>s. ASSUME NEW e \in Escrow, pc = "idle", UNCHANGED <<logged, faults>>,
               NEW next \in LogSteps \ {"log_split_tenant"},
               Settle(e, StatusOf(LoggingAt(next)), next)
        PROVE  Inv'
    <3>1. Quiet(pc)
      BY <2>s DEF Quiet, LogSteps
    <3> QED BY <1>t, <2>s, <3>1, SettleStep
  <2>k. /\ StatusOf(LoggingAt("log_release")) = "released_to_landlord"
        /\ StatusOf(LoggingAt("log_return")) = "returned_to_tenant"
        /\ StatusOf(LoggingAt("log_split_landlord")) = "split"
        /\ StatusOf(LoggingAt("log_refund")) = "cancelled"
        /\ {"log_release", "log_return", "log_split_landlord", "log_refund"}
             = LogSteps \ {"log_split_tenant"}
    BY DEF StatusOf, LoggingAt, LogSteps
  <2>q. ASSUME pc = "idle", UNCHANGED <<escrow, logged, faults, cur>>,
               pc' \in {"idle", "sweep_next"}
        PROVE  Inv'
    <3>1. Quiet(pc) /\ Quiet(pc') /\ cur' = NoEscrow
      BY <2>q DEF Quiet, LogSteps, Inv, InProgress
    <3> QED BY <1>t, <2>q, <3>1, QuietStep
  <2>1. ASSUME NEW e \in Escrow, NEW t \in Ticket, createEscrow(e, t)
        PROVE  Inv'
    BY <1>t, <2>1, CreateStep
  <2>2. ASSUME NEW e \in Escrow, releaseEscrowToLandlord(e) PROVE Inv'
    BY <2>2, <2>s, <2>k DEF releaseEscrowToLandlord
  <2>3. ASSUME NEW e \in Escrow, returnEscrowToTenant(e) PROVE Inv'
    BY <2>3, <2>s, <2>k DEF returnEscrowToTenant
  <2>4. ASSUME NEW e \in Escrow, NEW p \in Percent, splitEscrow(e, p)
        PROVE  Inv'
    BY <2>4, <2>s, <2>k DEF splitEscrow
  <2>5. ASSUME NEW e \in Escrow, cancelEscrow(e) PROVE Inv'
    BY <2>5, <2>s, <2>k DEF cancelEscrow
  <2>6. ASSUME NEW e \in Escrow, uploadRepairPhotos(e) PROVE Inv'
    BY <2>6, <2>q DEF uploadRepairPhotos, control
  <2>7. ASSUME NEW e \in Escrow, tenantConfirmRepairs(e) PROVE Inv'
    <3>1. Quiet(pc) /\ Quiet(pc') /\ pc' \notin {"idle", "sweep_next"}
          /\ cur' \in Escrow /\ UNCHANGED <<escrow, logged, faults>>
      BY <2>7 DEF tenantConfirmRepairs, GoOn, Quiet, LogSteps
    <3> QED BY <1>t, <3>1, QuietStep
  <2>8. ASSUME NEW e \in Escrow, tenantRejectRepairs(e) PROVE Inv'
    BY <2>8, <2>q DEF tenantRejectRepairs, control
  <2>9. CASE autoReleaseExpiredVerifications
    BY <2>9, <2>q DEF autoReleaseExpiredVerifications, tables
  <2> QED
    BY <1>2, <2>1, <2>2, <2>3, <2>4, <2>5, <2>6, <2>7, <2>8, <2>9 DEF Request
<1>e. ASSUME pc = "idle", UNCHANGED <<escrow, logged, faults, control>>
      PROVE  Inv'
  <2>1. Quiet(pc) /\ Quiet(pc') /\ cur' = NoEscrow
        /\ UNCHANGED <<escrow, logged, faults>> /\ pc' = "idle"
    BY <1>e DEF control, Quiet, LogSteps, Inv, InProgress
  <2> QED BY <1>t, <2>1, QuietStep
<1>3. ASSUME NEW t \in Ticket, NEW s \in TicketStatus, UpdateTicket(t, s)
      PROVE  Inv'
  BY <1>3, <1>e DEF UpdateTicket
<1>4. ASSUME NEW e \in Escrow, Expire(e) PROVE Inv'
  BY <1>4, <1>e DEF Expire
<1>5. CASE Crash
  <2>1. faults' > 0
    BY <1>5, <1>t DEF Crash, TypeOK
  <2>2. Quiet(pc') /\ pc' = "idle" /\ cur' = NoEscrow
        /\ UNCHANGED <<escrow, logged>>
    BY <1>5 DEF Crash, tables, Quiet, LogSteps
  <2> QED BY <1>t, <2>1, <2>2, QuietStep
<1>6. CASE StatementThrows
  <2>1. faults' > 0
    BY <1>6, <1>t DEF StatementThrows, TypeOK
  <2>2. Quiet(pc') /\ pc' \in {"idle", "sweep_next"} /\ cur' = NoEscrow
        /\ UNCHANGED <<escrow, logged>>
    BY <1>6 DEF StatementThrows, Return, tables, Quiet, LogSteps
  <2> QED BY <1>t, <2>1, <2>2, QuietStep
<1>7. CASE UNCHANGED vars
  <2>1. UNCHANGED <<escrow, logged, faults, pc, cur, split>>
    BY <1>7 DEF vars, tables, control
  <2>2. \A e \in Escrow : /\ Paid(e)' = Paid(e)
                          /\ Outstanding(e)' = Outstanding(e)
                          /\ Owed(e)' = Owed(e)
                          /\ OutstandingDeposit(e)' = OutstandingDeposit(e)
                          /\ OwedDeposit(e)' = OwedDeposit(e)
    BY <2>1 DEF Paid, Outstanding, Owed, OutstandingDeposit, OwedDeposit
  <2>3. InProgress'
    BY <2>1 DEF InProgress, Inv
  <2>4. Bounded' /\ LogAgreesWithStatus'
    BY <2>1, <2>2 DEF Bounded, LogAgreesWithStatus, Inv
  <2>5. Exact'
    BY <2>1, <2>2 DEF Exact, Inv
  <2> QED BY <1>t, <2>3, <2>4, <2>5 DEF Inv
<1> QED
  BY <1>1, <1>2, <1>3, <1>4, <1>5, <1>6, <1>7 DEF Next

-----------------------------------------------------------------------------
(* Theorems                                                                *)

\* The inductive invariant holds in every reachable state.
LEMMA Invariance == Spec => []Inv
  BY InitInv, InvStep, PTL DEF Spec

\* The variables keep their types.
THEOREM TypeCorrect == Spec => []TypeOK
<1>1. Inv => TypeOK
  BY DEF Inv
<1> QED BY <1>1, Invariance, PTL

\* No escrow pays out more than was withheld, whatever interleaving of
\* requests, sweeps, crashes and failed statements.
THEOREM NeverPaidTwice == Spec => []PaidAtMostOnce
<1>1. Inv => PaidAtMostOnce
  <2> SUFFICES ASSUME Inv, NEW e \in Escrow PROVE Paid(e) <= 100
    BY DEF PaidAtMostOnce
  <2>1. Paid(e) \in Nat
    BY PaidNat DEF Inv
  <2>2. Outstanding(e) \in Nat
    BY DEF Outstanding, Inv, TypeOK
  <2>3. Paid(e) + Outstanding(e) <= Owed(e)
    BY DEF Inv, Bounded
  <2>4. Owed(e) \in Nat /\ Owed(e) <= 100
    BY DEF Owed
  <2> QED BY <2>1, <2>2, <2>3, <2>4
<1> QED BY <1>1, Invariance, PTL

\* The log of transactions and the status of an escrow never disagree.
THEOREM LogAgrees == Spec => []LogAgreesWithStatus
<1>1. Inv => LogAgreesWithStatus
  BY DEF Inv
<1> QED BY <1>1, Invariance, PTL

\* Without faults the books balance between operations.
THEOREM BooksAlwaysBalance == Spec => []BooksBalance
<1>1. Inv => BooksBalance
  <2> SUFFICES ASSUME Inv, faults = 0, pc = "idle", NEW e \in Escrow
               PROVE  /\ escrow[e] # "none" => logged[e]["deposit"] = 100
                      /\ Paid(e) = IF escrow[e] \in Settled THEN 100 ELSE 0
    BY DEF BooksBalance
  <2>1. Outstanding(e) = 0 /\ OutstandingDeposit(e) = 0
    BY DEF Outstanding, OutstandingDeposit
  <2>2. /\ Paid(e) + Outstanding(e) = Owed(e)
        /\ logged[e]["deposit"] + OutstandingDeposit(e) = OwedDeposit(e)
    BY DEF Inv, Exact
  <2>3. Paid(e) \in Nat /\ logged[e]["deposit"] \in Nat
    BY PaidNat DEF Inv, TypeOK, TxKind
  <2>4. Paid(e) = Owed(e) /\ logged[e]["deposit"] = OwedDeposit(e)
    BY <2>1, <2>2, <2>3
  <2>5. Paid(e) = IF escrow[e] \in Settled THEN 100 ELSE 0
    BY <2>4 DEF Owed
  <2>6. escrow[e] # "none" => logged[e]["deposit"] = 100
    BY <2>4 DEF OwedDeposit
  <2> QED BY <2>5, <2>6
<1> QED BY <1>1, Invariance, PTL

\* A settled escrow stays as it was settled.
THEOREM SettlementIsFinal == Spec => SettledIsFinal
<1> DEFINE Final == \A e \in Escrow :
                       escrow[e] \in Settled => escrow'[e] = escrow[e]
<1>1. ASSUME TypeOK, Next PROVE Final
  <2>1. ASSUME UNCHANGED escrow PROVE Final
    BY <2>1
  <2>2. ASSUME NEW c \in Escrow, escrow[c] \in {"none", "active"},
               NEW s, escrow' = [escrow EXCEPT ![c] = s]
        PROVE  Final
    <3> SUFFICES ASSUME NEW e \in Escrow, escrow[e] \in Settled
                 PROVE  escrow'[e] = escrow[e]
      OBVIOUS
    <3>1. e # c
      BY <2>2 DEF Settled, EscrowStatus
    <3> QED BY <1>1, <2>2, <3>1 DEF TypeOK
  <2>3. ASSUME NEW c, NEW s, NEW next, Settle(c, s, next) PROVE Final
    <3>1. CASE c \in Escrow
      BY <2>2, <2>3, <3>1 DEF Settle, updateEscrowStatus
    <3>2. CASE c \notin Escrow
      BY <1>1, <2>3, <3>2 DEF Settle, updateEscrowStatus, TypeOK
    <3> QED BY <3>1, <3>2
  <2> HIDE DEF Final
  <2>4. CASE Proceed
    <3>1. CASE UNCHANGED escrow
      BY <3>1, <2>1
    <3>2. ASSUME NEW c \in Escrow \union {NoEscrow}, c = cur,
                 Settle(cur, "released_to_landlord", "log_release")
          PROVE  Final
      BY <3>2, <2>3
    <3>3. cur \in Escrow \union {NoEscrow}
      BY <1>1 DEF TypeOK
    <3>4. CASE Settle(cur, "released_to_landlord", "log_release")
      BY <3>2, <3>3, <3>4
    <3> QED
      BY <2>4, <3>1, <3>4
      DEF Proceed, createEscrow_deposit, createEscrow_verification, LogStep,
          releaseEscrowToLandlord_log, returnEscrowToTenant_log,
          splitEscrow_landlord, splitEscrow_tenant, cancelEscrow_log,
          tenantConfirmRepairs_release, autoRelease_timeout,
          autoRelease_release, autoRelease_end, tables
  <2>5. CASE Request
    <3>1. ASSUME NEW e \in Escrow, NEW t \in Ticket, createEscrow(e, t)
          PROVE  Final
      BY <3>1, <2>2 DEF createEscrow
    <3>2. ASSUME NEW e \in Escrow,
                 \/ releaseEscrowToLandlord(e) \/ returnEscrowToTenant(e)
                 \/ \E p \in Percent : splitEscrow(e, p)
                 \/ cancelEscrow(e)
          PROVE  Final
      BY <3>2, <2>3 DEF releaseEscrowToLandlord, returnEscrowToTenant,
                        splitEscrow, cancelEscrow
    <3>3. ASSUME NEW e \in Escrow,
                 \/ uploadRepairPhotos(e) \/ tenantConfirmRepairs(e)
                 \/ tenantRejectRepairs(e)
          PROVE  Final
      BY <3>3, <2>1 DEF uploadRepairPhotos, tenantConfirmRepairs,
                        tenantRejectRepairs
    <3>4. CASE autoReleaseExpiredVerifications
      BY <3>4, <2>1 DEF autoReleaseExpiredVerifications, tables
    <3> QED BY <2>5, <3>1, <3>2, <3>3, <3>4 DEF Request
  <2>6. CASE \/ \E t \in Ticket, s \in TicketStatus : UpdateTicket(t, s)
             \/ \E e \in Escrow : Expire(e)
             \/ Crash
             \/ StatementThrows
    BY <2>6, <2>1 DEF UpdateTicket, Expire, Crash, StatementThrows, tables
  <2> QED BY <1>1, <2>4, <2>5, <2>6 DEF Next
<1>2. TypeOK /\ [Next]_vars => [Final]_vars
  BY <1>1
<1>3. Spec => [][Final]_vars
  BY <1>2, TypeCorrect, PTL DEF Spec
<1> QED BY <1>3 DEF SettledIsFinal

-----------------------------------------------------------------------------
(* The sweep and the answers                                               *)

\* No request runs while the sweep does, so the rows it is still to visit
\* have not been answered since its SELECT.
SweepInv ==
    /\ sweep \subseteq {e \in Escrow : answer[e] = "pending"}
    /\ ~inSweep => sweep = {}
    /\ pc = "idle" => ~inSweep

LEMMA SweepKept ==
    ASSUME TypeOK, SweepInv, UNCHANGED <<answer, sweep, inSweep>>, pc' = "idle" => ~inSweep
    PROVE  SweepInv'
  BY DEF SweepInv

LEMMA SweepReturns ==
    ASSUME TypeOK, SweepInv, Return, UNCHANGED answer
    PROVE  SweepInv'
  BY SweepKept DEF Return

LEMMA SweepStep == TypeOK /\ SweepInv /\ [Next]_vars => SweepInv'
<1> SUFFICES ASSUME TypeOK, SweepInv, [Next]_vars PROVE SweepInv'
  OBVIOUS
<1>1. CASE UNCHANGED vars
  BY <1>1 DEF vars, tables, control, SweepInv
<1>2. CASE Proceed
  <2>1. CASE createEscrow_deposit \/ splitEscrow_landlord
    BY <2>1, SweepKept DEF createEscrow_deposit, splitEscrow_landlord, LogStep, GoOn
  <2>2. CASE createEscrow_verification
    <3>1. \A e \in Escrow : answer[e] = "pending" => answer'[e] = "pending"
      BY <2>2 DEF createEscrow_verification, TypeOK
    <3>2. sweep' = sweep /\ inSweep' = inSweep /\ (pc' = "idle" => ~inSweep)
      BY <2>2 DEF createEscrow_verification, Return
    <3> QED BY <3>1, <3>2 DEF SweepInv
  <2>3. CASE \/ releaseEscrowToLandlord_log \/ returnEscrowToTenant_log
             \/ splitEscrow_tenant \/ cancelEscrow_log
    BY <2>3, SweepReturns DEF releaseEscrowToLandlord_log, returnEscrowToTenant_log,
       splitEscrow_tenant, cancelEscrow_log, LogStep
  <2>4. CASE tenantConfirmRepairs_release \/ autoRelease_release
    <3>1. UNCHANGED answer
      BY <2>4 DEF tenantConfirmRepairs_release, autoRelease_release
    <3>2. CASE Return
      BY <3>1, <3>2, SweepReturns
    <3>3. CASE ~Return
      BY <2>4, <3>1, <3>3, SweepKept
         DEF tenantConfirmRepairs_release, autoRelease_release, Settle, GoOn
    <3> QED BY <3>2, <3>3
  <2>5. ASSUME NEW e \in Escrow, autoRelease_timeout(e) PROVE SweepInv'
    <3>1. /\ sweep' = sweep \ {e} /\ inSweep' = inSweep /\ pc' = "sweep_release"
          /\ answer' = [answer EXCEPT ![e] = "timeout"]
      BY <2>5 DEF autoRelease_timeout, GoOn
    <3> QED BY <3>1 DEF SweepInv, TypeOK
  <2>6. CASE autoRelease_end
    BY <2>6 DEF autoRelease_end, tables, SweepInv
  <2> QED BY <1>2, <2>1, <2>2, <2>3, <2>4, <2>5, <2>6 DEF Proceed
<1>3. CASE Request
  <2>1. CASE autoReleaseExpiredVerifications
    BY <2>1 DEF autoReleaseExpiredVerifications, ExpiredVerifications, tables, SweepInv
  <2>2. ASSUME NEW e \in Escrow,
               \/ \E t \in Ticket : createEscrow(e, t)
               \/ releaseEscrowToLandlord(e) \/ returnEscrowToTenant(e)
               \/ \E p \in Percent : splitEscrow(e, p)
               \/ cancelEscrow(e) \/ uploadRepairPhotos(e)
        PROVE  SweepInv'
    <3>1. pc = "idle" /\ UNCHANGED <<answer, sweep, inSweep>>
      BY <2>2 DEF createEscrow, releaseEscrowToLandlord, returnEscrowToTenant,
         splitEscrow, cancelEscrow, uploadRepairPhotos, control
    <3> QED BY <3>1, SweepKept DEF SweepInv
  <2>3. ASSUME NEW e \in Escrow, tenantConfirmRepairs(e) \/ tenantRejectRepairs(e)
        PROVE  SweepInv'
    <3>1. pc = "idle" /\ UNCHANGED <<sweep, inSweep>>
      BY <2>3 DEF tenantConfirmRepairs, tenantRejectRepairs, control
    <3> QED BY <3>1 DEF SweepInv
  <2> QED BY <1>3, <2>1, <2>2, <2>3 DEF Request
<1>4. CASE \/ \E t \in Ticket, s \in TicketStatus : UpdateTicket(t, s)
           \/ \E e \in Escrow : Expire(e)
  <2>1. UNCHANGED <<answer, control>>
    BY <1>4 DEF UpdateTicket, Expire
  <2> QED BY <2>1 DEF control, SweepInv
<1>5. CASE Crash
  BY <1>5 DEF Crash, tables, SweepInv
<1>6. CASE StatementThrows
  BY <1>6, SweepReturns DEF StatementThrows, tables
<1> QED BY <1>1, <1>2, <1>3, <1>4, <1>5, <1>6 DEF Next

\* The sweep never replaces an answer the tenant gave by a timeout: what it read
\* of a verification is still true when it writes to it.
THEOREM AnswersAreKept == Spec => AnswerNotOverridden
<1> DEFINE Kept == \A e \in Escrow :
                      answer[e] \in {"confirmed", "rejected"} => answer'[e] # "timeout"
<1>1. ASSUME TypeOK, SweepInv, [Next]_vars PROVE Kept
  <2>1. CASE UNCHANGED answer
    BY <2>1
  <2>2. ASSUME NEW c \in Escrow \union {NoEscrow}, NEW a \in Answer, a # "timeout",
               answer' = [answer EXCEPT ![c] = a]
        PROVE  Kept
    BY <1>1, <2>2 DEF TypeOK
  <2>3. ASSUME NEW c \in Escrow, autoRelease_timeout(c) PROVE Kept
    <3>1. answer[c] = "pending" /\ answer' = [answer EXCEPT ![c] = "timeout"]
      BY <1>1, <2>3 DEF autoRelease_timeout, SweepInv
    <3> QED BY <1>1, <3>1 DEF TypeOK
  <2> HIDE DEF Kept
  <2>4. CASE createEscrow_verification
    <3>1. cur \in Escrow \union {NoEscrow} /\ answer' = [answer EXCEPT ![cur] = "pending"]
      BY <1>1, <2>4 DEF createEscrow_verification, TypeOK
    <3>2. PICK c \in Escrow \union {NoEscrow} : c = cur
      BY <3>1
    <3> QED BY <2>2, <3>1, <3>2 DEF Answer
  <2>5. ASSUME NEW c \in Escrow, tenantConfirmRepairs(c) PROVE Kept
    BY <2>2, <2>5 DEF tenantConfirmRepairs, Answer
  <2>6. ASSUME NEW c \in Escrow, tenantRejectRepairs(c) PROVE Kept
    BY <2>2, <2>6 DEF tenantRejectRepairs, Answer
  <2>7. CASE UNCHANGED vars \/ Crash \/ StatementThrows
    BY <2>1, <2>7 DEF vars, tables, Crash, StatementThrows
  <2>8. CASE Proceed
    <3>1. CASE UNCHANGED answer
      BY <2>1, <3>1
    <3>2. CASE createEscrow_verification \/ \E e \in Escrow : autoRelease_timeout(e)
      BY <2>3, <2>4, <3>2
    <3> QED
      BY <2>8, <3>1, <3>2 DEF Proceed, createEscrow_deposit, releaseEscrowToLandlord_log,
         returnEscrowToTenant_log, splitEscrow_landlord, splitEscrow_tenant,
         cancelEscrow_log, tenantConfirmRepairs_release, autoRelease_release,
         autoRelease_end, LogStep, tables
  <2>9. CASE Request
    <3>1. CASE UNCHANGED answer
      BY <2>1, <3>1
    <3>2. CASE \E e \in Escrow : tenantConfirmRepairs(e) \/ tenantRejectRepairs(e)
      BY <2>5, <2>6, <3>2
    <3> QED
      BY <2>9, <3>1, <3>2 DEF Request, createEscrow, releaseEscrowToLandlord,
         returnEscrowToTenant, splitEscrow, cancelEscrow, uploadRepairPhotos,
         autoReleaseExpiredVerifications, tables
  <2>10. CASE \/ \E t \in Ticket, s \in TicketStatus : UpdateTicket(t, s)
              \/ \E e \in Escrow : Expire(e)
    BY <2>1, <2>10 DEF UpdateTicket, Expire
  <2> QED BY <1>1, <2>7, <2>8, <2>9, <2>10 DEF Next
<1>2. TypeOK /\ SweepInv /\ [Next]_vars => [Kept]_vars
  BY <1>1
<1>3. Init => SweepInv
  BY DEF Init, SweepInv
<1> QED
  BY <1>2, <1>3, SweepStep, TypeCorrect, PTL DEF Spec, AnswerNotOverridden

-----------------------------------------------------------------------------
(* What a fault can strand.  The operation in progress is the only one     *)
(* whose escrow a fault can strand, and no step without a fault lets go of *)
(* an escrow that is still active behind a verification marked 'timeout'.  *)

\* A step that changes neither verifications nor escrows, and that keeps its
\* escrow or lets go of one that is settled, strands nothing.
LEMMA LettingGo ==
    ASSUME UNCHANGED <<answer, escrow>>,
           \A e \in Escrow : cur = e => cur' = e \/ escrow[e] # "active"
    PROVE  Stranded' \subseteq Stranded
  BY DEF Stranded

\* So does every operation that starts or goes on.
LEMMA SettlesSafely ==
    ASSUME Inv, NEW c \in Escrow, NEW s, NEW next, UNCHANGED answer,
           Settle(c, s, next), cur \in {NoEscrow, c}
    PROVE  Stranded' \subseteq Stranded
<1>1. /\ escrow' = [escrow EXCEPT ![c] = s] /\ cur' = c
      /\ escrow \in [Escrow -> EscrowStatus \union {"none"}]
  BY DEF Settle, updateEscrowStatus, GoOn, Inv, TypeOK
<1>2. \A e \in Escrow : e # c => escrow'[e] = escrow[e]
  BY <1>1
<1> QED BY <1>1, <1>2, NoEscrowAssumption DEF Stranded

LEMMA AnswersSafely ==
    ASSUME Inv, NEW c \in Escrow, NEW a, UNCHANGED escrow, cur \in {NoEscrow, c},
           answer' = [answer EXCEPT ![c] = a], a # "timeout" \/ cur' = c
    PROVE  Stranded' \subseteq Stranded
<1>1. answer \in [Escrow -> Answer \union {"none"}]
  BY DEF Inv, TypeOK
<1>2. /\ answer'[c] = a
      /\ \A e \in Escrow : e # c => answer'[e] = answer[e]
  BY <1>1
<1> QED BY <1>2, NoEscrowAssumption DEF Stranded

LEMMA ProceedStrandsNone ==
    ASSUME Inv, Proceed
    PROVE  Stranded' \subseteq Stranded
<1> USE DEF Inv
<1>1. CASE createEscrow_deposit \/ splitEscrow_landlord
  BY <1>1, LettingGo DEF createEscrow_deposit, splitEscrow_landlord, LogStep, GoOn
<1>2. CASE createEscrow_verification
  <2>1. PICK c \in Escrow : c = cur
    BY <1>2 DEF createEscrow_verification, InProgress
  <2> QED BY <1>2, <2>1, AnswersSafely DEF createEscrow_verification
<1>3. CASE \/ releaseEscrowToLandlord_log \/ returnEscrowToTenant_log
           \/ splitEscrow_tenant \/ cancelEscrow_log
  <2>1. pc \in LogSteps /\ UNCHANGED <<answer, escrow>>
    BY <1>3 DEF releaseEscrowToLandlord_log, returnEscrowToTenant_log,
       splitEscrow_tenant, cancelEscrow_log, LogStep, LogSteps
  <2>2. escrow[cur] # "active"
    BY <2>1 DEF InProgress, StatusOf, LoggingAt, LogSteps
  <2> QED BY <2>1, <2>2, LettingGo
<1>4. CASE tenantConfirmRepairs_release \/ autoRelease_release
  <2>1. PICK c \in Escrow : c = cur
    BY <1>4 DEF tenantConfirmRepairs_release, autoRelease_release, InProgress
  <2>2. CASE Settle(cur, "released_to_landlord", "log_release")
    BY <1>4, <2>1, <2>2, SettlesSafely
    DEF tenantConfirmRepairs_release, autoRelease_release
  <2>3. CASE ~Settle(cur, "released_to_landlord", "log_release")
    <3>1. escrow[cur] # "active" /\ UNCHANGED <<answer, escrow>>
      BY <1>4, <2>3 DEF tenantConfirmRepairs_release, autoRelease_release
    <3> QED BY <3>1, LettingGo
  <2> QED BY <2>2, <2>3
<1>5. ASSUME NEW e \in Escrow, autoRelease_timeout(e)
      PROVE  Stranded' \subseteq Stranded
  <2>1. cur = NoEscrow
    BY <1>5 DEF autoRelease_timeout, InProgress
  <2> QED BY <1>5, <2>1, AnswersSafely DEF autoRelease_timeout, GoOn
<1>6. CASE autoRelease_end
  BY <1>6, LettingGo DEF autoRelease_end, tables
<1> QED BY <1>1, <1>2, <1>3, <1>4, <1>5, <1>6 DEF Proceed

LEMMA RequestStrandsNone ==
    ASSUME Inv, Request
    PROVE  Stranded' \subseteq Stranded
<1>0. ASSUME pc = "idle" PROVE cur = NoEscrow /\ cur \notin Escrow
  BY <1>0, NoEscrowAssumption DEF Inv, InProgress
<1>1. ASSUME NEW e \in Escrow, NEW t \in Ticket, createEscrow(e, t)
      PROVE  Stranded' \subseteq Stranded
  <2>1. /\ escrow' = [escrow EXCEPT ![e] = "active"] /\ cur' = e
        /\ escrow \in [Escrow -> EscrowStatus \union {"none"}]
        /\ UNCHANGED answer
    BY <1>1 DEF createEscrow, GoOn, Inv, TypeOK
  <2>2. \A d \in Escrow : d # e => escrow'[d] = escrow[d]
    BY <2>1
  <2> QED BY <1>0, <1>1, <2>1, <2>2 DEF createEscrow, Stranded
<1>2. ASSUME NEW e \in Escrow,
             \/ releaseEscrowToLandlord(e) \/ returnEscrowToTenant(e)
             \/ \E p \in Percent : splitEscrow(e, p)
             \/ cancelEscrow(e)
      PROVE  Stranded' \subseteq Stranded
  <2>1. /\ cur = NoEscrow /\ UNCHANGED answer
        /\ \/ Settle(e, "released_to_landlord", "log_release")
           \/ Settle(e, "returned_to_tenant", "log_return")
           \/ Settle(e, "split", "log_split_landlord")
           \/ Settle(e, "cancelled", "log_refund")
    BY <1>0, <1>2 DEF releaseEscrowToLandlord, returnEscrowToTenant, splitEscrow,
       cancelEscrow
  <2> QED BY <2>1, SettlesSafely
<1>3. ASSUME NEW e \in Escrow, tenantConfirmRepairs(e) \/ tenantRejectRepairs(e)
      PROVE  Stranded' \subseteq Stranded
  BY <1>0, <1>3, AnswersSafely DEF tenantConfirmRepairs, tenantRejectRepairs
<1>4. ASSUME NEW e \in Escrow, uploadRepairPhotos(e)
      PROVE  Stranded' \subseteq Stranded
  BY <1>4, LettingGo DEF uploadRepairPhotos, control
<1>5. CASE autoReleaseExpiredVerifications
  BY <1>5, LettingGo DEF autoReleaseExpiredVerifications, tables
<1> QED BY <1>1, <1>2, <1>3, <1>4, <1>5 DEF Request

\* A fault leaves behind at most the escrow of the operation it ends.
LEMMA FaultStrandsOne ==
    ASSUME Crash \/ StatementThrows
    PROVE  Stranded' \subseteq Stranded \union {cur} /\ faults' = faults + 1
  BY DEF Crash, StatementThrows, tables, Stranded

FewStranded == IsFiniteSet(Stranded) /\ FaultsStrandOneEach

LEMMA StrandStep ==
    ASSUME Inv, FewStranded, [Next]_vars
    PROVE  FewStranded'
<1>1. /\ IsFiniteSet(Stranded) /\ Cardinality(Stranded) <= faults
      /\ Cardinality(Stranded) \in Nat /\ faults \in Nat
  BY FS_CardinalityType, MaxFaultsAssumption
  DEF FewStranded, FaultsStrandOneEach, Inv, TypeOK
<1> DEFINE S == Stranded
           T == Stranded'
<1>2. CASE T \subseteq S /\ faults' = faults
  <2> HIDE DEF S, T
  <2>1. IsFiniteSet(S) /\ Cardinality(S) <= faults
    BY <1>1 DEF S
  <2>2. IsFiniteSet(T) /\ Cardinality(T) <= Cardinality(S) /\ Cardinality(T) \in Nat
        /\ Cardinality(S) \in Nat
    BY <1>2, <2>1, FS_Subset, FS_CardinalityType
  <2>3. IsFiniteSet(T) /\ Cardinality(T) <= faults'
    BY <1>1, <1>2, <2>1, <2>2
  <2> QED BY <2>3 DEF T, FewStranded, FaultsStrandOneEach
<1>3. CASE Crash \/ StatementThrows
  <2>1. T \subseteq S \union {cur} /\ faults' = faults + 1
    BY <1>3, FaultStrandsOne
  <2> HIDE DEF S, T
  <2>2. IsFiniteSet(S) /\ Cardinality(S) <= faults /\ Cardinality(S) \in Nat
    BY <1>1 DEF S
  <2> DEFINE U == S \union {cur}
  <2>7. /\ IsFiniteSet(U)
        /\ Cardinality(U) = IF cur \in S THEN Cardinality(S) ELSE Cardinality(S) + 1
    BY <2>2, FS_AddElement
  <2>3. IsFiniteSet(U) /\ Cardinality(U) <= Cardinality(S) + 1 /\ Cardinality(U) \in Nat
    BY <2>2, <2>7
  <2> HIDE DEF U
  <2>4. T \subseteq U
    BY <2>1 DEF U
  <2>5. IsFiniteSet(T) /\ Cardinality(T) <= Cardinality(U) /\ Cardinality(T) \in Nat
    BY <2>3, <2>4, FS_Subset, FS_CardinalityType
  <2>6. IsFiniteSet(T) /\ Cardinality(T) <= faults'
    BY <1>1, <2>1, <2>2, <2>3, <2>5
  <2> QED BY <2>6 DEF T, FewStranded, FaultsStrandOneEach
<1>4. CASE Proceed
  <2>1. faults' = faults
    BY <1>4 DEF Proceed, createEscrow_deposit, createEscrow_verification,
       releaseEscrowToLandlord_log, returnEscrowToTenant_log, splitEscrow_landlord,
       splitEscrow_tenant, cancelEscrow_log, tenantConfirmRepairs_release,
       autoRelease_timeout, autoRelease_release, autoRelease_end, LogStep
  <2> QED BY <1>2, <1>4, <2>1, ProceedStrandsNone
<1>5. CASE Request
  <2>1. faults' = faults
    BY <1>5 DEF Request, createEscrow, releaseEscrowToLandlord,
       returnEscrowToTenant, splitEscrow, cancelEscrow, uploadRepairPhotos,
       tenantConfirmRepairs, tenantRejectRepairs, autoReleaseExpiredVerifications
  <2> QED BY <1>2, <1>5, <2>1, RequestStrandsNone
<1>6. CASE \/ \E t \in Ticket, s \in TicketStatus : UpdateTicket(t, s)
           \/ \E e \in Escrow : Expire(e)
           \/ UNCHANGED vars
  <2>1. UNCHANGED <<answer, escrow, cur, faults>>
    BY <1>6 DEF UpdateTicket, Expire, control, vars, tables
  <2> QED BY <1>2, <2>1, LettingGo
<1> QED BY <1>3, <1>4, <1>5, <1>6 DEF Next

\* The sweep never looks again at a verification it marked as timed out, so an
\* operation cut short may leave an escrow active for ever: each crash or failing
\* statement strands at most one, and nothing else strands any.
THEOREM StrandingNeedsAFault == Spec => []FaultsStrandOneEach
<1>1. Init => FewStranded
  <2> SUFFICES ASSUME Init PROVE FewStranded
    OBVIOUS
  <2>1. Stranded = {} /\ faults = 0
    BY DEF Init, Stranded
  <2> QED BY <2>1, FS_EmptySet DEF FewStranded, FaultsStrandOneEach
<1>2. Inv /\ FewStranded /\ [Next]_vars => FewStranded'
  BY StrandStep
<1>3. FewStranded => FaultsStrandOneEach
  BY DEF FewStranded
<1> QED BY <1>1, <1>2, <1>3, Invariance, PTL DEF Spec

-----------------------------------------------------------------------------
(* RentEscrow implements EscrowContract: a status update maps to a         *)
(* decision, a payout row to a payment, and everything else, crashes and   *)
(* failing statements included, to a stutter.                              *)

\* What Contract substitutes for its variables.
LandlordPaid(e) == logged[e]["release"] + logged[e]["split_landlord"]
TenantPaid(e) == logged[e]["return"] + logged[e]["split_tenant"]
                    + logged[e]["refund"]

\* Between the two rows of a split the tenant has not been paid.
SplitPending == pc = "log_split_tenant" => logged[cur]["split_tenant"] = 0

\* An operation about to write the first payout row of its escrow has paid
\* nothing before.
LEMMA NothingPaidYet ==
    ASSUME Inv, pc \in LogSteps \ {"log_split_tenant"}
    PROVE  /\ cur \in Escrow
           /\ \A k \in PayoutKind : logged[cur][k] = 0
<1>1. PICK c \in Escrow : c = cur
  BY DEF Inv, InProgress, LogSteps
<1>2. Paid(c) + Outstanding(c) <= Owed(c)
  BY DEF Inv, Bounded
<1>3. Owed(c) \in {0, 100}
  BY DEF Owed
<1>6. pc \in {"log_release", "log_return", "log_refund", "log_split_landlord"}
  BY DEF LogSteps
<1>7. Outstanding(c) = 100
  BY <1>1, <1>6 DEF Outstanding
<1>4. \A k \in TxKind : logged[c][k] \in Nat
  BY DEF Inv, TypeOK
<1>8. Paid(c) = 0
  BY <1>2, <1>3, <1>7, PaidNat DEF Inv
<1>9. \A k \in PayoutKind : logged[c][k] \in Nat
  BY <1>4 DEF TxKind
<1>10. /\ logged[c]["release"] = 0 /\ logged[c]["return"] = 0
       /\ logged[c]["split_landlord"] = 0 /\ logged[c]["split_tenant"] = 0
       /\ logged[c]["refund"] = 0
  <2>1. PICK a \in Nat : a = logged[c]["release"]
    BY <1>9 DEF PayoutKind
  <2>2. PICK b \in Nat : b = logged[c]["return"]
    BY <1>9 DEF PayoutKind
  <2>3. PICK l \in Nat : l = logged[c]["split_landlord"]
    BY <1>9 DEF PayoutKind
  <2>4. PICK t \in Nat : t = logged[c]["split_tenant"]
    BY <1>9 DEF PayoutKind
  <2>5. PICK f \in Nat : f = logged[c]["refund"]
    BY <1>9 DEF PayoutKind
  <2>6. a + b + l + t + f = 0
    BY <1>8, <2>1, <2>2, <2>3, <2>4, <2>5 DEF Paid
  <2>7. a = 0 /\ b = 0 /\ l = 0 /\ t = 0 /\ f = 0
    BY <2>6
  <2> QED BY <2>1, <2>2, <2>3, <2>4, <2>5, <2>7
<1>5. \A k \in PayoutKind : logged[c][k] = 0
  BY <1>10 DEF PayoutKind
<1> QED BY <1>1, <1>5

LEMMA SplitPendingStep ==
    ASSUME Inv, SplitPending, [Next]_vars
    PROVE  SplitPending'
<1> SUFFICES ASSUME pc' = "log_split_tenant"
             PROVE  logged'[cur']["split_tenant"] = 0
  BY DEF SplitPending
<1>1. CASE UNCHANGED vars
  BY <1>1 DEF vars, tables, control, SplitPending
<1>2. CASE splitEscrow_landlord
  <2>1. pc = "log_split_landlord" /\ cur' = cur
        /\ logTransaction(cur, "split_landlord", split)
    BY <1>2 DEF splitEscrow_landlord, LogStep, GoOn
  <2>2. cur \in Escrow /\ logged[cur]["split_tenant"] = 0
    BY <2>1, NothingPaidYet DEF LogSteps, PayoutKind
  <2>3. PICK c \in Escrow : c = cur
    BY <2>2
  <2>4. split \in Nat /\ "split_landlord" \in TxKind /\ "split_tenant" \in TxKind
    BY DEF Inv, TypeOK, TxKind, PayoutKind
  <2>5. PICK share \in Nat : share = split
    BY <2>4
  <2>6. PICK k \in TxKind : k = "split_landlord"
    BY <2>4
  <2>7. logTransaction(c, k, share)
    BY <2>1, <2>3, <2>5, <2>6
  <2>8. \A e \in Escrow, j \in TxKind :
           logged'[e][j] = IF e = c /\ j = k THEN logged[e][j] + share
                           ELSE logged[e][j]
    BY <2>7, LogEffect DEF Inv
  <2>9. logged'[c]["split_tenant"] = logged[c]["split_tenant"]
    BY <2>4, <2>6, <2>8
  <2> QED BY <2>1, <2>2, <2>3, <2>9
<1>3. CASE Next /\ ~splitEscrow_landlord
  <2>1. FALSE
    BY <1>3 DEF Next, Proceed, Request, createEscrow_deposit,
       createEscrow_verification, releaseEscrowToLandlord_log,
       returnEscrowToTenant_log, splitEscrow_tenant, cancelEscrow_log,
       tenantConfirmRepairs_release, autoRelease_timeout, autoRelease_release,
       autoRelease_end, createEscrow, releaseEscrowToLandlord,
       returnEscrowToTenant, splitEscrow, cancelEscrow, uploadRepairPhotos,
       tenantConfirmRepairs, tenantRejectRepairs,
       autoReleaseExpiredVerifications, UpdateTicket, Expire, Crash,
       StatementThrows, Settle, GoOn, Return, control
  <2> QED BY <2>1
<1> QED BY <1>1, <1>2, <1>3

LEMMA SplitPendingInvariance == Spec => []SplitPending
<1>1. Init => SplitPending
  BY DEF Init, SplitPending
<1> QED BY <1>1, SplitPendingStep, Invariance, PTL DEF Spec

-----------------------------------------------------------------------------
(* Every step maps to a step of the contract or to a stutter.              *)

LEMMA QuietStutters ==
    ASSUME UNCHANGED <<escrow, logged>> PROVE UNCHANGED Contract!vars
  BY DEF Contract!vars

LEMMA SettleDecides ==
    ASSUME TypeOK, UNCHANGED logged, NEW e \in Escrow, NEW next,
           NEW s \in Settled, Settle(e, s, next)
    PROVE  Contract!Next
<1>1. escrow[e] = "active" /\ escrow' = [escrow EXCEPT ![e] = s]
  BY DEF Settle, updateEscrowStatus
<1>2. escrow'[e] = s
  BY <1>1 DEF TypeOK
<1>3. s \in Contract!ForLandlord \union Contract!ForTenant
  BY DEF Settled, EscrowStatus, Contract!ForLandlord, Contract!ForTenant
<1>4. Contract!Decide(e)
  BY <1>1, <1>2, <1>3 DEF Contract!Decide
<1> QED BY <1>4 DEF Contract!Next

\* A row for the landlord of an escrow that has paid the landlord nothing.
LEMMA LandlordRowPays ==
    ASSUME TypeOK, UNCHANGED escrow, NEW c \in Escrow, NEW share \in Nat,
           NEW k \in TxKind, k \in {"release", "split_landlord"},
           logTransaction(c, k, share),
           escrow[c] \in Contract!ForLandlord,
           LandlordPaid(c) = 0, share <= 100 - TenantPaid(c)
    PROVE  Contract!Next
<1>1. {"release", "split_landlord", "return", "split_tenant", "refund"}
         \subseteq TxKind
  BY DEF TxKind, PayoutKind
<1>2. \A e \in Escrow, j \in TxKind :
         logged'[e][j] = IF e = c /\ j = k THEN logged[e][j] + share
                         ELSE logged[e][j]
  BY LogEffect
<1>3. \A e \in Escrow, j \in TxKind : logged[e][j] \in Nat
  BY DEF TypeOK
<1>4. \A e \in Escrow : TenantPaid(e)' = TenantPaid(e)
  BY <1>1, <1>2 DEF TenantPaid
<1>5. \A e \in Escrow \ {c} : LandlordPaid(e)' = LandlordPaid(e)
  BY <1>1, <1>2 DEF LandlordPaid
<1>6. LandlordPaid(c)' = LandlordPaid(c) + share
  BY <1>1, <1>2, <1>3 DEF LandlordPaid
<1>7. LandlordPaid(c)' \in 0..(100 - TenantPaid(c))
  <2>1. TenantPaid(c) \in Nat
    BY <1>1, <1>3 DEF TenantPaid
  <2> QED BY <1>6, <2>1
<1>8. Contract!PayLandlord(c)
  BY <1>4, <1>5, <1>7 DEF Contract!PayLandlord, LandlordPaid, TenantPaid
<1> QED BY <1>8 DEF Contract!Next

\* A row for the tenant of an escrow that has paid the tenant nothing.
LEMMA TenantRowPays ==
    ASSUME TypeOK, UNCHANGED escrow, NEW c \in Escrow, NEW share \in Nat,
           NEW k \in TxKind, k \in {"return", "split_tenant", "refund"},
           logTransaction(c, k, share),
           escrow[c] \in Contract!ForTenant,
           TenantPaid(c) = 0, share <= 100 - LandlordPaid(c)
    PROVE  Contract!Next
<1>1. {"release", "split_landlord", "return", "split_tenant", "refund"}
         \subseteq TxKind
  BY DEF TxKind, PayoutKind
<1>2. \A e \in Escrow, j \in TxKind :
         logged'[e][j] = IF e = c /\ j = k THEN logged[e][j] + share
                         ELSE logged[e][j]
  BY LogEffect
<1>3. \A e \in Escrow, j \in TxKind : logged[e][j] \in Nat
  BY DEF TypeOK
<1>4. \A e \in Escrow : LandlordPaid(e)' = LandlordPaid(e)
  BY <1>1, <1>2 DEF LandlordPaid
<1>5. \A e \in Escrow \ {c} : TenantPaid(e)' = TenantPaid(e)
  BY <1>1, <1>2 DEF TenantPaid
<1>6. TenantPaid(c)' = TenantPaid(c) + share
  BY <1>1, <1>2, <1>3 DEF TenantPaid
<1>7. TenantPaid(c)' \in 0..(100 - LandlordPaid(c))
  <2>1. LandlordPaid(c) \in Nat
    BY <1>1, <1>3 DEF LandlordPaid
  <2> QED BY <1>6, <2>1
<1>8. Contract!PayTenant(c)
  BY <1>4, <1>5, <1>7 DEF Contract!PayTenant, LandlordPaid, TenantPaid
<1> QED BY <1>8 DEF Contract!Next

\* The first row of an operation, for the landlord or for the tenant.
LEMMA FirstLandlordRow ==
    ASSUME Inv, UNCHANGED escrow, NEW share \in 0..100,
           \/ pc = "log_release" /\ logTransaction(cur, "release", share)
           \/ pc = "log_split_landlord"
              /\ logTransaction(cur, "split_landlord", share)
    PROVE  Contract!Next
<1>1. pc \in LogSteps \ {"log_split_tenant"}
  BY DEF LogSteps
<1>2. cur \in Escrow /\ \A k \in PayoutKind : logged[cur][k] = 0
  BY <1>1, NothingPaidYet
<1>3. PICK c \in Escrow : c = cur
  BY <1>2
<1>4. LandlordPaid(c) = 0 /\ TenantPaid(c) = 0
  BY <1>2, <1>3 DEF LandlordPaid, TenantPaid, PayoutKind
<1>5. escrow[cur] = StatusOf(LoggingAt(pc))
  BY <1>1 DEF Inv, InProgress
<1>6. escrow[cur] \in Contract!ForLandlord
  BY <1>5 DEF StatusOf, LoggingAt, Contract!ForLandlord
<1>7. share \in Nat /\ share <= 100 - TenantPaid(c)
  BY <1>4
<1>8. PICK k \in TxKind : k \in {"release", "split_landlord"}
                            /\ logTransaction(c, k, share)
  BY <1>3 DEF TxKind, PayoutKind
<1> QED BY <1>3, <1>4, <1>6, <1>7, <1>8, LandlordRowPays DEF Inv

LEMMA FirstTenantRow ==
    ASSUME Inv, UNCHANGED escrow,
           \/ pc = "log_return" /\ logTransaction(cur, "return", 100)
           \/ pc = "log_refund" /\ logTransaction(cur, "refund", 100)
    PROVE  Contract!Next
<1>1. pc \in LogSteps \ {"log_split_tenant"}
  BY DEF LogSteps
<1>2. cur \in Escrow /\ \A k \in PayoutKind : logged[cur][k] = 0
  BY <1>1, NothingPaidYet
<1>3. PICK c \in Escrow : c = cur
  BY <1>2
<1>4. LandlordPaid(c) = 0 /\ TenantPaid(c) = 0
  BY <1>2, <1>3 DEF LandlordPaid, TenantPaid, PayoutKind
<1>5. escrow[cur] = StatusOf(LoggingAt(pc))
  BY <1>1 DEF Inv, InProgress
<1>6. escrow[cur] \in Contract!ForTenant
  BY <1>5 DEF StatusOf, LoggingAt, Contract!ForTenant
<1>7. PICK share \in Nat : share = 100
  OBVIOUS
<1>8. share <= 100 - LandlordPaid(c)
  BY <1>4, <1>7
<1>9. PICK k \in TxKind : k \in {"return", "split_tenant", "refund"}
                            /\ logTransaction(c, k, share)
  BY <1>3, <1>7 DEF TxKind, PayoutKind
<1> QED BY <1>3, <1>4, <1>6, <1>8, <1>9, TenantRowPays DEF Inv

\* The tenant's row of a split, the rest of what the landlord's row left.
LEMMA SplitTenantRow ==
    ASSUME Inv, SplitPending, splitEscrow_tenant
    PROVE  Contract!Next
<1>1. pc = "log_split_tenant" /\ UNCHANGED escrow
      /\ logTransaction(cur, "split_tenant", 100 - split)
  BY DEF splitEscrow_tenant, LogStep
<1>2. PICK c \in Escrow : c = cur
  BY <1>1 DEF Inv, InProgress
<1>3. escrow[c] = "split"
  BY <1>1, <1>2 DEF Inv, InProgress, LogSteps, StatusOf, LoggingAt
<1>4. \A k \in PayoutKind : logged[c][k] \in Nat
  BY DEF Inv, TypeOK, TxKind
<1>5. /\ ~(logged[c]["release"] > 0) /\ ~(logged[c]["return"] > 0)
      /\ ~(logged[c]["refund"] > 0)
  <2>1. \A k \in PayoutKind : logged[c][k] > 0 => escrow[c] = StatusOf(k)
    BY DEF Inv, LogAgreesWithStatus
  <2>2. /\ {"release", "return", "refund"} \subseteq PayoutKind
        /\ \A k \in {"release", "return", "refund"} : StatusOf(k) # "split"
    BY DEF PayoutKind, StatusOf
  <2> QED BY <1>3, <2>1, <2>2
<1>6. /\ logged[c]["release"] = 0 /\ logged[c]["return"] = 0
      /\ logged[c]["refund"] = 0 /\ logged[c]["split_tenant"] = 0
  BY <1>1, <1>2, <1>4, <1>5 DEF SplitPending, PayoutKind
<1>7. TenantPaid(c) = 0 /\ LandlordPaid(c) = Paid(c)
  <2>1. logged[c]["split_landlord"] \in Nat
    BY <1>4 DEF PayoutKind
  <2> QED BY <1>6, <2>1 DEF TenantPaid, LandlordPaid, Paid
<1>8. split \in 0..100
  BY DEF Inv, TypeOK
<1>9. PICK share \in Nat : share = 100 - split
  BY <1>8
<1>10. share <= 100 - LandlordPaid(c)
  <2>1. Outstanding(c) = share
    BY <1>1, <1>2, <1>9 DEF Outstanding
  <2>2. Owed(c) = 100 /\ Paid(c) + Outstanding(c) <= Owed(c)
    BY <1>3 DEF Inv, Bounded, Owed, Settled, EscrowStatus
  <2>3. Paid(c) \in Nat
    BY PaidNat DEF Inv
  <2> QED BY <1>7, <2>1, <2>2, <2>3
<1>11. PICK k \in TxKind : k \in {"return", "split_tenant", "refund"}
                             /\ logTransaction(c, k, share)
  BY <1>1, <1>2, <1>9 DEF TxKind, PayoutKind
<1>12. escrow[c] \in Contract!ForTenant
  BY <1>3 DEF Contract!ForTenant
<1> QED BY <1>1, <1>7, <1>10, <1>11, <1>12, TenantRowPays DEF Inv

-----------------------------------------------------------------------------

LEMMA StepRefines ==
    ASSUME Inv, SplitPending, Next
    PROVE  [Contract!Next]_(Contract!vars)
<1>t. TypeOK
  BY DEF Inv
<1>1. CASE Proceed
  <2>1. CASE createEscrow_deposit
    <3>1. cur \in Escrow /\ logTransaction(cur, "deposit", 100)
          /\ UNCHANGED escrow
      BY <2>1 DEF createEscrow_deposit, LogStep, Inv, InProgress
    <3>2. PICK c \in Escrow : c = cur
      BY <3>1
    <3>3. PICK k \in TxKind : k = "deposit"
      BY DEF TxKind
    <3>4. logTransaction(c, k, 100) /\ 100 \in Nat
      BY <3>1, <3>2, <3>3
    <3>5. \A e \in Escrow, j \in TxKind :
             logged'[e][j] = IF e = c /\ j = k THEN logged[e][j] + 100
                             ELSE logged[e][j]
      BY <1>t, <3>4, LogEffect
    <3>6. \A e \in Escrow, j \in PayoutKind : logged'[e][j] = logged[e][j]
      BY <3>3, <3>5 DEF TxKind, PayoutKind
    <3>7. \A e \in Escrow : LandlordPaid(e)' = LandlordPaid(e)
                             /\ TenantPaid(e)' = TenantPaid(e)
      BY <3>6 DEF LandlordPaid, TenantPaid, PayoutKind
    <3> QED BY <3>1, <3>7 DEF Contract!vars, LandlordPaid, TenantPaid
  <2>2. CASE createEscrow_verification
    BY <2>2, QuietStutters DEF createEscrow_verification
  <2>3. CASE releaseEscrowToLandlord_log
    <3>1. pc = "log_release" /\ logTransaction(cur, "release", 100)
          /\ UNCHANGED escrow
      BY <2>3 DEF releaseEscrowToLandlord_log, LogStep
    <3> QED BY <1>t, <3>1, FirstLandlordRow
  <2>4. CASE returnEscrowToTenant_log
    <3>1. pc = "log_return" /\ logTransaction(cur, "return", 100)
          /\ UNCHANGED escrow
      BY <2>4 DEF returnEscrowToTenant_log, LogStep
    <3> QED BY <1>t, <3>1, FirstTenantRow
  <2>5. CASE splitEscrow_landlord
    <3>1. pc = "log_split_landlord" /\ logTransaction(cur, "split_landlord", split)
          /\ UNCHANGED escrow
      BY <2>5 DEF splitEscrow_landlord, LogStep
    <3>2. split \in 0..100
      BY <1>t DEF TypeOK
    <3> QED BY <1>t, <3>1, <3>2, FirstLandlordRow
  <2>6. CASE splitEscrow_tenant
    BY <2>6, SplitTenantRow
  <2>7. CASE cancelEscrow_log
    <3>1. pc = "log_refund" /\ logTransaction(cur, "refund", 100)
          /\ UNCHANGED escrow
      BY <2>7 DEF cancelEscrow_log, LogStep
    <3> QED BY <1>t, <3>1, FirstTenantRow
  <2>8. CASE tenantConfirmRepairs_release \/ autoRelease_release
    <3>1. pc \notin {"idle", "sweep_next"} /\ UNCHANGED logged
      BY <2>8 DEF tenantConfirmRepairs_release, autoRelease_release
    <3>2. PICK c \in Escrow : c = cur
      BY <3>1 DEF Inv, InProgress
    <3>3. PICK s \in Settled : s = "released_to_landlord"
      BY DEF Settled, EscrowStatus
    <3>4. CASE Settle(cur, "released_to_landlord", "log_release")
      BY <1>t, <3>1, <3>2, <3>3, <3>4, SettleDecides
    <3>5. CASE UNCHANGED escrow
      BY <3>1, <3>5, QuietStutters
    <3> QED BY <2>8, <3>4, <3>5
            DEF tenantConfirmRepairs_release, autoRelease_release
  <2>9. CASE (\E e \in Escrow : autoRelease_timeout(e)) \/ autoRelease_end
    BY <2>9, QuietStutters DEF autoRelease_timeout, autoRelease_end, tables
  <2> QED BY <1>1, <2>1, <2>2, <2>3, <2>4, <2>5, <2>6, <2>7, <2>8, <2>9
          DEF Proceed
<1>2. CASE Request
  <2>1. ASSUME NEW e \in Escrow, NEW t \in Ticket, createEscrow(e, t)
        PROVE  Contract!Next
    <3>1. Contract!Hold(e)
      BY <2>1 DEF createEscrow, Contract!Hold
    <3> QED BY <3>1 DEF Contract!Next
  <2>2. ASSUME NEW e \in Escrow, NEW s \in Settled, NEW next, Settle(e, s, next),
               UNCHANGED logged
        PROVE  Contract!Next
    BY <1>t, <2>2, SettleDecides
  <2>3. {"released_to_landlord", "returned_to_tenant", "split", "cancelled"}
           \subseteq Settled
    BY DEF Settled, EscrowStatus
  <2>4. ASSUME NEW e \in Escrow,
               \/ releaseEscrowToLandlord(e) \/ returnEscrowToTenant(e)
               \/ \E p \in Percent : splitEscrow(e, p)
               \/ cancelEscrow(e)
        PROVE  Contract!Next
    BY <2>2, <2>3, <2>4 DEF releaseEscrowToLandlord, returnEscrowToTenant,
                            splitEscrow, cancelEscrow
  <2>5. CASE \/ \E e \in Escrow : \/ uploadRepairPhotos(e)
                                 \/ tenantConfirmRepairs(e)
                                 \/ tenantRejectRepairs(e)
             \/ autoReleaseExpiredVerifications
    BY <2>5, QuietStutters DEF uploadRepairPhotos, tenantConfirmRepairs,
          tenantRejectRepairs, autoReleaseExpiredVerifications, tables
  <2> QED BY <1>2, <2>1, <2>4, <2>5 DEF Request
<1>3. CASE \/ \E t \in Ticket, s \in TicketStatus : UpdateTicket(t, s)
           \/ \E e \in Escrow : Expire(e)
           \/ Crash
           \/ StatementThrows
  BY <1>3, QuietStutters DEF UpdateTicket, Expire, Crash, StatementThrows, tables
<1> QED BY <1>1, <1>2, <1>3 DEF Next

\* The service implements the contract of an escrow: one decision, and after
\* it at most one payment to each party the decision names, together never
\* more than was held (RentEscrowService, all operations).
THEOREM ServiceImplementsContract == Spec => ImplementsContract
<1>1. Init => Contract!Init
  <2> SUFFICES ASSUME Init PROVE Contract!Init
    OBVIOUS
  <2>1. \A e \in Escrow, k \in TxKind : logged[e][k] = 0
    BY DEF Init
  <2>2. \A e \in Escrow, k \in PayoutKind : logged[e][k] = 0
    BY <2>1 DEF TxKind
  <2>3. ASSUME NEW e \in Escrow PROVE LandlordPaid(e) = 0 /\ TenantPaid(e) = 0
    <3>1. /\ logged[e]["release"] = 0 /\ logged[e]["return"] = 0
          /\ logged[e]["split_landlord"] = 0 /\ logged[e]["split_tenant"] = 0
          /\ logged[e]["refund"] = 0
      BY <2>2 DEF PayoutKind
    <3> QED BY <3>1 DEF LandlordPaid, TenantPaid
  <2> QED BY <2>3 DEF Init, Contract!Init, LandlordPaid, TenantPaid
<1>2. UNCHANGED vars => UNCHANGED Contract!vars
  BY QuietStutters DEF vars, tables
<1>3. Inv /\ SplitPending /\ [Next]_vars => [Contract!Next]_(Contract!vars)
  BY <1>2, StepRefines
<1> QED
  BY <1>1, <1>3, Invariance, SplitPendingInvariance, PTL
  DEF Spec, ImplementsContract, Contract!Spec
=============================================================================
