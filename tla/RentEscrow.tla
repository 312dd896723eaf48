----------------------------- MODULE RentEscrow -----------------------------
(***************************************************************************)
(* RentEscrowService: rent withheld in an escrow during a maintenance      *)
(* dispute, paid out exactly once by one of five routes (the landlord's    *)
(* release, a return, a split, a cancellation, the tenant's confirmation)  *)
(* or by the sweep that releases the escrows whose tenant did not answer.  *)
(*                                                                         *)
(* node:sqlite is synchronous, so one operation of the service runs at a   *)
(* time; but no operation opens a transaction, every SQL statement commits *)
(* on its own.  An operation is therefore a sequence of steps, one per     *)
(* statement, and a crash, or a statement that throws, may end it between  *)
(* any two of them.                                                        *)
(*                                                                         *)
(* Money is counted in percent of the disputed amount.                     *)
(***************************************************************************)
EXTENDS Integers, FiniteSets

CONSTANTS
    Escrow,         \* ids of the escrows (each has one repair verification)
    Ticket,         \* ids of the maintenance tickets
    TicketStatus,   \* the values of maintenance_tickets.status
    Percent,        \* the landlord percentages a split is asked for
    NoEscrow,       \* no escrow
    MaxFaults       \* bound: crashes and throwing statements of a behavior

ASSUME PercentAssumption == Percent \subseteq 0..100
ASSUME NoEscrowAssumption == NoEscrow \notin Escrow
ASSUME MaxFaultsAssumption == MaxFaults \in Nat

VARIABLES
    ticket,     \* maintenance_tickets.status, "none" before the insert
    escrow,     \* rent_escrows.escrow_status, "none" before the insert
    answer,     \* repair_verifications.tenant_confirmation_status
    triggered,  \* repair_verifications.auto_release_triggered
    expired,    \* the verification is older than autoReleaseDays
    photos,     \* repair_photos_after is not empty
    logged,     \* escrow_transactions: percent logged, by kind
    pc,         \* the next statement of the operation in progress
    cur,        \* the escrow the operation works on
    split,      \* landlordPercentage of the split in progress
    sweep,      \* rows of the sweep's SELECT not visited yet; see inSweep
    inSweep,    \* the operation in progress is autoReleaseExpiredVerifications
    faults      \* crashes and failed statements so far

tables == <<ticket, escrow, answer, triggered, expired, photos, logged>>
control == <<pc, cur, split, sweep, inSweep>>
vars == <<tables, control, faults>>

ActiveTicket == {"open", "in_progress", "disputed"}

EscrowStatus == {"active", "released_to_landlord", "returned_to_tenant",
                 "split", "cancelled"}
Settled == EscrowStatus \ {"active"}
Answer == {"pending", "confirmed", "rejected", "timeout"}

\* The transaction types, a split's two rows told apart by their recipient.
PayoutKind == {"release", "return", "split_landlord", "split_tenant", "refund"}
TxKind == PayoutKind \union {"deposit"}

Step == {"log_deposit", "create_verification", "check_confirmed",
         "log_release", "log_return", "log_split_landlord", "log_split_tenant",
         "log_refund", "sweep_next", "sweep_release"}

TypeOK ==
    /\ ticket \in [Ticket -> TicketStatus \union {"none"}]
    /\ escrow \in [Escrow -> EscrowStatus \union {"none"}]
    /\ answer \in [Escrow -> Answer \union {"none"}]
    /\ triggered \in [Escrow -> BOOLEAN]
    /\ expired \in [Escrow -> BOOLEAN]
    /\ photos \in [Escrow -> BOOLEAN]
    /\ logged \in [Escrow -> [TxKind -> Nat]]
    /\ pc \in Step \union {"idle"}
    /\ cur \in Escrow \union {NoEscrow}
    /\ split \in 0..100
    /\ sweep \in SUBSET Escrow
    /\ inSweep \in BOOLEAN
    /\ faults \in 0..MaxFaults

Init ==
    /\ ticket = [t \in Ticket |-> "none"]
    /\ escrow = [e \in Escrow |-> "none"]
    /\ answer = [e \in Escrow |-> "none"]
    /\ triggered = [e \in Escrow |-> FALSE]
    /\ expired = [e \in Escrow |-> FALSE]
    /\ photos = [e \in Escrow |-> FALSE]
    /\ logged = [e \in Escrow |-> [k \in TxKind |-> 0]]
    /\ pc = "idle"
    /\ cur = NoEscrow
    /\ split = 0
    /\ sweep = {}
    /\ inSweep = FALSE
    /\ faults = 0

-----------------------------------------------------------------------------
(* Steps of the operations                                                 *)

\* The operation goes on with statement s on escrow e.
GoOn(s, e) == /\ pc' = s
              /\ cur' = e

\* The operation returns: to the sweep's loop when the sweep called it.
Return ==
    /\ pc' = IF inSweep THEN "sweep_next" ELSE "idle"
    /\ cur' = NoEscrow
    /\ split' = 0
    /\ UNCHANGED <<sweep, inSweep>>

\* updateEscrowStatus(e, s)
updateEscrowStatus(e, s) == escrow' = [escrow EXCEPT ![e] = s]

\* logTransaction of a row of kind k for `share` percent.
logTransaction(e, k, share) ==
    logged' = [logged EXCEPT ![e][k] = @ + share]

\* Mutant: the status is not read before it is written.
Settle_Unguarded(e, s, next) ==
    /\ escrow[e] # "none"
    /\ updateEscrowStatus(e, s)
    /\ GoOn(next, e)

\* The guard of every settlement, and the status update it starts with.
Settle(e, s, next) ==
    /\ escrow[e] = "active"
    /\ updateEscrowStatus(e, s)
    /\ GoOn(next, e)

\* The statement that writes the row of kind k, and where it goes after it.
LogStep(at, k, share) ==
    /\ pc = at
    /\ logTransaction(cur, k, share)
    /\ UNCHANGED <<ticket, escrow, answer, triggered, expired, photos, faults>>

-----------------------------------------------------------------------------
(* Environment                                                             *)

\* VendorService: a ticket is created and its status changes.
UpdateTicket(t, s) ==
    /\ pc = "idle"
    /\ ticket[t] = "none" => s = "open"
    /\ ticket' = [ticket EXCEPT ![t] = s]
    /\ UNCHANGED <<escrow, answer, triggered, expired, photos, logged,
                   control, faults>>

\* autoReleaseDays pass since the verification was created.
Expire(e) ==
    /\ pc = "idle"
    /\ answer[e] # "none"
    /\ ~expired[e]
    /\ expired' = [expired EXCEPT ![e] = TRUE]
    /\ UNCHANGED <<ticket, escrow, answer, triggered, photos, logged, control,
                   faults>>

-----------------------------------------------------------------------------
(* Operations                                                              *)

createEscrow(e, t) ==
    /\ pc = "idle"
    /\ escrow[e] = "none"
    /\ ticket[t] \in ActiveTicket
    /\ escrow' = [escrow EXCEPT ![e] = "active"]
    /\ GoOn("log_deposit", e)
    /\ UNCHANGED <<ticket, answer, triggered, expired, photos, logged, split,
                   sweep, inSweep, faults>>

createEscrow_deposit ==
    /\ LogStep("log_deposit", "deposit", 100)
    /\ GoOn("create_verification", cur)
    /\ UNCHANGED <<split, sweep, inSweep>>

\* Mutant: the verification gets no confirmation status.
createEscrow_verification_Unset ==
    /\ pc = "create_verification"
    /\ answer' = [answer EXCEPT ![cur] = "unset"]
    /\ Return
    /\ UNCHANGED <<ticket, escrow, triggered, expired, photos, logged, faults>>

createEscrow_verification ==
    /\ pc = "create_verification"
    /\ answer' = [answer EXCEPT ![cur] = "pending"]
    /\ Return
    /\ UNCHANGED <<ticket, escrow, triggered, expired, photos, logged, faults>>

releaseEscrowToLandlord(e) ==
    /\ pc = "idle"
    /\ Settle(e, "released_to_landlord", "log_release")
    /\ UNCHANGED <<ticket, answer, triggered, expired, photos, logged, split,
                   sweep, inSweep, faults>>

releaseEscrowToLandlord_log ==
    /\ LogStep("log_release", "release", 100)
    /\ Return

returnEscrowToTenant(e) ==
    /\ pc = "idle"
    /\ Settle(e, "returned_to_tenant", "log_return")
    /\ UNCHANGED <<ticket, answer, triggered, expired, photos, logged, split,
                   sweep, inSweep, faults>>

returnEscrowToTenant_log ==
    /\ LogStep("log_return", "return", 100)
    /\ Return

splitEscrow(e, landlordPercentage) ==
    /\ pc = "idle"
    /\ Settle(e, "split", "log_split_landlord")
    /\ split' = landlordPercentage
    /\ UNCHANGED <<ticket, answer, triggered, expired, photos, logged, sweep,
                   inSweep, faults>>

splitEscrow_landlord ==
    /\ LogStep("log_split_landlord", "split_landlord", split)
    /\ GoOn("log_split_tenant", cur)
    /\ UNCHANGED <<split, sweep, inSweep>>

\* Mutant: the tenant is given the landlord's share.
splitEscrow_tenant_SameShare ==
    /\ LogStep("log_split_tenant", "split_tenant", split)
    /\ Return

splitEscrow_tenant ==
    /\ LogStep("log_split_tenant", "split_tenant", 100 - split)
    /\ Return

cancelEscrow(e) ==
    /\ pc = "idle"
    /\ Settle(e, "cancelled", "log_refund")
    /\ UNCHANGED <<ticket, answer, triggered, expired, photos, logged, split,
                   sweep, inSweep, faults>>

cancelEscrow_log ==
    /\ LogStep("log_refund", "refund", 100)
    /\ Return

uploadRepairPhotos(e) ==
    /\ pc = "idle"
    /\ answer[e] # "none"
    /\ photos' = [photos EXCEPT ![e] = TRUE]
    /\ UNCHANGED <<ticket, escrow, answer, triggered, expired, logged, control,
                   faults>>

\* No condition on the answer given before, nor on the escrow.
tenantConfirmRepairs(e) ==
    /\ pc = "idle"
    /\ answer[e] # "none"
    /\ answer' = [answer EXCEPT ![e] = "confirmed"]
    /\ GoOn("check_confirmed", e)
    /\ UNCHANGED <<ticket, escrow, triggered, expired, photos, logged, split,
                   sweep, inSweep, faults>>

\* Mutant: a confirmation releases an escrow whatever its status.
tenantConfirmRepairs_release_Unguarded ==
    /\ pc = "check_confirmed"
    /\ updateEscrowStatus(cur, "released_to_landlord")
    /\ GoOn("log_release", cur)
    /\ UNCHANGED <<split, sweep, inSweep, ticket, answer, triggered, expired,
                   photos, logged, faults>>

tenantConfirmRepairs_release ==
    /\ pc = "check_confirmed"
    /\ \/ /\ Settle(cur, "released_to_landlord", "log_release")
          /\ UNCHANGED <<split, sweep, inSweep>>
       \/ /\ escrow[cur] # "active"
          /\ Return
          /\ UNCHANGED escrow
    /\ UNCHANGED <<ticket, answer, triggered, expired, photos, logged, faults>>

\* The UPDATE matches no row when the verification does not exist.
tenantRejectRepairs(e) ==
    /\ pc = "idle"
    /\ answer[e] # "none"
    /\ answer' = [answer EXCEPT ![e] = "rejected"]
    /\ UNCHANGED <<ticket, escrow, triggered, expired, photos, logged, control,
                   faults>>

\* Mutant: the SELECT does not look at the tenant's answer.
ExpiredVerifications_AnyAnswer ==
    {e \in Escrow : answer[e] # "none" /\ expired[e] /\ ~triggered[e]}

\* The rows the SELECT of the sweep returns.
ExpiredVerifications ==
    {e \in Escrow : answer[e] = "pending" /\ expired[e] /\ ~triggered[e]}

autoReleaseExpiredVerifications ==
    /\ pc = "idle"
    /\ ExpiredVerifications # {}
    /\ sweep' = ExpiredVerifications
    /\ inSweep' = TRUE
    /\ pc' = "sweep_next"
    /\ UNCHANGED <<tables, cur, split, faults>>

autoRelease_timeout(e) ==
    /\ pc = "sweep_next"
    /\ e \in sweep
    /\ sweep' = sweep \ {e}
    /\ answer' = [answer EXCEPT ![e] = "timeout"]
    /\ triggered' = [triggered EXCEPT ![e] = TRUE]
    /\ GoOn("sweep_release", e)
    /\ UNCHANGED <<ticket, escrow, expired, photos, logged, split, inSweep,
                   faults>>

\* Mutant: the sweep marks the verification and forgets the escrow.
autoRelease_release_Forgets ==
    /\ pc = "sweep_release"
    /\ Return
    /\ UNCHANGED <<tables, faults>>

\* releaseEscrowToLandlord throws when the escrow is not active: the sweep
\* catches the error and goes on.
autoRelease_release ==
    /\ pc = "sweep_release"
    /\ \/ /\ Settle(cur, "released_to_landlord", "log_release")
          /\ UNCHANGED <<split, sweep, inSweep>>
       \/ /\ escrow[cur] # "active"
          /\ Return
          /\ UNCHANGED escrow
    /\ UNCHANGED <<ticket, answer, triggered, expired, photos, logged, faults>>

autoRelease_end ==
    /\ pc = "sweep_next"
    /\ sweep = {}
    /\ inSweep' = FALSE
    /\ pc' = "idle"
    /\ UNCHANGED <<tables, cur, split, sweep, faults>>

-----------------------------------------------------------------------------
(* Faults                                                                  *)

\* The process dies between two statements: what is left of the operation is
\* forgotten, the statements before it are committed.
Crash ==
    /\ pc # "idle"
    /\ faults < MaxFaults
    /\ faults' = faults + 1
    /\ pc' = "idle"
    /\ cur' = NoEscrow
    /\ split' = 0
    /\ sweep' = {}
    /\ inSweep' = FALSE
    /\ UNCHANGED tables

\* A statement throws (SQLITE_BUSY, a full disk): the operation fails, and the
\* sweep catches the error of one verification and goes on with the next.
StatementThrows ==
    /\ pc \notin {"idle", "sweep_next"}
    /\ faults < MaxFaults
    /\ faults' = faults + 1
    /\ Return
    /\ UNCHANGED tables

-----------------------------------------------------------------------------

Proceed ==
    \/ createEscrow_deposit
    \/ createEscrow_verification
    \/ releaseEscrowToLandlord_log
    \/ returnEscrowToTenant_log
    \/ splitEscrow_landlord
    \/ splitEscrow_tenant
    \/ cancelEscrow_log
    \/ tenantConfirmRepairs_release
    \/ \E e \in Escrow : autoRelease_timeout(e)
    \/ autoRelease_release
    \/ autoRelease_end

Request ==
    \/ \E e \in Escrow :
          \/ \E t \in Ticket : createEscrow(e, t)
          \/ releaseEscrowToLandlord(e)
          \/ returnEscrowToTenant(e)
          \/ \E p \in Percent : splitEscrow(e, p)
          \/ cancelEscrow(e)
          \/ uploadRepairPhotos(e)
          \/ tenantConfirmRepairs(e)
          \/ tenantRejectRepairs(e)
    \/ autoReleaseExpiredVerifications

Next ==
    \/ Proceed
    \/ Request
    \/ \E t \in Ticket, s \in TicketStatus : UpdateTicket(t, s)
    \/ \E e \in Escrow : Expire(e)
    \/ Crash
    \/ StatementThrows

Spec == Init /\ [][Next]_vars

-----------------------------------------------------------------------------
(* Properties                                                              *)

Paid(e) ==
    LET l == logged[e]
    IN  l["release"] + l["return"] + l["split_landlord"] + l["split_tenant"]
          + l["refund"]

StatusOf(k) ==
    CASE k = "release" -> "released_to_landlord"
      [] k = "return" -> "returned_to_tenant"
      [] k \in {"split_landlord", "split_tenant"} -> "split"
      [] k = "refund" -> "cancelled"

\* Whatever the order of requests, sweeps, crashes and failed statements, no
\* escrow ever pays out more than was withheld.
PaidAtMostOnce == \A e \in Escrow : Paid(e) <= 100

\* The transaction log never contradicts the escrow's status: a payout row
\* exists only for the route by which the status says the escrow was settled.
LogAgreesWithStatus ==
    \A e \in Escrow, k \in PayoutKind :
        logged[e][k] > 0 => escrow[e] = StatusOf(k)

\* As long as no operation was cut short, between operations the books are
\* complete: the deposit of every escrow is logged, an active escrow has paid
\* nothing and a settled one has paid exactly what was withheld.
BooksBalance ==
    faults = 0 /\ pc = "idle" =>
        \A e \in Escrow :
            /\ escrow[e] # "none" => logged[e]["deposit"] = 100
            /\ Paid(e) = IF escrow[e] \in Settled THEN 100 ELSE 0

\* A settled escrow is never settled again, nor reopened: a confirmation that
\* arrives after the return, or the sweep after the split, moves no money.
SettledIsFinal ==
    [][\A e \in Escrow : escrow[e] \in Settled => escrow'[e] = escrow[e]]_vars

\* The sweep never replaces an answer the tenant gave by a timeout.
AnswerNotOverridden ==
    [][\A e \in Escrow :
          answer[e] \in {"confirmed", "rejected"} => answer'[e] # "timeout"]_vars

\* The sweep has marked the verification, is not about to release the escrow,
\* and the escrow still holds the rent.
Stranded == {e \in Escrow : answer[e] = "timeout" /\ escrow[e] = "active" /\ cur # e}

\* The sweep marks a verification as timed out before it releases the escrow,
\* and never looks at it again: whatever crashes, fails, or is answered and
\* settled meanwhile, each fault strands at most one escrow, and nothing but a
\* fault strands any.
FaultsStrandOneEach == Cardinality(Stranded) <= faults

\* What the parties were paid, as EscrowContract counts it.
Contract == INSTANCE EscrowContract WITH
    status <- escrow,
    landlord <- [e \in Escrow |-> logged[e]["release"] + logged[e]["split_landlord"]],
    tenant <- [e \in Escrow |-> logged[e]["return"] + logged[e]["split_tenant"]
                                   + logged[e]["refund"]]

\* The statements of the service, interleaved with crashes and failing
\* statements, only ever do what the contract of an escrow allows: one
\* decision, and after it one payment to each party the decision names.
ImplementsContract == Contract!Spec
=============================================================================
