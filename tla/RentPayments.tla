---------------------------- MODULE RentPayments ----------------------------
(***************************************************************************)
(* The rent payment tracker (services/rentPaymentTrackerService.js), the   *)
(* cron job that polls with it (paymentTrackerJob.js), the tables it       *)
(* writes through AppDatabase, and the lease status cache in front of      *)
(* those tables (LeaseCacheService.js).                                    *)
(*                                                                         *)
(* A poll reads the in-memory cursor, asks Horizon for the operations      *)
(* after it, handles them one by one, and only then moves the cursor.      *)
(* cron does not wait for a poll to end, so polls overlap.  An operation   *)
(* is handled in one synchronous block of separately committed statements, *)
(* so no other poll sees it half done, but a statement that throws leaves  *)
(* the earlier ones in place; the loop catches the error and goes on.  A   *)
(* process that dies in the middle of a block leaves what ProcessFails     *)
(* followed by Crash leaves.                                               *)
(*                                                                         *)
(* Operations are numbered by their place in the account's history, which  *)
(* is what paging tokens order.  The lease row of a match has no           *)
(* rent_amount (the query names it rentAmount), so the amount due is 0,    *)
(* the branch for partial payments is never taken, and every matched       *)
(* payment sets 'paid' and a balance of 0.                                 *)
(***************************************************************************)
EXTENDS Naturals, FiniteSets, Sequences, SequencesExt

CONSTANTS
  Tenants,      \* Stellar accounts of tenants; each has one lease
  Buyers,       \* those whose lease has the purchase option enabled
  Polls,        \* polls that may overlap
  PageLimit,    \* operations Horizon returns at once
  MaxOps,       \* bound: operations on the account
  MaxDisputes,  \* bound: times a lease changes between matched and not
  MaxFaults     \* bound: failed requests and statements, and crashes

ASSUME BuyersAreTenants == Buyers \subseteq Tenants
ASSUME PageLimitIsPositive == PageLimit \in Nat \ {0}
ASSUME PaymentBounds == MaxOps \in Nat /\ MaxDisputes \in Nat /\ MaxFaults \in Nat

Other == "other"      \* an operation that is no payment to the contract
ASSUME OtherIsNoTenant == Other \notin Tenants
NoLease == "no lease"
ASSUME NoLeaseIsNoTenant == NoLease \notin Tenants
NotCached == "not cached"
PaymentStatus == {"pending", "paid"}

VARIABLES
  ledger,    \* the account's operations on Horizon: who paid
  cursor,    \* _lastPagingToken
  poll,      \* the polls under way
  history,   \* the rows of payment_history, oldest first
  lease,     \* the row of leases of each tenant
  cache,     \* LeaseCacheService: the status kept for a lease
  filling,   \* LeaseCacheService: the row a request read and has yet to keep
  disputes,  \* bound: lease changes so far
  faults,    \* bound: faults so far
  lost,      \* history variable: operations whose INSERT threw in this process
  cut        \* history variable: operations with a statement that threw

tables == <<history, lease>>
statusCache == <<cache, filling>>
vars == <<ledger, cursor, poll, history, lease, cache, filling,
          disputes, faults, lost, cut>>

Idle == [pc |-> "idle", from |-> 0, upto |-> 0, next |-> 0]

Init ==
  /\ ledger = <<>>
  /\ cursor = 0
  /\ poll = [s \in Polls |-> Idle]
  /\ history = <<>>
  /\ lease = [t \in Tenants |-> [matched |-> TRUE, status |-> "pending",
                                 last |-> 0, credit |-> 0]]
  /\ cache = [t \in Tenants |-> NotCached]
  /\ filling = cache
  /\ disputes = 0 /\ faults = 0 /\ lost = {} /\ cut = {}

Recorded == {row.op : row \in ToSet(history)}
RowsOf(t) == {row \in ToSet(history) : row.lease = t}

----------------------------------------------------------------------------
(* The environment *)

\* An operation appears in the account's history.
Pay(from) ==
  /\ Len(ledger) < MaxOps
  /\ ledger' = Append(ledger, from)
  /\ UNCHANGED <<cursor, poll, tables, statusCache, disputes, faults, lost, cut>>

\* The lease becomes disputed or inactive, or active again: payments match
\* only active leases that are not disputed.
ToggleMatched(t) ==
  /\ disputes < MaxDisputes
  /\ disputes' = disputes + 1
  /\ lease' = [lease EXCEPT ![t].matched = ~@]
  /\ UNCHANGED <<ledger, cursor, poll, history, statusCache, faults, lost, cut>>

----------------------------------------------------------------------------
(* A poll *)

\* cron starts a poll, which puts the cursor of that moment in its URL.
StartPoll(s) ==
  /\ poll[s].pc = "idle"
  /\ poll' = [poll EXCEPT ![s] = [Idle EXCEPT !.pc = "asked", !.from = cursor]]
  /\ UNCHANGED <<ledger, cursor, tables, statusCache, disputes, faults, lost, cut>>

\* Horizon answers with the page after that cursor.
FetchHorizon(s) ==
  LET from == poll[s].from
      end == IF from + PageLimit < Len(ledger) THEN from + PageLimit ELSE Len(ledger)
  IN  /\ poll[s].pc = "asked"
      /\ poll' = [poll EXCEPT ![s].pc = "page", ![s].upto = end, ![s].next = from + 1]
      /\ UNCHANGED <<ledger, cursor, tables, statusCache, disputes, faults, lost, cut>>

\* The request fails or takes more than ten seconds: the poll rejects, the job
\* logs it.
FetchHorizonFails(s) ==
  /\ poll[s].pc = "asked" /\ faults < MaxFaults
  /\ faults' = faults + 1
  /\ poll' = [poll EXCEPT ![s] = Idle]
  /\ UNCHANGED <<ledger, cursor, tables, statusCache, disputes, lost, cut>>

MatchedLease(op) == IF lease[ledger[op]].matched THEN ledger[op] ELSE NoLease

\* Mutant: only operations after the latest recorded one count as new.
ToRecord_Newer(op) == ledger[op] # Other /\ \A done \in Recorded : op > done

\* Whether the block goes past its checks: a payment to the contract that is
\* not in payment_history yet.
ToRecord(op) == ledger[op] # Other /\ op \notin Recorded

\* Mutant: a lease that shows 'paid' already keeps the date of that payment.
Updated_UnpaidOnly(row, t, op, done) ==
  [row EXCEPT !.status = IF done >= 1 THEN "paid" ELSE @,
              !.last = IF done >= 1 /\ row.status # "paid" THEN op ELSE @,
              !.credit = IF done >= 3 /\ t \in Buyers THEN @ + 1 ELSE @]

\* The lease row after the first `done' of the statements that follow the
\* INSERT: status and date, balance, purchase credit.
Updated(row, t, op, done) ==
  [row EXCEPT !.status = IF done >= 1 THEN "paid" ELSE @,
              !.last = IF done >= 1 THEN op ELSE @,
              !.credit = IF done >= 3 /\ t \in Buyers THEN @ + 1 ELSE @]

Insert(op, done) ==
  LET t == MatchedLease(op)
  IN  /\ history' = Append(history, [op |-> op, lease |-> t])
      /\ lease' = IF t = NoLease THEN lease
                  ELSE [lease EXCEPT ![t] = Updated(@, t, op, done)]

\* The loop's next operation is handled, or skipped.
ProcessPaymentOperation(s) ==
  LET op == poll[s].next
  IN  /\ poll[s].pc = "page" /\ op <= poll[s].upto
      /\ poll' = [poll EXCEPT ![s].next = op + 1]
      /\ IF ToRecord(op) THEN Insert(op, 3) ELSE UNCHANGED tables
      /\ UNCHANGED <<ledger, cursor, statusCache, disputes, faults, lost, cut>>

\* The INSERT throws.  The loop goes on, and the cursor will pass the operation.
InsertPaymentFails(s) ==
  LET op == poll[s].next
  IN  /\ poll[s].pc = "page" /\ op <= poll[s].upto
      /\ ToRecord(op) /\ faults < MaxFaults
      /\ faults' = faults + 1
      /\ poll' = [poll EXCEPT ![s].next = op + 1]
      /\ lost' = lost \union {op}
      /\ cut' = cut \union {op}
      /\ UNCHANGED <<ledger, cursor, tables, statusCache, disputes>>

\* A later statement throws: the payment is recorded, so no poll returns to it.
UpdateLeaseFails(s) ==
  LET op == poll[s].next
  IN  /\ poll[s].pc = "page" /\ op <= poll[s].upto
      /\ ToRecord(op) /\ MatchedLease(op) # NoLease /\ faults < MaxFaults
      /\ faults' = faults + 1
      /\ poll' = [poll EXCEPT ![s].next = op + 1]
      /\ \E done \in 0 .. 2 : Insert(op, done)
      /\ cut' = cut \union {op}
      /\ UNCHANGED <<ledger, cursor, statusCache, disputes, lost>>

\* Mutant: the cursor moves as far as the account reaches by now.
EndPoll_Latest(s) ==
  /\ poll[s].pc = "page" /\ poll[s].next > poll[s].upto
  /\ cursor' = Len(ledger)
  /\ poll' = [poll EXCEPT ![s] = Idle]
  /\ UNCHANGED <<ledger, tables, statusCache, disputes, faults, lost, cut>>

\* Mutant: overlapping polls add up their pages instead of naming an operation.
EndPoll_Counts(s) ==
  /\ poll[s].pc = "page" /\ poll[s].next > poll[s].upto
  /\ cursor' = cursor + (poll[s].upto - poll[s].from)
  /\ poll' = [poll EXCEPT ![s] = Idle]
  /\ UNCHANGED <<ledger, tables, statusCache, disputes, faults, lost, cut>>

\* The page is done.  Only a page with operations moves the cursor; a poll that
\* started earlier and ends later moves it back.
EndPoll(s) ==
  /\ poll[s].pc = "page" /\ poll[s].next > poll[s].upto
  /\ cursor' = IF poll[s].upto > poll[s].from THEN poll[s].upto ELSE cursor
  /\ poll' = [poll EXCEPT ![s] = Idle]
  /\ UNCHANGED <<ledger, tables, statusCache, disputes, faults, lost, cut>>

\* The process dies and starts again: everything in memory is gone, so the next
\* poll reads the account from its first operation.
Crash ==
  /\ faults < MaxFaults
  /\ faults' = faults + 1
  /\ cursor' = 0
  /\ poll' = [s \in Polls |-> Idle]
  /\ cache' = [t \in Tenants |-> NotCached]
  /\ filling' = cache'
  /\ lost' = {}
  /\ UNCHANGED <<ledger, tables, disputes, cut>>

----------------------------------------------------------------------------
(* GET /api/leases/:leaseId/status.  A hit changes nothing.  index.js gives   *)
(* the cache no Redis client, so it is a Map that ignores 'EX', 3600; nothing *)
(* calls invalidateLeaseCache.                                               *)

\* A request misses the cache and reads the row.
GetLeaseStatus(t) ==
  /\ cache[t] = NotCached /\ filling[t] = NotCached
  /\ filling' = [filling EXCEPT ![t] = lease[t].status]
  /\ UNCHANGED <<ledger, cursor, poll, tables, cache, disputes, faults, lost, cut>>

\* It keeps what it read, whatever happened to the row since.
FillCache(t) ==
  /\ filling[t] # NotCached
  /\ cache' = [cache EXCEPT ![t] = filling[t]]
  /\ filling' = [filling EXCEPT ![t] = NotCached]
  /\ UNCHANGED <<ledger, cursor, poll, tables, disputes, faults, lost, cut>>

----------------------------------------------------------------------------

PollStep(s) == FetchHorizon(s) \/ ProcessPaymentOperation(s) \/ EndPoll(s)

Next ==
  \/ \E from \in Tenants \union {Other} : Pay(from)
  \/ \E t \in Tenants : ToggleMatched(t) \/ GetLeaseStatus(t) \/ FillCache(t)
  \/ \E s \in Polls : StartPoll(s) \/ PollStep(s)
  \/ \E s \in Polls : FetchHorizonFails(s) \/ InsertPaymentFails(s) \/ UpdateLeaseFails(s)
  \/ Crash

\* cron keeps starting polls (an overlapping one only while the earlier ones
\* last), Horizon answers or fails within the request's timeout, the loop runs
\* on, and tenants keep opening the app.
Fairness ==
  /\ \A s \in Polls : WF_vars(StartPoll(s)) /\ WF_vars(PollStep(s))
  /\ \A t \in Tenants : WF_vars(GetLeaseStatus(t)) /\ WF_vars(FillCache(t))

Spec == Init /\ [][Next]_vars
FairSpec == Spec /\ Fairness

----------------------------------------------------------------------------
(* Properties *)

\* The type invariant: cursors and pages lie within the account's history, and a
\* row names an operation and the lease of its sender, or none.
TypeOK ==
  LET Ops == 1 .. Len(ledger) IN
  /\ ledger \in Seq(Tenants \union {Other}) /\ Len(ledger) <= MaxOps
  /\ cursor \in {0} \union Ops
  /\ poll \in [Polls -> [pc : {"idle", "asked", "page"}, from : {0} \union Ops,
                         upto : {0} \union Ops, next : 0 .. MaxOps + 1]]
  /\ \A row \in ToSet(history) : row.op \in Ops /\ row.lease \in {ledger[row.op], NoLease}
  /\ lease \in [Tenants -> [matched : BOOLEAN, status : PaymentStatus,
                            last : {0} \union Ops, credit : 0 .. MaxOps]]
  /\ cache \in [Tenants -> PaymentStatus \union {NotCached}]
  /\ filling \in [Tenants -> PaymentStatus \union {NotCached}]
  /\ disputes \in 0 .. MaxDisputes /\ faults \in 0 .. MaxFaults
  /\ lost \subseteq cut /\ cut \subseteq Ops

\* A payment is recorded once and earns its purchase credit at most once, however
\* polls overlap and restarts re-read the account (_processPaymentOperation).
\* Unless a statement threw, payments are recorded in the account's order, the
\* lease shows the latest one matched to it, and every one has earned its credit.
\* The status cache may be behind the lease, never ahead of it.
BooksAgree ==
  /\ Cardinality(Recorded) = Len(history)
  /\ \A t \in Tenants : lease[t].credit <= Cardinality(RowsOf(t))
  /\ cut = {} =>
       /\ \A i, j \in DOMAIN history : i < j => history[i].op < history[j].op
       /\ \A t \in Tenants :
            /\ (lease[t].status = "paid") = (RowsOf(t) # {})
            /\ \A row \in RowsOf(t) : row.op <= lease[t].last
            /\ t \in Buyers => lease[t].credit = Cardinality(RowsOf(t))
  /\ \A t \in Tenants : cache[t] = "paid" => lease[t].status = "paid"

\* The cursor passes no payment that was not tried: one it leaves behind
\* unrecorded is one whose INSERT threw since the process started (poll, which
\* moves the cursor at the end of a page, over any overlap of polls).
OnlyFailedInsertsAreSkipped ==
  \A op \in 1 .. cursor : ledger[op] \in Tenants => op \in Recorded \union lost

\* From some point on every payment on the account is recorded, except those
\* whose INSERT threw in a process that has not restarted since: overlapping
\* polls that move the cursor back, failed requests and restarts delay payments
\* and lose none.
PaymentsGetRecorded ==
  <>[](\A op \in 1 .. Len(ledger) : ledger[op] \in Tenants => op \in Recorded \union lost)
=============================================================================
