---------------------------- MODULE RentDunning ----------------------------
(***************************************************************************)
(* RentDunningSequencer together with the IoT dispatcher it calls: a tenant*)
(* who misses the rent is warned on day 1 and on day 3 and locked out on   *)
(* day 5, unless a payment aborts the sequence.                            *)
(*                                                                         *)
(* The sequencer is one Node process.  A handler runs alone up to its next *)
(* await; while it waits for Redis or for the notification service, other  *)
(* handlers run.  The daily tick reads the active sequences once and then  *)
(* works through the rows it read.                                         *)
(***************************************************************************)
EXTENDS Naturals, Sequences, FiniteSets

CONSTANTS
    Lease,
    NoLease,        \* no lease
    MaxAttempts,
    MaxJobs,
    MaxMisses,      \* bound: delinquencies of all leases together
    MaxFaults       \* bound: failed calls and crashes

ASSUME NoLeaseAssumption == NoLease \notin Lease
ASSUME DunningBounds ==
    MaxAttempts \in Nat \ {0} /\ MaxJobs \in Nat /\ MaxMisses \in Nat /\ MaxFaults \in Nat

VARIABLES
    late,       \* leases whose rent is due on chain
    misses,     \* how often each lease missed the rent
    inbox,      \* pub/sub messages on their way, per lease
    seq,        \* dunning_sequences.status, "none" without a row
    step,       \* dunning_sequences.current_step
    aged,       \* last_step_at is 48 hours ago
    starting,   \* leases whose first notice is being sent
    tickAt,     \* what runDailyTick waits for
    tickLease,  \* the row it works on
    todo,       \* the step each remaining row it read is due for, or 0
    sent,       \* notices sent, per lease
    lost,       \* leases of which a message was lost in a restart
    faults,
    job, audit, paired, lock

IoT == INSTANCE IotDispatcher

chain == <<late, misses, inbox>>
sequence == <<seq, step, aged>>
tick == <<tickAt, tickLease, todo>>
dispatcher == <<job, audit, paired, lock>>
vars == <<chain, sequence, starting, tick, sent, lost, faults, dispatcher>>

Day == {1, 3, 5}

TypeOK ==
    /\ late \subseteq Lease
    /\ misses \in [Lease -> Nat]
    /\ inbox \in [Lease -> Seq({"delinquent", "paid"})]
    /\ seq \in [Lease -> {"none", "active", "aborted", "completed"}]
    /\ step \in [Lease -> Day \union {0}]
    /\ aged \subseteq Lease
    /\ starting \subseteq Lease
    /\ tickAt \in {"idle", "notice3", "lockout", "notice5"}
    /\ tickLease \in Lease \union {NoLease}
    /\ todo \in [Lease -> {0, 3, 5}]
    /\ sent \in [Lease -> SUBSET Day]
    /\ lost \subseteq Lease
    /\ faults \in 0..MaxFaults
    /\ IoT!TypeOK

Init ==
    /\ late = {}
    /\ misses = [l \in Lease |-> 0]
    /\ inbox = [l \in Lease |-> <<>>]
    /\ seq = [l \in Lease |-> "none"]
    /\ step = [l \in Lease |-> 0]
    /\ aged = {}
    /\ starting = {}
    /\ tickAt = "idle"
    /\ tickLease = NoLease
    /\ todo = [l \in Lease |-> 0]
    /\ sent = [l \in Lease |-> {}]
    /\ lost = {}
    /\ faults = 0
    /\ IoT!Init

Fault == /\ faults < MaxFaults
         /\ faults' = faults + 1

-----------------------------------------------------------------------------
(* The chain and the clock                                                 *)

\* RentDelinquencyStarted
MissRent(l) ==
    /\ l \notin late
    /\ Cardinality({m \in Lease \X (1..MaxMisses) : m[2] <= misses[m[1]]}) < MaxMisses
    /\ late' = late \union {l}
    /\ misses' = [misses EXCEPT ![l] = @ + 1]
    /\ inbox' = [inbox EXCEPT ![l] = Append(@, "delinquent")]
    /\ UNCHANGED <<sequence, starting, tick, sent, faults, lost, dispatcher>>

\* RentPaymentExecuted
Pay(l) ==
    /\ l \in late
    /\ late' = late \ {l}
    /\ inbox' = [inbox EXCEPT ![l] = Append(@, "paid")]
    /\ UNCHANGED <<misses, sequence, starting, tick, sent, faults, lost, dispatcher>>

\* The last event the dispatcher was given for the lease.
LastEvent(l) ==
    LET ofLease == {j \in DOMAIN job : job[j].lease = l}
    IN  IF ofLease = {} THEN "grant"
        ELSE job[CHOOSE j \in ofLease : \A k \in ofLease : k <= j].event

\* LesseeAccessGranted: the protocol opens the lock again after a payment.
GrantAccess(l) ==
    /\ l \notin late
    /\ LastEvent(l) = "revoke"
    /\ IoT!Enqueue(l, "grant")
    /\ UNCHANGED <<chain, sequence, starting, tick, sent, faults, lost>>

\* 48 hours pass; a call that is being waited for does not take that long.
Age(l) ==
    /\ seq[l] = "active" /\ l \notin aged
    /\ tickAt = "idle" /\ starting = {}
    /\ \A k \in Lease : inbox[k] = <<>>
    /\ aged' = aged \union {l}
    /\ UNCHANGED <<chain, seq, step, starting, tick, sent, faults, lost, dispatcher>>

-----------------------------------------------------------------------------
(* The event handlers                                                      *)

Received(l, m) ==
    /\ inbox[l] # <<>> /\ Head(inbox[l]) = m
    /\ inbox' = [inbox EXCEPT ![l] = Tail(@)]
    /\ UNCHANGED <<late, misses>>

\* The row is inserted and the first notice goes out.
startDunningSequence(l) ==
    /\ Received(l, "delinquent")
    /\ seq[l] = "none"
    /\ seq' = [seq EXCEPT ![l] = "active"]
    /\ step' = [step EXCEPT ![l] = 1]
    /\ starting' = starting \union {l}
    /\ UNCHANGED <<aged, tick, sent, faults, lost, dispatcher>>

\* A sequence is active already, or the insert throws: lease_id is UNIQUE.
startDunningSequence_again(l) ==
    /\ Received(l, "delinquent")
    /\ seq[l] # "none"
    /\ UNCHANGED <<sequence, starting, tick, sent, faults, lost, dispatcher>>

\* The first notice is sent; the row is written again if it is active.
firstNotice(l) ==
    /\ l \in starting
    /\ starting' = starting \ {l}
    /\ sent' = [sent EXCEPT ![l] = @ \union {1}]
    /\ step' = IF seq[l] = "active" THEN [step EXCEPT ![l] = 1] ELSE step
    /\ UNCHANGED <<chain, seq, aged, tick, faults, lost, dispatcher>>

\* The notification service throws; the handler only logs it.
firstNotice_throws(l) ==
    /\ l \in starting
    /\ Fault
    /\ starting' = starting \ {l}
    /\ UNCHANGED <<chain, sequence, tick, sent, lost, dispatcher>>

\* Mutant: a sequence is aborted only before its second notice.
abortDunningSequence_FirstStep(l) ==
    /\ Received(l, "paid")
    /\ seq' = [seq EXCEPT ![l] = IF @ = "active" /\ step[l] = 1 THEN "aborted" ELSE @]
    /\ UNCHANGED <<step, aged, starting, tick, sent, faults, lost, dispatcher>>

\* The status of an active row changes; any other row stays.
abortDunningSequence(l) ==
    /\ Received(l, "paid")
    /\ seq' = [seq EXCEPT ![l] = IF @ = "active" THEN "aborted" ELSE @]
    /\ UNCHANGED <<step, aged, starting, tick, sent, faults, lost, dispatcher>>

-----------------------------------------------------------------------------
(* runDailyTick                                                            *)

\* Mutant: the steps are read off the clock alone.
Due_SkipsStep(l) ==
    IF seq[l] = "active" /\ l \in aged THEN IF step[l] \in {1, 3} THEN 5 ELSE 0 ELSE 0

\* Mutant: the rows that are not active are read too.
Due_AnyStatus(l) ==
    IF seq[l] # "none" /\ l \in aged
    THEN CASE step[l] = 1 -> 3 [] step[l] = 3 -> 5 [] OTHER -> 0
    ELSE 0

\* The step an active row is due for.
Due(l) ==
    IF seq[l] = "active" /\ l \in aged
    THEN CASE step[l] = 1 -> 3 [] step[l] = 3 -> 5 [] OTHER -> 0
    ELSE 0

\* The loop goes on, without an await, to a row of due whose step is due and
\* calls processStep up to its first await; without such a row the tick ends.
processStep(due) ==
    \/ \E l \in Lease :
          /\ due[l] # 0
          /\ tickAt' = IF due[l] = 3 THEN "notice3" ELSE "lockout"
          /\ tickLease' = l
          /\ todo' = [due EXCEPT ![l] = 0]
    \/ /\ \A l \in Lease : due[l] = 0
       /\ tickAt' = "idle"
       /\ tickLease' = NoLease
       /\ todo' = due

\* SELECT * FROM dunning_sequences WHERE status = 'active'
runDailyTick ==
    /\ tickAt = "idle"
    /\ \E l \in Lease : Due(l) # 0
    /\ processStep([l \in Lease |-> Due(l)])
    /\ UNCHANGED <<chain, sequence, starting, sent, faults, lost, dispatcher>>

\* Mutant: the step is counted up instead of being set to the day.
processStep_notice3_CountsUp ==
    /\ tickAt = "notice3"
    /\ sent' = [sent EXCEPT ![tickLease] = @ \union {3}]
    /\ IF seq[tickLease] = "active"
       THEN /\ step' = [step EXCEPT ![tickLease] = @ + 1]
            /\ aged' = aged \ {tickLease}
       ELSE UNCHANGED <<step, aged>>
    /\ processStep(todo)
    /\ UNCHANGED <<chain, seq, starting, faults, lost, dispatcher>>

\* The second notice is sent; the row moves on if it is still active.
processStep_notice3 ==
    /\ tickAt = "notice3"
    /\ sent' = [sent EXCEPT ![tickLease] = @ \union {3}]
    /\ IF seq[tickLease] = "active"
       THEN /\ step' = [step EXCEPT ![tickLease] = 3]
            /\ aged' = aged \ {tickLease}
       ELSE UNCHANGED <<step, aged>>
    /\ processStep(todo)
    /\ UNCHANGED <<chain, seq, starting, faults, lost, dispatcher>>

\* enqueueDispatch('LesseeAccessRevoked', ...)
processStep_lockout ==
    /\ tickAt = "lockout"
    /\ IoT!Enqueue(tickLease, "revoke")
    /\ tickAt' = "notice5"
    /\ UNCHANGED <<chain, sequence, starting, tickLease, todo, sent, faults, lost>>

\* Mutant: the row stays as it is.
processStep_notice5_NotCompleted ==
    /\ tickAt = "notice5"
    /\ sent' = [sent EXCEPT ![tickLease] = @ \union {5}]
    /\ processStep(todo)
    /\ UNCHANGED <<chain, sequence, starting, faults, lost, dispatcher>>

\* The last notice is sent; the row is completed, whatever its status is.
processStep_notice5 ==
    /\ tickAt = "notice5"
    /\ sent' = [sent EXCEPT ![tickLease] = @ \union {5}]
    /\ seq' = [seq EXCEPT ![tickLease] = "completed"]
    /\ step' = [step EXCEPT ![tickLease] = 5]
    /\ processStep(todo)
    /\ UNCHANGED <<chain, aged, starting, faults, lost, dispatcher>>

\* Mutant: the row counts as completed before the tick gives up.
runDailyTick_throws_Completes ==
    /\ tickAt \in {"notice3", "lockout", "notice5"}
    /\ Fault
    /\ tickAt' = "idle" /\ tickLease' = NoLease
    /\ todo' = [l \in Lease |-> 0]
    /\ seq' = [seq EXCEPT ![tickLease] = "completed"]
    /\ UNCHANGED <<chain, step, aged, starting, sent, lost, dispatcher>>

\* Redis or the notification service throws: the rows left are not visited.
runDailyTick_throws ==
    /\ tickAt \in {"notice3", "lockout", "notice5"}
    /\ Fault
    /\ tickAt' = "idle" /\ tickLease' = NoLease
    /\ todo' = [l \in Lease |-> 0]
    /\ UNCHANGED <<chain, sequence, starting, sent, lost, dispatcher>>

-----------------------------------------------------------------------------

\* The process restarts: handlers end where they are, messages on their way
\* are lost with the subscription, BullMQ's jobs are in Redis and stay.
Crash ==
    /\ Fault
    /\ lost' = lost \union {l \in Lease : inbox[l] # <<>>}
    /\ inbox' = [l \in Lease |-> <<>>]
    /\ starting' = {}
    /\ tickAt' = "idle" /\ tickLease' = NoLease
    /\ todo' = [l \in Lease |-> 0]
    /\ IoT!Recover
    /\ UNCHANGED <<late, misses, sequence, sent>>

Handlers(l) ==
    \/ startDunningSequence(l) \/ startDunningSequence_again(l)
    \/ firstNotice(l) \/ abortDunningSequence(l)

Tick ==
    \/ runDailyTick
    \/ processStep_notice3 \/ processStep_lockout \/ processStep_notice5

Worker(j) == /\ IoT!Take(j) \/ IoT!Act(j) \/ IoT!Deliver(j) \/ IoT!Promote(j)
             /\ UNCHANGED <<chain, sequence, starting, tick, sent, lost, faults>>

\* What is outside the process fails.
Failure ==
    \/ \E l \in Lease : firstNotice_throws(l)
    \/ runDailyTick_throws
    \/ Crash
    \/ /\ Fault
       /\ \/ \E j \in DOMAIN job : IoT!SendFails(j)
          \/ \E l \in Lease : IoT!UpdatePairing(l)
       /\ UNCHANGED <<chain, sequence, starting, tick, sent, lost>>

Next ==
    \/ \E l \in Lease : \/ MissRent(l) \/ Pay(l) \/ GrantAccess(l) \/ Age(l)
                        \/ Handlers(l)
    \/ Tick
    \/ \E j \in DOMAIN job : Worker(j)
    \/ Failure

Spec == Init /\ [][Next]_vars

-----------------------------------------------------------------------------
(* Properties                                                              *)

Revokes(l) == {j \in DOMAIN job : job[j].lease = l /\ job[j].event = "revoke"}

\* Nobody is locked out who was not sent the day-3 notice, although a notice
\* that cannot be sent ends the handler wherever it is.
WarnedBeforeLockout ==
    \A l \in Lease : Revokes(l) # {} => 3 \in sent[l]

\* A sequence is completed only when the lockout was handed to the queue and
\* the last notice was sent, however the tick was interrupted before.
CompletedIsLockedOut ==
    \A l \in Lease : seq[l] = "completed" => Revokes(l) # {} /\ 5 \in sent[l]

\* As long as nothing fails a lease is locked out once.
LockedOutOnce ==
    faults = 0 => \A l \in Lease : Cardinality(Revokes(l)) <= 1

\* A sequence that was aborted is left alone, by the tick too: only a tick
\* that had read its row before the payment can still touch it.
AbortedIsLeftAlone ==
    [][\A l \in Lease :
          seq[l] = "aborted" /\ l # tickLease /\ todo[l] = 0
             => /\ seq[l]' = "aborted" /\ Revokes(l)' = Revokes(l)
                /\ l # tickLease' /\ todo'[l] = 0]_vars

\* A lease that missed its first rent is followed up on the whole way from the
\* chain to the lock, whatever throws, restarts or backs off: the message is on
\* its way, the sequence is active, the lock is revoked, or a revocation is
\* being sent, was given up after its attempts, or found no lock to revoke.
\* Only a restart that loses the message lets it drop.
DelinquencyIsFollowedUp ==
    \A l \in Lease :
        l \in late /\ misses[l] = 1 /\ l \notin lost =>
            \/ inbox[l] # <<>>
            \/ seq[l] = "active"
            \/ lock[l] = "revoke"
            \/ \E j \in Revokes(l) : job[j].state # "done"

\* Once the messages about a lease that paid are handled its sequence is over,
\* wherever the tick is with the row it read, unless a restart lost the message.
PaymentEndsTheSequence ==
    \A l \in Lease :
        l \notin late /\ inbox[l] = <<>> /\ l \notin lost => seq[l] # "active"

\* RentDunningSequencer.js:73: "Abort an active sequence if the user pays
\* their rent".  The tick does not start the lockout of an
\* aborted sequence.
AbortedLocksNobodyOut ==
    [][\A l \in Lease :
          (tickAt' = "lockout" /\ tickLease' = l /\ tickLease # l)
             => seq[l] = "active"]_vars
=============================================================================
