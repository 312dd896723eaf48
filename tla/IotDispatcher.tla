--------------------------- MODULE IotDispatcher ---------------------------
(***************************************************************************)
(* IoT_Webhook_Dispatcher: access events become jobs of a BullMQ queue; a  *)
(* worker posts each to the IoT backend, up to MaxAttempts times with      *)
(* exponential backoff, and writes an audit row per attempt.  Revocations  *)
(* have priority over grants among the jobs that wait; a job that backs    *)
(* off does not wait, so later jobs of its lease overtake it.  Up to five  *)
(* jobs are worked on at once.                                             *)
(***************************************************************************)
EXTENDS Naturals, Sequences, FiniteSets

CONSTANTS
    Lease,
    MaxAttempts,    \* defaultJobOptions.attempts (10 in the code)
    MaxJobs         \* bound: jobs of a behavior

VARIABLES
    job,            \* the jobs in the order they were added
    audit,          \* iot_audit_logs: <<job, "success" | "failed", attempt>>
    paired,         \* leases with a smart_locks row in status 'paired'
    lock            \* what the backend was last told of each lease

vars == <<job, audit, paired, lock>>

AccessEvent == {"grant", "revoke"}
\* BullMQ counts a job that found no lock as completed, like one that was sent.
Ended == {"done", "skipped", "failed"}
JobState == {"waiting", "stalled", "sending", "acted", "backoff"} \union Ended
MaxStalled == 1     \* BullMQ's maxStalledCount

TypeOK ==
    /\ job \in Seq([lease: Lease, event: AccessEvent, state: JobState,
                    tries: 0..MaxAttempts, stalls: 0..(MaxStalled + 1)])
    /\ Len(job) <= MaxJobs
    /\ audit \subseteq (1..MaxJobs) \X {"success", "failed"} \X (0..MaxAttempts)
    /\ paired \subseteq Lease
    /\ lock \in [Lease -> AccessEvent]

\* Every lease has a paired lock its tenant may open.
Init ==
    /\ job = <<>>
    /\ audit = {}
    /\ paired = Lease
    /\ lock = [l \in Lease |-> "grant"]

-----------------------------------------------------------------------------

\* enqueueDispatch(e, {leaseId: l})
Enqueue(l, e) ==
    /\ Len(job) < MaxJobs
    /\ job' = Append(job, [lease |-> l, event |-> e, state |-> "waiting",
                           tries |-> 0, stalls |-> 0])
    /\ UNCHANGED <<audit, paired, lock>>

\* The order in which the worker takes jobs: stalled ones, then by priority.
Rank(k) == CASE k.state = "stalled" -> 0
             [] k.event = "revoke"  -> 1
             [] OTHER               -> 10

Ready == {k \in DOMAIN job : job[k].state \in {"waiting", "stalled"}}

\* The worker takes a job and looks the lock up; without one it
\* completes and nothing is sent.
Take(j) ==
    /\ j \in Ready
    /\ \A k \in Ready : Rank(job[j]) <= Rank(job[k])
    /\ job' = [job EXCEPT ![j].state =
                  IF job[j].lease \in paired THEN "sending" ELSE "skipped"]
    /\ UNCHANGED <<audit, paired, lock>>

\* The backend acts on the request.
Act(j) ==
    /\ job[j].state = "sending"
    /\ lock' = [lock EXCEPT ![job[j].lease] = job[j].event]
    /\ job' = [job EXCEPT ![j].state = "acted"]
    /\ UNCHANGED <<audit, paired>>

\* Its answer, a 2xx status, arrives.
Deliver(j) ==
    /\ job[j].state = "acted"
    /\ audit' = audit \union {<<j, "success", 0>>}
    /\ job' = [job EXCEPT ![j].state = "done"]
    /\ UNCHANGED <<paired, lock>>

\* Mutant: the error is logged and not thrown again.
SendFails_Swallowed(j) ==
    /\ job[j].state \in {"sending", "acted"}
    /\ audit' = audit \union {<<j, "failed", job[j].tries>>}
    /\ job' = [job EXCEPT ![j].state = "done"]
    /\ UNCHANGED <<paired, lock>>

\* Another status, or no answer in time; the backend may have acted.
SendFails(j) ==
    /\ job[j].state \in {"sending", "acted"}
    /\ audit' = audit \union {<<j, "failed", job[j].tries>>}
    /\ job' = [job EXCEPT ![j].tries = @ + 1,
                          ![j].state = IF job[j].tries + 1 = MaxAttempts
                                       THEN "failed" ELSE "backoff"]
    /\ UNCHANGED <<paired, lock>>

\* The backoff delay is over.
Promote(j) ==
    /\ job[j].state = "backoff"
    /\ job' = [job EXCEPT ![j].state = "waiting"]
    /\ UNCHANGED <<audit, paired, lock>>

\* BullMQ puts a job back whose worker is gone, but only MaxStalled times.
Restalled(k) ==
    IF k.state \in {"sending", "acted"}
    THEN [k EXCEPT !.stalls = @ + 1,
                   !.state = IF k.stalls = MaxStalled THEN "failed" ELSE "stalled"]
    ELSE k

\* The worker's process restarts.
Recover ==
    /\ job' = [j \in DOMAIN job |-> Restalled(job[j])]
    /\ UNCHANGED <<audit, paired, lock>>

\* SmartLockGatewayService: a paired lock is registered for the lease, or the
\* pairing status of its lock changes.
UpdatePairing(l) ==
    /\ paired' = IF l \in paired THEN paired \ {l} ELSE paired \union {l}
    /\ UNCHANGED <<job, audit, lock>>

-----------------------------------------------------------------------------

\* The dispatcher by itself: jobs come from whoever enqueues them.
Next ==
    \/ \E l \in Lease, e \in AccessEvent : Enqueue(l, e)
    \/ \E j \in DOMAIN job :
          Take(j) \/ Act(j) \/ Deliver(j) \/ SendFails(j) \/ Promote(j)
    \/ Recover
    \/ \E l \in Lease : UpdatePairing(l)

Spec == Init /\ [][Next]_vars
=============================================================================
