-------------------------- MODULE RentDunningProofs --------------------------
(***************************************************************************)
(* Theorems about RentDunning: for any leases, queue and any number of     *)
(* failures and restarts, nobody is locked out unwarned, no sequence is    *)
(* completed without its lockout, a lease is locked out once unless        *)
(* something fails, and an aborted sequence the tick had not read is left  *)
(* alone.                                                                  *)
(***************************************************************************)
EXTENDS RentDunning, SequenceTheorems, FiniteSetTheorems, TLAPS

JobRecord ==
    [lease: Lease, event: IoT!AccessEvent, state: IoT!JobState,
     tries: 0..MaxAttempts, stalls: 0..(IoT!MaxStalled + 1)]

\* A job that can still run has an attempt left and was not stalled too often.
Fresh(k) ==
    k.state \notin IoT!Ended
       => k.tries < MaxAttempts /\ k.stalls <= IoT!MaxStalled

JobsFresh == \A j \in DOMAIN job : Fresh(job[j])

\* The row and the snapshot say that the day-3 notice was sent.
NoticedBefore ==
    \A l \in Lease : step[l] = 3 \/ todo[l] = 5 => 3 \in sent[l]

\* What the tick waits for belongs to the step of the row it works on.
TickInv ==
    /\ tickAt # "idle" => tickLease \in Lease
    /\ \A l \in Lease :
          l = tickLease =>
             /\ tickAt \in {"lockout", "notice5"} => 3 \in sent[l]
             /\ tickAt = "notice5" => Revokes(l) # {}

\* As long as nothing fails, a lease the tick is to lock out has not been
\* locked out, and one that has been is completed next.
OnceInv ==
    faults = 0 =>
        \A l \in Lease :
           /\ todo[l] # 0 => Revokes(l) = {} /\ l # tickLease
           /\ tickAt = "lockout" /\ tickLease = l => Revokes(l) = {}
           /\ Revokes(l) # {}
                => seq[l] = "completed" \/ (tickAt = "notice5" /\ tickLease = l)

Inv ==
    /\ TypeOK /\ JobsFresh
    /\ NoticedBefore /\ TickInv /\ OnceInv
    /\ WarnedBeforeLockout /\ CompletedIsLockedOut /\ LockedOutOnce

-----------------------------------------------------------------------------
(* The jobs of the queue                                                   *)

\* The jobs are the same, whatever state they are in.
SameJobs ==
    /\ Len(job') = Len(job) /\ DOMAIN job' = DOMAIN job
    /\ \A q \in DOMAIN job : job'[q].lease = job[q].lease /\ job'[q].event = job[q].event

\* Replacing a job by one of the same lease and event.
LEMMA JobUpdate ==
    ASSUME job \in Seq(JobRecord), JobsFresh, NEW j \in DOMAIN job, NEW v \in JobRecord,
           v.lease = job[j].lease, v.event = job[j].event, Fresh(v),
           job' = [job EXCEPT ![j] = v]
    PROVE  job' \in Seq(JobRecord) /\ JobsFresh' /\ SameJobs
<1>1. j \in 1..Len(job) /\ DOMAIN job = 1..Len(job)
  BY LenProperties
<1>2. job' \in Seq(JobRecord) /\ Len(job') = Len(job)
      /\ \A q \in 1..Len(job) : job'[q] = IF q = j THEN v ELSE job[q]
  BY <1>1, ExceptSeq
<1>3. DOMAIN job' = 1..Len(job')
  BY <1>2, LenProperties
<1>4. JobsFresh'
  <2>1. \A q \in DOMAIN job' : job'[q] = v \/ (q \in DOMAIN job /\ job'[q] = job[q])
    BY <1>1, <1>2, <1>3
  <2> QED BY <2>1 DEF JobsFresh, Fresh
<1>5. SameJobs
  BY <1>1, <1>2, <1>3 DEF SameJobs
<1> QED BY <1>2, <1>4, <1>5

LEMMA JobType ==
    ASSUME IoT!TypeOK
    PROVE  /\ job \in Seq(JobRecord) /\ DOMAIN job = 1..Len(job) /\ Len(job) \in Nat
           /\ \A j \in DOMAIN job : job[j] \in JobRecord
           /\ DOMAIN job \subseteq 1..MaxJobs
<1>1. job \in Seq(JobRecord)
  BY DEF IoT!TypeOK, JobRecord
<1>2. DOMAIN job = 1..Len(job) /\ Len(job) \in Nat
  BY <1>1, LenProperties
<1>3. \A j \in DOMAIN job : job[j] \in JobRecord
  BY <1>1, <1>2, ElementOfSeq
<1>4. Len(job) <= MaxJobs
  BY DEF IoT!TypeOK
<1>5. DOMAIN job \subseteq 1..MaxJobs
  BY <1>2, <1>4, DunningBounds
<1> QED BY <1>1, <1>2, <1>3, <1>5

\* What the queue's worker does to a job, and a request that fails.
LEMMA WorkerStep ==
    ASSUME IoT!TypeOK, JobsFresh, NEW j \in DOMAIN job,
           \/ IoT!Take(j) \/ IoT!Act(j) \/ IoT!Deliver(j) \/ IoT!Promote(j)
           \/ IoT!SendFails(j)
    PROVE  IoT!TypeOK' /\ JobsFresh' /\ SameJobs
<1>1. /\ job \in Seq(JobRecord) /\ job[j] \in JobRecord /\ Fresh(job[j])
      /\ j \in 1..MaxJobs
  BY JobType DEF JobsFresh
<1>2. /\ job[j].lease \in Lease /\ job[j].event \in IoT!AccessEvent
      /\ job[j].tries \in 0..MaxAttempts
  BY <1>1 DEF JobRecord
<1>3. ASSUME NEW state \in IoT!JobState, job[j].state \notin IoT!Ended,
             job' = [job EXCEPT ![j].state = state]
      PROVE  job' \in Seq(JobRecord) /\ JobsFresh' /\ SameJobs
  <2>1. PICK v : v = [job[j] EXCEPT !.state = state]
    OBVIOUS
  <2>2. /\ v \in JobRecord /\ v.lease = job[j].lease /\ v.event = job[j].event
        /\ v.tries = job[j].tries /\ v.stalls = job[j].stalls
    BY <1>1, <2>1 DEF JobRecord
  <2>3. Fresh(v)
    BY <1>1, <1>3, <2>2 DEF Fresh
  <2>4. job' = [job EXCEPT ![j] = v]
    BY <1>3, <2>1
  <2> QED BY <1>1, <2>2, <2>3, <2>4, JobUpdate
<1>4. CASE IoT!Take(j) \/ IoT!Promote(j)
  <2>1. /\ job' \in Seq(JobRecord) /\ JobsFresh' /\ SameJobs
        /\ UNCHANGED <<audit, paired, lock>>
    <3>1. {"sending", "skipped", "waiting"} \subseteq IoT!JobState
      BY DEF IoT!JobState, IoT!Ended
    <3>2. CASE IoT!Take(j)
      <4>1. job[j].state \in {"waiting", "stalled"}
        BY <3>2 DEF IoT!Take, IoT!Ready
      <4> QED BY <1>3, <3>1, <3>2, <4>1 DEF IoT!Ended, IoT!Take
    <3>3. CASE IoT!Promote(j)
      BY <1>3, <3>1, <3>3 DEF IoT!Ended, IoT!Promote
    <3> QED BY <1>4, <3>2, <3>3
  <2> QED BY <2>1 DEF IoT!TypeOK, JobRecord, SameJobs
<1>5. CASE IoT!Act(j) \/ IoT!Deliver(j)
  <2>1. {"acted", "done"} \subseteq IoT!JobState
    BY DEF IoT!JobState, IoT!Ended
  <2>2. job' \in Seq(JobRecord) /\ JobsFresh' /\ SameJobs
    BY <1>3, <1>5, <2>1 DEF IoT!Ended, IoT!Act, IoT!Deliver
  <2>3. lock' \in [Lease -> IoT!AccessEvent] /\ paired' = paired
    BY <1>2, <1>5 DEF IoT!Act, IoT!Deliver, IoT!TypeOK
  <2>4. audit' \subseteq (1..MaxJobs) \X {"success", "failed"} \X (0..MaxAttempts)
    <3>1. 0 \in 0..MaxAttempts
      BY DunningBounds
    <3> QED BY <1>1, <1>5, <3>1 DEF IoT!Act, IoT!Deliver, IoT!TypeOK
  <2> QED BY <2>2, <2>3, <2>4 DEF IoT!TypeOK, JobRecord, SameJobs
<1>6. CASE IoT!SendFails(j)
  <2>1. PICK state : state = IF job[j].tries + 1 = MaxAttempts THEN "failed" ELSE "backoff"
    OBVIOUS
  <2>2. PICK v : v = [job[j] EXCEPT !.tries = @ + 1, !.state = state]
    OBVIOUS
  <2>3. job[j].tries < MaxAttempts /\ job[j].stalls <= IoT!MaxStalled
    BY <1>1, <1>6 DEF Fresh, IoT!Ended, IoT!SendFails
  <2>4. job[j].tries + 1 \in 0..MaxAttempts
    BY <1>2, <2>3, DunningBounds
  <2>5. state \in {"failed", "backoff"} /\ state \in IoT!JobState
    BY <2>1 DEF IoT!JobState, IoT!Ended
  <2>6. /\ v \in JobRecord /\ v.lease = job[j].lease /\ v.event = job[j].event
        /\ v.tries = job[j].tries + 1 /\ v.stalls = job[j].stalls /\ v.state = state
    BY <1>1, <2>2, <2>4, <2>5 DEF JobRecord
  <2>7. Fresh(v)
    <3>1. state # "failed" => job[j].tries + 1 < MaxAttempts
      BY <2>1, <2>4, DunningBounds
    <3> QED BY <2>3, <2>6, <3>1 DEF IoT!Ended, Fresh
  <2>8. job' = [job EXCEPT ![j] = v]
    BY <1>6, <2>1, <2>2 DEF IoT!SendFails
  <2>9. job' \in Seq(JobRecord) /\ JobsFresh' /\ SameJobs
    BY <1>1, <2>6, <2>7, <2>8, JobUpdate
  <2>10. audit' \subseteq (1..MaxJobs) \X {"success", "failed"} \X (0..MaxAttempts)
    BY <1>1, <1>2, <1>6 DEF IoT!SendFails, IoT!TypeOK
  <2> QED BY <1>6, <2>9, <2>10 DEF IoT!SendFails, IoT!TypeOK, JobRecord, SameJobs
<1> QED BY <1>4, <1>5, <1>6

\* A restart puts jobs back or fails them.
LEMMA RecoverStep ==
    ASSUME IoT!TypeOK, JobsFresh, IoT!Recover
    PROVE  IoT!TypeOK' /\ JobsFresh' /\ SameJobs
<1>1. DOMAIN job = 1..Len(job) /\ Len(job) \in Nat /\ \A j \in DOMAIN job : job[j] \in JobRecord
  BY JobType
<1>2. job' = [j \in 1..Len(job) |-> job'[j]]
  BY <1>1 DEF IoT!Recover
<1>3. ASSUME NEW j \in 1..Len(job)
      PROVE  /\ job'[j] \in JobRecord /\ Fresh(job'[j])
             /\ job'[j].lease = job[j].lease /\ job'[j].event = job[j].event
  <2>1. job'[j] = IoT!Restalled(job[j]) /\ job[j] \in JobRecord /\ Fresh(job[j])
    BY <1>1 DEF IoT!Recover, JobsFresh
  <2>2. CASE job[j].state \in {"sending", "acted"}
    <3>1. PICK state : state = IF job[j].stalls = IoT!MaxStalled THEN "failed" ELSE "stalled"
      OBVIOUS
    <3>2. job'[j] = [job[j] EXCEPT !.stalls = @ + 1, !.state = state]
      BY <2>1, <2>2, <3>1 DEF IoT!Restalled
    <3>3. /\ job[j].tries < MaxAttempts /\ job[j].stalls <= IoT!MaxStalled
          /\ job[j].stalls \in 0..(IoT!MaxStalled + 1)
      BY <2>1, <2>2 DEF IoT!Ended, Fresh, JobRecord
    <3>4. /\ job[j].stalls + 1 \in 0..(IoT!MaxStalled + 1)
          /\ state # "failed" => job[j].stalls + 1 <= IoT!MaxStalled
      BY <3>1, <3>3 DEF IoT!MaxStalled
    <3>5. state \in IoT!JobState /\ state \in {"failed", "stalled"}
      BY <3>1 DEF IoT!JobState, IoT!Ended
    <3>6. /\ job'[j] \in JobRecord
          /\ job'[j].lease = job[j].lease /\ job'[j].event = job[j].event
          /\ job'[j].state = state /\ job'[j].tries = job[j].tries
          /\ job'[j].stalls = job[j].stalls + 1
      BY <2>1, <3>2, <3>4, <3>5 DEF JobRecord
    <3> QED BY <3>3, <3>4, <3>5, <3>6 DEF IoT!Ended, Fresh
  <2>3. CASE job[j].state \notin {"sending", "acted"}
    BY <2>1, <2>3 DEF IoT!Restalled
  <2> QED BY <2>2, <2>3
<1>4. job' \in [1..Len(job) -> JobRecord]
  BY <1>2, <1>3
<1>5. job' \in Seq(JobRecord)
  BY <1>1, <1>4, SeqDef
<1>6. DOMAIN job' = 1..Len(job) /\ Len(job') = Len(job)
  BY <1>1, <1>4, <1>5, LenProperties
<1>7. JobsFresh' /\ SameJobs
  <2>1. \A j \in DOMAIN job' : Fresh(job'[j])
    BY <1>3, <1>6
  <2>2. JobsFresh'
    BY <2>1 DEF JobsFresh, Fresh
  <2> QED BY <1>1, <1>3, <1>6, <2>2 DEF SameJobs
<1> QED BY <1>5, <1>6, <1>7 DEF IoT!Recover, IoT!TypeOK, JobRecord

\* The dispatcher is given another job.
LEMMA EnqueueStep ==
    ASSUME IoT!TypeOK, JobsFresh, NEW l \in Lease, NEW e \in IoT!AccessEvent,
           IoT!Enqueue(l, e)
    PROVE  /\ IoT!TypeOK' /\ JobsFresh'
           /\ \A k \in Lease :
                 Revokes(k)' = IF k = l /\ e = "revoke"
                               THEN Revokes(k) \union {Len(job) + 1} ELSE Revokes(k)
<1>1. PICK v : v = [lease |-> l, event |-> e, state |-> "waiting",
                    tries |-> 0, stalls |-> 0]
  OBVIOUS
<1>2. v \in JobRecord /\ v.lease = l /\ v.event = e /\ v.tries = 0 /\ v.stalls = 0
  <2>1. 0 \in 0..MaxAttempts /\ 0 \in 0..(IoT!MaxStalled + 1) /\ "waiting" \in IoT!JobState
    BY DunningBounds DEF IoT!MaxStalled, IoT!JobState
  <2> QED BY <1>1, <2>1 DEF JobRecord
<1>3. Fresh(v)
  BY <1>2, DunningBounds DEF Fresh, IoT!MaxStalled
<1>4. job' = Append(job, v) /\ Len(job) < MaxJobs /\ UNCHANGED <<audit, paired, lock>>
  BY <1>1 DEF IoT!Enqueue
<1>5. job \in Seq(JobRecord) /\ DOMAIN job = 1..Len(job) /\ Len(job) \in Nat
  BY JobType
<1>6. /\ job' \in Seq(JobRecord) /\ Len(job') = Len(job) + 1
      /\ \A j \in 1..Len(job) : job'[j] = job[j]
      /\ job'[Len(job) + 1] = v
  BY <1>2, <1>4, <1>5, AppendProperties
<1>7. DOMAIN job' = 1..(Len(job) + 1)
  BY <1>6, LenProperties
<1>8. IoT!TypeOK'
  BY <1>4, <1>5, <1>6, DunningBounds DEF IoT!TypeOK, JobRecord
<1>9. \A j \in DOMAIN job' : (j \in DOMAIN job /\ job'[j] = job[j])
                               \/ (j = Len(job) + 1 /\ job'[j] = v)
  BY <1>5, <1>6, <1>7
<1>10. JobsFresh'
  BY <1>3, <1>9 DEF JobsFresh, Fresh
<1>11. DOMAIN job \subseteq DOMAIN job' /\ Len(job) + 1 \in DOMAIN job'
  BY <1>5, <1>7
<1>12. ASSUME NEW k \in Lease
       PROVE  Revokes(k)' = IF k = l /\ e = "revoke"
                            THEN Revokes(k) \union {Len(job) + 1} ELSE Revokes(k)
  <2>1. Len(job) + 1 \notin DOMAIN job
    BY <1>5
  <2>2. \A j \in DOMAIN job : job'[j] = job[j]
    BY <1>5, <1>6
  <2> QED BY <1>2, <1>6, <1>9, <1>11, <2>1, <2>2 DEF Revokes
<1> QED BY <1>8, <1>10, <1>12

\* What the worker does leaves the revocations as they are.
LEMMA RevokesKept == ASSUME SameJobs, NEW l \in Lease PROVE Revokes(l)' = Revokes(l)
  BY DEF SameJobs, Revokes

-----------------------------------------------------------------------------
(* The tick                                                                *)

\* Where the tick goes, from a snapshot of which every row due for the lockout
\* was sent the day-3 notice.
LEMMA TickGoesOn ==
    ASSUME NEW due \in [Lease -> {0, 3, 5}], processStep(due)
    PROVE  /\ tickAt' \in {"idle", "notice3", "lockout"}
           /\ tickLease' \in Lease \union {NoLease}
           /\ tickAt' # "idle" => tickLease' \in Lease /\ due[tickLease'] # 0
           /\ tickAt' = "idle" => tickLease' = NoLease
           /\ tickAt' = "lockout" => due[tickLease'] = 5
           /\ todo' \in [Lease -> {0, 3, 5}]
           /\ \A l \in Lease : todo'[l] # 0 => todo'[l] = due[l] /\ l # tickLease'
  BY NoLeaseAssumption DEF processStep

\* The steps read off the rows.
LEMMA DueRows ==
    ASSUME TypeOK, NEW l \in Lease
    PROVE  /\ Due(l) \in {0, 3, 5}
           /\ Due(l) # 0 => seq[l] = "active"
           /\ Due(l) = 5 => step[l] = 3
  BY DEF Due

-----------------------------------------------------------------------------
(* The initial state and the steps                                         *)

LEMMA InitInv == Init => Inv
<1> SUFFICES ASSUME Init PROVE Inv
  OBVIOUS
<1>1. job = <<>> /\ DOMAIN job = {} /\ job \in Seq(JobRecord) /\ Len(job) = 0
  BY EmptySeq DEF Init, IoT!Init
<1>2. \A l \in Lease : Revokes(l) = {}
  BY <1>1 DEF Revokes
<1>3. IoT!TypeOK
  <2>1. paired \subseteq Lease /\ audit = {} /\ lock \in [Lease -> IoT!AccessEvent]
    BY DEF Init, IoT!Init, IoT!AccessEvent
  <2> QED BY <1>1, <2>1, DunningBounds DEF IoT!TypeOK, JobRecord
<1>4. inbox \in [Lease -> Seq({"delinquent", "paid"})]
  BY EmptySeq DEF Init
<1>5. misses \in [Lease -> Nat] /\ faults \in 0..MaxFaults
  BY DunningBounds DEF Init
<1>6. TypeOK
  BY <1>3, <1>4, <1>5 DEF Init, TypeOK
<1>7. JobsFresh
  BY <1>1 DEF JobsFresh
<1>8. NoticedBefore /\ TickInv /\ OnceInv
  BY <1>2 DEF Init, NoticedBefore, TickInv, OnceInv
<1>9. WarnedBeforeLockout /\ CompletedIsLockedOut
  BY <1>2 DEF Init, WarnedBeforeLockout, CompletedIsLockedOut
<1>10. LockedOutOnce
  <2>1. Cardinality({}) = 0
    BY FS_EmptySet
  <2> QED BY <1>2, <2>1 DEF LockedOutOnce
<1> QED BY <1>6, <1>7, <1>8, <1>9, <1>10 DEF Inv

LEMMA DispatcherKept ==
    ASSUME Inv, UNCHANGED dispatcher
    PROVE  /\ IoT!TypeOK' /\ JobsFresh'
           /\ \A l \in Lease : Revokes(l)' = Revokes(l)
  BY DEF Inv, TypeOK, dispatcher, IoT!TypeOK, JobsFresh, Fresh, Revokes

\* A fault stays within its bound, and is remembered.
LEMMA FaultType == ASSUME TypeOK, Fault PROVE faults' \in 0..MaxFaults /\ faults' # 0
  BY DunningBounds DEF TypeOK, Fault

LEMMA OutsideStep ==
    ASSUME Inv, NEW l \in Lease, MissRent(l) \/ Pay(l) \/ GrantAccess(l) \/ Age(l)
    PROVE  Inv'
<1>1. ASSUME MissRent(l) PROVE Inv'
  <2>1. IoT!TypeOK' /\ JobsFresh' /\ \A k \in Lease : Revokes(k)' = Revokes(k)
    BY <1>1, DispatcherKept DEF MissRent
  <2>2. TypeOK'
    <3>1. misses' \in [Lease -> Nat] /\ late' \subseteq Lease
      BY <1>1 DEF MissRent, Inv, TypeOK
    <3>2. inbox' \in [Lease -> Seq({"delinquent", "paid"})]
      BY <1>1 DEF MissRent, Inv, TypeOK
    <3> QED BY <1>1, <2>1, <3>1, <3>2 DEF MissRent, Inv, TypeOK, sequence, tick
  <2>3. NoticedBefore' /\ TickInv'
    BY <1>1, <2>1 DEF MissRent, Inv, TypeOK, NoticedBefore, TickInv, sequence, tick
  <2>4. OnceInv' /\ LockedOutOnce'
    BY <1>1, <2>1 DEF MissRent, Inv, OnceInv, LockedOutOnce, sequence, tick
  <2>5. WarnedBeforeLockout' /\ CompletedIsLockedOut'
    BY <1>1, <2>1
       DEF MissRent, Inv, TypeOK, WarnedBeforeLockout, CompletedIsLockedOut, sequence
  <2> QED BY <2>1, <2>2, <2>3, <2>4, <2>5 DEF Inv
<1>2. ASSUME Pay(l) PROVE Inv'
  <2>1. IoT!TypeOK' /\ JobsFresh' /\ \A k \in Lease : Revokes(k)' = Revokes(k)
    BY <1>2, DispatcherKept DEF Pay
  <2>2. TypeOK'
    BY <1>2, <2>1 DEF Pay, Inv, TypeOK, chain, sequence, tick
  <2>3. NoticedBefore' /\ TickInv'
    BY <1>2, <2>1 DEF Pay, Inv, TypeOK, NoticedBefore, TickInv, sequence, tick
  <2>4. OnceInv' /\ LockedOutOnce'
    BY <1>2, <2>1 DEF Pay, Inv, OnceInv, LockedOutOnce, sequence, tick
  <2>5. WarnedBeforeLockout' /\ CompletedIsLockedOut'
    BY <1>2, <2>1
       DEF Pay, Inv, TypeOK, WarnedBeforeLockout, CompletedIsLockedOut, sequence
  <2> QED BY <2>1, <2>2, <2>3, <2>4, <2>5 DEF Inv
<1>3. ASSUME GrantAccess(l) PROVE Inv'
  <2>1. IoT!TypeOK' /\ JobsFresh' /\ \A k \in Lease : Revokes(k)' = Revokes(k)
    BY <1>3, EnqueueStep DEF GrantAccess, Inv, TypeOK, IoT!AccessEvent
  <2>2. TypeOK'
    BY <1>3, <2>1 DEF GrantAccess, Inv, TypeOK, chain, sequence, tick
  <2>3. NoticedBefore' /\ TickInv'
    BY <1>3, <2>1 DEF GrantAccess, Inv, TypeOK, NoticedBefore, TickInv, sequence, tick
  <2>4. OnceInv' /\ LockedOutOnce'
    BY <1>3, <2>1 DEF GrantAccess, Inv, OnceInv, LockedOutOnce, sequence, tick
  <2>5. WarnedBeforeLockout' /\ CompletedIsLockedOut'
    BY <1>3, <2>1
       DEF GrantAccess, Inv, TypeOK, WarnedBeforeLockout, CompletedIsLockedOut, sequence
  <2> QED BY <2>1, <2>2, <2>3, <2>4, <2>5 DEF Inv
<1>4. ASSUME Age(l) PROVE Inv'
  <2>1. IoT!TypeOK' /\ JobsFresh' /\ \A k \in Lease : Revokes(k)' = Revokes(k)
    BY <1>4, DispatcherKept DEF Age
  <2>2. TypeOK'
    BY <1>4, <2>1 DEF Age, Inv, TypeOK, chain, sequence, tick
  <2>3. NoticedBefore' /\ TickInv'
    BY <1>4, <2>1 DEF Age, Inv, TypeOK, NoticedBefore, TickInv, sequence, tick
  <2>4. OnceInv' /\ LockedOutOnce'
    BY <1>4, <2>1 DEF Age, Inv, OnceInv, LockedOutOnce, sequence, tick
  <2>5. WarnedBeforeLockout' /\ CompletedIsLockedOut'
    BY <1>4, <2>1
       DEF Age, Inv, TypeOK, WarnedBeforeLockout, CompletedIsLockedOut, sequence
  <2> QED BY <2>1, <2>2, <2>3, <2>4, <2>5 DEF Inv
<1> QED BY <1>1, <1>2, <1>3, <1>4

LEMMA HandlerStep ==
    ASSUME Inv, NEW l \in Lease, Handlers(l) \/ firstNotice_throws(l)
    PROVE  Inv'
<1>1. ASSUME startDunningSequence(l) PROVE Inv'
  <2>1. IoT!TypeOK' /\ JobsFresh' /\ \A k \in Lease : Revokes(k)' = Revokes(k)
    BY <1>1, DispatcherKept DEF startDunningSequence, Received
  <2>2. TypeOK'
    <3>1. inbox' \in [Lease -> Seq({"delinquent", "paid"})]
      BY <1>1 DEF startDunningSequence, Received, Inv, TypeOK
    <3>2. seq' \in [Lease -> {"none", "active", "aborted", "completed"}]
      BY <1>1 DEF startDunningSequence, Inv, TypeOK
    <3>3. step' \in [Lease -> Day \union {0}]
      BY <1>1 DEF startDunningSequence, Inv, TypeOK, Day
    <3> QED BY <1>1, <2>1, <3>1, <3>2, <3>3
         DEF startDunningSequence, Received, Inv, TypeOK, tick
  <2>3. NoticedBefore' /\ TickInv'
    BY <1>1, <2>1
       DEF startDunningSequence, Received, Inv, TypeOK, NoticedBefore, TickInv, sequence, tick
  <2>4. OnceInv' /\ LockedOutOnce'
    BY <1>1, <2>1
       DEF startDunningSequence, Received, Inv, OnceInv, LockedOutOnce, sequence, tick
  <2>5. WarnedBeforeLockout' /\ CompletedIsLockedOut'
    BY <1>1, <2>1
       DEF startDunningSequence, Received, Inv, TypeOK, WarnedBeforeLockout, CompletedIsLockedOut, sequence
  <2> QED BY <2>1, <2>2, <2>3, <2>4, <2>5 DEF Inv
<1>2. ASSUME startDunningSequence_again(l) PROVE Inv'
  <2>1. IoT!TypeOK' /\ JobsFresh' /\ \A k \in Lease : Revokes(k)' = Revokes(k)
    BY <1>2, DispatcherKept DEF startDunningSequence_again, Received
  <2>2. TypeOK'
    BY <1>2, <2>1
       DEF startDunningSequence_again, Received, Inv, TypeOK, chain, sequence, tick
  <2>3. NoticedBefore' /\ TickInv'
    BY <1>2, <2>1
       DEF startDunningSequence_again, Received, Inv, TypeOK, NoticedBefore, TickInv, sequence, tick
  <2>4. OnceInv' /\ LockedOutOnce'
    BY <1>2, <2>1
       DEF startDunningSequence_again, Received, Inv, OnceInv, LockedOutOnce, sequence, tick
  <2>5. WarnedBeforeLockout' /\ CompletedIsLockedOut'
    BY <1>2, <2>1
       DEF startDunningSequence_again, Received, Inv, TypeOK, WarnedBeforeLockout, CompletedIsLockedOut, sequence
  <2> QED BY <2>1, <2>2, <2>3, <2>4, <2>5 DEF Inv
<1>3. ASSUME firstNotice(l) PROVE Inv'
  <2>1. IoT!TypeOK' /\ JobsFresh' /\ \A k \in Lease : Revokes(k)' = Revokes(k)
    BY <1>3, DispatcherKept DEF firstNotice
  <2>2. TypeOK'
    <3>1. step' \in [Lease -> Day \union {0}] /\ sent' \in [Lease -> SUBSET Day]
      BY <1>3 DEF firstNotice, Inv, TypeOK, Day
    <3> QED BY <1>3, <2>1, <3>1 DEF firstNotice, Inv, TypeOK, chain, tick
  <2>3. NoticedBefore' /\ TickInv'
    BY <1>3, <2>1 DEF firstNotice, Inv, TypeOK, NoticedBefore, TickInv, sequence, tick
  <2>4. OnceInv' /\ LockedOutOnce'
    BY <1>3, <2>1 DEF firstNotice, Inv, OnceInv, LockedOutOnce, sequence, tick
  <2>5. WarnedBeforeLockout' /\ CompletedIsLockedOut'
    BY <1>3, <2>1
       DEF firstNotice, Inv, TypeOK, WarnedBeforeLockout, CompletedIsLockedOut, sequence
  <2> QED BY <2>1, <2>2, <2>3, <2>4, <2>5 DEF Inv
<1>4. ASSUME abortDunningSequence(l) PROVE Inv'
  <2>1. IoT!TypeOK' /\ JobsFresh' /\ \A k \in Lease : Revokes(k)' = Revokes(k)
    BY <1>4, DispatcherKept DEF abortDunningSequence, Received
  <2>2. TypeOK'
    BY <1>4, <2>1 DEF abortDunningSequence, Received, Inv, TypeOK, chain, sequence, tick
  <2>3. NoticedBefore' /\ TickInv'
    BY <1>4, <2>1
       DEF abortDunningSequence, Received, Inv, TypeOK, NoticedBefore, TickInv, sequence, tick
  <2>4. OnceInv' /\ LockedOutOnce'
    BY <1>4, <2>1
       DEF abortDunningSequence, Received, Inv, OnceInv, LockedOutOnce, sequence, tick
  <2>5. WarnedBeforeLockout' /\ CompletedIsLockedOut'
    BY <1>4, <2>1
       DEF abortDunningSequence, Received, Inv, TypeOK, WarnedBeforeLockout, CompletedIsLockedOut, sequence
  <2> QED BY <2>1, <2>2, <2>3, <2>4, <2>5 DEF Inv
<1>5. ASSUME firstNotice_throws(l) PROVE Inv'
  <2>1. IoT!TypeOK' /\ JobsFresh' /\ \A k \in Lease : Revokes(k)' = Revokes(k)
    BY <1>5, DispatcherKept DEF firstNotice_throws
  <2>2. TypeOK'
    BY <1>5, <2>1, FaultType DEF firstNotice_throws, Inv, TypeOK, chain, sequence, tick
  <2>3. NoticedBefore' /\ TickInv'
    BY <1>5, <2>1, FaultType
       DEF firstNotice_throws, Inv, TypeOK, NoticedBefore, TickInv, sequence, tick
  <2>4. OnceInv' /\ LockedOutOnce'
    BY <1>5, <2>1, FaultType
       DEF firstNotice_throws, Inv, OnceInv, LockedOutOnce, sequence, tick
  <2>5. WarnedBeforeLockout' /\ CompletedIsLockedOut'
    BY <1>5, <2>1, FaultType
       DEF firstNotice_throws, Inv, TypeOK, WarnedBeforeLockout, CompletedIsLockedOut, sequence
  <2> QED BY <2>1, <2>2, <2>3, <2>4, <2>5 DEF Inv
<1> QED BY <1>1, <1>2, <1>3, <1>4, <1>5 DEF Handlers

LEMMA TickStep == ASSUME Inv, Tick \/ runDailyTick_throws PROVE Inv'
<1>1. ASSUME runDailyTick PROVE Inv'
  <2> DEFINE due == [k \in Lease |-> Due(k)]
  <2>a. /\ due \in [Lease -> {0, 3, 5}]
        /\ \A k \in Lease : due[k] # 0 => seq[k] = "active"
        /\ \A k \in Lease : due[k] = 5 => 3 \in sent[k]
    BY DueRows DEF Inv, NoticedBefore
  <2>b. processStep(due)
    BY <1>1 DEF runDailyTick
  <2> HIDE DEF due
  <2>0. /\ tickAt' \in {"idle", "notice3", "lockout"}
        /\ tickLease' \in Lease \union {NoLease}
        /\ tickAt' # "idle" => tickLease' \in Lease /\ due[tickLease'] # 0
        /\ tickAt' = "idle" => tickLease' = NoLease
        /\ tickAt' = "lockout" => due[tickLease'] = 5
        /\ todo' \in [Lease -> {0, 3, 5}]
        /\ \A k \in Lease : todo'[k] # 0 => todo'[k] = due[k] /\ k # tickLease'
    BY <2>a, <2>b, TickGoesOn
  <2>1. IoT!TypeOK' /\ JobsFresh' /\ \A k \in Lease : Revokes(k)' = Revokes(k)
    BY <1>1, DispatcherKept DEF runDailyTick
  <2>2. TypeOK'
    BY <1>1, <2>0, <2>1 DEF runDailyTick, Inv, TypeOK, chain, sequence
  <2>3. NoticedBefore' /\ TickInv'
    BY <1>1, <2>a, <2>0, <2>1 DEF runDailyTick, Inv, NoticedBefore, TickInv, sequence
  <2>4. OnceInv' /\ LockedOutOnce'
    BY <1>1, <2>a, <2>0, <2>1
       DEF runDailyTick, Inv, OnceInv, LockedOutOnce, sequence
  <2>5. WarnedBeforeLockout' /\ CompletedIsLockedOut'
    BY <1>1, <2>1
       DEF runDailyTick, Inv, WarnedBeforeLockout, CompletedIsLockedOut, sequence
  <2> QED BY <2>1, <2>2, <2>3, <2>4, <2>5 DEF Inv
<1>2. ASSUME processStep_notice3 PROVE Inv'
  <2>0. /\ tickAt' \in {"idle", "notice3", "lockout"}
        /\ tickLease' \in Lease \union {NoLease}
        /\ tickAt' # "idle" => tickLease' \in Lease /\ todo[tickLease'] # 0
        /\ tickAt' = "idle" => tickLease' = NoLease
        /\ tickAt' = "lockout" => todo[tickLease'] = 5
        /\ todo' \in [Lease -> {0, 3, 5}]
        /\ \A k \in Lease : todo'[k] # 0 => todo'[k] = todo[k] /\ k # tickLease'
    BY <1>2, TickGoesOn DEF processStep_notice3, Inv, TypeOK
  <2>1. IoT!TypeOK' /\ JobsFresh' /\ \A k \in Lease : Revokes(k)' = Revokes(k)
    BY <1>2, DispatcherKept DEF processStep_notice3
  <2>2. TypeOK'
    <3>1. step' \in [Lease -> Day \union {0}] /\ aged' \subseteq Lease
      BY <1>2 DEF processStep_notice3, Inv, TypeOK, Day
    <3>2. sent' \in [Lease -> SUBSET Day]
      BY <1>2 DEF processStep_notice3, Inv, TypeOK, Day
    <3> QED BY <1>2, <2>0, <2>1, <3>1, <3>2 DEF processStep_notice3, Inv, TypeOK, chain
  <2>3. NoticedBefore' /\ TickInv'
    <3>1. \A k \in Lease : sent[k] \subseteq sent'[k]
      BY <1>2 DEF processStep_notice3, Inv, TypeOK
    <3>2. \A k \in Lease : step'[k] = 3 => 3 \in sent'[k]
      BY <1>2, <3>1 DEF processStep_notice3, Inv, TypeOK, NoticedBefore
    <3> QED BY <2>0, <2>1, <3>1, <3>2 DEF Inv, NoticedBefore, TickInv
  <2>4. OnceInv' /\ LockedOutOnce'
    <3>1. faults' = faults /\ tickAt = "notice3" /\ tickLease \in Lease
          /\ \A k \in Lease : seq[k] = "completed" => seq'[k] = "completed"
      BY <1>2 DEF processStep_notice3, Inv, TypeOK, TickInv
    <3> QED BY <2>0, <2>1, <3>1 DEF Inv, OnceInv, LockedOutOnce
  <2>5. WarnedBeforeLockout' /\ CompletedIsLockedOut'
    BY <1>2, <2>1
       DEF processStep_notice3, Inv, TypeOK, WarnedBeforeLockout, CompletedIsLockedOut
  <2> QED BY <2>1, <2>2, <2>3, <2>4, <2>5 DEF Inv
<1>3. ASSUME processStep_notice5 PROVE Inv'
  <2>0. /\ tickAt' \in {"idle", "notice3", "lockout"}
        /\ tickLease' \in Lease \union {NoLease}
        /\ tickAt' # "idle" => tickLease' \in Lease /\ todo[tickLease'] # 0
        /\ tickAt' = "idle" => tickLease' = NoLease
        /\ tickAt' = "lockout" => todo[tickLease'] = 5
        /\ todo' \in [Lease -> {0, 3, 5}]
        /\ \A k \in Lease : todo'[k] # 0 => todo'[k] = todo[k] /\ k # tickLease'
    BY <1>3, TickGoesOn DEF processStep_notice5, Inv, TypeOK
  <2>1. IoT!TypeOK' /\ JobsFresh' /\ \A k \in Lease : Revokes(k)' = Revokes(k)
    BY <1>3, DispatcherKept DEF processStep_notice5
  <2>2. TypeOK'
    <3>1. /\ step' \in [Lease -> Day \union {0}]
          /\ seq' \in [Lease -> {"none", "active", "aborted", "completed"}]
      BY <1>3 DEF processStep_notice5, Inv, TypeOK, Day
    <3>2. sent' \in [Lease -> SUBSET Day]
      BY <1>3 DEF processStep_notice5, Inv, TypeOK, Day
    <3> QED BY <1>3, <2>0, <2>1, <3>1, <3>2 DEF processStep_notice5, Inv, TypeOK, chain
  <2>3. NoticedBefore' /\ TickInv'
    <3>1. \A k \in Lease : sent[k] \subseteq sent'[k]
      BY <1>3 DEF processStep_notice5, Inv, TypeOK
    <3>2. \A k \in Lease : step'[k] = 3 => 3 \in sent'[k]
      BY <1>3, <3>1 DEF processStep_notice5, Inv, TypeOK, NoticedBefore
    <3> QED BY <2>0, <2>1, <3>1, <3>2 DEF Inv, NoticedBefore, TickInv
  <2>4. OnceInv' /\ LockedOutOnce'
    <3>1. faults' = faults /\ tickAt = "notice5" /\ tickLease \in Lease
          /\ \A k \in Lease : seq[k] = "completed" => seq'[k] = "completed"
      BY <1>3 DEF processStep_notice5, Inv, TypeOK, TickInv
    <3>2. seq'[tickLease] = "completed"
      BY <1>3, <3>1 DEF processStep_notice5, Inv, TypeOK
    <3> QED BY <2>0, <2>1, <3>1, <3>2 DEF Inv, OnceInv, LockedOutOnce
  <2>5. WarnedBeforeLockout' /\ CompletedIsLockedOut'
    <3>1. \A k \in Lease : sent[k] \subseteq sent'[k]
      BY <1>3 DEF processStep_notice5, Inv, TypeOK
    <3>2. tickLease \in Lease /\ 5 \in sent'[tickLease]
          /\ \A k \in Lease : k = tickLease => Revokes(k)' # {}
      BY <1>3, <2>1 DEF processStep_notice5, Inv, TypeOK, TickInv
    <3>3. \A k \in Lease : k # tickLease => seq'[k] = seq[k]
      BY <1>3 DEF processStep_notice5, Inv, TypeOK
    <3> QED BY <2>1, <3>1, <3>2, <3>3
         DEF Inv, WarnedBeforeLockout, CompletedIsLockedOut
  <2> QED BY <2>1, <2>2, <2>3, <2>4, <2>5 DEF Inv
<1>4. ASSUME runDailyTick_throws PROVE Inv'
  <2>1. IoT!TypeOK' /\ JobsFresh' /\ \A k \in Lease : Revokes(k)' = Revokes(k)
    BY <1>4, DispatcherKept DEF runDailyTick_throws
  <2>2. TypeOK'
    BY <1>4, <2>1, FaultType, NoLeaseAssumption
       DEF runDailyTick_throws, Inv, TypeOK, chain, sequence, tick
  <2>3. NoticedBefore' /\ TickInv'
    BY <1>4, <2>1, FaultType, NoLeaseAssumption
       DEF runDailyTick_throws, Inv, TypeOK, NoticedBefore, TickInv, sequence, tick
  <2>4. OnceInv' /\ LockedOutOnce'
    BY <1>4, <2>1, FaultType, NoLeaseAssumption
       DEF runDailyTick_throws, Inv, OnceInv, LockedOutOnce, sequence, tick
  <2>5. WarnedBeforeLockout' /\ CompletedIsLockedOut'
    BY <1>4, <2>1, FaultType, NoLeaseAssumption
       DEF runDailyTick_throws, Inv, TypeOK, WarnedBeforeLockout, CompletedIsLockedOut, sequence
  <2> QED BY <2>1, <2>2, <2>3, <2>4, <2>5 DEF Inv
<1>5. ASSUME processStep_lockout PROVE Inv'
  <2>1. tickLease \in Lease /\ tickAt = "lockout" /\ IoT!Enqueue(tickLease, "revoke")
    BY <1>5 DEF processStep_lockout, Inv, TickInv
  <2>2. /\ IoT!TypeOK' /\ JobsFresh'
        /\ \A k \in Lease :
              Revokes(k)' = IF k = tickLease THEN Revokes(k) \union {Len(job) + 1}
                            ELSE Revokes(k)
    BY <2>1, EnqueueStep DEF Inv, TypeOK, IoT!AccessEvent
  <2>3. TypeOK'
    BY <1>5, <2>2 DEF processStep_lockout, Inv, TypeOK, chain, sequence
  <2>4. NoticedBefore' /\ TickInv'
    BY <1>5, <2>1, <2>2 DEF processStep_lockout, Inv, NoticedBefore, TickInv, sequence
  <2>5. OnceInv' /\ LockedOutOnce'
    <3>1. faults' = faults /\ todo' = todo /\ tickLease' = tickLease
          /\ tickAt' = "notice5" /\ seq' = seq
      BY <1>5 DEF processStep_lockout, sequence
    <3>2. faults = 0 => \A k \in Lease : k = tickLease => Revokes(k)' = {Len(job) + 1}
      BY <2>1, <2>2 DEF Inv, OnceInv
    <3>3. Cardinality({Len(job) + 1}) = 1
      BY FS_Singleton
    <3>4. OnceInv'
      BY <2>1, <2>2, <3>1 DEF Inv, OnceInv
    <3>5. LockedOutOnce'
      <4>1. ASSUME faults = 0, NEW k \in Lease PROVE Cardinality(Revokes(k)') <= 1
        <5>1. CASE k = tickLease
          <6>1. Revokes(k)' = {Len(job) + 1}
            BY <3>2, <4>1, <5>1
          <6> QED BY <3>3, <6>1
        <5>2. CASE k # tickLease
          BY <2>2, <4>1, <5>2 DEF Inv, LockedOutOnce
        <5> QED BY <5>1, <5>2
      <4> QED BY <3>1, <4>1 DEF LockedOutOnce
    <3> QED BY <3>4, <3>5
  <2>6. WarnedBeforeLockout' /\ CompletedIsLockedOut'
    BY <1>5, <2>1, <2>2
       DEF processStep_lockout, Inv, TickInv, WarnedBeforeLockout, CompletedIsLockedOut,
           sequence
  <2> QED BY <2>2, <2>3, <2>4, <2>5, <2>6 DEF Inv
<1> QED BY <1>1, <1>2, <1>3, <1>4, <1>5 DEF Tick

LEMMA WorkerKeepsInv == ASSUME Inv, NEW j \in DOMAIN job, Worker(j) PROVE Inv'
<1>1. IoT!TypeOK' /\ JobsFresh' /\ \A k \in Lease : Revokes(k)' = Revokes(k)
  BY WorkerStep, RevokesKept DEF Worker, Inv, TypeOK
<1>2. TypeOK'
  BY <1>1 DEF Worker, Inv, TypeOK, chain, sequence, tick
<1>3. NoticedBefore' /\ TickInv'
  BY <1>1 DEF Worker, Inv, TypeOK, NoticedBefore, TickInv, sequence, tick
<1>4. OnceInv' /\ LockedOutOnce'
  BY <1>1 DEF Worker, Inv, OnceInv, LockedOutOnce, sequence, tick
<1>5. WarnedBeforeLockout' /\ CompletedIsLockedOut'
  BY <1>1 DEF Worker, Inv, TypeOK, WarnedBeforeLockout, CompletedIsLockedOut, sequence
<1> QED BY <1>1, <1>2, <1>3, <1>4, <1>5 DEF Inv

LEMMA FailureStep == ASSUME Inv, Failure PROVE Inv'
<1>1. ASSUME Crash PROVE Inv'
  <2>1. IoT!TypeOK' /\ JobsFresh' /\ \A k \in Lease : Revokes(k)' = Revokes(k)
    BY <1>1, RecoverStep, RevokesKept DEF Crash, Inv, TypeOK
  <2>2. TypeOK'
    BY <1>1, <2>1, FaultType, NoLeaseAssumption
       DEF Crash, Inv, TypeOK, chain, sequence, tick
  <2>3. NoticedBefore' /\ TickInv'
    BY <1>1, <2>1, FaultType, NoLeaseAssumption
       DEF Crash, Inv, TypeOK, NoticedBefore, TickInv, sequence, tick
  <2>4. OnceInv' /\ LockedOutOnce'
    BY <1>1, <2>1, FaultType, NoLeaseAssumption
       DEF Crash, Inv, OnceInv, LockedOutOnce, sequence, tick
  <2>5. WarnedBeforeLockout' /\ CompletedIsLockedOut'
    BY <1>1, <2>1, FaultType, NoLeaseAssumption
       DEF Crash, Inv, TypeOK, WarnedBeforeLockout, CompletedIsLockedOut, sequence
  <2> QED BY <2>1, <2>2, <2>3, <2>4, <2>5 DEF Inv
<1>2. ASSUME Fault, UNCHANGED <<chain, sequence, starting, tick, sent, lost>>,
             \/ \E j \in DOMAIN job : IoT!SendFails(j)
             \/ \E l \in Lease : IoT!UpdatePairing(l)
      PROVE  Inv'
  <2>1. IoT!TypeOK' /\ JobsFresh' /\ \A k \in Lease : Revokes(k)' = Revokes(k)
    <3>1. CASE \E j \in DOMAIN job : IoT!SendFails(j)
      BY <3>1, WorkerStep, RevokesKept DEF Inv, TypeOK
    <3>2. CASE \E l \in Lease : IoT!UpdatePairing(l)
      BY <3>2 DEF IoT!UpdatePairing, IoT!TypeOK, Inv, TypeOK, JobsFresh, Fresh, Revokes
    <3> QED BY <1>2, <3>1, <3>2
  <2>2. TypeOK'
    BY <1>2, <2>1, FaultType DEF Inv, TypeOK, chain, sequence, tick
  <2>3. NoticedBefore' /\ TickInv'
    BY <1>2, <2>1 DEF Inv, NoticedBefore, TickInv, sequence, tick
  <2>4. OnceInv' /\ LockedOutOnce'
    BY <1>2, FaultType DEF Inv, OnceInv, LockedOutOnce
  <2>5. WarnedBeforeLockout' /\ CompletedIsLockedOut'
    BY <1>2, <2>1 DEF Inv, WarnedBeforeLockout, CompletedIsLockedOut, sequence
  <2> QED BY <2>1, <2>2, <2>3, <2>4, <2>5 DEF Inv
<1> QED BY <1>1, <1>2, HandlerStep, TickStep DEF Failure

LEMMA InvStep == Inv /\ [Next]_vars => Inv'
<1> SUFFICES ASSUME Inv, [Next]_vars PROVE Inv'
  OBVIOUS
<1>1. CASE \E l \in Lease : \/ MissRent(l) \/ Pay(l) \/ GrantAccess(l) \/ Age(l)
                            \/ Handlers(l)
  BY <1>1, OutsideStep, HandlerStep
<1>2. CASE Tick
  BY <1>2, TickStep
<1>3. CASE \E j \in DOMAIN job : Worker(j)
  BY <1>3, WorkerKeepsInv
<1>4. CASE Failure
  BY <1>4, FailureStep
<1>5. CASE UNCHANGED vars
  <2>1. IoT!TypeOK' /\ JobsFresh' /\ \A k \in Lease : Revokes(k)' = Revokes(k)
    BY <1>5, DispatcherKept DEF vars
  <2>2. TypeOK'
    BY <1>5, <2>1 DEF vars, Inv, TypeOK, chain, sequence, tick
  <2>3. NoticedBefore' /\ TickInv' /\ OnceInv'
    BY <1>5, <2>1 DEF vars, Inv, NoticedBefore, TickInv, OnceInv, sequence, tick
  <2>4. WarnedBeforeLockout' /\ CompletedIsLockedOut' /\ LockedOutOnce'
    BY <1>5, <2>1
       DEF vars, Inv, WarnedBeforeLockout, CompletedIsLockedOut, LockedOutOnce, sequence
  <2> QED BY <2>1, <2>2, <2>3, <2>4 DEF Inv
<1> QED BY <1>1, <1>2, <1>3, <1>4, <1>5 DEF Next

LEMMA Invariance == Spec => []Inv
  BY InitInv, InvStep, PTL DEF Spec

-----------------------------------------------------------------------------
(* From the chain to the lock: what the messages, the row, the tick and the*)
(* queue know of a lease, for the theorems about delinquencies that are    *)
(* followed up and payments that end a sequence.                           *)

\* A lease that never missed the rent is unknown; the tick works on rows; the last message on its way
\* says whether the lease is late; after the first miss the message is on its
\* way or has become a row; and a lease that is not late has no active row once
\* its messages are handled.
MessagesOf(l) ==
    /\ misses[l] = 0 => /\ l \notin late /\ inbox[l] = <<>> /\ l \notin lost
                        /\ seq[l] = "none"
    /\ seq[l] = "none" => todo[l] = 0 /\ tickLease # l
    /\ l \notin lost /\ inbox[l] # <<>>
          => (inbox[l][Len(inbox[l])] = "paid" <=> l \notin late)
    /\ l \in late /\ misses[l] = 1 /\ l \notin lost
          => \/ inbox[l] = <<"delinquent">> /\ seq[l] = "none"
             \/ inbox[l] = <<>> /\ seq[l] \in {"active", "completed"}
    /\ l \notin late /\ inbox[l] = <<>> /\ l \notin lost => seq[l] # "active"

Messages == \A l \in Lease : MessagesOf(l)

\* Until it pays for the first time a lease has revocations only, and a lock
\* that was told of one stays revoked.
RevokedBy(k) ==
    /\ misses[k.lease] # 0
    /\ k.lease \in late /\ misses[k.lease] = 1
          => /\ k.event = "revoke"
             /\ k.state \in {"acted", "done"} => lock[k.lease] = "revoke"

Dispatches == \A j \in DOMAIN job : RevokedBy(job[j])

\* The tick goes on with rows that are there.
LEMMA TickMessages ==
    ASSUME Messages, UNCHANGED <<chain, lost>>,
           \A l \in Lease : seq[l] = "none" => todo'[l] = 0 /\ tickLease' # l,
           \A l \in Lease : seq'[l] = seq[l]
                              \/ (seq[l] # "none" /\ seq'[l] = "completed")
    PROVE  Messages'
<1> SUFFICES ASSUME NEW l \in Lease PROVE MessagesOf(l)'
  BY DEF Messages
<1>1. MessagesOf(l) /\ UNCHANGED <<late, misses, inbox, lost>>
  BY DEF Messages, chain
<1>2. seq[l] = "none" => todo'[l] = 0 /\ tickLease' # l
  OBVIOUS
<1>3. seq'[l] = seq[l] \/ (seq[l] # "none" /\ seq'[l] = "completed")
  OBVIOUS
<1> QED BY <1>1, <1>2, <1>3 DEF MessagesOf

LEMMA MessagesKept ==
    ASSUME Messages, UNCHANGED <<chain, lost, seq, tick>>
    PROVE  Messages'
<1> SUFFICES ASSUME NEW l \in Lease PROVE MessagesOf(l)'
  BY DEF Messages
<1> QED BY DEF Messages, MessagesOf, chain, tick

\* A message about one lease, or its arrival, is nothing to the others.
LEMMA OthersMessages ==
    ASSUME Inv, Messages, NEW l \in Lease, UNCHANGED <<tick, lost>>,
           \A k \in Lease : k # l =>
               /\ inbox'[k] = inbox[k] /\ misses'[k] = misses[k]
               /\ seq'[k] = seq[k] /\ (k \in late' <=> k \in late),
           MessagesOf(l)'
    PROVE  Messages'
<1> SUFFICES ASSUME NEW k \in Lease, k # l PROVE MessagesOf(k)'
  BY DEF Messages
<1>1. MessagesOf(k)
  BY DEF Messages
<1>2. /\ inbox'[k] = inbox[k] /\ misses'[k] = misses[k]
      /\ seq'[k] = seq[k] /\ (k \in late' <=> k \in late)
  OBVIOUS
<1> QED BY <1>1, <1>2 DEF MessagesOf, tick

\* A message is sent: it is the last one on its way.
LEMMA MessageSent ==
    ASSUME Inv, NEW l \in Lease, NEW m \in {"delinquent", "paid"},
           inbox' = [inbox EXCEPT ![l] = Append(@, m)]
    PROVE  /\ inbox'[l] # <<>> /\ inbox'[l][Len(inbox'[l])] = m
           /\ inbox[l] = <<>> => inbox'[l] = <<m>>
           /\ \A k \in Lease : k # l => inbox'[k] = inbox[k]
<1>1. inbox \in [Lease -> Seq({"delinquent", "paid"})]
  BY DEF Inv, TypeOK
<1>2. inbox'[l] = Append(inbox[l], m) /\ inbox[l] \in Seq({"delinquent", "paid"})
  BY <1>1
<1>3. \A k \in Lease : k # l => inbox'[k] = inbox[k]
  BY <1>1
<1>4. /\ Len(Append(inbox[l], m)) = Len(inbox[l]) + 1 /\ Len(inbox[l]) \in Nat
      /\ Append(inbox[l], m)[Len(inbox[l]) + 1] = m
  BY <1>2, AppendProperties, LenProperties
<1>5. inbox'[l] # <<>>
  BY <1>2, <1>4
<1>6. inbox[l] = <<>> => Append(inbox[l], m) = <<m>>
  OBVIOUS
<1> QED BY <1>2, <1>3, <1>4, <1>5, <1>6

\* A message is received: if others follow the last one is still the last.
LEMMA MessageReceived ==
    ASSUME Inv, NEW l \in Lease, NEW m, Received(l, m)
    PROVE  /\ inbox[l] # <<>> /\ UNCHANGED <<late, misses>>
           /\ inbox'[l] # <<>> => inbox'[l][Len(inbox'[l])] = inbox[l][Len(inbox[l])]
           /\ inbox'[l] = <<>> => inbox[l][Len(inbox[l])] = m
           /\ \A d : inbox[l] = <<d>> => d = m /\ inbox'[l] = <<>>
           /\ \A k \in Lease : k # l => inbox'[k] = inbox[k]
<1>1. inbox \in [Lease -> Seq({"delinquent", "paid"})]
  BY DEF Inv, TypeOK
<1>2. /\ inbox[l] # <<>> /\ Head(inbox[l]) = m /\ inbox'[l] = Tail(inbox[l])
      /\ inbox[l] \in Seq({"delinquent", "paid"}) /\ UNCHANGED <<late, misses>>
  BY <1>1 DEF Received
<1>3. \A k \in Lease : k # l => inbox'[k] = inbox[k]
  BY <1>1 DEF Received
<1>4. PICK s \in Seq({"delinquent", "paid"}) : s = inbox[l]
  BY <1>2
<1>5. /\ s # <<>> /\ Head(s) = s[1] /\ Len(s) \in Nat /\ Len(s) # 0
      /\ Len(Tail(s)) = Len(s) - 1
      /\ \A i \in 1..(Len(s) - 1) : Tail(s)[i] = s[i + 1]
  BY <1>2, <1>4
<1>6. Tail(s) # <<>> => Len(s) - 1 \in 1..(Len(s) - 1) /\ Tail(s)[Len(s) - 1] = s[Len(s)]
  BY <1>4, <1>5
<1>7. Tail(s) = <<>> => Len(s) = 1
  BY <1>5
<1>8. ASSUME NEW d, s = <<d>> PROVE d = Head(s) /\ Tail(s) = <<>>
  BY <1>8
<1> QED BY <1>2, <1>3, <1>4, <1>5, <1>6, <1>7, <1>8

LEMMA ChainMessages ==
    ASSUME Inv, Messages, NEW l \in Lease, MissRent(l) \/ Pay(l)
    PROVE  Messages'
<1>1. CASE MissRent(l)
  <2>1. /\ inbox'[l] # <<>> /\ inbox'[l][Len(inbox'[l])] = "delinquent"
        /\ inbox[l] = <<>> => inbox'[l] = <<"delinquent">>
        /\ \A k \in Lease : k # l => inbox'[k] = inbox[k]
    BY <1>1, MessageSent DEF MissRent
  <2>2. /\ misses'[l] = misses[l] + 1 /\ misses[l] \in Nat /\ l \in late'
        /\ \A k \in Lease : k # l => misses'[k] = misses[k] /\ (k \in late' <=> k \in late)
        /\ UNCHANGED <<seq, tick, lost>>
    BY <1>1 DEF MissRent, Inv, TypeOK, sequence
  <2>3. MessagesOf(l)
    BY DEF Messages
  <2>4. MessagesOf(l)'
    BY <2>1, <2>2, <2>3 DEF MessagesOf, tick
  <2> QED BY <2>1, <2>2, <2>4, OthersMessages
<1>2. CASE Pay(l)
  <2>1. /\ inbox'[l] # <<>> /\ inbox'[l][Len(inbox'[l])] = "paid"
        /\ \A k \in Lease : k # l => inbox'[k] = inbox[k]
    BY <1>2, MessageSent DEF Pay
  <2>2. /\ misses' = misses /\ l \notin late' /\ l \in late
        /\ \A k \in Lease : k # l => (k \in late' <=> k \in late)
        /\ UNCHANGED <<seq, tick, lost>>
    BY <1>2 DEF Pay, sequence
  <2>3. MessagesOf(l)
    BY DEF Messages
  <2>4. MessagesOf(l)'
    BY <2>1, <2>2, <2>3 DEF MessagesOf, tick
  <2> QED BY <2>1, <2>2, <2>4, OthersMessages
<1> QED BY <1>1, <1>2

LEMMA HandlerMessages ==
    ASSUME Inv, Messages, NEW l \in Lease,
           startDunningSequence(l) \/ startDunningSequence_again(l)
             \/ abortDunningSequence(l)
    PROVE  Messages'
<1>1. UNCHANGED <<tick, lost>>
  BY DEF startDunningSequence, startDunningSequence_again, abortDunningSequence
<1>2. MessagesOf(l)
  BY DEF Messages
<1>3. \A k \in Lease : k # l => seq'[k] = seq[k]
  BY DEF startDunningSequence, startDunningSequence_again, abortDunningSequence,
     sequence, Inv, TypeOK
<1>4. PICK m \in {"delinquent", "paid"} : Received(l, m)
  BY DEF startDunningSequence, startDunningSequence_again, abortDunningSequence
<1>5. /\ inbox[l] # <<>> /\ UNCHANGED <<late, misses>>
      /\ inbox'[l] # <<>> => inbox'[l][Len(inbox'[l])] = inbox[l][Len(inbox[l])]
      /\ inbox'[l] = <<>> => inbox[l][Len(inbox[l])] = m
      /\ \A d : inbox[l] = <<d>> => d = m /\ inbox'[l] = <<>>
      /\ \A k \in Lease : k # l => inbox'[k] = inbox[k]
  BY <1>4, MessageReceived
<1>6. m = Head(inbox[l])
  BY <1>4 DEF Received
<1>7. CASE startDunningSequence(l)
  <2>1. m = "delinquent" /\ seq'[l] = "active"
    BY <1>6, <1>7 DEF startDunningSequence, Received, Inv, TypeOK
  <2>2. MessagesOf(l)'
    BY <1>1, <1>2, <1>5, <2>1 DEF MessagesOf, tick
  <2> QED BY <1>1, <1>3, <1>5, <2>2, OthersMessages
<1>8. CASE startDunningSequence_again(l)
  <2>1. m = "delinquent" /\ seq'[l] = seq[l] /\ seq[l] # "none"
    BY <1>6, <1>8 DEF startDunningSequence_again, Received, sequence
  <2>2. MessagesOf(l)'
    BY <1>1, <1>2, <1>5, <2>1 DEF MessagesOf, tick
  <2> QED BY <1>1, <1>3, <1>5, <2>2, OthersMessages
<1>9. CASE abortDunningSequence(l)
  <2>1. m = "paid" /\ seq'[l] # "active" /\ (seq'[l] = "none" <=> seq[l] = "none")
    BY <1>6, <1>9 DEF abortDunningSequence, Received, Inv, TypeOK
  <2>2. MessagesOf(l)'
    BY <1>1, <1>2, <1>5, <2>1 DEF MessagesOf, tick
  <2> QED BY <1>1, <1>3, <1>5, <2>2, OthersMessages
<1> QED BY <1>7, <1>8, <1>9

LEMMA TickStepMessages ==
    ASSUME Inv, Messages, Tick \/ runDailyTick_throws
    PROVE  Messages'
<1>0. /\ UNCHANGED <<chain, lost>>
      /\ \A l \in Lease : seq[l] = "none" => todo[l] = 0 /\ tickLease # l
  BY DEF Tick, runDailyTick, processStep_notice3, processStep_lockout,
     processStep_notice5, runDailyTick_throws, Messages, MessagesOf
<1>1. CASE runDailyTick
  <2> DEFINE due == [k \in Lease |-> Due(k)]
  <2>1. /\ due \in [Lease -> {0, 3, 5}]
        /\ \A k \in Lease : seq[k] = "none" => due[k] = 0
    BY <1>0, DueRows DEF Inv
  <2>2. processStep(due) /\ UNCHANGED seq
    BY <1>1 DEF runDailyTick, sequence
  <2> HIDE DEF due
  <2>3. \A l \in Lease : seq[l] = "none" => todo'[l] = 0 /\ tickLease' # l
    BY <2>1, <2>2, TickGoesOn, NoLeaseAssumption
  <2> QED BY <1>0, <2>2, <2>3, TickMessages
<1>2. CASE processStep_notice3 \/ processStep_notice5
  <2>1. todo \in [Lease -> {0, 3, 5}] /\ processStep(todo)
    BY <1>2 DEF processStep_notice3, processStep_notice5, Inv, TypeOK
  <2>2. \A l \in Lease : seq[l] = "none" => todo'[l] = 0 /\ tickLease' # l
    BY <1>0, <2>1, TickGoesOn, NoLeaseAssumption
  <2>3. \A l \in Lease : seq'[l] = seq[l]
                           \/ (seq[l] # "none" /\ seq'[l] = "completed")
    BY <1>0, <1>2 DEF processStep_notice3, processStep_notice5, Inv, TypeOK
  <2> QED BY <1>0, <2>2, <2>3, TickMessages
<1>3. CASE processStep_lockout
  BY <1>0, <1>3, TickMessages DEF processStep_lockout, sequence
<1>4. CASE runDailyTick_throws
  BY <1>0, <1>4, TickMessages, NoLeaseAssumption DEF runDailyTick_throws, sequence
<1> QED BY <1>1, <1>2, <1>3, <1>4 DEF Tick

\* A restart loses what is on its way and remembers of which leases.
LEMMA CrashMessages == ASSUME Inv, Messages, Crash PROVE Messages'
<1> SUFFICES ASSUME NEW l \in Lease PROVE MessagesOf(l)'
  BY DEF Messages
<1>1. MessagesOf(l)
  BY DEF Messages
<1>2. /\ inbox'[l] = <<>> /\ todo'[l] = 0 /\ tickLease' # l
      /\ UNCHANGED <<late, misses, seq>>
      /\ l \in lost' <=> l \in lost \/ inbox[l] # <<>>
  BY NoLeaseAssumption DEF Crash, sequence
<1> QED BY <1>1, <1>2 DEF MessagesOf

LEMMA MessagesStep == ASSUME Inv, Messages, [Next]_vars PROVE Messages'
<1>1. CASE UNCHANGED vars
  BY <1>1, MessagesKept DEF vars, sequence
<1>2. ASSUME NEW l \in Lease, GrantAccess(l) \/ Age(l) \/ firstNotice(l)
                                \/ firstNotice_throws(l)
      PROVE  Messages'
  BY <1>2, MessagesKept DEF GrantAccess, Age, firstNotice, firstNotice_throws, sequence
<1>3. ASSUME NEW j \in DOMAIN job, Worker(j) PROVE Messages'
  BY <1>3, MessagesKept DEF Worker, sequence
<1>4. CASE Failure
  <2>1. CASE UNCHANGED <<chain, sequence, tick, lost>>
    BY <2>1, MessagesKept DEF sequence
  <2> QED BY <1>2, <1>4, <2>1, CrashMessages, TickStepMessages DEF Failure
<1>5. ASSUME NEW l \in Lease, Handlers(l) PROVE Messages'
  BY <1>2, <1>5, HandlerMessages DEF Handlers
<1> QED BY <1>1, <1>2, <1>3, <1>4, <1>5, ChainMessages, TickStepMessages DEF Next

-----------------------------------------------------------------------------
(* What the queue knows of a lease that missed the rent once               *)

\* A job keeps its lease and event; if the lock was told of it, or the job is
\* done, that is so already or the lock is told now.
LEMMA JobsMoveOn ==
    ASSUME Dispatches, SameJobs,
           \A l \in Lease : misses[l] # 0 => misses'[l] # 0,
           \A l \in Lease : l \in late' /\ misses'[l] = 1 => l \in late /\ misses[l] = 1,
           \A q \in DOMAIN job : job[q].lease \in Lease,
           \A q \in DOMAIN job :
              job'[q].state \in {"acted", "done"} =>
                 \/ job[q].state \in {"acted", "done"}
                 \/ lock'[job[q].lease] = job[q].event,
           \A l \in Lease : lock'[l] = lock[l]
              \/ \E q \in DOMAIN job : job[q].lease = l /\ lock'[l] = job[q].event
    PROVE  Dispatches'
<1> SUFFICES ASSUME NEW q \in DOMAIN job' PROVE RevokedBy(job[q])'
  BY DEF Dispatches
<1>1. q \in DOMAIN job /\ job'[q].lease = job[q].lease /\ job'[q].event = job[q].event
  BY DEF SameJobs
<1>2. RevokedBy(job[q]) /\ job[q].lease \in Lease
  BY <1>1 DEF Dispatches
<1>3. PICK l \in Lease : l = job[q].lease
  BY <1>2
<1>4. misses'[l] # 0
  BY <1>2, <1>3 DEF RevokedBy
<1>5. ASSUME l \in late', misses'[l] = 1
      PROVE  /\ job'[q].event = "revoke"
             /\ job'[q].state \in {"acted", "done"} => lock'[l] = "revoke"
  <2>1. l \in late /\ misses[l] = 1
    BY <1>5
  <2>2. \A r \in DOMAIN job : job[r].lease = l => job[r].event = "revoke"
    BY <2>1 DEF Dispatches, RevokedBy
  <2>3. lock'[l] = lock[l] \/ lock'[l] = "revoke"
    BY <2>2
  <2>4. job[q].event = "revoke"
    BY <1>1, <1>3, <2>2
  <2>5. job[q].state \in {"acted", "done"} => lock[l] = "revoke"
    BY <1>2, <1>3, <2>1 DEF RevokedBy
  <2> QED BY <1>1, <1>3, <2>3, <2>4, <2>5
<1> QED BY <1>1, <1>3, <1>4, <1>5 DEF RevokedBy

\* What the worker does to a job and the lock.
LEMMA WorkerMovesOn ==
    ASSUME Inv, NEW j \in DOMAIN job,
           \/ IoT!Take(j) \/ IoT!Act(j) \/ IoT!Deliver(j) \/ IoT!Promote(j)
           \/ IoT!SendFails(j)
    PROVE  /\ \A q \in DOMAIN job :
                 job'[q].state \in {"acted", "done"} =>
                    \/ job[q].state \in {"acted", "done"}
                    \/ lock'[job[q].lease] = job[q].event
           /\ \A l \in Lease : lock'[l] = lock[l]
                 \/ \E q \in DOMAIN job : job[q].lease = l /\ lock'[l] = job[q].event
<1>1. /\ job \in Seq(JobRecord) /\ \A q \in DOMAIN job : job[q] \in JobRecord
      /\ DOMAIN job = 1..Len(job)
      /\ lock \in [Lease -> IoT!AccessEvent]
  BY JobType DEF Inv, TypeOK, IoT!TypeOK
<1>2. ASSUME NEW st, job' = [job EXCEPT ![j].state = st]
      PROVE  \A q \in DOMAIN job : job'[q].state = IF q = j THEN st ELSE job[q].state
  <2>1. PICK v : v = [job[j] EXCEPT !.state = st]
    OBVIOUS
  <2>2. job' = [job EXCEPT ![j] = v]
    BY <1>2, <2>1
  <2>3. job[j] \in JobRecord
    BY <1>1
  <2>4. v.state = st
    BY <2>1, <2>3 DEF JobRecord
  <2>5. \A q \in DOMAIN job : job'[q] = IF q = j THEN v ELSE job[q]
    BY <2>2
  <2> QED BY <2>4, <2>5
<1>3. CASE IoT!Take(j)
  <2>1. PICK st \in {"sending", "skipped"} : job' = [job EXCEPT ![j].state = st]
    BY <1>3 DEF IoT!Take
  <2>2. \A q \in DOMAIN job : job'[q].state = IF q = j THEN st ELSE job[q].state
    BY <1>2, <2>1
  <2> QED BY <1>3, <2>1, <2>2 DEF IoT!Take
<1>4. CASE IoT!Act(j)
  <2>1. \A q \in DOMAIN job : job'[q].state = IF q = j THEN "acted" ELSE job[q].state
    BY <1>2, <1>4 DEF IoT!Act
  <2>2. PICK l \in Lease : l = job[j].lease
    BY <1>1 DEF JobRecord
  <2>3. \A k \in Lease : lock'[k] = IF k = l THEN job[j].event ELSE lock[k]
    BY <1>1, <1>4, <2>2 DEF IoT!Act
  <2> QED BY <2>1, <2>2, <2>3
<1>5. CASE IoT!Deliver(j) \/ IoT!Promote(j)
  <2>1. PICK st \in {"done", "waiting"} :
           /\ job' = [job EXCEPT ![j].state = st] /\ lock' = lock
           /\ st = "done" => job[j].state = "acted"
    BY <1>5 DEF IoT!Deliver, IoT!Promote
  <2>2. \A q \in DOMAIN job : job'[q].state = IF q = j THEN st ELSE job[q].state
    BY <1>2, <2>1
  <2> QED BY <2>1, <2>2
<1>6. CASE IoT!SendFails(j)
  <2>1. PICK st \in {"failed", "backoff"} :
           job' = [job EXCEPT ![j].tries = @ + 1, ![j].state = st]
    BY <1>6 DEF IoT!SendFails
  <2>2. PICK v : v = [job[j] EXCEPT !.tries = @ + 1, !.state = st]
    OBVIOUS
  <2>3. job' = [job EXCEPT ![j] = v]
    BY <2>1, <2>2
  <2>4. job[j] \in JobRecord
    BY <1>1
  <2>5. v.state = st
    BY <2>2, <2>4 DEF JobRecord
  <2>6. \A q \in DOMAIN job : job'[q] = IF q = j THEN v ELSE job[q]
    BY <2>3
  <2> QED BY <1>6, <2>1, <2>5, <2>6 DEF IoT!SendFails
<1> QED BY <1>3, <1>4, <1>5, <1>6

LEMMA WorkerDispatches ==
    ASSUME Inv, Dispatches, UNCHANGED <<late, misses>>, NEW j \in DOMAIN job,
           \/ IoT!Take(j) \/ IoT!Act(j) \/ IoT!Deliver(j) \/ IoT!Promote(j)
           \/ IoT!SendFails(j)
    PROVE  Dispatches'
<1>1. SameJobs
  BY WorkerStep DEF Inv, TypeOK
<1>2. \A q \in DOMAIN job : job[q].lease \in Lease
  BY JobType DEF Inv, TypeOK, JobRecord
<1> QED BY <1>1, <1>2, WorkerMovesOn, JobsMoveOn

LEMMA RecoverDispatches ==
    ASSUME Inv, Dispatches, UNCHANGED <<late, misses>>, IoT!Recover
    PROVE  Dispatches'
<1>1. SameJobs
  BY RecoverStep DEF Inv, TypeOK
<1>2. \A q \in DOMAIN job : job[q].lease \in Lease /\ job[q] \in JobRecord
  BY JobType DEF Inv, TypeOK, JobRecord
<1>3. ASSUME NEW q \in DOMAIN job, job'[q].state \in {"acted", "done"}
      PROVE  job[q].state \in {"acted", "done"}
  <2>1. job'[q] = IoT!Restalled(job[q])
    BY DEF IoT!Recover
  <2>2. CASE job[q].state \notin {"sending", "acted"}
    BY <1>3, <2>1, <2>2 DEF IoT!Restalled
  <2>3. CASE job[q].state \in {"sending", "acted"}
    <3>1. PICK st \in {"failed", "stalled"} :
             job'[q] = [job[q] EXCEPT !.stalls = @ + 1, !.state = st]
      BY <2>1, <2>3 DEF IoT!Restalled
    <3>2. job'[q].state = st
      BY <1>2, <3>1 DEF JobRecord
    <3> QED BY <1>3, <3>2
  <2> QED BY <2>2, <2>3
<1>4. lock' = lock
  BY DEF IoT!Recover
<1> QED BY <1>1, <1>2, <1>3, <1>4, JobsMoveOn

LEMMA EnqueueDispatches ==
    ASSUME Inv, Dispatches, UNCHANGED <<late, misses>>,
           NEW l \in Lease, NEW e \in IoT!AccessEvent, IoT!Enqueue(l, e),
           misses[l] # 0, e = "revoke" \/ l \notin late
    PROVE  Dispatches'
<1>1. PICK v : v = [lease |-> l, event |-> e, state |-> "waiting",
                    tries |-> 0, stalls |-> 0]
  OBVIOUS
<1>2. v.lease = l /\ v.event = e /\ v.state = "waiting" /\ v \in JobRecord
  <2>1. 0 \in 0..MaxAttempts /\ 0 \in 0..(IoT!MaxStalled + 1) /\ "waiting" \in IoT!JobState
    BY DunningBounds DEF IoT!MaxStalled, IoT!JobState
  <2> QED BY <1>1, <2>1 DEF JobRecord
<1>3. job' = Append(job, v) /\ lock' = lock
  BY <1>1 DEF IoT!Enqueue
<1>4. job \in Seq(JobRecord) /\ DOMAIN job = 1..Len(job) /\ Len(job) \in Nat
  BY JobType DEF Inv, TypeOK
<1>5. /\ job' \in Seq(JobRecord) /\ Len(job') = Len(job) + 1
      /\ \A j \in 1..Len(job) : job'[j] = job[j]
      /\ job'[Len(job) + 1] = v
  BY <1>2, <1>3, <1>4, AppendProperties
<1>6. DOMAIN job' = 1..(Len(job) + 1)
  BY <1>5, LenProperties
<1>7. \A j \in DOMAIN job' : (j \in DOMAIN job /\ job'[j] = job[j]) \/ job'[j] = v
  BY <1>4, <1>5, <1>6
<1>8. RevokedBy(v)'
  BY <1>2 DEF RevokedBy
<1>9. ASSUME NEW j \in DOMAIN job PROVE RevokedBy(job[j])
  BY DEF Dispatches
<1>10. ASSUME NEW j \in DOMAIN job' PROVE RevokedBy(job[j])'
  BY <1>2, <1>3, <1>7, <1>8, <1>9 DEF RevokedBy
<1> QED BY <1>10 DEF Dispatches

LEMMA DispatchesStep ==
    ASSUME Inv, Messages, Dispatches, [Next]_vars
    PROVE  Dispatches'
<1>0. \A q \in DOMAIN job : job[q].lease \in Lease
  BY JobType DEF Inv, TypeOK, JobRecord
<1>1. ASSUME UNCHANGED <<job, lock>>,
             \A l \in Lease : misses[l] # 0 => misses'[l] # 0,
             \A l \in Lease : l \in late' /\ misses'[l] = 1 =>
                (l \in late /\ misses[l] = 1) \/ misses[l] = 0
      PROVE  Dispatches'
  <2> SUFFICES ASSUME NEW q \in DOMAIN job PROVE RevokedBy(job[q])'
    BY <1>1 DEF Dispatches
  <2>1. RevokedBy(job[q])
    BY DEF Dispatches
  <2> QED BY <1>0, <1>1, <2>1 DEF RevokedBy
<1>2. ASSUME UNCHANGED <<job, lock, late, misses>> PROVE Dispatches'
  BY <1>1, <1>2
<1>3. ASSUME NEW l \in Lease, MissRent(l) PROVE Dispatches'
  <2>1. misses' = [misses EXCEPT ![l] = @ + 1] /\ misses \in [Lease -> Nat]
        /\ late' = late \union {l} /\ l \notin late /\ UNCHANGED <<job, lock>>
    BY <1>3 DEF MissRent, Inv, TypeOK, dispatcher
  <2>2. \A k \in Lease : misses[k] \in Nat
                           /\ misses'[k] = IF k = l THEN misses[k] + 1 ELSE misses[k]
    BY <2>1
  <2> QED BY <1>1, <2>1, <2>2
<1>4. ASSUME NEW l \in Lease, Pay(l) PROVE Dispatches'
  BY <1>1, <1>4 DEF Pay, dispatcher
<1>5. ASSUME NEW l \in Lease, GrantAccess(l) PROVE Dispatches'
  <2>1. l \notin late /\ LastEvent(l) = "revoke" /\ IoT!Enqueue(l, "grant")
        /\ UNCHANGED <<late, misses>>
    BY <1>5 DEF GrantAccess, chain
  <2>2. \E j \in DOMAIN job : job[j].lease = l
    BY <2>1 DEF LastEvent
  <2>3. misses[l] # 0
    BY <2>2 DEF Dispatches, RevokedBy
  <2> QED BY <2>1, <2>3, EnqueueDispatches DEF IoT!AccessEvent
<1>6. ASSUME NEW l \in Lease, Age(l) \/ Handlers(l) \/ firstNotice_throws(l)
      PROVE  Dispatches'
  <2>1. UNCHANGED <<job, lock, late, misses>>
    BY <1>6 DEF Age, Handlers, startDunningSequence, startDunningSequence_again,
       firstNotice, firstNotice_throws, abortDunningSequence, Received, chain, dispatcher
  <2> QED BY <1>2, <2>1
<1>7. CASE runDailyTick \/ processStep_notice3 \/ processStep_notice5
             \/ runDailyTick_throws
  BY <1>2, <1>7 DEF runDailyTick, processStep_notice3, processStep_notice5,
     runDailyTick_throws, chain, dispatcher
<1>8. CASE processStep_lockout
  <2>1. tickLease \in Lease /\ IoT!Enqueue(tickLease, "revoke")
        /\ UNCHANGED <<late, misses>>
    BY <1>8 DEF processStep_lockout, Inv, TickInv, chain
  <2>2. PICK l \in Lease : l = tickLease
    BY <2>1
  <2>3. misses[l] # 0
    BY <2>2 DEF Messages, MessagesOf
  <2> QED BY <2>1, <2>2, <2>3, EnqueueDispatches DEF IoT!AccessEvent
<1>9. ASSUME NEW j \in DOMAIN job, Worker(j) PROVE Dispatches'
  BY <1>9, WorkerDispatches DEF Worker, chain
<1>10. CASE Failure
  <2>1. CASE Crash
    BY <2>1, RecoverDispatches DEF Crash
  <2>2. ASSUME UNCHANGED chain, NEW j \in DOMAIN job, IoT!SendFails(j)
        PROVE  Dispatches'
    BY <2>2, WorkerDispatches DEF chain
  <2>3. ASSUME UNCHANGED chain, NEW l \in Lease, IoT!UpdatePairing(l)
        PROVE  Dispatches'
    BY <1>2, <2>3 DEF chain, IoT!UpdatePairing
  <2> QED BY <1>6, <1>7, <1>10, <2>1, <2>2, <2>3 DEF Failure
<1>11. CASE UNCHANGED vars
  BY <1>2, <1>11 DEF vars, chain, dispatcher
<1> QED BY <1>3, <1>4, <1>5, <1>6, <1>7, <1>8, <1>9, <1>10, <1>11 DEF Next, Tick

LEMMA FollowUp == Spec => [](Inv /\ Messages /\ Dispatches)
<1>1. Init => Messages /\ Dispatches
  <2> SUFFICES ASSUME Init PROVE Messages /\ Dispatches
    OBVIOUS
  <2>1. DOMAIN job = {}
    BY EmptySeq DEF Init, IoT!Init
  <2> QED BY <2>1, NoLeaseAssumption DEF Init, Messages, MessagesOf, Dispatches
<1>2. Inv /\ Messages /\ Dispatches /\ [Next]_vars => Messages' /\ Dispatches'
  BY MessagesStep, DispatchesStep
<1> QED BY <1>1, <1>2, Invariance, InvStep, PTL DEF Spec

-----------------------------------------------------------------------------
(* The theorems                                                            *)

\* The sequencer and the dispatcher stay in their states; in particular no job
\* is sent more than MaxAttempts times, however often it stalls.
THEOREM DunningTypeCorrect == Spec => []TypeOK
<1>1. Inv => TypeOK
  BY DEF Inv
<1> QED BY <1>1, Invariance, PTL

\* Nobody is locked out who was not sent the day-3 notice, whatever fails.
THEOREM LockoutIsWarned == Spec => []WarnedBeforeLockout
<1>1. Inv => WarnedBeforeLockout
  BY DEF Inv
<1> QED BY <1>1, Invariance, PTL

\* A completed sequence has handed its lockout to the queue and sent the last
\* notice, wherever the tick was interrupted before.
THEOREM CompletionMeansLockout == Spec => []CompletedIsLockedOut
<1>1. Inv => CompletedIsLockedOut
  BY DEF Inv
<1> QED BY <1>1, Invariance, PTL

\* As long as nothing fails, no lease is locked out twice.
THEOREM LockoutHappensOnce == Spec => []LockedOutOnce
<1>1. Inv => LockedOutOnce
  BY DEF Inv
<1> QED BY <1>1, Invariance, PTL

\* A step leaves an aborted row alone that the tick had not read.
LEMMA AbortedStep ==
    ASSUME Inv, [Next]_vars,
           NEW l \in Lease, seq[l] = "aborted", l # tickLease, todo[l] = 0
    PROVE  /\ seq[l]' = "aborted" /\ Revokes(l)' = Revokes(l)
           /\ l # tickLease' /\ todo'[l] = 0
<1>1. CASE UNCHANGED dispatcher
  <2>1. Revokes(l)' = Revokes(l)
    BY <1>1, DispatcherKept
  <2>2. CASE UNCHANGED <<seq, tick>>
    BY <2>1, <2>2 DEF tick
  <2>3. ASSUME NEW k \in Lease, startDunningSequence(k) \/ abortDunningSequence(k)
        PROVE  seq[l]' = "aborted" /\ UNCHANGED tick
    BY <2>3 DEF startDunningSequence, abortDunningSequence, Inv, TypeOK
  <2>4. CASE runDailyTick
    <3> DEFINE due == [k \in Lease |-> Due(k)]
    <3>1. due \in [Lease -> {0, 3, 5}] /\ due[l] = 0
      BY DueRows DEF Inv
    <3>2. processStep(due) /\ UNCHANGED seq
      BY <2>4 DEF runDailyTick, sequence
    <3> HIDE DEF due
    <3>3. l # tickLease' /\ todo'[l] = 0
      BY <3>1, <3>2, TickGoesOn, NoLeaseAssumption
    <3> QED BY <2>1, <3>2, <3>3
  <2>5. CASE processStep_notice3 \/ processStep_notice5
    <3>0. todo \in [Lease -> {0, 3, 5}] /\ processStep(todo)
      BY <2>5 DEF processStep_notice3, processStep_notice5, Inv, TypeOK
    <3>1. l # tickLease' /\ todo'[l] = 0
      BY <3>0, TickGoesOn, NoLeaseAssumption
    <3>2. seq'[l] = seq[l]
      BY <2>5 DEF processStep_notice3, processStep_notice5, Inv, TypeOK
    <3> QED BY <2>1, <3>1, <3>2
  <2>6. CASE runDailyTick_throws \/ Crash
    BY <2>1, <2>6, NoLeaseAssumption DEF runDailyTick_throws, Crash, sequence
  <2>7. CASE processStep_lockout
    BY <1>1, <2>7 DEF processStep_lockout, Inv, TypeOK, IoT!Enqueue, dispatcher
  <2>8. ASSUME NEW k \in Lease, MissRent(k) \/ Pay(k) \/ GrantAccess(k) \/ Age(k)
        PROVE  UNCHANGED <<seq, tick>>
    BY <2>8 DEF MissRent, Pay, GrantAccess, Age, sequence
  <2>9. ASSUME NEW k \in Lease, startDunningSequence_again(k) \/ firstNotice(k)
        PROVE  UNCHANGED <<seq, tick>>
    BY <2>9 DEF startDunningSequence_again, firstNotice, sequence
  <2>10. ASSUME NEW k \in Lease, Handlers(k)
         PROVE  seq[l]' = "aborted" /\ UNCHANGED tick
    BY <2>3, <2>9, <2>10 DEF Handlers
  <2>11. ASSUME NEW j \in DOMAIN job, Worker(j)
         PROVE  UNCHANGED <<seq, tick>>
    BY <2>11 DEF Worker, sequence
  <2>12. CASE Tick
    BY <2>4, <2>5, <2>7, <2>12 DEF Tick
  <2>13. CASE Failure
    BY <2>2, <2>6, <2>13 DEF Failure, firstNotice_throws, sequence
  <2> QED BY <2>1, <2>2, <2>8, <2>10, <2>11, <2>12, <2>13 DEF Next, vars, sequence, tick
<1>2. CASE ~UNCHANGED dispatcher
  <2>1. CASE processStep_lockout
    <3>1. tickLease \in Lease /\ IoT!Enqueue(tickLease, "revoke")
      BY <2>1 DEF processStep_lockout, Inv, TickInv
    <3>2. Revokes(l)' = Revokes(l)
      BY <3>1, EnqueueStep DEF Inv, TypeOK, IoT!AccessEvent
    <3> QED BY <2>1, <3>2 DEF processStep_lockout, sequence
  <2>2. ASSUME NEW k \in Lease, GrantAccess(k)
        PROVE  Revokes(l)' = Revokes(l) /\ UNCHANGED <<seq, tick>>
    <3>1. Revokes(l)' = Revokes(l)
      BY <2>2, EnqueueStep DEF GrantAccess, Inv, TypeOK, IoT!AccessEvent
    <3> QED BY <2>2, <3>1 DEF GrantAccess, sequence
  <2>3. ASSUME NEW j \in DOMAIN job, Worker(j)
        PROVE  Revokes(l)' = Revokes(l) /\ UNCHANGED <<seq, tick>>
    <3>1. Revokes(l)' = Revokes(l)
      BY <2>3, WorkerStep, RevokesKept DEF Worker, Inv, TypeOK
    <3> QED BY <2>3, <3>1 DEF Worker, sequence
  <2>4. CASE Failure
    <3>1. CASE Crash
      <4>1. Revokes(l)' = Revokes(l)
        BY <3>1, RecoverStep, RevokesKept DEF Crash, Inv, TypeOK
      <4> QED BY <3>1, <4>1, NoLeaseAssumption DEF Crash, sequence
    <3>2. ASSUME UNCHANGED <<chain, sequence, starting, tick, sent, lost>>,
                 \/ \E j \in DOMAIN job : IoT!SendFails(j)
                 \/ \E k \in Lease : IoT!UpdatePairing(k)
          PROVE  Revokes(l)' = Revokes(l) /\ UNCHANGED <<seq, tick>>
      <4>1. CASE \E j \in DOMAIN job : IoT!SendFails(j)
        <5>1. Revokes(l)' = Revokes(l)
          BY <4>1, WorkerStep, RevokesKept DEF Inv, TypeOK
        <5> QED BY <3>2, <5>1 DEF sequence
      <4>2. CASE \E k \in Lease : IoT!UpdatePairing(k)
        <5>1. Revokes(l)' = Revokes(l)
          BY <4>2 DEF IoT!UpdatePairing, Revokes
        <5> QED BY <3>2, <5>1 DEF sequence
      <4> QED BY <3>2, <4>1, <4>2
    <3> QED BY <1>2, <2>4, <3>1, <3>2
            DEF Failure, firstNotice_throws, runDailyTick_throws, dispatcher, tick
  <2> QED
    BY <1>2, <2>1, <2>2, <2>3, <2>4
       DEF Next, vars, dispatcher, MissRent, Pay, Age, Handlers, startDunningSequence,
           startDunningSequence_again, firstNotice, abortDunningSequence, Tick,
           runDailyTick, processStep_notice3, processStep_notice5, tick
<1> QED BY <1>1, <1>2

\* The tick leaves an aborted sequence alone unless it read the row before the
\* payment: nothing queues its lockout and nothing overwrites its status.
THEOREM AbortedStaysAlone == Spec => AbortedIsLeftAlone
<1>1. Inv /\ [Next]_vars
        => [\A l \in Lease :
              seq[l] = "aborted" /\ l # tickLease /\ todo[l] = 0
                => /\ seq[l]' = "aborted" /\ Revokes(l)' = Revokes(l)
                   /\ l # tickLease' /\ todo'[l] = 0]_vars
  BY AbortedStep
<1> QED BY <1>1, Invariance, PTL DEF Spec, AbortedIsLeftAlone

\* The sequencer only does to the dispatcher what the dispatcher allows: it adds
\* jobs of its leases, and a restart leaves each job it did not stall alone.  So
\* its specification implements that of the dispatcher.
THEOREM SequencerRunsTheDispatcher == Spec => IoT!Spec
<1>1. Init => IoT!Init
  BY DEF Init
<1>2. Inv /\ [Next]_vars => [IoT!Next]_(IoT!vars)
  <2> SUFFICES ASSUME Inv, [Next]_vars
               PROVE  IoT!Next \/ UNCHANGED dispatcher
    BY DEF dispatcher, IoT!vars
  <2>1. CASE \E l \in Lease : GrantAccess(l)
    BY <2>1 DEF GrantAccess, IoT!Next, IoT!AccessEvent
  <2>2. CASE \E l \in Lease : MissRent(l) \/ Pay(l) \/ Age(l)
    BY <2>2 DEF MissRent, Pay, Age
  <2>3. CASE \E l \in Lease : Handlers(l)
    BY <2>3 DEF Handlers, startDunningSequence, startDunningSequence_again,
       firstNotice, abortDunningSequence
  <2>4. CASE processStep_lockout
    <3>1. tickLease \in Lease
      BY <2>4 DEF Inv, TickInv, processStep_lockout
    <3> QED BY <2>4, <3>1 DEF processStep_lockout, IoT!Next, IoT!AccessEvent
  <2>5. CASE runDailyTick \/ processStep_notice3 \/ processStep_notice5
    BY <2>5 DEF runDailyTick, processStep_notice3, processStep_notice5
  <2>6. CASE \E j \in DOMAIN job : Worker(j)
    BY <2>6 DEF Worker, IoT!Next
  <2>7. CASE Failure
    BY <2>7 DEF Failure, firstNotice_throws, runDailyTick_throws, Crash, IoT!Next
  <2> QED BY <2>1, <2>2, <2>3, <2>4, <2>5, <2>6, <2>7 DEF Next, Tick, vars
<1> QED BY <1>1, <1>2, Invariance, PTL DEF Spec, IoT!Spec

\* A first delinquency is followed up from the chain to the lock for any number
\* of failures: unless a restart lost its message, it ends with the lock revoked,
\* or with a revocation that was given up or found no lock, or it is under way.
THEOREM DelinquenciesAreFollowedUp == Spec => []DelinquencyIsFollowedUp
<1>1. Inv /\ Messages /\ Dispatches => DelinquencyIsFollowedUp
  <2> SUFFICES ASSUME Inv, Messages, Dispatches, NEW l \in Lease,
                      l \in late, misses[l] = 1, l \notin lost,
                      inbox[l] = <<>>, seq[l] # "active",
                      \A j \in Revokes(l) : job[j].state = "done"
               PROVE  lock[l] = "revoke"
    BY DEF DelinquencyIsFollowedUp
  <2>1. seq[l] = "completed"
    BY DEF Messages, MessagesOf
  <2>2. PICK j \in DOMAIN job : job[j].lease = l /\ job[j].state = "done"
    BY <2>1 DEF Inv, CompletedIsLockedOut, Revokes
  <2> QED BY <2>2 DEF Dispatches, RevokedBy
<1> QED BY <1>1, FollowUp, PTL

\* A payment whose message is not lost ends the sequence, whatever fails and
\* wherever the tick is.
THEOREM PaymentsEndSequences == Spec => []PaymentEndsTheSequence
<1>1. Messages => PaymentEndsTheSequence
  BY DEF Messages, MessagesOf, PaymentEndsTheSequence
<1> QED BY <1>1, FollowUp, PTL
=============================================================================
