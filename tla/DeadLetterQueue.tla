--------------------------- MODULE DeadLetterQueue ---------------------------
(***************************************************************************)
(* DlqService: three BullMQ queues in Redis.  A worker runs the ingestion  *)
(* jobs, three attempts each; an in-process listener moves the job that    *)
(* failed a third time to the dead letter queue, raises the alert and      *)
(* advances the Redis ledger pointer, one await after the other; an        *)
(* operator queues a retry of a dead letter, and the retry worker removes  *)
(* it after a success.  The workers are concurrent, a step is what happens *)
(* between two awaits, and a crash loses what is not in Redis.             *)
(***************************************************************************)
EXTENDS Integers, Sequences, FiniteSets

CONSTANTS
    Event,          \* the events given to addEvent
    Throws,         \* those of the types whose handler does not exist
    Critical,       \* those isCriticalLeaseEvent names
    Priority,       \* calculatePriority of each event; the least goes first
    Ledger,         \* the ledger of each event
    Slots,          \* the concurrency of the ingestion worker
    MaxRetries,     \* bound: retries an operator queues
    MaxFaults       \* bound: crashes and failed Redis calls

Attempts == 3
MaxStalled == 1     \* BullMQ puts a stalled job back once

ASSUME EventAssumption == Throws \subseteq Event /\ Critical \subseteq Event
ASSUME DataAssumption == Priority \in [Event -> Nat] /\ Ledger \in [Event -> Nat \ {0}]
ASSUME BoundAssumption == Slots \in Nat /\ MaxRetries \in Nat /\ MaxFaults \in Nat

VARIABLES
    job,        \* the ingestion job of each event
    tries,      \* its attemptsMade
    stalls,     \* how often its worker died
    move,       \* the next step of moveToDlq for the event
    dlq,        \* its dead letter
    retry,      \* the jobs of the retry queue, in the order of their ids
    handled,    \* events whose handler ended without an error
    alerted,    \* events sendCriticalAlert was called for
    pointer,    \* last_ingested_ledger in Redis, 0 when unset
    faults,
    cut         \* events a fault kept out of the dead letter queue

ingestion == <<job, tries, stalls>>
vars == <<ingestion, move, dlq, retry, handled, alerted, pointer, faults, cut>>

RetryJob == [event : Event, stalls : 0..MaxStalled,
             at : {"waiting", "active", "pointing", "removing", "done", "failed"}]

TypeOK ==
    /\ job \in [Event -> {"none", "waiting", "active", "pointing", "backoff",
                          "failed", "done"}]
    /\ tries \in [Event -> 0..Attempts]
    /\ stalls \in [Event -> 0..MaxStalled]
    /\ move \in [Event -> {"idle", "add", "alert", "advance"}]
    /\ dlq \in [Event -> {"none", "waiting", "active", "completed", "removed"}]
    /\ retry \in Seq(RetryJob)
    /\ Len(retry) <= MaxRetries
    /\ handled \subseteq Event /\ alerted \subseteq Critical /\ cut \subseteq Event
    /\ pointer \in {0} \union {Ledger[e] : e \in Event}
    /\ faults \in 0..MaxFaults

Init ==
    /\ job = [e \in Event |-> "none"]
    /\ tries = [e \in Event |-> 0]
    /\ stalls = [e \in Event |-> 0]
    /\ move = [e \in Event |-> "idle"]
    /\ dlq = [e \in Event |-> "none"]
    /\ retry = <<>>
    /\ handled = {} /\ alerted = {} /\ cut = {}
    /\ pointer = 0
    /\ faults = 0

Fault == /\ faults < MaxFaults
         /\ faults' = faults + 1

-----------------------------------------------------------------------------
(* The ingestion queue                                                     *)

addEvent(e) ==
    /\ job[e] = "none"
    /\ job' = [job EXCEPT ![e] = "waiting"]
    /\ UNCHANGED <<tries, stalls, move, dlq, retry, handled, alerted, pointer,
                   faults, cut>>

Running == {e \in Event : job[e] \in {"active", "pointing"}}

\* The worker takes the job of the least priority value.
Take(e) ==
    /\ Cardinality(Running) < Slots
    /\ job[e] = "waiting"
    /\ \A f \in Event : job[f] = "waiting" => Priority[e] <= Priority[f]
    /\ job' = [job EXCEPT ![e] = "active"]
    /\ UNCHANGED <<tries, stalls, move, dlq, retry, handled, alerted, pointer,
                   faults, cut>>

\* The handler of the type ends; a type the switch does not name has none.
processIngestionJob_handler(e) ==
    /\ job[e] = "active"
    /\ e \notin Throws
    /\ handled' = handled \union {e}
    /\ job' = [job EXCEPT ![e] = "pointing"]
    /\ UNCHANGED <<tries, stalls, move, dlq, retry, alerted, pointer, faults, cut>>

processIngestionJob_pointer(e) ==
    /\ job[e] = "pointing"
    /\ pointer' = Ledger[e]
    /\ job' = [job EXCEPT ![e] = "done"]
    /\ UNCHANGED <<tries, stalls, move, dlq, retry, handled, alerted, faults, cut>>

\* Mutant: one attempt too many.
AttemptFails_OneMore(e) ==
    /\ tries' = [tries EXCEPT ![e] = @ + 1]
    /\ job' = [job EXCEPT ![e] = IF tries[e] < Attempts THEN "backoff" ELSE "failed"]
    /\ move' = [move EXCEPT ![e] = IF tries[e] < Attempts THEN @ ELSE "add"]

\* Mutant: the listener waits for one more failure than there are attempts.
AttemptFails_Late(e) ==
    /\ tries' = [tries EXCEPT ![e] = @ + 1]
    /\ job' = [job EXCEPT ![e] = IF tries[e] + 1 < Attempts THEN "backoff"
                                 ELSE "failed"]
    /\ move' = [move EXCEPT ![e] = IF tries[e] >= Attempts THEN "add" ELSE @]

\* Mutant: a job that throws is put back without counting the attempt.
AttemptFails_Uncounted(e) ==
    /\ job' = [job EXCEPT ![e] = "backoff"]
    /\ UNCHANGED <<tries, move>>

\* The attempt ends with an exception; the third one calls moveToDlq.
AttemptFails(e) ==
    /\ tries' = [tries EXCEPT ![e] = @ + 1]
    /\ job' = [job EXCEPT ![e] = IF tries[e] + 1 < Attempts THEN "backoff"
                                 ELSE "failed"]
    /\ move' = [move EXCEPT ![e] = IF tries[e] + 1 < Attempts THEN @ ELSE "add"]

processIngestionJob_throws(e) ==
    /\ \/ /\ job[e] = "active"
          /\ e \in Throws
          /\ UNCHANGED faults
       \/ /\ job[e] = "pointing"
          /\ Fault
    /\ AttemptFails(e)
    /\ UNCHANGED <<stalls, dlq, retry, handled, alerted, pointer, cut>>

\* The exponential backoff is over.
Promote(e) ==
    /\ job[e] = "backoff"
    /\ job' = [job EXCEPT ![e] = "waiting"]
    /\ UNCHANGED <<tries, stalls, move, dlq, retry, handled, alerted, pointer,
                   faults, cut>>

-----------------------------------------------------------------------------
(* moveToDlq, called by the 'failed' listener                              *)

moveToDlq_add(e) ==
    /\ move[e] = "add"
    /\ dlq' = [dlq EXCEPT ![e] = "waiting"]
    /\ move' = [move EXCEPT ![e] = IF e \in Critical THEN "alert" ELSE "advance"]
    /\ UNCHANGED <<ingestion, retry, handled, alerted, pointer, faults, cut>>

moveToDlq_alert(e) ==
    /\ move[e] = "alert"
    /\ alerted' = alerted \union {e}
    /\ move' = [move EXCEPT ![e] = "advance"]
    /\ UNCHANGED <<ingestion, dlq, retry, handled, pointer, faults, cut>>

\* Mutant: the pointer is advanced although the alert is still to come.
moveToDlq_advance_Early(e) ==
    /\ move[e] \in {"alert", "advance"}
    /\ pointer' = Ledger[e]
    /\ move' = [move EXCEPT ![e] = IF @ = "alert" THEN @ ELSE "idle"]
    /\ UNCHANGED <<ingestion, dlq, retry, handled, alerted, faults, cut>>

moveToDlq_advance(e) ==
    /\ move[e] = "advance"
    /\ pointer' = Ledger[e]
    /\ move' = [move EXCEPT ![e] = "idle"]
    /\ UNCHANGED <<ingestion, dlq, retry, handled, alerted, faults, cut>>

\* A Redis call of the listener fails: nobody awaits it, it just ends.
moveToDlq_throws(e) ==
    /\ move[e] \in {"add", "advance"}
    /\ Fault
    /\ cut' = IF move[e] = "add" THEN cut \union {e} ELSE cut
    /\ move' = [move EXCEPT ![e] = "idle"]
    /\ UNCHANGED <<ingestion, dlq, retry, handled, alerted, pointer>>

-----------------------------------------------------------------------------
(* The dead letters and their retries                                      *)

\* The worker of soroban-dlq logs the dead letter and completes it.
processDlqJob(e) ==
    /\ \/ dlq[e] = "waiting" /\ dlq' = [dlq EXCEPT ![e] = "active"]
       \/ dlq[e] = "active" /\ dlq' = [dlq EXCEPT ![e] = "completed"]
    /\ UNCHANGED <<ingestion, move, retry, handled, alerted, pointer, faults, cut>>

\* Any number of times, as long as the dead letter exists.
retryDlqJob(e) ==
    /\ dlq[e] \notin {"none", "removed"}
    /\ Len(retry) < MaxRetries
    /\ retry' = Append(retry, [event |-> e, stalls |-> 0, at |-> "waiting"])
    /\ UNCHANGED <<ingestion, move, dlq, handled, alerted, pointer, faults, cut>>

RetryGoes(r, at) == retry' = [retry EXCEPT ![r].at = at]

processRetryJob_take(r) ==
    /\ retry[r].at = "waiting"
    /\ RetryGoes(r, "active")
    /\ UNCHANGED <<ingestion, move, dlq, handled, alerted, pointer, faults, cut>>

processRetryJob_handler(r) ==
    /\ retry[r].at = "active"
    /\ retry[r].event \notin Throws
    /\ handled' = handled \union {retry[r].event}
    /\ RetryGoes(r, "pointing")
    /\ UNCHANGED <<ingestion, move, dlq, alerted, pointer, faults, cut>>

processRetryJob_pointer(r) ==
    /\ retry[r].at = "pointing"
    /\ pointer' = Ledger[retry[r].event]
    /\ RetryGoes(r, "removing")
    /\ UNCHANGED <<ingestion, move, dlq, handled, alerted, faults, cut>>

\* remove() does nothing for a dead letter that is gone, and throws when the
\* worker of soroban-dlq holds its lock.
processRetryJob_remove(r) ==
    /\ retry[r].at = "removing"
    /\ dlq[retry[r].event] # "active"
    /\ dlq' = [dlq EXCEPT ![retry[r].event] = "removed"]
    /\ RetryGoes(r, "done")
    /\ UNCHANGED <<ingestion, move, handled, alerted, pointer, faults, cut>>

\* Mutant: a failed retry removes the dead letter as well.
processRetryJob_throws_Removes(r) ==
    /\ \/ /\ retry[r].at = "active" /\ retry[r].event \in Throws
          /\ UNCHANGED faults
       \/ /\ retry[r].at = "removing" /\ dlq[retry[r].event] = "active"
          /\ UNCHANGED faults
       \/ /\ retry[r].at \in {"pointing", "removing"}
          /\ Fault
    /\ dlq' = [dlq EXCEPT ![retry[r].event] = "removed"]
    /\ RetryGoes(r, "failed")
    /\ UNCHANGED <<ingestion, move, handled, alerted, pointer, cut>>

\* The one attempt of a retry ends with an exception.
processRetryJob_throws(r) ==
    /\ \/ /\ retry[r].at = "active" /\ retry[r].event \in Throws
          /\ UNCHANGED faults
       \/ /\ retry[r].at = "removing" /\ dlq[retry[r].event] = "active"
          /\ UNCHANGED faults
       \/ /\ retry[r].at \in {"pointing", "removing"}
          /\ Fault
    /\ RetryGoes(r, "failed")
    /\ UNCHANGED <<ingestion, move, dlq, handled, alerted, pointer, cut>>

-----------------------------------------------------------------------------

\* The process restarts.  BullMQ puts the jobs its workers held back, once; a
\* second time it fails them, and the listener sees fewer than three attempts.
Crash ==
    /\ Fault
    /\ job' = [e \in Event |-> IF e \notin Running THEN job[e]
                               ELSE IF stalls[e] < MaxStalled THEN "waiting"
                               ELSE "failed"]
    /\ stalls' = [e \in Event |-> IF e \in Running THEN MaxStalled ELSE stalls[e]]
    /\ cut' = cut \union {e \in Event : move[e] = "add"}
                  \union {e \in Running : stalls[e] = MaxStalled}
    /\ move' = [e \in Event |-> "idle"]
    /\ dlq' = [e \in Event |-> IF dlq[e] = "active" THEN "waiting" ELSE dlq[e]]
    /\ retry' = [r \in DOMAIN retry |->
                   IF retry[r].at \notin {"active", "pointing", "removing"}
                   THEN retry[r]
                   ELSE [retry[r] EXCEPT !.stalls = MaxStalled,
                            !.at = IF retry[r].stalls < MaxStalled
                                   THEN "waiting" ELSE "failed"]]
    /\ UNCHANGED <<tries, handled, alerted, pointer>>

Ingestion(e) ==
    \/ Take(e) \/ Promote(e)
    \/ processIngestionJob_handler(e) \/ processIngestionJob_pointer(e)
    \/ processIngestionJob_throws(e)

Listener(e) ==
    \/ moveToDlq_add(e) \/ moveToDlq_alert(e) \/ moveToDlq_advance(e)
    \/ moveToDlq_throws(e)

Retry(r) ==
    \/ processRetryJob_take(r) \/ processRetryJob_handler(r)
    \/ processRetryJob_pointer(r) \/ processRetryJob_remove(r)
    \/ processRetryJob_throws(r)

Next ==
    \/ \E e \in Event : addEvent(e) \/ Ingestion(e) \/ Listener(e)
                          \/ processDlqJob(e) \/ retryDlqJob(e)
    \/ \E r \in DOMAIN retry : Retry(r)
    \/ Crash

Spec == Init /\ [][Next]_vars

\* BullMQ's worker and the listener go on; nobody has to retry anything.
FairSpec ==
    /\ Spec
    /\ WF_vars(\E e \in Event : Ingestion(e))
    /\ \A e \in Event : WF_vars(Listener(e))

-----------------------------------------------------------------------------
(* Properties                                                              *)

Pending(e) == job[e] \in {"waiting", "active", "pointing", "backoff"}

\* An event given to addEvent is pending, was handled or is (or was) a dead
\* letter; what is lost is lost to a fault before the dead letter was written.
NothingVanishes ==
    \A e \in Event :
        job[e] = "none" \/ Pending(e) \/ e \in handled \/ move[e] = "add"
          \/ dlq[e] # "none" \/ e \in cut

\* Whatever worker, listener or retry set the Redis pointer last, it is the
\* ledger of an event that was handled, or is a dead letter somebody was
\* alerted to when it is critical.
PointerIsAccountedFor ==
    pointer # 0 =>
        \E e \in Event :
            /\ Ledger[e] = pointer
            /\ \/ e \in handled
               \/ dlq[e] # "none" /\ (e \in Critical => e \in alerted)

\* A dead letter disappears only when its event was handled after all, however
\* many retries of it race the worker of the dead letter queue.
RemovedWasHandled == \A e \in Event : dlq[e] = "removed" => e \in handled

\* Every event is handled or becomes a dead letter in the end.
EventsSettle ==
    \A e \in Event :
        (job[e] # "none") ~> (job[e] = "done" \/ dlq[e] # "none" \/ e \in cut)
=============================================================================
