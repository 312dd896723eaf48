---------------------------- MODULE EventPipeline ----------------------------
(***************************************************************************)
(* From the chain to the handlers: the poller of EventPoller hands the     *)
(* lease events it reads to the ingestion queue of DeadLetterQueue, in the *)
(* same worker process.  Each addEvent makes a job of its own, so an event *)
(* that is polled again is ingested again: the queue's events are pairs of *)
(* an event of the chain and a number.  Every poll that finds something    *)
(* starts workers of its own (initialize); Slots counts those of all.      *)
(*                                                                         *)
(* The poller goes on from a ledger pointer in SQLite (lastIngested); the  *)
(* queues set another one in Redis (pointer) that it never reads.          *)
(***************************************************************************)
EXTENDS DeadLetterQueue

CONSTANTS
    NumEvents, LedgerOf, Kind, MaxLedger, Poll, Resets,
    Copies,         \* bound: the jobs made of each lease event
    MaxPollFaults   \* bound: failed calls, crashes, resets of the poller

VARIABLES head, lastIngested, pc, from, next, last, queued, skipped, cutOff,
          pollFaults, interfered

Poller == INSTANCE EventPoller
            WITH pointer <- lastIngested, faults <- pollFaults, MaxFaults <- MaxPollFaults

poller == <<head, lastIngested, pc, from, next, last, queued, skipped, cutOff,
            pollFaults, interfered>>

LeaseEvents == {i \in 1..NumEvents : Kind[i] = "lease"}

ASSUME ChainOfThePoller ==
    /\ Poller!NumEventsAssumption /\ Poller!MaxLedgerAssumption
    /\ Poller!ChainAssumption /\ Poller!KindAssumption
    /\ Poller!ResetAssumption /\ Poller!PollerBoundAssumption
ASSUME JobsAreCopies ==
    /\ Copies \in [LeaseEvents -> Nat]
    /\ Event = UNION {{i} \X (1..Copies[i]) : i \in LeaseEvents}
    /\ \A e \in Event : Ledger[e] = LedgerOf[e[1]]

PipelineInit == Init /\ Poller!Init

\* Mutant: addEvent is not awaited, and nobody sees it fail.
pollLeaseEvents_adds_NotAwaited(p) ==
    /\ Poller!Enqueue(p) \/ Poller!AddEventFails(p)
    /\ Kind[next[p]] = "lease" /\ queued[next[p]] < Copies[next[p]]
    /\ addEvent(<<next[p], queued[next[p]] + 1>>) \/ UNCHANGED vars

\* A round of the poller's loop that calls addEvent.
pollLeaseEvents_adds(p) ==
    /\ Poller!Enqueue(p) \/ Poller!AddEventFails(p)
    /\ Kind[next[p]] = "lease" /\ queued[next[p]] < Copies[next[p]]
    /\ addEvent(<<next[p], queued[next[p]] + 1>>)

\* What else a poll does.
pollLeaseEvents(p) ==
    /\ \/ Poller!Start(p) \/ Poller!NothingNew(p) \/ Poller!Fetched(p)
       \/ Poller!Finish(p) \/ Poller!Malformed(p)
       \/ Poller!CallFails(p) \/ Poller!AdvanceFails(p)
       \/ Poller!Enqueue(p) /\ Kind[next[p]] = "ignored"
    /\ UNCHANGED vars

\* The chain, and the operator's reset.
Outside ==
    /\ Poller!CloseLedger \/ \E l \in Resets : Poller!ResetLedger(l)
    /\ UNCHANGED vars

\* The workers of the queues, their listener, and the operator's retries.
Queues ==
    /\ \/ \E e \in Event : Ingestion(e) \/ Listener(e) \/ processDlqJob(e) \/ retryDlqJob(e)
       \/ \E r \in DOMAIN retry : Retry(r)
    /\ UNCHANGED poller

\* One process, so polls and workers are gone together.
WorkerCrash == Poller!Crash /\ Crash

PipelineNext ==
    \/ \E p \in Poll : pollLeaseEvents_adds(p) \/ pollLeaseEvents(p)
    \/ Outside \/ Queues \/ WorkerCrash

PipelineSpec == PipelineInit /\ [][PipelineNext]_<<vars, poller>>

-----------------------------------------------------------------------------
(* Properties                                                              *)

\* Where the queues have a job they were given.
Kept(e) ==
    \/ Pending(e) \/ e \in handled \/ move[e] = "add"
    \/ dlq[e] # "none" \/ e \in cut

\* An event the poller's pointer has passed is on its way, was handled or is a
\* dead letter, and so is every job made of it, however jobs are repeated and
\* the process restarts: between the chain and the handlers (eventPoller.js:72,
\* dlqService.js:105) an event is lost only to an emergency advancement, a
\* reset, the end of a page, or a fault that kept its failed job out of the
\* dead letter queue.
PassedIsKept ==
    \A i \in LeaseEvents :
       LedgerOf[i] <= lastIngested
          => \/ LedgerOf[i] \in skipped \/ i \in cutOff
             \/ queued[i] > 0 /\ \A n \in 1..queued[i] : Kept(<<i, n>>)
=============================================================================
