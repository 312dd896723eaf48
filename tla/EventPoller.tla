---------------------------- MODULE EventPoller ----------------------------
(***************************************************************************)
(* pollLeaseEvents: the worker process asks the Soroban RPC server for the *)
(* contract's events past the ledger pointer kept in SQLite, hands them to *)
(* the ingestion queue one by one and moves the pointer to the last ledger *)
(* it saw.  setInterval starts a poll whether or not the one before has    *)
(* returned, so several are in flight, each with the pointer it read.  Any *)
(* exception ends the poll with an "emergency" advancement by one ledger.  *)
(*                                                                         *)
(* Events are numbered in the order of the chain.                          *)
(***************************************************************************)
EXTENDS Integers

CONSTANTS
    NumEvents,      \* the chain holds the events 1 .. NumEvents
    LedgerOf,       \* LedgerOf[i]: the ledger of event i
    Kind,           \* Kind[i]: "lease", "ignored" or "malformed"
    MaxLedger,      \* bound: the last ledger the chain closes
    Poll,           \* the polls that may be in flight together
    Resets,         \* the ledgers an operator may reset the pointer to
    MaxFaults       \* bound: failed calls, crashes, resets of the pointer

ChainEvent == 1..NumEvents
ChainLedger == 1..MaxLedger

ASSUME NumEventsAssumption == NumEvents \in Nat
ASSUME MaxLedgerAssumption == MaxLedger \in Nat
ASSUME ChainAssumption ==
    /\ LedgerOf \in [ChainEvent -> ChainLedger]
    /\ \A i, j \in ChainEvent : i <= j => LedgerOf[i] <= LedgerOf[j]
ASSUME KindAssumption == Kind \in [ChainEvent -> {"lease", "ignored", "malformed"}]
ASSUME ResetAssumption == Resets \subseteq Nat
ASSUME PollerBoundAssumption == MaxFaults \in Nat

VARIABLES
    head,       \* the last closed ledger
    pointer,    \* ingestion_ledger_tracking.last_ingested_ledger
    pc,         \* where each poll is: "idle", "fetching", "queueing"
    from,       \* startLedger of each poll
    next,       \* the next event of the poll's response
    last,       \* the last event of the poll's response
    queued,     \* how often each event was added to soroban-ingestion
    skipped,    \* ledgers an emergency advancement or a reset jumped over
    cutOff,     \* events of a ledger the last page of a poll ended inside
    faults,
    interfered  \* a poll began while another ran, or the pointer was reset

poll == <<pc, from, next, last>>
vars == <<head, pointer, poll, queued, skipped, cutOff, faults, interfered>>

TypeOK ==
    /\ head \in 0..MaxLedger
    /\ pointer \in Nat
    /\ pc \in [Poll -> {"idle", "fetching", "queueing"}]
    /\ from \in [Poll -> Nat]
    /\ next \in [Poll -> Nat]
    /\ last \in [Poll -> ChainEvent \union {0}]
    /\ queued \in [ChainEvent -> Nat]
    /\ skipped \in SUBSET Nat
    /\ cutOff \in SUBSET ChainEvent
    /\ faults \in 0..MaxFaults
    /\ interfered \in BOOLEAN

Init ==
    /\ head = 0
    /\ pointer = 0
    /\ pc = [p \in Poll |-> "idle"]
    /\ from = [p \in Poll |-> 0]
    /\ next = [p \in Poll |-> 0]
    /\ last = [p \in Poll |-> 0]
    /\ queued = [i \in ChainEvent |-> 0]
    /\ skipped = {}
    /\ cutOff = {}
    /\ faults = 0
    /\ interfered = FALSE

Fault == /\ faults < MaxFaults
         /\ faults' = faults + 1

End(p) ==
    /\ pc' = [pc EXCEPT ![p] = "idle"]
    /\ from' = [from EXCEPT ![p] = 0]
    /\ next' = [next EXCEPT ![p] = 0]
    /\ last' = [last EXCEPT ![p] = 0]

-----------------------------------------------------------------------------
(* The chain                                                               *)

\* The network closes a ledger: its events become visible.
CloseLedger ==
    /\ head < MaxLedger
    /\ head' = head + 1
    /\ UNCHANGED <<pointer, poll, queued, skipped, cutOff, faults, interfered>>

-----------------------------------------------------------------------------
(* A poll                                                                  *)

\* The pointer is read and getEvents(startLedger) is sent.
Start(p) ==
    /\ pc[p] = "idle"
    /\ pc' = [pc EXCEPT ![p] = "fetching"]
    /\ from' = [from EXCEPT ![p] = pointer + 1]
    /\ interfered' = (interfered \/ \E q \in Poll : pc[q] # "idle")
    /\ UNCHANGED <<head, pointer, next, last, queued, skipped, cutOff, faults>>

\* The visible events from ledger l on.
Found(l) == {i \in ChainEvent : l <= LedgerOf[i] /\ LedgerOf[i] <= head}

\* A response is a first part of what was found: a page, which may end in the
\* middle of a ledger.
IsPage(page, l) ==
    /\ page # {} /\ page \subseteq Found(l)
    /\ \A i \in page, j \in Found(l) :
          j < i => j \in page

\* "No new events found."
NothingNew(p) ==
    /\ pc[p] = "fetching"
    /\ Found(from[p]) = {}
    /\ End(p)
    /\ UNCHANGED <<head, pointer, queued, skipped, cutOff, faults, interfered>>

\* Mutant: the end of the response is taken for the index past its last event.
Fetched_OffByOne(p) ==
    /\ pc[p] = "fetching"
    /\ \E i, j \in ChainEvent :
          /\ i <= j /\ IsPage(i..j, from[p])
          /\ next' = [next EXCEPT ![p] = i]
          /\ last' = [last EXCEPT ![p] = j + 1]
    /\ pc' = [pc EXCEPT ![p] = "queueing"]
    /\ UNCHANGED <<head, pointer, from, queued, skipped, cutOff, faults, interfered>>

\* The response arrives.
Fetched(p) ==
    /\ pc[p] = "fetching"
    /\ \E i, j \in ChainEvent :
          /\ i <= j /\ IsPage(i..j, from[p])
          /\ next' = [next EXCEPT ![p] = i]
          /\ last' = [last EXCEPT ![p] = j]
    /\ pc' = [pc EXCEPT ![p] = "queueing"]
    /\ UNCHANGED <<head, pointer, from, queued, skipped, cutOff, faults, interfered>>

\* One round of the loop: addEvent for the four types the poller knows.
Enqueue(p) ==
    /\ pc[p] = "queueing"
    /\ next[p] <= last[p]
    /\ Kind[next[p]] # "malformed"
    /\ queued' = IF Kind[next[p]] = "lease"
                 THEN [queued EXCEPT ![next[p]] = @ + 1] ELSE queued
    /\ next' = [next EXCEPT ![p] = @ + 1]
    /\ UNCHANGED <<head, pointer, pc, from, last, skipped, cutOff, faults, interfered>>

\* What the ledger of event i holds behind it.
Rest(i) == {j \in ChainEvent : i < j /\ LedgerOf[j] = LedgerOf[i]}

\* Mutant: the pointer is moved before the last event is queued.
Finish_Early(p) ==
    /\ pc[p] = "queueing"
    /\ next[p] >= last[p]
    /\ pointer' = LedgerOf[last[p]]
    /\ cutOff' = cutOff \union Rest(last[p])
    /\ End(p)
    /\ UNCHANGED <<head, queued, skipped, faults, interfered>>

\* Mutant: the next poll starts with the last ledger again.
Finish_Again(p) ==
    /\ pc[p] = "queueing"
    /\ next[p] > last[p]
    /\ pointer' = LedgerOf[last[p]] - 1
    /\ cutOff' = cutOff \union Rest(last[p])
    /\ End(p)
    /\ UNCHANGED <<head, queued, skipped, faults, interfered>>

\* database.updateLastIngestedLedger(maxLedger), whatever the pointer is now and
\* wherever in that ledger the response ended.
Finish(p) ==
    /\ pc[p] = "queueing"
    /\ next[p] > last[p]
    /\ pointer' = LedgerOf[last[p]]
    /\ cutOff' = cutOff \union Rest(last[p])
    /\ End(p)
    /\ UNCHANGED <<head, queued, skipped, faults, interfered>>

-----------------------------------------------------------------------------
(* What ends a poll early                                                  *)

\* Mutant: the poll is only logged as failed.
EmergencyAdvance_Off(p) ==
    /\ End(p)
    /\ UNCHANGED <<head, pointer, skipped, cutOff>>

\* Mutant: the whole response is given up.
EmergencyAdvance_PastResponse(p) ==
    LET to == IF pc[p] = "queueing" THEN LedgerOf[last[p]] ELSE pointer + 1
    IN  /\ pointer' = to
        /\ skipped' = skipped \union (pointer + 1)..to
        /\ End(p)
        /\ UNCHANGED <<head, cutOff>>

\* The catch block: the pointer, read again, moves by one.
EmergencyAdvance(p) ==
    /\ pointer' = pointer + 1
    /\ skipped' = skipped \union {pointer + 1}
    /\ End(p)
    /\ UNCHANGED <<head, cutOff>>

\* A malformed event makes the loop throw, in every poll that meets it.
Malformed(p) ==
    /\ pc[p] = "queueing"
    /\ next[p] <= last[p]
    /\ Kind[next[p]] = "malformed"
    /\ EmergencyAdvance(p)
    /\ UNCHANGED <<queued, faults, interfered>>

\* SQLite, the RPC server or the initialization of the queues fails.
CallFails(p) ==
    /\ pc[p] \in {"fetching", "queueing"}
    /\ Fault
    /\ EmergencyAdvance(p)
    /\ UNCHANGED <<queued, interfered>>

\* addEvent fails; Redis may have stored the job before the reply was lost.
AddEventFails(p) ==
    /\ pc[p] = "queueing"
    /\ next[p] <= last[p]
    /\ Kind[next[p]] = "lease"
    /\ Fault
    /\ queued' = [queued EXCEPT ![next[p]] = @ + 1]
    /\ EmergencyAdvance(p)
    /\ UNCHANGED interfered

\* The catch block fails in turn: the pointer stays where it was.
AdvanceFails(p) ==
    /\ pc[p] \in {"fetching", "queueing"}
    /\ Fault
    /\ End(p)
    /\ UNCHANGED <<head, pointer, queued, skipped, cutOff, interfered>>

\* The worker process dies and is started again.
Crash ==
    /\ Fault
    /\ pc' = [p \in Poll |-> "idle"]
    /\ from' = [p \in Poll |-> 0]
    /\ next' = [p \in Poll |-> 0]
    /\ last' = [p \in Poll |-> 0]
    /\ UNCHANGED <<head, pointer, queued, skipped, cutOff, interfered>>

\* POST /admin/dlq/ledger/reset
ResetLedger(l) ==
    /\ Fault
    /\ pointer' = l
    /\ skipped' = skipped \union (pointer + 1)..l
    /\ interfered' = TRUE
    /\ UNCHANGED <<head, poll, queued, cutOff>>

-----------------------------------------------------------------------------

Fails(p) == CallFails(p) \/ AddEventFails(p) \/ AdvanceFails(p)

Next ==
    \/ CloseLedger
    \/ \E p \in Poll : \/ Start(p) \/ NothingNew(p) \/ Fetched(p)
                       \/ Enqueue(p) \/ Finish(p)
                       \/ Malformed(p) \/ Fails(p)
    \/ Crash
    \/ \E l \in Resets : ResetLedger(l)

Spec == Init /\ [][Next]_vars

\* The chain goes on, setInterval keeps starting polls, and the calls of a
\* poll return; nothing makes them fail.
FairSpec ==
    /\ Spec
    /\ WF_vars(CloseLedger)
    /\ \A p \in Poll :
          WF_vars(\/ Start(p) \/ NothingNew(p) \/ Fetched(p) \/ Enqueue(p)
                  \/ Finish(p) \/ Malformed(p))

-----------------------------------------------------------------------------
(* Properties                                                              *)

\* An event whose ledger the pointer has passed was handed to the queue,
\* however the polls overlap, fail or crash; the only exceptions are the
\* ledgers that an emergency advancement (eventPoller.js:98) or a manual
\* reset jumped over, and what a page left out of the ledger it ended in.
NothingElseIsSkipped ==
    \A i \in ChainEvent :
       Kind[i] = "lease" /\ LedgerOf[i] <= pointer
          => queued[i] > 0 \/ LedgerOf[i] \in skipped \/ i \in cutOff

Undisturbed == faults = 0 /\ ~interfered

\* One malformed event costs at most the rest of its own ledger, and a page's
\* end what it left out of that ledger: the events
\* of the ledgers around it still reach the queue, although each failing
\* poll moves the pointer by one and starts over.
BadEventStaysLocal ==
    Undisturbed =>
       \A i \in ChainEvent :
          Kind[i] = "lease" /\ LedgerOf[i] <= pointer
             => \/ queued[i] > 0 \/ i \in cutOff
                \/ \E j \in ChainEvent : /\ Kind[j] = "malformed"
                                    /\ j < i /\ LedgerOf[j] = LedgerOf[i]

\* An event no malformed event lies ahead of is queued once: a poll starts
\* over only as far back as the malformed event it met.
QueuedOnce ==
    Undisturbed =>
       \A i \in ChainEvent :
          (\A j \in ChainEvent : Kind[j] = "malformed" => LedgerOf[j] < LedgerOf[i])
             => queued[i] <= 1

\* Without overlapping polls and resets the pointer never moves back, failed
\* calls and crashes included, although Finish writes it unseen.
PointerAdvances == [][~interfered' => pointer' >= pointer]_vars

\* The poller gets past every event, a malformed one too (README.md:1816:
\* "Indexer worker never crashes permanently due to single bad ledger event").
ReachesTheEnd == <>[](\A i \in ChainEvent : LedgerOf[i] <= pointer)
=============================================================================
