------------------------- MODULE EventPollerProofs -------------------------
(***************************************************************************)
(* Nothing but an emergency advancement, a reset or the end of a page      *)
(* makes the poller pass over an event, for any chain, any pages, any      *)
(* number of overlapping polls and any number of failures.                 *)
(*                                                                         *)
(* The inductive invariant says of each poll what it knows: everything     *)
(* before its startLedger was done with when it read the pointer, and      *)
(* stays so (Before); everything it has visited is done with (Visited).    *)
(***************************************************************************)
EXTENDS EventPoller, TLAPS

Lease(i) == Kind[i] = "lease"
Done(i) == queued[i] > 0 \/ LedgerOf[i] \in skipped \/ i \in cutOff

Reading == \A p \in Poll :
    pc[p] = "queueing" => last[p] \in ChainEvent /\ next[p] \in 1..(last[p] + 1)

Behind == \A i \in ChainEvent : Lease(i) /\ LedgerOf[i] <= pointer => Done(i)

Before == \A p \in Poll, i \in ChainEvent :
    pc[p] # "idle" /\ Lease(i) /\ LedgerOf[i] < from[p] => Done(i)

Visited == \A p \in Poll, i \in ChainEvent :
    pc[p] = "queueing" /\ Lease(i) /\ i < next[p] => Done(i)

Inv == TypeOK /\ Reading /\ Behind /\ Before /\ Visited

USE NumEventsAssumption, MaxLedgerAssumption, ChainAssumption, KindAssumption,
    ResetAssumption, PollerBoundAssumption

-----------------------------------------------------------------------------

LEMMA InitInv == Init => Inv
<1> SUFFICES ASSUME Init PROVE Inv
  OBVIOUS
<1>1. 0 \in 0..MaxLedger /\ 0 \in 0..MaxFaults
  OBVIOUS
<1>2. TypeOK
  BY <1>1 DEF Init, TypeOK
<1>3. Behind
  <2>1. \A i \in ChainEvent : ~(LedgerOf[i] <= 0)
    BY DEF ChainLedger
  <2> QED BY <2>1 DEF Init, Behind
<1>4. Reading /\ Before /\ Visited
  BY DEF Init, Reading, Before, Visited
<1> QED
  BY <1>2, <1>3, <1>4 DEF Inv

\* What was done with stays so: jobs are only added, ledgers only skipped, and
\* what a page left out stays left out.
LEMMA DoneStays ==
  ASSUME TypeOK, [Next]_vars
  PROVE  \A i \in ChainEvent : Done(i) => Done(i)'
<1>1. CASE UNCHANGED vars
  BY <1>1 DEF vars, Done
<1>2. CASE UNCHANGED <<queued, skipped>> /\ cutOff \subseteq cutOff'
  BY <1>2 DEF Done
<1>3. CASE skipped \subseteq skipped' /\ UNCHANGED <<queued, cutOff>>
  BY <1>3 DEF Done
<1>5. CASE CloseLedger
  BY <1>5, <1>2 DEF CloseLedger
<1>6. ASSUME NEW p \in Poll, Start(p) \/ NothingNew(p) \/ Fetched(p) \/ Finish(p)
      PROVE  UNCHANGED <<queued, skipped>> /\ cutOff \subseteq cutOff'
  BY <1>6 DEF Start, NothingNew, Fetched, Finish
<1>7. ASSUME NEW p \in Poll, Malformed(p) \/ CallFails(p) \/ AdvanceFails(p)
      PROVE  skipped \subseteq skipped' /\ UNCHANGED <<queued, cutOff>>
  BY <1>7 DEF Malformed, CallFails, AdvanceFails, EmergencyAdvance
<1>8. ASSUME NEW p \in Poll, Enqueue(p) \/ AddEventFails(p)
      PROVE  \A i \in ChainEvent : Done(i) => Done(i)'
  <2>1. next[p] \in Nat /\ last[p] \in ChainEvent \union {0} /\ next[p] <= last[p]
    BY <1>8 DEF Enqueue, AddEventFails, TypeOK
  <2>2. skipped \subseteq skipped' /\ UNCHANGED cutOff
    BY <1>8 DEF Enqueue, AddEventFails, EmergencyAdvance
  <2>3. \/ UNCHANGED queued
        \/ queued' = [queued EXCEPT ![next[p]] = @ + 1]
    BY <1>8 DEF Enqueue, AddEventFails
  <2>4. CASE UNCHANGED queued
    BY <2>4, <2>2, <1>3
  <2>5. CASE queued' = [queued EXCEPT ![next[p]] = @ + 1]
    <3>1. \A i \in ChainEvent : queued'[i] = queued[i] \/ queued'[i] = queued[i] + 1
      BY <2>5 DEF TypeOK
    <3>2. \A i \in ChainEvent : queued[i] > 0 => queued'[i] > 0
      BY <3>1 DEF TypeOK
    <3> QED BY <3>2, <2>2 DEF Done
  <2> QED BY <2>3, <2>4, <2>5
<1>9. CASE Crash
  BY <1>9, <1>2 DEF Crash
<1>10. ASSUME NEW l \in Resets, ResetLedger(l)
       PROVE  skipped \subseteq skipped' /\ UNCHANGED <<queued, cutOff>>
  BY <1>10 DEF ResetLedger
<1> QED
  BY <1>1, <1>2, <1>3, <1>5, <1>6, <1>7, <1>8, <1>9, <1>10 DEF Next, Fails

LEMMA CutOffGrows == [Next]_vars => cutOff \subseteq cutOff'
  BY DEF Next, Fails, vars, CloseLedger, Start, NothingNew, Fetched, Enqueue, Finish,
         Malformed, CallFails, AddEventFails, AdvanceFails, EmergencyAdvance, Crash,
         ResetLedger

-----------------------------------------------------------------------------
(* The steps that end polls or leave them alone                            *)

\* Every poll goes on as it was or is idle afterwards.
NoPollMoves == \A p \in Poll :
    \/ pc'[p] = "idle"
    \/ /\ pc'[p] = pc[p] /\ from'[p] = from[p]
       /\ next'[p] = next[p] /\ last'[p] = last[p]

LEMMA EndsPoll ==
  ASSUME TypeOK, NEW p \in Poll, End(p)
  PROVE  /\ NoPollMoves
         /\ pc' \in [Poll -> {"idle", "fetching", "queueing"}]
         /\ from' \in [Poll -> Nat] /\ next' \in [Poll -> Nat]
         /\ last' \in [Poll -> ChainEvent \union {0}]
  BY DEF End, NoPollMoves, TypeOK

LEMMA PollsKept ==
  ASSUME Inv, NoPollMoves, TypeOK', Behind',
         \A i \in ChainEvent : Done(i) => Done(i)'
  PROVE  Inv'
<1>1. Reading'
  BY DEF Inv, Reading, NoPollMoves
<1>2. Before'
  BY DEF Inv, Before, NoPollMoves
<1>3. Visited'
  BY DEF Inv, Visited, NoPollMoves
<1> QED
  BY <1>1, <1>2, <1>3 DEF Inv

\* The catch block skips exactly the ledger it adds to `skipped'.
LEMMA EmergencyStep ==
  ASSUME Inv, NEW p \in Poll, EmergencyAdvance(p), [Next]_vars,
         queued' \in [ChainEvent -> Nat], faults' \in 0..MaxFaults,
         UNCHANGED interfered
  PROVE  Inv'
<1>1. \A i \in ChainEvent : Done(i) => Done(i)'
  BY DoneStays DEF Inv
<1>2. End(p) /\ UNCHANGED <<head, cutOff>>
  BY DEF EmergencyAdvance
<1>3. pointer' = pointer + 1 /\ skipped' = skipped \union {pointer + 1}
  BY DEF EmergencyAdvance
<1>4. TypeOK'
  BY <1>2, <1>3, EndsPoll DEF Inv, TypeOK
<1>5. Behind'
  <2> SUFFICES ASSUME NEW i \in ChainEvent, Lease(i), LedgerOf[i] <= pointer + 1
               PROVE  Done(i)'
    BY <1>3 DEF Behind, Lease
  <2>1. LedgerOf[i] \in Nat /\ pointer \in Nat
    BY DEF Inv, TypeOK, ChainLedger
  <2>2. CASE LedgerOf[i] <= pointer
    BY <2>2, <1>1 DEF Inv, Behind
  <2>3. CASE LedgerOf[i] = pointer + 1
    BY <2>3, <1>3 DEF Done
  <2> QED BY <2>1, <2>2, <2>3
<1> QED
  BY <1>1, <1>2, <1>4, <1>5, EndsPoll, PollsKept DEF Inv

-----------------------------------------------------------------------------
(* The steps of a poll                                                     *)

LEMMA StartStep ==
  ASSUME Inv, NEW p \in Poll, Start(p)
  PROVE  Inv'
<1>1. TypeOK'
  BY DEF Inv, TypeOK, Start
<1>2. UNCHANGED <<pointer, next, last, queued, skipped, cutOff>>
  BY DEF Start
<1>3. \A q \in Poll \ {p} : pc'[q] = pc[q] /\ from'[q] = from[q]
  BY DEF Start, Inv, TypeOK
<1>4. pc'[p] = "fetching" /\ from'[p] = pointer + 1 /\ pointer \in Nat
  BY DEF Start, Inv, TypeOK
<1>5. Reading' /\ Visited'
  BY <1>2, <1>3, <1>4 DEF Inv, Reading, Visited, Done
<1>6. Behind'
  BY <1>2 DEF Inv, Behind, Done
<1>7. Before'
  <2> SUFFICES ASSUME NEW q \in Poll, NEW i \in ChainEvent,
                      pc'[q] # "idle", Lease(i), LedgerOf[i] < from'[q]
               PROVE  Done(i)'
    BY DEF Before, Lease
  <2>1. CASE q # p
    BY <2>1, <1>2, <1>3 DEF Inv, Before, Done
  <2>2. CASE q = p
    <3>1. LedgerOf[i] \in Nat
      BY DEF ChainLedger
    <3>2. LedgerOf[i] <= pointer
      BY <2>2, <3>1, <1>4
    <3> QED BY <3>2, <1>2 DEF Inv, Behind, Done
  <2> QED BY <2>1, <2>2
<1> QED
  BY <1>1, <1>5, <1>6, <1>7 DEF Inv

LEMMA FetchedStep ==
  ASSUME Inv, NEW p \in Poll, Fetched(p)
  PROVE  Inv'
<1>1. PICK i, j \in ChainEvent : /\ i <= j /\ IsPage(i..j, from[p])
                            /\ next' = [next EXCEPT ![p] = i]
                            /\ last' = [last EXCEPT ![p] = j]
  BY DEF Fetched
<1>2. /\ pc[p] = "fetching"
      /\ pc' = [pc EXCEPT ![p] = "queueing"]
      /\ UNCHANGED <<head, pointer, from, queued, skipped, cutOff, faults, interfered>>
  BY DEF Fetched
<1>3. TypeOK'
  BY <1>1, <1>2 DEF Inv, TypeOK, ChainEvent
<1>4. \A q \in Poll \ {p} : /\ pc'[q] = pc[q] /\ next'[q] = next[q]
                            /\ last'[q] = last[q]
  BY <1>1, <1>2 DEF Inv, TypeOK
<1>5. pc'[p] = "queueing" /\ next'[p] = i /\ last'[p] = j
  BY <1>1, <1>2 DEF Inv, TypeOK
<1>6. from[p] \in Nat /\ head \in Nat
  BY DEF Inv, TypeOK
<1>7. \A k \in ChainEvent : LedgerOf[k] \in Nat
  BY DEF ChainLedger
<1>8. i \in Found(from[p]) /\ j \in Found(from[p])
  BY <1>1 DEF IsPage, ChainEvent
<1>9. \A k \in ChainEvent : k < i => LedgerOf[k] < from[p]
  <2> SUFFICES ASSUME NEW k \in ChainEvent, k < i, ~(LedgerOf[k] < from[p])
               PROVE  FALSE
    OBVIOUS
  <2>1. LedgerOf[k] <= LedgerOf[i]
    BY DEF ChainEvent
  <2>2. LedgerOf[i] <= head
    BY <1>8 DEF Found
  <2>3. k \in Found(from[p])
    BY <2>1, <2>2, <1>6, <1>7 DEF Found
  <2>4. k \in i..j
    BY <1>1, <2>3 DEF IsPage, ChainEvent
  <2> QED BY <2>4 DEF ChainEvent
<1>11. Reading'
  BY <1>1, <1>4, <1>5 DEF Inv, Reading, ChainEvent
<1>12. Behind'
  BY <1>2 DEF Inv, Behind, Done
<1>13. Before'
  <2> SUFFICES ASSUME NEW q \in Poll, NEW k \in ChainEvent,
                      pc'[q] # "idle", Lease(k), LedgerOf[k] < from[q]
               PROVE  Done(k)
    BY <1>2 DEF Before, Done, Lease
  <2>1. pc[q] # "idle"
    BY <1>2, <1>4
  <2> QED BY <2>1 DEF Inv, Before
<1>14. Visited'
  <2> SUFFICES ASSUME NEW q \in Poll, NEW k \in ChainEvent,
                      pc'[q] = "queueing", Lease(k), k < next'[q]
               PROVE  Done(k)
    BY <1>2 DEF Visited, Done, Lease
  <2>1. CASE q # p
    BY <2>1, <1>4 DEF Inv, Visited
  <2>2. CASE q = p
    BY <2>2, <1>2, <1>5, <1>9 DEF Inv, Before
  <2> QED BY <2>1, <2>2
<1> QED
  BY <1>3, <1>11, <1>12, <1>13, <1>14 DEF Inv

LEMMA EnqueueStep ==
  ASSUME Inv, NEW p \in Poll, Enqueue(p)
  PROVE  Inv'
<1>1. /\ pc[p] = "queueing" /\ next[p] <= last[p]
      /\ next' = [next EXCEPT ![p] = @ + 1]
      /\ UNCHANGED <<head, pointer, pc, from, last, skipped, cutOff, faults, interfered>>
  BY DEF Enqueue
<1>2. next[p] \in Nat /\ last[p] \in ChainEvent /\ next[p] \in 1..(last[p] + 1)
  BY <1>1 DEF Inv, TypeOK, Reading
<1>3. next[p] \in ChainEvent
  BY <1>1, <1>2 DEF ChainEvent
<1>4. queued' \in [ChainEvent -> Nat]
  BY <1>3 DEF Enqueue, Inv, TypeOK
<1>5. TypeOK'
  BY <1>1, <1>4 DEF Inv, TypeOK
<1>6. \A k \in ChainEvent : Done(k) => Done(k)'
  BY DoneStays DEF Inv, Next
<1>7. \A k \in ChainEvent : k = next[p] /\ Lease(k) => Done(k)'
  <2> SUFFICES ASSUME NEW k \in ChainEvent, k = next[p], Lease(k)
               PROVE  queued'[k] > 0
    BY DEF Done
  <2>1. queued'[k] = queued[k] + 1 /\ queued[k] \in Nat
    BY DEF Enqueue, Inv, TypeOK, Lease
  <2> QED BY <2>1
<1>8. next'[p] = next[p] + 1 /\ \A q \in Poll \ {p} : next'[q] = next[q]
  BY <1>1 DEF Inv, TypeOK
<1>9. Reading'
  BY <1>1, <1>2, <1>8 DEF Inv, Reading, ChainEvent
<1>10. Behind' /\ Before'
  BY <1>1, <1>6 DEF Inv, Behind, Before, Lease
<1>11. Visited'
  <2> SUFFICES ASSUME NEW q \in Poll, NEW k \in ChainEvent,
                      pc[q] = "queueing", Lease(k), k < next'[q]
               PROVE  Done(k)'
    BY <1>1 DEF Visited, Lease
  <2>1. CASE q # p
    BY <2>1, <1>6, <1>8 DEF Inv, Visited
  <2>2. CASE q = p /\ k < next[p]
    BY <2>2, <1>6 DEF Inv, Visited
  <2>3. CASE q = p /\ k = next[p]
    BY <2>3, <1>7
  <2> QED BY <2>1, <2>2, <2>3, <1>2, <1>8 DEF ChainEvent
<1> QED
  BY <1>5, <1>9, <1>10, <1>11 DEF Inv

LEMMA FinishStep ==
  ASSUME Inv, NEW p \in Poll, Finish(p)
  PROVE  Inv'
<1>1. /\ pc[p] = "queueing" /\ next[p] > last[p]
      /\ pointer' = LedgerOf[last[p]] /\ End(p)
      /\ cutOff' = cutOff \union Rest(last[p])
      /\ UNCHANGED <<head, queued, skipped, faults, interfered>>
  BY DEF Finish
<1>2. last[p] \in ChainEvent /\ next[p] \in Nat
  BY <1>1 DEF Inv, TypeOK, Reading
<1>3. TypeOK'
  BY <1>1, <1>2, EndsPoll DEF Inv, TypeOK, ChainLedger, Rest
<1>4. Behind'
  <2> SUFFICES ASSUME NEW i \in ChainEvent, Lease(i), LedgerOf[i] <= LedgerOf[last[p]]
               PROVE  Done(i)'
    BY <1>1 DEF Behind, Lease
  <2>1. CASE i <= last[p]
    <3>1. i < next[p]
      BY <2>1, <1>1, <1>2 DEF ChainEvent
    <3> QED BY <3>1, <1>1 DEF Inv, Visited, Done
  <2>2. CASE last[p] < i
    <3>1. LedgerOf[i] = LedgerOf[last[p]]
      <4>1. LedgerOf[last[p]] <= LedgerOf[i] /\ LedgerOf[i] \in Nat /\ LedgerOf[last[p]] \in Nat
        BY <1>2, <2>2 DEF ChainEvent, ChainLedger
      <4> QED BY <4>1
    <3> QED BY <3>1, <2>2, <1>1 DEF Rest, Done
  <2> QED BY <1>2, <2>1, <2>2 DEF ChainEvent
<1>5. \A i \in ChainEvent : Done(i) => Done(i)'
  BY <1>1 DEF Done
<1> QED
  BY <1>1, <1>3, <1>4, <1>5, EndsPoll, PollsKept DEF Inv

-----------------------------------------------------------------------------

LEMMA InvStep ==
  ASSUME Inv, [Next]_vars
  PROVE  Inv'
<1>1. \A i \in ChainEvent : Done(i) => Done(i)'
  BY DoneStays DEF Inv
<1>2. CASE UNCHANGED vars
  BY <1>2 DEF vars, poll, Inv, TypeOK, Reading, Behind, Before, Visited, Done
<1>3. CASE CloseLedger
  <2>1. TypeOK' /\ UNCHANGED <<pointer, pc, from, next, last>>
    BY <1>3 DEF CloseLedger, Inv, TypeOK, poll
  <2>2. NoPollMoves
    BY <2>1 DEF NoPollMoves
  <2>3. Behind'
    BY <1>1, <2>1 DEF Inv, Behind, Lease
  <2> QED BY <1>1, <2>1, <2>2, <2>3, PollsKept
<1>4. ASSUME NEW p \in Poll, NothingNew(p) \/ AdvanceFails(p)
      PROVE  Inv'
  <2>1. End(p) /\ UNCHANGED <<head, pointer, queued, skipped, cutOff, interfered>>
    BY <1>4 DEF NothingNew, AdvanceFails
  <2>2. faults' \in 0..MaxFaults
    BY <1>4 DEF NothingNew, AdvanceFails, Fault, Inv, TypeOK
  <2>3. TypeOK'
    BY <2>1, <2>2, EndsPoll DEF Inv, TypeOK
  <2>4. Behind'
    BY <1>1, <2>1 DEF Inv, Behind, Lease
  <2> QED BY <1>1, <2>1, <2>3, <2>4, EndsPoll, PollsKept DEF Inv
<1>5. ASSUME NEW p \in Poll, Malformed(p)
      PROVE  Inv'
  BY <1>5, EmergencyStep DEF Malformed, Inv, TypeOK
<1>6. ASSUME NEW p \in Poll, CallFails(p)
      PROVE  Inv'
  <2>1. faults' \in 0..MaxFaults
    BY <1>6 DEF CallFails, Fault, Inv, TypeOK
  <2> QED BY <1>6, <2>1, EmergencyStep DEF CallFails, Inv, TypeOK
<1>7. ASSUME NEW p \in Poll, AddEventFails(p)
      PROVE  Inv'
  <2>1. faults' \in 0..MaxFaults
    BY <1>7 DEF AddEventFails, Fault, Inv, TypeOK
  <2>2. queued' \in [ChainEvent -> Nat]
    <3>1. next[p] \in ChainEvent
      BY <1>7 DEF AddEventFails, Inv, Reading, TypeOK, ChainEvent
    <3> QED BY <1>7, <3>1 DEF AddEventFails, Inv, TypeOK
  <2> QED BY <1>7, <2>1, <2>2, EmergencyStep DEF AddEventFails
<1>8. CASE Crash
  <2>1. UNCHANGED <<head, pointer, queued, skipped, cutOff, interfered>>
    BY <1>8 DEF Crash
  <2>2. TypeOK'
    BY <1>8 DEF Crash, Fault, Inv, TypeOK
  <2>3. NoPollMoves
    BY <1>8 DEF Crash, NoPollMoves
  <2>4. Behind'
    BY <1>1, <2>1 DEF Inv, Behind, Lease
  <2> QED BY <1>1, <2>2, <2>3, <2>4, PollsKept
<1>9. ASSUME NEW l \in Resets, ResetLedger(l)
      PROVE  Inv'
  <2>1. /\ pointer' = l /\ skipped' = skipped \union (pointer + 1)..l
        /\ UNCHANGED <<head, pc, from, next, last, queued, cutOff>>
    BY <1>9 DEF ResetLedger, poll
  <2>2. l \in Nat /\ pointer \in Nat
    BY DEF Inv, TypeOK
  <2>3. TypeOK'
    BY <1>9, <2>1, <2>2 DEF ResetLedger, Fault, Inv, TypeOK
  <2>4. NoPollMoves
    BY <2>1 DEF NoPollMoves
  <2>5. Behind'
    <3> SUFFICES ASSUME NEW i \in ChainEvent, Lease(i), LedgerOf[i] <= l
                 PROVE  Done(i)'
      BY <2>1 DEF Behind, Lease
    <3>1. LedgerOf[i] \in Nat
      BY DEF ChainLedger
    <3>2. CASE LedgerOf[i] <= pointer
      BY <3>2, <1>1 DEF Inv, Behind
    <3>3. CASE LedgerOf[i] > pointer
      <4>1. LedgerOf[i] \in (pointer + 1)..l
        BY <3>1, <3>3, <2>2
      <4> QED BY <4>1, <2>1 DEF Done
    <3> QED BY <3>1, <3>2, <3>3, <2>2
  <2> QED BY <1>1, <2>3, <2>4, <2>5, PollsKept
<1> QED
  BY <1>2, <1>3, <1>4, <1>5, <1>6, <1>7, <1>8, <1>9,
     StartStep, FetchedStep, EnqueueStep, FinishStep DEF Next, Fails

-----------------------------------------------------------------------------

LEMMA PollerInvariance == Spec => []Inv
<1>1. Inv /\ [Next]_vars => Inv'
  BY InvStep
<1> QED
  BY <1>1, InitInv, PTL DEF Spec

\* The poller's state stays well typed.
THEOREM PollerTypeCorrect ==
  Spec => []TypeOK
<1>1. Inv => TypeOK
  BY DEF Inv
<1> QED
  BY <1>1, PollerInvariance, PTL

\* pollLeaseEvents passes over an event only by an emergency advancement, after
\* a reset or at the end of a page: for every chain, every size of page, every
\* number of overlapping polls, and any number of failed calls, half-done
\* queueings, crashes and resets.
THEOREM PollerSkipsNothingElse ==
  Spec => []NothingElseIsSkipped
<1>1. Inv => NothingElseIsSkipped
  BY DEF Inv, Behind, NothingElseIsSkipped, Lease, Done
<1> QED
  BY <1>1, PollerInvariance, PTL

-----------------------------------------------------------------------------
(* Polls that do not overlap                                               *)

\* Unless polls overlap or the pointer is reset, the one poll at work starts
\* behind the pointer it will write over.
Alone ==
    ~interfered =>
        \A p \in Poll : pc[p] # "idle" =>
            /\ from[p] = pointer + 1
            /\ \A q \in Poll : pc[q] # "idle" => q = p

\* What a poll is still to visit, and where it ends, is not before its start.
Ahead == \A p \in Poll :
    pc[p] = "queueing" =>
        /\ LedgerOf[last[p]] >= from[p]
        /\ \A i \in ChainEvent : i >= next[p] => LedgerOf[i] >= from[p]

\* With a start of its own, what a poll has visited is in the queue.
Sent ==
    Undisturbed => \A p \in Poll, i \in ChainEvent :
        pc[p] = "queueing" /\ Lease(i) /\ from[p] <= LedgerOf[i] /\ i < next[p]
            => queued[i] > 0

\* No malformed event lies ahead of the event, nor in its ledger.
Clear(i) == \A j \in ChainEvent : Kind[j] = "malformed" => LedgerOf[j] < LedgerOf[i]

\* An event that is in the queue is behind the pointer or behind the poll.
QueuedBehind ==
    Undisturbed => \A i \in ChainEvent :
        Clear(i) /\ queued[i] > 0
            => LedgerOf[i] <= pointer \/ \E p \in Poll : pc[p] = "queueing" /\ i < next[p]

CalmInv == Inv /\ Alone /\ Ahead /\ Sent /\ QueuedBehind /\ BadEventStaysLocal /\ QueuedOnce

\* A response begins with the first event of the ledgers that were asked for.
LEMMA PageBegins ==
  ASSUME TypeOK, NEW p \in Poll, Fetched(p)
  PROVE  /\ pc[p] = "fetching" /\ pc' = [pc EXCEPT ![p] = "queueing"]
         /\ next'[p] \in ChainEvent /\ last'[p] \in ChainEvent
         /\ \A q \in Poll \ {p} : next'[q] = next[q] /\ last'[q] = last[q]
         /\ LedgerOf[last'[p]] >= from[p]
         /\ \A k \in ChainEvent : k < next'[p] <=> LedgerOf[k] < from[p]
<1>1. PICK i, j \in ChainEvent : /\ i <= j /\ IsPage(i..j, from[p])
                            /\ next' = [next EXCEPT ![p] = i]
                            /\ last' = [last EXCEPT ![p] = j]
  BY DEF Fetched
<1>2. pc[p] = "fetching" /\ pc' = [pc EXCEPT ![p] = "queueing"]
  BY DEF Fetched
<1>3. next'[p] = i /\ last'[p] = j
  BY <1>1 DEF TypeOK
<1>4. \A q \in Poll \ {p} : next'[q] = next[q] /\ last'[q] = last[q]
  BY <1>1 DEF TypeOK
<1>5. i \in Found(from[p]) /\ j \in Found(from[p])
  BY <1>1 DEF IsPage, ChainEvent
<1>6. from[p] \in Nat /\ head \in Nat /\ \A k \in ChainEvent : LedgerOf[k] \in Nat
  BY DEF TypeOK, ChainLedger
<1>7. LedgerOf[i] >= from[p] /\ LedgerOf[j] >= from[p] /\ LedgerOf[i] <= head
  BY <1>5 DEF Found
<1>8. ASSUME NEW k \in ChainEvent, k < i PROVE LedgerOf[k] < from[p]
  <2> SUFFICES ASSUME ~(LedgerOf[k] < from[p]) PROVE FALSE
    OBVIOUS
  <2>1. LedgerOf[k] <= LedgerOf[i]
    BY <1>8 DEF ChainEvent
  <2>2. k \in Found(from[p])
    BY <2>1, <1>6, <1>7 DEF Found
  <2>3. k \in i..j
    BY <1>1, <1>8, <2>2 DEF IsPage, ChainEvent
  <2> QED BY <1>8, <2>3 DEF ChainEvent
<1>9. ASSUME NEW k \in ChainEvent, ~(k < i) PROVE ~(LedgerOf[k] < from[p])
  <2>1. LedgerOf[i] <= LedgerOf[k]
    BY <1>9 DEF ChainEvent
  <2> QED BY <2>1, <1>6, <1>7
<1> QED BY <1>2, <1>3, <1>4, <1>7, <1>8, <1>9

\* The ways a poll ends: the pointer stays, or moves by one, or, at the end of
\* the response, to its last ledger.
Ends(p) ==
    \/ NothingNew(p) \/ Finish(p) \/ Malformed(p)
    \/ CallFails(p) \/ AddEventFails(p) \/ AdvanceFails(p)

LEMMA EndsMoves ==
  ASSUME TypeOK, Reading, NEW p \in Poll, Ends(p)
  PROVE  /\ pc[p] # "idle" /\ pc'[p] = "idle"
         /\ \A q \in Poll \ {p} : /\ pc'[q] = pc[q] /\ from'[q] = from[q]
                                 /\ next'[q] = next[q] /\ last'[q] = last[q]
         /\ interfered' = interfered
         /\ \/ pointer' = pointer \/ pointer' = pointer + 1
            \/ pc[p] = "queueing" /\ pointer' = LedgerOf[last[p]]
<1>1. End(p)
  BY DEF Ends, NothingNew, Finish, Malformed, CallFails, AddEventFails, AdvanceFails,
         EmergencyAdvance
<1>2. pc[p] # "idle" /\ interfered' = interfered
  BY DEF Ends, NothingNew, Finish, Malformed, CallFails, AddEventFails, AdvanceFails
<1>3. \/ pointer' = pointer \/ pointer' = pointer + 1
      \/ pc[p] = "queueing" /\ pointer' = LedgerOf[last[p]]
  BY DEF Ends, NothingNew, Finish, Malformed, CallFails, AddEventFails, AdvanceFails,
         EmergencyAdvance
<1>4. /\ pc'[p] = "idle"
      /\ \A q \in Poll \ {p} : /\ pc'[q] = pc[q] /\ from'[q] = from[q]
                              /\ next'[q] = next[q] /\ last'[q] = last[q]
  BY <1>1 DEF End, TypeOK
<1> QED BY <1>2, <1>3, <1>4

LEMMA AloneStep ==
  ASSUME Inv, Alone, Ahead, [Next]_vars
  PROVE  Alone' /\ Ahead'
<1>1. CASE UNCHANGED vars
  BY <1>1 DEF vars, poll, Alone, Ahead
<1>2. CASE CloseLedger
  BY <1>2 DEF CloseLedger, poll, Alone, Ahead
<1>3. ASSUME NEW p \in Poll, Start(p) PROVE Alone' /\ Ahead'
  <2>1. /\ pc'[p] = "fetching" /\ from'[p] = pointer + 1 /\ pointer' = pointer
        /\ \A q \in Poll \ {p} : pc'[q] = pc[q] /\ from'[q] = from[q]
        /\ UNCHANGED <<next, last>>
        /\ interfered' = (interfered \/ \E q \in Poll : pc[q] # "idle")
    BY <1>3 DEF Start, Inv, TypeOK
  <2>2. Alone'
    BY <2>1 DEF Alone
  <2>3. Ahead'
    BY <2>1 DEF Ahead
  <2> QED BY <2>2, <2>3
<1>4. ASSUME NEW p \in Poll, Fetched(p) PROVE Alone' /\ Ahead'
  <2>1. UNCHANGED <<pointer, from, interfered>>
    BY <1>4 DEF Fetched
  <2>2. pc[p] = "fetching" /\ pc'[p] = "queueing" /\ \A q \in Poll \ {p} : pc'[q] = pc[q]
    BY <1>4, PageBegins DEF Inv, TypeOK
  <2>3. Alone'
    BY <2>1, <2>2 DEF Alone
  <2>4. \A k \in ChainEvent : k >= next'[p] => LedgerOf[k] >= from[p]
    <3>1. \A k \in ChainEvent : k \in Nat /\ LedgerOf[k] \in Nat
      BY DEF ChainEvent, ChainLedger
    <3>2. from[p] \in Nat /\ next'[p] \in Nat
      BY <1>4, <3>1, PageBegins DEF Inv, TypeOK
    <3>3. \A k \in ChainEvent : k < next'[p] <=> LedgerOf[k] < from[p]
      BY <1>4, PageBegins DEF Inv
    <3> QED BY <3>1, <3>2, <3>3
  <2>5. LedgerOf[last'[p]] >= from[p]
        /\ \A q \in Poll \ {p} : next'[q] = next[q] /\ last'[q] = last[q]
    BY <1>4, PageBegins DEF Inv
  <2>6. Ahead'
    BY <2>1, <2>2, <2>4, <2>5 DEF Ahead
  <2> QED BY <2>3, <2>6
<1>5. ASSUME NEW p \in Poll, Enqueue(p) PROVE Alone' /\ Ahead'
  <2>1. pc[p] = "queueing" /\ UNCHANGED <<pointer, pc, from, last, interfered>>
    BY <1>5 DEF Enqueue
  <2>2. next[p] \in Nat /\ next'[p] = next[p] + 1
        /\ \A q \in Poll \ {p} : next'[q] = next[q]
    BY <1>5 DEF Enqueue, Inv, TypeOK
  <2>3. \A k \in ChainEvent : k >= next'[p] => k >= next[p]
    BY <2>2 DEF ChainEvent
  <2> QED BY <2>1, <2>2, <2>3 DEF Alone, Ahead
<1>6. ASSUME NEW p \in Poll, Ends(p) PROVE Alone' /\ Ahead'
  BY <1>6, EndsMoves DEF Inv, Alone, Ahead
<1>7. CASE Crash
  BY <1>7 DEF Crash, Alone, Ahead
<1>8. ASSUME NEW l \in Resets, ResetLedger(l) PROVE Alone' /\ Ahead'
  BY <1>8 DEF ResetLedger, poll, Alone, Ahead
<1> QED
  BY <1>1, <1>2, <1>3, <1>4, <1>5, <1>6, <1>7, <1>8 DEF Next, Fails, Ends

\* As long as nothing fails, these are the steps.
LEMMA CalmSteps ==
  ASSUME TypeOK, [Next]_vars, Undisturbed'
  PROVE  /\ Undisturbed
         /\ \/ UNCHANGED <<pointer, pc, from, next, last, queued>>
            \/ \E p \in Poll : \/ Start(p) \/ Fetched(p) \/ Enqueue(p)
                               \/ NothingNew(p) \/ Finish(p) \/ Malformed(p)
<1>1. \A p \in Poll : ~Fails(p)
  BY DEF Fails, CallFails, AddEventFails, AdvanceFails, Fault, TypeOK, Undisturbed
<1>2. ~Crash /\ \A l \in Resets : ~ResetLedger(l)
  BY DEF Crash, ResetLedger, Fault, TypeOK, Undisturbed
<1>3. CASE UNCHANGED vars \/ CloseLedger
  BY <1>3 DEF vars, poll, CloseLedger, Undisturbed
<1>4. ASSUME NEW p \in Poll, \/ Start(p) \/ Fetched(p) \/ Enqueue(p)
                             \/ NothingNew(p) \/ Finish(p) \/ Malformed(p)
      PROVE  Undisturbed
  <2>1. UNCHANGED faults
    BY <1>4 DEF Start, Fetched, Enqueue, NothingNew, Finish, Malformed
  <2>2. CASE Start(p)
    <3>1. interfered' = (interfered \/ \E q \in Poll : pc[q] # "idle")
      BY <2>2 DEF Start
    <3> QED BY <2>1, <3>1 DEF Undisturbed
  <2>3. CASE ~Start(p)
    <3>1. UNCHANGED interfered
      BY <1>4, <2>3 DEF Fetched, Enqueue, NothingNew, Finish, Malformed
    <3> QED BY <2>1, <3>1 DEF Undisturbed
  <2> QED BY <2>2, <2>3
<1> QED BY <1>1, <1>2, <1>3, <1>4 DEF Next

\* What Enqueue does to the queue.
LEMMA EnqueueAdds ==
  ASSUME Inv, NEW p \in Poll, Enqueue(p)
  PROVE  /\ pc[p] = "queueing" /\ next[p] \in ChainEvent /\ next'[p] = next[p] + 1
         /\ UNCHANGED <<pointer, pc, from, last>>
         /\ \A q \in Poll \ {p} : next'[q] = next[q]
         /\ \A k \in ChainEvent :
               /\ queued[k] \in Nat
               /\ queued'[k] = IF k = next[p] /\ Lease(k) THEN queued[k] + 1 ELSE queued[k]
<1>1. pc[p] = "queueing" /\ next[p] <= last[p] /\ UNCHANGED <<pointer, pc, from, last>>
  BY DEF Enqueue
<1>2. last[p] \in ChainEvent /\ next[p] \in 1..(last[p] + 1)
  BY <1>1 DEF Inv, Reading
<1>3. next[p] \in ChainEvent
  BY <1>1, <1>2 DEF ChainEvent
<1>4. next'[p] = next[p] + 1 /\ \A q \in Poll \ {p} : next'[q] = next[q]
  BY DEF Enqueue, Inv, TypeOK
<1>5. \A k \in ChainEvent :
         /\ queued[k] \in Nat
         /\ queued'[k] = IF k = next[p] /\ Lease(k) THEN queued[k] + 1 ELSE queued[k]
  BY <1>3 DEF Enqueue, Inv, TypeOK, Lease
<1> QED BY <1>1, <1>3, <1>4, <1>5

\* A poll that ends without a failure queues nothing as it does.
LEMMA CalmEnd ==
  ASSUME Inv, NEW p \in Poll, NothingNew(p) \/ Finish(p) \/ Malformed(p)
  PROVE  /\ pc[p] # "idle" /\ pc'[p] = "idle" /\ UNCHANGED queued
         /\ \A q \in Poll \ {p} : /\ pc'[q] = pc[q] /\ from'[q] = from[q]
                                 /\ next'[q] = next[q]
         /\ \/ pc[p] = "fetching" /\ pointer' = pointer
            \/ /\ pc[p] = "queueing" /\ next[p] > last[p] /\ pointer' = LedgerOf[last[p]]
               /\ last[p] \in ChainEvent /\ next[p] = last[p] + 1 /\ Rest(last[p]) \subseteq cutOff'
            \/ /\ pc[p] = "queueing" /\ next[p] \in ChainEvent /\ Kind[next[p]] = "malformed"
               /\ pointer' = pointer + 1
<1>1. /\ pc[p] # "idle" /\ pc'[p] = "idle"
      /\ \A q \in Poll \ {p} : pc'[q] = pc[q] /\ from'[q] = from[q] /\ next'[q] = next[q]
  BY EndsMoves DEF Inv, Ends
<1>2. UNCHANGED queued
  BY DEF NothingNew, Finish, Malformed
<1>3. CASE NothingNew(p)
  BY <1>1, <1>2, <1>3 DEF NothingNew
<1>4. CASE Finish(p)
  <2>1. pc[p] = "queueing" /\ next[p] > last[p] /\ pointer' = LedgerOf[last[p]]
    BY <1>4 DEF Finish
  <2>2. last[p] \in ChainEvent /\ next[p] \in 1..(last[p] + 1)
    BY <2>1 DEF Inv, Reading
  <2>3. next[p] = last[p] + 1
    BY <2>1, <2>2 DEF ChainEvent
  <2>4. Rest(last[p]) \subseteq cutOff'
    BY <1>4 DEF Finish
  <2> QED BY <1>1, <1>2, <2>1, <2>2, <2>3, <2>4
<1>5. CASE Malformed(p)
  <2>1. /\ pc[p] = "queueing" /\ next[p] <= last[p] /\ Kind[next[p]] = "malformed"
        /\ pointer' = pointer + 1
    BY <1>5 DEF Malformed, EmergencyAdvance
  <2>2. last[p] \in ChainEvent /\ next[p] \in 1..(last[p] + 1)
    BY <2>1 DEF Inv, Reading
  <2>3. next[p] \in ChainEvent
    BY <2>1, <2>2 DEF ChainEvent
  <2> QED BY <1>1, <1>2, <2>1, <2>3
<1> QED BY <1>3, <1>4, <1>5

LEMMA SentStep ==
  ASSUME Inv, Sent, [Next]_vars
  PROVE  Sent'
<1> SUFFICES ASSUME Undisturbed', NEW q \in Poll, NEW i \in ChainEvent,
                    pc'[q] = "queueing", Lease(i), from'[q] <= LedgerOf[i], i < next'[q]
             PROVE  queued'[i] > 0
  BY DEF Sent, Lease
<1>0. /\ Undisturbed /\ queued[i] \in Nat
      /\ pc[q] = "queueing" /\ from[q] <= LedgerOf[i] /\ i < next[q] => queued[i] > 0
  BY CalmSteps DEF Inv, TypeOK, Sent
<1>1. CASE UNCHANGED <<pointer, pc, from, next, last, queued>>
  BY <1>0, <1>1
<1>2. ASSUME NEW p \in Poll, Start(p) PROVE queued'[i] > 0
  <2>1. pc'[p] = "fetching" /\ (q # p => pc'[q] = pc[q] /\ from'[q] = from[q])
        /\ UNCHANGED <<next, queued>>
    BY <1>2 DEF Start, Inv, TypeOK
  <2> QED BY <1>0, <2>1
<1>3. ASSUME NEW p \in Poll, Fetched(p) PROVE queued'[i] > 0
  <2>1. UNCHANGED <<from, queued>>
    BY <1>3 DEF Fetched
  <2>2. i < next'[p] <=> LedgerOf[i] < from[p]
    BY <1>3, PageBegins DEF Inv
  <2>3. q # p => pc'[q] = pc[q] /\ next'[q] = next[q]
    BY <1>3, PageBegins DEF Inv, TypeOK
  <2>4. LedgerOf[i] \in Nat /\ from[q] \in Nat
    BY DEF Inv, TypeOK, ChainLedger
  <2> QED BY <1>0, <2>1, <2>2, <2>3, <2>4
<1>4. ASSUME NEW p \in Poll, Enqueue(p) PROVE queued'[i] > 0
  <2>1. UNCHANGED <<pc, from>> /\ next[p] \in ChainEvent /\ next'[p] = next[p] + 1
        /\ (q # p => next'[q] = next[q])
        /\ queued'[i] = IF i = next[p] /\ Lease(i) THEN queued[i] + 1 ELSE queued[i]
    BY <1>4, EnqueueAdds
  <2>2. CASE i < next[q]
    BY <1>0, <2>1, <2>2
  <2>3. CASE ~(i < next[q])
    <3>1. q = p /\ i = next[p]
      BY <2>1, <2>3 DEF ChainEvent
    <3> QED BY <1>0, <2>1, <3>1
  <2> QED BY <2>2, <2>3
<1>5. ASSUME NEW p \in Poll, NothingNew(p) \/ Finish(p) \/ Malformed(p)
      PROVE  queued'[i] > 0
  <2>1. pc'[p] = "idle" /\ UNCHANGED queued
        /\ (q # p => pc'[q] = pc[q] /\ from'[q] = from[q] /\ next'[q] = next[q])
    BY <1>5, CalmEnd
  <2> QED BY <1>0, <2>1
<1> QED BY <1>1, <1>2, <1>3, <1>4, <1>5, CalmSteps DEF Inv

LEMMA QueuedBehindStep ==
  ASSUME Inv, Alone, Ahead, QueuedBehind, [Next]_vars
  PROVE  QueuedBehind'
<1> SUFFICES ASSUME Undisturbed', NEW i \in ChainEvent, Clear(i), queued'[i] > 0
             PROVE  \/ LedgerOf[i] <= pointer'
                    \/ \E q \in Poll : pc'[q] = "queueing" /\ i < next'[q]
  BY DEF QueuedBehind, Clear
<1>0. /\ Undisturbed /\ ~interfered /\ pointer \in Nat /\ LedgerOf[i] \in Nat /\ i \in Nat
      /\ queued[i] > 0 => \/ LedgerOf[i] <= pointer
                          \/ \E q \in Poll : pc[q] = "queueing" /\ i < next[q]
  BY CalmSteps DEF Inv, TypeOK, QueuedBehind, Undisturbed, ChainLedger, ChainEvent
<1>1. CASE UNCHANGED <<pointer, pc, from, next, last, queued>>
  BY <1>0, <1>1
<1>2. ASSUME NEW p \in Poll, Start(p)
      PROVE  \/ LedgerOf[i] <= pointer'
             \/ \E q \in Poll : pc'[q] = "queueing" /\ i < next'[q]
  <2>1. pc[p] = "idle" /\ (\A q \in Poll \ {p} : pc'[q] = pc[q])
        /\ UNCHANGED <<pointer, next, queued>>
    BY <1>2 DEF Start, Inv, TypeOK
  <2> QED BY <1>0, <2>1
<1>3. ASSUME NEW p \in Poll, Fetched(p)
      PROVE  \/ LedgerOf[i] <= pointer'
             \/ \E q \in Poll : pc'[q] = "queueing" /\ i < next'[q]
  <2>1. UNCHANGED <<pointer, queued>>
    BY <1>3 DEF Fetched
  <2>2. pc[p] = "fetching" /\ \A q \in Poll \ {p} : pc'[q] = pc[q] /\ next'[q] = next[q]
    BY <1>3, PageBegins DEF Inv, TypeOK
  <2> QED BY <1>0, <2>1, <2>2
<1>4. ASSUME NEW p \in Poll, Enqueue(p)
      PROVE  \/ LedgerOf[i] <= pointer'
             \/ \E q \in Poll : pc'[q] = "queueing" /\ i < next'[q]
  <2>1. /\ pc[p] = "queueing" /\ next[p] \in ChainEvent /\ next'[p] = next[p] + 1
        /\ UNCHANGED <<pointer, pc>> /\ \A q \in Poll \ {p} : next'[q] = next[q]
        /\ queued'[i] = IF i = next[p] /\ Lease(i) THEN queued[i] + 1 ELSE queued[i]
    BY <1>4, EnqueueAdds
  <2>2. CASE i = next[p]
    <3>1. i < next'[p]
      BY <1>0, <2>1, <2>2
    <3> QED BY <2>1, <3>1
  <2>3. CASE i # next[p]
    <3>1. \A q \in Poll : i < next[q] => i < next'[q]
      BY <1>0, <2>1 DEF ChainEvent
    <3> QED BY <1>0, <2>1, <2>3, <3>1
  <2> QED BY <2>2, <2>3
<1>5. ASSUME NEW p \in Poll, NothingNew(p) \/ Finish(p) \/ Malformed(p)
      PROVE  \/ LedgerOf[i] <= pointer'
             \/ \E q \in Poll : pc'[q] = "queueing" /\ i < next'[q]
  <2>1. /\ pc[p] # "idle" /\ UNCHANGED queued
        /\ \A q \in Poll \ {p} : pc'[q] = pc[q] /\ next'[q] = next[q]
    BY <1>5, CalmEnd
  <2>2. from[p] = pointer + 1
    BY <1>0, <2>1 DEF Alone
  <2>3. CASE pc[p] = "fetching" /\ pointer' = pointer
    BY <1>0, <2>1, <2>3
  <2>4. CASE /\ pc[p] = "queueing" /\ pointer' = LedgerOf[last[p]]
             /\ last[p] \in ChainEvent /\ next[p] = last[p] + 1
    <3>1. LedgerOf[last[p]] >= pointer + 1 /\ LedgerOf[last[p]] \in Nat
      BY <2>2, <2>4 DEF Ahead, ChainLedger
    <3>2. i < next[p] => i <= last[p]
      BY <1>0, <2>4 DEF ChainEvent
    <3>3. i < next[p] => LedgerOf[i] <= pointer'
      BY <2>4, <3>2
    <3>4. LedgerOf[i] <= pointer => LedgerOf[i] <= pointer'
      BY <1>0, <2>4, <3>1
    <3> QED BY <1>0, <2>1, <3>3, <3>4
  <2>5. CASE /\ pc[p] = "queueing" /\ next[p] \in ChainEvent /\ Kind[next[p]] = "malformed"
             /\ pointer' = pointer + 1
    <3>1. LedgerOf[next[p]] < LedgerOf[i] /\ LedgerOf[next[p]] \in Nat
      BY <2>5 DEF Clear, ChainLedger
    <3>2. ~(i < next[p])
      <4> SUFFICES ASSUME i < next[p] PROVE FALSE
        OBVIOUS
      <4>1. LedgerOf[i] <= LedgerOf[next[p]]
        BY <2>5 DEF ChainEvent
      <4> QED BY <1>0, <3>1, <4>1
    <3>3. LedgerOf[i] <= pointer => LedgerOf[i] <= pointer'
      BY <1>0, <2>5
    <3> QED BY <1>0, <2>1, <3>2, <3>3
  <2> QED BY <1>5, <2>3, <2>4, <2>5, CalmEnd
<1> QED BY <1>1, <1>2, <1>3, <1>4, <1>5, CalmSteps DEF Inv

LEMMA LocalStep ==
  ASSUME Inv, Alone, Ahead, Sent, BadEventStaysLocal, [Next]_vars
  PROVE  BadEventStaysLocal'
<1> DEFINE Excused(i) == \E j \in ChainEvent : /\ Kind[j] = "malformed"
                                         /\ j < i /\ LedgerOf[j] = LedgerOf[i]
<1> SUFFICES ASSUME Undisturbed', NEW i \in ChainEvent, Lease(i), LedgerOf[i] <= pointer',
                    i \notin cutOff'
             PROVE  queued'[i] > 0 \/ Excused(i)
  BY DEF BadEventStaysLocal, Lease
<1>0. /\ Undisturbed /\ ~interfered /\ pointer \in Nat /\ LedgerOf[i] \in Nat /\ i \in Nat
      /\ LedgerOf[i] <= pointer => queued[i] > 0 \/ Excused(i)
  BY CalmSteps, CutOffGrows
     DEF Inv, TypeOK, BadEventStaysLocal, Undisturbed, ChainLedger, ChainEvent, Lease
<1> HIDE DEF Excused
<1>1. CASE UNCHANGED <<pointer, pc, from, next, last, queued>>
  BY <1>0, <1>1
<1>2. ASSUME NEW p \in Poll, Start(p) \/ Fetched(p) PROVE queued'[i] > 0 \/ Excused(i)
  BY <1>0, <1>2 DEF Start, Fetched
<1>3. ASSUME NEW p \in Poll, Enqueue(p) PROVE queued'[i] > 0 \/ Excused(i)
  BY <1>0, <1>3, EnqueueAdds
<1>4. ASSUME NEW p \in Poll, NothingNew(p) \/ Finish(p) \/ Malformed(p)
      PROVE  queued'[i] > 0 \/ Excused(i)
  <2>1. pc[p] # "idle" /\ UNCHANGED queued
    BY <1>4, CalmEnd
  <2>2. from[p] = pointer + 1
    BY <1>0, <2>1 DEF Alone
  <2>3. CASE LedgerOf[i] <= pointer
    BY <1>0, <2>1, <2>3
  <2>4. CASE ~(LedgerOf[i] <= pointer) /\ pc[p] = "fetching" /\ pointer' = pointer
    BY <2>4
  <2>5. CASE /\ ~(LedgerOf[i] <= pointer) /\ pc[p] = "queueing" /\ next[p] > last[p]
             /\ pointer' = LedgerOf[last[p]] /\ last[p] \in ChainEvent /\ next[p] = last[p] + 1
             /\ Rest(last[p]) \subseteq cutOff'
    <3>1. i <= last[p]
      <4> SUFFICES ASSUME last[p] < i PROVE FALSE
        BY <1>0, <2>5 DEF ChainEvent
      <4>1. LedgerOf[last[p]] <= LedgerOf[i] /\ LedgerOf[last[p]] \in Nat
        BY <2>5 DEF ChainEvent, ChainLedger
      <4>2. LedgerOf[i] = LedgerOf[last[p]]
        BY <1>0, <2>5, <4>1
      <4> QED BY <2>5, <4>2 DEF Rest
    <3>2. i < next[p] /\ from[p] <= LedgerOf[i]
      BY <1>0, <2>2, <2>5, <3>1 DEF ChainEvent
    <3> QED BY <1>0, <2>1, <2>5, <3>2 DEF Sent
  <2>6. CASE /\ ~(LedgerOf[i] <= pointer) /\ pc[p] = "queueing"
             /\ next[p] \in ChainEvent /\ Kind[next[p]] = "malformed" /\ pointer' = pointer + 1
    <3>1. LedgerOf[i] = from[p] /\ LedgerOf[next[p]] \in Nat
      <4>1. LedgerOf[i] <= pointer + 1
        BY <2>6
      <4>2. LedgerOf[i] = pointer + 1
        BY <1>0, <2>6, <4>1
      <4>3. LedgerOf[next[p]] \in Nat
        BY <2>6 DEF ChainLedger
      <4> QED BY <2>2, <4>2, <4>3
    <3>2. LedgerOf[next[p]] >= from[p]
      BY <2>6 DEF Ahead, ChainEvent
    <3>3. CASE i < next[p]
      BY <1>0, <2>1, <2>6, <3>1, <3>3 DEF Sent
    <3>4. CASE i = next[p]
      BY <2>6, <3>4 DEF Lease
    <3>5. CASE next[p] < i
      <4>1. LedgerOf[next[p]] <= LedgerOf[i]
        BY <2>6, <3>5 DEF ChainEvent
      <4>2. LedgerOf[next[p]] = LedgerOf[i]
        BY <1>0, <3>1, <3>2, <4>1
      <4> QED BY <2>6, <3>5, <4>2 DEF Excused
    <3> QED BY <1>0, <2>6, <3>3, <3>4, <3>5 DEF ChainEvent
  <2> QED BY <1>4, <2>3, <2>4, <2>5, <2>6, CalmEnd
<1> QED BY <1>1, <1>2, <1>3, <1>4, CalmSteps DEF Inv

LEMMA OnceStep ==
  ASSUME Inv, Alone, Ahead, QueuedBehind, QueuedOnce, [Next]_vars
  PROVE  QueuedOnce'
<1> SUFFICES ASSUME Undisturbed', NEW i \in ChainEvent, Clear(i) PROVE queued'[i] <= 1
  BY DEF QueuedOnce, Clear
<1>0. /\ Undisturbed /\ ~interfered /\ queued[i] <= 1
      /\ pointer \in Nat /\ LedgerOf[i] \in Nat /\ i \in Nat
  BY CalmSteps DEF Inv, TypeOK, QueuedOnce, Clear, Undisturbed, ChainLedger, ChainEvent
<1>1. CASE UNCHANGED <<pointer, pc, from, next, last, queued>>
  BY <1>0, <1>1
<1>2. ASSUME NEW p \in Poll, Start(p) \/ Fetched(p) PROVE queued'[i] <= 1
  BY <1>0, <1>2 DEF Start, Fetched
<1>3. ASSUME NEW p \in Poll, Enqueue(p) PROVE queued'[i] <= 1
  <2>1. /\ pc[p] = "queueing" /\ queued[i] \in Nat
        /\ queued'[i] = IF i = next[p] /\ Lease(i) THEN queued[i] + 1 ELSE queued[i]
    BY <1>3, EnqueueAdds
  <2>2. CASE i # next[p]
    BY <1>0, <2>1, <2>2
  <2>3. CASE i = next[p]
    <3>1. from[p] = pointer + 1 /\ \A q \in Poll : pc[q] # "idle" => q = p
      BY <1>0, <2>1 DEF Alone
    <3>2. LedgerOf[i] >= from[p]
      BY <1>0, <2>1, <2>3 DEF Ahead
    <3>3. ~(LedgerOf[i] <= pointer)
      BY <1>0, <3>1, <3>2
    <3>4. ~\E q \in Poll : pc[q] = "queueing" /\ i < next[q]
      BY <1>0, <2>3, <3>1
    <3>5. ~(queued[i] > 0)
      BY <1>0, <3>3, <3>4 DEF QueuedBehind
    <3> QED BY <2>1, <3>5
  <2> QED BY <2>2, <2>3
<1>4. ASSUME NEW p \in Poll, NothingNew(p) \/ Finish(p) \/ Malformed(p)
      PROVE  queued'[i] <= 1
  BY <1>0, <1>4, CalmEnd
<1> QED BY <1>1, <1>2, <1>3, <1>4, CalmSteps DEF Inv

LEMMA CalmInvariance == Spec => []CalmInv
<1>1. Init => CalmInv
  <2> SUFFICES ASSUME Init PROVE CalmInv
    OBVIOUS
  <2>1. Alone /\ Ahead /\ Sent /\ QueuedBehind
    BY DEF Init, Alone, Ahead, Sent, QueuedBehind
  <2>2. \A i \in ChainEvent : ~(LedgerOf[i] <= pointer) /\ queued[i] = 0
    BY DEF Init, ChainLedger
  <2> QED BY <2>1, <2>2, InitInv DEF CalmInv, BadEventStaysLocal, QueuedOnce
<1>2. CalmInv /\ [Next]_vars => CalmInv'
  BY InvStep, AloneStep, SentStep, QueuedBehindStep, LocalStep, OnceStep DEF CalmInv
<1> QED BY <1>1, <1>2, PTL DEF Spec

\* A malformed event costs only what follows it in its own ledger: for every
\* chain, as long as no call fails and no polls overlap.
THEOREM MalformedEventStaysLocal ==
  Spec => []BadEventStaysLocal
<1>1. CalmInv => BadEventStaysLocal
  BY DEF CalmInv
<1> QED BY <1>1, CalmInvariance, PTL

\* Whatever is not in the reach of a malformed event is queued once.
THEOREM EventsAreQueuedOnce ==
  Spec => []QueuedOnce
<1>1. CalmInv => QueuedOnce
  BY DEF CalmInv
<1> QED BY <1>1, CalmInvariance, PTL

\* A poll that neither overlapped with another nor with a reset never takes the
\* pointer back, whatever fails.
THEOREM PointerOnlyAdvances ==
  Spec => PointerAdvances
<1>1. ASSUME CalmInv, [Next]_vars, ~interfered', pointer' # pointer PROVE pointer' >= pointer
  <2>0. Inv /\ Alone /\ Ahead /\ pointer \in Nat
    BY <1>1 DEF CalmInv, Inv, TypeOK
  <2>1. ASSUME NEW p \in Poll, Ends(p) PROVE pointer' >= pointer
    <3>1. /\ pc[p] # "idle" /\ interfered' = interfered
          /\ \/ pointer' = pointer \/ pointer' = pointer + 1
             \/ pc[p] = "queueing" /\ pointer' = LedgerOf[last[p]]
      BY <2>0, <2>1, EndsMoves DEF Inv
    <3>2. CASE pointer' = pointer + 1
      BY <2>0, <3>2
    <3>3. CASE pc[p] = "queueing" /\ pointer' = LedgerOf[last[p]]
      <4>1. from[p] = pointer + 1 /\ LedgerOf[last[p]] >= from[p] /\ last[p] \in ChainEvent
        BY <1>1, <2>0, <3>1, <3>3 DEF Alone, Ahead, Inv, Reading
      <4>2. LedgerOf[last[p]] \in Nat
        BY <4>1 DEF ChainLedger
      <4> QED BY <2>0, <3>3, <4>1, <4>2
    <3> QED BY <1>1, <3>1, <3>2, <3>3
  <2>2. CASE \/ UNCHANGED vars \/ CloseLedger \/ Crash
             \/ \E p \in Poll : Start(p) \/ Fetched(p) \/ Enqueue(p)
    <3>1. UNCHANGED pointer
      BY <2>2 DEF vars, CloseLedger, Crash, Start, Fetched, Enqueue
    <3> QED BY <1>1, <3>1
  <2>3. ASSUME NEW l \in Resets, ResetLedger(l) PROVE FALSE
    BY <1>1, <2>3 DEF ResetLedger
  <2> QED BY <1>1, <2>1, <2>2, <2>3 DEF Next, Fails, Ends
<1>2. CalmInv => pointer >= pointer
  BY DEF CalmInv, Inv, TypeOK
<1>3. CalmInv /\ [Next]_vars => [~interfered' => pointer' >= pointer]_vars
  BY <1>1, <1>2
<1> QED
  BY <1>3, CalmInvariance, PTL DEF Spec, PointerAdvances
=============================================================================
