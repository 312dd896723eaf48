------------------------- MODULE RentPaymentsProofs -------------------------
(***************************************************************************)
(* The rent payment tracker for any number of tenants, overlapping polls,  *)
(* operations and faults, and any page size.  The argument: a poll carries *)
(* with it that everything up to the operation it has reached was handled, *)
(* it inherits that from the cursor it started with, and only a restart,   *)
(* which sets the cursor back to nothing, forgets what was tried.          *)
(***************************************************************************)
EXTENDS RentPayments, FiniteSetTheorems, TLAPS

Row == [op : Nat, lease : Tenants \union {NoLease}]
PollState == [pc : {"idle", "asked", "page"}, from : Nat, upto : Nat, next : Nat]

Typed ==
  /\ ledger \in Seq(Tenants \union {Other})
  /\ cursor \in 0 .. Len(ledger)
  /\ poll \in [Polls -> PollState]
  /\ history \in Seq(Row)

\* Every payment among the first n operations is recorded or was tried.
Tried(op) == op \in Recorded \union lost
Covered(n) == \A op \in 1 .. n : ledger[op] \in Tenants => Tried(op)

\* What a poll knows about its page.
PageOf(s) ==
  /\ poll[s].from <= Len(ledger) /\ Covered(poll[s].from)
  /\ poll[s].pc = "page" =>
       /\ poll[s].from <= poll[s].upto /\ poll[s].upto <= Len(ledger)
       /\ poll[s].from < poll[s].next /\ poll[s].next <= poll[s].upto + 1
       /\ Covered(poll[s].next - 1)

IInv == Typed /\ Covered(cursor) /\ \A s \in Polls : PageOf(s)

-----------------------------------------------------------------------------

\* A row more is an operation more.
LEMMA InsertAdds ==
  ASSUME Typed, NEW row, history' = Append(history, row)
  PROVE  ToSet(history') = ToSet(history) \union {row}
<1>1. history \in Seq(Row)
  BY DEF Typed
<1>2. /\ Len(history') = Len(history) + 1
      /\ history'[Len(history) + 1] = row
      /\ \A i \in 1 .. Len(history) : history'[i] = history[i]
      /\ DOMAIN history' = 1 .. Len(history) + 1
      /\ DOMAIN history = 1 .. Len(history)
      /\ Len(history) \in Nat
  BY <1>1
<1> QED BY <1>2 DEF ToSet

LEMMA InsertRecords ==
  ASSUME Typed, NEW op \in Nat, NEW t, history' = Append(history, [op |-> op, lease |-> t])
  PROVE  Recorded' = Recorded \union {op}
<1> DEFINE row == [op |-> op, lease |-> t]
<1>1. ToSet(history') = ToSet(history) \union {row}
  BY InsertAdds
<1>2. row.op = op
  OBVIOUS
<1> HIDE DEF row
<1> QED BY <1>1, <1>2 DEF Recorded

\* What was covered stays covered while nothing that was tried is forgotten.
LEMMA StaysCovered ==
  ASSUME NEW n \in Nat, Covered(n), Recorded \union lost \subseteq (Recorded \union lost)',
         \A op \in 1 .. n : ledger'[op] = ledger[op]
  PROVE  Covered(n)'
  BY DEF Covered, Tried

\* The polls that do not move keep what they know.
LEMMA OthersKeep ==
  ASSUME IInv, Recorded \union lost \subseteq (Recorded \union lost)',
         ledger' = ledger, NEW s \in Polls, NEW p \in PollState,
         poll' = [poll EXCEPT ![s] = p],
         NEW r \in Polls, r # s
  PROVE  PageOf(r)'
<1>1. poll'[r] = poll[r] /\ poll[r] \in PollState
  BY DEF IInv, Typed
<1>2. Len(ledger) \in Nat
  BY DEF IInv, Typed
<1>3. Covered(poll[r].from)'
  BY <1>1, StaysCovered DEF IInv, PageOf, PollState
<1>4. ASSUME poll[r].pc = "page" PROVE Covered(poll[r].next - 1)'
  <2>1. poll[r].next - 1 \in Nat
    BY <1>1, <1>4 DEF IInv, PageOf, PollState
  <2> QED BY <1>4, <2>1, StaysCovered DEF IInv, PageOf
<1> QED BY <1>1, <1>2, <1>3, <1>4 DEF IInv, PageOf

\* A step that handles at most one operation and then moves to the next one:
\* the operation is recorded, was tried, or is no payment.
LEMMA HandledStep ==
  ASSUME IInv, NEW s \in Polls, poll[s].pc = "page", poll[s].next <= poll[s].upto,
         poll' = [poll EXCEPT ![s].next = poll[s].next + 1],
         UNCHANGED <<ledger, cursor>>, history' \in Seq(Row),
         Recorded \union lost \subseteq (Recorded \union lost)',
         ledger[poll[s].next] \in Tenants => poll[s].next \in (Recorded \union lost)'
  PROVE  IInv'
<1> DEFINE p == [poll[s] EXCEPT !.next = poll[s].next + 1]
<1>1. poll[s] \in PollState
  BY DEF IInv, Typed
<1>a. p \in PollState
  BY <1>1 DEF PollState
<1>b. poll' = [poll EXCEPT ![s] = p]
  OBVIOUS
<1>c. poll'[s] = p
  BY <1>b DEF IInv, Typed
<1>2. p \in PollState /\ poll' = [poll EXCEPT ![s] = p] /\ poll'[s] = p
  BY <1>a, <1>b, <1>c
<1>3. /\ p.from = poll[s].from /\ p.upto = poll[s].upto /\ p.pc = "page"
      /\ p.next = poll[s].next + 1
  BY <1>1 DEF PollState
<1> HIDE DEF p
<1>4. Typed'
  BY <1>2 DEF IInv, Typed
<1>5. Covered(cursor)'
  <2>1. cursor \in Nat
    BY DEF IInv, Typed
  <2> QED BY <2>1, StaysCovered DEF IInv
<1>6. PageOf(s)'
  <2>1. PICK n \in Nat : n = poll[s].next
    BY <1>1 DEF PollState
  <2>2. n > 0 /\ Covered(n - 1) /\ n - 1 \in Nat
    BY <1>1, <2>1 DEF IInv, PageOf, PollState
  <2>3. Covered(n - 1)'
    BY <2>2, StaysCovered
  <2>4. Covered(n)'
    BY <2>1, <2>2, <2>3 DEF Covered, Tried
  <2>5. PICK m \in Nat : m = poll[s].from
    BY <1>1 DEF PollState
  <2>6. Covered(m)'
    BY <2>5, StaysCovered DEF IInv, PageOf
  <2>7. /\ poll'[s].from = m /\ poll'[s].next = n + 1 /\ poll'[s].upto = poll[s].upto
        /\ poll'[s].pc = "page"
    BY <1>2, <1>3, <2>1, <2>5
  <2>8. n + 1 - 1 = n
    BY <2>1
  <2>9. /\ m <= Len(ledger) /\ m <= poll[s].upto /\ poll[s].upto <= Len(ledger)
        /\ m < n /\ n <= poll[s].upto
    BY <2>1, <2>5 DEF IInv, PageOf
  <2>10. poll[s].upto \in Nat
    BY <1>1 DEF PollState
  <2>11. m < n + 1 /\ n + 1 <= poll[s].upto + 1
    BY <2>1, <2>5, <2>9, <2>10
  <2> QED BY <2>4, <2>6, <2>7, <2>8, <2>9, <2>11 DEF PageOf
<1>7. \A r \in Polls : PageOf(r)'
  BY <1>2, <1>6, OthersKeep
<1> QED BY <1>4, <1>5, <1>7 DEF IInv

\* A poll starts, gets its page, fails, or ends.
LEMMA MoveStep ==
  ASSUME IInv, UNCHANGED <<ledger, history, lost>>, NEW s \in Polls,
         NEW p \in PollState, poll' = [poll EXCEPT ![s] = p],
         NEW c \in 0 .. Len(ledger), cursor' = c, Covered(c),
         p.from <= Len(ledger), Covered(p.from),
         p.pc = "page" => /\ p.from <= p.upto /\ p.upto <= Len(ledger)
                          /\ p.next = p.from + 1
  PROVE  IInv'
<1>1. poll'[s] = p
  BY DEF IInv, Typed
<1>2. Typed'
  BY DEF IInv, Typed
<1>3. (Recorded \union lost)' = Recorded \union lost
  BY DEF Recorded
<1>4. Covered(cursor)'
  BY StaysCovered, <1>3 DEF Covered, Tried
<1>5. PageOf(s)'
  <2>1. PICK m \in Nat : m = p.from
    BY DEF PollState
  <2>2. PICK u \in Nat : u = p.upto
    BY DEF PollState
  <2>3. Covered(m)'
    BY <2>1, <1>3, StaysCovered
  <2>4. poll'[s].from = m /\ poll'[s].upto = u /\ poll'[s].pc = p.pc
        /\ poll'[s].next = p.next
    BY <1>1, <2>1, <2>2
  <2>5. m <= Len(ledger')
    BY <2>1
  <2>6. ASSUME p.pc = "page"
        PROVE  /\ m <= u /\ u <= Len(ledger') /\ p.next = m + 1
               /\ m < m + 1 /\ m + 1 <= u + 1 /\ m + 1 - 1 = m
    BY <2>1, <2>2, <2>6
  <2> QED BY <2>3, <2>4, <2>5, <2>6 DEF PageOf
<1>6. \A r \in Polls : PageOf(r)'
  BY <1>3, <1>5, OthersKeep
<1> QED BY <1>2, <1>4, <1>6 DEF IInv

\* A step of the environment, of the lease rows or of the cache.
LEMMA AsideStep ==
  ASSUME IInv, UNCHANGED <<cursor, poll, history, lost>>,
         \/ ledger' = ledger
         \/ \E t \in Tenants \union {Other} : ledger' = Append(ledger, t)
  PROVE  IInv'
<1>1. /\ ledger' \in Seq(Tenants \union {Other})
      /\ Len(ledger) <= Len(ledger') /\ Len(ledger) \in Nat /\ Len(ledger') \in Nat
      /\ \A op \in 1 .. Len(ledger) : ledger'[op] = ledger[op]
  <2>1. ledger \in Seq(Tenants \union {Other})
    BY DEF IInv, Typed
  <2> QED BY <2>1
<1>2. ASSUME NEW n \in 0 .. Len(ledger), Covered(n) PROVE Covered(n)'
  <2>1. Recorded' = Recorded
    BY DEF Recorded
  <2>2. n \in Nat /\ \A op \in 1 .. n : ledger'[op] = ledger[op]
    BY <1>1
  <2> QED BY <1>2, <2>1, <2>2, StaysCovered
<1>3. Typed'
  BY <1>1 DEF IInv, Typed
<1>4. Covered(cursor)'
  BY <1>2 DEF IInv, Typed
<1>5. ASSUME NEW s \in Polls PROVE PageOf(s)'
  <2>1. poll[s] \in PollState
    BY DEF IInv, Typed
  <2>2. PICK m \in Nat : m = poll[s].from
    BY <2>1 DEF PollState
  <2>3. m <= Len(ledger) /\ Covered(m)
    BY <2>2 DEF IInv, PageOf
  <2>4. Covered(m)' /\ m <= Len(ledger')
    BY <1>1, <1>2, <2>3
  <2>5. ASSUME poll[s].pc = "page"
        PROVE  Covered(poll[s].next - 1)' /\ poll[s].upto <= Len(ledger')
    <3>1. PICK n \in Nat : n = poll[s].next
      BY <2>1 DEF PollState
    <3>2. PICK u \in Nat : u = poll[s].upto
      BY <2>1 DEF PollState
    <3>3. m < n /\ n <= u + 1 /\ u <= Len(ledger) /\ Covered(n - 1)
      BY <2>2, <2>5, <3>1, <3>2 DEF IInv, PageOf
    <3>4. PICK k \in 0 .. Len(ledger) : k = n - 1
      BY <1>1, <3>3
    <3>5. Covered(k)'
      BY <1>2, <3>3, <3>4
    <3>6. poll'[s].next - 1 = k /\ u <= Len(ledger')
      BY <1>1, <3>1, <3>3, <3>4
    <3> QED BY <3>2, <3>5, <3>6
  <2> QED BY <2>2, <2>4, <2>5 DEF IInv, PageOf
<1> QED BY <1>3, <1>4, <1>5 DEF IInv

\* A payment that is recorded, with a lease or without.
LEMMA InsertStep ==
  ASSUME IInv, NEW s \in Polls, poll[s].pc = "page", poll[s].next <= poll[s].upto,
         poll' = [poll EXCEPT ![s].next = poll[s].next + 1],
         UNCHANGED <<ledger, cursor, lost>>, ToRecord(poll[s].next),
         NEW done, Insert(poll[s].next, done)
  PROVE  IInv'
<1>1. PICK op \in Nat : op = poll[s].next
  BY DEF IInv, Typed, PollState
<1>2. op \in 1 .. Len(ledger)
  <2>1. poll[s].upto \in Nat /\ poll[s].from \in Nat /\ Len(ledger) \in Nat
    BY DEF IInv, Typed, PollState
  <2> QED BY <1>1, <2>1 DEF IInv, PageOf
<1>3. ledger[op] \in Tenants
  <2>1. ledger[op] \in Tenants \union {Other}
    BY <1>2 DEF IInv, Typed
  <2> QED BY <1>1, <2>1 DEF ToRecord
<1>4. PICK t \in Tenants \union {NoLease} : t = MatchedLease(op)
  BY <1>3 DEF MatchedLease
<1>5. history' = Append(history, [op |-> op, lease |-> t])
  BY <1>1, <1>4 DEF Insert
<1>6. [op |-> op, lease |-> t] \in Row
  BY DEF Row
<1>7. history' \in Seq(Row)
  BY <1>5, <1>6 DEF IInv, Typed
<1>8. Recorded' = Recorded \union {op}
  BY <1>5, InsertRecords DEF IInv
<1> QED BY <1>1, <1>7, <1>8, HandledStep

\* A poll after it has started, and after it has got its page.
LEMMA StartedPoll ==
  ASSUME NEW q \in PollState, NEW m \in Nat
  PROVE  \E p \in PollState : /\ p = [q EXCEPT !.pc = "asked", !.from = m]
                              /\ p.pc = "asked" /\ p.from = m
<1> DEFINE p == [q EXCEPT !.pc = "asked", !.from = m]
<1>1. p \in PollState
  BY DEF PollState
<1>2. p.pc = "asked" /\ p.from = m
  BY DEF PollState
<1> QED BY <1>1, <1>2

WithPage(q, m, n) == [q EXCEPT !.pc = "page", !.upto = m, !.next = n]

LEMMA PagePoll ==
  ASSUME NEW q \in PollState, NEW m \in Nat, NEW n \in Nat
  PROVE  LET p == WithPage(q, m, n)
         IN  /\ p \in PollState /\ p.pc = "page" /\ p.from = q.from
             /\ p.upto = m /\ p.next = n
<1>1. WithPage(q, m, n) \in PollState
  BY DEF PollState, WithPage
<1>2. /\ WithPage(q, m, n).pc = "page" /\ WithPage(q, m, n).from = q.from
      /\ WithPage(q, m, n).upto = m /\ WithPage(q, m, n).next = n
  BY DEF PollState, WithPage
<1> QED BY <1>1, <1>2

LEMMA InitInv == Init => IInv
<1> SUFFICES ASSUME Init PROVE IInv
  OBVIOUS
<1>1. Idle \in PollState
  BY DEF Idle, PollState
<1>2. Typed
  BY <1>1 DEF Init, Typed
<1>3. Covered(0)
  BY DEF Covered
<1>4. Covered(cursor)
  BY <1>3 DEF Init
<1>5. ASSUME NEW s \in Polls PROVE PageOf(s)
  <2>1. poll[s].pc = "idle" /\ poll[s].from = 0
    BY DEF Init, Idle
  <2>2. Len(ledger) \in Nat
    BY <1>2 DEF Typed
  <2> QED BY <1>3, <2>1, <2>2 DEF PageOf
<1> QED BY <1>2, <1>4, <1>5 DEF IInv

LEMMA InvStep == IInv /\ [Next]_vars => IInv'
<1> SUFFICES ASSUME IInv, [Next]_vars PROVE IInv'
  OBVIOUS
<1>0. Covered(0) /\ Covered(cursor) /\ cursor \in 0 .. Len(ledger) /\ Len(ledger) \in Nat
  BY DEF Covered, IInv, Typed
<1>i. Idle \in PollState /\ Idle.pc = "idle" /\ Idle.from = 0
  BY DEF Idle, PollState
<1>m. ASSUME NEW s \in Polls, poll' = [poll EXCEPT ![s] = Idle],
             UNCHANGED <<ledger, history, lost>>,
             NEW c \in 0 .. Len(ledger), cursor' = c, Covered(c)
      PROVE  IInv'
  <2>1. PICK p \in PollState : p = Idle
    BY <1>i
  <2>2. p.pc = "idle" /\ p.from = 0 /\ 0 <= Len(ledger) /\ Covered(p.from)
    BY <1>0, <1>i, <2>1
  <2> QED BY <1>m, <2>1, <2>2, MoveStep
<1>1. CASE UNCHANGED vars
  BY <1>1, AsideStep DEF vars, tables, statusCache
<1>2. CASE \E from \in Tenants \union {Other} : Pay(from)
  BY <1>2, AsideStep DEF Pay, tables
<1>3. CASE \E t \in Tenants : ToggleMatched(t) \/ GetLeaseStatus(t) \/ FillCache(t)
  BY <1>3, AsideStep DEF ToggleMatched, GetLeaseStatus, FillCache, tables
<1>4. ASSUME NEW s \in Polls, StartPoll(s) PROVE IInv'
  <2>1. PICK c \in 0 .. Len(ledger) : c = cursor /\ Covered(c) /\ c \in Nat /\ c <= Len(ledger)
    BY <1>0
  <2>2. PICK q \in PollState : q = Idle
    BY <1>i
  <2>3. PICK p \in PollState : /\ p = [q EXCEPT !.pc = "asked", !.from = c]
                              /\ p.pc = "asked" /\ p.from = c
    BY <2>1, StartedPoll
  <2>4. poll' = [poll EXCEPT ![s] = p]
    BY <1>4, <2>1, <2>2, <2>3 DEF StartPoll
  <2>5. p.pc = "asked" /\ p.from = c
    BY <2>3
  <2>6. UNCHANGED <<ledger, history, lost>> /\ cursor' = c
    BY <1>4, <2>1 DEF StartPoll, tables
  <2> QED BY <2>1, <2>4, <2>5, <2>6, MoveStep
<1>5. ASSUME NEW s \in Polls, FetchHorizon(s) PROVE IInv'
  <2>1. poll[s] \in PollState /\ poll[s].from <= Len(ledger) /\ Covered(poll[s].from)
    BY DEF IInv, Typed, PageOf
  <2>2. PICK from \in Nat : from = poll[s].from
    BY <2>1 DEF PollState
  <2>3. PICK end \in Nat :
           end = IF from + PageLimit < Len(ledger) THEN from + PageLimit ELSE Len(ledger)
    BY <1>0, PageLimitIsPositive
  <2>4. from <= end /\ end <= Len(ledger)
    BY <1>0, <2>1, <2>2, <2>3, PageLimitIsPositive
  <2>p. PICK next \in Nat : next = from + 1
    OBVIOUS
  <2>5. PICK p \in PollState : p = WithPage(poll[s], end, next)
    BY <2>1, PagePoll
  <2>6. p.pc = "page" /\ p.from = from /\ p.upto = end /\ p.next = from + 1
    <3>1. PICK q \in PollState : q = poll[s]
      BY <2>1
    <3>2. p = WithPage(q, end, next)
      BY <2>5, <3>1
    <3>3. p.pc = "page" /\ p.from = q.from /\ p.upto = end /\ p.next = next
      BY <3>2, PagePoll
    <3> QED BY <2>2, <2>p, <3>1, <3>3
  <2>8. poll' = [poll EXCEPT ![s] = p]
    <3>1. poll' = [poll EXCEPT ![s].pc = "page", ![s].upto = end, ![s].next = next]
      BY <1>5, <2>2, <2>3, <2>p DEF FetchHorizon
    <3>2. poll' = [poll EXCEPT ![s] = WithPage(poll[s], end, next)]
      BY <3>1 DEF IInv, Typed, WithPage
    <3> QED BY <2>5, <3>2
  <2>9. UNCHANGED <<ledger, history, lost, cursor>>
    BY <1>5 DEF FetchHorizon, tables
  <2> QED BY <1>0, <2>1, <2>2, <2>4, <2>6, <2>8, <2>9, MoveStep
<1>6. ASSUME NEW s \in Polls, ProcessPaymentOperation(s) PROVE IInv'
  <2>1. /\ poll[s].pc = "page" /\ poll[s].next <= poll[s].upto
        /\ poll' = [poll EXCEPT ![s].next = poll[s].next + 1]
        /\ UNCHANGED <<ledger, cursor, lost>>
    BY <1>6 DEF ProcessPaymentOperation
  <2>2. CASE ToRecord(poll[s].next)
    <3>1. Insert(poll[s].next, 3)
      BY <1>6, <2>2 DEF ProcessPaymentOperation
    <3> QED BY <2>1, <2>2, <3>1, InsertStep
  <2>3. CASE ~ToRecord(poll[s].next)
    <3>1. history' = history
      BY <1>6, <2>3 DEF ProcessPaymentOperation, tables
    <3>2. Recorded' = Recorded /\ history' \in Seq(Row)
      BY <3>1 DEF Recorded, IInv, Typed
    <3>3. ledger[poll[s].next] \in Tenants => poll[s].next \in Recorded
      BY <2>3, OtherIsNoTenant DEF ToRecord
    <3> QED BY <2>1, <3>2, <3>3, HandledStep
  <2> QED BY <2>2, <2>3
<1>7. ASSUME NEW s \in Polls, EndPoll(s) PROVE IInv'
  <2>1. poll[s] \in PollState /\ PageOf(s) /\ poll[s].pc = "page"
        /\ poll[s].next > poll[s].upto
    BY <1>7 DEF EndPoll, IInv, Typed
  <2>2. PICK u \in Nat : u = poll[s].upto
    BY <2>1 DEF PollState
  <2>3. poll[s].next - 1 = u
    BY <2>1, <2>2 DEF PageOf, PollState
  <2>4. Covered(u) /\ u \in 0 .. Len(ledger)
    BY <1>0, <2>1, <2>2, <2>3 DEF PageOf
  <2>5. PICK c \in 0 .. Len(ledger) : cursor' = c /\ Covered(c)
    BY <1>0, <1>7, <2>2, <2>4 DEF EndPoll
  <2>6. poll' = [poll EXCEPT ![s] = Idle] /\ UNCHANGED <<ledger, history, lost>>
    BY <1>7 DEF EndPoll, tables
  <2> QED BY <1>m, <2>5, <2>6
<1>8. ASSUME NEW s \in Polls, FetchHorizonFails(s) PROVE IInv'
  <2>1. poll' = [poll EXCEPT ![s] = Idle] /\ UNCHANGED <<ledger, history, lost, cursor>>
    BY <1>8 DEF FetchHorizonFails, tables
  <2>2. PICK c \in 0 .. Len(ledger) : c = cursor
    BY <1>0
  <2> QED BY <1>0, <1>m, <2>1, <2>2
<1>9. ASSUME NEW s \in Polls, InsertPaymentFails(s) PROVE IInv'
  <2>1. /\ poll[s].pc = "page" /\ poll[s].next <= poll[s].upto
        /\ poll' = [poll EXCEPT ![s].next = poll[s].next + 1]
        /\ UNCHANGED <<ledger, cursor, history>>
        /\ lost' = lost \union {poll[s].next}
    BY <1>9 DEF InsertPaymentFails, tables
  <2>2. Recorded' = Recorded /\ history' \in Seq(Row)
    BY <2>1 DEF Recorded, IInv, Typed
  <2> QED BY <2>1, <2>2, HandledStep
<1>10. ASSUME NEW s \in Polls, UpdateLeaseFails(s) PROVE IInv'
  <2>1. /\ poll[s].pc = "page" /\ poll[s].next <= poll[s].upto
        /\ poll' = [poll EXCEPT ![s].next = poll[s].next + 1]
        /\ UNCHANGED <<ledger, cursor, lost>>
        /\ ToRecord(poll[s].next)
        /\ \E done \in 0 .. 2 : Insert(poll[s].next, done)
    BY <1>10 DEF UpdateLeaseFails
  <2> QED BY <2>1, InsertStep
<1>11. CASE Crash
  <2>1. /\ cursor' = 0 /\ poll' = [s \in Polls |-> Idle]
        /\ UNCHANGED <<ledger, history>>
    BY <1>11 DEF Crash, tables
  <2>2. Typed'
    BY <1>0, <1>i, <2>1 DEF IInv, Typed
  <2>3. Covered(0)'
    BY DEF Covered
  <2>4. ASSUME NEW s \in Polls PROVE PageOf(s)'
    <3>1. poll'[s].pc = "idle" /\ poll'[s].from = 0
      BY <1>i, <2>1
    <3>2. 0 <= Len(ledger')
      BY <1>0, <2>1
    <3> QED BY <2>3, <3>1, <3>2 DEF PageOf
  <2> QED BY <2>1, <2>2, <2>3, <2>4 DEF IInv
<1> QED BY <1>1, <1>2, <1>3, <1>4, <1>5, <1>6, <1>7, <1>8, <1>9, <1>10, <1>11
        DEF Next, PollStep

LEMMA Invariance == Spec => []IInv
  BY InitInv, InvStep, PTL DEF Spec

\* However polls overlap, fail or are cut off by a restart: a payment the
\* cursor has passed is in payment_history, unless its INSERT threw in this
\* process (RentPaymentTrackerService.poll).
THEOREM CursorSkipsNothingElse == Spec => []OnlyFailedInsertsAreSkipped
<1>1. IInv => OnlyFailedInsertsAreSkipped
  BY DEF IInv, Covered, Tried, OnlyFailedInsertsAreSkipped
<1> QED BY <1>1, Invariance, PTL

-----------------------------------------------------------------------------
(* The books                                                               *)

LeaseRow == [matched : BOOLEAN, status : PaymentStatus, last : Nat, credit : Nat]
Status == PaymentStatus \union {NotCached}

\* A poll without a page has no place in one.
PollInv == \A s \in Polls : poll[s].pc # "page" => poll[s].upto = 0 /\ poll[s].next = 0

\* Rows and failures are about operations of the account.
LedgerInv ==
  /\ Len(ledger) <= MaxOps
  /\ \A row \in ToSet(history) :
        row.op \in 1 .. Len(ledger) /\ row.lease \in {ledger[row.op], NoLease}
  /\ lost \subseteq cut /\ cut \subseteq 1 .. Len(ledger)

LeaseInv ==
  /\ lease \in [Tenants -> LeaseRow]
  /\ \A t \in Tenants : lease[t].last <= Len(ledger)

\* Neither the cache nor a request on its way to it is ahead of the lease.
CacheInv ==
  /\ cache \in [Tenants -> Status] /\ filling \in [Tenants -> Status]
  /\ \A t \in Tenants : cache[t] = "paid" \/ filling[t] = "paid" => lease[t].status = "paid"

Bounds == disputes \in 0 .. MaxDisputes /\ faults \in 0 .. MaxFaults

CountInv ==
  /\ IsFiniteSet(Recorded) /\ Cardinality(Recorded) = Len(history)
  /\ \A t \in Tenants : /\ IsFiniteSet(RowsOf(t)) /\ Cardinality(RowsOf(t)) <= Len(history)
                         /\ lease[t].credit <= Cardinality(RowsOf(t))

\* The lease row tells what its payments say.
Shows(t) ==
  /\ lease[t].status = "paid" <=> RowsOf(t) # {}
  /\ \A row \in RowsOf(t) : row.op <= lease[t].last
  /\ t \in Buyers => lease[t].credit = Cardinality(RowsOf(t))

\* What is recorded is a first part of the account's payments, in their order.
InOrder ==
  /\ \A i, j \in DOMAIN history : i < j => history[i].op < history[j].op
  /\ \A done \in Recorded, op \in 1 .. Len(ledger) :
        op < done /\ ledger[op] \in Tenants => op \in Recorded
  /\ \A t \in Tenants : Shows(t)

OrderInv == cut = {} => InOrder

Books == LedgerInv /\ LeaseInv /\ CacheInv /\ Bounds /\ CountInv /\ OrderInv

\* A step that records nothing leaves the books in order.
LEMMA NothingRecorded ==
  ASSUME IInv, Books, history' = history,
         \/ ledger' = ledger
         \/ \E t \in Tenants \union {Other} : ledger' = Append(ledger, t),
         Len(ledger') <= MaxOps, lease' \in [Tenants -> LeaseRow],
         \A t \in Tenants : /\ lease'[t].status = lease[t].status
                            /\ lease'[t].last = lease[t].last
                            /\ lease'[t].credit = lease[t].credit,
         lost' \subseteq cut', cut \subseteq cut', cut' \subseteq cut \union 1 .. Len(ledger),
         CacheInv', Bounds'
  PROVE  Books'
<1>1. /\ Len(ledger) \in Nat /\ Len(ledger') \in Nat /\ Len(ledger) <= Len(ledger')
      /\ 1 .. Len(ledger) \subseteq 1 .. Len(ledger')
      /\ \A op \in 1 .. Len(ledger) : ledger'[op] = ledger[op]
  <2>1. ledger \in Seq(Tenants \union {Other})
    BY DEF IInv, Typed
  <2> QED BY <2>1
<1>2. Recorded' = Recorded /\ \A t : RowsOf(t)' = RowsOf(t)
  BY DEF Recorded, RowsOf
<1>3. LedgerInv'
  BY <1>1 DEF Books, LedgerInv
<1>4. LeaseInv'
  <2> SUFFICES ASSUME NEW t \in Tenants PROVE lease'[t].last <= Len(ledger')
    BY DEF LeaseInv
  <2>1. lease[t].last \in Nat /\ lease[t].last <= Len(ledger)
    BY DEF Books, LeaseInv, LeaseRow
  <2> QED BY <1>1, <2>1
<1>5. CountInv'
  BY <1>2 DEF Books, CountInv
<1>6. OrderInv'
  <2> SUFFICES ASSUME cut' = {} PROVE InOrder'
    BY DEF OrderInv
  <2>1. cut = {}
    OBVIOUS
  <2>2. \A i, j \in DOMAIN history' : i < j => history'[i].op < history'[j].op
    BY <2>1 DEF Books, OrderInv, InOrder
  <2>3. ASSUME NEW done \in Recorded, NEW op \in 1 .. Len(ledger'),
               op < done, ledger'[op] \in Tenants
        PROVE  op \in Recorded
    <3>1. done \in 1 .. Len(ledger)
      BY DEF Books, LedgerInv, Recorded
    <3>2. op \in 1 .. Len(ledger)
      BY <1>1, <2>3, <3>1
    <3> QED BY <1>1, <2>1, <2>3, <3>2 DEF Books, OrderInv, InOrder
  <2>4. \A t \in Tenants : Shows(t)'
    BY <1>2, <2>1 DEF Books, OrderInv, InOrder, Shows
  <2> QED BY <1>2, <2>2, <2>3, <2>4 DEF InOrder
<1> QED BY <1>3, <1>4, <1>5, <1>6 DEF Books

\* The row that is added, and what it adds to.
LEMMA RowAdded ==
  ASSUME IInv, NEW op \in 1 .. Len(ledger), ToRecord(op), NEW done, Insert(op, done)
  PROVE  \E t \in {ledger[op], NoLease} : \E row \in Row :
           /\ ledger[op] \in Tenants
           /\ t = MatchedLease(op) /\ row.op = op /\ row.lease = t
           /\ history' = Append(history, row)
           /\ ToSet(history') = ToSet(history) \union {row} /\ row \notin ToSet(history)
           /\ Recorded' = Recorded \union {op} /\ op \notin Recorded
           /\ \A u \in Tenants :
                 RowsOf(u)' = IF u = t THEN RowsOf(u) \union {row} ELSE RowsOf(u)
<1>1. PICK t : t = MatchedLease(op)
  OBVIOUS
<1>2. ledger[op] \in Tenants /\ op \notin Recorded
  BY DEF IInv, Typed, ToRecord
<1>3. t \in {ledger[op], NoLease} /\ t \in Tenants \union {NoLease} /\ op \in Nat
  BY <1>1, <1>2 DEF MatchedLease
<1>4. PICK row \in Row : row = [op |-> op, lease |-> t]
  BY <1>3 DEF Row
<1>5. row.op = op /\ row.lease = t
  BY <1>4
<1>6. history' = Append(history, row)
  BY <1>1, <1>4 DEF Insert
<1>7. ToSet(history') = ToSet(history) \union {row}
  BY <1>6, InsertAdds DEF IInv
<1>8. row \notin ToSet(history)
  BY <1>2, <1>5 DEF Recorded
<1>9. Recorded' = Recorded \union {op}
  BY <1>5, <1>7 DEF Recorded
<1>10. ASSUME NEW u \in Tenants
       PROVE  RowsOf(u)' = IF u = t THEN RowsOf(u) \union {row} ELSE RowsOf(u)
  BY <1>5, <1>7 DEF RowsOf
<1> QED BY <1>1, <1>2, <1>3, <1>5, <1>6, <1>7, <1>8, <1>9, <1>10

\* What the statements after the INSERT leave in the lease rows.
LEMMA LeaseUpdated ==
  ASSUME LeaseInv, NEW op \in 1 .. Len(ledger), Len(ledger) \in Nat,
         NEW done \in 0 .. 3, Insert(op, done)
  PROVE  /\ lease' \in [Tenants -> LeaseRow]
         /\ \A u \in Tenants :
              /\ u # MatchedLease(op) => lease'[u] = lease[u]
              /\ u = MatchedLease(op) =>
                   /\ lease'[u].status = IF done >= 1 THEN "paid" ELSE lease[u].status
                   /\ lease'[u].last = IF done >= 1 THEN op ELSE lease[u].last
                   /\ lease'[u].credit = IF done >= 3 /\ u \in Buyers THEN lease[u].credit + 1
                                         ELSE lease[u].credit
<1>1. PICK t : t = MatchedLease(op)
  OBVIOUS
<1>2. CASE t = NoLease
  BY <1>1, <1>2, NoLeaseIsNoTenant DEF Insert, LeaseInv
<1>3. CASE t # NoLease
  <2>1. PICK row : row = Updated(lease[t], t, op, done)
    OBVIOUS
  <2>2. lease' = [lease EXCEPT ![t] = row]
    BY <1>1, <1>3, <2>1 DEF Insert
  <2>3. ASSUME t \in Tenants
        PROVE  /\ row \in LeaseRow
               /\ row.status = IF done >= 1 THEN "paid" ELSE lease[t].status
               /\ row.last = IF done >= 1 THEN op ELSE lease[t].last
               /\ row.credit = IF done >= 3 /\ t \in Buyers THEN lease[t].credit + 1
                               ELSE lease[t].credit
    <3>1. PICK old \in LeaseRow : old = lease[t]
      BY <2>3 DEF LeaseInv
    <3>2. PICK status \in PaymentStatus : status = IF done >= 1 THEN "paid" ELSE old.status
      BY <3>1 DEF LeaseRow, PaymentStatus
    <3>3. PICK last \in Nat : last = IF done >= 1 THEN op ELSE old.last
      BY <3>1 DEF LeaseRow
    <3>4. PICK credit \in Nat :
             credit = IF done >= 3 /\ t \in Buyers THEN old.credit + 1 ELSE old.credit
      BY <3>1 DEF LeaseRow
    <3>5. row = [old EXCEPT !.status = status, !.last = last, !.credit = credit]
      BY <2>1, <3>1, <3>2, <3>3, <3>4 DEF Updated, LeaseRow
    <3>6. row \in LeaseRow /\ row.status = status /\ row.last = last /\ row.credit = credit
      BY <3>5 DEF LeaseRow
    <3> QED BY <3>1, <3>2, <3>3, <3>4, <3>6
  <2> QED BY <1>1, <2>2, <2>3 DEF LeaseInv
<1> QED BY <1>2, <1>3

\* A payment is recorded, after everything before it.
LEMMA PaymentRecorded ==
  ASSUME IInv, Books, NEW op \in 1 .. Len(ledger), Covered(op - 1), ToRecord(op),
         NEW done \in 0 .. 3, Insert(op, done), UNCHANGED <<ledger, cache, filling, lost>>,
         Bounds', cut' = (IF done = 3 THEN cut ELSE cut \union {op})
                  \/ cut' = cut \union {op}
  PROVE  Books'
<1>1. PICK t \in {ledger[op], NoLease}, row \in Row :
         /\ ledger[op] \in Tenants
         /\ t = MatchedLease(op) /\ row.op = op /\ row.lease = t
         /\ history' = Append(history, row)
         /\ ToSet(history') = ToSet(history) \union {row} /\ row \notin ToSet(history)
         /\ Recorded' = Recorded \union {op} /\ op \notin Recorded
         /\ \A u \in Tenants :
               RowsOf(u)' = IF u = t THEN RowsOf(u) \union {row} ELSE RowsOf(u)
  BY RowAdded
<1>2. Len(ledger) \in Nat /\ op \in Nat
  BY DEF IInv, Typed
<1>3. /\ lease' \in [Tenants -> LeaseRow] /\ lease \in [Tenants -> LeaseRow]
      /\ \A u \in Tenants :
           /\ u # t => lease'[u] = lease[u]
           /\ u = t =>
                /\ lease'[u].status = IF done >= 1 THEN "paid" ELSE lease[u].status
                /\ lease'[u].last = IF done >= 1 THEN op ELSE lease[u].last
                /\ lease'[u].credit = IF done >= 3 /\ u \in Buyers THEN lease[u].credit + 1
                                      ELSE lease[u].credit
  BY <1>1, <1>2, LeaseUpdated DEF Books, LeaseInv
<1>4. /\ Len(history') = Len(history) + 1 /\ Len(history) \in Nat
      /\ DOMAIN history' = 1 .. Len(history) + 1 /\ DOMAIN history = 1 .. Len(history)
      /\ history'[Len(history) + 1] = row
      /\ \A i \in 1 .. Len(history) : history'[i] = history[i]
  <2>1. history \in Seq(Row)
    BY DEF IInv, Typed
  <2> QED BY <1>1, <2>1
<1>5. LedgerInv'
  <2>1. lost' \subseteq cut' /\ cut' \subseteq 1 .. Len(ledger')
    BY DEF Books, LedgerInv
  <2>2. \A r \in ToSet(history') :
           r.op \in 1 .. Len(ledger') /\ r.lease \in {ledger'[r.op], NoLease}
    BY <1>1 DEF Books, LedgerInv
  <2> QED BY <2>1, <2>2 DEF Books, LedgerInv
<1>6. LeaseInv'
  <2> SUFFICES ASSUME NEW u \in Tenants PROVE lease'[u].last <= Len(ledger)
    BY <1>3 DEF LeaseInv
  <2>1. lease[u].last <= Len(ledger) /\ op <= Len(ledger)
    BY <1>2 DEF Books, LeaseInv
  <2> QED BY <1>3, <2>1
<1>7. CacheInv'
  <2> SUFFICES ASSUME NEW u \in Tenants, cache[u] = "paid" \/ filling[u] = "paid"
               PROVE  lease'[u].status = "paid"
    BY DEF Books, CacheInv
  <2>1. lease[u].status = "paid"
    BY DEF Books, CacheInv
  <2> QED BY <1>3, <2>1
<1>8. CountInv'
  <2>1. IsFiniteSet(Recorded') /\ Cardinality(Recorded') = Len(history')
    <3>1. IsFiniteSet(Recorded) /\ Cardinality(Recorded) = Len(history)
      BY DEF Books, CountInv
    <3>2. PICK R : R = Recorded \union {op}
      OBVIOUS
    <3>3. IsFiniteSet(R) /\ Cardinality(R) = Cardinality(Recorded) + 1
      BY <1>1, <3>1, <3>2, FS_AddElement
    <3> QED BY <1>1, <1>4, <3>1, <3>2, <3>3
  <2>2. ASSUME NEW u \in Tenants
        PROVE  /\ IsFiniteSet(RowsOf(u)') /\ Cardinality(RowsOf(u)') <= Len(history')
               /\ lease'[u].credit <= Cardinality(RowsOf(u)')
    <3>1. /\ IsFiniteSet(RowsOf(u)) /\ Cardinality(RowsOf(u)) <= Len(history)
          /\ lease[u].credit <= Cardinality(RowsOf(u))
      BY DEF Books, CountInv
    <3>2. lease[u].credit \in Nat
      BY <1>3 DEF LeaseRow
    <3>3. Cardinality(RowsOf(u)) \in Nat
      BY <3>1, FS_CardinalityType
    <3>4. CASE u = t
      <4>1. row \notin RowsOf(u)
        BY <1>1 DEF RowsOf
      <4>2. RowsOf(u)' = RowsOf(u) \union {row}
        BY <1>1, <3>4
      <4>3. IsFiniteSet(RowsOf(u)') /\ Cardinality(RowsOf(u)') = Cardinality(RowsOf(u)) + 1
        BY <3>1, <4>1, <4>2, FS_AddElement
      <4>4. lease'[u].credit = lease[u].credit \/ lease'[u].credit = lease[u].credit + 1
        BY <1>3, <3>4
      <4> QED BY <1>4, <3>1, <3>2, <3>3, <4>3, <4>4
    <3>5. CASE u # t
      <4>1. RowsOf(u)' = RowsOf(u) /\ lease'[u] = lease[u]
        BY <1>1, <1>3, <3>5
      <4> QED BY <1>4, <3>1, <3>3, <4>1
    <3> QED BY <3>4, <3>5
  <2> QED BY <2>1, <2>2 DEF CountInv
<1>9. OrderInv'
  <2> SUFFICES ASSUME cut' = {} PROVE InOrder'
    BY DEF OrderInv
  <2>1. cut = {} /\ done = 3 /\ lost = {}
    BY DEF Books, LedgerInv
  <2>2. InOrder
    BY <2>1 DEF Books, OrderInv
  <2>3. \A q \in 1 .. Len(ledger) : q < op /\ ledger[q] \in Tenants => q \in Recorded
    BY <1>2, <2>1 DEF Covered, Tried
  <2>4. \A r \in Recorded : r \in 1 .. Len(ledger) /\ r < op
    <3> SUFFICES ASSUME NEW r \in Recorded PROVE r \in 1 .. Len(ledger) /\ r < op
      OBVIOUS
    <3>1. r \in 1 .. Len(ledger) /\ r \in Nat
      BY <1>2 DEF Books, LedgerInv, Recorded
    <3>2. r # op /\ ~(op < r)
      BY <1>1, <2>2 DEF InOrder
    <3> QED BY <1>2, <3>1, <3>2
  <2>5. ASSUME NEW i \in DOMAIN history', NEW j \in DOMAIN history', i < j
        PROVE  history'[i].op < history'[j].op
    <3>1. i \in 1 .. Len(history) /\ i \in DOMAIN history /\ history'[i] = history[i]
      BY <1>4, <2>5
    <3>2. CASE j = Len(history) + 1
      <4>1. history[i].op \in Recorded
        BY <3>1 DEF Recorded, ToSet
      <4> QED BY <1>1, <1>4, <2>4, <3>1, <3>2, <4>1
    <3>3. CASE j # Len(history) + 1
      <4>1. j \in 1 .. Len(history) /\ j \in DOMAIN history /\ history'[j] = history[j]
        BY <1>4, <3>3
      <4> QED BY <2>2, <2>5, <3>1, <4>1 DEF InOrder
    <3> QED BY <3>2, <3>3
  <2>6. ASSUME NEW r \in Recorded', NEW q \in 1 .. Len(ledger'),
               q < r, ledger'[q] \in Tenants
        PROVE  q \in Recorded'
    <3>1. CASE r = op
      BY <1>1, <2>3, <2>6, <3>1
    <3>2. CASE r \in Recorded
      BY <1>1, <2>2, <2>6, <3>2 DEF InOrder
    <3> QED BY <1>1, <3>1, <3>2
  <2>7. ASSUME NEW u \in Tenants PROVE Shows(u)'
    <3>1. Shows(u)
      BY <2>2 DEF InOrder
    <3>2. CASE u # t
      <4>1. RowsOf(u)' = RowsOf(u) /\ lease'[u] = lease[u]
        BY <1>1, <1>3, <3>2
      <4> QED BY <3>1, <4>1 DEF Shows
    <3>3. CASE u = t
      <4>1. RowsOf(u)' = RowsOf(u) \union {row} /\ row \notin RowsOf(u)
        BY <1>1, <3>3 DEF RowsOf
      <4>2. /\ lease'[u].status = "paid" /\ lease'[u].last = op
            /\ u \in Buyers => lease'[u].credit = lease[u].credit + 1
        BY <1>3, <2>1, <3>3
      <4>3. \A r \in RowsOf(u)' : r.op <= op
        <5> SUFFICES ASSUME NEW r \in RowsOf(u), r # row PROVE r.op <= op
          BY <1>1, <1>2, <4>1
        <5>1. r.op \in Recorded
          BY DEF RowsOf, Recorded
        <5>2. r.op < op /\ r.op \in Nat
          BY <1>2, <2>4, <5>1
        <5> QED BY <1>2, <5>2
      <4>4. u \in Buyers => lease'[u].credit = Cardinality(RowsOf(u)')
        <5>1. IsFiniteSet(RowsOf(u))
          BY DEF Books, CountInv
        <5>2. Cardinality(RowsOf(u)') = Cardinality(RowsOf(u)) + 1
          BY <4>1, <5>1, FS_AddElement
        <5>3. u \in Buyers => lease[u].credit = Cardinality(RowsOf(u))
          BY <3>1 DEF Shows
        <5> QED BY <4>2, <5>2, <5>3
      <4> QED BY <4>1, <4>2, <4>3, <4>4 DEF Shows
    <3> QED BY <3>2, <3>3
  <2> QED BY <2>5, <2>6, <2>7 DEF InOrder
<1> QED BY <1>5, <1>6, <1>7, <1>8, <1>9 DEF Books

\* The operation a poll is about to handle comes after what it has covered.
LEMMA NextOperation ==
  ASSUME IInv, NEW s \in Polls, poll[s].pc = "page", poll[s].next <= poll[s].upto
  PROVE  poll[s].next \in 1 .. Len(ledger) /\ Covered(poll[s].next - 1)
<1>1. poll[s] \in PollState /\ PageOf(s) /\ Len(ledger) \in Nat
  BY DEF IInv, Typed
<1>2. poll[s].from \in Nat /\ poll[s].next \in Nat /\ poll[s].upto \in Nat
  BY <1>1 DEF PollState
<1>3. /\ poll[s].from < poll[s].next /\ poll[s].upto <= Len(ledger)
      /\ Covered(poll[s].next - 1)
  BY <1>1 DEF PageOf
<1> QED BY <1>1, <1>2, <1>3

LEMMA FaultType == ASSUME Bounds, faults < MaxFaults PROVE faults + 1 \in 0 .. MaxFaults
  BY PaymentBounds DEF Bounds

LEMMA BooksStep == IInv /\ Books /\ [Next]_vars => Books'
<1> SUFFICES ASSUME IInv, Books, [Next]_vars PROVE Books'
  OBVIOUS
<1>0. /\ lease \in [Tenants -> LeaseRow] /\ cache \in [Tenants -> Status]
      /\ filling \in [Tenants -> Status] /\ Len(ledger) \in Nat /\ Len(ledger) <= MaxOps
      /\ lost \subseteq cut /\ Bounds /\ CacheInv
  BY DEF Books, LeaseInv, CacheInv, LedgerInv, IInv, Typed
<1>q. ASSUME UNCHANGED <<ledger, history, lease, cache, filling, disputes>>,
             faults' \in 0 .. MaxFaults, cut \subseteq cut', lost' \subseteq cut',
             cut' \subseteq cut \union 1 .. Len(ledger)
      PROVE  Books'
  <2>1. CacheInv' /\ Bounds'
    BY <1>0, <1>q DEF CacheInv, Bounds
  <2> QED BY <1>0, <1>q, <2>1, NothingRecorded
<1>1. CASE UNCHANGED vars
  <2>1. UNCHANGED <<ledger, history, lease, cache, filling, disputes, faults, lost, cut>>
    BY <1>1 DEF vars
  <2> QED BY <1>0, <1>q, <2>1 DEF Bounds
<1>2. ASSUME NEW from \in Tenants \union {Other}, Pay(from) PROVE Books'
  <2>1. /\ ledger' = Append(ledger, from) /\ Len(ledger) < MaxOps
        /\ UNCHANGED <<history, lease, cache, filling, disputes, faults, lost, cut>>
    BY <1>2 DEF Pay, tables, statusCache
  <2>2. Len(ledger') = Len(ledger) + 1
    <3>1. ledger \in Seq(Tenants \union {Other})
      BY DEF IInv, Typed
    <3> QED BY <2>1, <3>1
  <2>3. Len(ledger') <= MaxOps
    BY <1>0, <2>1, <2>2, PaymentBounds
  <2>4. CacheInv' /\ Bounds'
    BY <1>0, <2>1 DEF CacheInv, Bounds
  <2> QED BY <1>0, <2>1, <2>3, <2>4, NothingRecorded
<1>3. ASSUME NEW t \in Tenants, ToggleMatched(t) PROVE Books'
  <2>1. /\ disputes < MaxDisputes /\ disputes' = disputes + 1
        /\ lease' = [lease EXCEPT ![t].matched = ~@]
        /\ UNCHANGED <<ledger, history, cache, filling, faults, lost, cut>>
    BY <1>3 DEF ToggleMatched, statusCache
  <2>2. PICK row : row = [lease[t] EXCEPT !.matched = ~lease[t].matched]
    OBVIOUS
  <2>3. /\ row \in LeaseRow /\ row.status = lease[t].status /\ row.last = lease[t].last
        /\ row.credit = lease[t].credit
    BY <1>0, <2>2 DEF LeaseRow
  <2>4. lease' = [lease EXCEPT ![t] = row]
    BY <2>1, <2>2
  <2>5. /\ lease' \in [Tenants -> LeaseRow]
        /\ \A u \in Tenants : /\ lease'[u].status = lease[u].status
                              /\ lease'[u].last = lease[u].last
                              /\ lease'[u].credit = lease[u].credit
    BY <1>0, <2>3, <2>4
  <2>6. CacheInv'
    BY <1>0, <2>1, <2>5 DEF CacheInv
  <2>7. Bounds'
    BY <1>0, <2>1, PaymentBounds DEF Bounds
  <2> QED BY <1>0, <2>1, <2>5, <2>6, <2>7, NothingRecorded
<1>4. ASSUME NEW t \in Tenants, GetLeaseStatus(t) PROVE Books'
  <2>1. /\ filling' = [filling EXCEPT ![t] = lease[t].status]
        /\ UNCHANGED <<ledger, history, lease, cache, disputes, faults, lost, cut>>
    BY <1>4 DEF GetLeaseStatus, tables
  <2>2. lease[t].status \in Status
    BY <1>0 DEF LeaseRow, Status
  <2>3. CacheInv' /\ Bounds'
    BY <1>0, <2>1, <2>2 DEF CacheInv, Bounds
  <2> QED BY <1>0, <2>1, <2>3, NothingRecorded
<1>5. ASSUME NEW t \in Tenants, FillCache(t) PROVE Books'
  <2>1. /\ cache' = [cache EXCEPT ![t] = filling[t]]
        /\ filling' = [filling EXCEPT ![t] = NotCached]
        /\ UNCHANGED <<ledger, history, lease, disputes, faults, lost, cut>>
    BY <1>5 DEF FillCache, tables
  <2>2. NotCached \in Status /\ NotCached # "paid"
    BY DEF Status, NotCached
  <2>3. CacheInv' /\ Bounds'
    BY <1>0, <2>1, <2>2 DEF CacheInv, Bounds
  <2> QED BY <1>0, <2>1, <2>3, NothingRecorded
<1>6. ASSUME NEW s \in Polls,
             StartPoll(s) \/ FetchHorizon(s) \/ EndPoll(s) \/ FetchHorizonFails(s)
      PROVE  Books'
  <2>1. UNCHANGED <<ledger, history, lease, cache, filling, disputes, lost, cut>>
    BY <1>6 DEF StartPoll, FetchHorizon, EndPoll, FetchHorizonFails, tables, statusCache
  <2>2. faults' = faults \/ (faults < MaxFaults /\ faults' = faults + 1)
    BY <1>6 DEF StartPoll, FetchHorizon, EndPoll, FetchHorizonFails
  <2> QED BY <1>0, <1>q, <2>1, <2>2, FaultType DEF Bounds
<1>7. ASSUME NEW s \in Polls, ProcessPaymentOperation(s) PROVE Books'
  <2>1. PICK op \in 1 .. Len(ledger) : op = poll[s].next /\ Covered(op - 1)
    BY <1>7, NextOperation DEF ProcessPaymentOperation
  <2>2. UNCHANGED <<ledger, cache, filling, disputes, faults, lost, cut>>
    BY <1>7 DEF ProcessPaymentOperation, statusCache
  <2>3. CASE ToRecord(op)
    <3>1. Insert(op, 3) /\ Bounds'
      BY <1>0, <1>7, <2>1, <2>2, <2>3 DEF ProcessPaymentOperation, Bounds
    <3> QED BY <2>1, <2>2, <2>3, <3>1, PaymentRecorded
  <2>4. CASE ~ToRecord(op)
    <3>1. UNCHANGED <<history, lease>>
      BY <1>7, <2>1, <2>4 DEF ProcessPaymentOperation, tables
    <3> QED BY <1>0, <1>q, <2>2, <3>1 DEF Bounds
  <2> QED BY <2>3, <2>4
<1>8. ASSUME NEW s \in Polls, InsertPaymentFails(s) PROVE Books'
  <2>1. PICK op \in 1 .. Len(ledger) : op = poll[s].next
    BY <1>8, NextOperation DEF InsertPaymentFails
  <2>2. /\ UNCHANGED <<ledger, history, lease, cache, filling, disputes>>
        /\ faults < MaxFaults /\ faults' = faults + 1
        /\ lost' = lost \union {op} /\ cut' = cut \union {op}
    BY <1>8, <2>1 DEF InsertPaymentFails, tables, statusCache
  <2> QED BY <1>0, <1>q, <2>2, FaultType
<1>9. ASSUME NEW s \in Polls, UpdateLeaseFails(s) PROVE Books'
  <2>1. PICK op \in 1 .. Len(ledger) : op = poll[s].next /\ Covered(op - 1)
    BY <1>9, NextOperation DEF UpdateLeaseFails
  <2>2. /\ UNCHANGED <<ledger, cache, filling, disputes, lost>> /\ ToRecord(op)
        /\ faults < MaxFaults /\ faults' = faults + 1 /\ cut' = cut \union {op}
        /\ \E done \in 0 .. 2 : Insert(op, done)
    BY <1>9, <2>1 DEF UpdateLeaseFails, statusCache
  <2>3. Bounds'
    BY <1>0, <2>2, FaultType DEF Bounds
  <2>4. PICK done \in 0 .. 3 : Insert(op, done)
    BY <2>2
  <2> QED BY <2>1, <2>2, <2>3, <2>4, PaymentRecorded
<1>10. CASE Crash
  <2>1. /\ UNCHANGED <<ledger, history, lease, disputes, cut>> /\ lost' = {}
        /\ cache' = [t \in Tenants |-> NotCached] /\ filling' = [t \in Tenants |-> NotCached]
        /\ faults < MaxFaults /\ faults' = faults + 1
    BY <1>10 DEF Crash, tables
  <2>2. NotCached \in Status /\ NotCached # "paid"
    BY DEF Status, NotCached
  <2>3. CacheInv'
    BY <2>1, <2>2 DEF CacheInv
  <2>4. Bounds'
    BY <1>0, <2>1, FaultType DEF Bounds
  <2> QED BY <1>0, <2>1, <2>3, <2>4, NothingRecorded
<1> QED BY <1>1, <1>2, <1>3, <1>4, <1>5, <1>6, <1>7, <1>8, <1>9, <1>10
        DEF Next, PollStep

LEMMA PollInvStep == IInv /\ PollInv /\ [Next]_vars => PollInv'
<1> SUFFICES ASSUME IInv, PollInv, [Next]_vars PROVE PollInv'
  OBVIOUS
<1>1. CASE UNCHANGED poll
  BY <1>1 DEF PollInv
<1>i. Idle.upto = 0 /\ Idle.next = 0
  BY DEF Idle
<1>2. ASSUME NEW s \in Polls, StartPoll(s) PROVE PollInv'
  <2>1. PICK p : p = [Idle EXCEPT !.pc = "asked", !.from = cursor]
    OBVIOUS
  <2>2. p.upto = 0 /\ p.next = 0
    BY <2>1 DEF Idle
  <2>3. poll' = [poll EXCEPT ![s] = p]
    BY <1>2, <2>1 DEF StartPoll
  <2> QED BY <2>2, <2>3 DEF IInv, Typed, PollInv
<1>3. ASSUME NEW s \in Polls,
             \/ FetchHorizon(s) \/ ProcessPaymentOperation(s)
             \/ InsertPaymentFails(s) \/ UpdateLeaseFails(s)
      PROVE  PollInv'
  <2>1. \A r \in Polls \ {s} : poll'[r] = poll[r]
    BY <1>3 DEF FetchHorizon, ProcessPaymentOperation, InsertPaymentFails, UpdateLeaseFails,
                IInv, Typed
  <2>2. poll'[s].pc = "page"
    <3>1. poll[s] \in PollState
      BY DEF IInv, Typed
    <3> QED BY <1>3, <3>1 DEF FetchHorizon, ProcessPaymentOperation, InsertPaymentFails,
                              UpdateLeaseFails, IInv, Typed, PollState
  <2> QED BY <2>1, <2>2 DEF PollInv
<1>4. ASSUME NEW s \in Polls, FetchHorizonFails(s) \/ EndPoll(s) PROVE PollInv'
  <2>1. poll' = [poll EXCEPT ![s] = Idle]
    BY <1>4 DEF FetchHorizonFails, EndPoll
  <2> QED BY <1>i, <2>1 DEF IInv, Typed, PollInv
<1>5. CASE Crash
  BY <1>5, <1>i DEF Crash, PollInv
<1> QED BY <1>1, <1>2, <1>3, <1>4, <1>5 DEF Next, PollStep, vars, Pay, ToggleMatched,
           GetLeaseStatus, FillCache

LEMMA BooksInit == Init => Books /\ PollInv
<1> SUFFICES ASSUME Init PROVE Books /\ PollInv
  OBVIOUS
<1>1. /\ ledger = <<>> /\ history = <<>> /\ DOMAIN history = {} /\ Len(ledger) = 0
      /\ Len(history) = 0 /\ ToSet(history) = {}
  BY DEF Init, ToSet
<1>2. Recorded = {} /\ \A t : RowsOf(t) = {}
  BY <1>1 DEF Recorded, RowsOf
<1>3. LedgerInv /\ Bounds
  BY <1>1, PaymentBounds DEF Init, LedgerInv, Bounds
<1>4. PICK row : row = [matched |-> TRUE, status |-> "pending", last |-> 0, credit |-> 0]
  OBVIOUS
<1>5. row \in LeaseRow /\ row.status = "pending" /\ row.last = 0 /\ row.credit = 0
  BY <1>4 DEF LeaseRow, PaymentStatus
<1>6. lease = [t \in Tenants |-> row]
  BY <1>4 DEF Init
<1>7. LeaseInv
  BY <1>1, <1>5, <1>6 DEF LeaseInv
<1>8. CacheInv
  BY DEF Init, CacheInv, Status, NotCached
<1>9. CountInv
  BY <1>1, <1>2, <1>5, <1>6, FS_EmptySet DEF CountInv
<1>10. OrderInv
  <2>1. \A t \in Tenants : Shows(t)
    BY <1>2, <1>5, <1>6, FS_EmptySet DEF Shows
  <2> QED BY <1>1, <1>2, <2>1 DEF OrderInv, InOrder
<1>11. PollInv
  BY DEF Init, Idle, PollInv
<1> QED BY <1>3, <1>7, <1>8, <1>9, <1>10, <1>11 DEF Books

LEMMA BooksInvariance == Spec => [](Books /\ PollInv)
<1>1. (Books /\ PollInv) /\ IInv /\ [Next]_vars => (Books /\ PollInv)'
  BY BooksStep, PollInvStep
<1> QED BY <1>1, BooksInit, Invariance, PTL DEF Spec

\* The tracker's state stays well typed: cursors, pages and rows lie within the
\* account's history, and no lease has more credit than payments were made.
THEOREM PaymentsTypeCorrect == Spec => []TypeOK
<1>1. IInv /\ Books /\ PollInv => TypeOK
  <2> SUFFICES ASSUME IInv, Books, PollInv PROVE TypeOK
    OBVIOUS
  <2>1. Len(ledger) \in Nat /\ Len(ledger) <= MaxOps /\ MaxOps \in Nat
    BY PaymentBounds DEF IInv, Typed, Books, LedgerInv
  <2>2. cursor \in {0} \union 1 .. Len(ledger)
    BY <2>1 DEF IInv, Typed
  <2>3. ASSUME NEW s \in Polls
        PROVE  poll[s] \in [pc : {"idle", "asked", "page"}, from : {0} \union 1 .. Len(ledger),
                            upto : {0} \union 1 .. Len(ledger), next : 0 .. MaxOps + 1]
    <3>1. poll[s] \in PollState /\ PageOf(s)
      BY DEF IInv, Typed
    <3>2. poll[s].from \in Nat /\ poll[s].upto \in Nat /\ poll[s].next \in Nat
      BY <3>1 DEF PollState
    <3>3. poll[s].from \in {0} \union 1 .. Len(ledger)
      BY <2>1, <3>1, <3>2 DEF PageOf
    <3>4. poll[s].upto \in {0} \union 1 .. Len(ledger) /\ poll[s].next \in 0 .. MaxOps + 1
      <4>1. CASE poll[s].pc = "page"
        <5>1. poll[s].upto <= Len(ledger) /\ poll[s].next <= poll[s].upto + 1
          BY <3>1, <4>1 DEF PageOf
        <5> QED BY <2>1, <3>2, <5>1
      <4>2. CASE poll[s].pc # "page"
        BY <2>1, <4>2 DEF PollInv
      <4> QED BY <4>1, <4>2
    <3> QED BY <3>1, <3>3, <3>4 DEF PollState
  <2>4. ASSUME NEW t \in Tenants
        PROVE  lease[t] \in [matched : BOOLEAN, status : PaymentStatus,
                             last : {0} \union 1 .. Len(ledger), credit : 0 .. MaxOps]
    <3>1. lease[t] \in LeaseRow /\ lease[t].last <= Len(ledger)
      BY DEF Books, LeaseInv
    <3>2. lease[t].last \in Nat /\ lease[t].credit \in Nat
      BY <3>1 DEF LeaseRow
    <3>3. lease[t].credit <= Len(history) /\ Len(history) \in Nat
      <4>1. /\ Cardinality(RowsOf(t)) <= Len(history) /\ IsFiniteSet(RowsOf(t))
            /\ lease[t].credit <= Cardinality(RowsOf(t))
        BY DEF Books, CountInv
      <4>2. Cardinality(RowsOf(t)) \in Nat
        BY <4>1, FS_CardinalityType
      <4>3. Len(history) \in Nat
        BY DEF IInv, Typed
      <4> QED BY <3>2, <4>1, <4>2, <4>3
    <3>4. Len(history) <= Len(ledger)
      <4>1. PICK Ops : Ops = 1 .. Len(ledger)
        OBVIOUS
      <4>2. Recorded \subseteq Ops
        BY <4>1 DEF Books, LedgerInv, Recorded
      <4>3. 1 \in Int /\ Len(ledger) \in Int
        BY <2>1
      <4>4. IsFiniteSet(Ops) /\ Cardinality(Ops) = IF 1 > Len(ledger) THEN 0 ELSE Len(ledger) - 1 + 1
        BY <4>1, <4>3, FS_Interval
      <4>5. Cardinality(Recorded) <= Cardinality(Ops)
        BY <4>2, <4>4, FS_Subset
      <4> QED BY <2>1, <4>4, <4>5 DEF Books, CountInv
    <3>5. lease[t].last \in {0} \union 1 .. Len(ledger) /\ lease[t].credit \in 0 .. MaxOps
      BY <2>1, <3>1, <3>2, <3>3, <3>4
    <3> QED BY <3>1, <3>5 DEF LeaseRow
  <2>5. /\ ledger \in Seq(Tenants \union {Other})
        /\ \A row \in ToSet(history) :
              row.op \in 1 .. Len(ledger) /\ row.lease \in {ledger[row.op], NoLease}
        /\ lost \subseteq cut /\ cut \subseteq 1 .. Len(ledger)
        /\ disputes \in 0 .. MaxDisputes /\ faults \in 0 .. MaxFaults
        /\ cache \in [Tenants -> Status] /\ filling \in [Tenants -> Status]
    BY DEF IInv, Typed, Books, LedgerInv, CacheInv, Bounds
  <2>6. poll \in [Polls -> [pc : {"idle", "asked", "page"}, from : {0} \union 1 .. Len(ledger),
                           upto : {0} \union 1 .. Len(ledger), next : 0 .. MaxOps + 1]]
    BY <2>3 DEF IInv, Typed
  <2>7. lease \in [Tenants -> [matched : BOOLEAN, status : PaymentStatus,
                              last : {0} \union 1 .. Len(ledger), credit : 0 .. MaxOps]]
    BY <2>4 DEF Books, LeaseInv
  <2> QED BY <2>1, <2>2, <2>5, <2>6, <2>7 DEF TypeOK, Status
<1> QED BY <1>1, Invariance, BooksInvariance, PTL

\* Every payment is recorded once, in the account's order, and credited once, and
\* the lease and its cached status tell no more than was recorded, however polls
\* overlap, statements throw and the process restarts.
THEOREM BooksAlwaysAgree == Spec => []BooksAgree
<1>1. Books => BooksAgree
  <2> SUFFICES ASSUME Books PROVE BooksAgree
    OBVIOUS
  <2>1. /\ Cardinality(Recorded) = Len(history)
        /\ \A t \in Tenants : lease[t].credit <= Cardinality(RowsOf(t))
    BY DEF Books, CountInv
  <2>2. ASSUME cut = {}
        PROVE  /\ \A i, j \in DOMAIN history : i < j => history[i].op < history[j].op
               /\ \A t \in Tenants :
                    /\ (lease[t].status = "paid") = (RowsOf(t) # {})
                    /\ \A row \in RowsOf(t) : row.op <= lease[t].last
                    /\ t \in Buyers => lease[t].credit = Cardinality(RowsOf(t))
    <3>1. InOrder
      BY <2>2 DEF Books, OrderInv
    <3> QED BY <3>1 DEF InOrder, Shows
  <2>3. \A t \in Tenants : cache[t] = "paid" => lease[t].status = "paid"
    BY DEF Books, CacheInv
  <2> QED BY <2>1, <2>2, <2>3 DEF BooksAgree
<1> QED BY <1>1, BooksInvariance, PTL
=============================================================================
