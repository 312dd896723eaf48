---------------------------- MODULE RwaCacheProofs ----------------------------
(***************************************************************************)
(* Theorems about RwaCache: for any assets, streams, jobs and readers, any *)
(* sizes of transactions and batches and any number of failures, the       *)
(* cursor passes over no event that was not tried unless one of the gaps   *)
(* was met, no asset is taken for burned that is not, and a pass of the    *)
(* sync job that nothing disturbed leaves the rows as the contract is.     *)
(***************************************************************************)
EXTENDS RwaCache, SequenceTheorems, TLAPS

(* The listener and the cache share no variable but the contract, so the   *)
(* invariant is one of each.                                               *)

\* The handlers that are running.
Turns == {turn[k] : k \in DOMAIN turn}

ListenerTypes ==
    /\ tx \in Seq(0..MaxEvents) /\ Len(tx) <= MaxTx
    /\ \A s \in tried : s[1] \in DOMAIN tx /\ s[2] \in 1..tx[s[1]]
    /\ cursor \in 0..Len(tx) /\ loaded \in 0..Len(tx)
    /\ open \subseteq Stream
    /\ pos \in [Stream -> 0..Len(tx)]
    /\ timers \in Nat /\ retries \in 0..MaxRetries
    /\ turn \in Seq(Handler)
    /\ gap \subseteq {"restart", "crash"}

\* A handler works on an event of its transaction, which an open stream has
\* delivered.
TurnInv ==
    /\ \A h \in Turns :
          /\ h.tx \in DOMAIN tx /\ h.event \in 1..(tx[h.tx] + 1)
          /\ h.at \in {"store", "caught"} => h.event <= tx[h.tx]
    /\ ~Quiet => \E s \in open : \A h \in Turns : h.tx <= pos[s]

\* The handler is still to try the event.
Owes(h, n, i) ==
    /\ h.tx = n
    /\ \/ h.at = "store" /\ h.event <= i
       \/ h.at = "caught" /\ h.event < i

Covered(n, i) == <<n, i>> \in tried \/ \E h \in Turns : Owes(h, n, i)

\* Up to every place a stream or a restart may go on from, each event was tried
\* or is going to be.
TriedInv ==
    gap = {} =>
        \A n \in DOMAIN tx :
           (n <= cursor \/ n <= loaded \/ \E s \in open : n <= pos[s])
              => \A i \in 1..tx[n] : Covered(n, i)

ListenerInv == ListenerTypes /\ TurnInv /\ TriedInv

CacheTypes ==
    /\ registry \in [Asset -> Row \union {None}]
    /\ cache \in [Loaded -> Row]
    /\ sync \in [Sync -> Job]
    /\ reader \in [Reader -> [at: {"idle", "asked", "told"},
                              asset: Asset \union {None}, row: Answer]]

\* Whoever says that an asset is burned has it from the contract.
BurnInv ==
    /\ \A a \in Loaded : cache[a].burned => IsBurned(a)
    /\ \A j \in Sync : sync[j].at = "write" /\ sync[j].row.burned => IsBurned(sync[j].asset)
    /\ \A r \in Reader : reader[r].at # "idle"
         => /\ reader[r].asset \in Asset
            /\ reader[r].row.burned => IsBurned(reader[r].asset)

\* What a job takes an asset for by now.
AsRead(job, a) ==
    IF registry[a] = None THEN [FirstRow EXCEPT !.owner = job.read[a]] ELSE registry[a]

\* What the job knows of the assets is what is there, and those it is through
\* with are cached so.
Knows(job) ==
    /\ \A a \in Loaded : registry[a] = None => job.read[a] = cache[a].owner
    /\ \A a \in Loaded \ job.todo : a # job.asset => cache[a] = AsRead(job, a)
    /\ job.at \in {"frozen", "burned", "write"}
         => job.row.owner = AsRead(job, job.asset).owner
    /\ job.at \in {"burned", "write"} => job.row.frozen = AsRead(job, job.asset).frozen
    /\ job.at = "write" => job.row.burned = AsRead(job, job.asset).burned

\* The job is at an asset it has a row of, or at none.
Placed(job) ==
    /\ job.at = "next" => job.asset = None
    /\ job.at \in {"frozen", "burned", "write"} => job.asset \in Loaded

\* What disturbs a job disturbs all that are at work; as long as nothing does,
\* each of them knows what is there.
SyncInv ==
    /\ \A j \in Sync : Placed(sync[j])
    /\ disturbed = {} \/ disturbed = Busy
    /\ disturbed = {} => \A j \in Busy : Knows(sync[j])

CacheInv == CacheTypes /\ BurnInv /\ SyncInv

Inv == ListenerInv /\ CacheInv /\ faults \in 0..MaxFaults

-----------------------------------------------------------------------------
(* The turns                                                               *)

\* The handler whose turn it is comes back as h.
LEMMA TurnPasses ==
    ASSUME turn \in Seq(Handler), ~Quiet, NEW h \in Handler, PassTurn(h)
    PROVE  /\ turn' \in Seq(Handler) /\ ~Quiet' /\ Head(turn) \in Turns
           /\ Turns' \subseteq Turns \union {h} /\ h \in Turns'
           /\ Turns \ {Head(turn)} \subseteq Turns'
<1>1. turn # <<>> /\ turn' = Append(Tail(turn), h)
  BY DEF Quiet, PassTurn
<1>2. Len(turn) \in Nat /\ DOMAIN turn = 1..Len(turn) /\ Len(turn) > 0
  BY <1>1, LenProperties, EmptySeq
<1>3. PICK t : t = Tail(turn)
  OBVIOUS
<1>4. /\ t \in Seq(Handler) /\ Len(t) = Len(turn) - 1
      /\ \A k \in 1..Len(t) : t[k] = turn[k + 1]
      /\ Head(turn) = turn[1]
  BY <1>1, <1>3, HeadTailProperties
<1>5. /\ turn' \in Seq(Handler) /\ turn' # <<>> /\ Len(turn') = Len(turn)
      /\ \A k \in 1..Len(t) : turn'[k] = turn[k + 1]
      /\ turn'[Len(turn)] = h
  BY <1>1, <1>2, <1>3, <1>4, AppendProperties
<1>6. DOMAIN turn' = 1..Len(turn)
  BY <1>5, LenProperties
<1>7. 1 \in DOMAIN turn /\ Len(turn) \in DOMAIN turn'
  BY <1>2, <1>6
<1>8. \A k \in DOMAIN turn' : turn'[k] = h \/ \E q \in DOMAIN turn : turn'[k] = turn[q]
  <2> SUFFICES ASSUME NEW k \in 1..Len(turn), k # Len(turn)
               PROVE  \E q \in DOMAIN turn : turn'[k] = turn[q]
    BY <1>5, <1>6, ZenonT(40)
  <2>0. Len(t) = Len(turn) - 1 /\ Len(turn) \in Nat
    BY <1>2, <1>4
  <2>1. k \in 1..Len(t) /\ k + 1 \in 1..Len(turn)
    BY <2>0
  <2>2. turn'[k] = turn[k + 1]
    BY <1>5, <2>1
  <2> QED BY <1>2, <2>1, <2>2
<1>9. \A q \in DOMAIN turn : turn[q] = turn[1] \/ \E k \in DOMAIN turn' : turn'[k] = turn[q]
  <2> SUFFICES ASSUME NEW q \in 1..Len(turn), q # 1
               PROVE  \E k \in DOMAIN turn' : turn'[k] = turn[q]
    BY <1>2
  <2>1. PICK k : k = q - 1
    OBVIOUS
  <2>2. k \in 1..Len(t) /\ k \in 1..Len(turn) /\ k + 1 = q
    BY <1>2, <1>4, <2>1
  <2>3. turn'[k] = turn[k + 1]
    BY <1>5, <2>2
  <2> QED BY <1>6, <2>2, <2>3
<1>10. Turns = {turn[q] : q \in DOMAIN turn} /\ Turns' = {turn'[q] : q \in DOMAIN turn'}
  BY DEF Turns
<1>11. Head(turn) \in Turns /\ h \in Turns'
  BY <1>4, <1>5, <1>7, <1>10
<1>12. Turns' \subseteq Turns \union {h}
  BY <1>8, <1>10
<1>13. Turns \ {Head(turn)} \subseteq Turns'
  BY <1>4, <1>9, <1>10
<1> QED BY <1>5, <1>11, <1>12, <1>13 DEF Quiet

\* The handler whose turn it is ends.
LEMMA TurnEnds ==
    ASSUME turn \in Seq(Handler), ~Quiet, turn' = Tail(turn)
    PROVE  /\ turn' \in Seq(Handler) /\ Head(turn) \in Turns
           /\ Turns' \subseteq Turns
           /\ Turns \ {Head(turn)} \subseteq Turns'
<1>1. turn # <<>>
  BY DEF Quiet
<1>2. Len(turn) \in Nat /\ DOMAIN turn = 1..Len(turn) /\ Len(turn) > 0
  BY <1>1, LenProperties, EmptySeq
<1>3. /\ turn' \in Seq(Handler) /\ Len(turn') = Len(turn) - 1
      /\ \A k \in 1..Len(turn') : turn'[k] = turn[k + 1]
      /\ Head(turn) = turn[1]
  BY <1>1, HeadTailProperties
<1>4. DOMAIN turn' = 1..(Len(turn) - 1)
  BY <1>3, LenProperties
<1>5. 1 \in DOMAIN turn
  BY <1>2
<1>6. \A k \in DOMAIN turn' : \E q \in DOMAIN turn : turn'[k] = turn[q]
  <2> SUFFICES ASSUME NEW k \in 1..(Len(turn) - 1)
               PROVE  turn'[k] = turn[k + 1] /\ k + 1 \in DOMAIN turn
    BY <1>4
  <2> QED BY <1>2, <1>3
<1>7. \A q \in DOMAIN turn : turn[q] = turn[1] \/ \E k \in DOMAIN turn' : turn'[k] = turn[q]
  <2> SUFFICES ASSUME NEW q \in 1..Len(turn), q # 1
               PROVE  \E k \in DOMAIN turn' : turn'[k] = turn[q]
    BY <1>2
  <2>1. PICK k : k = q - 1
    OBVIOUS
  <2>2. k \in 1..(Len(turn) - 1) /\ k + 1 = q
    BY <1>2, <2>1
  <2>3. turn'[k] = turn[k + 1]
    BY <1>3, <2>2
  <2> QED BY <1>4, <2>2, <2>3
<1>8. Turns = {turn[q] : q \in DOMAIN turn} /\ Turns' = {turn'[q] : q \in DOMAIN turn'}
  BY DEF Turns
<1>9. Head(turn) \in Turns /\ Turns' \subseteq Turns
  BY <1>3, <1>5, <1>6, <1>8
<1>10. Turns \ {Head(turn)} \subseteq Turns'
  BY <1>3, <1>7, <1>8
<1> QED BY <1>3, <1>9, <1>10

-----------------------------------------------------------------------------
(* What the types say of sequences and handlers                            *)

LEMMA Shapes ==
    ASSUME ListenerTypes
    PROVE  /\ DOMAIN tx = 1..Len(tx) /\ Len(tx) \in Nat
           /\ \A n \in DOMAIN tx : tx[n] \in 0..MaxEvents /\ tx[n] \in Nat
           /\ turn \in Seq(Handler)
           /\ \A h \in Turns : h \in Handler
<1>1. tx \in Seq(0..MaxEvents) /\ turn \in Seq(Handler)
  BY DEF ListenerTypes
<1>2. DOMAIN tx = 1..Len(tx) /\ Len(tx) \in Nat
  BY <1>1, LenProperties
<1>3. \A n \in DOMAIN tx : tx[n] \in 0..MaxEvents
  BY <1>1, <1>2, ElementOfSeq
<1>4. \A k \in DOMAIN turn : turn[k] \in Handler
  BY <1>1, LenProperties, ElementOfSeq
<1> QED BY <1>1, <1>2, <1>3, <1>4 DEF Turns

LEMMA ListenerKept ==
    ASSUME ListenerInv, UNCHANGED <<tx, listener>>
    PROVE  ListenerInv'
<1>1. UNCHANGED <<tx, tried, cursor, loaded, open, pos, timers, retries, turn, gap>>
  BY DEF listener
<1>2. ListenerTypes'
  BY <1>1 DEF ListenerInv, ListenerTypes
<1>3. Turns' = Turns /\ (Quiet' <=> Quiet)
  BY <1>1 DEF Turns, Quiet
<1>4. TurnInv'
  BY <1>1, <1>3 DEF ListenerInv, TurnInv
<1>5. TriedInv'
  BY <1>1, <1>3 DEF ListenerInv, TriedInv, Covered, Owes
<1> QED BY <1>2, <1>4, <1>5 DEF ListenerInv

LEMMA CacheKept ==
    ASSUME CacheInv, UNCHANGED <<registry, jobs, reader>>
    PROVE  CacheInv'
<1>1. UNCHANGED <<registry, cache, sync, disturbed, reader>>
  BY DEF jobs
<1>2. CacheTypes'
  BY <1>1 DEF CacheInv, CacheTypes
<1>3. BurnInv'
  BY <1>1 DEF CacheInv, BurnInv, IsBurned
<1>4. Busy' = Busy /\ \A job : Knows(job)' <=> Knows(job)
  BY <1>1 DEF Busy, Knows, AsRead
<1>5. SyncInv'
  BY <1>1, <1>4 DEF CacheInv, SyncInv, Placed
<1> QED BY <1>2, <1>3, <1>5 DEF CacheInv

\* A fault stays within its bound.
LEMMA FaultType == ASSUME Fault, faults \in 0..MaxFaults PROVE faults' \in 0..MaxFaults
  BY CacheBounds DEF Fault

LEMMA InitInv == Init => Inv
<1> SUFFICES ASSUME Init PROVE Inv
  OBVIOUS
<1>1. tx = <<>> /\ turn = <<>> /\ DOMAIN tx = {} /\ DOMAIN turn = {} /\ Len(tx) = 0
  BY DEF Init
<1>2. tx \in Seq(0..MaxEvents) /\ turn \in Seq(Handler)
  BY <1>1, EmptySeq
<1>3. Turns = {}
  BY <1>1 DEF Turns
<1>4. FirstRow \in Row /\ ~FirstRow.burned /\ FirstRow.owner = FirstOwner
  BY OwnerAssumption DEF FirstRow, Row
<1>5. IdleJob \in Job /\ IdleJob.at = "idle"
  BY <1>4, OwnerAssumption DEF IdleJob, Job
<1>6. IdleReader \in [at: {"idle", "asked", "told"}, asset: Asset \union {None}, row: Answer]
      /\ IdleReader.at = "idle"
  BY DEF IdleReader, NoAnswer, Answer
<1>7. ListenerTypes
  <2>1. Len(tx) <= MaxTx /\ retries \in 0..MaxRetries /\ timers \in Nat
    BY <1>1, CacheBounds DEF Init
  <2>2. cursor \in 0..Len(tx) /\ loaded \in 0..Len(tx) /\ pos \in [Stream -> 0..Len(tx)]
    BY <1>1 DEF Init
  <2>3. tried = {} /\ gap = {} /\ open \subseteq Stream
    BY StreamAssumption DEF Init, FirstStream
  <2> QED BY <1>2, <2>1, <2>2, <2>3 DEF ListenerTypes
<1>8. TurnInv /\ TriedInv
  BY <1>1, <1>3 DEF TurnInv, TriedInv, Quiet
<1>9. CacheTypes
  <2>1. registry \in [Asset -> Row \union {None}] /\ cache \in [Loaded -> Row]
    BY <1>4 DEF Init
  <2>2. sync \in [Sync -> Job]
    BY <1>5 DEF Init
  <2> QED BY <1>6, <2>1, <2>2 DEF Init, CacheTypes
<1>10. BurnInv
  BY <1>4, <1>5, <1>6 DEF BurnInv, Init
<1>11. SyncInv
  BY <1>5 DEF SyncInv, Init, Busy, Placed
<1>12. faults \in 0..MaxFaults
  BY CacheBounds DEF Init
<1> QED BY <1>7, <1>8, <1>9, <1>10, <1>11, <1>12 DEF Inv, ListenerInv, CacheInv

-----------------------------------------------------------------------------
(* The turns of the handlers                                               *)

\* The handler whose turn it is goes on with its transaction.
LEMMA TurnMoves ==
    ASSUME ListenerInv, ~Quiet, NEW h \in Handler, PassTurn(h), h.tx = Head(turn).tx,
           h.event <= tx[h.tx] + 1,
           h.at \in {"store", "caught"} => h.event <= tx[h.tx],
           UNCHANGED <<tx, open, pos>>
    PROVE  turn' \in Seq(Handler) /\ TurnInv'
<1>1. /\ turn' \in Seq(Handler) /\ ~Quiet' /\ Head(turn) \in Turns
      /\ Turns' \subseteq Turns \union {h}
  BY TurnPasses, Shapes DEF ListenerInv
<1>2. h.tx \in DOMAIN tx /\ h.event \in 1..(tx[h.tx] + 1)
  <2>1. h.tx \in DOMAIN tx
    BY <1>1 DEF ListenerInv, TurnInv
  <2>2. tx[h.tx] \in Nat /\ h.event \in Nat \ {0}
    BY <2>1, Shapes, CacheBounds DEF ListenerInv, Handler
  <2> QED BY <2>1, <2>2
<1>3. \A g \in Turns' : /\ g.tx \in DOMAIN tx /\ g.event \in 1..(tx[g.tx] + 1)
                        /\ g.at \in {"store", "caught"} => g.event <= tx[g.tx]
  BY <1>1, <1>2 DEF ListenerInv, TurnInv
<1>4. \E s \in open : \A g \in Turns' : g.tx <= pos[s]
  BY <1>1 DEF ListenerInv, TurnInv
<1> QED BY <1>1, <1>3, <1>4 DEF TurnInv

\* What the handler owed was tried, or is owed by what it becomes.
LEMMA TriedMoves ==
    ASSUME ListenerInv, ~Quiet, NEW h \in Handler, PassTurn(h),
           UNCHANGED <<tx, cursor, loaded, open, pos, gap>>, tried \subseteq tried',
           \A n \in DOMAIN tx : \A i \in 1..tx[n] :
              Owes(Head(turn), n, i) => <<n, i>> \in tried' \/ Owes(h, n, i)
    PROVE  TriedInv'
<1>1. h \in Turns' /\ Turns \ {Head(turn)} \subseteq Turns'
  BY TurnPasses, Shapes DEF ListenerInv
<1>2. ASSUME NEW n \in DOMAIN tx, NEW i \in 1..tx[n], Covered(n, i)
      PROVE  <<n, i>> \in tried' \/ \E g \in Turns' : Owes(g, n, i)
  BY <1>1, <1>2 DEF Covered
<1>3. ASSUME gap = {}, NEW n \in DOMAIN tx, NEW i \in 1..tx[n],
             n <= cursor \/ n <= loaded \/ \E s \in open : n <= pos[s]
      PROVE  <<n, i>> \in tried' \/ \E g \in Turns' : Owes(g, n, i)
  BY <1>2, <1>3 DEF ListenerInv, TriedInv
<1> QED BY <1>3 DEF TriedInv, Covered, Owes

\* A handler that has turns left.
LEMMA HeadOfTurn ==
    ASSUME ListenerInv, ~Quiet
    PROVE  /\ Head(turn) \in Handler /\ Head(turn) \in Turns
           /\ Head(turn).tx \in DOMAIN tx /\ Head(turn).event \in Nat \ {0}
           /\ tx[Head(turn).tx] \in 0..MaxEvents
           /\ Head(turn).event <= tx[Head(turn).tx] + 1
           /\ Head(turn).at \in {"store", "caught"}
                => Head(turn).event <= tx[Head(turn).tx]
<1>1. turn \in Seq(Handler) /\ turn # <<>>
  BY Shapes DEF ListenerInv, Quiet
<1>2. Head(turn) \in Handler
  BY <1>1, HeadTailProperties
<1>3. Head(turn) \in Turns
  <2>1. DOMAIN turn = 1..Len(turn) /\ Len(turn) \in Nat /\ Len(turn) # 0
    BY <1>1, LenProperties, EmptySeq
  <2>2. 1 \in DOMAIN turn /\ Head(turn) = turn[1]
    BY <1>1, <2>1
  <2> QED BY <2>2 DEF Turns
<1>4. PICK h : h = Head(turn)
  OBVIOUS
<1>5. /\ h.tx \in DOMAIN tx /\ h.event \in 1..(tx[h.tx] + 1)
      /\ h.at \in {"store", "caught"} => h.event <= tx[h.tx]
  BY <1>3, <1>4 DEF ListenerInv, TurnInv
<1>6. tx[h.tx] \in 0..MaxEvents /\ tx[h.tx] \in Nat
  BY <1>5, Shapes DEF ListenerInv
<1>7. h.event \in Nat \ {0} /\ h.event <= tx[h.tx] + 1
  BY <1>5, <1>6
<1> QED BY <1>2, <1>3, <1>4, <1>5, <1>6, <1>7

LEMMA HandlerStep == ASSUME ListenerInv, Turn PROVE ListenerInv'
<1>0. ~Quiet
  BY DEF Turn, storeTransferEvent, processEvent, handleTransaction, updateContractCursor
<1>1. PICK g : g = Head(turn)
  OBVIOUS
<1>2. /\ g \in Handler /\ g.tx \in DOMAIN tx /\ g.event \in Nat \ {0}
      /\ tx[g.tx] \in 0..MaxEvents /\ g.event <= tx[g.tx] + 1
      /\ g.at \in {"store", "caught"} => g.event <= tx[g.tx]
  BY <1>0, <1>1, HeadOfTurn
<1>3. CASE storeTransferEvent
  <2>1. PICK h : h = [g EXCEPT !.at = "caught"]
    OBVIOUS
  <2>2. /\ g.at = "store" /\ PassTurn(h) /\ tried' = tried \union {<<g.tx, g.event>>}
        /\ UNCHANGED <<tx, cursor, loaded, open, pos, timers, retries, gap>>
    BY <1>1, <1>3, <2>1 DEF storeTransferEvent, chain
  <2>3. h \in Handler /\ h.tx = g.tx /\ h.at = "caught" /\ h.event = g.event
    BY <1>2, <2>1 DEF Handler
  <2>4. turn' \in Seq(Handler) /\ TurnInv'
    BY <1>0, <1>1, <1>2, <2>2, <2>3, TurnMoves
  <2>5. TriedInv'
    <3>1. ASSUME NEW n \in DOMAIN tx, NEW i \in 1..tx[n], Owes(g, n, i)
          PROVE  <<n, i>> \in tried' \/ Owes(h, n, i)
      <4>1. n = g.tx /\ g.event <= i
        BY <2>2, <3>1 DEF Owes
      <4>2. i = g.event \/ g.event < i
        BY <1>2, <4>1
      <4> QED BY <2>2, <2>3, <4>1, <4>2 DEF Owes
    <3> QED BY <1>0, <1>1, <2>2, <2>3, <3>1, TriedMoves
  <2>6. g.event \in 1..tx[g.tx]
    BY <1>2, <2>2
  <2>7. \A q \in tried' : q[1] \in DOMAIN tx /\ q[2] \in 1..tx[q[1]]
    BY <1>2, <2>2, <2>6 DEF ListenerInv, ListenerTypes
  <2> QED BY <2>2, <2>4, <2>5, <2>7 DEF ListenerInv, ListenerTypes
<1>4. CASE processEvent
  <2>1. PICK at : at = IF g.event < tx[g.tx] THEN "store" ELSE "end"
    OBVIOUS
  <2>2. PICK h : h = [g EXCEPT !.event = @ + 1, !.at = at]
    OBVIOUS
  <2>3. /\ g.at = "caught" /\ PassTurn(h)
        /\ UNCHANGED <<tx, tried, cursor, loaded, open, pos, timers, retries, gap>>
    BY <1>1, <1>4, <2>1, <2>2 DEF processEvent, chain
  <2>4. g.event + 1 \in 1..(MaxEvents + 1)
    BY <1>2, <2>3, CacheBounds
  <2>5. h \in Handler /\ h.tx = g.tx /\ h.at = at /\ h.event = g.event + 1
    BY <1>2, <2>1, <2>2, <2>4 DEF Handler
  <2>6. h.event <= tx[h.tx] + 1 /\ (at = "store" => h.event <= tx[h.tx]) /\ at # "caught"
    BY <1>2, <2>1, <2>3, <2>5
  <2>7. turn' \in Seq(Handler) /\ TurnInv'
    BY <1>0, <1>1, <2>3, <2>5, <2>6, TurnMoves
  <2>8. TriedInv'
    <3>1. ASSUME NEW n \in DOMAIN tx, NEW i \in 1..tx[n], Owes(g, n, i)
          PROVE  Owes(h, n, i)
      <4>1. n = g.tx /\ g.event < i
        BY <2>3, <3>1 DEF Owes
      <4>2. at = "store" /\ h.event <= i
        BY <1>2, <2>1, <2>5, <4>1
      <4> QED BY <2>5, <4>1, <4>2 DEF Owes
    <3> QED BY <1>0, <1>1, <2>3, <2>5, <3>1, TriedMoves
  <2> QED BY <2>3, <2>7, <2>8 DEF ListenerInv, ListenerTypes
<1>5. CASE handleTransaction
  <2>1. PICK h : h = [g EXCEPT !.at = "cursor"]
    OBVIOUS
  <2>2. /\ g.at = "end" /\ PassTurn(h)
        /\ UNCHANGED <<tx, tried, cursor, loaded, open, pos, timers, retries, gap>>
    BY <1>1, <1>5, <2>1 DEF handleTransaction, chain
  <2>3. h \in Handler /\ h.tx = g.tx /\ h.at = "cursor" /\ h.event = g.event
    BY <1>2, <2>1 DEF Handler
  <2>4. turn' \in Seq(Handler) /\ TurnInv'
    BY <1>0, <1>1, <1>2, <2>2, <2>3, TurnMoves
  <2>5. \A n, i : ~Owes(g, n, i)
    BY <2>2 DEF Owes
  <2>6. TriedInv'
    BY <1>0, <1>1, <2>2, <2>3, <2>5, TriedMoves
  <2> QED BY <2>2, <2>4, <2>6 DEF ListenerInv, ListenerTypes
<1>6. CASE updateContractCursor
  <2>1. /\ g.at = "cursor" /\ turn' = Tail(turn)
        /\ cursor' = g.tx \/ UNCHANGED cursor
        /\ UNCHANGED <<tx, tried, loaded, open, pos, timers, retries, gap>>
    BY <1>1, <1>6 DEF updateContractCursor, chain
  <2>2. /\ turn' \in Seq(Handler) /\ g \in Turns
        /\ Turns' \subseteq Turns /\ Turns \ {g} \subseteq Turns'
    BY <1>0, <1>1, <2>1, TurnEnds, Shapes DEF ListenerInv
  <2>3. PICK s \in open : \A h \in Turns : h.tx <= pos[s]
    BY <1>0 DEF ListenerInv, TurnInv
  <2>4. TurnInv'
    BY <2>1, <2>2, <2>3 DEF ListenerInv, TurnInv
  <2>5. g.tx <= pos[s] /\ pos[s] \in 0..Len(tx)
    BY <2>2, <2>3 DEF ListenerInv, ListenerTypes
  <2>6. DOMAIN tx = 1..Len(tx) /\ Len(tx) \in Nat
    BY Shapes DEF ListenerInv
  <2>7. TriedInv'
    <3>1. \A n, i : ~Owes(g, n, i)
      BY <2>1 DEF Owes
    <3>2. \A n \in DOMAIN tx : \A i \in 1..tx[n] :
             Covered(n, i) => <<n, i>> \in tried' \/ \E h \in Turns' : Owes(h, n, i)
      BY <2>1, <2>2, <3>1 DEF Covered
    <3>3. ASSUME NEW n \in DOMAIN tx, n <= cursor'
          PROVE  n <= cursor \/ n <= pos[s]
      BY <1>2, <2>1, <2>5, <2>6, <3>3
    <3>4. ASSUME gap = {}, NEW n \in DOMAIN tx, NEW i \in 1..tx[n],
                 n <= cursor' \/ n <= loaded \/ \E q \in open : n <= pos[q]
          PROVE  <<n, i>> \in tried' \/ \E h \in Turns' : Owes(h, n, i)
      BY <2>3, <3>2, <3>3, <3>4 DEF ListenerInv, TriedInv
    <3> QED BY <2>1, <3>4 DEF TriedInv, Covered, Owes
  <2>8. cursor' \in 0..Len(tx)
    BY <1>2, <2>1, <2>6 DEF ListenerInv, ListenerTypes
  <2> QED BY <2>1, <2>2, <2>4, <2>7, <2>8 DEF ListenerInv, ListenerTypes
<1> QED BY <1>3, <1>4, <1>5, <1>6 DEF Turn

-----------------------------------------------------------------------------
(* The streams                                                             *)

\* While no handler runs, everything that is covered was tried.
LEMMA QuietTried ==
    ASSUME ListenerInv, Quiet, gap = {}, NEW n \in DOMAIN tx, NEW i \in 1..tx[n],
           n <= cursor \/ n <= loaded \/ \E s \in open : n <= pos[s]
    PROVE  <<n, i>> \in tried
<1>1. Turns = {}
  BY DEF Quiet, Turns
<1> QED BY <1>1 DEF ListenerInv, TriedInv, Covered

\* Without a handler at work before and after the step.
LEMMA StillQuiet ==
    ASSUME Quiet, UNCHANGED turn
    PROVE  Quiet' /\ Turns' = {}
  BY DEF Quiet, Turns

LEMMA MessageStep == ASSUME ListenerInv, NEW s \in Stream, onmessage(s) PROVE ListenerInv'
<1>1. /\ Quiet /\ s \in open
      /\ UNCHANGED <<tx, tried, cursor, loaded, open, timers, retries, gap>>
  BY DEF onmessage, chain
<1>2. PICK k \in 1..MaxBatch :
         /\ pos[s] + k <= Len(tx)
         /\ turn' = [j \in 1..k |-> [tx |-> pos[s] + j, event |-> 1,
                                     at |-> IF tx[pos[s] + j] = 0 THEN "end" ELSE "store"]]
         /\ pos' = [pos EXCEPT ![s] = @ + k]
  BY DEF onmessage
<1>3. /\ pos[s] \in Nat /\ k \in Nat \ {0} /\ Len(tx) \in Nat /\ Len(tx) <= MaxTx
      /\ DOMAIN tx = 1..Len(tx)
  BY Shapes, CacheBounds DEF ListenerInv, ListenerTypes
<1>4. ASSUME NEW j \in 1..k
      PROVE  /\ pos[s] + j \in DOMAIN tx /\ pos[s] + j \in 1..MaxTx
             /\ pos[s] + j <= pos[s] + k
  BY <1>2, <1>3, CacheBounds
<1>5. 1 \in 1..(MaxEvents + 1)
  BY CacheBounds
<1>6. turn' \in [1..k -> Handler]
  BY <1>2, <1>4, <1>5 DEF Handler
<1>7. turn' \in Seq(Handler)
  BY <1>3, <1>6, SeqDef
<1>8. \A g : g \in Turns' <=>
             \E j \in 1..k : g = [tx |-> pos[s] + j, event |-> 1,
                                  at |-> IF tx[pos[s] + j] = 0 THEN "end" ELSE "store"]
  BY <1>2 DEF Turns
<1>9. pos[s] + k \in 0..Len(tx)
  BY <1>2, <1>3
<1>10. pos' \in [Stream -> 0..Len(tx)] /\ pos'[s] = pos[s] + k
       /\ \A q \in Stream : q # s => pos'[q] = pos[q]
  BY <1>2, <1>9 DEF ListenerInv, ListenerTypes
<1>11. ListenerTypes'
  BY <1>1, <1>7, <1>10 DEF ListenerInv, ListenerTypes
<1>12. TurnInv'
  <2>1. ASSUME NEW h \in Turns'
        PROVE  /\ h.tx \in DOMAIN tx /\ h.event = 1 /\ h.tx <= pos'[s]
               /\ h.at \in {"store", "caught"} => tx[h.tx] # 0
    <3>1. PICK j \in 1..k : h = [tx |-> pos[s] + j, event |-> 1,
                                 at |-> IF tx[pos[s] + j] = 0 THEN "end" ELSE "store"]
      BY <1>8, <2>1
    <3> QED BY <1>4, <1>10, <3>1
  <2>2. \A n \in DOMAIN tx : 1 \in 1..(tx[n] + 1) /\ (tx[n] # 0 => 1 <= tx[n])
    BY Shapes DEF ListenerInv
  <2> QED BY <1>1, <2>1, <2>2 DEF TurnInv
<1>13. TriedInv'
  <2>1. ASSUME gap = {}, NEW n \in DOMAIN tx, NEW i \in 1..tx[n],
               n <= cursor \/ n <= loaded \/ \E q \in open : n <= pos'[q]
        PROVE  <<n, i>> \in tried \/ \E g \in Turns' : Owes(g, n, i)
    <3>1. CASE n <= cursor \/ n <= loaded \/ \E q \in open : n <= pos[q]
      BY <1>1, <2>1, <3>1, QuietTried
    <3>2. CASE n <= pos'[s] /\ ~(n <= pos[s])
      <4>1. n \in Nat /\ i \in Nat \ {0} /\ tx[n] \in Nat /\ i <= tx[n]
        BY <1>3, Shapes DEF ListenerInv
      <4>2. PICK j : j = n - pos[s]
        OBVIOUS
      <4>3. j \in 1..k /\ n = pos[s] + j
        BY <1>3, <1>10, <3>2, <4>1, <4>2
      <4>4. tx[n] # 0 /\ 1 <= i
        BY <4>1
      <4>5. PICK g : g = [tx |-> pos[s] + j, event |-> 1,
                          at |-> IF tx[pos[s] + j] = 0 THEN "end" ELSE "store"]
        OBVIOUS
      <4>6. g \in Turns'
        BY <1>8, <4>3, <4>5
      <4>7. g.tx = n /\ g.event = 1 /\ g.at = "store"
        BY <4>3, <4>4, <4>5
      <4> QED BY <4>4, <4>6, <4>7 DEF Owes
    <3> QED BY <1>10, <2>1, <3>1, <3>2 DEF ListenerInv, ListenerTypes
  <2> QED BY <1>1, <2>1 DEF TriedInv, Covered, Owes
<1> QED BY <1>11, <1>12, <1>13 DEF ListenerInv

LEMMA StreamStep ==
    ASSUME ListenerInv, NEW s \in Stream,
           onclose(s) \/ onerror(s) \/ startContractStreaming(s)
    PROVE  ListenerInv'
<1>0. Quiet /\ UNCHANGED <<tx, tried, cursor, loaded, turn>>
  BY DEF onclose, onerror, startContractStreaming, chain
<1>1. Quiet' /\ Turns' = {}
  BY <1>0, StillQuiet
<1>2. TurnInv'
  BY <1>1 DEF TurnInv
<1>3. CASE onclose(s)
  <2>1. /\ open' = open \ {s} /\ pos' = [pos EXCEPT ![s] = 0] /\ timers' = timers + 1
        /\ UNCHANGED <<retries, gap>>
    BY <1>3 DEF onclose
  <2>2. pos' \in [Stream -> 0..Len(tx)] /\ \A q \in open' : pos'[q] = pos[q]
    BY <2>1, Shapes DEF ListenerInv, ListenerTypes
  <2>3. ListenerTypes'
    BY <1>0, <2>1, <2>2 DEF ListenerInv, ListenerTypes
  <2>4. TriedInv'
    BY <1>0, <2>1, <2>2, QuietTried DEF TriedInv, Covered
  <2> QED BY <1>2, <2>3, <2>4 DEF ListenerInv
<1>4. CASE onerror(s)
  <2>1. /\ retries < MaxRetries /\ retries' = retries + 1 /\ timers' = timers + 1
        /\ UNCHANGED <<open, pos, gap>>
    BY <1>4 DEF onerror
  <2>2. retries' \in 0..MaxRetries /\ timers' \in Nat
    BY <2>1, CacheBounds DEF ListenerInv, ListenerTypes
  <2>3. ListenerTypes'
    BY <1>0, <2>1, <2>2 DEF ListenerInv, ListenerTypes
  <2>4. TriedInv'
    BY <1>0, <2>1, QuietTried DEF TriedInv, Covered
  <2> QED BY <1>2, <2>3, <2>4 DEF ListenerInv
<1>5. CASE startContractStreaming(s)
  <2>1. /\ timers > 0 /\ timers' = timers - 1 /\ open' = open \union {s} /\ s \notin open
        /\ pos' = [pos EXCEPT ![s] = StartFrom(loaded)]
        /\ gap' = IF PassesOver(loaded) THEN gap \union {"restart"} ELSE gap
        /\ UNCHANGED retries
    BY <1>5 DEF startContractStreaming
  <2>2. StartFrom(loaded) \in 0..Len(tx)
    BY Shapes DEF StartFrom, ListenerInv, ListenerTypes
  <2>3. /\ pos' \in [Stream -> 0..Len(tx)] /\ pos'[s] = StartFrom(loaded)
        /\ \A q \in open : pos'[q] = pos[q]
    BY <2>1, <2>2 DEF ListenerInv, ListenerTypes
  <2>4. timers' \in Nat /\ gap' \subseteq {"restart", "crash"}
    BY <2>1 DEF ListenerInv, ListenerTypes
  <2>5. ListenerTypes'
    BY <1>0, <2>1, <2>3, <2>4 DEF ListenerInv, ListenerTypes
  <2>6. TriedInv'
    <3>1. ASSUME gap' = {}, NEW n \in DOMAIN tx, NEW i \in 1..tx[n],
                 n <= cursor \/ n <= loaded \/ \E q \in open' : n <= pos'[q]
          PROVE  <<n, i>> \in tried
      <4>1. gap = {} /\ ~PassesOver(loaded)
        BY <2>1, <3>1
      <4>2. CASE loaded = 0
        BY <3>1, <4>1, <4>2 DEF PassesOver
      <4>3. CASE loaded # 0
        <5>1. StartFrom(loaded) = loaded
          BY <4>3 DEF StartFrom
        <5>2. n <= cursor \/ n <= loaded \/ \E q \in open : n <= pos[q]
          BY <2>1, <2>3, <3>1, <5>1
        <5> QED BY <1>0, <4>1, <5>2, QuietTried
      <4> QED BY <4>2, <4>3
    <3> QED BY <1>0, <3>1 DEF TriedInv, Covered
  <2> QED BY <1>2, <2>5, <2>6 DEF ListenerInv
<1> QED BY <1>3, <1>4, <1>5

-----------------------------------------------------------------------------
(* The sync job, the readers and the contract                              *)

LEMMA CommitStep == ASSUME Inv, Commit PROVE Inv'
<1>1. /\ Len(tx) < MaxTx /\ UNCHANGED <<listener, cache, sync, reader, faults>>
      /\ \/ UNCHANGED <<registry, disturbed>>
         \/ /\ \E a \in Asset, entry \in Row \union {None} :
                  ~IsBurned(a) /\ registry' = [registry EXCEPT ![a] = entry]
            /\ disturbed' = disturbed \union Busy
  BY DEF Commit
<1>2. PICK n \in 0..MaxEvents : tx' = Append(tx, n)
  BY DEF Commit
<1>3. /\ tx \in Seq(0..MaxEvents) /\ DOMAIN tx = 1..Len(tx) /\ Len(tx) \in Nat
  BY Shapes DEF Inv, ListenerInv, ListenerTypes
<1>4. /\ tx' \in Seq(0..MaxEvents) /\ Len(tx') = Len(tx) + 1
      /\ \A k \in 1..Len(tx) : tx'[k] = tx[k]
  BY <1>2, <1>3, AppendProperties
<1>5. DOMAIN tx' = 1..(Len(tx) + 1)
  BY <1>4, LenProperties
<1>6. \A k \in DOMAIN tx : k \in DOMAIN tx' /\ tx'[k] = tx[k]
  BY <1>3, <1>4, <1>5
<1>7. UNCHANGED <<tried, cursor, loaded, open, pos, timers, retries, turn, gap>>
  BY <1>1 DEF listener
<1>8. ListenerTypes'
  <2>1. Len(tx') <= MaxTx
    BY <1>1, <1>3, <1>4, CacheBounds
  <2>2. \A q \in tried : q[1] \in DOMAIN tx' /\ q[2] \in 1..tx'[q[1]]
    BY <1>6 DEF Inv, ListenerInv, ListenerTypes
  <2>3. 0..Len(tx) \subseteq 0..Len(tx')
    BY <1>3, <1>4
  <2>4. /\ cursor \in 0..Len(tx') /\ loaded \in 0..Len(tx')
        /\ pos \in [Stream -> 0..Len(tx')]
    BY <2>3 DEF Inv, ListenerInv, ListenerTypes
  <2> QED BY <1>4, <1>7, <2>1, <2>2, <2>4 DEF Inv, ListenerInv, ListenerTypes
<1>9. Turns' = Turns /\ (Quiet' <=> Quiet)
  BY <1>7 DEF Turns, Quiet
<1>10. TurnInv'
  BY <1>6, <1>7, <1>9 DEF Inv, ListenerInv, TurnInv
<1>11. TriedInv'
  <2>1. ASSUME NEW k \in DOMAIN tx', k <= cursor \/ k <= loaded \/ \E q \in open : k <= pos[q]
        PROVE  k \in DOMAIN tx
    <3>1. /\ cursor <= Len(tx) /\ loaded <= Len(tx) /\ cursor \in Nat /\ loaded \in Nat
          /\ \A q \in open : pos[q] \in Nat /\ pos[q] <= Len(tx)
      BY <1>3 DEF Inv, ListenerInv, ListenerTypes
    <3>2. k \in Nat \ {0}
      BY <1>3, <1>5
    <3>3. k <= Len(tx)
      BY <1>3, <2>1, <3>1, <3>2
    <3> QED BY <1>3, <3>2, <3>3
  <2>2. \A k \in DOMAIN tx : \A i \in 1..tx[k] :
           Covered(k, i) => <<k, i>> \in tried' \/ \E h \in Turns' : Owes(h, k, i)
    BY <1>7, <1>9 DEF Covered
  <2>3. ASSUME gap = {}, NEW k \in DOMAIN tx', NEW i \in 1..tx'[k],
               k <= cursor \/ k <= loaded \/ \E q \in open : k <= pos[q]
        PROVE  <<k, i>> \in tried' \/ \E h \in Turns' : Owes(h, k, i)
    <3>1. k \in DOMAIN tx /\ i \in 1..tx[k]
      BY <1>6, <2>1, <2>3
    <3>2. Covered(k, i)
      BY <2>3, <3>1 DEF Inv, ListenerInv, TriedInv
    <3> QED BY <2>2, <3>1, <3>2
  <2> QED BY <1>7, <2>3 DEF TriedInv, Covered, Owes
<1>12. CacheInv'
  <2>1. CASE UNCHANGED <<registry, disturbed>>
    BY <1>1, <2>1, CacheKept DEF Inv, jobs
  <2>2. CASE /\ \E a \in Asset, entry \in Row \union {None} :
                   ~IsBurned(a) /\ registry' = [registry EXCEPT ![a] = entry]
             /\ disturbed' = disturbed \union Busy
    <3>1. PICK a \in Asset, entry \in Row \union {None} :
             ~IsBurned(a) /\ registry' = [registry EXCEPT ![a] = entry]
      BY <2>2
    <3>2. /\ registry' \in [Asset -> Row \union {None}]
          /\ \A b \in Asset : IsBurned(b) => IsBurned(b)'
      BY <3>1 DEF Inv, CacheInv, CacheTypes, IsBurned
    <3>3. CacheTypes'
      BY <1>1, <3>2 DEF Inv, CacheInv, CacheTypes
    <3>4. BurnInv'
      BY <1>1, <3>2, LoadedAssumption DEF Inv, CacheInv, BurnInv, SyncInv, Placed
    <3>5. Busy' = Busy /\ disturbed' = Busy
      BY <1>1, <2>2 DEF Inv, CacheInv, SyncInv, Busy
    <3>6. SyncInv'
      BY <1>1, <3>5 DEF Inv, CacheInv, SyncInv, Placed
    <3> QED BY <3>3, <3>4, <3>6 DEF CacheInv
  <2> QED BY <1>1, <2>1, <2>2
<1> QED BY <1>1, <1>8, <1>10, <1>11, <1>12 DEF Inv, ListenerInv

\* A job is what its record says, also of what it takes an asset for.
LEMMA JobFields ==
    ASSUME CacheInv, NEW j \in Sync
    PROVE  /\ sync[j] \in Job /\ Placed(sync[j])
           /\ sync[j].todo \subseteq Loaded /\ sync[j].row \in Row
           /\ sync[j].read \in [Loaded -> Owner]
           /\ \A a \in Loaded : /\ Latest(j, a) = AsRead(sync[j], a)
                                /\ AsRead(sync[j], a) \in Row
           /\ j \in Busy <=> sync[j].at # "idle"
<1>1. sync[j] \in Job /\ Placed(sync[j])
  BY DEF CacheInv, CacheTypes, SyncInv
<1>2. /\ sync[j].todo \subseteq Loaded /\ sync[j].row \in Row
      /\ sync[j].read \in [Loaded -> Owner]
  BY <1>1 DEF Job
<1>3. ASSUME NEW a \in Loaded
      PROVE  Latest(j, a) = AsRead(sync[j], a) /\ AsRead(sync[j], a) \in Row
  <2>1. registry[a] \in Row \union {None} /\ sync[j].read[a] \in Owner
    BY <1>2, LoadedAssumption DEF CacheInv, CacheTypes
  <2>2. [FirstRow EXCEPT !.owner = sync[j].read[a]] \in Row
    BY <2>1, OwnerAssumption DEF FirstRow, Row
  <2> QED BY <2>1, <2>2 DEF Latest, AsRead
<1> QED BY <1>1, <1>2, <1>3 DEF Busy

\* A job at work goes on as job, without a word to the cache.
LEMMA JobMoves ==
    ASSUME CacheInv, NEW j \in Busy, NEW job \in Job, Goes(j, job), UNCHANGED cache,
           job.at # "idle", Placed(job),
           job.at = "write" /\ job.row.burned => IsBurned(job.asset),
           \/ UNCHANGED disturbed /\ (Knows(sync[j]) => Knows(job))
           \/ disturbed' = disturbed \union Busy
    PROVE  CacheInv'
<1>1. /\ sync' = [sync EXCEPT ![j] = job] /\ j \in Sync
      /\ UNCHANGED <<registry, reader, cache>>
  BY DEF Goes, chain, Busy
<1>2. /\ sync' \in [Sync -> Job] /\ sync'[j] = job
      /\ \A k \in Sync : k # j => sync'[k] = sync[k]
  BY <1>1 DEF CacheInv, CacheTypes
<1>3. CacheTypes'
  BY <1>1, <1>2 DEF CacheInv, CacheTypes
<1>4. BurnInv'
  BY <1>1, <1>2 DEF CacheInv, BurnInv, IsBurned
<1>5. Busy' = Busy
  BY <1>1, <1>2 DEF Busy
<1>6. \A rec : Knows(rec)' <=> Knows(rec)
  BY <1>1 DEF Knows, AsRead
<1>7. \A k \in Sync : Placed(sync'[k])
  BY <1>2 DEF CacheInv, SyncInv
<1>8. disturbed' = {} \/ disturbed' = Busy
  BY DEF CacheInv, SyncInv
<1>9. ASSUME disturbed' = {}, NEW k \in Busy PROVE Knows(sync'[k])
  <2>1. UNCHANGED disturbed /\ (Knows(sync[j]) => Knows(job))
    BY <1>9
  <2>2. Knows(sync[j]) /\ Knows(sync[k])
    BY <1>9, <2>1 DEF CacheInv, SyncInv
  <2>3. k \in Sync
    BY DEF Busy
  <2> QED BY <1>2, <2>1, <2>2, <2>3
<1>10. SyncInv'
  BY <1>5, <1>6, <1>7, <1>8, <1>9 DEF SyncInv, Placed
<1> QED BY <1>3, <1>4, <1>10 DEF CacheInv

\* A job begins, or ends.
LEMMA SyncBegins == ASSUME CacheInv, NEW j \in Sync, syncContract(j) PROVE CacheInv'
<1>1. PICK job : job = [IdleJob EXCEPT !.at = "next", !.todo = Loaded,
                                       !.read = [a \in Loaded |-> cache[a].owner]]
  OBVIOUS
<1>2. /\ sync[j].at = "idle" /\ sync' = [sync EXCEPT ![j] = job]
      /\ disturbed' = IF Busy \intersect disturbed = {} THEN disturbed
                      ELSE disturbed \union {j}
      /\ UNCHANGED <<registry, reader, cache>>
  BY <1>1 DEF syncContract, Goes, chain
<1>3. [a \in Loaded |-> cache[a].owner] \in [Loaded -> Owner]
  BY DEF CacheInv, CacheTypes, Row
<1>4. /\ job \in Job /\ job.at = "next" /\ job.todo = Loaded /\ job.asset = None
      /\ job.read = [a \in Loaded |-> cache[a].owner]
  <2>1. FirstRow \in Row
    BY OwnerAssumption DEF FirstRow, Row
  <2> QED BY <1>1, <1>3, <2>1 DEF IdleJob, Job
<1>5. /\ sync' \in [Sync -> Job] /\ sync'[j] = job
      /\ \A k \in Sync : k # j => sync'[k] = sync[k]
  BY <1>2, <1>4 DEF CacheInv, CacheTypes
<1>6. CacheTypes'
  BY <1>2, <1>5 DEF CacheInv, CacheTypes
<1>7. BurnInv'
  BY <1>2, <1>4, <1>5 DEF CacheInv, BurnInv, IsBurned
<1>8. Busy' = Busy \union {j}
  BY <1>4, <1>5 DEF Busy
<1>9. \A rec : Knows(rec)' <=> Knows(rec)
  BY <1>2 DEF Knows, AsRead
<1>10. Knows(job)
  BY <1>4 DEF Knows
<1>11. Placed(job)
  BY <1>4 DEF Placed
<1>12. disturbed' = {} \/ disturbed' = Busy'
  BY <1>2, <1>8 DEF CacheInv, SyncInv
<1>13. disturbed' = {} => disturbed = {}
  BY <1>2
<1>14. ASSUME disturbed' = {}, NEW k \in Busy' PROVE Knows(sync'[k])
  <2>1. CASE k = j
    BY <1>5, <1>10, <2>1
  <2>2. CASE k # j
    <3>1. k \in Busy /\ k \in Sync
      BY <1>8, <2>2 DEF Busy
    <3>2. Knows(sync[k])
      BY <1>13, <1>14, <3>1 DEF CacheInv, SyncInv
    <3> QED BY <1>5, <2>2, <3>1, <3>2
  <2> QED BY <2>1, <2>2
<1>15. \A k \in Sync : Placed(sync'[k])
  BY <1>5, <1>11 DEF CacheInv, SyncInv
<1>16. SyncInv'
  BY <1>9, <1>12, <1>14, <1>15 DEF SyncInv, Placed
<1> QED BY <1>6, <1>7, <1>16 DEF CacheInv

LEMMA SyncEnds == ASSUME CacheInv, NEW j \in Sync, syncContract_end(j) PROVE CacheInv'
<1>1. /\ sync[j].at = "next" /\ sync' = [sync EXCEPT ![j] = IdleJob]
      /\ disturbed' = disturbed \ {j}
      /\ UNCHANGED <<registry, reader, cache>>
  BY DEF syncContract_end, Goes, chain
<1>2. IdleJob \in Job /\ IdleJob.at = "idle"
  <2>1. FirstRow \in Row
    BY OwnerAssumption DEF FirstRow, Row
  <2> QED BY <2>1, OwnerAssumption DEF IdleJob, Job
<1>3. /\ sync' \in [Sync -> Job] /\ sync'[j] = IdleJob
      /\ \A k \in Sync : k # j => sync'[k] = sync[k]
  BY <1>1, <1>2 DEF CacheInv, CacheTypes
<1>4. CacheTypes'
  BY <1>1, <1>3 DEF CacheInv, CacheTypes
<1>5. BurnInv'
  BY <1>1, <1>2, <1>3 DEF CacheInv, BurnInv, IsBurned
<1>6. Busy' = Busy \ {j}
  BY <1>2, <1>3 DEF Busy
<1>7. \A rec : Knows(rec)' <=> Knows(rec)
  BY <1>1 DEF Knows, AsRead
<1>8. \A k \in Sync : Placed(sync'[k])
  BY <1>2, <1>3 DEF CacheInv, SyncInv, Placed
<1>9. ASSUME disturbed' = {}, NEW k \in Busy' PROVE Knows(sync'[k])
  <2>1. k \in Busy /\ k # j /\ k \in Sync
    BY <1>6 DEF Busy
  <2>2. disturbed = {}
    BY <1>1, <1>9, <2>1 DEF CacheInv, SyncInv
  <2> QED BY <1>3, <2>1, <2>2 DEF CacheInv, SyncInv
<1>10. disturbed' = {} \/ disturbed' = Busy'
  BY <1>1, <1>6 DEF CacheInv, SyncInv
<1>11. SyncInv'
  BY <1>7, <1>8, <1>9, <1>10 DEF SyncInv, Placed
<1> QED BY <1>4, <1>5, <1>11 DEF CacheInv

\* What the job writes is what it takes the asset for, if it knows.
LEMMA SyncWrites == ASSUME CacheInv, NEW j \in Sync, updateAssetCache(j) PROVE CacheInv'
<1>1. PICK a : a = sync[j].asset
  OBVIOUS
<1>2. PICK row : row = sync[j].row
  OBVIOUS
<1>3. PICK job : job = NextAsset(j)
  OBVIOUS
<1>4. /\ sync[j].at = "write" /\ cache' = [cache EXCEPT ![a] = row]
      /\ sync' = [sync EXCEPT ![j] = job]
      /\ UNCHANGED <<registry, reader, disturbed>>
  BY <1>1, <1>2, <1>3 DEF updateAssetCache, Goes, chain
<1>5. /\ sync[j] \in Job /\ a \in Loaded /\ row \in Row
      /\ row.burned => IsBurned(a)
  BY <1>1, <1>2, <1>4, JobFields DEF Placed, CacheInv, BurnInv
<1>6. /\ job \in Job /\ job.at = "next" /\ job.asset = None
      /\ job.todo = sync[j].todo /\ job.read = sync[j].read
  <2>1. FirstRow \in Row
    BY OwnerAssumption DEF FirstRow, Row
  <2> QED BY <1>3, <1>5, <2>1 DEF NextAsset, Job
<1>7. /\ sync' \in [Sync -> Job] /\ sync'[j] = job
      /\ \A k \in Sync : k # j => sync'[k] = sync[k]
  BY <1>4, <1>6 DEF CacheInv, CacheTypes
<1>8. /\ cache' \in [Loaded -> Row] /\ cache'[a] = row
      /\ \A b \in Loaded : b # a => cache'[b] = cache[b]
  BY <1>4, <1>5 DEF CacheInv, CacheTypes
<1>9. CacheTypes'
  BY <1>4, <1>7, <1>8 DEF CacheInv, CacheTypes
<1>10. BurnInv'
  BY <1>4, <1>5, <1>6, <1>7, <1>8 DEF CacheInv, BurnInv, IsBurned
<1>11. Busy' = Busy /\ j \in Busy
  BY <1>4, <1>6, <1>7 DEF Busy
<1>12. Placed(job)
  BY <1>6 DEF Placed
<1>13. \A k \in Sync : Placed(sync'[k])
  BY <1>7, <1>12 DEF CacheInv, SyncInv
<1>14. \A rec, b : AsRead(rec, b)' = AsRead(rec, b)
  BY <1>4 DEF AsRead
<1>15. ASSUME disturbed = {} PROVE row = AsRead(sync[j], a)
  <2>1. PICK r : r = AsRead(sync[j], a)
    OBVIOUS
  <2>2. Knows(sync[j])
    BY <1>11, <1>15 DEF CacheInv, SyncInv
  <2>3. row.owner = r.owner /\ row.frozen = r.frozen /\ row.burned = r.burned
    BY <1>1, <1>2, <1>4, <2>1, <2>2 DEF Knows
  <2>4. r \in Row
    BY <1>5, <2>1, JobFields
  <2>5. row = r
    BY <1>5, <2>3, <2>4 DEF Row
  <2> QED BY <2>1, <2>5
<1>16. ASSUME disturbed = {}, NEW rec, Knows(rec), rec.asset = None \/ rec.at # "next"
       PROVE  /\ \A b \in Loaded : registry[b] = None => rec.read[b] = cache'[b].owner
              /\ AsRead(rec, a) = row
  <2>1. Knows(sync[j])
    BY <1>11, <1>16 DEF CacheInv, SyncInv
  <2>2. registry[a] = None => sync[j].read[a] = cache[a].owner /\ rec.read[a] = cache[a].owner
    BY <1>5, <1>16, <2>1 DEF Knows
  <2>3. AsRead(rec, a) = AsRead(sync[j], a)
    BY <2>2 DEF AsRead
  <2>4. registry[a] = None => row.owner = sync[j].read[a]
    BY <1>15, <1>16 DEF AsRead, FirstRow
  <2>5. \A b \in Loaded : registry[b] = None => rec.read[b] = cache[b].owner
    BY <1>16 DEF Knows
  <2> QED BY <1>8, <1>15, <1>16, <2>2, <2>3, <2>4, <2>5
<1>17. ASSUME disturbed = {}, NEW k \in Busy PROVE Knows(sync[k])'
  <2>0. k \in Sync /\ Knows(sync[k]) /\ Placed(sync[k])
    BY <1>17, JobFields DEF CacheInv, SyncInv, Busy
  <2>1. /\ \A b \in Loaded : registry[b] = None => sync[k].read[b] = cache'[b].owner
        /\ AsRead(sync[k], a) = row
    BY <1>16, <1>17, <2>0 DEF Placed
  <2>2. CASE k # j
    <3>1. sync'[k] = sync[k]
      BY <1>7, <2>0, <2>2
    <3>2. \A b \in Loaded \ sync[k].todo : b # sync[k].asset => cache'[b] = AsRead(sync[k], b)
      BY <1>8, <2>0, <2>1 DEF Knows
    <3> QED BY <1>4, <1>14, <2>0, <2>1, <3>1, <3>2 DEF Knows
  <2>3. CASE k = j
    <3>1. \A b : AsRead(job, b) = AsRead(sync[j], b)
      BY <1>6 DEF AsRead
    <3>2. \A b \in Loaded \ job.todo : cache'[b] = AsRead(job, b)
      BY <1>1, <1>6, <1>8, <2>0, <2>1, <2>3, <3>1 DEF Knows
    <3> QED BY <1>4, <1>6, <1>7, <1>14, <2>1, <2>3, <3>2 DEF Knows
  <2> QED BY <2>2, <2>3
<1>18. SyncInv'
  BY <1>4, <1>11, <1>13, <1>17 DEF CacheInv, SyncInv, Placed
<1> QED BY <1>9, <1>10, <1>18 DEF CacheInv

LEMMA SyncJobStep == ASSUME Inv, NEW j \in Sync, SyncStep(j) PROVE Inv'
<1>1. ListenerInv'
  <2>1. UNCHANGED <<tx, listener>>
    BY DEF SyncStep, syncContract, syncContract_end, syncAsset, syncAsset_fails,
           isAssetFrozen, isAssetBurned, updateAssetCache, Goes, chain
  <2> QED BY <2>1, ListenerKept DEF Inv
<1>2. faults' \in 0..MaxFaults
  BY FaultType DEF Inv, SyncStep, syncContract, syncContract_end, syncAsset,
     syncAsset_fails, isAssetFrozen, isAssetBurned, updateAssetCache, QueryFails
<1>3. PICK s : s = sync[j]
  OBVIOUS
<1>4. /\ CacheInv /\ s \in Job /\ Placed(s) /\ s.row \in Row /\ s.todo \subseteq Loaded
      /\ s.read \in [Loaded -> Owner]
      /\ \A a \in Loaded : Latest(j, a) = AsRead(s, a) /\ AsRead(s, a) \in Row
      /\ j \in Busy <=> s.at # "idle"
  BY <1>3, JobFields DEF Inv
<1>5. CacheInv'
  <2>1. CASE syncContract(j)
    BY <1>4, <2>1, SyncBegins
  <2>2. CASE syncContract_end(j)
    BY <1>4, <2>2, SyncEnds
  <2>3. CASE syncAsset(j)
    <3>1. PICK a \in s.todo :
             Goes(j, [s EXCEPT !.at = "frozen", !.todo = @ \ {a}, !.asset = a,
                               !.row = [FirstRow EXCEPT !.owner = Latest(j, a).owner]])
      BY <1>3, <2>3 DEF syncAsset
    <3>2. PICK row : row = [FirstRow EXCEPT !.owner = Latest(j, a).owner]
      OBVIOUS
    <3>3. PICK job : job = [s EXCEPT !.at = "frozen", !.todo = s.todo \ {a}, !.asset = a,
                                     !.row = row]
      OBVIOUS
    <3>4. a \in Loaded /\ row \in Row /\ row.owner = AsRead(s, a).owner
      BY <1>4, <3>2 DEF FirstRow, Row
    <3>5. /\ job \in Job /\ job.at = "frozen" /\ job.asset = a /\ job.row = row
          /\ job.todo = s.todo \ {a} /\ job.read = s.read
      BY <1>4, <3>3, <3>4 DEF Job
    <3>6. s.at = "next" /\ s.asset = None /\ UNCHANGED <<cache, disturbed>>
      BY <1>3, <1>4, <2>3 DEF syncAsset, Placed
    <3>7. \A b : AsRead(job, b) = AsRead(s, b)
      BY <3>5 DEF AsRead
    <3>8. ASSUME Knows(s) PROVE Knows(job)
      <4>1. \A b \in Loaded \ job.todo : b # job.asset => cache[b] = AsRead(job, b)
        BY <3>5, <3>6, <3>7, <3>8, LoadedAssumption DEF Knows
      <4> QED BY <3>4, <3>5, <3>7, <3>8, <4>1 DEF Knows
    <3>9. Goes(j, job)
      BY <3>1, <3>2, <3>3
    <3> QED BY <1>3, <1>4, <3>4, <3>5, <3>6, <3>8, <3>9, JobMoves DEF Placed
  <2>4. CASE syncAsset_fails(j)
    <3>1. /\ disturbed' = disturbed \union Busy /\ UNCHANGED cache
          /\ s.at \in {"next", "write"}
      BY <1>3, <2>4 DEF syncAsset_fails, QueryFails
    <3>2. CASE \E a \in s.todo : s.at = "next" /\ Goes(j, [s EXCEPT !.todo = @ \ {a}])
      <4>1. PICK a \in s.todo : s.at = "next" /\ Goes(j, [s EXCEPT !.todo = @ \ {a}])
        BY <3>2
      <4>2. PICK job : job = [s EXCEPT !.todo = s.todo \ {a}]
        OBVIOUS
      <4>3. job \in Job /\ job.at = "next" /\ job.asset = s.asset
        BY <1>4, <4>1, <4>2 DEF Job
      <4>4. Placed(job)
        BY <1>4, <4>1, <4>3 DEF Placed
      <4>5. Goes(j, job)
        BY <4>1, <4>2
      <4> QED BY <1>3, <1>4, <3>1, <4>3, <4>4, <4>5, JobMoves
    <3>3. CASE Goes(j, NextAsset(j))
      <4>1. PICK job : job = NextAsset(j)
        OBVIOUS
      <4>2. job \in Job /\ job.at = "next" /\ job.asset = None
        <5>1. FirstRow \in Row
          BY OwnerAssumption DEF FirstRow, Row
        <5> QED BY <1>3, <1>4, <4>1, <5>1 DEF NextAsset, Job
      <4>3. Placed(job)
        BY <4>2 DEF Placed
      <4> QED BY <1>3, <1>4, <3>1, <3>3, <4>1, <4>2, <4>3, JobMoves
    <3> QED BY <1>3, <2>4, <3>2, <3>3 DEF syncAsset_fails
  <2>5. CASE isAssetFrozen(j)
    <3>1. PICK b \in BOOLEAN :
             /\ \/ b = ContractData(s.asset).frozen /\ UNCHANGED disturbed
                \/ disturbed' = disturbed \union Busy
             /\ Goes(j, [s EXCEPT !.row.frozen = b, !.at = "burned"])
      BY <1>3, <2>5 DEF isAssetFrozen, QueryFails
    <3>2. s.at = "frozen" /\ UNCHANGED cache /\ s.asset \in Loaded
      BY <1>3, <1>4, <2>5 DEF isAssetFrozen, Placed
    <3>3. PICK row : row = [s.row EXCEPT !.frozen = b]
      OBVIOUS
    <3>4. PICK job : job = [s EXCEPT !.row = row, !.at = "burned"]
      OBVIOUS
    <3>5. row \in Row /\ row.owner = s.row.owner /\ row.frozen = b
      BY <1>4, <3>1, <3>3 DEF Row
    <3>6. /\ job \in Job /\ job.at = "burned" /\ job.asset = s.asset /\ job.row = row
          /\ job.todo = s.todo /\ job.read = s.read
      BY <1>4, <3>4, <3>5 DEF Job
    <3>7. \A c : AsRead(job, c) = AsRead(s, c)
      BY <3>6 DEF AsRead
    <3>8. ASSUME Knows(s), b = ContractData(s.asset).frozen PROVE Knows(job)
      <4>1. b = AsRead(s, s.asset).frozen
        BY <3>8 DEF ContractData, AsRead, NoAnswer, FirstRow
      <4> QED BY <3>2, <3>5, <3>6, <3>7, <3>8, <4>1 DEF Knows
    <3>9. Goes(j, job) /\ Placed(job)
      BY <3>1, <3>2, <3>3, <3>4, <3>6 DEF Placed
    <3> QED BY <1>3, <1>4, <3>1, <3>2, <3>6, <3>8, <3>9, JobMoves
  <2>6. CASE isAssetBurned(j)
    <3>1. PICK b \in BOOLEAN :
             /\ \/ b = ContractData(s.asset).burned /\ UNCHANGED disturbed
                \/ ~b /\ disturbed' = disturbed \union Busy
             /\ Goes(j, [s EXCEPT !.row.burned = b, !.at = "write"])
      BY <1>3, <2>6 DEF isAssetBurned, QueryFails
    <3>2. s.at = "burned" /\ UNCHANGED cache /\ s.asset \in Loaded
      BY <1>3, <1>4, <2>6 DEF isAssetBurned, Placed
    <3>3. PICK row : row = [s.row EXCEPT !.burned = b]
      OBVIOUS
    <3>4. PICK job : job = [s EXCEPT !.row = row, !.at = "write"]
      OBVIOUS
    <3>5. row \in Row /\ row.owner = s.row.owner /\ row.frozen = s.row.frozen /\ row.burned = b
      BY <1>4, <3>1, <3>3 DEF Row
    <3>6. /\ job \in Job /\ job.at = "write" /\ job.asset = s.asset /\ job.row = row
          /\ job.todo = s.todo /\ job.read = s.read
      BY <1>4, <3>4, <3>5 DEF Job
    <3>7. \A c : AsRead(job, c) = AsRead(s, c)
      BY <3>6 DEF AsRead
    <3>8. ASSUME Knows(s), b = ContractData(s.asset).burned PROVE Knows(job)
      <4>1. b = AsRead(s, s.asset).burned
        BY <3>8 DEF ContractData, AsRead, NoAnswer, FirstRow
      <4> QED BY <3>2, <3>5, <3>6, <3>7, <3>8, <4>1 DEF Knows
    <3>9. b => IsBurned(s.asset)
      BY <3>1 DEF ContractData, NoAnswer, IsBurned
    <3>10. Goes(j, job) /\ Placed(job)
      BY <3>1, <3>2, <3>3, <3>4, <3>6 DEF Placed
    <3> QED BY <1>3, <1>4, <3>1, <3>2, <3>5, <3>6, <3>8, <3>9, <3>10, JobMoves
  <2>7. CASE updateAssetCache(j)
    BY <1>4, <2>7, SyncWrites
  <2> QED BY <2>1, <2>2, <2>3, <2>4, <2>5, <2>6, <2>7 DEF SyncStep
<1> QED BY <1>1, <1>2, <1>5 DEF Inv

\* A reader is told what the cache or the contract says.
LEMMA ReaderStep == ASSUME Inv, NEW r \in Reader, Reads(r) PROVE Inv'
<1>1. PICK a, state, answer :
         /\ Tells(r, a, state, answer) /\ faults' \in 0..MaxFaults
         /\ a \in Asset /\ state \in {"asked", "told"} /\ answer \in Answer
         /\ answer.burned => IsBurned(a)
  <2>1. ASSUME NEW a \in Asset, getAssetOwnership(r, a)
        PROVE  \E state, answer :
                  /\ Tells(r, a, state, answer) /\ faults' \in 0..MaxFaults
                  /\ state \in {"asked", "told"} /\ answer \in Answer
                  /\ answer.burned => IsBurned(a)
    <3>1. PICK answer \in {cache[a], CachedRow(a)} :
             /\ \E state \in {"asked", "told"} : Tells(r, a, state, answer)
             /\ a \in Loaded \/ answer = CachedRow(a)
      BY <2>1 DEF getAssetOwnership
    <3>2. answer \in Answer /\ (answer.burned => IsBurned(a))
      <4>1. CASE a \in Loaded
        <5>1. answer = cache[a] /\ cache[a] \in Row /\ (cache[a].burned => IsBurned(a))
          BY <3>1, <4>1 DEF CachedRow, Inv, CacheInv, CacheTypes, BurnInv
        <5> QED BY <5>1 DEF Row, Answer
      <4>2. CASE a \notin Loaded
        <5>1. answer = NoAnswer
          BY <3>1, <4>2 DEF CachedRow
        <5> QED BY <5>1 DEF NoAnswer, Answer
      <4> QED BY <4>1, <4>2
    <3> QED BY <2>1, <3>1, <3>2 DEF Inv, getAssetOwnership
  <2>2. CASE getBlockchainAssetOwnership(r)
    <3>1. /\ reader[r].at = "asked" /\ UNCHANGED faults
          /\ Tells(r, reader[r].asset, "told", ContractData(reader[r].asset))
      BY <2>2 DEF getBlockchainAssetOwnership
    <3>2. reader[r].asset \in Asset
      BY <3>1 DEF Inv, CacheInv, BurnInv
    <3>3. registry[reader[r].asset] \in Row \union {None}
      BY <3>2 DEF Inv, CacheInv, CacheTypes
    <3>4. /\ ContractData(reader[r].asset) \in Answer
          /\ ContractData(reader[r].asset).burned => IsBurned(reader[r].asset)
      BY <3>3 DEF ContractData, NoAnswer, Answer, Row, IsBurned
    <3> QED BY <3>1, <3>2, <3>4 DEF Inv
  <2>3. CASE getBlockchainAssetOwnership_fails(r)
    <3>1. /\ reader[r].at = "asked" /\ Fault
          /\ Tells(r, reader[r].asset, "told", reader[r].row)
      BY <2>3 DEF getBlockchainAssetOwnership_fails
    <3>2. /\ reader[r].asset \in Asset /\ reader[r].row \in Answer
          /\ reader[r].row.burned => IsBurned(reader[r].asset)
      BY <3>1 DEF Inv, CacheInv, CacheTypes, BurnInv
    <3>3. faults' \in 0..MaxFaults
      BY <3>1, FaultType DEF Inv
    <3> QED BY <3>1, <3>2, <3>3
  <2> QED BY <2>1, <2>2, <2>3 DEF Reads
<1>2. PICK rec : rec = [at |-> state, asset |-> a, row |-> answer]
  OBVIOUS
<1>3. /\ reader' = [reader EXCEPT ![r] = rec]
      /\ UNCHANGED <<tx, registry, listener, cache, sync, disturbed>>
  BY <1>1, <1>2 DEF Tells, chain, jobs
<1>4. /\ rec \in [at: {"idle", "asked", "told"}, asset: Asset \union {None}, row: Answer]
      /\ rec.asset = a /\ rec.row = answer
  BY <1>1, <1>2
<1>5. /\ CacheTypes' /\ reader'[r] = rec
      /\ \A q \in Reader : q # r => reader'[q] = reader[q]
  BY <1>3, <1>4 DEF Inv, CacheInv, CacheTypes
<1>6. BurnInv'
  BY <1>1, <1>3, <1>4, <1>5 DEF Inv, CacheInv, BurnInv, IsBurned
<1>7. Busy' = Busy /\ \A job : Knows(job)' <=> Knows(job)
  BY <1>3 DEF Busy, Knows, AsRead
<1>8. SyncInv'
  BY <1>3, <1>7 DEF Inv, CacheInv, SyncInv, Placed
<1> QED BY <1>1, <1>3, <1>5, <1>6, <1>8, ListenerKept DEF Inv, CacheInv

LEMMA CrashStep == ASSUME Inv, Crash PROVE Inv'
<1>1. /\ Fault /\ loaded' = cursor /\ open' = {FirstStream} /\ FirstStream \in Stream
      /\ gap' = gap \union (IF Quiet THEN {} ELSE {"crash"})
                    \union (IF PassesOver(cursor) THEN {"restart"} ELSE {})
      /\ pos' = [q \in Stream |-> IF q = FirstStream THEN StartFrom(cursor) ELSE 0]
      /\ timers' = 0 /\ retries' = 0 /\ turn' = <<>>
      /\ UNCHANGED <<tx, tried, cursor>>
  BY StreamAssumption DEF Crash, chain, FirstStream
<1>2. turn' \in Seq(Handler) /\ Quiet' /\ Turns' = {}
  BY <1>1, EmptySeq DEF Quiet, Turns
<1>3. StartFrom(cursor) \in 0..Len(tx) /\ 0 \in 0..Len(tx)
  BY Shapes DEF StartFrom, Inv, ListenerInv, ListenerTypes
<1>4. pos' \in [Stream -> 0..Len(tx)] /\ pos'[FirstStream] = StartFrom(cursor)
  BY <1>1, <1>3
<1>5. retries' \in 0..MaxRetries /\ timers' \in Nat
  BY <1>1, CacheBounds
<1>6. gap' \subseteq {"restart", "crash"} /\ open' \subseteq Stream
  BY <1>1 DEF Inv, ListenerInv, ListenerTypes
<1>7. ListenerTypes'
  BY <1>1, <1>2, <1>4, <1>5, <1>6 DEF Inv, ListenerInv, ListenerTypes
<1>8. TriedInv'
  <2>1. ASSUME gap' = {}, NEW n \in DOMAIN tx, NEW i \in 1..tx[n],
               n <= cursor \/ n <= loaded' \/ \E q \in open' : n <= pos'[q]
        PROVE  <<n, i>> \in tried
    <3>1. gap = {} /\ Quiet /\ ~PassesOver(cursor)
      BY <1>1, <2>1
    <3>2. CASE cursor = 0
      BY <2>1, <3>1, <3>2 DEF PassesOver
    <3>3. CASE cursor # 0
      <4>1. n <= cursor
        BY <1>1, <1>4, <2>1, <3>3 DEF StartFrom
      <4> QED BY <3>1, <4>1, QuietTried DEF Inv
    <3> QED BY <3>2, <3>3
  <2> QED BY <1>1, <2>1 DEF TriedInv, Covered
<1>9. /\ sync' = [j \in Sync |-> IdleJob] /\ reader' = [r \in Reader |-> IdleReader]
      /\ disturbed' = {} /\ UNCHANGED <<registry, cache>>
  BY DEF Crash, chain
<1>10. /\ IdleJob \in Job /\ IdleJob.at = "idle" /\ IdleReader.at = "idle"
       /\ IdleReader \in [at: {"idle", "asked", "told"}, asset: Asset \union {None},
                          row: Answer]
  <2>1. FirstRow \in Row
    BY OwnerAssumption DEF FirstRow, Row
  <2> QED BY <2>1, OwnerAssumption DEF IdleJob, Job, IdleReader, NoAnswer, Answer
<1>11. CacheTypes'
  BY <1>9, <1>10 DEF Inv, CacheInv, CacheTypes
<1>12. BurnInv'
  BY <1>9, <1>10 DEF Inv, CacheInv, BurnInv, IsBurned
<1>13. SyncInv'
  BY <1>9, <1>10 DEF SyncInv, Placed, Busy
<1>14. faults' \in 0..MaxFaults
  BY <1>1, FaultType DEF Inv
<1> QED BY <1>2, <1>7, <1>8, <1>11, <1>12, <1>13, <1>14 DEF Inv, ListenerInv, CacheInv, TurnInv

-----------------------------------------------------------------------------
(* The theorems                                                            *)

LEMMA InvStep == Inv /\ [Next]_vars => Inv'
<1> SUFFICES ASSUME Inv, [Next]_vars PROVE Inv'
  OBVIOUS
<1>1. CASE Commit
  BY <1>1, CommitStep
<1>2. CASE Turn \/ \E s \in Stream : Streams(s)
  <2>1. ListenerInv'
    BY <1>2, HandlerStep, MessageStep, StreamStep DEF Streams, Inv
  <2>2. UNCHANGED <<registry, jobs, reader>> /\ faults' \in 0..MaxFaults
    BY <1>2, FaultType
    DEF Inv, Turn, Streams, storeTransferEvent, processEvent, handleTransaction,
        updateContractCursor, onmessage, onclose, onerror, startContractStreaming, chain
  <2> QED BY <2>1, <2>2, CacheKept DEF Inv
<1>3. CASE \E j \in Sync : SyncStep(j)
  BY <1>3, SyncJobStep
<1>4. CASE \E r \in Reader : Reads(r)
  BY <1>4, ReaderStep
<1>5. CASE Crash
  BY <1>5, CrashStep
<1>6. CASE UNCHANGED vars
  <2>1. UNCHANGED <<tx, registry, listener, jobs, reader, faults>>
    BY <1>6 DEF vars, chain
  <2> QED BY <2>1, ListenerKept, CacheKept DEF Inv
<1> QED BY <1>1, <1>2, <1>3, <1>4, <1>5, <1>6 DEF Next

LEMMA Invariance == Spec => []Inv
  BY InitInv, InvStep, PTL DEF Spec

\* The listener, the cache and the jobs stay in their states; in particular the
\* cursor never passes the last transaction.
THEOREM CacheTypeCorrect == Spec => []TypeOK
<1>1. Inv => TypeOK
  BY DEF Inv, ListenerInv, ListenerTypes, CacheInv, CacheTypes, SyncInv, Busy, TypeOK
<1> QED BY <1>1, Invariance, PTL

\* However handlers take turns, streams are doubled or replayed and the process
\* restarts: every event up to the cursor was tried, unless a gap was met.
THEOREM CursorCountsWhatWasTried == Spec => []CursorPassesOnlyTried
<1>1. Inv => CursorPassesOnlyTried
  <2> SUFFICES ASSUME Inv, gap = {}, Quiet, NEW n \in 1..cursor PROVE Tried(n)
    BY DEF CursorPassesOnlyTried
  <2>1. n \in DOMAIN tx /\ n <= cursor
    BY Shapes DEF Inv, ListenerInv, ListenerTypes
  <2> QED BY <2>1, QuietTried DEF Tried, Inv
<1> QED BY <1>1, Invariance, PTL

\* No asset is cached, or told a reader, as burned that the contract did not
\* burn, whichever answer of the contract overwrites which.
THEOREM BurnedIsNeverInvented == Spec => []BurnedIsTrue
<1>1. Inv => BurnedIsTrue
  BY DEF Inv, CacheInv, BurnInv, BurnedIsTrue
<1> QED BY <1>1, Invariance, PTL

\* A job that nothing disturbed leaves the rows as the contract has them,
\* however many jobs overlap.
THEOREM UndisturbedJobsAgree == Spec => []UndisturbedPassAgrees
<1>1. Inv => UndisturbedPassAgrees
  <2> SUFFICES ASSUME Inv, NEW j \in Sync \ disturbed,
                      sync[j].at = "next", sync[j].todo = {}, NEW a \in Loaded
               PROVE  cache[a] = Latest(j, a)
    BY DEF UndisturbedPassAgrees
  <2>1. j \in Busy /\ Placed(sync[j]) /\ Latest(j, a) = AsRead(sync[j], a)
    BY JobFields DEF Inv
  <2>2. disturbed = {}
    BY <2>1 DEF Inv, CacheInv, SyncInv
  <2>3. Knows(sync[j]) /\ sync[j].asset = None /\ a # None
    BY <2>1, <2>2, LoadedAssumption DEF Inv, CacheInv, SyncInv, Placed
  <2> QED BY <2>1, <2>3 DEF Knows
<1> QED BY <1>1, Invariance, PTL
=============================================================================
