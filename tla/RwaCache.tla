------------------------------ MODULE RwaCache ------------------------------
(***************************************************************************)
(* The ownership cache of real-world assets, with the schema the migration *)
(* gives it.  asset_transfer_events references columns of                  *)
(* asset_ownership_cache that no UNIQUE index covers, and AppDatabase      *)
(* turns foreign keys on, so SQLite refuses ("foreign key mismatch") every *)
(* INSERT into the events, and every INSERT OR REPLACE into and DELETE     *)
(* from the cache.  The code logs each of these errors and goes on:        *)
(*                                                                         *)
(*  - StellarEventListener stores no event, and so never comes to what     *)
(*    processEvent does after storing one; its cursor moves all the same;  *)
(*  - RwaCacheService answers readers, but fills and invalidates nothing;  *)
(*  - RwaCacheSyncJob, whose statement is an UPDATE, is the only writer,   *)
(*    and the rows are the ones the migration loaded.                      *)
(*                                                                         *)
(* The stream does not wait for its async onmessage, so the handlers of    *)
(* the transactions that arrive together take turns at every await; their  *)
(* awaits are on finished work, so they are done before the stream's next  *)
(* event.  The awaits of the job and of a reader are calls to Horizon:     *)
(* anything may happen during them.  The listener and the cache share no   *)
(* variable but the contract.                                              *)
(***************************************************************************)
EXTENDS Naturals, Sequences

CONSTANTS
    Asset, Owner,
    FirstOwner,     \* who owns every asset at first
    Loaded,         \* the assets the migration loaded a row for
    None,           \* no asset, no data entry, no row
    Stream,         \* streams that may be open together
    Sync,           \* sync jobs at work (concurrency: 2)
    Reader,         \* callers of getAssetOwnership
    MaxRetries,     \* maxRetries (3 in the code)
    MaxTx,          \* bound: transactions of the contract
    MaxEvents,      \* bound: events of a transaction
    MaxBatch,       \* bound: transactions that arrive together
    MaxFaults       \* bound: failures and crashes

ASSUME OwnerAssumption == FirstOwner \in Owner
ASSUME LoadedAssumption == Loaded \subseteq Asset /\ None \notin Asset
ASSUME StreamAssumption == Stream # {}
ASSUME CacheBounds ==
    /\ MaxRetries \in Nat /\ MaxTx \in Nat /\ MaxFaults \in Nat
    /\ MaxEvents \in Nat \ {0} /\ MaxBatch \in Nat \ {0}

VARIABLES
    tx,         \* the contract's transactions: how many events each parses to
    registry,   \* the contract's data entry of each asset
    cache,      \* asset_ownership_cache
    tried,      \* <<transaction, event>>: those that were to be stored
    cursor,     \* last_event_cursor of the registry row; 0 for NULL
    loaded,     \* last_event_cursor as start() read it
    open,       \* the open streams
    pos,        \* the transaction each of them delivered last
    timers,     \* pending restarts of the stream
    retries,    \* retryAttempts
    turn,       \* the running onmessage handlers, in the order of their turns
    sync,       \* the sync jobs
    disturbed,  \* those that ran while the contract changed or a query failed
    reader,     \* the readers
    faults,
    gap         \* why transactions may have been passed over

chain == <<tx, registry>>
listener == <<tried, cursor, loaded, open, pos, timers, retries, turn, gap>>
jobs == <<cache, sync, disturbed>>
vars == <<chain, listener, jobs, reader, faults>>

Row == [owner: Owner, frozen: BOOLEAN, burned: BOOLEAN]
Answer == [owner: Owner \union {None}, frozen: BOOLEAN, burned: BOOLEAN]
Handler == [tx: 1..MaxTx, event: 1..(MaxEvents + 1),
            at: {"store", "caught", "end", "cursor"}]
FirstRow == [owner |-> FirstOwner, frozen |-> FALSE, burned |-> FALSE]
NoAnswer == [owner |-> None, frozen |-> FALSE, burned |-> FALSE]
IdleJob == [at |-> "idle", todo |-> {}, read |-> [a \in Loaded |-> FirstOwner],
            asset |-> None, row |-> FirstRow]
Job == [at: {"idle", "next", "frozen", "burned", "write"}, todo: SUBSET Loaded,
        read: [Loaded -> Owner], asset: Loaded \union {None}, row: Row]
IdleReader == [at |-> "idle", asset |-> None, row |-> NoAnswer]

TypeOK ==
    /\ tx \in Seq(0..MaxEvents) /\ Len(tx) <= MaxTx
    /\ registry \in [Asset -> Row \union {None}]
    /\ cache \in [Loaded -> Row]
    /\ \A s \in tried : s[1] \in DOMAIN tx /\ s[2] \in 1..tx[s[1]]
    /\ cursor \in 0..Len(tx) /\ loaded \in 0..Len(tx)
    /\ open \subseteq Stream
    /\ pos \in [Stream -> 0..Len(tx)]
    /\ timers \in Nat /\ retries \in 0..MaxRetries
    /\ turn \in Seq(Handler)
    /\ sync \in [Sync -> Job] /\ disturbed \subseteq Sync
    /\ reader \in [Reader -> [at: {"idle", "asked", "told"},
                              asset: Asset \union {None}, row: Answer]]
    /\ faults \in 0..MaxFaults
    /\ gap \subseteq {"restart", "crash"}

FirstStream == CHOOSE s \in Stream : TRUE

\* The listener has started on a registry row without a cursor.
Init ==
    /\ tx = <<>>
    /\ registry = [a \in Asset |-> FirstRow]
    /\ cache = [a \in Loaded |-> FirstRow]
    /\ tried = {}
    /\ cursor = 0 /\ loaded = 0
    /\ open = {FirstStream}
    /\ pos = [s \in Stream |-> 0]
    /\ timers = 0 /\ retries = 0
    /\ turn = <<>>
    /\ sync = [j \in Sync |-> IdleJob]
    /\ disturbed = {}
    /\ reader = [r \in Reader |-> IdleReader]
    /\ faults = 0
    /\ gap = {}

Quiet == turn = <<>>    \* no handler has a turn left

Fault == /\ faults < MaxFaults
         /\ faults' = faults + 1

-----------------------------------------------------------------------------
(* The registry contract                                                   *)

IsBurned(a) == registry[a] # None /\ registry[a].burned

\* The jobs at work.
Busy == {j \in Sync : sync[j].at # "idle"}

\* The network commits a transaction, which may change data entries; what is
\* burned stays burned.
Commit ==
    /\ Len(tx) < MaxTx
    /\ \E n \in 0..MaxEvents : tx' = Append(tx, n)
    /\ \/ UNCHANGED <<registry, disturbed>>
       \/ /\ \E a \in Asset, entry \in Row \union {None} :
                /\ ~IsBurned(a)
                /\ registry' = [registry EXCEPT ![a] = entry]
          /\ disturbed' = disturbed \union Busy
    /\ UNCHANGED <<listener, cache, sync, reader, faults>>

-----------------------------------------------------------------------------
(* StellarEventListener                                                    *)

\* Mutant: the cursor is taken for the first transaction to deliver.
StartFrom_Next(c) == IF c = 0 THEN Len(tx) ELSE c + 1

\* Where startContractStreaming begins: at the cursor it is given or, when
\* that is NULL, at the latest transaction.
StartFrom(c) == IF c = 0 THEN Len(tx) ELSE c

\* There are events before the start that were never tried.
PassesOver(c) ==
    c = 0 /\ \E n \in DOMAIN tx : \E i \in 1..tx[n] : <<n, i>> \notin tried

\* Transactions arrive: their handlers start one after the other.
onmessage(s) ==
    /\ Quiet
    /\ s \in open
    /\ \E k \in 1..MaxBatch :
          /\ pos[s] + k <= Len(tx)
          /\ turn' = [j \in 1..k |->
                        [tx |-> pos[s] + j, event |-> 1,
                         at |-> IF tx[pos[s] + j] = 0 THEN "end" ELSE "store"]]
          /\ pos' = [pos EXCEPT ![s] = @ + k]
    /\ UNCHANGED <<chain, tried, cursor, loaded, open, timers, retries, gap,
                   jobs, reader, faults>>

\* The handler whose turn it is goes to the end of the line as h.
PassTurn(h) == turn' = Append(Tail(turn), h)

\* The INSERT throws; processEvent awaits the rejected promise ...
storeTransferEvent ==
    /\ ~Quiet /\ Head(turn).at = "store"
    /\ tried' = tried \union {<<Head(turn).tx, Head(turn).event>>}
    /\ PassTurn([Head(turn) EXCEPT !.at = "caught"])
    /\ UNCHANGED <<chain, cursor, loaded, open, pos, timers, retries, gap, jobs,
                   reader, faults>>

\* Mutant: the first error ends the transaction.
processEvent_FirstOnly ==
    /\ ~Quiet /\ Head(turn).at = "caught"
    /\ PassTurn([Head(turn) EXCEPT !.event = @ + 1, !.at = "end"])
    /\ UNCHANGED <<chain, tried, cursor, loaded, open, pos, timers, retries, gap,
                   jobs, reader, faults>>

\* ... and catches the error; handleTransaction takes the next event.
processEvent ==
    /\ ~Quiet /\ Head(turn).at = "caught"
    /\ LET h == Head(turn)
       IN  PassTurn([h EXCEPT !.event = @ + 1,
                              !.at = IF h.event < tx[h.tx] THEN "store" ELSE "end"])
    /\ UNCHANGED <<chain, tried, cursor, loaded, open, pos, timers, retries, gap,
                   jobs, reader, faults>>

\* handleTransaction returns to onmessage.
handleTransaction ==
    /\ ~Quiet /\ Head(turn).at = "end"
    /\ PassTurn([Head(turn) EXCEPT !.at = "cursor"])
    /\ UNCHANGED <<chain, tried, cursor, loaded, open, pos, timers, retries, gap,
                   jobs, reader, faults>>

\* The cursor is written, or the error is logged and it stays.
updateContractCursor ==
    /\ ~Quiet /\ Head(turn).at = "cursor"
    /\ \/ cursor' = Head(turn).tx /\ UNCHANGED faults
       \/ Fault /\ UNCHANGED cursor
    /\ turn' = Tail(turn)
    /\ UNCHANGED <<chain, tried, loaded, open, pos, timers, retries, gap, jobs,
                   reader>>

\* The stream closes and is started again after a delay.
onclose(s) ==
    /\ Quiet /\ s \in open
    /\ Fault
    /\ open' = open \ {s}
    /\ pos' = [pos EXCEPT ![s] = 0]
    /\ timers' = timers + 1
    /\ UNCHANGED <<chain, tried, cursor, loaded, retries, turn, gap, jobs, reader>>

\* handleStreamError starts another stream; this one reconnects by itself.
onerror(s) ==
    /\ Quiet /\ s \in open
    /\ retries < MaxRetries
    /\ Fault
    /\ retries' = retries + 1
    /\ timers' = timers + 1
    /\ UNCHANGED <<chain, tried, cursor, loaded, open, pos, turn, gap, jobs, reader>>

\* The timer calls startContractStreaming with the row start() read.
startContractStreaming(s) ==
    /\ Quiet
    /\ timers > 0
    /\ timers' = timers - 1
    /\ s \notin open
    /\ open' = open \union {s}
    /\ pos' = [pos EXCEPT ![s] = StartFrom(loaded)]
    /\ gap' = IF PassesOver(loaded) THEN gap \union {"restart"} ELSE gap
    /\ UNCHANGED <<chain, tried, cursor, loaded, retries, turn, jobs, reader, faults>>

-----------------------------------------------------------------------------
(* RwaCacheSyncJob                                                         *)

Goes(j, job) == /\ sync' = [sync EXCEPT ![j] = job]
                /\ UNCHANGED <<chain, listener, reader>>

\* A query fails: what a job at work finds now may not be what is there.
QueryFails == Fault /\ disturbed' = disturbed \union Busy

\* queryContractData finds the data entry, or answers its default structure.
ContractData(a) == IF registry[a] = None THEN NoAnswer ELSE registry[a]

\* An answer without an owner leaves the one in the row the job has read.
Latest(j, a) ==
    IF registry[a] = None THEN [FirstRow EXCEPT !.owner = sync[j].read[a]]
    ELSE registry[a]

\* The job reads the cached assets of the contract.
syncContract(j) ==
    /\ sync[j].at = "idle"
    /\ Goes(j, [IdleJob EXCEPT !.at = "next", !.todo = Loaded,
                               !.read = [a \in Loaded |-> cache[a].owner]])
    /\ disturbed' = IF Busy \intersect disturbed = {} THEN disturbed
                    ELSE disturbed \union {j}
    /\ UNCHANGED <<cache, faults>>

syncContract_end(j) ==
    /\ sync[j].at = "next" /\ sync[j].todo = {}
    /\ Goes(j, IdleJob)
    /\ disturbed' = disturbed \ {j}
    /\ UNCHANGED <<cache, faults>>

\* The job is done with an asset.
NextAsset(j) == [sync[j] EXCEPT !.at = "next", !.asset = None, !.row = FirstRow]

\* Mutant: an answer without an owner is not written.
syncAsset_SkipsNull(j) ==
    /\ sync[j].at = "next"
    /\ \E a \in sync[j].todo :
          Goes(j, IF registry[a] = None THEN [sync[j] EXCEPT !.todo = @ \ {a}]
                  ELSE [sync[j] EXCEPT !.at = "frozen", !.todo = @ \ {a}, !.asset = a,
                                       !.row = [FirstRow EXCEPT !.owner = registry[a].owner]])
    /\ UNCHANGED <<cache, disturbed, faults>>

\* queryAssetOwnership of the next asset is answered ...
syncAsset(j) ==
    /\ sync[j].at = "next"
    /\ \E a \in sync[j].todo :
          Goes(j, [sync[j] EXCEPT !.at = "frozen", !.todo = @ \ {a}, !.asset = a,
                                  !.row = [FirstRow EXCEPT !.owner = Latest(j, a).owner]])
    /\ UNCHANGED <<cache, disturbed, faults>>

\* ... or fails, as the update may, and the asset is left out.
syncAsset_fails(j) ==
    /\ QueryFails
    /\ \/ /\ sync[j].at = "next"
          /\ \E a \in sync[j].todo : Goes(j, [sync[j] EXCEPT !.todo = @ \ {a}])
       \/ /\ sync[j].at = "write"
          /\ Goes(j, NextAsset(j))
    /\ UNCHANGED cache

\* isAssetFrozen and isAssetBurned: a failed query counts as a no.
isAssetFrozen(j) ==
    /\ sync[j].at = "frozen"
    /\ \E b \in BOOLEAN :
          /\ \/ b = ContractData(sync[j].asset).frozen /\ UNCHANGED <<faults, disturbed>>
             \/ ~b /\ QueryFails
          /\ Goes(j, [sync[j] EXCEPT !.row.frozen = b, !.at = "burned"])
    /\ UNCHANGED cache

\* Mutant: a failed query counts as a yes.
isAssetBurned_FailsClosed(j) ==
    /\ sync[j].at = "burned"
    /\ \E b \in BOOLEAN :
          /\ \/ b = ContractData(sync[j].asset).burned /\ UNCHANGED <<faults, disturbed>>
             \/ b /\ QueryFails
          /\ Goes(j, [sync[j] EXCEPT !.row.burned = b, !.at = "write"])
    /\ UNCHANGED cache

isAssetBurned(j) ==
    /\ sync[j].at = "burned"
    /\ \E b \in BOOLEAN :
          /\ \/ b = ContractData(sync[j].asset).burned /\ UNCHANGED <<faults, disturbed>>
             \/ ~b /\ QueryFails
          /\ Goes(j, [sync[j] EXCEPT !.row.burned = b, !.at = "write"])
    /\ UNCHANGED cache

\* The row is set to what the queries said.
updateAssetCache(j) ==
    /\ sync[j].at = "write"
    /\ cache' = [cache EXCEPT ![sync[j].asset] = sync[j].row]
    /\ Goes(j, NextAsset(j))
    /\ UNCHANGED <<disturbed, faults>>

-----------------------------------------------------------------------------
(* RwaCacheService                                                         *)

Tells(r, a, state, answer) ==
    /\ reader' = [reader EXCEPT ![r] = [at |-> state, asset |-> a, row |-> answer]]
    /\ UNCHANGED <<chain, listener, jobs>>

CachedRow(a) == IF a \in Loaded THEN cache[a] ELSE NoAnswer

\* The row is fresh enough and answers the call, or the chain is asked; the
\* row read before is kept for the case that it does not answer.
getAssetOwnership(r, a) ==
    /\ reader[r].at # "asked"
    /\ \/ a \in Loaded /\ Tells(r, a, "told", cache[a])
       \/ Tells(r, a, "asked", CachedRow(a))
    /\ UNCHANGED faults

\* The chain's answer.  updateCache would fill the cache with it: its INSERT OR
\* REPLACE is refused, which is logged, and the reader is told all the same.
getBlockchainAssetOwnership(r) ==
    /\ reader[r].at = "asked"
    /\ Tells(r, reader[r].asset, "told", ContractData(reader[r].asset))
    /\ UNCHANGED faults

\* No answer: the reader is told the stale row, or that there is no data.
getBlockchainAssetOwnership_fails(r) ==
    /\ reader[r].at = "asked"
    /\ Fault
    /\ Tells(r, reader[r].asset, "told", reader[r].row)

-----------------------------------------------------------------------------

\* The process restarts: start() reads the registry row again.
Crash ==
    /\ Fault
    /\ gap' = gap \union (IF Quiet THEN {} ELSE {"crash"})
                  \union (IF PassesOver(cursor) THEN {"restart"} ELSE {})
    /\ loaded' = cursor
    /\ open' = {FirstStream}
    /\ pos' = [s \in Stream |-> IF s = FirstStream THEN StartFrom(cursor) ELSE 0]
    /\ timers' = 0 /\ retries' = 0
    /\ turn' = <<>>
    /\ sync' = [j \in Sync |-> IdleJob]
    /\ disturbed' = {}
    /\ reader' = [r \in Reader |-> IdleReader]
    /\ UNCHANGED <<chain, cache, tried, cursor>>

Turn ==
    \/ storeTransferEvent \/ processEvent
    \/ handleTransaction \/ updateContractCursor

Streams(s) == onmessage(s) \/ onclose(s) \/ onerror(s) \/ startContractStreaming(s)

SyncStep(j) ==
    \/ syncContract(j) \/ syncContract_end(j) \/ syncAsset(j) \/ syncAsset_fails(j)
    \/ isAssetFrozen(j) \/ isAssetBurned(j) \/ updateAssetCache(j)

Reads(r) ==
    \/ \E a \in Asset : getAssetOwnership(r, a)
    \/ getBlockchainAssetOwnership(r) \/ getBlockchainAssetOwnership_fails(r)

Next ==
    \/ Commit
    \/ Turn \/ \E s \in Stream : Streams(s)
    \/ \E j \in Sync : SyncStep(j)
    \/ \E r \in Reader : Reads(r)
    \/ Crash

Spec == Init /\ [][Next]_vars

-----------------------------------------------------------------------------
(* Properties                                                              *)

Tried(n) == \A i \in 1..tx[n] : <<n, i>> \in tried

\* Whatever streams are closed, doubled or replayed, in whichever order their
\* handlers write the cursor, and whenever the process restarts: the listener
\* has tried to store every event up to the persisted cursor (and each time was
\* refused), unless a stream was started without a cursor or the crash hit
\* handlers at work.
CursorPassesOnlyTried ==
    gap = {} /\ Quiet => \A n \in 1..cursor : Tried(n)

\* No asset the contract did not burn is cached as burned, nor is a reader told
\* so, although queries fail and older answers overwrite newer ones.
BurnedIsTrue ==
    /\ \A a \in Loaded : cache[a].burned => IsBurned(a)
    /\ \A r \in Reader : reader[r].at = "told" /\ reader[r].row.burned
                            => IsBurned(reader[r].asset)

\* A sync job that is through, and during which neither the contract changed nor
\* a query failed, whoever's it was, leaves every row as the contract has it,
\* also when two jobs overlap; where the contract knows no owner the row keeps
\* its own.
UndisturbedPassAgrees ==
    \A j \in Sync \ disturbed :
       sync[j].at = "next" /\ sync[j].todo = {}
         => \A a \in Loaded : cache[a] = Latest(j, a)
=============================================================================
