----------------------------- MODULE MCRwaCache -----------------------------
(***************************************************************************)
(* The listener and the cache share no variable but the contract, and no   *)
(* property speaks of both: one is explored while the other rests.         *)
(***************************************************************************)
EXTENDS RwaCache

MaxCacheFaults == 1

ListenerRests ==
    /\ faults <= MaxCacheFaults
    /\ turn = <<>> /\ timers = 0 /\ cursor = 0 /\ open = {FirstStream}
    /\ \A n \in DOMAIN tx : tx[n] = 0

CacheRests ==
    /\ registry = [a \in Asset |-> FirstRow]
    /\ sync = [j \in Sync |-> IdleJob] /\ reader = [r \in Reader |-> IdleReader]

OnePart == ListenerRests \/ CacheRests
=============================================================================
