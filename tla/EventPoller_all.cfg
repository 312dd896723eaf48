SPECIFICATION FairSpec
CONSTANTS
    NumEvents = 5
    LedgerOf <- MCLedgerOf
    Kind <- MCKind
    MaxLedger = 4
    Poll = {p1, p2}
    Resets = {0, 3}
    MaxFaults = 1
INVARIANTS TypeOK NothingElseIsSkipped BadEventStaysLocal QueuedOnce
PROPERTY ReachesTheEnd
