\* Two lease events, one of them queued up to twice, two faults of the poller,
\* one of the queues, one retry.
SPECIFICATION PipelineSpec
CONSTANTS
    NumEvents = 4
    LedgerOf <- MCLedgerOf
    Kind <- MCKind
    MaxLedger = 2
    Poll = {p1}
    Resets = {0}
    Copies <- MCCopies
    MaxPollFaults = 2
    Event <- MCEvent
    Throws <- MCThrows
    Critical <- MCThrows
    Priority <- MCPriority
    Ledger <- MCLedger
    Slots = 2
    MaxRetries = 1
    MaxFaults = 1
INVARIANT PassedIsKept
CHECK_DEADLOCK FALSE
