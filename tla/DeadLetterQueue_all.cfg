\* Two events, two retries, four faults.
SPECIFICATION FairSpec
CONSTANTS
    lease = lease
    burned = burned
    Event <- MCEvent
    Throws <- MCThrows
    Critical <- MCThrows
    Priority <- MCPriority
    Ledger <- MCLedger
    Slots = 2
    MaxRetries = 2
    MaxFaults = 4
INVARIANTS
    TypeOK
    NothingVanishes
    PointerIsAccountedFor
    RemovedWasHandled
PROPERTY
    EventsSettle
CHECK_DEADLOCK FALSE
