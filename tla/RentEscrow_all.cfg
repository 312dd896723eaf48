\* Two escrows, two faults: every race of answers, requests and sweeps.
SPECIFICATION Spec
CONSTANTS
    e1 = e1
    e2 = e2
    t1 = t1
    NoEscrow = NoEscrow
    Escrow <- MCEscrow
    Ticket <- MCTicket
    TicketStatus <- MCTicketStatus
    Percent <- MCPercent
    MaxFaults = 2
INVARIANTS
    TypeOK
    PaidAtMostOnce
    BooksBalance
    FaultsStrandOneEach
PROPERTIES
    AnswerNotOverridden
    ImplementsContract
