SPECIFICATION FairSpec
CONSTANTS
  Tenants <- MCTenants
  Buyers <- MCBuyers
  Polls = {p1, p2}
  PageLimit = 2
  MaxOps = 3
  MaxDisputes = 1
  MaxFaults = 2
INVARIANTS TypeOK BooksAgree OnlyFailedInsertsAreSkipped
PROPERTY PaymentsGetRecorded
CHECK_DEADLOCK FALSE
