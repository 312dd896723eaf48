SPECIFICATION FairSpec
CONSTANTS
  Leases <- MCLeases
  Locks <- MCLocks
  Keys <- MCKeys
  Provider <- MCProvider
  LeaseOfKey <- MCLeaseOfKey
  Requests = {r1, r2}
  MaxChanges = 2
  MaxExpiries = 2
  MaxFaults = 1
INVARIANTS TypeOK TokensAreKept EnforcementHolds
PROPERTY UnlocksInTheEnd
CHECK_DEADLOCK FALSE
