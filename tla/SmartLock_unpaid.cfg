SPECIFICATION EnforcedSpec
CONSTANTS
  Leases <- MCLeases
  Locks <- MCLocks
  Keys <- MCKeys
  Provider <- MCProvider
  LeaseOfKey <- MCLeaseOfKey
  Requests = {r1}
  MaxChanges = 1
  MaxExpiries = 0
  MaxFaults = 0
PROPERTY BreachedLeaseLosesKeys
CHECK_DEADLOCK FALSE
