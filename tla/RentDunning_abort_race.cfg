SPECIFICATION Spec
CONSTANTS
    Lease = {a, b}
    NoLease = none
    MaxAttempts = 2
    MaxJobs = 2
    MaxMisses = 2
    MaxFaults = 0
PROPERTY AbortedLocksNobodyOut
CHECK_DEADLOCK FALSE
