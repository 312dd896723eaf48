SPECIFICATION Spec
CONSTANTS
    Lease = {a, b}
    NoLease = none
    MaxAttempts = 2
    MaxJobs = 3
    MaxMisses = 2
    MaxFaults = 1
INVARIANTS
    TypeOK
    WarnedBeforeLockout
    CompletedIsLockedOut
    LockedOutOnce
    
    
PROPERTY AbortedIsLeftAlone
CHECK_DEADLOCK FALSE
