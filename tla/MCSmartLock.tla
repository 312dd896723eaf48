---------------------------- MODULE MCSmartLock ----------------------------
EXTENDS SmartLock

MCLeases == {"flat"}
MCLocks == {"door"}
MCKeys == {"k1", "k2"}
MCProvider == [d \in MCLocks |-> "august"]
MCLeaseOfKey == [k \in MCKeys |-> "flat"]
=============================================================================
