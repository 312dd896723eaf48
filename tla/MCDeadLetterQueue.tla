--------------------------- MODULE MCDeadLetterQueue ---------------------------
(* Instances of DeadLetterQueue for TLC. *)
EXTENDS DeadLetterQueue

CONSTANTS lease, burned

\* A LeaseStarted event, whose handler does not exist, and an event of a type
\* the switch does not name (DerivedHierarchyBurned), which succeeds at once.
MCEvent == {lease, burned}
MCThrows == {lease}
MCPriority == [e \in MCEvent |-> IF e = lease THEN 10 ELSE 4]
MCLedger == [e \in MCEvent |-> IF e = lease THEN 1 ELSE 2]
=============================================================================
