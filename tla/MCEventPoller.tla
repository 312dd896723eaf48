--------------------------- MODULE MCEventPoller ---------------------------
EXTENDS EventPoller

\* Four ledgers, the last one empty.  The second event is malformed: one event
\* follows it in its own ledger, and others precede and follow it in other
\* ledgers.  A page may end between the two events of the third ledger.
MCLedgerOf == <<1, 2, 2, 3, 3>>
MCKind == <<"lease", "malformed", "lease", "ignored", "lease">>
=============================================================================
