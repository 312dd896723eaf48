--------------------------- MODULE MCEventPipeline ---------------------------
(* An instance of EventPipeline for TLC. *)
EXTENDS EventPipeline, TLC

\* A DerivedHierarchyBurned event, which has no handler to fail, a malformed
\* one, one of no type the poller knows, and a LeaseStarted event.
MCLedgerOf == <<1, 1, 2, 2>>
MCKind == <<"lease", "malformed", "ignored", "lease">>
MCCopies == 1 :> 2 @@ 4 :> 1
MCEvent == {<<1, 1>>, <<1, 2>>, <<4, 1>>}
MCThrows == {<<4, 1>>}
MCPriority == [e \in MCEvent |-> IF e[1] = 4 THEN 10 ELSE 4]
MCLedger == [e \in MCEvent |-> MCLedgerOf[e[1]]]
=============================================================================
