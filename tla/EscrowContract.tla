--------------------------- MODULE EscrowContract ---------------------------
(***************************************************************************)
(* What an escrow promises, whatever the statements it is made of: rent is *)
(* held, one decision is taken about it and never changed, and after the   *)
(* decision each party is paid at most once, together never more than was  *)
(* held.  RentEscrow implements it (RentEscrow!Contract).                  *)
(***************************************************************************)
EXTENDS Integers

CONSTANT Escrow

VARIABLES
    status,     \* of each escrow
    landlord,   \* percent of the amount paid to the landlord
    tenant      \* percent of the amount paid to the tenant

vars == <<status, landlord, tenant>>

\* The decisions that let a party be paid.
ForLandlord == {"released_to_landlord", "split"}
ForTenant == {"returned_to_tenant", "split", "cancelled"}

Init ==
    /\ status = [e \in Escrow |-> "none"]
    /\ landlord = [e \in Escrow |-> 0]
    /\ tenant = [e \in Escrow |-> 0]

Hold(e) ==
    /\ status[e] = "none"
    /\ status' = [status EXCEPT ![e] = "active"]
    /\ UNCHANGED <<landlord, tenant>>

Decide(e) ==
    /\ status[e] = "active"
    /\ status'[e] \in ForLandlord \union ForTenant
    /\ status' = [status EXCEPT ![e] = status'[e]]
    /\ UNCHANGED <<landlord, tenant>>

PayLandlord(e) ==
    /\ status[e] \in ForLandlord
    /\ landlord[e] = 0
    /\ landlord'[e] \in 0..(100 - tenant[e])
    /\ landlord' = [landlord EXCEPT ![e] = landlord'[e]]
    /\ UNCHANGED <<status, tenant>>

PayTenant(e) ==
    /\ status[e] \in ForTenant
    /\ tenant[e] = 0
    /\ tenant'[e] \in 0..(100 - landlord[e])
    /\ tenant' = [tenant EXCEPT ![e] = tenant'[e]]
    /\ UNCHANGED <<status, landlord>>

Next == \E e \in Escrow : Hold(e) \/ Decide(e) \/ PayLandlord(e) \/ PayTenant(e)

Spec == Init /\ [][Next]_vars
=============================================================================
