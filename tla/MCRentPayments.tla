--------------------------- MODULE MCRentPayments ---------------------------
EXTENDS RentPayments

MCTenants == {"ann"}
MCBuyers == MCTenants
=============================================================================
