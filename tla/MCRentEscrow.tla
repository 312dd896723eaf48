---------------------------- MODULE MCRentEscrow ----------------------------
(* Instances of RentEscrow for TLC. *)
EXTENDS RentEscrow, TLC

CONSTANTS e1, e2, t1

MCEscrow == {e1, e2}
MCTicket == {t1}
MCTicketStatus == {"open", "closed"}
MCPercent == {0, 30, 100}

=============================================================================
