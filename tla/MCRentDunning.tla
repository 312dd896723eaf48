--------------------------- MODULE MCRentDunning ---------------------------
(* Instances of RentDunning for TLC. *)
EXTENDS RentDunning
=============================================================================
