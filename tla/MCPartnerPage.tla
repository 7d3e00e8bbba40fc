--------------------------- MODULE MCPartnerPage ---------------------------
(* Model checking of PartnerPage with two partners.                         *)
EXTENDS PartnerPage

CONSTANTS p1, p2

TwoPartners == {p1, p2}
=============================================================================
