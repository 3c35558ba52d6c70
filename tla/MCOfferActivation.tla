------------------------- MODULE MCOfferActivation -------------------------
(***************************************************************************)
(* TLC instances of OfferActivation.                                       *)
(***************************************************************************)
EXTENDS OfferActivation

CONSTANTS h1, h2, l1
=============================================================================
