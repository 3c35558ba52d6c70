------------------------- MODULE MCPaymentSchedule -------------------------
(***************************************************************************)
(* TLC instances of PaymentSchedule.                                       *)
(***************************************************************************)
EXTENDS PaymentSchedule

CONSTANTS h1, h2
=============================================================================
