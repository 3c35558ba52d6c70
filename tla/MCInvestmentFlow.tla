--------------------------- MODULE MCInvestmentFlow --------------------------
(***************************************************************************)
(* TLC instances of InvestmentFlow: two submissions compete, by the same   *)
(* investor or by two, of the same intent or of two.                       *)
(***************************************************************************)
EXTENDS InvestmentFlow

CONSTANTS r1, r2, i1, i2, v1, v2

MCAmounts == {1, 2}
=============================================================================
