------------------------- MODULE MCMaturitySettlement -------------------------
(***************************************************************************)
(* TLC instances of MaturitySettlement: two investors with a token each,   *)
(* the company and a second depositor, a fee cap of half the payouts.      *)
(***************************************************************************)
EXTENDS MaturitySettlement

CONSTANTS inv1, inv2, corp, issuer

MCPurse == [a \in Accounts |-> IF a = corp THEN 3 ELSE IF a = inv1 THEN 1 ELSE 0]
MCHolding == [i \in Investors |-> 1]
MCFees == {-1, 0, 1}
MCPayouts == {-1, 0, 1, 2}
=============================================================================
