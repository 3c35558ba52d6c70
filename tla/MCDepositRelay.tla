-------------------------- MODULE MCDepositRelay --------------------------
(***************************************************************************)
(* TLC instance of DepositRelay: one investor who pays twice, in different *)
(* assets, and an admin who retries the deposit.                           *)
(***************************************************************************)
EXTENDS DepositRelay

CONSTANTS p1, p2, m1, h1, h2

MCMemoOf == [p \in Payments |-> m1]
MCAssetOf == [p \in Payments |-> IF p = p2 THEN "XLM" ELSE "USDC"]
=============================================================================
