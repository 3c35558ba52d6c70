--------------------------- MODULE MCYieldPayments ---------------------------
(***************************************************************************)
(* TLC instances of YieldPayments: one investor at the start, another one  *)
(* joins later and needs a second batch.                                   *)
(***************************************************************************)
EXTENDS YieldPayments

CONSTANTS inv1, inv2, corp, treasury, ops

MCInvestments == <<[by |-> inv1, owed |-> 2], [by |-> inv2, owed |-> 3]>>

\* Enough for two periods of one, or for one and a half of both investors.
MCPurse == [a \in Accounts |-> IF a = corp THEN 11 ELSE 0]
=============================================================================
