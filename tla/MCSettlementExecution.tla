------------------------ MODULE MCSettlementExecution ------------------------
(***************************************************************************)
(* TLC instance of SettlementExecution: one investor to a batch, so two    *)
(* rows make two batches.                                                  *)
(***************************************************************************)
EXTENDS SettlementExecution

CONSTANTS e1, e2, inv1, inv2, corp, issuer

\* Two investors owed different amounts; the fee's first share rounds up to one.
MCRows == <<[by |-> inv1, owed |-> 1], [by |-> inv2, owed |-> 3]>>

MCPurse == [a \in Accounts |-> IF a = corp THEN 6 ELSE 0]
\* What the contract's own specification lets callers pass; the service computes it.
MCAmounts == 0..6

MCHolding == [i \in Investors |-> 1]
=============================================================================
