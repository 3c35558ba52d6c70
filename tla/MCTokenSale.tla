----------------------------- MODULE MCTokenSale -----------------------------
(***************************************************************************)
(* TLC instances of TokenSale.  The company is also a buyer's counterparty *)
(* and may trade; the seller is the first admin, as in the deployed offers.*)
(***************************************************************************)
EXTENDS TokenSale

CONSTANTS buyer, corp, stranger

\* Two prices that round (3 tokens for 2 units) and one with a zero part, which
\* create and updt_price refuse.
MCQuotes == {<<3, 2>>, <<1, 2>>, <<0, 1>>}
MCPurchases == 1..2

\* The buyer can afford more than its cap.
MCPurse == [a \in Accounts |-> IF a = buyer THEN 6 ELSE 1]
=============================================================================
