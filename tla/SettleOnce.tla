------------------------------ MODULE SettleOnce ------------------------------
(***************************************************************************)
(* What a maturity settlement promises its investors, whatever the batches *)
(* and their order: an investor is settled at most once, is paid only when *)
(* settled, only against tokens, and loses them all in the same step.      *)
(***************************************************************************)
EXTENDS Naturals

CONSTANT Investors

VARIABLES
  settled,       \* the investors settled so far
  received,      \* the USDC each investor got from the settlement
  holding        \* the security tokens each investor holds

vars == <<settled, received, holding>>

Init ==
  /\ settled = {}
  /\ received = [i \in Investors |-> 0]
  /\ holding \in [Investors -> Nat]

Settle(S) ==
  /\ S # {} /\ S \cap settled = {}
  /\ settled' = settled \cup S
  /\ holding' = [i \in Investors |-> IF i \in S THEN 0 ELSE holding[i]]
  /\ \A i \in Investors :
       /\ received'[i] >= received[i]
       /\ received'[i] # received[i] => i \in S /\ holding[i] > 0

\* Tokens change hands between investors.
Trade ==
  /\ holding' \in [Investors -> Nat]
  /\ UNCHANGED <<settled, received>>

Next ==
  \/ \E S \in SUBSET Investors : Settle(S)
  \/ Trade

Spec == Init /\ [][Next]_vars
=============================================================================
