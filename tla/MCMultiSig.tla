---------------------------- MODULE MCMultiSig ----------------------------
(***************************************************************************)
(* TLC instance of MultiSig: a contract operation that needs two           *)
(* signatures and whose XDR is built again when it is fetched.             *)
(***************************************************************************)
EXTENDS MultiSig

CONSTANTS t1, h1, h2, k1, k2

MCThreshold == [r \in Rows |-> 2]
=============================================================================
