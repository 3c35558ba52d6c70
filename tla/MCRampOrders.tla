--------------------------- MODULE MCRampOrders ---------------------------
(***************************************************************************)
(* TLC instance of RampOrders: two orders, of either type.                 *)
(***************************************************************************)
EXTENDS RampOrders

CONSTANTS o1, o2, h1
=============================================================================
