--------------------------- MODULE MCDiscoveryLan ---------------------------
(***************************************************************************)
(* Model values for the runs of DiscoveryLan.                              *)
(***************************************************************************)
EXTENDS DiscoveryLan

CONSTANTS m1, m2, a1, a2, n1
=============================================================================
