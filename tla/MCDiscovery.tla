----------------------------- MODULE MCDiscovery -----------------------------
(***************************************************************************)
(* Model values for the runs of Discovery.                                 *)
(***************************************************************************)
EXTENDS Discovery

CONSTANTS m1, m2, m3, a1, n1
=============================================================================
