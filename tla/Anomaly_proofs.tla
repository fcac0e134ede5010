--------------------------- MODULE Anomaly_proofs ---------------------------
(***************************************************************************)
(* The arithmetic of the baseline, for all counts that the casts to        *)
(* int32_t keep as they are: a table has far fewer slots.                  *)
(***************************************************************************)
EXTENDS Anomaly, TLAPS

(***************************************************************************)
(* A step of the baseline in anomaly_run() lands between the old baseline  *)
(* and the count: the signed quarter never overshoots, and adding it to a  *)
(* uint32_t never wraps.                                                   *)
(***************************************************************************)
THEOREM StepStaysBetween ==
  ASSUME NEW b \in 0 .. UINT32 - 1, NEW n \in 0 .. UINT32 - 1
  PROVE  /\ TrackBaseline(b, n) \in Nat
         /\ \/ b <= TrackBaseline(b, n) /\ TrackBaseline(b, n) <= n
            \/ b >= TrackBaseline(b, n) /\ TrackBaseline(b, n) >= n
<1> USE AnomalyAssumption
<1> DEFINE s == Quarter(n - b)
<1>1. \A x \in 0 .. UINT32 - 1 : x % UINT32 = x
  OBVIOUS
<1>2. CASE b <= n
  <2>1. s \in 0 .. n - b
    BY <1>2 DEF Quarter
  <2>2. TrackBaseline(b, n) = b + s
    BY <1>1, <2>1 DEF TrackBaseline
  <2> QED
    BY <2>1, <2>2
<1>3. CASE b > n
  <2>1. -s \in 0 .. b - n
    BY <1>3 DEF Quarter
  <2>2. s \in Int /\ b + s \in n .. b
    BY <2>1 DEF Quarter
  <2>3. TrackBaseline(b, n) = b + s
    BY <1>1, <2>2 DEF TrackBaseline
  <2> QED
    BY <2>2, <2>3
<1> QED
  BY <1>2, <1>3
=============================================================================
