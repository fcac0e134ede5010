---------------------------- MODULE Growth_proofs ----------------------------
(***************************************************************************)
(* The baseline of the growth alarm, for every size of network and every   *)
(* growth percentage: where one step takes it, and that it therefore never *)
(* leaves the range of the counts nor moves away from the current one.     *)
(***************************************************************************)
EXTENDS Growth, Anomaly_proofs

\* The step of the baseline, restricted to what the table can count.
LEMMA StepCounts ==
  ASSUME NEW b \in Count, NEW n \in Count
  PROVE  /\ TrackBaseline(b, n) \in Count
         /\ \/ b <= TrackBaseline(b, n) /\ TrackBaseline(b, n) <= n
            \/ b >= TrackBaseline(b, n) /\ TrackBaseline(b, n) >= n
<1>1. b \in 0 .. UINT32 - 1 /\ n \in 0 .. UINT32 - 1
  BY GrowthAssumption, AnomalyAssumption DEF Count
<1> QED
  BY <1>1, StepStaysBetween, GrowthAssumption DEF Count

(***************************************************************************)
(* s_baseline_online is always a number of devices the table can hold.     *)
(***************************************************************************)
THEOREM TypeCorrect == Spec => []TypeOK
<1>1. Init => TypeOK
  <2>1. 0 \in Count
    BY GrowthAssumption DEF Count
  <2> QED
    BY <2>1 DEF Init, TypeOK
<1>2. TypeOK /\ [Next]_vars => TypeOK'
  <2> SUFFICES ASSUME TypeOK, [Next]_vars PROVE TypeOK'
    OBVIOUS
  <2> USE DEF TypeOK
  <2>1. CASE Churn
    BY <2>1 DEF Churn
  <2>2. CASE Settle
    BY <2>2 DEF Settle
  <2>3. CASE GrowthDetection
    <3>1. TrackBaseline(baseline, online_now) \in Count
      BY StepCounts
    <3>2. anomaly_is_growth(baseline, online_now) \in BOOLEAN
      BY DEF anomaly_is_growth
    <3> QED
      BY <2>3, <3>1, <3>2 DEF GrowthDetection
  <2>4. CASE Forward
    BY <2>4 DEF Forward
  <2>5. CASE Restart
    <3>1. 0 \in Count
      BY GrowthAssumption DEF Count
    <3> QED
      BY <2>5, <3>1 DEF Restart
  <2>6. CASE UNCHANGED vars
    BY <2>6 DEF vars
  <2> QED
    BY <2>1, <2>2, <2>3, <2>4, <2>5, <2>6 DEF Next, discovery_task
<1> QED
  BY <1>1, <1>2, PTL DEF Spec, Safety

(***************************************************************************)
(* No pass moves the baseline past the count or away from it.  The very    *)
(* first pass is covered too: the baseline is 0 until then, which no count *)
(* is below; Unprimed is the invariant that says so.                       *)
(***************************************************************************)
Unprimed == ~primed => baseline = 0

THEOREM BaselineFollows == Spec => FollowsTheCount
<1> DEFINE Inv == TypeOK /\ Unprimed
<1>1. Init => Unprimed
  BY DEF Init, Unprimed
<1>2. Unprimed /\ [Next]_vars => Unprimed'
  BY DEF Unprimed, Next, discovery_task, Churn, Settle, Restart,
         GrowthDetection, Forward, vars
<1>3. TypeOK /\ Unprimed /\ [Next]_vars
        => [\/ baseline <= baseline' /\ baseline' <= online_now
            \/ baseline >= baseline' /\ baseline' >= online_now
            \/ Restart]_baseline
  <2> SUFFICES ASSUME TypeOK, Unprimed, GrowthDetection
               PROVE  \/ baseline <= baseline' /\ baseline' <= online_now
                      \/ baseline >= baseline' /\ baseline' >= online_now
    BY DEF Next, discovery_task, Churn, Settle, Forward, vars
  <2>1. CASE primed
    BY <2>1, StepCounts DEF GrowthDetection, TypeOK
  <2>2. CASE ~primed
    BY <2>2, GrowthAssumption DEF GrowthDetection, TypeOK, Unprimed, Count
  <2> QED
    BY <2>1, <2>2
<1> QED
  BY <1>1, <1>2, <1>3, TypeCorrect, PTL
     DEF Spec, Safety, FollowsTheCount
-----------------------------------------------------------------------------
(* Where the step takes the baseline when the count stays.                 *)

LEMMA StepComesNearer ==
  ASSUME NEW b \in Count, NEW n \in Count
  PROVE  LET new == TrackBaseline(b, n)
         IN  IF Distance(b, n) < 4 THEN new = b
                                   ELSE Distance(new, n) < Distance(b, n)
<1>1. /\ b \in Nat /\ n \in Nat /\ b < UINT32 /\ n < UINT32
      /\ UINT32 \in Nat \ {0}
  BY GrowthAssumption, AnomalyAssumption DEF Count
<1>2. /\ Quarter(n - b) \in Int
      /\ Distance(b, n) < 4 => Quarter(n - b) = 0
      /\ n - b >= 4 => Quarter(n - b) > 0 /\ Quarter(n - b) <= n - b
      /\ b - n >= 4 => Quarter(n - b) < 0 /\ Quarter(n - b) >= n - b
  BY <1>1 DEF Quarter, Distance
<1> DEFINE new == b + Quarter(n - b)
<1>3. new \in 0 .. UINT32 - 1
  BY <1>1, <1>2 DEF Distance
<1>4. TrackBaseline(b, n) = new
  BY <1>1, <1>3 DEF TrackBaseline
<1> QED
  BY <1>1, <1>2, <1>4 DEF Distance

(***************************************************************************)
(* Each pass is a step of the baseline toward a count that stays, until it *)
(* is within three devices; there a quarter is truncated to nothing, and   *)
(* the baseline stays.  With WF of the passes this is ComesNear.           *)
(***************************************************************************)
THEOREM ComesNearer == Spec => DrawsNear
<1> DEFINE Nearer ==
             online_now' = online_now =>
               /\ Near => Near'
               /\ GrowthDetection => Near' \/ Gap' < Gap
<1>1. TypeOK /\ [Next]_vars => [Nearer]_vars
  <2> SUFFICES ASSUME TypeOK, Next, online_now' = online_now
               PROVE  Nearer
    OBVIOUS
  <2> DEFINE b == baseline
             n == online_now
  <2>1. b \in Count /\ n \in Count /\ n \in Nat
    BY GrowthAssumption DEF TypeOK, Count
  <2>2. CASE GrowthDetection /\ primed
    <3>1. b' = TrackBaseline(b, n) /\ n' = n
      BY <2>2 DEF GrowthDetection
    <3>2. Gap' = Distance(TrackBaseline(b, n), n)
      BY <3>1 DEF Gap
    <3>3. IF Near THEN b' = b ELSE Gap' < Gap
      BY <2>1, <3>1, <3>2, StepComesNearer DEF Gap, Near
    <3> QED
      BY <3>1, <3>3 DEF Gap, Near
  <2>3. CASE GrowthDetection /\ ~primed
    <3>1. b' = n /\ n' = n
      BY <2>3 DEF GrowthDetection
    <3>2. Near'
      BY <2>1, <3>1 DEF Gap, Near, Distance
    <3> QED
      BY <3>2
  <2>4. CASE b' = b /\ n' = n /\ ~GrowthDetection
    BY <2>4 DEF Gap, Near
  <2>5. CASE Restart
    <3>1. b' = 0 /\ n' = 0 /\ ~GrowthDetection
      BY <2>5 DEF Restart, GrowthDetection
    <3> QED
      BY <3>1 DEF Gap, Near, Distance
  <2> QED
    BY <2>2, <2>3, <2>4, <2>5 DEF Next, discovery_task, Churn, Settle, Forward
<1> QED
  BY <1>1, TypeCorrect, PTL DEF Spec, Safety, DrawsNear

\* Three devices more are no growth of a large network.
LEMMA ThreeAreNoGrowth ==
  ASSUME NEW b \in Nat, NEW n \in Nat,
         GROWTH_PCT * n > 3 * (100 + GROWTH_PCT), Distance(b, n) < 4
  PROVE  ~anomaly_is_growth(b, n)
<1> DEFINE q == 100 + GROWTH_PCT
<1>1. GROWTH_PCT \in Nat /\ q \in Nat
  BY AnomalyAssumption
<1>2. SUFFICES ASSUME b < n, n * 100 >= b * q
               PROVE  FALSE
  BY DEF anomaly_is_growth
<1>3. b >= n - 3
  BY <1>2 DEF Distance
<1>4. b * q >= (n - 3) * q
  BY <1>1, <1>3
<1>5. (n - 3) * q = n * 100 + GROWTH_PCT * n - 3 * q
  BY <1>1
<1>6. GROWTH_PCT * n \in Nat
  BY <1>1
<1> QED
  BY <1>1, <1>2, <1>4, <1>5, <1>6

(***************************************************************************)
(* A large network whose count stays is quiet once the baseline is near:   *)
(* an alarm is raised by a pass only, which compares the baseline that was *)
(* near with the same count.                                               *)
(***************************************************************************)
THEOREM QuietWhenNear == Spec => NearIsQuiet
<1>1. TypeOK /\ [Next]_vars => [Large /\ Near /\ alarm' => alarm]_vars
  <2> SUFFICES ASSUME TypeOK, Next, Large, Near, ~alarm
               PROVE  ~alarm'
    BY DEF TypeOK
  <2>1. baseline \in Nat /\ online_now \in Nat
    BY GrowthAssumption DEF TypeOK, Count
  <2>2. ~anomaly_is_growth(baseline, online_now)
    BY <2>1, ThreeAreNoGrowth DEF Gap, Large, Near
  <2> QED
    BY <2>2
       DEF Next, discovery_task, Churn, Settle, Restart, GrowthDetection,
           Forward
<1> QED
  BY <1>1, TypeCorrect, PTL DEF Spec, Safety, NearIsQuiet
=============================================================================
