------------------------------- MODULE Growth -------------------------------
(***************************************************************************)
(* The growth alarm of anomaly_run() over many passes: the number of       *)
(* online devices changes as it likes, and after each pass it is compared  *)
(* with the baseline, which then moves a quarter of the way toward it.     *)
(* Here the count is free, so that larger networks can be checked;         *)
(* Discovery, where it is that of the table, is shown to implement Safety. *)
(***************************************************************************)
EXTENDS Anomaly

CONSTANTS
  INV_MAX_DEVICES  \* the most devices inv_count_online() can count

ASSUME GrowthAssumption ==
  /\ INV_MAX_DEVICES \in Nat
  /\ UINT32 > INV_MAX_DEVICES

VARIABLES
  online_now,  \* what inv_count_online() would return
  baseline,    \* s_baseline_online
  primed,      \* s_baseline_primed
  alarm,       \* this pass logged a DEVICE_GROWTH event, not yet forwarded
  settled      \* history: the number of online devices is final

vars == <<online_now, baseline, primed, alarm, settled>>

Count == 0 .. INV_MAX_DEVICES

Init ==
  /\ online_now \in Count
  /\ baseline = 0
  /\ primed = FALSE
  /\ alarm = FALSE
  /\ settled = FALSE

\* Hosts join and leave.
Churn ==
  /\ ~settled
  /\ online_now' \in Count
  /\ UNCHANGED <<baseline, primed, alarm, settled>>

Settle ==
  /\ settled' = TRUE
  /\ UNCHANGED <<online_now, baseline, primed, alarm>>

\* The growth detection of anomaly_run(), once per pass.
GrowthDetection ==
  /\ ~alarm
  /\ primed' = TRUE
  /\ IF primed
       THEN /\ alarm' = anomaly_is_growth(baseline, online_now)
            /\ baseline' = TrackBaseline(baseline, online_now)
       ELSE /\ baseline' = online_now
            /\ UNCHANGED alarm
  /\ UNCHANGED <<online_now, settled>>

\* on_scan_complete() forwards the alarm; the next pass starts from here.
Forward ==
  /\ alarm
  /\ alarm' = FALSE
  /\ UNCHANGED <<online_now, baseline, primed, settled>>

\* A power cycle: the inventory is lost, and the baseline with it.
Restart ==
  /\ ~settled
  /\ online_now' = 0
  /\ baseline' = 0
  /\ primed' = FALSE
  /\ alarm' = FALSE
  /\ UNCHANGED settled

discovery_task == GrowthDetection \/ Forward

Next == Churn \/ Settle \/ Restart \/ discovery_task

Safety == Init /\ [][Next]_vars

\* discovery_task() never stops making passes.
Spec == Safety /\ WF_vars(discovery_task)

-----------------------------------------------------------------------------
TypeOK ==
  /\ online_now \in Count
  /\ baseline \in Count
  /\ primed \in BOOLEAN
  /\ alarm \in BOOLEAN
  /\ settled \in BOOLEAN

Distance(x, y) == IF x >= y THEN x - y ELSE y - x

Gap == Distance(baseline, online_now)

\* As near as a truncated quarter takes it.
Near == Gap < 4

(***************************************************************************)
(* The baseline follows the count from one side: a pass never moves it     *)
(* past the count, nor away from it, and a signed step added to a uint32_t *)
(* never wraps.  Only a power cycle sets it back.                          *)
(***************************************************************************)
FollowsTheCount ==
  [][\/ baseline <= baseline' /\ baseline' <= online_now
     \/ baseline >= baseline' /\ baseline' >= online_now
     \/ Restart]_baseline

(***************************************************************************)
(* Once the count is final the baseline comes within three devices of it,  *)
(* and stays there.                                                        *)
(***************************************************************************)
ComesNear == settled ~> []Near

(***************************************************************************)
(* The part of it that no schedule can undo: while the count stays, each   *)
(* pass takes the baseline nearer until it is near, and it stays near.  A  *)
(* step of a sixteenth, or any other that truncates to nothing too early,  *)
(* leaves it behind.                                                       *)
(***************************************************************************)
DrawsNear ==
  [][online_now' = online_now =>
       /\ Near => Near'
       /\ GrowthDetection => Near' \/ Gap' < Gap]_vars

\* Too large a network for a gap of three devices to be a growth by GROWTH_PCT.
Large == GROWTH_PCT * online_now > 3 * (100 + GROWTH_PCT)

(***************************************************************************)
(* On a large network no alarm is raised while the baseline is near, no    *)
(* matter how it came there.                                               *)
(***************************************************************************)
NearIsQuiet == [][Large /\ Near /\ alarm' => alarm]_vars

SettledLarge == settled /\ Large

(***************************************************************************)
(* The comment of the update in anomaly.c, where it is true: the baseline  *)
(* adapts to a genuinely larger network without constant re-alerting, if   *)
(* that network is large.                                                  *)
(***************************************************************************)
AlarmStops == SettledLarge ~> []~alarm

(***************************************************************************)
(* The same comment as it stands.  The baseline of a small network stops   *)
(* three devices short at most, and when that is a growth by GROWTH_PCT    *)
(* every pass raises the alarm again.                                      *)
(***************************************************************************)
AlarmAlwaysStops == settled ~> []~alarm
=============================================================================
