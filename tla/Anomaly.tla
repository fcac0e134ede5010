------------------------------- MODULE Anomaly -------------------------------
(***************************************************************************)
(* The pure helpers of main/anomaly.c: the quiet-hours window, the growth  *)
(* test and the baseline the growth test compares with.                    *)
(***************************************************************************)
EXTENDS Integers

CONSTANTS
  GROWTH_PCT,       \* s_cfg.growth_pct
  UINT32            \* 2^32, the modulus of s_baseline_online

ASSUME AnomalyAssumption ==
  /\ GROWTH_PCT \in Nat
  /\ UINT32 \in Nat \ {0}

\* Mutant of anomaly_is_night: both ends bind a window that wraps midnight.
anomaly_is_night_unwrapped(hour, start, end) ==
  start # end /\ hour >= start /\ hour < end

anomaly_is_night(hour, start, end) ==
  \/ start < end /\ hour >= start /\ hour < end
  \/ start > end /\ (hour >= start \/ hour < end)

\* Mutant of anomaly_is_growth: any growth is one.
anomaly_is_growth_any(baseline, current) ==
  baseline # 0 /\ current > baseline

anomaly_is_growth(baseline, current) ==
  /\ baseline # 0
  /\ current > baseline
  /\ current * 100 >= baseline * (100 + GROWTH_PCT)

\* Division by 4 in C: the quotient is truncated toward zero.
Quarter(x) == IF x >= 0 THEN x \div 4 ELSE -((-x) \div 4)

\* Mutant of TrackBaseline: the casts to int32_t are dropped.
TrackBaselineUnsigned(baseline, online) ==
  (baseline + ((online - baseline) % UINT32) \div 4) % UINT32

\* Mutant of TrackBaseline: a smaller step.
TrackBaselineSlower(baseline, online) ==
  (baseline + Quarter(Quarter(online - baseline))) % UINT32

\* Mutant of TrackBaseline: the baseline is the first count for ever.
TrackBaselineFrozen(baseline, online) == baseline

\* The update of s_baseline_online: a signed step added to a uint32_t.
TrackBaseline(baseline, online) ==
  (baseline + Quarter(online - baseline)) % UINT32
=============================================================================
