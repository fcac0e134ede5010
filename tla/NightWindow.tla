---------------------------- MODULE NightWindow ----------------------------
(***************************************************************************)
(* The quiet hours of main/anomaly.c around the clock: the local hour      *)
(* advances, and a pass asks anomaly_is_night() about it.                  *)
(***************************************************************************)
EXTENDS Anomaly

CONSTANT DAY  \* hours of a day: 24

ASSUME NightAssumption == DAY \in Nat \ {0}

VARIABLES
  hour,   \* tm_hour, as anomaly_run() reads it
  start,  \* s_cfg.night_start_hour
  end     \* s_cfg.night_end_hour

nightvars == <<hour, start, end>>

Hour == 0 .. DAY - 1

\* anomaly_init() takes any window; an empty one starts and ends at one hour.
NightInit == hour \in Hour /\ start \in Hour /\ end \in Hour

Advance ==
  /\ hour' = (hour + 1) % DAY
  /\ UNCHANGED <<start, end>>

NightSpec == NightInit /\ [][Advance]_nightvars

-----------------------------------------------------------------------------
\* Hours from a forward to b, across midnight if need be.
Forward(a, b) == IF a <= b THEN b - a ELSE b - a + DAY

(***************************************************************************)
(* anomaly.h: [start, end), treating wrap-around midnight.  It is night    *)
(* when fewer hours have passed since the window opened than it lasts.     *)
(***************************************************************************)
NightIsTheWindow ==
  anomaly_is_night(hour, start, end)
    <=> Forward(start, hour) < Forward(start, end)

(***************************************************************************)
(* Night falls only at start and ends only at end.                         *)
(***************************************************************************)
NightTurnsAtItsEnds ==
  [][LET was == anomaly_is_night(hour, start, end)
         is  == anomaly_is_night(hour', start, end)
     IN  /\ ~was /\ is => hour' = start
         /\ was /\ ~is => hour' = end]_nightvars
=============================================================================
