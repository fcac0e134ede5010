----------------------------- MODULE SubnetSweep -----------------------------
(***************************************************************************)
(* The sweep of run_pass() in main/discovery.c: whom it pings, and how     *)
(* many requests are out before it looks for replies again.  Addresses are *)
(* host numbers, relative to net.                                          *)
(***************************************************************************)
EXTENDS Integers

CONSTANTS
  CLAMP,     \* 1022: the most host numbers a pass runs through
  Inverted   \* the values of ~mask: one less than a power of two

ASSUME SweepAssumption == CLAMP \in Nat \ {0} /\ Inverted \subseteq Nat

DRAIN_EVERY == 16  \* the 0x0F of the loop

VARIABLES
  inverted,  \* ~mask, as get_subnet() finds it
  self,      \* the host number of the station itself
  h,         \* the loop's host number
  sweep,     \* where the loop is
  pinged,    \* hosts that a request was sent to
  burst      \* requests sent since the last drain

sweepvars == <<inverted, self, h, sweep, pinged, burst>>

\* Mutant of host_count: the broadcast address is counted in.
host_count_up == IF inverted + 1 > CLAMP THEN CLAMP ELSE inverted + 1

host_count == IF inverted > CLAMP THEN CLAMP ELSE inverted

SweepInit ==
  /\ inverted \in Inverted
  /\ self \in 0 .. inverted
  /\ h = 1 /\ sweep = "loop"
  /\ pinged = {} /\ burst = 0

\* The loop goes on without looking whether a drain is due.
SkipSelf ==
  /\ sweep = "loop" /\ h < host_count
  /\ h = self
  /\ h' = h + 1
  /\ UNCHANGED <<inverted, self, sweep, pinged, burst>>

Ping ==
  /\ sweep = "loop" /\ h < host_count
  /\ h # self
  /\ pinged' = pinged \cup {h}
  /\ burst' = burst + 1
  /\ \/ h % DRAIN_EVERY = 0 /\ sweep' = "drain" /\ UNCHANGED h
     \/ h % DRAIN_EVERY # 0 /\ h' = h + 1 /\ UNCHANGED sweep
  /\ UNCHANGED <<inverted, self>>

\* Mutant of drain_replies: it is given no time.
drain_replies_none ==
  /\ sweep = "drain"
  /\ h' = h + 1
  /\ sweep' = "loop"
  /\ UNCHANGED <<inverted, self, pinged, burst>>

drain_replies ==
  /\ sweep = "drain"
  /\ burst' = 0
  /\ h' = h + 1
  /\ sweep' = "loop"
  /\ UNCHANGED <<inverted, self, pinged>>

FinalDrain ==
  /\ sweep = "loop" /\ h >= host_count
  /\ burst' = 0
  /\ sweep' = "done"
  /\ UNCHANGED <<inverted, self, h, pinged>>

SweepNext == SkipSelf \/ Ping \/ drain_replies \/ FinalDrain

SweepSpec == SweepInit /\ [][SweepNext]_sweepvars

-----------------------------------------------------------------------------
\* Host numbers that are neither the network's nor the broadcast address.
Hosts == 1 .. inverted - 1

(***************************************************************************)
(* A pass pings every other host of its subnet, and nothing else; of a     *)
(* subnet with more host numbers than CLAMP only those below it, so that a *)
(* /22, which has exactly CLAMP hosts, loses its last one.                 *)
(***************************************************************************)
SweepIsComplete ==
  sweep = "done" =>
    pinged = {n \in Hosts \ {self} : inverted > CLAMP => n < CLAMP}

(***************************************************************************)
(* How much of the receive buffer the replies can need: 16 requests are    *)
(* out between two drains, or nearly twice as many when the station has    *)
(* the address at which a drain was due.                                   *)
(***************************************************************************)
BurstIsBounded ==
  burst <= IF self % DRAIN_EVERY = 0 THEN 2 * DRAIN_EVERY - 1
                                     ELSE DRAIN_EVERY
=============================================================================
