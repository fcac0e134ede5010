---------------------------- MODULE MCAlgorithms ----------------------------
(***************************************************************************)
(* The sequential algorithms, each on every small input, and the event     *)
(* ring: one of them runs, the others are at rest.                         *)
(***************************************************************************)
EXTENDS NightWindow, OuiLookup, SubnetSweep, JsonText, EventRing, SequencesExt

VARIABLE running

\* Registries of up to three rows in any order, duplicates among them, and
\* longer ones that are sorted already.
Files ==
  BoundedSeq(Oui, 3) \cup {SetToSortSeq(S, <) : S \in SUBSET Oui}

NightRests == hour = 0 /\ start = 0 /\ end = 0
OuiRests ==
  /\ registry = <<>> /\ blob = <<>> /\ mapped = FALSE /\ key = 0
  /\ lookup = "done" /\ lo = 0 /\ hi = 0 /\ vendor = Unknown /\ excess = "nothing"
SweepRests ==
  /\ inverted = 0 /\ self = 0 /\ h = 1 /\ sweep = "done"
  /\ pinged = {} /\ burst = 0
TextRests ==
  escaper = "web" /\ text = <<>> /\ done = 0 /\ out = <<>> /\ escaping = FALSE

Init ==
  \/ /\ running = "night" /\ NightInit
     /\ OuiRests /\ SweepRests /\ TextRests /\ RingInit
  \/ /\ running = "oui" /\ OuiInit
     /\ NightRests /\ SweepRests /\ TextRests /\ RingInit
  \/ /\ running = "sweep" /\ SweepInit
     /\ NightRests /\ OuiRests /\ TextRests /\ RingInit
  \/ /\ running = "text" /\ TextInit
     /\ NightRests /\ OuiRests /\ SweepRests /\ RingInit
  \/ /\ running = "ring" /\ RingInit
     /\ NightRests /\ OuiRests /\ SweepRests /\ TextRests

Next ==
  /\ UNCHANGED running
  /\ \/ /\ running = "night" /\ Advance
        /\ UNCHANGED <<ouivars, sweepvars, textvars, ringvars>>
     \/ OuiNext /\ UNCHANGED <<nightvars, sweepvars, textvars, ringvars>>
     \/ SweepNext /\ UNCHANGED <<nightvars, ouivars, textvars, ringvars>>
     \/ TextNext /\ UNCHANGED <<nightvars, ouivars, sweepvars, ringvars>>
     \/ /\ running = "ring" /\ RingNext
        /\ UNCHANGED <<nightvars, ouivars, sweepvars, textvars>>

vars == <<running, nightvars, ouivars, sweepvars, textvars, ringvars>>

Spec == Init /\ [][Next]_vars
=============================================================================
