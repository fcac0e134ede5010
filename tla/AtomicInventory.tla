--------------------------- MODULE AtomicInventory ---------------------------
(***************************************************************************)
(* What the mutex of main/inventory.c is for: every access to the          *)
(* inventory takes effect at one moment.  The discovery task changes it in *)
(* whole sections, and an answer of the web server is what the inventory   *)
(* held at one moment between two of them.  InventoryLock is shown to      *)
(* implement it; the other modules take it for granted, each critical      *)
(* section being one action, or one that no other task can see into.       *)
(***************************************************************************)
EXTENDS Integers, FiniteSets

CONSTANT INV_MAX_DEVICES  \* capacity of s_devices

VARIABLES
  table,   \* what readers tell apart of each record of s_devices
  logged,  \* events logged so far
  answer   \* what the web server read for the request it serves

Slot == 0 .. INV_MAX_DEVICES - 1

InUse(t)  == {s \in Slot : t[s] # "free"}
Online(t) == {s \in Slot : t[s] \in {"fresh", "online"}}

Nothing    == [kind |-> "nothing"]
Devices(t) == [kind |-> "devices", list |-> t]
Stats(t)   == [kind |-> "stats", total  |-> Cardinality(InUse(t)),
                                 online |-> Cardinality(Online(t))]
Events(n)  == [kind |-> "events", newest |-> n]

Init ==
  /\ table = [s \in Slot |-> "free"]
  /\ logged = 0
  /\ answer = Nothing

\* A host answered: it takes a slot, or its record is online again.
Harvest ==
  /\ \E s \in Slot :
       table' = [table EXCEPT ![s] = IF @ \in {"free", "fresh"} THEN "fresh"
                                                                ELSE "online"]
  /\ UNCHANGED <<logged, answer>>

\* Some devices go offline, all at the same moment.
Age ==
  /\ DOMAIN table' = Slot
  /\ \A s \in Slot : \/ table'[s] = table[s]
                     \/ table[s] = "online" /\ table'[s] = "offline"
  /\ UNCHANGED <<logged, answer>>

\* The report of a pass: every device it found is described, and all its
\* events are in the log.
Report ==
  /\ table' = [s \in Slot |-> IF table[s] = "fresh" THEN "online"
                                                    ELSE table[s]]
  /\ logged' >= logged
  /\ UNCHANGED answer

Answer ==
  /\ answer' \in {Nothing, Devices(table), Stats(table), Events(logged)}
  /\ UNCHANGED <<table, logged>>

Next == Harvest \/ Age \/ Report \/ Answer

Spec == Init /\ [][Next]_<<table, logged, answer>>
=============================================================================
