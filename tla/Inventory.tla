------------------------------ MODULE Inventory ------------------------------
(***************************************************************************)
(* The device table of main/inventory.c as a value: the record device_t,   *)
(* the slots of s_devices and the lookups the other components make in it. *)
(* The module has no variables; Discovery keeps the table in a variable    *)
(* and applies these operators to it under inv_lock().                     *)
(*                                                                         *)
(* Left out of the record: notes and known (no code ever assigns them      *)
(* after the memset), randomized_mac (a cache of mac_is_randomized(mac))   *)
(* and first_seen (written once, read by the dashboard only).              *)
(***************************************************************************)
EXTENDS Integers, FiniteSets

CONSTANTS
  MAC,              \* the MAC addresses hosts on the LAN may answer with
  Randomized,       \* those with the locally-administered bit set
  ADDR,             \* the IPv4 addresses they may answer from
  NAME,             \* the host names mDNS may report
  INV_MAX_DEVICES,  \* capacity of s_devices
  NONE              \* a zeroed field: no MAC, no address, empty string

ASSUME InventoryAssumption ==
  /\ INV_MAX_DEVICES \in Nat \ {0}
  /\ Randomized \subseteq MAC
  /\ NONE \notin MAC
  /\ NONE \notin ADDR
  /\ NONE \notin NAME

Slot == 0 .. INV_MAX_DEVICES - 1

Class  == {"unknown", "computer", "iot"}
Vendor == {"listed", "Unknown", "Randomized (private)"}

Device ==
  [ in_use     : BOOLEAN,
    mac        : MAC \cup {NONE},
    ip         : ADDR \cup {NONE},
    hostname   : NAME \cup {NONE},
    vendor     : Vendor \cup {NONE},
    dev_class  : Class,
    announced  : BOOLEAN,
    online     : BOOLEAN,
    was_online : BOOLEAN,
    last_seen  : Nat,
    miss_count : Nat ]

\* What calloc leaves in a slot, and memset puts back when it is claimed.
ZeroDevice ==
  [ in_use |-> FALSE, mac |-> NONE, ip |-> NONE, hostname |-> NONE,
    vendor |-> NONE, dev_class |-> "unknown", announced |-> FALSE,
    online |-> FALSE, was_online |-> FALSE, last_seen |-> 0, miss_count |-> 0 ]

mac_is_randomized(m) == m \in Randomized

(***************************************************************************)
(* Every loop of the C code over the table visits the slots in ascending   *)
(* order and stops at the first that fits: the slot it stops at is the     *)
(* least element of the set of slots that fit.                             *)
(***************************************************************************)
IsFirst(i, S) == i \in S /\ \A j \in S : i <= j

InUse(t)     == {i \in Slot : t[i].in_use}

\* Mutant of Holding: the search passes over offline devices.
HoldingOnline(t, m) ==
  {i \in InUse(t) : t[i].mac = m /\ t[i].online}

Holding(t, m) == {i \in InUse(t) : t[i].mac = m}
Free(t)      == Slot \ InUse(t)
Online(t)    == {i \in InUse(t) : t[i].online}

inv_count_online(t) == Cardinality(Online(t))

\* The record inv_find_or_add() makes of a free slot.
Claimed(m) == [ZeroDevice EXCEPT !.in_use = TRUE, !.mac = m]

\* s is the slot inv_find_or_add(m) returns and d the record found in it;
\* there is no such slot when m is unknown and the table is full.
FindOrAdd(t, m, s, d) ==
  \/ /\ IsFirst(s, Holding(t, m))
     /\ d = t[s]
  \/ /\ Holding(t, m) = {}
     /\ IsFirst(s, Free(t))
     /\ d = Claimed(m)

TableFullFor(t, m) == Holding(t, m) = {} /\ Free(t) = {}
=============================================================================
