--------------------------- MODULE DeviceLifecycle ---------------------------
(***************************************************************************)
(* What the timeline promises about each device, without tables, passes or *)
(* clocks: a device first appears, then vanishes and returns in turn; each *)
(* change is reported by exactly one event, in the report of the pass that *)
(* found it, and no report holds two changes of one device.  The only      *)
(* change nobody hears of is the first appearance of a suppressed MAC.     *)
(* Discovery is shown to implement this specification.                     *)
(***************************************************************************)
EXTENDS Naturals, Sequences

CONSTANTS
  MAC,         \* the devices there may be
  Suppressed,  \* those whose appearance is not worth an event
  NONE         \* the subject of an event about the whole network

VARIABLES
  life,        \* "unseen", "present" or "absent", for each device
  fresh        \* the report being written: events not yet forwarded

vars == <<life, fresh>>

Event(type, m) == [type |-> type, mac |-> m]

\* Appearing may be remarkable in itself: at night, or of an unknown vendor.
Remarks(m) ==
  LET night  == <<Event("NIGHT_ACTIVITY", m)>>
      vendor == <<Event("UNKNOWN_VENDOR", m)>>
  IN  {<<>>, night, vendor, night \o vendor}

Announcements(m) ==
  IF m \in Suppressed THEN {<<>>}
  ELSE {<<Event("NEW_DEVICE", m)>> \o r : r \in Remarks(m)}

Unreported(m) == \A k \in DOMAIN fresh : fresh[k].mac # m

Init ==
  /\ life = [m \in MAC |-> "unseen"]
  /\ fresh = <<>>

Appear(m) ==
  /\ life[m] = "unseen"
  /\ Unreported(m)
  /\ life' = [life EXCEPT ![m] = "present"]
  /\ \E report \in Announcements(m) : fresh' = fresh \o report

Vanish(m) ==
  /\ life[m] = "present"
  /\ Unreported(m)
  /\ life' = [life EXCEPT ![m] = "absent"]
  /\ fresh' = Append(fresh, Event("DEVICE_MISSING", m))

Return(m) ==
  /\ life[m] = "absent"
  /\ Unreported(m)
  /\ life' = [life EXCEPT ![m] = "present"]
  /\ fresh' = Append(fresh, Event("DEVICE_RETURNED", m))

Grow ==
  /\ fresh' = Append(fresh, Event("DEVICE_GROWTH", NONE))
  /\ UNCHANGED life

Forward ==
  /\ fresh' = <<>>
  /\ UNCHANGED life

\* The inventory is lost: every device is unseen again.
Reboot ==
  /\ life' = [m \in MAC |-> "unseen"]
  /\ fresh' = <<>>

Next ==
  \/ \E m \in MAC : Appear(m) \/ Vanish(m) \/ Return(m)
  \/ Grow
  \/ Forward
  \/ Reboot

Spec == Init /\ [][Next]_vars
=============================================================================
