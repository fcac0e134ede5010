-------------------------- MODULE Discovery_proofs --------------------------
(***************************************************************************)
(* The safety of the discovery task and of the anomaly diff, for every set *)
(* of hosts, every capacity of the table and every setting of the timers.  *)
(*                                                                         *)
(* None of the properties is inductive: each is a fact about the moment a  *)
(* report is written, and rests on what is true of a record at every point *)
(* of a pass.  IInv collects these facts; Rec(i) is the part of it about   *)
(* slot i.                                                                 *)
(***************************************************************************)
EXTENDS Discovery, Anomaly_proofs, SequenceTheorems, FiniteSetTheorems

InPass == pc \in {"sweep", "drain", "resolve", "mdns", "age"}

Reported == pc \in {"forward", "wait", "start"}

(***************************************************************************)
(* Clock: a pass that has drained began in an earlier second.  Phases: the *)
(* history of a pass is empty outside it, and the report after it.         *)
(***************************************************************************)
Clock ==
  /\ t0 <= now
  /\ pc = "drain" => t0 < deadline
  /\ pc \in {"resolve", "mdns", "age"} => t0 < now

Phases ==
  /\ pc \in {"start", "wait"} => heard = {}
  /\ pc \notin {"diff", "forward"} => fresh = <<>>

(***************************************************************************)
(* What a record says about the past of its device.                        *)
(***************************************************************************)
\* online is the verdict on miss_count, which counts completed silent passes.
Verdict(d) ==
  /\ d.last_seen <= now
  /\ d.miss_count <= silent[d.mac]
  /\ d.online <=> d.miss_count < DISC_MISS_THRESHOLD

\* A record touched in this pass is fresh.
Touched(d) == d.last_seen >= t0 /\ d.miss_count = 0

\* A record not touched since second t is at most one miss short, and that
\* miss was not granted unless the last reply came in second t itself.
Untouched(d, t) ==
  /\ d.last_seen <= t
  /\ silent[d.mac] >= 1 => d.last_seen < t
  /\ silent[d.mac] <= d.miss_count + 1

Diffed(d) == d.announced /\ d.was_online = d.online

Rec(i) ==
  LET d == devices[i]
  IN  d.in_use =>
        /\ d.mac \in MAC
        /\ Verdict(d)
        /\ InPass /\ d.mac \in heard => Touched(d)
        /\ InPass /\ d.mac \notin heard => Untouched(d, t0) /\ d.announced
        /\ ~InPass => Untouched(d, now)
        /\ Reported \/ (pc = "diff" /\ i < idx) => Diffed(d)
        /\ ~d.announced => d.online

IInv ==
  /\ TypeOK
  /\ Clock
  /\ Phases
  /\ MacIsKey
  /\ \A i \in Slot : Rec(i)
  /\ MissingIsSilent

-----------------------------------------------------------------------------
(* Types.                                                                  *)

Reports == [type : EventType, mac : MAC \cup {NONE}]

\* The online count is a number of slots.
LEMMA CountOnline ==
  ASSUME NEW t
  PROVE  inv_count_online(t) \in 0 .. INV_MAX_DEVICES
<1>1. IsFiniteSet(Slot) /\ Cardinality(Slot) = INV_MAX_DEVICES
  <2>1. IsFiniteSet(0 .. INV_MAX_DEVICES - 1)
        /\ Cardinality(0 .. INV_MAX_DEVICES - 1) = INV_MAX_DEVICES
    BY FS_Interval, InventoryAssumption
  <2> QED
    BY <2>1 DEF Slot
<1>2. Online(t) \in SUBSET Slot
  BY DEF Online, InUse
<1>3. /\ IsFiniteSet(Online(t))
      /\ Cardinality(Online(t)) <= Cardinality(Slot)
  BY <1>1, <1>2, FS_Subset
<1>4. Cardinality(Online(t)) \in Nat
  BY <1>3, FS_CardinalityType
<1> QED
  BY <1>1, <1>3, <1>4, InventoryAssumption DEF inv_count_online

\* The events of one device, and that they are about that device.
LEMMA AnnouncementType ==
  ASSUME NEW m \in MAC, NEW v
  PROVE  /\ Announcement(m, v) \in Seq(Reports)
         /\ \A k \in DOMAIN Announcement(m, v) :
              /\ Announcement(m, v)[k].mac = m
              /\ Announcement(m, v)[k].type # "DEVICE_MISSING"
              /\ Announcement(m, v)[k].type # "DEVICE_GROWTH"
<1> DEFINE Own == {e \in Reports : /\ e.mac = m
                                   /\ e.type # "DEVICE_MISSING"
                                   /\ e.type # "DEVICE_GROWTH"}
<1>1. /\ Event("NEW_DEVICE", m) \in Own
      /\ Event("NIGHT_ACTIVITY", m) \in Own
      /\ Event("UNKNOWN_VENDOR", m) \in Own
  BY DEF Event, Reports, EventType
<1> HIDE DEF Own
<1>2. <<>> \in Seq(Own) /\ \A e \in Own : <<e>> \in Seq(Own)
  OBVIOUS
<1>3. /\ When(is_night, Event("NIGHT_ACTIVITY", m)) \in Seq(Own)
      /\ When(~mac_is_randomized(m) /\ v = "Unknown",
              Event("UNKNOWN_VENDOR", m)) \in Seq(Own)
  BY <1>1, <1>2 DEF When
<1>4. Announcement(m, v) \in Seq(Own)
  BY <1>1, <1>2, <1>3, ConcatProperties, Zenon DEF Announcement
<1>5. \A k \in DOMAIN Announcement(m, v) : Announcement(m, v)[k] \in Own
  BY <1>4, ElementOfSeq
<1>6. Announcement(m, v) \in Seq(Reports)
  BY <1>4, SeqMonotonic DEF Own
<1> QED
  BY <1>5, <1>6 DEF Own

LEMMA TransitionType ==
  ASSUME NEW d \in Device, d.mac \in MAC
  PROVE  Transition(d) \in Seq(Reports)
<1>1. /\ Event("DEVICE_MISSING", d.mac) \in Reports
      /\ Event("DEVICE_RETURNED", d.mac) \in Reports
  BY DEF Event, Reports, EventType
<1> HIDE DEF Reports
<1> QED
  BY <1>1 DEF Transition

LEMMA ClaimedType ==
  ASSUME NEW m \in MAC
  PROVE  Claimed(m) \in Device
  BY DEF Claimed, ZeroDevice, Device, Class

\* A harvest writes one record, of the MAC it was given.
LEMMA HarvestWrites ==
  ASSUME TypeOK, NEW m \in MAC, NEW addr \in ADDR, harvest_one(m, addr)
  PROVE  \/ TableFullFor(devices, m) /\ UNCHANGED devices
         \/ \E s \in Slot, d \in Device :
              /\ FindOrAdd(devices, m, s, d)
              /\ devices' = [devices EXCEPT ![s] = Seen(d, addr)]
<1>1. \A i \in Slot : devices[i] \in Device
  BY DEF TypeOK
<1>2. {devices[i] : i \in Slot} \cup {Claimed(m)} \subseteq Device
  BY <1>1, ClaimedType
<1> QED
  BY <1>2 DEF harvest_one

LEMMA SeenType ==
  ASSUME TypeOK, NEW d \in Device, NEW addr \in ADDR
  PROVE  Seen(d, addr) \in Device
<1>1. now \in Nat
  BY DiscoveryAssumption DEF TypeOK
<1> QED
  BY <1>1 DEF Seen, Device

LEMMA NamedType ==
  ASSUME NEW d \in Device, NEW name \in NAME, NEW hint \in {"computer", "iot"}
  PROVE  Named(d, name, hint) \in Device
  BY DEF Named, Device, Class

LEMMA AgedType ==
  ASSUME NEW d \in Device
  PROVE  Aged(d) \in Device
<1>1. d.miss_count + 1 \in Nat
  BY DEF Device
<1>2. (d.online /\ d.miss_count + 1 < DISC_MISS_THRESHOLD) \in BOOLEAN
  OBVIOUS
<1> QED
  BY <1>1, <1>2 DEF Aged, Device

LEMMA TypeInitial == Init => TypeOK
<1> SUFFICES ASSUME Init PROVE TypeOK
  OBVIOUS
<1> USE DEF Init
<1>1. ZeroDevice \in Device
  BY DEF ZeroDevice, Device, Class
<1>2. now \in 0 .. MAX_UPTIME /\ t0 \in 0 .. MAX_UPTIME
  BY DiscoveryAssumption
<1>3. idx \in 0 .. INV_MAX_DEVICES /\ baseline \in 0 .. INV_MAX_DEVICES
  BY InventoryAssumption
<1>4. devices \in [Slot -> Device] /\ silent \in [MAC -> Nat]
  BY <1>1
<1>5. fresh \in Seq([type : EventType, mac : MAC \cup {NONE}])
  BY EmptySeq
<1> QED
  BY <1>2, <1>3, <1>4, <1>5 DEF TypeOK, PC

LEMMA TypeStep == TypeOK /\ (\A i \in Slot : Rec(i)) /\ [Next]_vars => TypeOK'
<1> SUFFICES ASSUME TypeOK, \A i \in Slot : Rec(i), [Next]_vars PROVE TypeOK'
  OBVIOUS
<1> USE DEF TypeOK, PC, pass, diff, history
<1>1. CASE Environment
  <2>1. CASE Tick
    BY <2>1, DiscoveryAssumption DEF Tick
  <2>2. CASE discovery_trigger_now
    BY <2>2 DEF discovery_trigger_now
  <2>3. CASE Restart
    <3>1. ZeroDevice \in Device
      BY DEF ZeroDevice, Device, Class
    <3>2. /\ 0 \in 0 .. MAX_UPTIME
          /\ 0 \in 0 .. INV_MAX_DEVICES
      BY DiscoveryAssumption, InventoryAssumption
    <3>3. devices' \in [Slot -> Device] /\ silent' \in [MAC -> Nat]
      BY <2>3, <3>1 DEF Restart
    <3>4. fresh' \in Seq([type : EventType, mac : MAC \cup {NONE}])
      BY <2>3, EmptySeq DEF Restart
    <3> QED
      BY <2>3, <3>2, <3>3, <3>4 DEF Restart
  <2> QED
    BY <1>1, <2>1, <2>2, <2>3 DEF Environment
<1>2. ASSUME NEW m \in MAC, NEW addr \in ADDR, harvest_one(m, addr)
      PROVE  TypeOK'
  <2>1. devices' \in [Slot -> Device]
    BY <1>2, HarvestWrites, SeenType
  <2> QED
    BY <1>2, <2>1 DEF harvest_one
<1>3. CASE SkipPass
  BY <1>3, DiscoveryAssumption DEF SkipPass
<1>4. CASE BeginPass
  BY <1>4 DEF BeginPass
<1>5. CASE SweepSent
  BY <1>5, DiscoveryAssumption DEF SweepSent
<1>6. CASE DrainDone
  BY <1>6 DEF DrainDone
<1>7. CASE resolve_hostnames
  BY <1>7 DEF resolve_hostnames
<1>8. ASSUME NEW addr \in ADDR, NEW name \in NAME,
             NEW hint \in {"computer", "iot"},
             apply_mdns_result(addr, name, hint)
      PROVE  TypeOK'
  <2>1. PICK i \in Slot :
          devices' = [devices EXCEPT ![i] = Named(devices[i], name, hint)]
    BY <1>8 DEF apply_mdns_result
  <2>2. devices' \in [Slot -> Device]
    BY <2>1, NamedType
  <2> QED
    BY <1>8, <2>2 DEF apply_mdns_result
<1>9. CASE MdnsDone
  BY <1>9 DEF MdnsDone
<1>10. CASE age_unseen
  <2>1. devices' \in [Slot -> Device]
    BY <1>10, AgedType DEF age_unseen
  <2>2. silent' \in [MAC -> Nat]
    BY <1>10 DEF age_unseen
  <2>3. 0 \in 0 .. INV_MAX_DEVICES
    BY InventoryAssumption
  <2> QED
    BY <1>10, <2>1, <2>2, <2>3 DEF age_unseen
<1>11. ASSUME NEW i \in Slot, DiffNew(i) \/ DiffKnown(i) PROVE TypeOK'
  <2>1. devices[i] \in Device /\ devices[i].mac \in MAC
    BY <1>11 DEF DiffNew, DiffKnown, AtDevice, IsFirst, InUse, Rec
  <2>2. i + 1 \in 0 .. INV_MAX_DEVICES
    BY InventoryAssumption DEF Slot
  <2>3. CASE DiffNew(i)
    <3> DEFINE v == IF announce(devices[i].mac) /\ devices[i].vendor = NONE
                      THEN oui_lookup(devices[i].mac) ELSE devices[i].vendor
    <3>1. v \in Vendor \cup {NONE}
      BY <2>1 DEF oui_lookup, Vendor, Device
    <3>2. Announcement(devices[i].mac, v) \in Seq(Reports)
      BY <2>1, AnnouncementType
    <3> HIDE DEF v
    <3>3. fresh' \in Seq(Reports)
      BY <2>3, <3>2, ConcatProperties DEF DiffNew, inv_log_event, v, Reports
    <3>4. devices' \in [Slot -> Device]
      BY <2>1, <2>3, <3>1 DEF DiffNew, v, Device
    <3> QED
      BY <2>2, <2>3, <3>3, <3>4 DEF DiffNew, Reports
  <2>4. CASE DiffKnown(i)
    <3>1. fresh' \in Seq(Reports)
      BY <2>1, <2>4, TransitionType, ConcatProperties
         DEF DiffKnown, inv_log_event, Reports
    <3>2. devices' \in [Slot -> Device]
      BY <2>1, <2>4 DEF DiffKnown, Device
    <3> QED
      BY <2>2, <2>4, <3>1, <3>2 DEF DiffKnown, Reports
  <2> QED
    BY <1>11, <2>3, <2>4
<1>12. CASE DiffGrowth
  <2> DEFINE n == inv_count_online(devices)
  <2>1. n \in 0 .. INV_MAX_DEVICES
    BY CountOnline
  <2>2. baseline' \in 0 .. INV_MAX_DEVICES
    <3>1. baseline \in 0 .. UINT32 - 1 /\ n \in 0 .. UINT32 - 1
      BY <2>1, DiscoveryAssumption, InventoryAssumption, AnomalyAssumption
    <3>2. TrackBaseline(baseline, n) \in 0 .. INV_MAX_DEVICES
      <4> HIDE DEF n
      <4>1. /\ TrackBaseline(baseline, n) \in Nat
            /\ \/ TrackBaseline(baseline, n) <= n
               \/ baseline >= TrackBaseline(baseline, n)
        BY <3>1, StepStaysBetween
      <4> QED
        BY <2>1, <4>1, InventoryAssumption
    <3> QED
      BY <1>12, <2>1, <3>2 DEF DiffGrowth
  <2>3. fresh' \in Seq(Reports)
    <3>1. Event("DEVICE_GROWTH", NONE) \in Reports
      BY DEF Event, Reports, EventType
    <3>2. \A c : When(c, Event("DEVICE_GROWTH", NONE)) \in Seq(Reports)
      <4> HIDE DEF Reports
      <4> QED
        BY <3>1 DEF When
    <3>3. \/ fresh' = fresh
          \/ \E c : fresh' = fresh \o When(c, Event("DEVICE_GROWTH", NONE))
      BY <1>12, Zenon DEF DiffGrowth, inv_log_event
    <3>4. fresh \in Seq(Reports)
      BY DEF Reports
    <3> QED
      BY <3>2, <3>3, <3>4, ConcatProperties
  <2>4. 0 \in 0 .. MAX_UPTIME /\ 0 \in 0 .. INV_MAX_DEVICES
    BY DiscoveryAssumption, InventoryAssumption
  <2> QED
    BY <1>12, <2>2, <2>3, <2>4 DEF DiffGrowth, Reports
<1>13. CASE Forward
  BY <1>13, DiscoveryAssumption DEF Forward
<1>14. CASE Wake
  BY <1>14 DEF Wake
<1>15. CASE UNCHANGED vars
  BY <1>15 DEF vars
<1> QED
  BY <1>1, <1>2, <1>3, <1>4, <1>5, <1>6, <1>7, <1>8, <1>9, <1>10, <1>11,
     <1>12, <1>13, <1>14, <1>15
     DEF Next, drain_replies, discovery_task, run_pass, anomaly_run

-----------------------------------------------------------------------------
(* Records: each kind of step preserves Rec for every slot.                *)

\* Rec(i) after a step that leaves the table alone, and the pass where it is.
LEMMA IdleRec ==
  ASSUME IInv, UNCHANGED <<devices, silent, heard, pc, t0, idx>>, now' >= now,
         now' \in Nat, NEW i \in Slot
  PROVE  Rec(i)'
<1> USE DEF IInv, Rec, Verdict, Touched, Untouched, Diffed, InPass, Reported,
            TypeOK, Device
<1>1. devices[i] \in Device /\ now \in Nat
  BY DiscoveryAssumption
<1> QED
  BY <1>1

\* A record that keeps its place in the pass is as good as before, if the MAC
\* just heard is not its own.
LEMMA OthersRec ==
  ASSUME IInv, InPass, NEW m, heard' = heard \cup {m},
         UNCHANGED <<now, pc, t0, idx, silent>>,
         NEW i \in Slot, devices'[i] = devices[i],
         devices[i].in_use => devices[i].mac # m
  PROVE  Rec(i)'
  BY DEF IInv, Rec, Verdict, Touched, Untouched, Diffed, InPass, Reported

LEMMA HarvestRec ==
  ASSUME IInv, NEW m \in MAC, NEW addr \in ADDR, harvest_one(m, addr)
  PROVE  /\ MacIsKey'
         /\ \A i \in Slot : Rec(i)'
<1>1. /\ InPass /\ heard' = heard \cup {m}
      /\ UNCHANGED <<now, pc, t0, idx, silent>>
      /\ t0 <= now /\ now \in Nat /\ t0 \in Nat
  BY DiscoveryAssumption
     DEF harvest_one, pass, diff, InPass, IInv, Clock, TypeOK
<1>2. CASE TableFullFor(devices, m) /\ UNCHANGED devices
  <2>1. \A i \in Slot : devices[i].in_use => devices[i].mac # m
    BY <1>2 DEF TableFullFor, Holding, InUse
  <2>2. MacIsKey'
    BY <1>2 DEF IInv, MacIsKey, InUse
  <2> QED
    BY <1>1, <1>2, <2>1, <2>2, OthersRec
<1>3. ASSUME NEW s \in Slot, NEW d \in Device,
             FindOrAdd(devices, m, s, d),
             devices' = [devices EXCEPT ![s] = Seen(d, addr)]
      PROVE  MacIsKey' /\ \A i \in Slot : Rec(i)'
  <2>1. d.in_use /\ d.mac = m
    BY <1>3 DEF FindOrAdd, IsFirst, Holding, InUse, Claimed, ZeroDevice
  <2>2. \A i \in Slot \ {s} : devices[i].in_use => devices[i].mac # m
    <3>1. CASE s \in Holding(devices, m)
      BY <3>1 DEF Holding, InUse, IInv, MacIsKey
    <3>2. CASE Holding(devices, m) = {}
      BY <3>2 DEF Holding, InUse
    <3> QED
      BY <1>3, <3>1, <3>2 DEF FindOrAdd, IsFirst
  <2>3. devices'[s] = Seen(d, addr) /\ \A i \in Slot \ {s} : devices'[i] = devices[i]
    BY <1>3 DEF IInv, TypeOK
  <2>4. /\ devices'[s].in_use /\ devices'[s].mac = m
        /\ devices'[s].last_seen = now /\ devices'[s].online
        /\ devices'[s].miss_count = 0
    BY <2>1, <2>3 DEF Seen, Device
  <2>5. Rec(s)'
    <3>1. silent[m] \in Nat
      BY DEF IInv, TypeOK
    <3> QED
      BY <1>1, <2>4, <3>1, DiscoveryAssumption
         DEF Rec, Verdict, Touched, InPass, Reported
  <2>6. \A i \in Slot \ {s} : Rec(i)'
    BY <1>1, <2>2, <2>3, OthersRec
  <2>7. MacIsKey'
    BY <2>2, <2>3, <2>4 DEF IInv, MacIsKey, InUse
  <2> QED
    BY <2>5, <2>6, <2>7
<1> QED
  BY <1>2, <1>3, HarvestWrites DEF IInv

\* A name or a class changes nothing Rec speaks of.
LEMMA NamedRec ==
  ASSUME IInv, NEW addr \in ADDR, NEW name \in NAME,
         NEW hint \in {"computer", "iot"}, apply_mdns_result(addr, name, hint)
  PROVE  /\ MacIsKey'
         /\ \A i \in Slot : Rec(i)'
<1>1. UNCHANGED <<now, pc, t0, idx, heard, silent>>
  BY DEF apply_mdns_result, pass, diff, history
<1>2. PICK s \in Slot :
        devices' = [devices EXCEPT ![s] = Named(devices[s], name, hint)]
  BY DEF apply_mdns_result
<1>3. ASSUME NEW i \in Slot
      PROVE  /\ devices'[i].in_use = devices[i].in_use
             /\ devices'[i].mac = devices[i].mac
             /\ devices'[i].last_seen = devices[i].last_seen
             /\ devices'[i].miss_count = devices[i].miss_count
             /\ devices'[i].online = devices[i].online
             /\ devices'[i].was_online = devices[i].was_online
             /\ devices'[i].announced = devices[i].announced
  BY <1>2 DEF IInv, TypeOK, Device, Named
<1>4. MacIsKey'
  BY <1>3 DEF IInv, MacIsKey, InUse
<1>5. \A i \in Slot : Rec(i)'
  BY <1>1, <1>3
     DEF IInv, Rec, Verdict, Touched, Untouched, Diffed, InPass, Reported
<1> QED
  BY <1>4, <1>5

\* Ageing counts a miss for every device not heard in this pass, but for one
\* whose last reply came in the second the pass began.
LEMMA AgedRec ==
  ASSUME IInv, age_unseen
  PROVE  /\ MacIsKey'
         /\ \A i \in Slot : Rec(i)'
<1>1. /\ pc = "age" /\ pc' = "diff" /\ idx' = 0
      /\ UNCHANGED <<now, t0, heard>>
      /\ t0 < now /\ now \in Nat /\ t0 \in Nat
  BY DiscoveryAssumption DEF age_unseen, pass, IInv, Clock, TypeOK
<1>2. ASSUME NEW i \in Slot
      PROVE  /\ devices[i] \in Device
             /\ devices'[i] = Aged(devices[i])
             /\ devices'[i].in_use = devices[i].in_use
             /\ devices'[i].mac = devices[i].mac
             /\ devices'[i].last_seen = devices[i].last_seen
             /\ devices'[i].was_online = devices[i].was_online
             /\ devices'[i].announced = devices[i].announced
  BY DEF age_unseen, IInv, TypeOK, Aged, Device
<1>3. MacIsKey'
  BY <1>2 DEF IInv, MacIsKey, InUse
<1>4. ASSUME NEW i \in Slot PROVE Rec(i)'
  <2> DEFINE d == devices[i]
  <2> SUFFICES ASSUME d.in_use PROVE Rec(i)'
    BY <1>2 DEF Rec
  <2>1. /\ d.mac \in MAC /\ d \in Device /\ devices'[i] = Aged(d)
        /\ d.last_seen \in Nat /\ d.miss_count \in Nat /\ silent[d.mac] \in Nat
    BY <1>2 DEF IInv, Rec, TypeOK, Device
  <2>2. /\ Verdict(d)
        /\ ~d.announced => d.online
        /\ d.mac \in heard => Touched(d)
        /\ d.mac \notin heard => Untouched(d, t0) /\ d.announced
    BY <1>1 DEF IInv, Rec, InPass
  <2>3. d.mac \in heard => silent'[d.mac] = 0
    BY <2>1 DEF age_unseen
  <2>4. d.mac \notin heard => silent'[d.mac] = silent[d.mac] + 1
    BY <2>1 DEF age_unseen
  <2>5. Rec(i)' <=> /\ Verdict(devices[i])'
                    /\ Untouched(devices[i], now)'
                    /\ ~devices'[i].announced => devices'[i].online
    <3>1. ~(i < 0)
      BY InventoryAssumption DEF Slot
    <3> QED
      BY <1>1, <1>2, <2>1, <3>1 DEF Rec, InPass, Reported
  <2> HIDE DEF d
  <2>6. CASE d.last_seen >= t0
    <3>1. devices'[i] = d
      BY <1>1, <2>1, <2>6 DEF Aged
    <3>2. CASE d.mac \in heard
      BY <1>1, <2>1, <2>2, <2>3, <2>5, <3>1, <3>2
         DEF Verdict, Touched, Untouched
    <3>3. CASE d.mac \notin heard
      <4>1. d.last_seen = t0 /\ silent[d.mac] = 0
        BY <1>1, <2>1, <2>2, <2>6, <3>3 DEF Untouched
      <4> QED
        BY <1>1, <2>1, <2>2, <2>4, <2>5, <3>1, <3>3, <4>1
           DEF Verdict, Untouched
    <3> QED
      BY <3>2, <3>3
  <2>7. CASE d.last_seen < t0
    <3>1. d.mac \notin heard
      BY <1>1, <2>1, <2>2, <2>7 DEF Touched
    <3>2. /\ devices'[i].mac = d.mac
          /\ devices'[i].last_seen = d.last_seen
          /\ devices'[i].announced = d.announced
          /\ devices'[i].miss_count = d.miss_count + 1
          /\ devices'[i].online
               = (d.online /\ d.miss_count + 1 < DISC_MISS_THRESHOLD)
      BY <2>1, <2>7 DEF Aged, Device, d
    <3>3. devices'[i].online <=> d.miss_count + 1 < DISC_MISS_THRESHOLD
      <4>1. d.miss_count + 1 < DISC_MISS_THRESHOLD => d.online
        BY <2>1, <2>2, DiscoveryAssumption DEF Verdict
      <4>2. CASE d.miss_count + 1 < DISC_MISS_THRESHOLD
        <5>1. d.online = TRUE
          BY <2>1, <4>1, <4>2 DEF Device
        <5> QED
          BY <3>2, <4>2, <5>1, Zenon
      <4>3. CASE ~(d.miss_count + 1 < DISC_MISS_THRESHOLD)
        BY <3>2, <4>3, Zenon
      <4> QED
        BY <4>2, <4>3
    <3> QED
      BY <1>1, <2>1, <2>2, <2>4, <2>5, <2>7, <3>1, <3>2, <3>3
         DEF Verdict, Untouched
  <2> QED
    BY <1>1, <2>1, <2>6, <2>7
<1> QED
  BY <1>3, <1>4

\* One iteration of the diff: slot i is settled, whatever else it was.
LEMMA DiffRec ==
  ASSUME IInv, NEW i \in Slot, DiffNew(i) \/ DiffKnown(i)
  PROVE  /\ MacIsKey'
         /\ \A j \in Slot : Rec(j)'
<1>1. /\ pc = "diff" /\ pc' = "diff" /\ idx' = i + 1
      /\ UNCHANGED <<now, t0, heard, silent>>
      /\ devices[i].in_use
      /\ \A j \in Slot : devices[j].in_use /\ j >= idx => i <= j
  BY DEF DiffNew, DiffKnown, AtDevice, IsFirst, InUse, pass, history
<1>2. ASSUME NEW j \in Slot
      PROVE  /\ devices'[j].in_use = devices[j].in_use
             /\ devices'[j].mac = devices[j].mac
             /\ devices'[j].last_seen = devices[j].last_seen
             /\ devices'[j].miss_count = devices[j].miss_count
             /\ devices'[j].online = devices[j].online
             /\ j # i => devices'[j] = devices[j]
  BY DEF DiffNew, DiffKnown, IInv, TypeOK, Device
<1>3. devices'[i].announced /\ devices'[i].was_online = devices'[i].online
  <2>1. CASE DiffNew(i)
    BY <1>1, <2>1 DEF DiffNew, IInv, TypeOK, Device
  <2>2. CASE DiffKnown(i)
    <3>1. devices[i].announced
      BY <1>1, <2>2 DEF DiffKnown, IInv, Rec
    <3> QED
      BY <1>1, <2>2, <3>1 DEF DiffKnown, IInv, TypeOK, Device
  <2> QED
    BY <2>1, <2>2
<1>4. MacIsKey'
  BY <1>2 DEF IInv, MacIsKey, InUse
<1>5. ASSUME NEW j \in Slot PROVE Rec(j)'
  <2>1. CASE j = i
    BY <1>1, <1>2, <1>3, <2>1
       DEF IInv, Rec, Verdict, Untouched, Diffed, InPass, Reported
  <2>2. CASE j # i
    <3>1. devices'[j] = devices[j] /\ Rec(j)
      BY <1>2, <2>2 DEF IInv
    <3>2. devices[j].in_use /\ j < i + 1 => j < idx
      BY <1>1, <2>2 DEF Slot, IInv, TypeOK
    <3> QED
      BY <1>1, <3>1, <3>2
         DEF Rec, Verdict, Untouched, Diffed, InPass, Reported
  <2> QED
    BY <2>1, <2>2
<1> QED
  BY <1>4, <1>5

\* The steps that only move the task from one phase to the next.
PhaseStep ==
  \/ SkipPass \/ BeginPass \/ SweepSent \/ DrainDone \/ resolve_hostnames
  \/ MdnsDone \/ DiffGrowth \/ Forward \/ Wake

LEMMA PhaseRec ==
  ASSUME IInv, PhaseStep, NEW i \in Slot
  PROVE  Rec(i)'
<1>1. UNCHANGED <<now, devices, silent>>
  BY DEF PhaseStep, SkipPass, BeginPass, SweepSent, DrainDone,
         resolve_hostnames, MdnsDone, DiffGrowth, Forward, Wake, diff, history
<1>2. Rec(i) /\ now \in Nat /\ devices[i] \in Device
  BY DiscoveryAssumption DEF IInv, TypeOK
<1>3. \/ /\ ~InPass /\ ~InPass' /\ pc' # "diff"
         /\ Reported \/ (pc = "diff" /\ \A j \in InUse(devices) : j < idx)
      \/ /\ ~InPass /\ InPass' /\ pc' # "diff" /\ Reported
         /\ heard' = {} /\ t0' = now
      \/ /\ InPass /\ InPass' /\ pc' # "diff"
         /\ UNCHANGED <<heard, t0>>
  BY DEF PhaseStep, SkipPass, BeginPass, SweepSent, DrainDone,
         resolve_hostnames, MdnsDone, DiffGrowth, Forward, Wake, InPass,
         Reported, IInv, Phases, diff, history, pass
<1>4. ~(Reported' /\ InPass')
  BY DEF Reported, InPass
<1>5. CASE /\ ~InPass /\ ~InPass' /\ pc' # "diff"
           /\ Reported \/ (pc = "diff" /\ \A j \in InUse(devices) : j < idx)
  <2>1. devices[i].in_use => Diffed(devices[i])
    BY <1>2, <1>5 DEF Rec, InUse
  <2> QED
    BY <1>1, <1>2, <1>5, <2>1 DEF Rec, Verdict, Untouched, Diffed
<1>6. CASE /\ ~InPass /\ InPass' /\ pc' # "diff" /\ Reported
           /\ heard' = {} /\ t0' = now
  BY <1>1, <1>2, <1>4, <1>6 DEF Rec, Verdict, Untouched, Diffed
<1>7. CASE /\ InPass /\ InPass' /\ pc' # "diff"
           /\ UNCHANGED <<heard, t0>>
  BY <1>1, <1>2, <1>4, <1>7 DEF Rec, Verdict, Touched, Untouched
<1> QED
  BY <1>3, <1>5, <1>6, <1>7

LEMMA RecStep ==
  ASSUME IInv, TypeOK', [Next]_vars
  PROVE  MacIsKey' /\ \A i \in Slot : Rec(i)'
<1>1. CASE Tick \/ discovery_trigger_now \/ UNCHANGED vars
  <2>1. /\ UNCHANGED <<devices, silent, heard, pc, t0, idx>>
        /\ now' >= now /\ now' \in Nat
    BY <1>1, DiscoveryAssumption
       DEF Tick, discovery_trigger_now, vars, pass, diff, history, IInv, TypeOK
  <2>2. MacIsKey'
    BY <2>1 DEF IInv, MacIsKey, InUse
  <2> QED
    BY <2>1, <2>2, IdleRec
<1>2. CASE Restart
  <2>1. \A i \in Slot : ~devices'[i].in_use
    BY <1>2 DEF Restart, ZeroDevice
  <2> QED
    BY <2>1 DEF Rec, MacIsKey, InUse
<1>3. CASE PhaseStep
  <2>1. UNCHANGED devices
    BY <1>3
       DEF PhaseStep, SkipPass, BeginPass, SweepSent, DrainDone,
           resolve_hostnames, MdnsDone, DiffGrowth, Forward, Wake
  <2>2. MacIsKey'
    BY <2>1 DEF IInv, MacIsKey, InUse
  <2> QED
    BY <1>3, <2>2, PhaseRec
<1>4. CASE drain_replies
  BY <1>4, HarvestRec DEF drain_replies
<1>5. CASE \E addr \in ADDR, name \in NAME, hint \in {"computer", "iot"} :
             apply_mdns_result(addr, name, hint)
  BY <1>5, NamedRec
<1>6. CASE age_unseen
  BY <1>6, AgedRec
<1>7. CASE \E i \in Slot : DiffNew(i) \/ DiffKnown(i)
  BY <1>7, DiffRec
<1> QED
  BY <1>1, <1>2, <1>3, <1>4, <1>5, <1>6, <1>7
     DEF Next, Environment, discovery_task, run_pass, anomaly_run, PhaseStep

-----------------------------------------------------------------------------
(* The clock, the phases and the report.                                   *)

LEMMA ClockStep ==
  ASSUME IInv, TypeOK', [Next]_vars
  PROVE  Clock' /\ Phases'
<1>1. /\ now \in Nat /\ t0 \in Nat /\ deadline \in Nat
      /\ DISC_PING_TIMEOUT \in Nat \ {0}
  BY DiscoveryAssumption DEF IInv, TypeOK
<1> USE <1>1 DEF IInv, Clock, Phases, pass, diff, history
<1>2. CASE Tick \/ discovery_trigger_now \/ UNCHANGED vars
  BY <1>2 DEF Tick, discovery_trigger_now, vars
<1>3. CASE Restart
  BY <1>3 DEF Restart
<1>4. CASE SkipPass \/ BeginPass \/ SweepSent \/ DrainDone
  BY <1>4 DEF SkipPass, BeginPass, SweepSent, DrainDone
<1>5. CASE resolve_hostnames \/ MdnsDone \/ age_unseen
  BY <1>5 DEF resolve_hostnames, MdnsDone, age_unseen
<1>6. CASE DiffGrowth \/ Forward \/ Wake
  BY <1>6 DEF DiffGrowth, Forward, Wake
<1>7. CASE drain_replies
  BY <1>7 DEF drain_replies, harvest_one
<1>8. CASE \E addr \in ADDR, name \in NAME, hint \in {"computer", "iot"} :
             apply_mdns_result(addr, name, hint)
  BY <1>8 DEF apply_mdns_result
<1>9. CASE \E i \in Slot : DiffNew(i) \/ DiffKnown(i)
  BY <1>9 DEF DiffNew, DiffKnown, AtDevice
<1> QED
  BY <1>2, <1>3, <1>4, <1>5, <1>6, <1>7, <1>8, <1>9
     DEF Next, Environment, discovery_task, run_pass, anomaly_run

\* What one sequence holds, two of them joined hold.
LEMMA JoinedReports ==
  ASSUME NEW s \in Seq(Reports), NEW e \in Seq(Reports), NEW silence,
         \A k \in DOMAIN s : s[k].type = "DEVICE_MISSING"
           => silence[s[k].mac] >= DISC_MISS_THRESHOLD,
         \A k \in DOMAIN e : e[k].type = "DEVICE_MISSING"
           => silence[e[k].mac] >= DISC_MISS_THRESHOLD
  PROVE  \A k \in DOMAIN (s \o e) : (s \o e)[k].type = "DEVICE_MISSING"
           => silence[(s \o e)[k].mac] >= DISC_MISS_THRESHOLD
<1> TAKE k \in DOMAIN (s \o e)
<1>1. \/ k \in DOMAIN s /\ (s \o e)[k] = s[k]
      \/ k - Len(s) \in DOMAIN e /\ (s \o e)[k] = e[k - Len(s)]
  BY ConcatProperties, LenProperties
<1> QED
  BY <1>1

LEMMA ReportStep ==
  ASSUME IInv, TypeOK', [Next]_vars
  PROVE  MissingIsSilent'
<1>1. CASE pc' \notin {"diff", "forward"}
  BY <1>1, ClockStep DEF Phases, MissingIsSilent
<1>2. CASE UNCHANGED <<fresh, silent>>
  BY <1>2 DEF IInv, MissingIsSilent
<1>3. CASE age_unseen
  BY <1>3 DEF age_unseen, IInv, Phases, MissingIsSilent
<1>4. fresh \in Seq(Reports) /\ MissingIsSilent
  BY DEF IInv, TypeOK, Reports
<1>5. ASSUME NEW i \in Slot, DiffNew(i) PROVE MissingIsSilent'
  <2>1. PICK v : fresh' = fresh \o Announcement(devices[i].mac, v)
    BY <1>5 DEF DiffNew, inv_log_event
  <2>2. devices[i].mac \in MAC
    BY <1>5 DEF DiffNew, AtDevice, IsFirst, InUse, IInv, Rec
  <2>3. UNCHANGED silent
    BY <1>5 DEF DiffNew, history
  <2> HIDE DEF Reports
  <2> QED
    BY <1>4, <2>1, <2>2, <2>3, AnnouncementType, JoinedReports
       DEF MissingIsSilent
<1>6. ASSUME NEW i \in Slot, DiffKnown(i) PROVE MissingIsSilent'
  <2> DEFINE d == devices[i]
  <2>1. fresh' = fresh \o Transition(d) /\ UNCHANGED silent
    BY <1>6 DEF DiffKnown, inv_log_event, history
  <2>2. d \in Device /\ d.mac \in MAC /\ Verdict(d)
    BY <1>6 DEF DiffKnown, AtDevice, IsFirst, InUse, IInv, Rec, TypeOK
  <2>3. Transition(d) \in Seq(Reports)
    BY <2>2, TransitionType
  <2>4. \A k \in DOMAIN Transition(d) :
          Transition(d)[k].type = "DEVICE_MISSING"
            => silent[Transition(d)[k].mac] >= DISC_MISS_THRESHOLD
    <3>1. ~d.online => silent[d.mac] >= DISC_MISS_THRESHOLD
      BY <2>2, DiscoveryAssumption DEF Verdict, Device, IInv, TypeOK
    <3> QED
      BY <3>1 DEF Transition, Event
  <2> HIDE DEF d, Reports
  <2> QED
    BY <1>4, <2>1, <2>3, <2>4, JoinedReports DEF MissingIsSilent
<1>7. CASE DiffGrowth
  <2> DEFINE g    == Event("DEVICE_GROWTH", NONE)
             e(c) == When(c, g)
  <2>1. \/ fresh' = fresh
        \/ \E c : fresh' = fresh \o e(c)
    BY <1>7, Zenon DEF DiffGrowth, inv_log_event
  <2>2. UNCHANGED silent
    BY <1>7 DEF DiffGrowth, history
  <2>3. \A c : e(c) \in Seq(Reports)
              /\ \A k \in DOMAIN e(c) : e(c)[k].type # "DEVICE_MISSING"
    <3>1. g \in Reports /\ g.type # "DEVICE_MISSING"
      BY DEF Event, Reports, EventType
    <3> HIDE DEF g, Reports
    <3>2. /\ <<g>> \in Seq(Reports)
          /\ \A k \in DOMAIN <<g>> : <<g>>[k].type # "DEVICE_MISSING"
      BY <3>1
    <3>3. /\ <<>> \in Seq(Reports)
          /\ \A k \in DOMAIN <<>> : <<>>[k].type # "DEVICE_MISSING"
      OBVIOUS
    <3> QED
      BY <3>2, <3>3 DEF When
  <2> HIDE DEF e, Reports
  <2> QED
    BY <1>4, <2>1, <2>2, <2>3, JoinedReports DEF MissingIsSilent
<1> QED
  BY <1>1, <1>2, <1>3, <1>5, <1>6, <1>7
     DEF Next, Environment, Tick, discovery_trigger_now, Restart, vars,
         drain_replies, harvest_one, discovery_task, run_pass, anomaly_run,
         SkipPass, BeginPass, SweepSent, DrainDone, resolve_hostnames,
         apply_mdns_result, MdnsDone, Forward, Wake, diff, history

-----------------------------------------------------------------------------
(* The theorems.                                                           *)

LEMMA Initial == Init => IInv
<1> SUFFICES ASSUME Init PROVE IInv
  OBVIOUS
<1>1. \A i \in Slot : ~devices[i].in_use
  BY DEF Init, ZeroDevice
<1>2. fresh = <<>> /\ t0 = 0 /\ now = 0 /\ pc = "start" /\ heard = {}
  BY DEF Init
<1> QED
  BY <1>1, <1>2, TypeInitial
     DEF IInv, Clock, Phases, MacIsKey, InUse, Rec, MissingIsSilent

LEMMA Inductive == IInv /\ [Next]_vars => IInv'
<1> SUFFICES ASSUME IInv, [Next]_vars PROVE IInv'
  OBVIOUS
<1>1. TypeOK'
  BY TypeStep DEF IInv
<1> QED
  BY <1>1, RecStep, ClockStep, ReportStep DEF IInv

LEMMA Invariance == Spec => []IInv
  BY Initial, Inductive, PTL DEF Spec

(***************************************************************************)
(* Every variable of the discovery task and of the diff keeps its type;    *)
(* the baseline is a count of slots and its update never wraps.            *)
(***************************************************************************)
THEOREM TypeCorrect == Spec => []TypeOK
  BY Invariance, PTL DEF IInv

(***************************************************************************)
(* inv_find_or_add() never lets two slots hold one MAC.                    *)
(***************************************************************************)
THEOREM KeyIsUnique == Spec => []MacIsKey
  BY Invariance, PTL DEF IInv

(***************************************************************************)
(* No false alarm, for any threshold: a DEVICE_MISSING event is logged     *)
(* only for a device that DISC_MISS_THRESHOLD passes in a row did not hear.*)
(***************************************************************************)
THEOREM NoFalseAlarm == Spec => []MissingIsSilent
  BY Invariance, PTL DEF IInv

(***************************************************************************)
(* No alarm is late by more than one pass: it rests on the final drain     *)
(* lasting a second or more (Clock) and on a pass starting in the second   *)
(* of a reply only once (Untouched).                                       *)
(***************************************************************************)
THEOREM NoLateAlarm == Spec => []GoneIsOffline
<1>1. IInv => GoneIsOffline
  <2> SUFFICES ASSUME IInv, NEW i \in InUse(devices),
                      pc \in {"diff", "forward", "wait", "start"},
                      silent[devices[i].mac] > DISC_MISS_THRESHOLD
               PROVE  ~devices[i].online
    BY DEF GoneIsOffline
  <2> DEFINE d == devices[i]
  <2>1. Verdict(d) /\ Untouched(d, now)
    BY DEF IInv, Rec, InUse, InPass
  <2>2. d.miss_count \in Nat /\ silent[d.mac] \in Nat
    BY DEF IInv, TypeOK, Rec, Device, InUse
  <2> QED
    BY <2>1, <2>2, DiscoveryAssumption DEF Verdict, Untouched
<1> QED
  BY <1>1, Invariance, PTL

(***************************************************************************)
(* A device is announced before it can go offline.                         *)
(***************************************************************************)
THEOREM AnnouncedFirst == Spec => []UnannouncedIsOnline
<1>1. IInv => UnannouncedIsOnline
  BY DEF IInv, Rec, InUse, UnannouncedIsOnline
<1> QED
  BY <1>1, Invariance, PTL

(***************************************************************************)
(* When a report is forwarded nothing is left to report.                   *)
(***************************************************************************)
THEOREM NothingLeft == Spec => []Settled
<1>1. IInv => Settled
  BY DEF IInv, Rec, InUse, Settled, Reported, Diffed
<1> QED
  BY <1>1, Invariance, PTL

-----------------------------------------------------------------------------
(***************************************************************************)
(* Discovery implements DeviceLifecycle, for every set of hosts, every     *)
(* capacity of the table and every setting of the timers.                  *)
(*                                                                         *)
(* The life of a device is read off the one slot that holds its MAC        *)
(* (MacIsKey).  Only an iteration of the diff changes it, and the diff     *)
(* comes to each slot once, so that no report has two changes of a device: *)
(* this is Subjects, the one invariant that nothing above has need of.     *)
(***************************************************************************)

\* A report that is being written is about devices the diff has dealt with.
Subjects ==
  pc = "diff" =>
    \A k \in DOMAIN fresh :
      \E j \in InUse(devices) : j < idx /\ fresh[k].mac = devices[j].mac

LInv == IInv /\ Subjects

-----------------------------------------------------------------------------
(* The life of a device.                                                   *)

Lives == [m \in MAC |-> Life(m)]

\* The part of a record its life is read off.
Announced(i) == devices[i].in_use /\ devices[i].announced

LEMMA LifeIs ==
  ASSUME MacIsKey, NEW i \in Slot, devices[i].in_use, NEW n,
         n = devices[i].mac
  PROVE  Life(n) = IF ~devices[i].announced THEN "unseen"
                   ELSE IF devices[i].was_online THEN "present" ELSE "absent"
<1>1. Holding(devices, n) = {i}
  BY DEF Holding, InUse, MacIsKey
<1> QED
  BY <1>1 DEF Life

\* After an iteration of the diff at slot i.
LEMMA LifeBecomes ==
  ASSUME MacIsKey', NEW i \in Slot, devices'[i].in_use, NEW n,
         n = devices'[i].mac, devices'[i].announced
  PROVE  Life(n)' = IF devices'[i].was_online THEN "present" ELSE "absent"
<1>1. Holding(devices, n)' = {i}
  BY DEF Holding, InUse, MacIsKey
<1> QED
  BY <1>1 DEF Life

\* A step that changes no announced record changes no life.
LEMMA LifeGoesOn ==
  ASSUME MacIsKey, MacIsKey', NEW m,
         \A i \in Slot :
           devices[i].mac = m \/ devices'[i].mac = m =>
             \/ /\ devices'[i].in_use = devices[i].in_use
                /\ devices'[i].mac = devices[i].mac
                /\ devices'[i].announced = devices[i].announced
                /\ devices'[i].was_online = devices[i].was_online
             \/ ~Announced(i) /\ ~Announced(i)'
  PROVE  Life(m)' = Life(m)
<1> USE DEF Announced, Holding, InUse
<1>1. CASE \E i \in Slot : Announced(i) /\ devices[i].mac = m
  <2>1. PICK i \in Slot : Announced(i) /\ devices[i].mac = m
    BY <1>1
  <2>2. /\ Announced(i)' /\ devices'[i].mac = m
        /\ devices'[i].was_online = devices[i].was_online
    BY <2>1
  <2>3. Holding(devices, m) = {i} /\ Holding(devices, m)' = {i}
    BY <2>1, <2>2 DEF MacIsKey
  <2> QED
    BY <2>1, <2>2, <2>3 DEF Life
<1>2. CASE ~ \E i \in Slot : Announced(i) /\ devices[i].mac = m
  <2>1. ~ \E i \in Slot : Announced(i)' /\ devices'[i].mac = m
    BY <1>2
  <2> QED
    BY <1>2, <2>1 DEF Life
<1> QED
  BY <1>1, <1>2

\* What an iteration of the diff leaves of the lives of the others.
LEMMA OtherLives ==
  ASSUME IInv, MacIsKey', NEW i \in Slot, DiffNew(i) \/ DiffKnown(i),
         NEW m, m # devices[i].mac
  PROVE  Life(m)' = Life(m)
<1>1. /\ devices'[i].mac = devices[i].mac
      /\ \A j \in Slot : j # i => devices'[j] = devices[j]
  BY DEF DiffNew, DiffKnown, IInv, TypeOK, Device
<1> QED
  BY <1>1, LifeGoesOn DEF IInv

-----------------------------------------------------------------------------
(* Steps.                                                                  *)

\* The events of a device that appears are one of the announcements it may get.
LEMMA AnnouncementAllowed ==
  ASSUME NEW m \in MAC, NEW v
  PROVE  Announcement(m, v) \in Timeline!Announcements(m)
<1> DEFINE N == Event("NIGHT_ACTIVITY", m)
           U == Event("UNKNOWN_VENDOR", m)
           unknown == ~mac_is_randomized(m) /\ v = "Unknown"
<1>1. Timeline!Remarks(m) = {<<>>, <<N>>, <<U>>, <<N>> \o <<U>>}
  BY DEF Timeline!Remarks, Timeline!Event, Event
<1>2. /\ N \in {N, U} /\ U \in {N, U}
      /\ <<N>> \in Seq({N, U}) /\ <<U>> \in Seq({N, U}) /\ <<>> \in Seq({N, U})
  OBVIOUS
<1>3. When(is_night, N) \o When(unknown, U) \in Timeline!Remarks(m)
  <2> HIDE DEF N, U, unknown
  <2> QED
    BY <1>1, <1>2, ConcatEmptySeq DEF When
<1>4. Announcement(m, v) = IF ~announce(m) THEN <<>>
                           ELSE <<Event("NEW_DEVICE", m)>>
                                  \o (When(is_night, N) \o When(unknown, U))
  BY DEF Announcement
<1>5. m \in {n \in MAC : ~announce(n)} <=> ~announce(m)
  OBVIOUS
<1>6. Timeline!Event("NEW_DEVICE", m) = Event("NEW_DEVICE", m)
  BY DEF Timeline!Event, Event
<1> HIDE DEF N, U, unknown
<1> QED
  BY <1>3, <1>4, <1>5, <1>6 DEF Timeline!Announcements

\* The device the diff is at has not been reported yet.
LEMMA NotYetReported ==
  ASSUME LInv, NEW i \in Slot, AtDevice(i)
  PROVE  Timeline!Unreported(devices[i].mac)
<1>1. pc = "diff" /\ devices[i].in_use /\ i >= idx
  BY DEF AtDevice, IsFirst, InUse
<1>2. idx \in Int
  BY DEF LInv, IInv, TypeOK
<1> QED
  BY <1>1, <1>2
     DEF LInv, IInv, Subjects, MacIsKey, InUse, Slot, Timeline!Unreported

LEMMA AppearStep ==
  ASSUME LInv, MacIsKey', NEW i \in Slot, DiffNew(i)
  PROVE  Timeline!Appear(devices[i].mac)
<1> DEFINE d == devices[i]
           m == d.mac
<1>1. /\ d.in_use /\ d \in Device /\ m \in MAC /\ ~d.announced
      /\ AtDevice(i)
  BY DEF DiffNew, AtDevice, IsFirst, InUse, LInv, IInv, TypeOK, Rec
<1>2. /\ devices'[i].in_use /\ devices'[i].mac = m
      /\ devices'[i].announced /\ devices'[i].was_online
  BY <1>1 DEF DiffNew, LInv, IInv, TypeOK, Device
<1>3. Life(m) = "unseen"
  BY <1>1, LifeIs DEF LInv, IInv
<1>4. \A n \in MAC : Life(n)' = IF n = m THEN "present" ELSE Life(n)
  BY <1>2, LifeBecomes, OtherLives DEF LInv
<1>5. [n \in MAC |-> Life(n)'] = [[n \in MAC |-> Life(n)] EXCEPT ![m] = "present"]
  BY <1>4
<1>6. \E report \in Timeline!Announcements(m) : fresh' = fresh \o report
  BY <1>1, AnnouncementAllowed DEF DiffNew, inv_log_event
<1>7. Timeline!Unreported(m)
  BY <1>1, NotYetReported
<1> QED
  BY <1>1, <1>3, <1>5, <1>6, <1>7 DEF Timeline!Appear

LEMMA KnownStep ==
  ASSUME LInv, MacIsKey', NEW i \in Slot, DiffKnown(i)
  PROVE  \/ Timeline!Vanish(devices[i].mac)
         \/ Timeline!Return(devices[i].mac)
         \/ UNCHANGED <<Lives, fresh>>
<1> DEFINE d == devices[i]
           m == d.mac
           after == IF d.online THEN "present" ELSE "absent"
<1>1. /\ d.in_use /\ d \in Device /\ m \in MAC /\ d.announced
      /\ AtDevice(i)
  BY DEF DiffKnown, AtDevice, IsFirst, InUse, LInv, IInv, TypeOK, Rec
<1>2. /\ devices'[i].in_use /\ devices'[i].mac = m
      /\ devices'[i].announced /\ devices'[i].was_online = d.online
  BY <1>1 DEF DiffKnown, LInv, IInv, TypeOK, Device
<1>3. \A n \in MAC :
        n = m => Life(n) = IF d.was_online THEN "present" ELSE "absent"
  BY <1>1, LifeIs DEF LInv, IInv
<1>4. \A n \in MAC : Life(n)' = IF n = m THEN after ELSE Life(n)
  BY <1>2, LifeBecomes, OtherLives DEF LInv
<1>5. [n \in MAC |-> Life(n)'] = [[n \in MAC |-> Life(n)] EXCEPT ![m] = after]
  BY <1>4
<1>6. Timeline!Unreported(m)
  BY <1>1, NotYetReported
<1>7. fresh' = fresh \o Transition(d)
  BY DEF DiffKnown, inv_log_event
<1>8. fresh \in Seq(Reports)
  BY DEF LInv, IInv, TypeOK, Reports
<1>9. d.online \in BOOLEAN /\ d.was_online \in BOOLEAN
  BY <1>1 DEF Device
<1>10. CASE d.was_online /\ ~d.online
  <2>1. Event("DEVICE_MISSING", m) \in Reports
    BY <1>1 DEF Event, Reports, EventType
  <2>2. fresh' = Append(fresh, Event("DEVICE_MISSING", m))
    <3> HIDE DEF Reports
    <3>1. Transition(d) = <<Event("DEVICE_MISSING", m)>>
      BY <1>10 DEF Transition
    <3> QED
      BY <1>7, <1>8, <2>1, <3>1, AppendIsConcat
  <2>3. Timeline!Event("DEVICE_MISSING", m) = Event("DEVICE_MISSING", m)
    BY DEF Timeline!Event, Event
  <2> QED
    BY <1>1, <1>3, <1>5, <1>6, <1>10, <2>2, <2>3 DEF Timeline!Vanish
<1>11. CASE ~d.was_online /\ d.online
  <2>1. Event("DEVICE_RETURNED", m) \in Reports
    BY <1>1 DEF Event, Reports, EventType
  <2>2. fresh' = Append(fresh, Event("DEVICE_RETURNED", m))
    <3> HIDE DEF Reports
    <3>1. Transition(d) = <<Event("DEVICE_RETURNED", m)>>
      BY <1>11 DEF Transition
    <3> QED
      BY <1>7, <1>8, <2>1, <3>1, AppendIsConcat
  <2>3. Timeline!Event("DEVICE_RETURNED", m) = Event("DEVICE_RETURNED", m)
    BY DEF Timeline!Event, Event
  <2> QED
    BY <1>1, <1>3, <1>5, <1>6, <1>11, <2>2, <2>3 DEF Timeline!Return
<1>12. CASE d.was_online = d.online
  <2>1. Transition(d) = <<>>
    BY <1>12 DEF Transition
  <2>2. fresh' = fresh
    <3> HIDE DEF Reports
    <3> QED
      BY <1>7, <1>8, <2>1, ConcatEmptySeq
  <2>3. \A n \in MAC : Life(n)' = Life(n)
    BY <1>3, <1>4, <1>12
  <2> QED
    BY <2>2, <2>3 DEF Lives
<1> QED
  BY <1>9, <1>10, <1>11, <1>12

\* The growth alarm changes no device.
LEMMA GrowStep ==
  ASSUME LInv, DiffGrowth
  PROVE  Timeline!Grow \/ UNCHANGED <<Lives, fresh>>
<1> DEFINE g == Event("DEVICE_GROWTH", NONE)
<1>1. \A m \in MAC : Life(m)' = Life(m)
  BY DEF DiffGrowth, Life, Holding, InUse
<1>2. fresh \in Seq(Reports) /\ g \in Reports
  BY DEF LInv, IInv, TypeOK, Reports, Event, EventType
<1>3. \/ fresh' = fresh
      \/ \E c : fresh' = fresh \o When(c, g)
  BY Zenon DEF DiffGrowth, inv_log_event
<1>4. g = Timeline!Event("DEVICE_GROWTH", NONE)
  BY DEF Event, Timeline!Event
<1> HIDE DEF g, Reports
<1>5. fresh' = fresh \/ fresh' = Append(fresh, g)
  BY <1>2, <1>3, ConcatEmptySeq, AppendIsConcat DEF When
<1>6. UNCHANGED Lives
  BY <1>1 DEF Lives
<1>7. [m \in MAC |-> Life(m)'] = [m \in MAC |-> Life(m)]
  BY <1>1
<1> QED
  BY <1>4, <1>5, <1>6, <1>7 DEF Timeline!Grow

\* The steps of a pass before its diff change no life and no report.
LEMMA QuietStep ==
  ASSUME LInv, MacIsKey',
         Tick \/ discovery_trigger_now \/ drain_replies \/ run_pass \/ Wake
         \/ UNCHANGED vars
  PROVE  UNCHANGED <<Lives, fresh>>
<1>1. UNCHANGED fresh
  BY DEF Tick, discovery_trigger_now, drain_replies, harvest_one, run_pass,
         SkipPass, BeginPass, SweepSent, DrainDone, resolve_hostnames,
         apply_mdns_result, MdnsDone, age_unseen, Wake, diff, vars
<1>2. ASSUME NEW i \in Slot
      PROVE  \/ /\ devices'[i].in_use = devices[i].in_use
                /\ devices'[i].mac = devices[i].mac
                /\ devices'[i].announced = devices[i].announced
                /\ devices'[i].was_online = devices[i].was_online
             \/ ~Announced(i) /\ ~Announced(i)'
  <2> USE DEF LInv, IInv
  <2>0. devices[i] \in Device /\ devices \in [Slot -> Device]
    BY DEF TypeOK
  <2>1. CASE UNCHANGED devices
    BY <2>1
  <2>2. CASE age_unseen
    BY <2>0, <2>2 DEF age_unseen, Aged, Device
  <2>3. ASSUME NEW addr \in ADDR, NEW name \in NAME,
               NEW hint \in {"computer", "iot"},
               apply_mdns_result(addr, name, hint)
        PROVE  /\ devices'[i].in_use = devices[i].in_use
               /\ devices'[i].mac = devices[i].mac
               /\ devices'[i].announced = devices[i].announced
               /\ devices'[i].was_online = devices[i].was_online
    BY <2>0, <2>3 DEF apply_mdns_result, Named, Device
  <2>4. ASSUME NEW m \in MAC, NEW addr \in ADDR, harvest_one(m, addr),
               ~ UNCHANGED devices
        PROVE  \/ /\ devices'[i].in_use = devices[i].in_use
                  /\ devices'[i].mac = devices[i].mac
                  /\ devices'[i].announced = devices[i].announced
                  /\ devices'[i].was_online = devices[i].was_online
               \/ ~Announced(i) /\ ~Announced(i)'
    <3>1. PICK s \in Slot, d \in Device :
            /\ FindOrAdd(devices, m, s, d)
            /\ devices' = [devices EXCEPT ![s] = Seen(d, addr)]
      BY <2>4, HarvestWrites
    <3>2. CASE i # s
      BY <2>0, <3>1, <3>2
    <3>3. CASE i = s /\ d = devices[s]
      BY <2>0, <3>1, <3>3 DEF Seen, Device
    <3>4. CASE i = s /\ s \in Free(devices) /\ d = Claimed(m)
      <4>1. ~devices[i].in_use
        BY <3>4 DEF Free, InUse
      <4>2. devices'[i] = Seen(Claimed(m), addr)
        BY <2>0, <3>1, <3>4
      <4>3. ~devices'[i].announced
        BY <4>2 DEF Seen, Claimed, ZeroDevice
      <4> QED
        BY <4>1, <4>3 DEF Announced
    <3> QED
      BY <3>1, <3>2, <3>3, <3>4 DEF FindOrAdd, IsFirst
  <2> QED
    BY <2>1, <2>2, <2>3, <2>4
       DEF Tick, discovery_trigger_now, drain_replies, run_pass, SkipPass,
           BeginPass, SweepSent, DrainDone, resolve_hostnames, MdnsDone,
           Wake, vars
<1>3. \A m \in MAC : Life(m)' = Life(m)
  BY <1>2, LifeGoesOn DEF LInv, IInv
<1> QED
  BY <1>1, <1>3 DEF Lives

-----------------------------------------------------------------------------
(* The invariant.                                                          *)

\* An iteration of the diff adds events of its own device only.
LEMMA DiffSubjects ==
  ASSUME LInv, NEW i \in Slot, DiffNew(i) \/ DiffKnown(i)
  PROVE  Subjects'
<1>1. /\ pc = "diff" /\ i >= idx /\ idx' = i + 1
      /\ devices[i].in_use /\ devices[i].mac \in MAC
  BY DEF DiffNew, DiffKnown, AtDevice, IsFirst, InUse, LInv, IInv, Rec
<1>2. ASSUME NEW j \in Slot
      PROVE  /\ devices'[j].in_use = devices[j].in_use
             /\ devices'[j].mac = devices[j].mac
  <2> devices \in [Slot -> Device]
    BY DEF LInv, IInv, TypeOK
  <2>1. CASE DiffNew(i)
    BY <2>1 DEF DiffNew, Device
  <2>2. CASE DiffKnown(i)
    BY <2>2 DEF DiffKnown, Device
  <2> QED
    BY <2>1, <2>2
<1>3. PICK e \in Seq(Reports) :
        /\ fresh' = fresh \o e
        /\ \A k \in DOMAIN e : e[k].mac = devices[i].mac
  <2>1. CASE DiffNew(i)
    <3>1. PICK v : fresh' = fresh \o Announcement(devices[i].mac, v)
      BY <2>1 DEF DiffNew, inv_log_event
    <3> HIDE DEF Reports
    <3> QED
      BY <1>1, <3>1, AnnouncementType
  <2>2. CASE DiffKnown(i)
    <3>1. Transition(devices[i]) \in Seq(Reports)
      BY <1>1, TransitionType DEF LInv, IInv, TypeOK
    <3>2. \A k \in DOMAIN Transition(devices[i]) :
            Transition(devices[i])[k].mac = devices[i].mac
      BY DEF Transition, Event
    <3> QED
      BY <2>2, <3>1, <3>2 DEF DiffKnown, inv_log_event
  <2> QED
    BY <2>1, <2>2
<1>4. fresh \in Seq(Reports)
  BY DEF LInv, IInv, TypeOK, Reports
<1> SUFFICES ASSUME NEW k \in DOMAIN fresh'
             PROVE  \E j \in Slot : /\ devices'[j].in_use /\ j < idx'
                                    /\ fresh'[k].mac = devices'[j].mac
  BY DEF Subjects, InUse
<1> HIDE DEF Reports
<1>5. \/ k \in DOMAIN fresh /\ fresh'[k] = fresh[k]
      \/ k - Len(fresh) \in DOMAIN e /\ fresh'[k] = e[k - Len(fresh)]
  BY <1>3, <1>4, ConcatProperties, LenProperties
<1>6. idx \in Int /\ i \in Int
  BY DEF LInv, IInv, TypeOK, Slot
<1>7. CASE k \in DOMAIN fresh /\ fresh'[k] = fresh[k]
  <2>1. PICK j \in InUse(devices) : j < idx /\ fresh[k].mac = devices[j].mac
    BY <1>1, <1>7 DEF LInv, Subjects
  <2>2. j \in Slot /\ j \in Int /\ j < i + 1
    BY <1>1, <1>6, <2>1 DEF InUse, Slot
  <2> QED
    BY <1>1, <1>2, <1>7, <2>1, <2>2 DEF InUse
<1>8. CASE k - Len(fresh) \in DOMAIN e /\ fresh'[k] = e[k - Len(fresh)]
  <2>1. fresh'[k].mac = devices'[i].mac
    BY <1>2, <1>3, <1>8
  <2>2. devices'[i].in_use /\ i < idx'
    BY <1>1, <1>2, <1>6
  <2> QED
    BY <2>1, <2>2
<1> QED
  BY <1>5, <1>7, <1>8

LEMMA SubjectsStep ==
  ASSUME LInv, [Next]_vars
  PROVE  Subjects'
<1>1. CASE pc' # "diff"
  BY <1>1 DEF Subjects
<1>2. CASE age_unseen
  BY <1>2 DEF age_unseen, LInv, IInv, Phases, Subjects
<1>3. CASE UNCHANGED <<devices, pc, idx, fresh>>
  BY <1>3 DEF LInv, Subjects, InUse
<1>4. CASE \E i \in Slot : DiffNew(i) \/ DiffKnown(i)
  BY <1>4, DiffSubjects
<1> QED
  BY <1>1, <1>2, <1>3, <1>4
     DEF Next, Environment, Tick, discovery_trigger_now, Restart, vars,
         drain_replies, harvest_one, discovery_task, run_pass, anomaly_run,
         SkipPass, BeginPass, SweepSent, DrainDone, resolve_hostnames,
         apply_mdns_result, MdnsDone, DiffGrowth, Forward, Wake, diff

LEMMA LifecycleInvariance == Spec => []LInv
<1>1. Init => LInv
  BY Initial DEF Init, LInv, Subjects
<1>2. LInv /\ [Next]_vars => LInv'
  BY Inductive, SubjectsStep DEF LInv
<1> QED
  BY <1>1, <1>2, PTL DEF Spec

(***************************************************************************)
(* The table, the passes and the diff implement the lifecycle the timeline *)
(* promises: every change of a device is reported once, by the right       *)
(* events, in the report of the pass that found it.                        *)
(***************************************************************************)
THEOREM ImplementsTimeline == Spec => ImplementsLifecycle
<1>1. Init => Timeline!Init
  BY DEF Init, Timeline!Init, Life, Holding, InUse, ZeroDevice
<1>2. ASSUME LInv, MacIsKey', [Next]_vars
      PROVE  [Timeline!Next]_<<Lives, fresh>>
  <2>1. Lives = [m \in MAC |-> Life(m)]
    BY DEF Lives
  <2>2. CASE Tick \/ discovery_trigger_now \/ drain_replies \/ run_pass
             \/ Wake \/ UNCHANGED vars
    BY <1>2, <2>2, QuietStep
  <2>3. CASE Restart
    <3>1. \A m \in MAC : Life(m)' = "unseen"
      BY <2>3 DEF Restart, Life, Holding, InUse, ZeroDevice
    <3>2. Timeline!Reboot
      BY <2>3, <3>1 DEF Restart, Timeline!Reboot
    <3> QED
      BY <3>2 DEF Timeline!Next
  <2>4. ASSUME NEW i \in Slot, DiffNew(i) \/ DiffKnown(i)
        PROVE  [Timeline!Next]_<<Lives, fresh>>
    <3>1. devices[i].mac \in MAC
      BY <1>2, <2>4
         DEF DiffNew, DiffKnown, AtDevice, IsFirst, InUse, LInv, IInv, Rec
    <3> QED
      BY <1>2, <2>4, <3>1, AppearStep, KnownStep DEF Timeline!Next
  <2>5. CASE DiffGrowth
    BY <1>2, <2>5, GrowStep DEF Timeline!Next
  <2>6. CASE Forward
    <3>1. \A m \in MAC : Life(m)' = Life(m)
      BY <2>6 DEF Forward, Life, Holding, InUse
    <3>2. Timeline!Forward
      BY <2>6, <3>1 DEF Forward, Timeline!Forward
    <3> QED
      BY <3>2 DEF Timeline!Next
  <2> QED
    BY <1>2, <2>2, <2>3, <2>4, <2>5, <2>6
       DEF Next, Environment, discovery_task, anomaly_run
<1>3. LInv /\ LInv' /\ [Next]_vars
        => [Timeline!Next]_<<[m \in MAC |-> Life(m)], fresh>>
  BY <1>2 DEF LInv, IInv, Lives
<1> QED
  BY <1>1, <1>3, LifecycleInvariance, PTL
     DEF Spec, ImplementsLifecycle, Timeline!Spec, Timeline!vars
-----------------------------------------------------------------------------
(***************************************************************************)
(* Nothing appears out of nowhere.                                         *)
(*                                                                         *)
(* OnlyHeardAppear is about the moment the diff comes to a slot; NoArrival *)
(* is what holds of the slot from the beginning of the pass until then: if *)
(* the device has not answered, there is nothing in the record to announce.*)
(***************************************************************************)

\* The diff of this pass has yet to come to slot i.
Pending(i) == devices[i].in_use /\ (InPass \/ (pc = "diff" /\ i >= idx))

NoArrival(i) ==
  LET d == devices[i]
  IN  Pending(i) /\ d.mac \notin heard
        => d.announced /\ (d.online => d.was_online)

AInv ==
  /\ IInv
  /\ OnlyHeardAppear
  /\ \A i \in Slot : NoArrival(i)

\* A harvest may change the record of the device it hears, and no other.
LEMMA HarvestArrival ==
  ASSUME AInv, NEW m \in MAC, NEW addr \in ADDR, harvest_one(m, addr),
         NEW i \in Slot
  PROVE  NoArrival(i)'
<1>1. InPass /\ InPass' /\ heard' = heard \cup {m} /\ UNCHANGED <<pc, idx>>
  BY DEF harvest_one, InPass, diff
<1>2. CASE UNCHANGED devices
  BY <1>1, <1>2 DEF AInv, NoArrival, Pending
<1>3. ASSUME NEW s \in Slot, NEW d \in Device, FindOrAdd(devices, m, s, d),
             devices' = [devices EXCEPT ![s] = Seen(d, addr)]
      PROVE  NoArrival(i)'
  <2>1. devices \in [Slot -> Device]
    BY DEF AInv, IInv, TypeOK
  <2>2. d.mac = m
    BY <1>3 DEF FindOrAdd, IsFirst, Holding, Claimed, ZeroDevice
  <2>3. CASE i = s
    <3>1. devices'[i].mac = m
      BY <1>3, <2>1, <2>2, <2>3 DEF Seen, Device
    <3> QED
      BY <1>1, <3>1 DEF NoArrival
  <2>4. CASE i # s
    BY <1>1, <1>3, <2>1, <2>4 DEF AInv, NoArrival, Pending
  <2> QED
    BY <2>3, <2>4
<1> QED
  BY <1>2, <1>3, HarvestWrites DEF AInv, IInv

LEMMA ArrivalStep ==
  ASSUME AInv, [Next]_vars, NEW i \in Slot
  PROVE  NoArrival(i)'
<1> DEFINE d == devices[i]
<1>1. d \in Device /\ devices \in [Slot -> Device] /\ NoArrival(i) /\ Rec(i)
  BY DEF AInv, IInv, TypeOK
<1>2. CASE Tick \/ discovery_trigger_now \/ UNCHANGED vars
  BY <1>1, <1>2
     DEF Tick, discovery_trigger_now, vars, diff, history, NoArrival, Pending,
         InPass
<1>3. CASE Restart
  BY <1>3 DEF Restart, ZeroDevice, NoArrival, Pending
<1>4. CASE SkipPass \/ DiffGrowth \/ Forward \/ Wake
  BY <1>4 DEF SkipPass, DiffGrowth, Forward, Wake, NoArrival, Pending, InPass
<1>5. CASE BeginPass
  <2>1. d.in_use => Diffed(d)
    BY <1>1, <1>5 DEF BeginPass, Rec, Reported
  <2> QED
    BY <1>1, <1>5, <2>1 DEF BeginPass, Diffed, NoArrival, Pending
<1>6. CASE SweepSent \/ DrainDone \/ resolve_hostnames \/ MdnsDone
  BY <1>1, <1>6
     DEF SweepSent, DrainDone, resolve_hostnames, MdnsDone, diff, history,
         NoArrival, Pending, InPass
<1>7. CASE drain_replies
  BY <1>7, HarvestArrival DEF drain_replies
<1>8. ASSUME NEW addr \in ADDR, NEW name \in NAME,
             NEW hint \in {"computer", "iot"},
             apply_mdns_result(addr, name, hint)
      PROVE  NoArrival(i)'
  <2>1. /\ devices'[i].in_use = d.in_use
        /\ devices'[i].mac = d.mac
        /\ devices'[i].online = d.online
        /\ devices'[i].was_online = d.was_online
        /\ devices'[i].announced = d.announced
    BY <1>1, <1>8 DEF apply_mdns_result, Named, Device
  <2>2. UNCHANGED <<pc, heard, idx>>
    BY <1>8 DEF apply_mdns_result, diff, history
  <2> QED
    BY <1>1, <2>1, <2>2 DEF NoArrival, Pending, InPass
<1>9. CASE age_unseen
  <2>1. /\ devices'[i].in_use = d.in_use
        /\ devices'[i].mac = d.mac
        /\ devices'[i].was_online = d.was_online
        /\ devices'[i].announced = d.announced
        /\ \/ devices'[i].online = d.online
           \/ devices'[i].online
                = (d.online /\ d.miss_count + 1 < DISC_MISS_THRESHOLD)
    BY <1>1, <1>9 DEF age_unseen, Aged, Device
  <2>2. InPass /\ UNCHANGED heard
    BY <1>9 DEF age_unseen, InPass
  <2> QED
    BY <1>1, <2>1, <2>2 DEF NoArrival, Pending
<1>10. ASSUME NEW s \in Slot, DiffNew(s) \/ DiffKnown(s)
       PROVE  NoArrival(i)'
  <2>1. /\ pc = "diff" /\ pc' = "diff" /\ idx' = s + 1 /\ UNCHANGED heard
        /\ \A j \in Slot : devices[j].in_use /\ j >= idx => s <= j
    BY <1>10
       DEF DiffNew, DiffKnown, AtDevice, IsFirst, InUse, pass, history
  <2>2. i # s => devices'[i] = d
    BY <1>1, <1>10 DEF DiffNew, DiffKnown
  <2>3. i \in Int /\ s \in Int /\ idx \in Int
    BY DEF Slot, AInv, IInv, TypeOK
  <2>4. Pending(i)' => i # s /\ Pending(i)
    <3>1. AtDevice(s) /\ s >= idx
      BY <1>10 DEF DiffNew, DiffKnown, AtDevice, IsFirst
    <3> QED
      BY <2>1, <2>2, <2>3, <3>1 DEF Pending, InPass
  <2> QED
    BY <1>1, <2>1, <2>2, <2>4 DEF NoArrival
<1> QED
  BY <1>2, <1>3, <1>4, <1>5, <1>6, <1>7, <1>8, <1>9, <1>10
     DEF Next, Environment, discovery_task, run_pass, anomaly_run

\* What both of two sequences hold, joined they hold.
LEMMA JoinedIn ==
  ASSUME NEW s \in Seq(Reports), NEW e \in Seq(Reports), NEW T,
         \A k \in DOMAIN s : s[k] \in T, \A k \in DOMAIN e : e[k] \in T
  PROVE  \A k \in DOMAIN (s \o e) : (s \o e)[k] \in T
<1> TAKE k \in DOMAIN (s \o e)
<1>1. \/ k \in DOMAIN s /\ (s \o e)[k] = s[k]
      \/ k - Len(s) \in DOMAIN e /\ (s \o e)[k] = e[k - Len(s)]
  BY ConcatProperties, LenProperties
<1> QED
  BY <1>1

\* The events a report may hold when hosts is what the pass has harvested.
Justified(hosts) ==
  {e \in Reports :
     e.type \notin {"DEVICE_MISSING", "DEVICE_GROWTH"} => e.mac \in hosts}

LEMMA AppearedStep ==
  ASSUME AInv, TypeOK', [Next]_vars
  PROVE  OnlyHeardAppear'
<1>1. CASE pc' \notin {"diff", "forward"}
  BY <1>1, ClockStep DEF AInv, Phases, OnlyHeardAppear
<1>2. CASE UNCHANGED <<fresh, heard>>
  BY <1>2 DEF AInv, OnlyHeardAppear
<1>3. fresh \in Seq(Reports) /\ \A k \in DOMAIN fresh : fresh[k] \in Reports
  BY ElementOfSeq, LenProperties DEF AInv, IInv, TypeOK, Reports
<1>4. \A k \in DOMAIN fresh : fresh[k] \in Justified(heard)
  BY <1>3 DEF AInv, OnlyHeardAppear, Justified
<1>5. ASSUME NEW e \in Seq(Reports), fresh' = fresh \o e, UNCHANGED heard,
             \A k \in DOMAIN e : e[k] \in Justified(heard)
      PROVE  OnlyHeardAppear'
  <2>1. \A k \in DOMAIN fresh' : fresh'[k] \in Justified(heard)
    <3> HIDE DEF Reports, Justified
    <3> QED
      BY <1>3, <1>4, <1>5, JoinedIn
  <2> QED
    BY <1>5, <2>1 DEF OnlyHeardAppear, Justified
<1>6. ASSUME NEW i \in Slot, DiffNew(i) PROVE OnlyHeardAppear'
  <2>1. PICK v : fresh' = fresh \o Announcement(devices[i].mac, v)
    BY <1>6 DEF DiffNew, inv_log_event
  <2>2. /\ devices[i].mac \in MAC /\ devices[i].mac \in heard
        /\ UNCHANGED heard
    BY <1>6
       DEF DiffNew, AtDevice, IsFirst, InUse, AInv, IInv, Rec, NoArrival,
           Pending, history
  <2>3. Announcement(devices[i].mac, v) \in Seq(Reports)
    BY <2>2, AnnouncementType
  <2>4. \A k \in DOMAIN Announcement(devices[i].mac, v) :
          Announcement(devices[i].mac, v)[k] \in Justified(heard)
    <3> HIDE DEF Reports
    <3>1. \A k \in DOMAIN Announcement(devices[i].mac, v) :
            Announcement(devices[i].mac, v)[k] \in Reports
      BY <2>3, ElementOfSeq, LenProperties
    <3> QED
      BY <2>2, <3>1, AnnouncementType DEF Justified
  <2> QED
    BY <1>5, <2>1, <2>2, <2>3, <2>4
<1>7. ASSUME NEW i \in Slot, DiffKnown(i) PROVE OnlyHeardAppear'
  <2> DEFINE d == devices[i]
  <2>1. /\ fresh' = fresh \o Transition(d)
        /\ UNCHANGED heard
    BY <1>7 DEF DiffKnown, inv_log_event, history
  <2>2. /\ d \in Device /\ d.mac \in MAC
        /\ ~d.was_online /\ d.online => d.mac \in heard
    BY <1>7
       DEF DiffKnown, AtDevice, IsFirst, InUse, AInv, IInv, Rec, TypeOK,
           NoArrival, Pending
  <2>3. Transition(d) \in Seq(Reports)
    BY <2>2, TransitionType
  <2>4. \A k \in DOMAIN Transition(d) : Transition(d)[k] \in Justified(heard)
    <3>1. /\ Event("DEVICE_MISSING", d.mac) \in Justified(heard)
          /\ d.mac \in heard
               => Event("DEVICE_RETURNED", d.mac) \in Justified(heard)
      BY <2>2 DEF Justified, Event, Reports, EventType
    <3> QED
      BY <2>2, <3>1 DEF Transition
  <2> HIDE DEF d
  <2> QED
    BY <1>5, <2>1, <2>3, <2>4
<1>8. CASE DiffGrowth
  <2> DEFINE g    == Event("DEVICE_GROWTH", NONE)
             e(c) == When(c, g)
  <2>1. \/ fresh' = fresh
        \/ \E c : fresh' = fresh \o e(c)
    BY <1>8, Zenon DEF DiffGrowth, inv_log_event
  <2>2. UNCHANGED heard
    BY <1>8 DEF DiffGrowth, history
  <2>3. \A c : e(c) \in Seq(Reports)
              /\ \A k \in DOMAIN e(c) : e(c)[k] \in Justified(heard)
    <3>1. g \in Reports /\ g \in Justified(heard)
      BY DEF Event, Reports, EventType, Justified
    <3> HIDE DEF g, Reports
    <3>2. /\ <<g>> \in Seq(Reports)
          /\ \A k \in DOMAIN <<g>> : <<g>>[k] \in Justified(heard)
      BY <3>1
    <3>3. /\ <<>> \in Seq(Reports)
          /\ \A k \in DOMAIN <<>> : <<>>[k] \in Justified(heard)
      OBVIOUS
    <3> QED
      BY <3>2, <3>3 DEF When
  <2> HIDE DEF e
  <2> QED
    BY <1>2, <1>5, <2>1, <2>2, <2>3
<1>9. CASE age_unseen
  BY <1>9 DEF age_unseen, AInv, IInv, Phases, OnlyHeardAppear
<1> QED
  BY <1>1, <1>2, <1>6, <1>7, <1>8, <1>9
     DEF Next, Environment, Tick, discovery_trigger_now, Restart, vars,
         drain_replies, harvest_one, discovery_task, run_pass, anomaly_run,
         SkipPass, BeginPass, SweepSent, DrainDone, resolve_hostnames,
         apply_mdns_result, MdnsDone, Forward, Wake, diff, history

(***************************************************************************)
(* Nothing appears out of nowhere: a device is reported new or returned    *)
(* only by the pass that harvested a reply of it.                          *)
(***************************************************************************)
THEOREM NoFalseArrival == Spec => []OnlyHeardAppear
<1>1. Init => AInv
  <2>1. Init => \A i \in Slot : NoArrival(i)
    BY DEF Init, NoArrival, Pending, ZeroDevice
  <2> QED
    BY <2>1, Initial DEF Init, AInv, OnlyHeardAppear
<1>2. AInv /\ [Next]_vars => AInv'
  <2> SUFFICES ASSUME AInv, [Next]_vars PROVE AInv'
    OBVIOUS
  <2>1. IInv'
    BY Inductive DEF AInv
  <2>2. OnlyHeardAppear'
    BY <2>1, AppearedStep DEF IInv
  <2>3. \A i \in Slot : NoArrival(i)'
    BY ArrivalStep
  <2> QED
    BY <2>1, <2>2, <2>3 DEF AInv
<1>3. AInv => OnlyHeardAppear
  BY DEF AInv
<1> QED
  BY <1>1, <1>2, <1>3, PTL DEF Spec

(***************************************************************************)
(* What the timeline last said of a device is true of its host: missing    *)
(* after DISC_MISS_THRESHOLD silent passes, and not there for longer if it *)
(* is called present.                                                      *)
(***************************************************************************)
THEOREM TimelineTrue == Spec => []TimelineIsTrue
<1>1. IInv => TimelineIsTrue
  <2> SUFFICES ASSUME IInv, Reported, NEW m \in MAC
               PROVE  /\ Life(m) = "absent" => silent[m] >= DISC_MISS_THRESHOLD
                      /\ Life(m) = "present" => silent[m] <= DISC_MISS_THRESHOLD
    BY DEF TimelineIsTrue, Reported
  <2>1. CASE Life(m) = "unseen"
    BY <2>1
  <2>2. CASE Life(m) # "unseen"
    <3>1. PICK i \in Slot : devices[i].in_use /\ devices[i].mac = m
      BY <2>2 DEF Life, Holding, InUse
    <3> DEFINE d == devices[i]
    <3>2. /\ Verdict(d) /\ Untouched(d, now) /\ Diffed(d)
          /\ d.miss_count \in Nat /\ silent[m] \in Nat
          /\ d.online \in BOOLEAN /\ d.was_online \in BOOLEAN
      BY <3>1 DEF IInv, Rec, InPass, Reported, TypeOK, Device
    <3>3. Life(m) = IF d.online THEN "present" ELSE "absent"
      BY <3>1, <3>2, LifeIs DEF IInv, Diffed
    <3>4. DISC_MISS_THRESHOLD \in Nat
      BY DiscoveryAssumption
    <3> QED
      BY <3>1, <3>2, <3>3, <3>4 DEF Verdict, Untouched
  <2> QED
    BY <2>1, <2>2
<1> QED
  BY <1>1, Invariance, PTL
-----------------------------------------------------------------------------
(***************************************************************************)
(* Discovery implements Growth, for every set of hosts, every capacity of  *)
(* the table and every growth percentage.                                  *)
(*                                                                         *)
(* Growth never raises an alarm while one is raised.  Here the alarm is an *)
(* event among others in the report, and AlarmIsLast the invariant that no *)
(* report has it before the diff is through.                               *)
(***************************************************************************)

Alarmed == \E k \in DOMAIN fresh : fresh[k].type = "DEVICE_GROWTH"

AlarmIsLast == pc = "diff" => ~Alarmed

\* No event about a device is the alarm.
LEMMA DiffRaisesNothing ==
  ASSUME IInv, ~Alarmed, NEW i \in Slot, DiffNew(i) \/ DiffKnown(i)
  PROVE  ~Alarmed'
<1> DEFINE Other == {e \in Reports : e.type # "DEVICE_GROWTH"}
           d     == devices[i]
<1>1. d \in Device /\ d.mac \in MAC
  BY DEF DiffNew, DiffKnown, AtDevice, IsFirst, InUse, IInv, Rec, TypeOK
<1>2. PICK e \in Seq(Reports) :
        /\ fresh' = fresh \o e
        /\ \A k \in DOMAIN e : e[k].type # "DEVICE_GROWTH"
  <2>1. CASE DiffNew(i)
    <3>1. PICK v : fresh' = fresh \o Announcement(d.mac, v)
      BY <2>1 DEF DiffNew, inv_log_event
    <3> HIDE DEF Reports
    <3> QED
      BY <1>1, <3>1, AnnouncementType
  <2>2. CASE DiffKnown(i)
    <3>1. Transition(d) \in Seq(Reports)
      BY <1>1, TransitionType
    <3>2. \A k \in DOMAIN Transition(d) : Transition(d)[k].type # "DEVICE_GROWTH"
      BY DEF Transition, Event
    <3> QED
      BY <2>2, <3>1, <3>2 DEF DiffKnown, inv_log_event
  <2> QED
    BY <2>1, <2>2
<1>3. fresh \in Seq(Reports)
  BY DEF IInv, TypeOK, Reports
<1>4. \A s \in Seq(Reports) :
        (\A k \in DOMAIN s : s[k].type # "DEVICE_GROWTH")
          <=> \A k \in DOMAIN s : s[k] \in Other
  <2> HIDE DEF Reports
  <2>1. \A s \in Seq(Reports) : \A k \in DOMAIN s : s[k] \in Reports
    BY ElementOfSeq, LenProperties
  <2> QED
    BY <2>1
<1>5. fresh' \in Seq(Reports)
  BY <1>2, <1>3, ConcatProperties
<1> HIDE DEF Reports, Other
<1>6. \A k \in DOMAIN fresh : fresh[k] \in Other
  BY <1>3, <1>4 DEF Alarmed
<1>7. \A k \in DOMAIN fresh' : fresh'[k] \in Other
  BY <1>2, <1>3, <1>4, <1>6, JoinedIn
<1> QED
  BY <1>4, <1>5, <1>7 DEF Alarmed

\* The event at the end of a report is there if its condition holds.
LEMMA AlarmWhen ==
  ASSUME NEW s \in Seq(Reports), NEW c,
         \A k \in DOMAIN s : s[k].type # "DEVICE_GROWTH"
  PROVE  LET t == s \o When(c, Event("DEVICE_GROWTH", NONE))
         IN  (\E k \in DOMAIN t : t[k].type = "DEVICE_GROWTH") <=> c
<1> DEFINE g == Event("DEVICE_GROWTH", NONE)
<1>1. g \in Reports /\ g.type = "DEVICE_GROWTH"
  BY DEF Event, Reports, EventType
<1> HIDE DEF g, Reports
<1>2. CASE c
  <2>1. s \o When(c, g) = Append(s, g)
    BY <1>1, <1>2, AppendIsConcat DEF When
  <2>2. /\ Len(s) + 1 \in DOMAIN Append(s, g)
        /\ Append(s, g)[Len(s) + 1] = g
    BY <1>1
  <2> QED
    BY <1>1, <1>2, <2>1, <2>2 DEF g
<1>3. CASE ~c
  <2>1. s \o When(c, g) = s
    BY <1>3, ConcatEmptySeq DEF When
  <2> QED
    BY <1>3, <2>1 DEF g
<1> QED
  BY <1>2, <1>3

LEMMA AlarmStep ==
  ASSUME IInv, AlarmIsLast, DiffGrowth
  PROVE  Alarm!GrowthDetection
<1> DEFINE n == inv_count_online(devices)
           c == anomaly_is_growth(baseline, n)
<1>1. inv_count_online(devices') = n
  BY DEF DiffGrowth
<1>2. ~Alarmed /\ fresh \in Seq(Reports) /\ primed' = TRUE
  BY DEF DiffGrowth, AlarmIsLast, IInv, TypeOK, Reports
<1>3. /\ Alarm!TrackBaseline(baseline, n) = TrackBaseline(baseline, n)
      /\ Alarm!anomaly_is_growth(baseline, n) = c
  BY DEF Alarm!TrackBaseline, TrackBaseline, Alarm!Quarter, Quarter,
         Alarm!anomaly_is_growth, anomaly_is_growth
<1>4. CASE primed
  <2>1. /\ fresh' = fresh \o When(c, Event("DEVICE_GROWTH", NONE))
        /\ baseline' = TrackBaseline(baseline, n)
    BY <1>4 DEF DiffGrowth, inv_log_event
  <2>2. Alarmed' <=> c
    <3> HIDE DEF c, Reports
    <3> QED
      BY <1>2, <2>1, AlarmWhen DEF Alarmed
  <2>3. c \in BOOLEAN
    BY DEF anomaly_is_growth
  <2> HIDE DEF n, c
  <2> QED
    BY <1>1, <1>2, <1>3, <1>4, <2>1, <2>2, <2>3
       DEF Alarm!GrowthDetection, Alarmed, n
<1>5. CASE ~primed
  <2>1. baseline' = n /\ fresh' = fresh
    BY <1>5 DEF DiffGrowth
  <2> QED
    BY <1>1, <1>2, <1>5, <2>1 DEF Alarm!GrowthDetection, Alarmed
<1> QED
  BY <1>4, <1>5, <1>2 DEF IInv, TypeOK

LEMMA AlarmIsLastStep ==
  ASSUME IInv, AlarmIsLast, [Next]_vars
  PROVE  AlarmIsLast'
<1>1. CASE pc' # "diff"
  BY <1>1 DEF AlarmIsLast
<1>2. CASE age_unseen
  BY <1>2 DEF age_unseen, IInv, Phases, AlarmIsLast, Alarmed
<1>3. CASE UNCHANGED <<pc, fresh>>
  BY <1>3 DEF AlarmIsLast, Alarmed
<1>4. ASSUME NEW i \in Slot, DiffNew(i) \/ DiffKnown(i) PROVE AlarmIsLast'
  <2>1. pc = "diff"
    BY <1>4 DEF DiffNew, DiffKnown, AtDevice
  <2> QED
    BY <1>4, <2>1, DiffRaisesNothing DEF AlarmIsLast
<1> QED
  BY <1>1, <1>2, <1>3, <1>4
     DEF Next, Environment, Tick, discovery_trigger_now, Restart, vars,
         drain_replies, harvest_one, discovery_task, run_pass, anomaly_run,
         SkipPass, BeginPass, SweepSent, DrainDone, resolve_hostnames,
         apply_mdns_result, MdnsDone, DiffGrowth, Forward, Wake, diff

(***************************************************************************)
(* Whatever the table goes through, the baseline is the one Growth         *)
(* describes and the alarm is raised when Growth raises it: what is proved *)
(* of Growth's safety holds of the discovery task.                         *)
(***************************************************************************)
THEOREM ImplementsAlarm == Spec => ImplementsGrowth
<1> DEFINE n == inv_count_online(devices)
<1>1. Init => Alarm!Init
  BY CountOnline DEF Init, Alarm!Init, Alarm!Count
<1>2. ASSUME IInv, AlarmIsLast, [Next]_vars
      PROVE  [Alarm!Next]_(Alarm!vars)
  <2>1. inv_count_online(devices') \in Alarm!Count
    BY CountOnline DEF Alarm!Count
  <2>2. CASE UNCHANGED <<baseline, primed>> /\ (Alarmed' <=> Alarmed)
    BY <2>1, <2>2 DEF Alarm!Churn, Alarm!Next, Alarmed
  <2>3. ASSUME NEW i \in Slot, DiffNew(i) \/ DiffKnown(i)
        PROVE  UNCHANGED <<baseline, primed>> /\ (Alarmed' <=> Alarmed)
    <3>1. UNCHANGED <<baseline, primed>> /\ pc = "diff"
      BY <2>3 DEF DiffNew, DiffKnown, AtDevice
    <3> QED
      BY <1>2, <2>3, <3>1, DiffRaisesNothing DEF AlarmIsLast
  <2>4. CASE DiffGrowth
    BY <1>2, <2>4, AlarmStep DEF Alarm!Next, Alarm!discovery_task
  <2>5. CASE Forward
    <3>1. /\ UNCHANGED <<baseline, primed>> /\ ~Alarmed'
          /\ inv_count_online(devices') = n
      BY <2>5 DEF Forward, Alarmed
    <3>2. CASE Alarmed
      BY <3>1, <3>2
         DEF Alarmed, Alarm!Forward, Alarm!Next, Alarm!discovery_task
    <3> QED
      BY <2>2, <3>1, <3>2
  <2>6. CASE Restart
    <3>1. inv_count_online(devices') = 0
      <4>1. Online(devices') = {}
        BY <2>6 DEF Restart, Online, InUse, ZeroDevice
      <4> QED
        BY <4>1, FS_EmptySet DEF inv_count_online
    <3> QED
      BY <2>6, <3>1 DEF Restart, Alarm!Restart, Alarm!Next
  <2>7. CASE Tick \/ discovery_trigger_now \/ drain_replies \/ run_pass
             \/ Wake \/ UNCHANGED vars
    <3>1. UNCHANGED <<baseline, primed, fresh>>
      BY <2>7
         DEF Tick, discovery_trigger_now, drain_replies, harvest_one, run_pass,
             SkipPass, BeginPass, SweepSent, DrainDone, resolve_hostnames,
             apply_mdns_result, MdnsDone, age_unseen, Wake, diff, vars
    <3> QED
      BY <2>2, <3>1 DEF Alarmed
  <2> QED
    BY <1>2, <2>2, <2>3, <2>4, <2>5, <2>6, <2>7
       DEF Next, Environment, discovery_task, anomaly_run
<1>3. Init => AlarmIsLast
  BY DEF Init, AlarmIsLast
<1>4. IInv /\ AlarmIsLast /\ [Next]_vars => AlarmIsLast'
  BY AlarmIsLastStep
<1> HIDE DEF AlarmIsLast
<1> QED
  BY <1>1, <1>2, <1>3, <1>4, Invariance, PTL
     DEF Spec, ImplementsGrowth, Alarm!Safety
=============================================================================
