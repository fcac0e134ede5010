------------------------------ MODULE Discovery ------------------------------
(***************************************************************************)
(* The discovery task of main/discovery.c and the anomaly diff of          *)
(* main/anomaly.c it calls when a pass completes: run_pass() sweeps the    *)
(* subnet and harvests who answers, asks mDNS for names, ages who did not  *)
(* answer, and hands over to on_scan_complete().                           *)
(*                                                                         *)
(* The task is the only writer of the device table.  Each critical section *)
(* (inv_lock .. inv_unlock) of it is one action, except the long one of    *)
(* anomaly_run, which is one action per iteration of its loop.  Time is    *)
(* esp_timer_get_time() in whole seconds, the unit of every comparison the *)
(* code makes, and passes between any two actions.                         *)
(***************************************************************************)
EXTENDS Inventory, Anomaly, Sequences

CONSTANTS
  Listed,               \* MACs whose OUI is in the vendor database
  ALERT_RANDOMIZED,     \* s_cfg.alert_randomized
  DISC_SCAN_INTERVAL,   \* seconds between passes
  DISC_PING_TIMEOUT,    \* seconds of the final drain
  DISC_MISS_THRESHOLD,  \* missed passes before a device is offline
  MAX_UPTIME            \* bound: seconds modelled between two power cycles

ASSUME DiscoveryAssumption ==
  /\ Listed \subseteq MAC \ Randomized
  /\ ALERT_RANDOMIZED \in BOOLEAN
  /\ DISC_SCAN_INTERVAL \in Nat \ {0}
  /\ DISC_PING_TIMEOUT \in Nat \ {0}
  /\ DISC_MISS_THRESHOLD \in Nat \ {0}
  /\ MAX_UPTIME \in Nat
  /\ UINT32 > INV_MAX_DEVICES

VARIABLES
  now,       \* seconds since boot
  trigger,   \* BIT_TRIGGER_NOW of s_events
  pc,        \* where the discovery task is
  t0,        \* run_pass: second the pass started in
  deadline,  \* second at which the current wait or drain may end
  idx,       \* anomaly_run: the cursor of inv_next()
  is_night,  \* anomaly_run: the wall clock is in the quiet hours
  devices,   \* s_devices
  baseline,  \* s_baseline_online
  primed,    \* s_baseline_primed
  fresh,     \* what anomaly_run logged and on_scan_complete has yet to forward
  heard,     \* history: MACs harvested in this pass, until it is reported
  silent     \* history: passes completed since each MAC was last harvested

pass    == <<t0, deadline>>
diff    == <<idx, is_night, baseline, primed, fresh>>
history == <<heard, silent>>
vars    == <<now, trigger, pc, pass, diff, devices, history>>

PC == {"start", "sweep", "drain", "resolve", "mdns", "age",
       "diff", "forward", "wait"}

EventType == {"NEW_DEVICE", "NIGHT_ACTIVITY", "UNKNOWN_VENDOR",
              "DEVICE_MISSING", "DEVICE_RETURNED", "DEVICE_GROWTH"}

Event(type, m) == [type |-> type, mac |-> m]

-----------------------------------------------------------------------------
(* The clock, the dashboard button and the power supply.                   *)

Tick ==
  /\ now < MAX_UPTIME
  /\ now' = now + 1
  /\ UNCHANGED <<trigger, pc, pass, diff, devices, history>>

\* POST /api/scan, from the task of the HTTP server, at any moment.
discovery_trigger_now ==
  /\ trigger' = TRUE
  /\ UNCHANGED <<now, pc, pass, diff, devices, history>>

\* What inventory_init(), anomaly_init() and discovery_start() leave behind.
Init ==
  /\ now = 0
  /\ trigger = FALSE
  /\ pc = "start"
  /\ t0 = 0 /\ deadline = 0
  /\ idx = 0 /\ is_night = FALSE
  /\ devices = [i \in Slot |-> ZeroDevice]
  /\ baseline = 0 /\ primed = FALSE
  /\ fresh = <<>>
  /\ heard = {}
  /\ silent = [m \in MAC |-> 0]

\* A power cycle, a panic or esp_restart(): nothing is persisted, so all the
\* state is as after the first boot.
Restart ==
  /\ now' = 0
  /\ trigger' = FALSE
  /\ pc' = "start"
  /\ t0' = 0 /\ deadline' = 0
  /\ idx' = 0 /\ is_night' = FALSE
  /\ devices' = [i \in Slot |-> ZeroDevice]
  /\ baseline' = 0 /\ primed' = FALSE
  /\ fresh' = <<>>
  /\ heard' = {}
  /\ silent' = [m \in MAC |-> 0]

-----------------------------------------------------------------------------
(* run_pass().                                                             *)

\* No address yet or no raw socket: the early returns, before anything ages.
SkipPass ==
  /\ pc = "start"
  /\ pc' = "wait"
  /\ deadline' = now + DISC_SCAN_INTERVAL
  /\ UNCHANGED <<now, trigger, t0, diff, devices, history>>

BeginPass ==
  /\ pc = "start"
  /\ pc' = "sweep"
  /\ t0' = now
  /\ UNCHANGED <<now, trigger, deadline, diff, devices, history>>

\* Mutant of SweepSent: no time for stragglers.
SweepSentNoDrain ==
  /\ pc = "sweep"
  /\ pc' = "drain"
  /\ deadline' = now
  /\ UNCHANGED <<now, trigger, t0, diff, devices, history>>

\* All echo requests are sent: the final drain begins.
SweepSent ==
  /\ pc = "sweep"
  /\ pc' = "drain"
  /\ deadline' = now + DISC_PING_TIMEOUT
  /\ UNCHANGED <<now, trigger, t0, diff, devices, history>>

\* Mutant of Seen: the misses of earlier passes are kept.
SeenKeepsMisses(d, addr) ==
  [d EXCEPT !.ip = addr, !.last_seen = now, !.online = TRUE]

\* What harvest_one() writes into the record of the host that answered.
Seen(d, addr) ==
  [d EXCEPT !.ip         = addr,
            !.last_seen  = now,
            !.online     = TRUE,
            !.miss_count = 0]

\* A drain receives an echo reply from addr; the ARP cache maps addr to m.
harvest_one(m, addr) ==
  /\ pc \in {"sweep", "drain"}
  /\ heard' = heard \cup {m}
  /\ \/ \E s \in Slot, d \in {devices[i] : i \in Slot} \cup {Claimed(m)} :
          /\ FindOrAdd(devices, m, s, d)
          /\ devices' = [devices EXCEPT ![s] = Seen(d, addr)]
     \/ TableFullFor(devices, m) /\ UNCHANGED devices
  /\ UNCHANGED <<now, trigger, pc, pass, diff, silent>>

DrainDone ==
  /\ pc = "drain"
  /\ now >= deadline
  /\ pc' = "resolve"
  /\ UNCHANGED <<now, trigger, pass, diff, devices, history>>

\* resolve_hostnames() queries mDNS only if an online device has no name.
resolve_hostnames ==
  /\ pc = "resolve"
  /\ pc' = IF \E i \in Online(devices) : devices[i].hostname = NONE
             THEN "mdns" ELSE "age"
  /\ UNCHANGED <<now, trigger, pass, diff, devices, history>>

Named(d, name, hint) ==
  [d EXCEPT !.hostname  = IF @ = NONE THEN name ELSE @,
            !.dev_class = IF @ = "unknown" THEN hint ELSE @]

\* An mDNS answer to a probe of class hint gives the host at addr a name: the
\* first slot that records addr takes it.
apply_mdns_result(addr, name, hint) ==
  /\ pc = "mdns"
  /\ \E i \in Slot :
       /\ IsFirst(i, {j \in InUse(devices) : devices[j].ip = addr})
       /\ devices' = [devices EXCEPT ![i] = Named(@, name, hint)]
  /\ UNCHANGED <<now, trigger, pc, pass, diff, history>>

MdnsDone ==
  /\ pc = "mdns"
  /\ pc' = "age"
  /\ UNCHANGED <<now, trigger, pass, diff, devices, history>>

Aged(d) ==
  IF d.in_use /\ d.last_seen < t0
    THEN [d EXCEPT !.miss_count = @ + 1,
                   !.online = @ /\ d.miss_count + 1 < DISC_MISS_THRESHOLD]
    ELSE d

\* age_unseen() ends the pass proper; s_on_done() enters anomaly_run(), which
\* reads the wall clock once, before it takes the lock.
age_unseen ==
  /\ pc = "age"
  /\ devices' = [i \in Slot |-> Aged(devices[i])]
  /\ silent' = [m \in MAC |-> IF m \in heard THEN 0 ELSE silent[m] + 1]
  /\ pc' = "diff"
  /\ idx' = 0
  /\ is_night' \in BOOLEAN
  /\ UNCHANGED <<now, trigger, pass, baseline, primed, fresh, heard>>

-----------------------------------------------------------------------------
(* anomaly_run(): one action per device, then the growth test.             *)

\* inv_next() stops at slot i.
AtDevice(i) ==
  /\ pc = "diff"
  /\ IsFirst(i, {j \in InUse(devices) : j >= idx})

inv_log_event(events) == fresh' = fresh \o events

oui_lookup(m) ==
  IF mac_is_randomized(m) THEN "Randomized (private)"
  ELSE IF m \in Listed THEN "listed" ELSE "Unknown"

announce(m) == ~mac_is_randomized(m) \/ ALERT_RANDOMIZED

When(condition, event) == IF condition THEN <<event>> ELSE <<>>

\* The events a device that appears is worth.
Announcement(m, vendor) ==
  IF ~announce(m) THEN <<>>
  ELSE <<Event("NEW_DEVICE", m)>>
       \o (When(is_night, Event("NIGHT_ACTIVITY", m))
           \o When(~mac_is_randomized(m) /\ vendor = "Unknown",
                   Event("UNKNOWN_VENDOR", m)))

\* Mutant of DiffNew: the state the next diff compares with is not recorded.
DiffNewForgets(i) ==
  LET d      == devices[i]
      vendor == IF announce(d.mac) /\ d.vendor = NONE THEN oui_lookup(d.mac)
                                                      ELSE d.vendor
  IN  /\ AtDevice(i)
      /\ ~d.announced /\ d.online
      /\ inv_log_event(Announcement(d.mac, vendor))
      /\ devices' = [devices EXCEPT ![i].vendor    = vendor,
                                    ![i].announced = TRUE]
      /\ idx' = i + 1
      /\ UNCHANGED <<now, trigger, pc, pass, is_night, baseline, primed,
                     history>>

DiffNew(i) ==
  LET d      == devices[i]
      vendor == IF announce(d.mac) /\ d.vendor = NONE THEN oui_lookup(d.mac)
                                                      ELSE d.vendor
  IN  /\ AtDevice(i)
      /\ ~d.announced /\ d.online
      /\ inv_log_event(Announcement(d.mac, vendor))
      /\ devices' = [devices EXCEPT ![i].vendor     = vendor,
                                    ![i].announced  = TRUE,
                                    ![i].was_online = TRUE]
      /\ idx' = i + 1
      /\ UNCHANGED <<now, trigger, pc, pass, is_night, baseline, primed,
                     history>>

\* Every other device: the transition since the last diff is the event.
Transition(d) ==
  IF d.was_online /\ ~d.online THEN <<Event("DEVICE_MISSING", d.mac)>>
  ELSE IF ~d.was_online /\ d.online THEN <<Event("DEVICE_RETURNED", d.mac)>>
  ELSE <<>>

\* Mutant of DiffKnown: the state of the last diff is never updated.
DiffKnownForgets(i) ==
  /\ AtDevice(i)
  /\ devices[i].announced \/ ~devices[i].online
  /\ inv_log_event(Transition(devices[i]))
  /\ idx' = i + 1
  /\ UNCHANGED <<now, trigger, pc, pass, is_night, baseline, primed,
                 devices, history>>

\* Mutant of DiffKnown: the cursor is advanced twice, by inv_next() and by
\* the loop, and the diff skips the next device.
DiffKnownSkips(i) ==
  LET d == devices[i]
  IN  /\ AtDevice(i)
      /\ d.announced \/ ~d.online
      /\ inv_log_event(Transition(d))
      /\ devices' = [devices EXCEPT ![i].was_online = d.online]
      /\ idx' = i + 2
      /\ UNCHANGED <<now, trigger, pc, pass, is_night, baseline, primed,
                     history>>

DiffKnown(i) ==
  LET d == devices[i]
  IN  /\ AtDevice(i)
      /\ d.announced \/ ~d.online
      /\ inv_log_event(Transition(d))
      /\ devices' = [devices EXCEPT ![i].was_online = d.online]
      /\ idx' = i + 1
      /\ UNCHANGED <<now, trigger, pc, pass, is_night, baseline, primed,
                     history>>

\* Mutant of DiffGrowth: the first pass does not record the count.
DiffGrowthUncounted ==
  LET online_now == inv_count_online(devices)
  IN  /\ pc = "diff"
      /\ \A j \in InUse(devices) : j < idx
      /\ primed' = TRUE
      /\ inv_log_event(When(primed /\ anomaly_is_growth(baseline, online_now),
                            Event("DEVICE_GROWTH", NONE)))
      /\ baseline' = IF primed THEN TrackBaseline(baseline, online_now)
                               ELSE baseline
      /\ pc' = "forward"
      /\ t0' = 0 /\ deadline' = 0 /\ idx' = 0 /\ is_night' = FALSE
      /\ UNCHANGED <<now, trigger, devices, history>>

\* No slot is left: growth detection, then inv_unlock().  The locals of the
\* two functions that return here go out of scope.
DiffGrowth ==
  LET online_now == inv_count_online(devices)
  IN  /\ pc = "diff"
      /\ \A j \in InUse(devices) : j < idx
      /\ primed' = TRUE
      /\ IF primed
           THEN /\ inv_log_event(When(anomaly_is_growth(baseline, online_now),
                                      Event("DEVICE_GROWTH", NONE)))
                /\ baseline' = TrackBaseline(baseline, online_now)
           ELSE /\ baseline' = online_now
                /\ UNCHANGED fresh
      /\ pc' = "forward"
      /\ t0' = 0 /\ deadline' = 0 /\ idx' = 0 /\ is_night' = FALSE
      /\ UNCHANGED <<now, trigger, devices, history>>

\* The rest of on_scan_complete(): the new events go to the notifier, and the
\* task waits for the interval or the button.
Forward ==
  /\ pc = "forward"
  /\ fresh' = <<>>
  /\ pc' = "wait"
  /\ deadline' = now + DISC_SCAN_INTERVAL
  /\ heard' = {}
  /\ UNCHANGED <<now, trigger, t0, idx, is_night, baseline, primed,
                 devices, silent>>

\* xEventGroupWaitBits() returns: the bit is set, or the interval is over.
Wake ==
  /\ pc = "wait"
  /\ trigger \/ now >= deadline
  /\ trigger' = FALSE
  /\ pc' = "start"
  /\ deadline' = 0
  /\ UNCHANGED <<now, t0, diff, devices, history>>

-----------------------------------------------------------------------------
Environment ==
  \/ Tick
  \/ discovery_trigger_now
  \/ Restart

drain_replies == \E m \in MAC, addr \in ADDR : harvest_one(m, addr)

\* The steps of a pass other than the harvest of a reply.
run_pass ==
  \/ SkipPass
  \/ BeginPass
  \/ SweepSent
  \/ DrainDone
  \/ resolve_hostnames
  \/ \E addr \in ADDR, name \in NAME, hint \in {"computer", "iot"} :
       apply_mdns_result(addr, name, hint)
  \/ MdnsDone
  \/ age_unseen

anomaly_run ==
  \/ \E i \in Slot : DiffNew(i) \/ DiffKnown(i)
  \/ DiffGrowth

discovery_task == run_pass \/ anomaly_run \/ Forward \/ Wake

Next == Environment \/ drain_replies \/ discovery_task

Spec == Init /\ [][Next]_vars

-----------------------------------------------------------------------------
(* Type and safety.                                                        *)

TypeOK ==
  /\ now \in 0 .. MAX_UPTIME
  /\ trigger \in BOOLEAN
  /\ pc \in PC
  /\ t0 \in 0 .. MAX_UPTIME
  /\ deadline \in Nat
  /\ idx \in 0 .. INV_MAX_DEVICES
  /\ is_night \in BOOLEAN
  /\ devices \in [Slot -> Device]
  /\ baseline \in 0 .. INV_MAX_DEVICES
  /\ primed \in BOOLEAN
  /\ fresh \in Seq([type : EventType, mac : MAC \cup {NONE}])
  /\ heard \subseteq MAC
  /\ silent \in [MAC -> Nat]

(***************************************************************************)
(* MAC is the primary key: no two slots hold the same MAC, whatever        *)
(* addresses its host answers from and however full the table is           *)
(* (inv_find_or_add).                                                      *)
(***************************************************************************)
MacIsKey ==
  \A i, j \in InUse(devices) : devices[i].mac = devices[j].mac => i = j

(***************************************************************************)
(* No false alarm: the report calls a device missing only if none of the   *)
(* last DISC_MISS_THRESHOLD completed passes harvested it.  It takes       *)
(* harvest_one, age_unseen and anomaly_run to agree over several passes.   *)
(***************************************************************************)
MissingIsSilent ==
  \A k \in DOMAIN fresh :
    fresh[k].type = "DEVICE_MISSING"
      => silent[fresh[k].mac] >= DISC_MISS_THRESHOLD

(***************************************************************************)
(* No alarm is late by more than one pass: between passes, a device that   *)
(* missed more than DISC_MISS_THRESHOLD completed passes is offline.  The  *)
(* extra pass is real: last_seen and pass_start are whole seconds, so a    *)
(* pass that starts in the second of a reply to the previous one takes     *)
(* that reply for its own.  That it is never two rests on the final drain  *)
(* lasting a second or more.                                               *)
(***************************************************************************)
GoneIsOffline ==
  \A i \in InUse(devices) :
    pc \in {"diff", "forward", "wait", "start"}
      /\ silent[devices[i].mac] > DISC_MISS_THRESHOLD => ~devices[i].online

(***************************************************************************)
(* Nothing appears out of nowhere: a report calls a device new or returned *)
(* only if this very pass harvested it.  online is set by harvest_one and  *)
(* cleared, passes later, by age_unseen; was_online and announced are set  *)
(* by anomaly_run.  Were they ever out of step after a diff, the next      *)
(* would report a change that no reply has caused.                         *)
(***************************************************************************)
OnlyHeardAppear ==
  \A k \in DOMAIN fresh :
    fresh[k].type \notin {"DEVICE_MISSING", "DEVICE_GROWTH"}
      => fresh[k].mac \in heard

(***************************************************************************)
(* A device is announced before it can go offline: discovery adds it       *)
(* online, and the diff of the same pass announces it before any pass can  *)
(* age it to the threshold.                                                *)
(***************************************************************************)
UnannouncedIsOnline ==
  \A i \in InUse(devices) : ~devices[i].announced => devices[i].online

(***************************************************************************)
(* Between passes nothing is left to report: every device the dashboard    *)
(* lists was announced, and its online flag is the one of the last diff.   *)
(***************************************************************************)
Settled ==
  pc \in {"forward", "wait", "start"} =>
    \A i \in InUse(devices) :
      /\ devices[i].announced
      /\ devices[i].was_online = devices[i].online

(***************************************************************************)
(* The table and the log together implement DeviceLifecycle: the life of a *)
(* device is read off the two flags only anomaly_run writes.               *)
(***************************************************************************)
Life(m) ==
  IF \E i \in Holding(devices, m) : devices[i].announced
    THEN IF \E i \in Holding(devices, m) : devices[i].was_online
           THEN "present" ELSE "absent"
    ELSE "unseen"

(***************************************************************************)
(* The timeline tells the truth: once a report is written, a device the    *)
(* log has last called missing was silent for DISC_MISS_THRESHOLD passes   *)
(* or more, and one it has last called new or returned was not silent for  *)
(* longer.                                                                 *)
(***************************************************************************)
TimelineIsTrue ==
  pc \in {"forward", "wait", "start"} =>
    \A m \in MAC :
      /\ Life(m) = "absent"  => silent[m] >= DISC_MISS_THRESHOLD
      /\ Life(m) = "present" => silent[m] <= DISC_MISS_THRESHOLD

Timeline == INSTANCE DeviceLifecycle
              WITH life <- [m \in MAC |-> Life(m)],
                   Suppressed <- {m \in MAC : ~announce(m)}

\* Every step of the discovery task is a step of the lifecycle of at most one
\* device, reported by the events that step logs.
ImplementsLifecycle == Timeline!Spec

(***************************************************************************)
(* The baseline and the log together implement Growth: its count is that   *)
(* of the table, and its alarm the one in the report being written.        *)
(***************************************************************************)
Alarm == INSTANCE Growth
           WITH online_now <- inv_count_online(devices),
                alarm <- \E k \in DOMAIN fresh :
                           fresh[k].type = "DEVICE_GROWTH",
                settled <- FALSE

\* Whatever hosts come and go, and however often the device restarts, each
\* pass compares the count with the baseline once, logs one alarm at most and
\* moves the baseline once.
ImplementsGrowth == Alarm!Safety
=============================================================================
