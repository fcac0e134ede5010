# HomeSentinel: specification, model checking and proofs

TLA+ modules for the firmware under `src/main`, the TLC configurations that
check them, and TLAPS proofs of what matters most. Line numbers refer to the
files under `src/main` unless a path says otherwise.

## 1. The system

HomeSentinel is one ESP32 program made of a few FreeRTOS tasks:

| task | code | what it does |
|---|---|---|
| main | `main.c`, `wifi.c` | boots: inventory, OUI database, Wi-Fi, mDNS, notifier, discovery, web server; then ends |
| event loop | `wifi.c:23` | runs `on_event()` for each event of the Wi-Fi driver |
| discovery | `discovery.c`, `anomaly.c`, `main.c:42` | makes passes for ever; after each, runs the anomaly diff and hands events to the notifier |
| notifier | `notifier.c` | takes alerts off a queue and posts them to Discord |
| HTTP server | `web.c` | serves the dashboard, the device list, the events, and the "scan now" button |

They share the device table and the event ring (under one mutex), an event
group with the trigger bit, the notifier's queue, and the event group of the
Wi-Fi station. Nothing is persisted: a restart starts from nothing.

### Inventory of components

| component | state | operations | what is hard | what makes it correct |
|---|---|---|---|---|
| device table (`inventory.c`) | 256 slots of `device_t` | find, find-or-add, iterate, count | the table fills and never empties; MAC and address are both used as keys | one slot per MAC, always |
| event log (`inventory.c`) | ring of 512, head, count | log, copy the newest | wrapping | readers see the newest events, newest first, and never an unwritten record |
| inventory lock | a mutex | lock, unlock | loops of one task interleave with the steps of another; one handler holds it while it sends to a client | readers see whole sections; nobody waits for ever |
| discovery (`discovery.c`) | phase of the pass, `pass_start`, trigger bit | sweep, harvest, drain, mDNS, age, wait, trigger | replies lost or late, times in whole seconds, button at any moment, addresses that change hands | no false alarm, no late alarm, names on the right record |
| anomaly engine (`anomaly.c`) | `announced`, `was_online` of each record; baseline | diff of each device, growth test, quiet hours | events depend on flags set many passes apart; unsigned arithmetic | each change of a device is reported once, by the right event |
| scan hook, notifier (`main.c`, `notifier.c`) | watermark; queue | copy, forward, post | copy of 64, queue of 8, POST fails; a watermark in whole seconds | at most once, in order; only stated losses |
| Wi-Fi station (`wifi.c`) | `s_retry`, event bits | connect, retry, give up | events are handled after the link has changed again | gives up only after the retries; comes back |
| OUI lookup (`oui.c`), its builder (`tools/build_oui.py`) | sorted blob in flash | pack, map, binary search | boundaries; two programs must agree on the order | finds exactly what is listed and fits |
| web server (`web.c`) | none | five handlers | holds the inventory lock; fixed buffers | answers every request with what the inventory held at one moment |
| dashboard (`web/index.html`) | none of the system's | polls | – | – |

## 2. The modules

```
Inventory   Anomaly            device_t and the lookups; night, growth, baseline
    \        /  |   \
    Discovery --+> Growth      the discovery task and the diff | the baseline alone
    /   |       NightWindow    the quiet hours around the clock
DiscoveryLan |
          DeviceLifecycle      what the log promises of each device (abstract)
InventoryLock -> AtomicInventory   two tasks and the mutex | one-moment sections (abstract)
EventRing -> EventLog          the ring | what readers are promised (abstract)
Notifier -> AlertDelivery      scan hook, watermark, queue, POST | once, in order, or never (abstract)
WifiStation                    on_event(), the wait at boot, the restart
OuiLookup                      the blob's builder and the binary search in it
SubnetSweep                    whom a pass pings, and when it drains
JsonText                       the two loops that escape a text
MCAlgorithms                   NightWindow, OuiLookup, SubnetSweep, JsonText and EventRing, run one at a time
```

* **Inventory** – the record `device_t`, the free and used slots,
  `inv_find_or_add()` as a relation between a table, a MAC, a slot and the
  record in it. "The first slot that fits" of a C loop is the least element of
  the set of slots that fit (`IsFirst`).
* **Anomaly** – `anomaly_is_night`, `anomaly_is_growth`, and the update of
  `s_baseline_online`: C division (toward zero) and `uint32_t` addition
  (modulo `UINT32`).
* **Discovery** – `run_pass()`, `anomaly_run()`, the hook's hand-over and the
  wait, as steps of one task, among the clock, the button and the power
  supply. `pc` is where the task is:
  `start -> sweep -> drain -> resolve -> (mdns ->) age -> diff -> forward ->
  wait`, or `start -> wait` if there is no address or no socket. Each critical
  section is one action; the long one of `anomaly_run()` is one action per
  device (`DiffNew`, `DiffKnown`) and one for the growth test (`DiffGrowth`),
  so that TLC and the proofs can follow its loop; no other task writes the
  table. Any host may answer, from any address, at any moment of the sweep and
  of the final drain, any number of times or never: that covers lost, late and
  duplicated replies, and stands for the packets and the ARP cache.
  Two history variables: `heard`, who was harvested in this pass, and
  `silent`, how many passes have passed since.
* **DeviceLifecycle** – the abstract promise: each device is unseen, present
  or absent; every change is reported by one event, in the report of one pass;
  only the first appearance of a suppressed MAC is silent. Discovery
  implements it with `life` read off the flags `announced` and `was_online`.
* **DiscoveryLan** – Discovery with one more history variable, for the
  question about addresses that change hands.
* **InventoryLock** – the discovery task and the task of the HTTP server, and
  the mutex, by the name of its owner. Here no section is atomic: a loop over
  the table (`age_row`, `diff_row`, `SendLine`) is one action per slot, between
  `Enter`/`Open` and `Leave`/`Close`, and the other task may step in between.
  Of a record only what readers tell apart is kept (free, found and not yet
  described, online, offline); which devices change, Discovery says, and here
  it is any of them. The history variable `before` is what discovery found when
  it took the mutex. `expired` is the drain's budget, which runs out also while
  the task waits for the mutex.
* **AtomicInventory** – the same inventory when each section and each answer
  takes one moment. InventoryLock implements it with `table` and `logged` as
  they were `before`, while discovery holds the mutex. This is what Discovery,
  EventRing and Notifier take for granted when they make a section one action.
* **EventRing**, **EventLog** – the ring with its index arithmetic, and the
  log it implements: `log <- Contents`, the window that ends before the head.
* **Growth** – the growth alarm alone, on a free count: Discovery's tables are
  too small for its interesting cases. Discovery implements its safety part,
  with the count of the table for `online_now` and the `DEVICE_GROWTH` event of
  the report being written for `alarm`.
* **NightWindow** – the hour advances, a window is any pair of hours.
* **OuiLookup** – `pack_blob()` as the set of sequences it may return for a
  file (there is one), and `oui_lookup()` with its early returns and one action
  for each turn of the loop. An OUI is a number, a vendor the number of its row.
  `excess` is what the copy of a name takes along from behind its field.
* **SubnetSweep** – the `for` loop of `run_pass()`, on host numbers: `host_count`
  with its clamp, `continue` for the own address (`SkipSelf`), the drain after
  each host number that is a multiple of 16, and the final one.
* **JsonText** – `json_escape()` and the loop of `events_handler()`, which
  differ in what they do with control characters. A text is a sequence of four
  kinds of characters. `Parse` is what a JSON parser makes of the result: an
  automaton run along the text (`After`). `Printable` is a text without what
  the loop drops.
* **Notifier** – `on_scan_complete()` with the loop one event at a time
  (`inv_get_events`, `Walk`, `WalkDone`), the queue, and the task that posts.
  An event is its number since boot; what matters of it is the second it was
  logged in. A pass is what the watermark sees of it: the final drain, the
  diff, the loop. A webhook is configured.
* **AlertDelivery** – the abstract promise: each event that was logged is posted
  once, in order, or given up for good. Notifier implements it with `lost` what
  was pushed out of the copy, refused by the queue or refused by the network.
* **WifiStation** – `on_event()`, `wifi_connect_blocking()` from its wait on,
  and the restart of `app_main()`. The driver and the access point are
  external: a queue of the three events `on_event()` distinguishes, handled in
  order and possibly late. A call of `esp_wifi_connect()` starts an attempt.

Mutants (`...KeepsMisses`, `...NoDrain`, and so on) stand before the
definition they mutate; no module uses them. They are the bugs the properties
are shown to catch.

## 3. Model checking

`tlc -config X.cfg M` in this directory.

| run | module | properties | distinct states |
|---|---|---|---|
| `MCDiscovery` | MCDiscovery | `TypeOK`, `MissingIsSilent`, `GoneIsOffline`, `OnlyHeardAppear`, `TimelineIsTrue`, `ImplementsLifecycle`, `ImplementsGrowth` | 948,808 |
| `MCDiscoveryFull` | MCDiscovery | `MacIsKey`, `Settled` | 778,040 |
| `MCGrowth` | Growth | `TypeOK`, `FollowsTheCount`, `DrawsNear`, `NearIsQuiet`, `ComesNear`, `AlarmStops` | 780 |
| `MCNotifier` | Notifier | `TypeOK`, `OnceInOrder`, `NothingOverlooked`, `ImplementsDelivery`, `EveryAlertEnds` | 35,881 |
| `MCWifiStation` | WifiStation | `TypeOK`, `IdleOnlyAfterRetries`, `BootRecovers` | 196 |
| `MCInventoryLock` | InventoryLock | `TypeOK`, `StatsAddUp`, `ImplementsAtomic`, `PassEnds`, `RequestIsAnswered` | 103,837 |
| `MCAlgorithms` | MCAlgorithms | `NightIsTheWindow`, `LookupIsRight`, `ProbesTheBlob`, `Halves`, `SweepIsComplete`, `BurstIsBounded`, `TextReadsBack`, `TextFits`, `RingTypeOK`, `ValidIsWritten`, `ImplementsLog` | 64,213 |

What they show:

* A device is called missing only after `DISC_MISS_THRESHOLD` passes in a row
  without a reply (`MissingIsSilent`), and at most one pass later
  (`GoneIsOffline`). The one extra pass is real: `last_seen` and `pass_start`
  are whole seconds, and a pass triggered in the second of a reply takes the
  reply for its own. It is never two, because of the second of final drain.
* A device is called new or returned only by a pass that harvested a reply of
  it (`OnlyHeardAppear`), and what the log last said of a device is what the
  passes heard of its host (`TimelineIsTrue`).
* The baseline and the alarm of the discovery task are those of Growth
  (`ImplementsGrowth`). There, each pass brings the baseline nearer to a count
  that stays (`DrawsNear`) until it is within three devices, and on a network
  too large for three devices to be a growth no alarm is raised from then on
  (`NearIsQuiet`).
* The log tells the life of every device (`ImplementsLifecycle`), and between
  passes nothing is left to tell (`Settled`).
* Alerts reach Discord at most once and in order; those that do not were
  pushed out of the copy, refused by the queue or refused by the network, and
  what was given up once is not posted after all (`ImplementsDelivery`).
* The station gives up only after its retries; the boot survives any outage.

* The mutex does its work: every answer of the web server is what the inventory
  held at one moment between two sections (`ImplementsAtomic`), the counts of
  the statistics agree (`StatsAddUp`), and a pass and a request each come to
  their end in spite of the other (`PassEnds`, `RequestIsAnswered`).
* The vendor search finds what the registry lists and the partition has room
  for, and nothing else, and answers with the vendor's name alone unless the
  name fills its field (`LookupIsRight`). The search stays in the blob; the copy
  of a name leaves it only behind the last record, if that name fills its field
  (`ProbesTheBlob`). The builder cuts off the largest
  OUIs, and an OUI with the locally-administered bit is never looked up: their
  vendors are in the registry and not in the answers. Each record compared
  leaves at most half of the others to look at (`Halves`).
* A pass pings its whole subnet (`SweepIsComplete`), but for what the clamp
  cuts off: a /22 has 1022 hosts, and `host_count` of 1022 stops the loop
  before the last. If the station's own host number is a multiple of 16, the
  drain due there is skipped and 31 requests are out at once
  (`BurstIsBounded`).
* An escaped text is never cut in the middle of an escape (`TextReadsBack`);
  the web server leaves control characters as they are, so that an event whose
  host name has one is not JSON.

### Bounds, and why they are enough

* *Hosts, addresses, slots.* The properties relate one device to its own
  history, or two devices that compete for a slot, an address or the order of
  the diff: two hosts on one address (`MCDiscovery`), three hosts for two
  slots (`MCDiscoveryFull`) make all of that happen. `MCDiscovery` has a table
  that never fills, `MCDiscoveryFull` one that does.
* *Threshold.* Two in `MCDiscovery` (so that misses must add up and a reply
  must reset them), one in `MCDiscoveryFull`; the source has three.
* *Time.* `MAX_UPTIME` is 5 in `MCDiscovery` (pass after pass within one
  second, the drain of each, threshold plus two passes), and 3 in
  `MCDiscoveryFull`. The interval is 2 and the drain 1; the button
  makes passes follow each other at any distance, so the interval itself
  matters little.
* *Ring, copy, queue.* Three records, two events, one alert: each overflows.
  Readers ask for none, fewer and more than there are.
* *Growth.* 14 devices: with +50%, nine or fewer is the range in which a gap
  of three devices is a growth, so both ranges are there. `UINT32` is 64, far
  enough above for a wrap to be seen as one.
* *Retries.* Three of eight.
* *Lock.* Three slots, so that a loop has a first, a middle and a last turn and
  the table fills; two events logged in all. Passes, presses and requests are
  unbounded.
* *Algorithms.* All 24 hours. Seven OUIs, two of them private, room for five:
  all registries of up to three rows, in any order and with duplicates, and all
  longer ones that are sorted, hence blobs of every length from none to full,
  cut ones included. The vendors of three rows fill their field, so that the
  record after such a one is there or not, and begins with a zero byte or not.
  Subnets from a /32 to one twice as large as the clamp,
  which is 62 as 1022 is in the source: the hosts of a subnet of its size. All
  own addresses. Texts of up to five characters in a buffer of six, which most
  of them fill.

`inv_get_events()` of the hook (64) and of the web handler (128) are
`BatchSize`; the real capacities (256, 512, 8) are covered by the proofs, which
hold for every value of the constants.

### Fairness

* `Growth`: the discovery task makes pass after pass (`WF`): its loop has no
  exit and it blocks only with a timeout.
* `Notifier`: the notifier task is scheduled, and a POST ends
  (`timeout_ms = 5000`). Nothing is assumed of the outcome of a POST, of the
  clock, or of the discovery task.
* `WifiStation`: the driver finishes what it began, the event loop handles its
  queue, `app_main()` proceeds when its wait can return, and the restart it
  announced happens. The 30 s timeout is under no fairness and may come in any
  state, the access point there or not. `BootRecovers` has what it needs of the
  access point for its hypothesis: in the end it answers for good, and no wait
  times out any more. One that answers too slowly at every boot would have the
  chip restart for ever.
* `InventoryLock`: the two tasks are scheduled (`WF`), and time passes. A task
  that waits for the mutex gets it in the end though the other takes it again
  and again (`SF` on `Enter` and `Open`): FreeRTOS hands it to a waiting task
  when it is given back, and either task waits for something else before it
  takes it again. A send ends (`WF` on `Send`): the client reads, or the
  socket's timeout ends it. Nothing is assumed of the interval between passes,
  of replies, of presses or of requests.
* `Discovery` and the algorithms have no fairness; what is live of Discovery is
  live in `InventoryLock`, and the search and the sweep are bounded by `Halves`
  and by the clamp.

### Where the documents and the program disagree

Each of these runs checks one sentence of the repository, and TLC finds a
behaviour of the program that contradicts it.

| run | sentence | what happens |
|---|---|---|
| `ClaimName` | `src/README.md:50` "MAC is the primary key" | the name of the new tenant of an address is stored in the record of the device that left (`discovery.c:209`) |
| `ClaimGrowth` | `anomaly.c:171` "without constant re-alerting" | baseline 6, nine devices, +50%: an alarm at every pass (`anomaly.c:173`) |
| `ClaimOnline` | `src/README.md:91` "an appliance you leave running" | after nine lost connections in a row the station is off for good (`wifi.c:32`) |
| `ClaimIgnored` | `discovery.h:51` "ignored if a pass is already running" | the bit is set in the middle of a pass as well (`discovery.c:380`), and the wait at its end (`discovery.c:352`) starts another pass at once |
| `ClaimVendor` | `oui.c:96` "vendor is NUL-padded" | `tools/build_oui.py:82-83` leaves a name of 28 characters or more without a NUL; the copy takes the OUI of the next record for a part of the name, and from the last record it reads on behind the blob (`oui.c:97`) |

`ClaimOnline` and `ClaimGrowth` are temporal claims, refuted under the
fairness of their modules.

Other sentences the reading found to be loose, with no run of their own:
`inventory.h:12` says "copy out what you need, then release", but
`devices_handler()` sends a line for each device with the mutex held
(`web.c:91-118`), and discovery waits for the client.
`discovery.c:321` says "Every 16 sends", but the drain comes at every 16th host
number, and the station's own, if it is one of them, is skipped with the drain:
31 requests are then out at once, for one own address in 16 (`BurstIsBounded`).
`test/test_sweep.c:20` counts requests, which the program does not.
`main.c:13` says "any emitted
events get pushed to the notifier", but a pass that logs more than 64 events
pushes 64 (`main.c:51`; the set `overrun` of `NothingOverlooked`).
`inventory.h:64` calls `miss_count` "consecutive scans missed", but a pass begun
in the second of the last reply is not counted (`discovery.c:261`; this is the
extra pass of `GoneIsOffline`). `anomaly.h:9` reports a MAC the first time it is
seen, but with all slots taken a host leaves no trace (`inventory.c:104`).
`src/BUILD_NOTES.md:56` says mDNS is queried "only when a new unnamed device
appeared", but any online device without a name makes every pass query
(`discovery.c:230`). `src/README.md:50` calls an address change "a logged event",
which `src/BUILD_NOTES.md:69` takes back (`discovery.c:78`). `notifier.h:5` speaks
of a short-lived task per POST, but there is one task for ever
(`notifier.c:104`).

## 4. Proofs

`tlapm M.tla` for each `M` below. All hold for every value of the constants
that satisfies the named assumptions (`InventoryAssumption`,
`AnomalyAssumption`, `DiscoveryAssumption`, ...): sizes and intervals are
positive, `NONE` is not a value, and `UINT32` exceeds the size of the table.

| module | theorems |
|---|---|
| `Discovery_proofs` | `TypeCorrect`, `KeyIsUnique`, `NoFalseAlarm`, `NoLateAlarm`, `NoFalseArrival`, `TimelineTrue`, `AnnouncedFirst`, `NothingLeft`: all eight invariants of Discovery |
| | `ImplementsTimeline`: Discovery implements DeviceLifecycle; `ImplementsAlarm`: it implements Growth |
| `InventoryLock_proofs` | `TypeCorrect`, `NoUnderflow`; `SectionsAreAtomic`: InventoryLock implements AtomicInventory |
| `EventRing_proofs` | `TypeCorrect`, `OnlyWritten`, `Implements`: the ring implements the log |
| `Notifier_proofs` | `TypeCorrect`, `PostedOnceInOrder`, `NeverOverlooked`; `Delivers`: Notifier implements AlertDelivery |
| `WifiStation_proofs` | `TypeCorrect`, `NeverIdleEarly` |
| `Growth_proofs` | `TypeCorrect`, `BaselineFollows`, `ComesNearer`, `QuietWhenNear` |
| `Algorithms_proofs` | `IsTheWindow`, `TurnsAtItsEnds`; `FindsTheVendor`, `LeavesTheBlobAtItsEnd`, `SearchHalves`; `SweepsTheSubnet`, `BurstsAreBounded`; `ReadsBack`, `StaysInTheBuffer` |
| `Anomaly_proofs` | `StepStaysBetween`, on which the types of Discovery and Growth rest |

The arguments:

* **Discovery.** None of its invariants is inductive. `IInv` adds three parts.
  `Clock`: a pass that has drained began in an earlier second. `Phases`: the
  history of a pass is empty outside it, and the report before it. `Rec(i)`,
  the past of the device in slot `i`: `online` is the verdict on `miss_count`;
  `miss_count` never exceeds the silent passes, and falls short of them by one
  at most, the pass that began in the second of the last reply; a record
  harvested in this pass is fresh; behind the cursor of the diff a record is
  announced and its `was_online` up to date; and one not announced is online.
  Both alarm theorems, and `TimelineTrue`, follow from the bounds on
  `miss_count`. `NoFalseArrival` needs one fact more, `NoArrival`: from the
  beginning of a pass until the diff comes to a slot, the record of a device
  that has not answered holds nothing to announce.
* **Refinement.** Every step maps to at most one step of one device. That no
  report holds two events of a device rests on `Subjects`: everything logged in
  the current report is about a slot behind the cursor, and no two slots hold
  one MAC. For Growth every step but the growth test, the hand-over and a
  restart is churn; `AlarmIsLast` says that no report holds the alarm before
  the growth test.
* **Growth.** `StepComesNearer` is the arithmetic of a truncated quarter: it is
  nothing within three devices, and beyond that a step toward the count that
  does not pass it. `ThreeAreNoGrowth` compares a gap of three with the
  percentage. With the fairness of the passes, `ComesNearer` is `ComesNear`
  and `QuietWhenNear` is `AlarmStops`.
* **Ring.** The invariant says the window of `s_event_count` positions before
  the head was written; the refinement then is index arithmetic modulo the
  size, in lemmas of their own.
* **Notifier.** `Clocked` says the watermark separates the events of finished
  passes from those of the current one (one second of final drain lies
  between); `Ordered` that what is on its way is in order; `NotAhead` and
  `Covered` that what is on its way lies behind the loop, and that what lies
  behind the loop is on its way or lost where it may be. The refinement adds
  `Apart`: what is on its way, what was posted and what is lost have no event
  in common.
* **Wi-Fi.** The invariant lists which event may be outstanding for which
  link, and that `s_retry` counts the losses until the station gives up.

* **Lock.** `Writing` says how far the section that discovery is in has come:
  the rows its loop has passed are as the section leaves them, the others as in
  `before`. `Read` says that what a handler has read so far is still so. Both
  hold because the steps that write and those that read each ask for the mutex.
  The refinement then maps the end of a section to one abstract step, and all
  else to none.
* **Vendor search.** That the blob has a record for everything kept, and no
  more than fit, are two uses of the pigeonhole principle (`BlobIsPacked`,
  `KeptFits`); the loop invariant `Bounds` is that the record, if there is one,
  is between `lo` and `hi`, and follows from the order of the records. `Overrun`
  says what an answer may have besides a name: a record without a next one is
  the last.
* **Text.** What a parser makes of a text is defined by recursion along it, so
  that facts about it want induction. `Induction` derives that from the least
  counterexample of a set of numbers (`LeastOf`); by it the recursion has one
  solution (`RunExists`, `RunIsUnique`), which takes one character at a time
  (`AfterAppend`). The loop invariant `TextInv` then follows the loop: what was
  written so far parses to what was read so far, no escape is left open, and
  there is room for the terminator.
* **Sweep.** Up to the cursor everybody but the station was pinged; `Budget`
  counts the requests since the last multiple of 16.

Only model-checked: the liveness properties (`ComesNear`, `AlarmStops`,
`EveryAlertEnds`, `BootRecovers`, `PassEnds`, `RequestIsAnswered`), which the prover does not do. For `ComesNear` and `AlarmStops`
the part that no fairness is needed for is proved: `DrawsNear` and `NearIsQuiet`.
Every other property of a passing run is the statement of a theorem. Two
theorems state what no run asks: `AnnouncedFirst` (`UnannouncedIsOnline`) is a
part of `IInv`, and `TurnsAtItsEnds` a consequence of `NightIsTheWindow`.

## 5. Abstractions

* Time is `esp_timer_get_time()` in whole seconds, the unit of every
  comparison except that of the drain's budget, which is at least one second.
* `harvest_one()` reads the clock before it takes the lock. The model reads it
  in the same step; the discovery task does nothing in between and nobody else
  writes the table, so only a reader waiting for the lock could tell.
* `miss_count` is a natural number: it would take 2^32 passes to wrap.
  The casts to `int32_t` in the baseline update are exact for counts.
* The vendor is `listed`, `Unknown` or `Randomized (private)`; the text of
  events and alerts is left out, the POST either is accepted or is not.
* mDNS results are any name for any address, per address (the lock is taken
  per address).

* Of a record `InventoryLock` keeps whether the slot is free, and the device
  fresh, online or offline. Address, host name and class are left out, so that
  the section of `apply_mdns_result()`, which writes the last two, changes
  nothing there, and `ImplementsAtomic` does not speak of those columns of the
  device list. The code takes the mutex for each address of each mDNS answer;
  one section stands for those of a pass. `resolve_hostnames()` and the copy of
  `on_scan_complete()` only look. A free slot costs `devices_handler()` a turn
  of its loop and no line: `inv_next()` skips it.
* A restart starts each module from its first state, and with it the histories
  its properties speak of: nothing is carried over that a restart could damage.
* The bytes of a record of the blob and the parsing of the CSV are left out;
  the big-endian OUI is a number, which orders as `memcmp()` does. Of a name it
  is kept whether it fills the 28 bytes of its field (`Long`), and of an OUI
  whether its first byte is zero (`FIRST_BYTE`), for there the copy of such a
  name ends. If it is not, the copy ends in the reserved byte at the latest,
  after one to three bytes of the OUI; `excess` does not tell how many.
* A text of `JsonText` is cut between characters. A character of several bytes
  in UTF-8, which the loops copy byte by byte and may cut in the middle, is not
  modelled.

## 6. Not modelled, and why

* The ARP table of lwIP, into which `harvest_one()` looks
  (`discovery.c:63-68`): a library's data structure with a size and a
  replacement policy that no code under `src` fixes. In Discovery a reply may
  be booked for any host or for none, which covers what the table can do to it.
* The dashboard and the build files (no state of the system), LittleFS
  snapshots (no code), the base64 of the password: a request without it is
  answered at once and touches nothing.
* The text of the device list: `devices_handler()` does not escape the host
  name (`web.c:109`), so that there is no algorithm to check, and a name with a
  quote in it makes the list something other than JSON.

## 7. Plan

Done, in this order: Inventory, Anomaly, Discovery with DeviceLifecycle,
EventRing with EventLog, Growth, Notifier with AlertDelivery, WifiStation,
NightWindow; InventoryLock with AtomicInventory, OuiLookup, SubnetSweep,
JsonText; and the proofs of each.

What could follow:

1. **Liveness of Discovery** – a host that stays away is reported, one that
   answers every pass is never reported, under the fairness of InventoryLock.
2. **HomeSentinel** – the composition: Discovery with EventRing and Notifier
   in place of `fresh`, so that the promise from a reply to a POST can be
   stated in one place, and DeviceLifecycle, Growth and AlertDelivery in place
   of the modules that implement them.
3. **ArpHarvest** – should the version of lwIP be fixed by the repository:
   its ARP table and mailbox, against `src/README.md:51` "never causes missed
   devices".
