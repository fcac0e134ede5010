------------------------ MODULE InventoryLock_proofs ------------------------
(***************************************************************************)
(* The mutex makes the sections atomic, for a table of any size.           *)
(*                                                                         *)
(* A task that holds the mutex is alone: what a section of discovery has   *)
(* changed so far is what its loop has passed, and what a handler has read *)
(* so far is still so.                                                     *)
(***************************************************************************)
EXTENDS InventoryLock, FiniteSetTheorems, TLAPS

\* How far the section that discovery is in has come.
Writing ==
  lock = "discovery" =>
    /\ before # Nothing
    /\ pc \notin {"age", "diff"}
         => table = before.table /\ logged = before.logged
    /\ pc = "age" =>
         /\ logged = before.logged
         /\ \A s \in Slot :
              \/ table[s] = before.table[s]
              \/ /\ s < row
                 /\ before.table[s] = "online" /\ table[s] = "offline"
    /\ pc = "diff" =>
         /\ logged >= before.logged
         /\ \A s \in Slot :
              table[s] = IF s < row /\ before.table[s] = "fresh"
                           THEN "online" ELSE before.table[s]

\* How far the handler that reads has come.
Read ==
  /\ lock = "httpd" =>
       /\ request = "devices" =>
            \A s \in Slot : s < line => listing[s] = table[s]
       /\ request = "stats" /\ line # 0 => total = Cardinality(InUse(table))
  /\ lock # "httpd" => line = 0

IInv == TypeOK /\ Writing /\ Read /\ StatsAddUp

-----------------------------------------------------------------------------
LEMMA Counts ==
  ASSUME NEW t
  PROVE  /\ Cardinality(InUse(t)) \in 0 .. INV_MAX_DEVICES
         /\ Cardinality(Online(t)) \in 0 .. INV_MAX_DEVICES
         /\ Cardinality(Online(t)) <= Cardinality(InUse(t))
<1>1. IsFiniteSet(Slot) /\ Cardinality(Slot) = INV_MAX_DEVICES
  BY FS_Interval, InventoryLockAssumption DEF Slot
<1>2. InUse(t) \subseteq Slot /\ Online(t) \subseteq InUse(t)
  BY DEF InUse, Online
<1>3. /\ IsFiniteSet(InUse(t))
      /\ Cardinality(InUse(t)) <= Cardinality(Slot)
  BY <1>1, <1>2, FS_Subset
<1>4. /\ IsFiniteSet(Online(t))
      /\ Cardinality(Online(t)) <= Cardinality(InUse(t))
  BY <1>2, <1>3, FS_Subset
<1>5. Cardinality(InUse(t)) \in Nat /\ Cardinality(Online(t)) \in Nat
  BY <1>3, <1>4, FS_CardinalityType
<1> QED
  BY <1>1, <1>3, <1>4, <1>5, InventoryLockAssumption

LEMMA InitGood == Init => IInv
<1> SUFFICES ASSUME Init
             PROVE  IInv
  OBVIOUS
<1>1. table \in [Slot -> State] /\ listing \in [Slot -> State]
  BY DEF Init, NoLines, State
<1>2. /\ 0 \in 0 .. INV_MAX_DEVICES /\ 0 \in 0 .. MAX_EVENTS
      /\ answer.kind = "nothing"
  BY InventoryLockAssumption DEF Init, Nothing
<1>3. TypeOK
  BY <1>1, <1>2 DEF Init, TypeOK
<1>4. Writing /\ Read /\ StatsAddUp
  BY <1>2 DEF Init, Writing, Read, StatsAddUp
<1> QED
  BY <1>3, <1>4 DEF IInv

-----------------------------------------------------------------------------
(* The discovery task.                                                     *)

\* Steps that neither hold the mutex nor touch what it guards.
Outside ==
  \/ BeginPass \/ DeadlinePasses \/ Reply \/ DrainDone
  \/ WakeOnPress \/ WakeOnInterval

LEMMA OutsideGood == IInv /\ Outside => IInv'
<1> SUFFICES ASSUME IInv, Outside
             PROVE  IInv'
  OBVIOUS
<1>1. UNCHANGED <<lock, table, logged, row, before, web>>
  BY DEF Outside, BeginPass, DeadlinePasses, Reply, DrainDone, WakeOnPress,
         WakeOnInterval, Wake
<1>2. /\ trigger' \in BOOLEAN /\ expired' \in BOOLEAN
      /\ pc' \in {"start", "sweep", "wait"} \cup Section
      /\ lock = "discovery" => pc' = pc
  BY DEF Outside, BeginPass, DeadlinePasses, Reply, DrainDone, WakeOnPress,
         WakeOnInterval, Wake, IInv, TypeOK, Section
<1>3. TypeOK'
  BY <1>1, <1>2 DEF IInv, TypeOK, web
<1>4. Writing' /\ Read' /\ StatsAddUp'
  BY <1>1, <1>2
  DEF IInv, Writing, Read, StatsAddUp, web, InUse
<1> QED
  BY <1>3, <1>4 DEF IInv

LEMMA EnterGood == IInv /\ Enter => IInv'
<1> SUFFICES ASSUME IInv, Enter
             PROVE  IInv'
  OBVIOUS
<1>1. before' # Nothing
  BY DEF Enter, Nothing
<1>2. TypeOK'
  BY InventoryLockAssumption DEF IInv, TypeOK, Enter, inv_lock, web
<1>3. Writing'
  BY <1>1 DEF IInv, TypeOK, Writing, Enter, inv_lock, Slot
<1>4. Read' /\ StatsAddUp'
  BY DEF IInv, Read, StatsAddUp, Enter, inv_lock, web, InUse
<1> QED
  BY <1>2, <1>3, <1>4 DEF IInv

\* A section that ends leaves a table behind, and nobody is reading.
LEMMA LeaveGood ==
  ASSUME IInv, NEW next \in {"start", "sweep", "wait"} \cup Section,
         Leave(next), table' \in [Slot -> State], UNCHANGED logged
  PROVE  IInv'
<1>1. TypeOK'
  BY InventoryLockAssumption
  DEF IInv, TypeOK, Leave, inv_unlock, web
<1>2. Writing' /\ Read' /\ StatsAddUp'
  BY DEF IInv, Writing, Read, StatsAddUp, Leave, inv_unlock, web
<1> QED
  BY <1>1, <1>2 DEF IInv

LEMMA SectionEndsGood ==
  ASSUME IInv,
         \/ Harvest \/ resolve_hostnames \/ apply_mdns_result
         \/ age_unseen \/ anomaly_run \/ on_scan_complete
  PROVE  IInv'
<1>1. CASE Harvest
  <2>1. table' \in [Slot -> State]
    BY <1>1 DEF Harvest, IInv, TypeOK, State, InUse
  <2> QED
    BY <1>1, <2>1, LeaveGood DEF Harvest
<1>2. CASE \/ resolve_hostnames \/ apply_mdns_result
           \/ age_unseen \/ anomaly_run \/ on_scan_complete
  <2>1. table' \in [Slot -> State] /\ UNCHANGED logged
    BY <1>2 DEF resolve_hostnames, apply_mdns_result, age_unseen, anomaly_run,
                on_scan_complete, IInv, TypeOK
  <2>2. PICK next \in {"start", "sweep", "wait"} \cup Section : Leave(next)
    BY <1>2 DEF resolve_hostnames, apply_mdns_result, age_unseen, anomaly_run,
                on_scan_complete, Section
  <2> QED
    BY <2>1, <2>2, LeaveGood
<1> QED
  BY <1>1, <1>2

LEMMA RowGood ==
  ASSUME IInv, age_row \/ diff_row
  PROVE  IInv'
<1>n. row \in 0 .. INV_MAX_DEVICES
  BY DEF IInv, TypeOK
<1>l. NextRow("age") \/ NextRow("diff")
  BY DEF age_row, diff_row
<1>a. row < INV_MAX_DEVICES
  BY <1>l DEF NextRow
<1>b. row \in Slot /\ row \in Nat
  BY <1>n, <1>a, InventoryLockAssumption DEF Slot
<1>t. table' \in [Slot -> State]
  BY DEF age_row, diff_row, IInv, TypeOK, State
<1>e. logged' \in 0 .. MAX_EVENTS
  BY InventoryLockAssumption DEF age_row, diff_row, IInv, TypeOK
<1>1. row' = row + 1 /\ row' \in 0 .. INV_MAX_DEVICES
  BY <1>n, <1>l, <1>a, InventoryLockAssumption DEF NextRow
<1>2. TypeOK'
  BY <1>t, <1>e, <1>1
  DEF age_row, diff_row, NextRow, IInv, TypeOK, web
<1>o. table \in [Slot -> State] /\ logged \in Nat
  BY InventoryLockAssumption DEF IInv, TypeOK
<1>k. UNCHANGED <<lock, pc, before>> /\ lock = "discovery"
  BY <1>l DEF NextRow
<1>3. Writing'
  <2>1. CASE age_row
    <3>1. pc = "age" /\ UNCHANGED logged
      BY <2>1 DEF age_row, NextRow
    <3>2. \A s \in Slot : \/ table'[s] = table[s]
                           \/ /\ s = row /\ table[s] = "online"
                              /\ table'[s] = "offline"
      BY <2>1, <1>o, <1>b DEF age_row
    <3>3. ASSUME NEW s \in Slot
          PROVE  \/ table'[s] = before.table[s]
                 \/ /\ s < row'
                    /\ before.table[s] = "online" /\ table'[s] = "offline"
      <4>1. \/ table[s] = before.table[s]
            \/ /\ s < row
               /\ before.table[s] = "online" /\ table[s] = "offline"
        BY <3>1, <1>k DEF IInv, Writing
      <4>2. s < row \/ s = row => s < row'
        BY <1>1, <1>b, InventoryLockAssumption DEF Slot
      <4>3. s < row => s # row
        BY <1>b, InventoryLockAssumption DEF Slot
      <4> QED
        BY <4>1, <4>2, <4>3, <3>2
    <3> QED
      BY <3>1, <3>3, <1>k DEF IInv, Writing
  <2>2. CASE diff_row
    <3>1. pc = "diff" /\ (logged' = logged \/ logged' = logged + 1)
      BY <2>2 DEF diff_row, NextRow
    <3>2. \A s \in Slot :
            table'[s] = IF s = row /\ table[s] = "fresh" THEN "online"
                                                         ELSE table[s]
      BY <2>2, <1>o, <1>b DEF diff_row
    <3>3. ASSUME NEW s \in Slot
          PROVE  table'[s] = IF s < row' /\ before.table[s] = "fresh"
                               THEN "online" ELSE before.table[s]
      <4>1. table[s] = IF s < row /\ before.table[s] = "fresh"
                         THEN "online" ELSE before.table[s]
        BY <3>1, <1>k DEF IInv, Writing
      <4>2. s < row' <=> s < row \/ s = row
        BY <1>1, <1>b, InventoryLockAssumption DEF Slot
      <4>3. s < row => s # row
        BY <1>b, InventoryLockAssumption DEF Slot
      <4> QED
        BY <4>1, <4>2, <4>3, <3>2
    <3>4. logged >= before.logged /\ before # Nothing
      BY <3>1, <1>k DEF IInv, Writing
    <3>5. before.logged \in Nat
      BY <3>4, InventoryLockAssumption DEF IInv, TypeOK
    <3> QED
      BY <3>1, <3>3, <3>4, <3>5, <1>k, <1>o DEF Writing
  <2> QED
    BY <2>1, <2>2
<1>4. Read' /\ StatsAddUp'
  BY DEF age_row, diff_row, NextRow, IInv, Read, StatsAddUp, web
<1> QED
  BY <1>2, <1>3, <1>4 DEF IInv

-----------------------------------------------------------------------------
(* The HTTP server.                                                        *)

LEMMA RequestGood ==
  ASSUME IInv, Receive \/ Open \/ scan_handler \/ Respond
  PROVE  IInv'
<1>1. TypeOK'
  BY DEF Receive, Open, scan_handler, Respond, inv_lock, IInv, TypeOK,
         discovery, web, Reading
<1>2. Writing'
  BY DEF Receive, Open, scan_handler, Respond, inv_lock, IInv, Writing,
         discovery
<1>3. Read'
  BY InventoryLockAssumption
  DEF Receive, Open, scan_handler, Respond, inv_lock, IInv, TypeOK, Read,
      web, Slot, Reading
<1>4. StatsAddUp'
  BY DEF Receive, Open, scan_handler, Respond, IInv, StatsAddUp, web, Nothing
<1> QED
  BY <1>1, <1>2, <1>3, <1>4 DEF IInv

LEMMA ReadingGood ==
  ASSUME IInv, SendLine \/ inv_count_total
  PROVE  IInv'
<1>1. line \in 0 .. INV_MAX_DEVICES /\ UNCHANGED <<lock, table>>
  BY DEF SendLine, inv_count_total, IInv, TypeOK
<1>2. total' \in 0 .. INV_MAX_DEVICES
  BY Counts DEF SendLine, inv_count_total, IInv, TypeOK
<1>l. line' \in 0 .. INV_MAX_DEVICES
  BY <1>1, InventoryLockAssumption DEF SendLine, inv_count_total
<1>3. listing' \in [Slot -> State]
  <2>1. CASE SendLine
    BY <2>1 DEF SendLine, IInv, TypeOK
  <2>2. CASE inv_count_total
    BY <2>2 DEF inv_count_total, IInv, TypeOK
  <2> QED
    BY <2>1, <2>2
<1>4. TypeOK'
  BY <1>l, <1>2, <1>3
  DEF SendLine, inv_count_total, IInv, TypeOK, discovery
<1>5. Writing' /\ StatsAddUp'
  BY DEF SendLine, inv_count_total, IInv, Writing, StatsAddUp, discovery
<1>6. Read'
  <2>1. CASE SendLine
    BY <2>1, <1>1 DEF SendLine, IInv, TypeOK, Read, Slot
  <2>2. CASE inv_count_total
    BY <2>2, <1>1 DEF inv_count_total, IInv, Read, InUse
  <2> QED
    BY <2>1, <2>2
<1> QED
  BY <1>4, <1>5, <1>6 DEF IInv

LEMMA AnsweredGood ==
  ASSUME IInv, devices_handler \/ stats_handler \/ events_handler
  PROVE  IInv'
<1>1. Close
  BY DEF devices_handler, stats_handler, events_handler
<1>2. answer' \in [kind : {"devices"}, list : [Slot -> State]]
                    \cup [kind : {"stats"}, total : 0 .. INV_MAX_DEVICES,
                          online : 0 .. INV_MAX_DEVICES]
                    \cup [kind : {"events"}, newest : 0 .. MAX_EVENTS]
  BY Counts DEF devices_handler, stats_handler, events_handler, Devices,
                Events, IInv, TypeOK
<1>3. listing' \in [Slot -> State] /\ line' \in 0 .. INV_MAX_DEVICES
        /\ total' \in 0 .. INV_MAX_DEVICES
  BY <1>1, InventoryLockAssumption DEF Close, NoLines, State
<1>4. TypeOK'
  BY <1>1, <1>2, <1>3 DEF Close, inv_unlock, IInv, TypeOK, discovery
<1>5. Writing' /\ Read'
  BY <1>1 DEF Close, inv_unlock, IInv, Writing, Read, discovery
<1>6. StatsAddUp'
  BY Counts DEF devices_handler, stats_handler, events_handler, IInv, Read,
                StatsAddUp, Devices, Events
<1> QED
  BY <1>4, <1>5, <1>6 DEF IInv

-----------------------------------------------------------------------------
LEMMA StepGood == IInv /\ [Next]_vars => IInv'
<1> SUFFICES ASSUME IInv, [Next]_vars
             PROVE  IInv'
  OBVIOUS
<1>1. CASE discovery_task \/ Enter \/ WakeOnInterval \/ DeadlinePasses
  BY <1>1, OutsideGood, EnterGood, SectionEndsGood, RowGood
  DEF discovery_task, Outside
<1>2. CASE Receive \/ Open \/ Handle \/ Send
  BY <1>2, RequestGood, ReadingGood, AnsweredGood DEF Handle, Send
<1>3. CASE UNCHANGED vars
  BY <1>3 DEF vars, discovery, web, IInv, TypeOK, Writing, Read, StatsAddUp, InUse
<1> QED
  BY <1>1, <1>2, <1>3 DEF Next

LEMMA Always == Spec => []IInv
  BY InitGood, StepGood, PTL DEF Spec

(***************************************************************************)
(* Every variable keeps its type, and only a task that is in a section     *)
(* holds the mutex.                                                        *)
(***************************************************************************)
THEOREM TypeCorrect == Spec => []TypeOK
  BY Always, PTL DEF IInv

(***************************************************************************)
(* The difference the statistics report never wraps.                       *)
(***************************************************************************)
THEOREM NoUnderflow == Spec => []StatsAddUp
  BY Always, PTL DEF IInv

-----------------------------------------------------------------------------
(* The refinement.                                                         *)

LEMMA SameTable ==
  /\ Atomic!Slot = Slot
  /\ Atomic!Nothing = Nothing
  /\ \A t : Atomic!InUse(t) = InUse(t) /\ Atomic!Online(t) = Online(t)
  BY DEF Atomic!Slot, Slot, Atomic!Nothing, Nothing, Atomic!InUse, InUse,
         Atomic!Online, Online

LEMMA SameCount == \A S : Atomic!Cardinality(S) = Cardinality(S)
  BY DEF Atomic!Cardinality, Cardinality

\* What the other task can see does not move while a section lasts.
LEMMA SeenStays ==
  ASSUME UNCHANGED <<table, logged, before>>,
         lock' = "discovery" <=> lock = "discovery"
  PROVE  Seen' = Seen
  BY DEF Seen

LEMMA SeenOutside ==
  ASSUME IInv, Enter \/ Outside
  PROVE  Seen' = Seen /\ UNCHANGED answer
<1>1. CASE Enter
  BY <1>1 DEF Enter, inv_lock, Seen, web
<1>2. CASE Outside
  BY <1>2, SeenStays
  DEF Outside, BeginPass, DeadlinePasses, Reply, DrainDone, WakeOnPress,
      WakeOnInterval, Wake, web
<1> QED
  BY <1>1, <1>2

LEMMA SeenWithin ==
  ASSUME age_row \/ diff_row
  PROVE  Seen' = Seen /\ UNCHANGED answer
  BY DEF age_row, diff_row, NextRow, Seen, web

\* A section takes effect when it ends.
LEMMA SeenAtLeave ==
  ASSUME NEW next, Leave(next)
  PROVE  /\ Seen = before
         /\ Seen'.table = table' /\ Seen'.logged = logged'
         /\ UNCHANGED answer
  BY DEF Leave, inv_unlock, Seen, web

LEMMA HarvestMaps ==
  ASSUME IInv, Harvest
  PROVE  Atomic!Harvest \/ UNCHANGED <<Seen.table, Seen.logged, answer>>
<1>1. /\ Seen = before
      /\ Seen'.table = table' /\ Seen'.logged = logged'
      /\ UNCHANGED answer
  BY SeenAtLeave DEF Harvest
<1>2. table = before.table /\ logged = before.logged
  BY DEF Harvest, IInv, Writing
<1>3. UNCHANGED <<Seen.logged, answer>>
  BY <1>1, <1>2 DEF Harvest
<1>4. table \in [Slot -> State]
  BY DEF IInv, TypeOK
<1>5. CASE UNCHANGED table
  BY <1>1, <1>2, <1>3, <1>5
<1>6. CASE \E s \in InUse(table) :
             table' = [table EXCEPT ![s] = IF @ = "fresh" THEN @ ELSE "online"]
  <2>1. PICK s \in InUse(table) :
          table' = [table EXCEPT ![s] = IF @ = "fresh" THEN @ ELSE "online"]
    BY <1>6
  <2>2. s \in Slot /\ table[s] # "free"
    BY DEF InUse
  <2>3. table' = [table EXCEPT ![s] = IF table[s] \in {"free", "fresh"}
                                        THEN "fresh" ELSE "online"]
    BY <2>1, <2>2
  <2>4. Seen.table = table
    BY <1>1, <1>2
  <2> QED
    BY <1>1, <1>3, <2>2, <2>3, <2>4, SameTable DEF Atomic!Harvest
<1>7. CASE \E s \in Slot \ InUse(table) :
             table' = [table EXCEPT ![s] = "fresh"]
  <2>1. PICK s \in Slot \ InUse(table) :
          table' = [table EXCEPT ![s] = "fresh"]
    BY <1>7
  <2>2. s \in Slot /\ table[s] = "free"
    BY DEF InUse
  <2>3. table' = [table EXCEPT ![s] = IF table[s] \in {"free", "fresh"}
                                        THEN "fresh" ELSE "online"]
    BY <2>1, <2>2
  <2>4. Seen.table = table
    BY <1>1, <1>2
  <2> QED
    BY <1>1, <1>3, <2>2, <2>3, <2>4, SameTable DEF Atomic!Harvest
<1> QED
  BY <1>5, <1>6, <1>7 DEF Harvest

LEMMA AgeMaps ==
  ASSUME IInv, age_unseen
  PROVE  Atomic!Age
<1>1. /\ Seen = before
      /\ Seen'.table = table' /\ Seen'.logged = logged'
      /\ UNCHANGED answer
  BY SeenAtLeave DEF age_unseen
<1>2. /\ logged = before.logged
      /\ \A s \in Slot : \/ table[s] = before.table[s]
                         \/ /\ before.table[s] = "online"
                            /\ table[s] = "offline"
  BY DEF age_unseen, IInv, Writing
<1>3. DOMAIN table = Slot
  BY DEF IInv, TypeOK
<1> QED
  BY <1>1, <1>2, <1>3, SameTable DEF age_unseen, Atomic!Age

LEMMA ReportMaps ==
  ASSUME IInv, anomaly_run
  PROVE  Atomic!Report
<1>1. /\ Seen = before
      /\ Seen'.table = table' /\ Seen'.logged = logged'
      /\ UNCHANGED answer
  BY SeenAtLeave DEF anomaly_run
<1>2. lock = "discovery" /\ pc = "diff" /\ row = INV_MAX_DEVICES
        /\ UNCHANGED <<table, logged>>
  BY DEF anomaly_run
<1>3. logged >= before.logged
  BY <1>2 DEF IInv, Writing
<1>4. \A s \in Slot : table[s] = IF before.table[s] = "fresh"
                                   THEN "online" ELSE before.table[s]
  <2> TAKE s \in Slot
  <2>1. s < INV_MAX_DEVICES
    BY InventoryLockAssumption DEF Slot
  <2> QED
    BY <1>2, <2>1 DEF IInv, Writing
<1>5. table = [s \in Slot |-> IF before.table[s] = "fresh"
                                THEN "online" ELSE before.table[s]]
  BY <1>4 DEF IInv, TypeOK
<1> QED
  BY <1>1, <1>2, <1>3, <1>5, SameTable DEF Atomic!Report

\* A section that changed nothing.
LEMMA LookMaps ==
  ASSUME IInv, resolve_hostnames \/ apply_mdns_result \/ on_scan_complete
  PROVE  UNCHANGED <<Seen.table, Seen.logged, answer>>
<1>1. PICK next : Leave(next)
  BY DEF resolve_hostnames, apply_mdns_result, on_scan_complete
<1>2. /\ Seen = before
      /\ Seen'.table = table' /\ Seen'.logged = logged'
      /\ UNCHANGED answer
  BY <1>1, SeenAtLeave
<1>3. table = before.table /\ logged = before.logged
  BY DEF resolve_hostnames, apply_mdns_result, on_scan_complete, IInv, Writing
<1> QED
  BY <1>2, <1>3 DEF resolve_hostnames, apply_mdns_result, on_scan_complete

\* A handler's answer is what the table holds when it is done.
LEMMA AnswerMaps ==
  ASSUME IInv, devices_handler \/ stats_handler \/ events_handler \/ Respond
  PROVE  Atomic!Answer
<1>1. UNCHANGED <<table, logged, before>>
  BY DEF devices_handler, stats_handler, events_handler, Respond, Close,
         discovery
<1>2. Seen' = Seen
  BY <1>1, SeenStays
  DEF devices_handler, stats_handler, events_handler, Respond, Close,
      inv_unlock
<1>3. CASE Respond
  BY <1>2, <1>3, SameTable DEF Respond, Atomic!Answer
<1>4. CASE devices_handler \/ stats_handler \/ events_handler
  <2>1. lock = "httpd"
    BY <1>4 DEF devices_handler, stats_handler, events_handler, Close,
                inv_unlock
  <2>2. Seen.table = table /\ Seen.logged = logged
    BY <2>1 DEF Seen
  <2>3. CASE devices_handler
    <3>1. line = INV_MAX_DEVICES /\ request = "devices"
            /\ answer' = Devices(listing)
      BY <2>3 DEF devices_handler
    <3>2. \A s \in Slot : listing[s] = table[s]
      <4> TAKE s \in Slot
      <4>1. s < line
        BY <3>1, InventoryLockAssumption DEF Slot
      <4> QED
        BY <2>1, <3>1, <4>1 DEF IInv, Read
    <3>3. listing = table
      BY <3>2 DEF IInv, TypeOK
    <3>4. answer' = Atomic!Devices(Seen.table)
      BY <2>2, <3>1, <3>3 DEF Devices, Atomic!Devices
    <3> QED
      BY <1>2, <3>4 DEF Atomic!Answer
  <2>4. CASE stats_handler
    <3>1. total = Cardinality(InUse(table))
      BY <2>1, <2>4 DEF stats_handler, IInv, Read
    <3>2. answer' = Atomic!Stats(Seen.table)
      BY <2>2, <2>4, <3>1, SameTable, SameCount
      DEF stats_handler, Atomic!Stats
    <3> QED
      BY <1>2, <3>2 DEF Atomic!Answer
  <2>5. CASE events_handler
    <3>1. answer' = Atomic!Events(Seen.logged)
      BY <2>2, <2>5 DEF events_handler, Events, Atomic!Events
    <3> QED
      BY <1>2, <3>1 DEF Atomic!Answer
  <2> QED
    BY <1>4, <2>3, <2>4, <2>5
<1> QED
  BY <1>3, <1>4

LEMMA WebStutters ==
  ASSUME Receive \/ Open \/ SendLine \/ inv_count_total \/ scan_handler
  PROVE  Seen' = Seen /\ UNCHANGED answer
<1>1. UNCHANGED <<table, logged, before, answer>>
  BY DEF Receive, Open, SendLine, inv_count_total, scan_handler, discovery, web
<1>2. lock' = "discovery" <=> lock = "discovery"
  BY DEF Receive, Open, SendLine, inv_count_total, scan_handler, inv_lock
<1> QED
  BY <1>1, <1>2, SeenStays

LEMMA StepMaps ==
  ASSUME IInv, [Next]_vars
  PROVE  Atomic!Next \/ UNCHANGED <<Seen.table, Seen.logged, answer>>
<1>1. CASE Enter \/ Outside
  BY <1>1, SeenOutside
<1>2. CASE age_row \/ diff_row
  BY <1>2, SeenWithin
<1>3. CASE resolve_hostnames \/ apply_mdns_result \/ on_scan_complete
  BY <1>3, LookMaps
<1>4. CASE Harvest \/ age_unseen \/ anomaly_run
  BY <1>4, HarvestMaps, AgeMaps, ReportMaps DEF Atomic!Next
<1>5. CASE Receive \/ Open \/ SendLine \/ inv_count_total \/ scan_handler
  BY <1>5, WebStutters
<1>6. CASE devices_handler \/ stats_handler \/ events_handler \/ Respond
  BY <1>6, AnswerMaps DEF Atomic!Next
<1>7. CASE UNCHANGED vars
  BY <1>7 DEF vars, discovery, web, Seen
<1> QED
  BY <1>1, <1>2, <1>3, <1>4, <1>5, <1>6, <1>7
  DEF Next, discovery_task, Outside, Handle, Send

(***************************************************************************)
(* Whatever the two tasks do between the steps of each other's loops, the  *)
(* inventory behaves as if each section and each handler took one moment.  *)
(***************************************************************************)
THEOREM SectionsAreAtomic == Spec => ImplementsAtomic
<1>1. Init => Atomic!Init
  BY SameTable DEF Init, Atomic!Init, Seen
<1>2. IInv /\ [Next]_vars
        => [Atomic!Next]_<<Seen.table, Seen.logged, answer>>
  BY StepMaps
<1> QED
  BY <1>1, <1>2, Always, PTL DEF Spec, ImplementsAtomic, Atomic!Spec
=============================================================================
