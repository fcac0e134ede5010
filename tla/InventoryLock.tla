---------------------------- MODULE InventoryLock ----------------------------
(***************************************************************************)
(* The tasks that share the inventory and the mutex between them: the      *)
(* discovery task of main/discovery.c, which is the only writer, and the   *)
(* HTTP server of main/web.c, which serves one request at a time.  Here    *)
(* the sections are not atomic: a loop over the table is one action per    *)
(* slot, and the other task may do what it likes in between, as far as     *)
(* inv_lock() lets it.                                                     *)
(*                                                                         *)
(* Of a record only its progress is kept: a slot is free, fresh (found,    *)
(* but the diff has yet to look its vendor up), online or offline.  The    *)
(* address, the host name and the class of a device are left out.          *)
(* Which devices go offline and which are worth an event, Discovery says;  *)
(* here it is any of them.                                                 *)
(***************************************************************************)
EXTENDS Integers, FiniteSets

CONSTANTS
  INV_MAX_DEVICES,  \* capacity of s_devices
  MAX_EVENTS        \* bound: events logged

ASSUME InventoryLockAssumption ==
  /\ INV_MAX_DEVICES \in Nat \ {0}
  /\ MAX_EVENTS \in Nat

VARIABLES
  lock,     \* s_lock: who holds the mutex
  table,    \* s_devices
  logged,   \* events logged so far
  trigger,  \* BIT_TRIGGER_NOW of s_events
  expired,  \* the time for replies of this pass is up
  pc,       \* where the discovery task is
  row,      \* its cursor in the table
  request,  \* the handler the HTTP task runs
  line,     \* its cursor in the table
  listing,  \* devices_handler: the lines sent so far
  total,    \* stats_handler: its first count
  answer,   \* what the handler read
  before    \* history: what discovery found when it took the mutex

discovery == <<trigger, expired, pc, row, before>>
web       == <<request, line, listing, total, answer>>
vars      == <<lock, table, logged, discovery, web>>

Slot == 0 .. INV_MAX_DEVICES - 1

State == {"free", "fresh", "online", "offline"}

\* The sections of the discovery task, and the handlers that take the mutex.
Section == {"harvest", "resolve", "apply", "age", "diff", "copy"}
Reading == {"devices", "stats", "events"}

InUse(t)  == {s \in Slot : t[s] # "free"}
Online(t) == {s \in Slot : t[s] \in {"fresh", "online"}}

\* A list has no line of a slot that is free, nor of one not come to yet.
NoLines == [s \in Slot |-> "free"]

Nothing    == [kind |-> "nothing"]
Devices(t) == [kind |-> "devices", list |-> t]
Events(n)  == [kind |-> "events", newest |-> n]

Init ==
  /\ lock = "nobody"
  /\ table = [s \in Slot |-> "free"] /\ logged = 0
  /\ trigger = FALSE /\ expired = FALSE
  /\ pc = "start" /\ row = 0 /\ before = Nothing
  /\ request = "none" /\ line = 0 /\ listing = NoLines /\ total = 0
  /\ answer = Nothing

-----------------------------------------------------------------------------
(* The mutex.                                                              *)

\* Mutant of inv_lock: the mutex is not waited for.
inv_lock_at_once(task) == lock' = task

inv_lock(task) == lock = "nobody" /\ lock' = task

\* Mutant of inv_unlock: an early return keeps the mutex.
inv_unlock_forgotten(task) == lock = task /\ lock' \in {task, "nobody"}

inv_unlock(task) == lock = task /\ lock' = "nobody"

Enter ==
  /\ pc \in Section
  /\ lock # "discovery"
  /\ inv_lock("discovery")
  /\ before' = [table |-> table, logged |-> logged]
  /\ row' = 0
  /\ UNCHANGED <<table, logged, trigger, expired, pc, web>>

Leave(next) ==
  /\ inv_unlock("discovery")
  /\ before' = Nothing
  /\ row' = 0
  /\ pc' = next
  /\ UNCHANGED <<trigger, expired, web>>

-----------------------------------------------------------------------------
(* The discovery task.                                                     *)

\* run_pass() opens its socket, or returns for want of an address or of one.
BeginPass ==
  /\ pc = "start"
  /\ pc' \in {"sweep", "wait"}
  /\ expired' = FALSE
  /\ UNCHANGED <<lock, table, logged, trigger, row, before, web>>

\* The budget of the drain runs out, whether the task waits for the mutex or
\* not.
DeadlinePasses ==
  /\ pc \in {"sweep", "harvest"}
  /\ expired' = TRUE
  /\ UNCHANGED <<lock, table, logged, trigger, pc, row, before, web>>

\* Mutant of Reply: every reply gives the drain its full budget again.
ReplyRestartsBudget ==
  /\ pc = "sweep"
  /\ pc' = "harvest"
  /\ expired' = FALSE
  /\ UNCHANGED <<lock, table, logged, trigger, row, before, web>>

Reply ==
  /\ pc = "sweep" /\ ~expired
  /\ pc' = "harvest"
  /\ UNCHANGED <<lock, table, logged, trigger, expired, row, before, web>>

\* The host has a record, or takes the first free slot, or finds none.
Harvest ==
  /\ pc = "harvest" /\ lock = "discovery"
  /\ \/ \E s \in InUse(table) :
          table' = [table EXCEPT ![s] = IF @ = "fresh" THEN @ ELSE "online"]
     \/ \E s \in Slot \ InUse(table) :
          /\ \A other \in Slot \ InUse(table) : s <= other
          /\ table' = [table EXCEPT ![s] = "fresh"]
     \/ InUse(table) = Slot /\ UNCHANGED table
  /\ Leave("sweep")
  /\ UNCHANGED logged

DrainDone ==
  /\ pc = "sweep" /\ expired
  /\ pc' = "resolve"
  /\ UNCHANGED <<lock, table, logged, trigger, expired, row, before, web>>

\* resolve_hostnames() looks for a device without a name, and asks mDNS if
\* there is one.
resolve_hostnames ==
  /\ pc = "resolve" /\ lock = "discovery"
  /\ \E next \in {"apply", "age"} : Leave(next)
  /\ UNCHANGED <<table, logged>>

\* It writes a host name and a class, which are left out here, into at most one
\* record.  The mutex is taken for each address of each answer; one section
\* stands for those of the pass.
apply_mdns_result ==
  /\ pc = "apply" /\ lock = "discovery"
  /\ Leave("age")
  /\ UNCHANGED <<table, logged>>

NextRow(p) ==
  /\ pc = p /\ lock = "discovery"
  /\ row < INV_MAX_DEVICES
  /\ row' = row + 1
  /\ UNCHANGED <<lock, trigger, expired, pc, before, web>>

age_row ==
  /\ NextRow("age")
  /\ \/ UNCHANGED table
     \/ table[row] = "online" /\ table' = [table EXCEPT ![row] = "offline"]
  /\ UNCHANGED logged

age_unseen ==
  /\ pc = "age" /\ lock = "discovery"
  /\ row = INV_MAX_DEVICES
  /\ Leave("diff")
  /\ UNCHANGED <<table, logged>>

diff_row ==
  /\ NextRow("diff")
  /\ table' = [table EXCEPT ![row] = IF @ = "fresh" THEN "online" ELSE @]
  /\ \/ UNCHANGED logged
     \/ /\ table[row] # "free"
        /\ logged < MAX_EVENTS
        /\ logged' = logged + 1

anomaly_run ==
  /\ pc = "diff" /\ lock = "discovery"
  /\ row = INV_MAX_DEVICES
  /\ Leave("copy")
  /\ UNCHANGED <<table, logged>>

\* on_scan_complete() copies the newest events, and the pass is over.
on_scan_complete ==
  /\ pc = "copy" /\ lock = "discovery"
  /\ Leave("wait")
  /\ UNCHANGED <<table, logged>>

Wake ==
  /\ pc = "wait"
  /\ pc' = "start"
  /\ trigger' = FALSE
  /\ UNCHANGED <<lock, table, logged, expired, row, before, web>>

WakeOnPress    == trigger /\ Wake
WakeOnInterval == Wake

-----------------------------------------------------------------------------
(* The task of the HTTP server.                                            *)

\* A request comes in; without the password it is answered at once.
Receive ==
  /\ request = "none"
  /\ request' \in Reading \cup {"scan", "answer"}
  /\ UNCHANGED <<lock, table, logged, discovery, line, listing, total, answer>>

Open ==
  /\ request \in Reading
  /\ lock # "httpd"
  /\ inv_lock("httpd")
  /\ UNCHANGED <<table, logged, discovery, web>>

Close ==
  /\ inv_unlock("httpd")
  /\ line' = 0 /\ listing' = NoLines /\ total' = 0
  /\ request' = "answer"
  /\ UNCHANGED <<table, logged, discovery>>

\* Mutant of SendLine: after a send that failed the list is begun again.
SendLineAgain ==
  /\ request = "devices" /\ lock = "httpd"
  /\ line < INV_MAX_DEVICES
  /\ \/ listing' = [listing EXCEPT ![line] = table[line]] /\ line' = line + 1
     \/ listing' = NoLines /\ line' = 0
  /\ UNCHANGED <<lock, table, logged, discovery, request, total, answer>>

\* devices_handler() formats a line and sends it; the client may take its time.
\* A send that fails makes no difference to the loop.  inv_next() skips a slot
\* that is free: nothing is sent, and the list stays as it is.
SendLine ==
  /\ request = "devices" /\ lock = "httpd"
  /\ line < INV_MAX_DEVICES
  /\ listing' = [listing EXCEPT ![line] = table[line]]
  /\ line' = line + 1
  /\ UNCHANGED <<lock, table, logged, discovery, request, total, answer>>

devices_handler ==
  /\ request = "devices" /\ lock = "httpd"
  /\ line = INV_MAX_DEVICES
  /\ answer' = Devices(listing)
  /\ Close

\* Mutant of inv_count_total: each count is a critical section of its own.
inv_count_total_apart ==
  /\ request = "stats"
  /\ line = 0
  /\ inv_unlock("httpd")
  /\ total' = Cardinality(InUse(table))
  /\ line' = 1
  /\ UNCHANGED <<table, logged, discovery, request, listing, answer>>

inv_count_total ==
  /\ request = "stats" /\ lock = "httpd"
  /\ line = 0
  /\ total' = Cardinality(InUse(table))
  /\ line' = 1
  /\ UNCHANGED <<lock, table, logged, discovery, request, listing, answer>>

stats_handler ==
  /\ request = "stats" /\ lock = "httpd"
  /\ line = 1
  /\ answer' = [kind |-> "stats", total |-> total,
                online |-> Cardinality(Online(table))]
  /\ Close

events_handler ==
  /\ request = "events" /\ lock = "httpd"
  /\ answer' = Events(logged)
  /\ Close

scan_handler ==
  /\ request = "scan"
  /\ trigger' = TRUE
  /\ request' = "answer"
  /\ UNCHANGED <<lock, table, logged, expired, pc, row, before,
                 line, listing, total, answer>>

\* The rest of the response is sent, without the mutex.
Respond ==
  /\ request = "answer"
  /\ request' = "none"
  /\ answer' = Nothing
  /\ UNCHANGED <<lock, table, logged, discovery, line, listing, total>>

-----------------------------------------------------------------------------
discovery_task ==
  \/ BeginPass \/ Reply \/ Harvest \/ DrainDone
  \/ resolve_hostnames \/ apply_mdns_result
  \/ age_row \/ age_unseen
  \/ diff_row \/ anomaly_run
  \/ on_scan_complete
  \/ WakeOnPress

Send == SendLine \/ Respond

Handle ==
  \/ devices_handler
  \/ inv_count_total \/ stats_handler
  \/ events_handler
  \/ scan_handler

Next ==
  \/ discovery_task \/ Enter \/ WakeOnInterval \/ DeadlinePasses
  \/ Receive \/ Open \/ Handle \/ Send

\* Tasks are scheduled, and the mutex goes to a task that waits for it: the one
\* that gave it back waits for the network or for replies before it wants it
\* again.  Nothing is assumed of the interval.
TaskFairness ==
  /\ WF_vars(discovery_task)
  /\ SF_vars(Enter)
  /\ WF_vars(DeadlinePasses)
  /\ SF_vars(Open)
  /\ WF_vars(Handle)

\* A send ends: the client takes the data or the socket times out.
Spec == Init /\ [][Next]_vars /\ TaskFairness /\ WF_vars(Send)

-----------------------------------------------------------------------------
TypeOK ==
  /\ lock \in {"nobody", "discovery", "httpd"}
  /\ table \in [Slot -> State]
  /\ logged \in 0 .. MAX_EVENTS
  /\ trigger \in BOOLEAN /\ expired \in BOOLEAN
  /\ pc \in {"start", "sweep", "wait"} \cup Section
  /\ row \in 0 .. INV_MAX_DEVICES
  /\ request \in {"none", "scan", "answer"} \cup Reading
  /\ line \in 0 .. INV_MAX_DEVICES
  /\ listing \in [Slot -> State]
  /\ total \in 0 .. INV_MAX_DEVICES
  /\ answer \in {Nothing}
                  \cup [kind : {"devices"}, list : [Slot -> State]]
                  \cup [kind : {"stats"}, total : 0 .. INV_MAX_DEVICES,
                        online : 0 .. INV_MAX_DEVICES]
                  \cup [kind : {"events"}, newest : 0 .. MAX_EVENTS]
  /\ before \in {Nothing} \cup [table  : [Slot -> State],
                                logged : 0 .. MAX_EVENTS]
  /\ lock = "discovery" => pc \in Section
  /\ lock = "httpd" => request \in Reading

(***************************************************************************)
(* stats_handler subtracts one unsigned count from another: a device found *)
(* between the two would make it report some four billion offline.         *)
(***************************************************************************)
StatsAddUp == answer.kind = "stats" => answer.online <= answer.total

(***************************************************************************)
(* The mutex does what it is for: readers see each section of discovery as *)
(* a whole or not at all, and each answer is of one moment.  What is there *)
(* while discovery is in a section is what was there before it.            *)
(***************************************************************************)
Seen == IF lock = "discovery" THEN before
                              ELSE [table |-> table, logged |-> logged]

Atomic == INSTANCE AtomicInventory WITH table  <- Seen.table,
                                        logged <- Seen.logged

ImplementsAtomic == Atomic!Spec

(***************************************************************************)
(* A pass that has begun ends: no handler keeps the mutex from it.         *)
(***************************************************************************)
PassEnds == pc = "sweep" ~> pc = "wait"

(***************************************************************************)
(* Every request is answered, in the middle of a pass too.                 *)
(***************************************************************************)
RequestIsAnswered == request # "none" ~> request = "none"

-----------------------------------------------------------------------------
(* What a comment says, and the code does not do.                          *)

(***************************************************************************)
(* discovery.h: a trigger is ignored if a pass is already running.         *)
(* discovery_trigger_now() does not look: it sets the bit in the middle of *)
(* a pass as well, and the task finds it when it comes to wait.            *)
(***************************************************************************)
PressIsIgnored ==
  [][pc \notin {"start", "wait"} /\ ~trigger => ~trigger']_vars
=============================================================================
