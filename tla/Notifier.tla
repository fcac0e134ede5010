------------------------------ MODULE Notifier ------------------------------
(***************************************************************************)
(* From the event log to Discord: on_scan_complete() of main/main.c copies *)
(* the newest events out of the log after each pass and hands those it has *)
(* not handed over before to main/notifier.c, whose task posts them one by *)
(* one.  A watermark in whole seconds tells the old events from the new.   *)
(*                                                                         *)
(* An event is its number since boot, and what is kept of it is the second *)
(* it was logged in.  That inv_get_events() returns the newest events is   *)
(* shown by EventRing; here they are the last ones of a sequence.  A webhook *)
(* is configured: without one, notifier_notify() returns at once.          *)
(***************************************************************************)
EXTENDS Integers, Sequences

CONSTANTS
  BATCH,              \* length of buf in on_scan_complete
  NOTIFY_QUEUE_LEN,   \* capacity of s_queue
  DISC_PING_TIMEOUT,  \* seconds of the final drain of a pass
  MAX_UPTIME,         \* bound: seconds modelled between two power cycles
  MAX_EVENTS          \* bound: events modelled between two power cycles

ASSUME NotifierAssumption ==
  /\ BATCH \in Nat \ {0}
  /\ NOTIFY_QUEUE_LEN \in Nat \ {0}
  /\ DISC_PING_TIMEOUT \in Nat \ {0}
  /\ MAX_UPTIME \in Nat
  /\ MAX_EVENTS \in Nat

VARIABLES
  now,                 \* seconds since boot
  pc,                  \* where the discovery task is
  deadline,            \* second at which the final drain may end
  stamp,               \* stamp[k]: the second event k was logged in
  at,                  \* on_scan_complete: the event buf[i - 1]
  s_last_notified_ts,  \* the watermark
  newest_seen,         \* on_scan_complete: the watermark to be
  s_queue,             \* the queue of notifier.c
  msg,                 \* notifier_task: the alert being posted, 0 for none
  sent,                \* history: what Discord accepted, in order
  dropped,             \* history: alerts the queue or the POST refused
  passed,              \* history: events logged up to the last pass
  overrun              \* history: events left behind by inv_get_events()

scan    == <<pc, deadline, at, newest_seen, s_last_notified_ts>>
history == <<sent, dropped, passed, overrun>>
vars    == <<now, scan, stamp, s_queue, msg, history>>

Larger(a, b) == IF a > b THEN a ELSE b

Init ==
  /\ now = 0
  /\ pc = "wait" /\ deadline = 0 /\ at = 1
  /\ newest_seen = 0 /\ s_last_notified_ts = 0
  /\ stamp = <<>>
  /\ s_queue = <<>> /\ msg = 0
  /\ sent = <<>> /\ dropped = {} /\ passed = 0 /\ overrun = {}

Tick ==
  /\ now < MAX_UPTIME
  /\ now' = now + 1
  /\ UNCHANGED <<scan, stamp, s_queue, msg, history>>

\* A power cycle loses the log, the queue and the watermark.
Restart ==
  /\ now' = 0
  /\ pc' = "wait" /\ deadline' = 0 /\ at' = 1
  /\ newest_seen' = 0 /\ s_last_notified_ts' = 0
  /\ stamp' = <<>>
  /\ s_queue' = <<>> /\ msg' = 0
  /\ sent' = <<>> /\ dropped' = {} /\ passed' = 0 /\ overrun' = {}

-----------------------------------------------------------------------------
(* The discovery task.                                                     *)

\* Mutant of Sweep: no final drain.
SweepNoDrain ==
  /\ pc = "wait"
  /\ pc' = "drain"
  /\ deadline' = now
  /\ UNCHANGED <<now, at, newest_seen, s_last_notified_ts, stamp, s_queue,
                 msg, history>>

\* A pass, up to its final drain.
Sweep ==
  /\ pc = "wait"
  /\ pc' = "drain"
  /\ deadline' = now + DISC_PING_TIMEOUT
  /\ UNCHANGED <<now, at, newest_seen, s_last_notified_ts, stamp, s_queue,
                 msg, history>>

\* The pass is over: on_scan_complete() calls anomaly_run().
DrainDone ==
  /\ pc = "drain"
  /\ now >= deadline
  /\ pc' = "diff"
  /\ UNCHANGED <<now, deadline, at, newest_seen, s_last_notified_ts, stamp,
                 s_queue, msg, history>>

\* anomaly_run() logs an event.
inv_log_event ==
  /\ pc = "diff"
  /\ Len(stamp) < MAX_EVENTS
  /\ stamp' = Append(stamp, now)
  /\ UNCHANGED <<now, scan, s_queue, msg, history>>

\* buf holds the newest BATCH events; the loop begins with the oldest of them.
inv_get_events ==
  /\ pc = "diff"
  /\ pc' = "forward"
  /\ at' = Larger(1, Len(stamp) - BATCH + 1)
  /\ newest_seen' = s_last_notified_ts
  /\ overrun' = overrun \cup (passed + 1 .. at' - 1)
  /\ UNCHANGED <<now, deadline, s_last_notified_ts, stamp, s_queue, msg,
                 sent, dropped, passed>>

\* Mutant of notifier_notify: one alert more than the queue holds.
notifier_notify_overfull(e) ==
  IF Len(s_queue) <= NOTIFY_QUEUE_LEN
    THEN s_queue' = Append(s_queue, e) /\ UNCHANGED dropped
    ELSE dropped' = dropped \cup {e} /\ UNCHANGED s_queue

\* xQueueSend() without waiting: a full queue refuses the alert.
notifier_notify(e) ==
  IF Len(s_queue) < NOTIFY_QUEUE_LEN
    THEN s_queue' = Append(s_queue, e) /\ UNCHANGED dropped
    ELSE dropped' = dropped \cup {e} /\ UNCHANGED s_queue

\* Mutant of IsNew: the second of the watermark is forwarded again.
IsNewAgain(e) == stamp[e] >= s_last_notified_ts

IsNew(e) == stamp[e] > s_last_notified_ts

\* One iteration of the loop.
Walk ==
  /\ pc = "forward"
  /\ at <= Len(stamp)
  /\ IF IsNew(at)
       THEN /\ notifier_notify(at)
            /\ newest_seen' = Larger(newest_seen, stamp[at])
       ELSE UNCHANGED <<s_queue, dropped, newest_seen>>
  /\ at' = at + 1
  /\ UNCHANGED <<now, pc, deadline, s_last_notified_ts, stamp, msg,
                 sent, passed, overrun>>

WalkDone ==
  /\ pc = "forward"
  /\ at > Len(stamp)
  /\ s_last_notified_ts' = newest_seen
  /\ pc' = "wait"
  /\ passed' = Len(stamp)
  /\ UNCHANGED <<now, deadline, at, newest_seen, stamp, s_queue, msg,
                 sent, dropped, overrun>>

-----------------------------------------------------------------------------
(* The task of the notifier.                                               *)

xQueueReceive ==
  /\ msg = 0
  /\ s_queue # <<>>
  /\ msg' = Head(s_queue)
  /\ s_queue' = Tail(s_queue)
  /\ UNCHANGED <<now, scan, stamp, history>>

\* Mutant of post_one: an alert that was not accepted is queued again.
post_one_requeued ==
  /\ msg # 0
  /\ msg' = 0
  /\ \/ sent' = Append(sent, msg) /\ UNCHANGED <<dropped, s_queue>>
     \/ /\ Len(s_queue) < NOTIFY_QUEUE_LEN
        /\ s_queue' = Append(s_queue, msg)
        /\ UNCHANGED <<sent, dropped>>
  /\ UNCHANGED <<now, scan, stamp, passed, overrun>>

\* The POST is answered with 2xx; or it is refused, fails, or times out.
post_one ==
  /\ msg # 0
  /\ msg' = 0
  /\ \/ sent' = Append(sent, msg) /\ UNCHANGED dropped
     \/ dropped' = dropped \cup {msg} /\ UNCHANGED sent
  /\ UNCHANGED <<now, scan, stamp, s_queue, passed, overrun>>

-----------------------------------------------------------------------------
on_scan_complete == inv_get_events \/ Walk \/ WalkDone

discovery_task == Sweep \/ DrainDone \/ inv_log_event \/ on_scan_complete

notifier_task == xQueueReceive \/ post_one

Next == Tick \/ Restart \/ discovery_task \/ notifier_task

\* The notifier task is scheduled, and a POST ends within its timeout.
Spec == Init /\ [][Next]_vars /\ WF_vars(notifier_task)

-----------------------------------------------------------------------------
Logged == 1 .. Len(stamp)

TypeOK ==
  /\ now \in 0 .. MAX_UPTIME
  /\ pc \in {"wait", "drain", "diff", "forward"}
  /\ deadline \in Nat
  /\ stamp \in Seq(Nat) /\ Len(stamp) <= MAX_EVENTS
  /\ at \in Nat \ {0}
  /\ s_last_notified_ts \in Nat
  /\ newest_seen \in Nat
  /\ s_queue \in Seq(Logged) /\ Len(s_queue) <= NOTIFY_QUEUE_LEN
  /\ msg \in {0} \cup Logged
  /\ sent \in Seq(Logged)
  /\ dropped \subseteq Logged
  /\ passed \in 0 .. Len(stamp)
  /\ overrun \subseteq Logged

\* Every alert handed to the notifier and not dropped, oldest first.
Pipeline == sent \o (IF msg = 0 THEN <<>> ELSE <<msg>>) \o s_queue

HandedOver == {Pipeline[k] : k \in DOMAIN Pipeline} \cup dropped

(***************************************************************************)
(* No alert is posted twice, and Discord sees them in the order they were  *)
(* logged, whatever the queue and the network lose on the way.             *)
(***************************************************************************)
OnceInOrder ==
  \A j, k \in DOMAIN Pipeline : j < k => Pipeline[j] < Pipeline[k]

(***************************************************************************)
(* When a pass is over, an event has been handed to the notifier unless    *)
(* BATCH later ones of its pass pushed it out of the copy.  A comparison   *)
(* of whole seconds finds all new events only because the final drain      *)
(* keeps two passes, and the boot and the first pass, a second apart.      *)
(***************************************************************************)
NothingOverlooked ==
  pc = "wait" => Logged \subseteq HandedOver \cup overrun

(***************************************************************************)
(* An alert in the queue, or being posted, does not stay there: a POST     *)
(* that fails is not tried again and does not hold up the next.            *)
(***************************************************************************)
EveryAlertEnds ==
  \A e \in 1 .. MAX_EVENTS :
    (msg = e \/ \E k \in DOMAIN s_queue : s_queue[k] = e)
      ~> ~(msg = e \/ \E k \in DOMAIN s_queue : s_queue[k] = e)

(***************************************************************************)
(* Hook, queue and task together deliver as AlertDelivery promises: the    *)
(* comments "Discord order is chronological" of main.c and "silently       *)
(* dropped" of notifier.h, across every step of both tasks.  In particular *)
(* an alert refused once is never posted later by way of a next pass.      *)
(***************************************************************************)
Delivery ==
  INSTANCE AlertDelivery WITH logged <- Len(stamp), lost <- dropped \cup overrun

ImplementsDelivery == Delivery!Spec
=============================================================================
