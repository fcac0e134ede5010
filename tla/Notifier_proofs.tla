--------------------------- MODULE Notifier_proofs ---------------------------
(***************************************************************************)
(* No alert is posted twice or out of order, and none is overlooked, for   *)
(* any length of the copy, of the queue and of the uptime.                 *)
(*                                                                         *)
(* Three facts make it so.  Clocked: the watermark separates the events of *)
(* the passes that are over from those of the current one, because at      *)
(* least one second passes in the final drain between the two.  Ordered:   *)
(* what is on its way to Discord is in the order of the log, and comes     *)
(* before the event the loop of on_scan_complete() is at.  Covered: an     *)
(* event behind the loop is on its way, or was lost where it may be.       *)
(***************************************************************************)
EXTENDS Notifier, SequenceTheorems, TLAPS

Clocked ==
  /\ \A j, k \in 1 .. Len(stamp) : j <= k => stamp[j] <= stamp[k]
  /\ \A k \in 1 .. Len(stamp) : stamp[k] <= now
  /\ s_last_notified_ts <= now
  /\ \A k \in 1 .. Len(stamp) : k <= passed <=> stamp[k] <= s_last_notified_ts
  /\ pc \in {"wait", "drain"} => passed = Len(stamp)
  /\ pc = "drain" => s_last_notified_ts < deadline
  /\ pc \in {"diff", "forward"} => s_last_notified_ts < now

\* The loop ends with the newest stamp of the log in newest_seen.
Walking ==
  pc = "forward" =>
    /\ at <= Len(stamp) + 1
    /\ s_last_notified_ts <= newest_seen /\ newest_seen <= now
    /\ at <= Len(stamp)
         \/ \A k \in 1 .. Len(stamp) : stamp[k] <= newest_seen

Behind(e) == e <= passed \/ (pc = "forward" /\ e < at)

WasSent(e) == \E j \in 1 .. Len(sent) : sent[j] = e

Waits(e) == \E k \in 1 .. Len(s_queue) : s_queue[k] = e

InFlight(e) == WasSent(e) \/ (msg # 0 /\ msg = e) \/ Waits(e)

Ordered ==
  /\ \A j, k \in 1 .. Len(sent) : j < k => sent[j] < sent[k]
  /\ \A j, k \in 1 .. Len(s_queue) : j < k => s_queue[j] < s_queue[k]
  /\ \A j \in 1 .. Len(sent), k \in 1 .. Len(s_queue) : sent[j] < s_queue[k]
  /\ msg # 0 => /\ \A j \in 1 .. Len(sent) : sent[j] < msg
                /\ \A k \in 1 .. Len(s_queue) : msg < s_queue[k]

NotAhead == \A e \in Logged : InFlight(e) => Behind(e)

Covered ==
  \A e \in Logged : Behind(e) => InFlight(e) \/ e \in dropped \cup overrun

IInv == TypeOK /\ Clocked /\ Walking /\ Ordered /\ NotAhead /\ Covered

-----------------------------------------------------------------------------
LEMMA Beginning == Init => IInv
  BY NotifierAssumption
  DEF Init, IInv, TypeOK, Clocked, Walking, Ordered, NotAhead, Covered,
      Behind, InFlight, WasSent, Waits, Logged

LEMMA RestartGood == Restart => IInv'
  BY NotifierAssumption
  DEF Restart, IInv, TypeOK, Clocked, Walking, Ordered, NotAhead, Covered,
      Behind, InFlight, WasSent, Waits, Logged

-----------------------------------------------------------------------------
(* Steps of the discovery task that hand nothing over: what is on its way  *)
(* stays as it is.                                                         *)

LEMMA Untouched ==
  ASSUME UNCHANGED <<sent, msg, s_queue>>
  PROVE  /\ Ordered => Ordered'
         /\ \A e : InFlight(e)' <=> InFlight(e)
  BY DEF Ordered, InFlight, WasSent, Waits

\* What is on its way was logged.
LEMMA OnItsWayIsLogged ==
  ASSUME IInv, NEW e, InFlight(e)
  PROVE  e \in Logged
<1>1. \A j \in 1 .. Len(sent) : sent[j] \in Logged
  <2>1. sent \in Seq(Logged)
    BY DEF IInv, TypeOK
  <2> QED
    BY <2>1
<1>2. \A k \in 1 .. Len(s_queue) : s_queue[k] \in Logged
  <2>1. s_queue \in Seq(Logged)
    BY DEF IInv, TypeOK
  <2> QED
    BY <2>1
<1>3. msg # 0 => msg \in Logged
  BY DEF IInv, TypeOK
<1> QED
  BY <1>1, <1>2, <1>3 DEF InFlight, WasSent, Waits

LEMMA TickGood == IInv /\ Tick => IInv'
<1> SUFFICES ASSUME IInv, Tick
             PROVE  IInv'
  OBVIOUS
<1>1. TypeOK'
  BY NotifierAssumption DEF IInv, Tick, TypeOK, scan, history, Logged
<1> now' = now + 1 /\ now \in Nat /\ s_last_notified_ts \in Nat
      /\ UNCHANGED <<pc, deadline, at, newest_seen, s_last_notified_ts, stamp,
                     passed>>
  BY DEF IInv, Tick, TypeOK, scan, history
<1>4. \A k \in 1 .. Len(stamp) : stamp[k] \in Nat
  BY DEF IInv, TypeOK
<1>5. Clocked'
  BY <1>4 DEF IInv, Clocked
<1>6. Walking'
  BY DEF IInv, TypeOK, Walking
<1>2. Ordered' /\ \A e : InFlight(e)' <=> InFlight(e)
  BY Untouched DEF IInv, Tick, history
<1>3. NotAhead' /\ Covered'
  BY <1>2 DEF IInv, Tick, NotAhead, Covered, Behind, Logged, scan, history
<1> QED
  BY <1>1, <1>2, <1>3, <1>5, <1>6 DEF IInv

LEMMA SweepGood == IInv /\ Sweep => IInv'
<1> SUFFICES ASSUME IInv, Sweep
             PROVE  IInv'
  OBVIOUS
<1>1. TypeOK' /\ Clocked' /\ Walking'
  BY NotifierAssumption
  DEF IInv, Sweep, TypeOK, Clocked, Walking, history, Logged
<1>2. Ordered' /\ \A e : InFlight(e)' <=> InFlight(e)
  BY Untouched DEF IInv, Sweep, history
<1>3. NotAhead' /\ Covered'
  BY <1>2 DEF IInv, Sweep, NotAhead, Covered, Behind, Logged, history
<1> QED
  BY <1>1, <1>2, <1>3 DEF IInv

LEMMA DrainGood == IInv /\ DrainDone => IInv'
<1> SUFFICES ASSUME IInv, DrainDone
             PROVE  IInv'
  OBVIOUS
<1>1. TypeOK' /\ Clocked' /\ Walking'
  BY DEF IInv, DrainDone, TypeOK, Clocked, Walking, history, Logged
<1>2. Ordered' /\ \A e : InFlight(e)' <=> InFlight(e)
  BY Untouched DEF IInv, DrainDone, history
<1>3. NotAhead' /\ Covered'
  BY <1>2 DEF IInv, DrainDone, NotAhead, Covered, Behind, Logged, history
<1> QED
  BY <1>1, <1>2, <1>3 DEF IInv

LEMMA LogGood == IInv /\ inv_log_event => IInv'
<1> SUFFICES ASSUME IInv, inv_log_event
             PROVE  IInv'
  OBVIOUS
<1>1. /\ Len(stamp') = Len(stamp) + 1
      /\ \A k \in 1 .. Len(stamp) : stamp'[k] = stamp[k]
      /\ stamp'[Len(stamp) + 1] = now
      /\ stamp' \in Seq(Nat)
  BY DEF IInv, inv_log_event, TypeOK
<1> Len(stamp) \in Nat /\ Len(stamp) < MAX_EVENTS
  BY DEF IInv, inv_log_event, TypeOK
<1>9. Logged \subseteq Logged'
  BY <1>1 DEF Logged
<1>2. \A s \in Seq(Logged) : s \in Seq(Logged')
  BY <1>9
<1>3. TypeOK'
  <2>1. s_queue' \in Seq(Logged') /\ sent' \in Seq(Logged')
    BY <1>2 DEF IInv, TypeOK, inv_log_event, history
  <2>2. /\ msg' \in {0} \cup Logged'
        /\ dropped' \subseteq Logged'
        /\ overrun' \subseteq Logged'
    BY <1>9 DEF IInv, TypeOK, inv_log_event, history
  <2>3. Len(stamp') <= MAX_EVENTS /\ passed' \in 0 .. Len(stamp')
    BY <1>1, NotifierAssumption DEF IInv, TypeOK, inv_log_event, history
  <2> QED
    BY <1>1, <2>1, <2>2, <2>3 DEF IInv, inv_log_event, TypeOK, scan, history
<1>4. Clocked' /\ Walking'
  BY <1>1 DEF IInv, inv_log_event, TypeOK, Clocked, Walking, scan, history
<1>5. Ordered' /\ \A e : InFlight(e)' <=> InFlight(e)
  BY Untouched DEF IInv, inv_log_event, history
<1>6. \A e : Behind(e)' <=> Behind(e)
  BY DEF Behind, inv_log_event, scan, history
<1>7. NotAhead'
  <2> SUFFICES ASSUME NEW e \in Logged', InFlight(e)
               PROVE  Behind(e)
    BY <1>5, <1>6 DEF NotAhead
  <2>1. e \in Logged
    BY OnItsWayIsLogged
  <2> QED
    BY <2>1 DEF IInv, NotAhead
<1>8. Covered'
  <2> SUFFICES ASSUME NEW e \in Logged', Behind(e)
               PROVE  InFlight(e) \/ e \in dropped \cup overrun
    BY <1>5, <1>6 DEF Covered, inv_log_event, history
  <2>1. e <= Len(stamp) /\ e \in Nat \ {0}
    BY <1>1 DEF IInv, TypeOK, Behind, inv_log_event, Logged
  <2>2. e \in Logged
    BY <1>1, <2>1 DEF Logged
  <2> QED
    BY <2>2 DEF IInv, Covered
<1> QED
  BY <1>3, <1>4, <1>5, <1>7, <1>8 DEF IInv

LEMMA CopyGood == IInv /\ inv_get_events => IInv'
<1> SUFFICES ASSUME IInv, inv_get_events
             PROVE  IInv'
  OBVIOUS
<1>1. /\ at' \in 1 .. Len(stamp) + 1
      /\ Len(stamp) # 0 => at' <= Len(stamp)
  BY NotifierAssumption DEF IInv, inv_get_events, TypeOK, Larger
<1>2. \A e \in Logged :
        e \in overrun' <=> e \in overrun \/ (passed < e /\ e < at')
  BY <1>1 DEF IInv, inv_get_events, TypeOK, Logged
<1>3. overrun' \subseteq Logged
  <2>1. overrun' = overrun \cup (passed + 1 .. at' - 1)
    BY DEF inv_get_events
  <2>2. passed \in Nat /\ Len(stamp) \in Nat /\ overrun \subseteq Logged
    BY DEF IInv, TypeOK
  <2>3. passed + 1 .. at' - 1 \subseteq 1 .. Len(stamp)
    <3>1. \A a, b, n \in Nat : b <= n + 1 => a + 1 .. b - 1 \subseteq 1 .. n
      OBVIOUS
    <3>2. at' \in Nat /\ at' <= Len(stamp) + 1
      BY <1>1, <2>2
    <3> QED
      BY <2>2, <3>1, <3>2, Zenon
  <2> QED
    BY <2>1, <2>2, <2>3 DEF Logged
<1>4. TypeOK'
  BY <1>1, <1>3 DEF IInv, inv_get_events, TypeOK, Logged
<1>5. Clocked' /\ Walking'
  BY <1>1 DEF IInv, inv_get_events, TypeOK, Clocked, Walking
<1>6. Ordered' /\ \A e : InFlight(e)' <=> InFlight(e)
  BY Untouched DEF IInv, inv_get_events
<1>7. NotAhead'
  BY <1>6 DEF IInv, NotAhead, Behind, inv_get_events, Logged
<1>8. Covered'
  BY <1>1, <1>2, <1>6
  DEF IInv, TypeOK, Covered, Behind, inv_get_events, Logged
<1> QED
  BY <1>4, <1>5, <1>6, <1>7, <1>8 DEF IInv

LEMMA WalkDoneGood == IInv /\ WalkDone => IInv'
<1> SUFFICES ASSUME IInv, WalkDone
             PROVE  IInv'
  OBVIOUS
<1>1. TypeOK'
  BY DEF IInv, WalkDone, TypeOK, Logged
<1>2. Clocked' /\ Walking'
  BY DEF IInv, WalkDone, TypeOK, Clocked, Walking
<1>3. Ordered' /\ \A e : InFlight(e)' <=> InFlight(e)
  BY Untouched DEF IInv, WalkDone
<1>4. \A e \in Logged : Behind(e) /\ Behind(e)'
  BY DEF IInv, TypeOK, WalkDone, Behind, Logged
<1>5. NotAhead' /\ Covered'
  BY <1>3, <1>4 DEF IInv, NotAhead, Covered, WalkDone, Logged
<1> QED
  BY <1>1, <1>2, <1>3, <1>5 DEF IInv

-----------------------------------------------------------------------------
(* The loop of on_scan_complete().                                         *)

\* An event the watermark calls new is one of this pass, and everything on its
\* way was logged before it.
LEMMA NewIsAhead ==
  ASSUME IInv, pc = "forward", at \in Logged, IsNew(at)
  PROVE  ~Behind(at) /\ \A e \in Logged : InFlight(e) => e < at
  BY DEF IInv, TypeOK, Clocked, NotAhead, Behind, IsNew, Logged

LEMMA Enqueued ==
  ASSUME IInv, at \in Logged, s_queue' = Append(s_queue, at),
         UNCHANGED <<sent, msg>>,
         \A e \in Logged : InFlight(e) => e < at
  PROVE  /\ Ordered'
         /\ \A e \in Logged : InFlight(e)' <=> InFlight(e) \/ e = at
<1>1. /\ Len(s_queue') = Len(s_queue) + 1
      /\ \A k \in 1 .. Len(s_queue) : s_queue'[k] = s_queue[k]
      /\ s_queue'[Len(s_queue) + 1] = at
  BY DEF IInv, TypeOK
<1>2. Len(s_queue) \in Nat
  BY DEF IInv, TypeOK
<1>3. \A e : Waits(e)' <=> Waits(e) \/ e = at
  BY <1>1, <1>2 DEF Waits
<1>4. \A e \in Logged : InFlight(e)' <=> InFlight(e) \/ e = at
  BY <1>3 DEF InFlight, WasSent
<1>5. \A k \in 1 .. Len(s_queue) : s_queue[k] < at
  <2>1. \A k \in 1 .. Len(s_queue) : s_queue[k] \in Logged
    BY DEF IInv, TypeOK
  <2> QED
    BY <2>1 DEF InFlight, Waits
<1>6. \A j \in 1 .. Len(sent) : sent[j] < at
  <2>1. \A j \in 1 .. Len(sent) : sent[j] \in Logged
    BY DEF IInv, TypeOK
  <2> QED
    BY <2>1 DEF InFlight, WasSent
<1>7. msg # 0 => msg < at
  BY DEF IInv, TypeOK, InFlight
<1>8. Ordered'
  BY <1>1, <1>2, <1>5, <1>6, <1>7 DEF IInv, TypeOK, Ordered
<1> QED
  BY <1>4, <1>8

LEMMA WalkGood == IInv /\ Walk => IInv'
<1> SUFFICES ASSUME IInv, Walk
             PROVE  IInv'
  OBVIOUS
<1>1. at \in Logged /\ pc = "forward" /\ pc' = "forward" /\ at' = at + 1
  BY DEF IInv, TypeOK, Walk, Logged
<1>2. \A e \in Logged : Behind(e)' <=> Behind(e) \/ e = at
  BY <1>1 DEF IInv, TypeOK, Walk, Behind, Logged
<1>3. Clocked'
  BY DEF IInv, Clocked, Walk
<1>4. Walking'
  <2>1. stamp[at] \in Nat /\ stamp[at] <= now
    BY <1>1 DEF IInv, TypeOK, Clocked, Logged
  <2>2. newest_seen' \in Nat /\ newest_seen <= newest_seen'
          /\ newest_seen' <= now /\ stamp[at] <= newest_seen'
    BY <1>1, <2>1 DEF IInv, TypeOK, Walking, Walk, IsNew, Larger
  <2>3. \A k \in 1 .. Len(stamp) : k <= at => stamp[k] <= stamp[at]
    BY <1>1 DEF IInv, Clocked, Logged
  <2>4. at = Len(stamp) => \A k \in 1 .. Len(stamp) : stamp[k] <= newest_seen'
    BY <2>1, <2>2, <2>3 DEF IInv, TypeOK
  <2> QED
    BY <1>1, <2>2, <2>4 DEF IInv, TypeOK, Walking, Walk, Logged
<1>5. CASE ~IsNew(at)
  <2>1. Behind(at)
    BY <1>1, <1>5 DEF IInv, TypeOK, Clocked, Behind, IsNew, Logged
  <2>2. Ordered' /\ \A e : InFlight(e)' <=> InFlight(e)
    BY <1>5, Untouched DEF IInv, Walk
  <2>3. TypeOK'
    <3>1. UNCHANGED <<now, deadline, s_last_notified_ts, stamp, msg, sent,
                      passed, overrun, s_queue, dropped, newest_seen>>
      BY <1>5 DEF Walk
    <3>2. at' \in Nat \ {0}
      BY <1>1 DEF IInv, TypeOK
    <3>3. Logged' = Logged
      BY <3>1 DEF Logged
    <3> QED
      BY <1>1, <3>1, <3>2, <3>3, Zenon DEF IInv, TypeOK
  <2>4. NotAhead' /\ Covered'
    BY <1>2, <1>5, <2>1, <2>2 DEF IInv, NotAhead, Covered, Walk, Logged
  <2> QED
    BY <1>3, <1>4, <2>2, <2>3, <2>4 DEF IInv
<1>6. CASE IsNew(at) /\ Len(s_queue) < NOTIFY_QUEUE_LEN
  <2>1. \A e \in Logged : InFlight(e) => e < at
    BY <1>1, <1>6, NewIsAhead
  <2>2. s_queue' = Append(s_queue, at) /\ dropped' = dropped
    BY <1>6 DEF Walk, notifier_notify
  <2>3. Ordered' /\ \A e \in Logged : InFlight(e)' <=> InFlight(e) \/ e = at
    BY <1>1, <2>1, <2>2, Enqueued DEF Walk
  <2>4. s_queue' \in Seq(Logged) /\ Len(s_queue') <= NOTIFY_QUEUE_LEN
    BY <1>1, <1>6, <2>2, NotifierAssumption DEF IInv, TypeOK
  <2>5. newest_seen' \in Nat
    BY <1>1, <1>6 DEF IInv, TypeOK, Walk, Larger, Logged
  <2>6. TypeOK'
    <3>1. UNCHANGED <<now, deadline, s_last_notified_ts, stamp, msg, sent,
                      passed, overrun>>
      BY DEF Walk
    <3>2. at' \in Nat \ {0}
      BY <1>1 DEF IInv, TypeOK
    <3>3. Logged' = Logged
      BY <3>1 DEF Logged
    <3> QED
      BY <1>1, <2>2, <2>4, <2>5, <3>1, <3>2, <3>3, Zenon DEF IInv, TypeOK
  <2>7. NotAhead' /\ Covered'
    BY <1>2, <2>2, <2>3 DEF IInv, NotAhead, Covered, Walk, Logged
  <2> QED
    BY <1>3, <1>4, <2>3, <2>6, <2>7 DEF IInv
<1>7. CASE IsNew(at) /\ ~(Len(s_queue) < NOTIFY_QUEUE_LEN)
  <2>1. s_queue' = s_queue /\ dropped' = dropped \cup {at}
    BY <1>7 DEF Walk, notifier_notify
  <2>2. Ordered' /\ \A e : InFlight(e)' <=> InFlight(e)
    BY <2>1, Untouched DEF IInv, Walk
  <2>3. newest_seen' \in Nat
    BY <1>1, <1>7 DEF IInv, TypeOK, Walk, Larger, Logged
  <2>4. TypeOK'
    BY <1>1, <2>1, <2>3 DEF IInv, TypeOK, Walk, Logged
  <2>5. NotAhead' /\ Covered'
    BY <1>2, <2>1, <2>2 DEF IInv, NotAhead, Covered, Walk, Logged
  <2> QED
    BY <1>3, <1>4, <2>2, <2>4, <2>5 DEF IInv
<1> QED
  BY <1>5, <1>6, <1>7
-----------------------------------------------------------------------------
(* The task of the notifier.                                               *)

\* What the task takes off the queue stays on its way.
LEMMA Received ==
  ASSUME IInv, xQueueReceive
  PROVE  \A e \in Logged : InFlight(e)' <=> InFlight(e)
<1> DEFINE n == Len(s_queue)
<1>1. /\ n \in Nat \ {0} /\ Len(s_queue') = n - 1
      /\ \A k \in 1 .. n - 1 : s_queue'[k] = s_queue[k + 1]
      /\ msg' = s_queue[1] /\ s_queue[1] \in Logged
  BY DEF IInv, TypeOK, xQueueReceive
<1>2. UNCHANGED <<stamp, sent>>
  BY DEF xQueueReceive, scan, history
<1> SUFFICES ASSUME NEW e \in Logged
             PROVE  InFlight(e)' <=> InFlight(e)
  OBVIOUS
<1>3. e # 0 /\ msg = 0
  BY DEF xQueueReceive, IInv, TypeOK, Logged
<1>4. Waits(e) <=> e = s_queue[1] \/ Waits(e)'
  <2>1. Waits(e) => e = s_queue[1] \/ Waits(e)'
    <3> SUFFICES ASSUME NEW k \in 1 .. n, s_queue[k] = e, k # 1
                 PROVE  Waits(e)'
      BY DEF Waits
    <3>1. k - 1 \in 1 .. n - 1 /\ s_queue'[k - 1] = e
      BY <1>1
    <3> QED
      BY <1>1, <3>1 DEF Waits
  <2>2. Waits(e)' => Waits(e)
    <3> SUFFICES ASSUME NEW k \in 1 .. n - 1, s_queue'[k] = e
                 PROVE  Waits(e)
      BY <1>1 DEF Waits
    <3>1. k + 1 \in 1 .. n /\ s_queue[k + 1] = e
      BY <1>1
    <3> QED
      BY <3>1 DEF Waits
  <2>3. e = s_queue[1] => Waits(e)
    BY <1>1 DEF Waits
  <2> QED
    BY <2>1, <2>2, <2>3
<1>5. WasSent(e)' <=> WasSent(e)
  BY <1>2 DEF WasSent
<1>6. (msg' # 0 /\ msg' = e) <=> e = s_queue[1]
  BY <1>1, <1>3
<1> QED
  BY <1>3, <1>4, <1>5, <1>6 DEF InFlight

LEMMA ReceiveGood == IInv /\ xQueueReceive => IInv'
<1> SUFFICES ASSUME IInv, xQueueReceive
             PROVE  IInv'
  OBVIOUS
<1> DEFINE n == Len(s_queue)
<1>1. /\ n \in Nat \ {0} /\ Len(s_queue') = n - 1
      /\ \A k \in 1 .. n - 1 : s_queue'[k] = s_queue[k + 1]
      /\ msg' = s_queue[1] /\ s_queue[1] \in Logged
      /\ s_queue' \in Seq(Logged)
  BY DEF IInv, TypeOK, xQueueReceive
<1>2. UNCHANGED <<now, pc, deadline, at, newest_seen, s_last_notified_ts,
                  stamp, sent, dropped, passed, overrun>>
  BY DEF xQueueReceive, scan, history
<1>3. TypeOK'
  <2>1. Logged' = Logged
    BY <1>2 DEF Logged
  <2>2. Len(s_queue') <= NOTIFY_QUEUE_LEN
    BY <1>1, NotifierAssumption DEF IInv, TypeOK
  <2>3. msg' \in {0} \cup Logged
    BY <1>1
  <2> QED
    BY <1>1, <1>2, <2>1, <2>2, <2>3, Zenon DEF IInv, TypeOK
<1>4. Clocked' /\ Walking'
  BY <1>2 DEF IInv, Clocked, Walking
<1>5. \A e \in Logged : InFlight(e)' <=> InFlight(e)
  BY Received
<1>6. Ordered'
  <2>1. \A j, k \in 1 .. n : j < k => s_queue[j] < s_queue[k]
    BY DEF IInv, Ordered
  <2>2. \A j \in 1 .. Len(sent), k \in 1 .. n : sent[j] < s_queue[k]
    BY DEF IInv, Ordered
  <2>3. \A k \in 1 .. n - 1 : k + 1 \in 1 .. n /\ 1 < k + 1
    BY <1>1
  <2>4. \A j, k \in 1 .. n - 1 : j < k => s_queue'[j] < s_queue'[k]
    <3> SUFFICES ASSUME NEW j \in 1 .. n - 1, NEW k \in 1 .. n - 1, j < k
                 PROVE  s_queue'[j] < s_queue'[k]
      OBVIOUS
    <3>1. j + 1 \in 1 .. n /\ k + 1 \in 1 .. n /\ j + 1 < k + 1
      BY <1>1
    <3> QED
      BY <1>1, <2>1, <3>1
  <2>5. \A j \in 1 .. Len(sent), k \in 1 .. n - 1 : sent[j] < s_queue'[k]
    BY <1>1, <2>2, <2>3
  <2>6. /\ \A j \in 1 .. Len(sent) : sent[j] < s_queue[1]
        /\ \A k \in 1 .. n - 1 : s_queue[1] < s_queue'[k]
    BY <1>1, <2>1, <2>2, <2>3
  <2>7. \A j, k \in 1 .. Len(sent) : j < k => sent[j] < sent[k]
    BY DEF IInv, Ordered
  <2> QED
    BY <1>1, <1>2, <2>4, <2>5, <2>6, <2>7 DEF Ordered
<1>7. NotAhead' /\ Covered'
  BY <1>2, <1>5 DEF IInv, NotAhead, Covered, Behind, Logged
<1> QED
  BY <1>3, <1>4, <1>6, <1>7 DEF IInv

LEMMA PostGood == IInv /\ post_one => IInv'
<1> SUFFICES ASSUME IInv, post_one
             PROVE  IInv'
  OBVIOUS
<1>1. UNCHANGED <<now, pc, deadline, at, newest_seen, s_last_notified_ts,
                  stamp, s_queue, passed, overrun>>
  BY DEF post_one, scan
<1>2. msg \in Logged /\ msg # 0 /\ msg' = 0
  BY DEF IInv, TypeOK, post_one
<1>3. Logged' = Logged
  BY <1>1 DEF Logged
<1>4. Clocked' /\ Walking'
  BY <1>1 DEF IInv, Clocked, Walking
<1>5. CASE sent' = Append(sent, msg) /\ dropped' = dropped
  <2>1. /\ Len(sent) \in Nat /\ Len(sent') = Len(sent) + 1
        /\ \A j \in 1 .. Len(sent) : sent'[j] = sent[j]
        /\ sent'[Len(sent) + 1] = msg
        /\ sent' \in Seq(Logged)
    BY <1>2, <1>5 DEF IInv, TypeOK
  <2>2. TypeOK'
    BY <1>1, <1>2, <1>3, <1>5, <2>1, Zenon DEF IInv, TypeOK
  <2>3. \A e \in Logged : InFlight(e)' <=> InFlight(e)
    <3>1. \A e : WasSent(e)' <=> WasSent(e) \/ e = msg
      BY <2>1 DEF WasSent
    <3> QED
      BY <1>1, <1>2, <3>1 DEF InFlight, Waits
  <2>4. Ordered'
    <3>1. /\ \A j \in 1 .. Len(sent) : sent[j] < msg
          /\ \A k \in 1 .. Len(s_queue) : msg < s_queue[k]
          /\ \A j \in 1 .. Len(sent), k \in 1 .. Len(s_queue) :
               sent[j] < s_queue[k]
          /\ \A j, k \in 1 .. Len(sent) : j < k => sent[j] < sent[k]
      BY <1>2 DEF IInv, Ordered
    <3>2. \A j \in 1 .. Len(sent') : j \in 1 .. Len(sent) \/ j = Len(sent) + 1
      BY <2>1
    <3>3. \A j, k \in 1 .. Len(sent') : j < k => sent'[j] < sent'[k]
      <4> SUFFICES ASSUME NEW j \in 1 .. Len(sent'), NEW k \in 1 .. Len(sent'),
                          j < k
                   PROVE  sent'[j] < sent'[k]
        OBVIOUS
      <4>1. j \in 1 .. Len(sent)
        BY <2>1, <3>2
      <4> QED
        BY <2>1, <3>1, <3>2, <4>1
    <3>4. \A j \in 1 .. Len(sent'), k \in 1 .. Len(s_queue) :
            sent'[j] < s_queue[k]
      BY <2>1, <3>1, <3>2
    <3>5. \A j, k \in 1 .. Len(s_queue) : j < k => s_queue[j] < s_queue[k]
      BY DEF IInv, Ordered
    <3> QED
      BY <1>1, <1>2, <3>3, <3>4, <3>5 DEF Ordered
  <2>5. NotAhead' /\ Covered'
    BY <1>1, <1>3, <1>5, <2>3 DEF IInv, NotAhead, Covered, Behind
  <2> QED
    BY <1>4, <2>2, <2>4, <2>5 DEF IInv
<1>6. CASE sent' = sent /\ dropped' = dropped \cup {msg}
  <2>1. dropped' \subseteq Logged
    BY <1>2, <1>6 DEF IInv, TypeOK
  <2>2. TypeOK'
    BY <1>1, <1>2, <1>3, <1>6, <2>1, Zenon DEF IInv, TypeOK
  <2>3. \A e : InFlight(e) <=> InFlight(e)' \/ e = msg
    BY <1>1, <1>2, <1>6 DEF InFlight, WasSent, Waits
  <2>4. Ordered'
    BY <1>1, <1>2, <1>6 DEF IInv, Ordered
  <2>5. NotAhead' /\ Covered'
    BY <1>1, <1>3, <1>6, <2>3 DEF IInv, NotAhead, Covered, Behind
  <2> QED
    BY <1>4, <2>2, <2>4, <2>5 DEF IInv
<1> QED
  BY <1>5, <1>6 DEF post_one

-----------------------------------------------------------------------------
LEMMA Inductive == IInv /\ [Next]_vars => IInv'
<1> SUFFICES ASSUME IInv, [Next]_vars
             PROVE  IInv'
  OBVIOUS
<1>1. CASE UNCHANGED vars
  BY <1>1 DEF IInv, TypeOK, Clocked, Walking, Ordered, NotAhead, Covered,
              Behind, InFlight, WasSent, Waits, Logged, vars, scan, history
<1>2. CASE Next
  BY <1>2, TickGood, RestartGood, SweepGood, DrainGood, LogGood, CopyGood,
     WalkGood, WalkDoneGood, ReceiveGood, PostGood
  DEF Next, discovery_task, on_scan_complete, notifier_task
<1> QED
  BY <1>1, <1>2

LEMMA Always == Spec => []IInv
  BY Beginning, Inductive, PTL DEF Spec

(***************************************************************************)
(* Every variable keeps its type: the queue never holds more than          *)
(* NOTIFY_QUEUE_LEN alerts, and only logged events are ever on their way.  *)
(***************************************************************************)
THEOREM TypeCorrect == Spec => []TypeOK
<1>1. IInv => TypeOK
  BY DEF IInv
<1> QED
  BY <1>1, Always, PTL
-----------------------------------------------------------------------------
(* Pipeline, as the sequence it is.                                        *)

\* The alert being posted, as a sequence.
Posting == IF msg = 0 THEN <<>> ELSE <<msg>>

\* A place in the pipeline is a place in one of its three parts.
LEMMA Places ==
  ASSUME TypeOK
  PROVE  LET s == Len(sent)
             m == Len(Posting)
         IN  /\ s \in Nat /\ m \in Nat /\ Len(s_queue) \in Nat
             /\ m = IF msg = 0 THEN 0 ELSE 1
             /\ DOMAIN Pipeline = 1 .. s + m + Len(s_queue)
             /\ \A i \in 1 .. s : Pipeline[i] = sent[i]
             /\ msg # 0 => Pipeline[s + 1] = msg
             /\ \A k \in 1 .. Len(s_queue) : Pipeline[s + m + k] = s_queue[k]
<1> DEFINE s == Len(sent)
           m == Len(Posting)
           front == sent \o Posting
<1>1. /\ sent \in Seq(Logged) /\ Posting \in Seq(Logged)
      /\ s_queue \in Seq(Logged)
  BY DEF TypeOK, Posting
<1>2. m = IF msg = 0 THEN 0 ELSE 1
  BY DEF Posting
<1>3. msg # 0 => Posting[1] = msg
  BY DEF Posting
<1>4. /\ front \in Seq(Logged) /\ Len(front) = s + m
      /\ \A i \in 1 .. s : front[i] = sent[i]
      /\ msg # 0 => front[s + 1] = msg
  <2> HIDE DEF Posting
  <2>1. /\ front \in Seq(Logged) /\ Len(front) = s + m
        /\ \A i \in 1 .. s + m :
             front[i] = IF i <= s THEN sent[i] ELSE Posting[i - s]
    BY <1>1, ConcatProperties
  <2>2. s \in Nat /\ m \in Nat
    BY <1>1
  <2>3. \A i \in 1 .. s : front[i] = sent[i]
    BY <2>1, <2>2
  <2>4. msg # 0 => front[s + 1] = Posting[s + 1 - s] /\ s + 1 - s = 1
    BY <1>2, <2>1, <2>2
  <2> QED
    BY <1>3, <2>1, <2>3, <2>4
<1>5. Pipeline = front \o s_queue
  BY <1>1 DEF Pipeline, Posting
<1>6. /\ Len(Pipeline) = s + m + Len(s_queue)
      /\ \A i \in 1 .. s + m + Len(s_queue) :
           Pipeline[i] = IF i <= s + m THEN front[i] ELSE s_queue[i - (s + m)]
      /\ Pipeline \in Seq(Logged)
  BY <1>1, <1>4, <1>5, ConcatProperties
<1>7. s \in Nat /\ m \in Nat /\ Len(s_queue) \in Nat
  BY <1>1
<1> HIDE DEF front
<1>8. DOMAIN Pipeline = 1 .. s + m + Len(s_queue)
  BY <1>6
<1> DEFINE q == Len(s_queue)
<1> HIDE DEF s, m, q
<1>9. \A i \in 1 .. s : Pipeline[i] = sent[i]
  BY <1>4, <1>6, <1>7 DEF q
<1>10. msg # 0 => Pipeline[s + 1] = msg
  BY <1>2, <1>4, <1>6, <1>7 DEF q
<1>11. \A k \in 1 .. q : Pipeline[s + m + k] = s_queue[k]
  <2> SUFFICES ASSUME NEW k \in 1 .. q
               PROVE  Pipeline[s + m + k] = s_queue[k]
    OBVIOUS
  <2>1. q \in Nat
    BY <1>7 DEF q
  <2> DEFINE i == s + m + k
  <2>2. i \in 1 .. s + m + q /\ ~(i <= s + m) /\ i - (s + m) = k
    BY <1>7, <2>1
  <2>3. \A x \in 1 .. s + m + q :
          ~(x <= s + m) => Pipeline[x] = s_queue[x - (s + m)]
    BY <1>6 DEF q
  <2> HIDE DEF i
  <2>4. Pipeline[i] = s_queue[k]
    BY <2>2, <2>3
  <2> QED
    BY <2>4 DEF i
<1> QED
  BY <1>2, <1>7, <1>8, <1>9, <1>10, <1>11 DEF s, m, q

(***************************************************************************)
(* No alert is posted twice, and none out of order.                        *)
(***************************************************************************)
THEOREM PostedOnceInOrder == Spec => []OnceInOrder
<1>1. IInv => OnceInOrder
  <2> SUFFICES ASSUME IInv,
                      NEW i \in DOMAIN Pipeline, NEW j \in DOMAIN Pipeline, i < j
               PROVE  Pipeline[i] < Pipeline[j]
    BY DEF OnceInOrder
  <2> DEFINE s == Len(sent)
             m == Len(Posting)
             q == Len(s_queue)
  <2>1. /\ s \in Nat /\ m \in Nat /\ q \in Nat
        /\ m = IF msg = 0 THEN 0 ELSE 1
        /\ DOMAIN Pipeline = 1 .. s + m + q
        /\ \A k \in 1 .. s : Pipeline[k] = sent[k]
        /\ msg # 0 => Pipeline[s + 1] = msg
        /\ \A k \in 1 .. q : Pipeline[s + m + k] = s_queue[k]
    BY Places DEF IInv
  <2>2. /\ \A a, b \in 1 .. s : a < b => sent[a] < sent[b]
        /\ \A a, b \in 1 .. q : a < b => s_queue[a] < s_queue[b]
        /\ \A a \in 1 .. s, b \in 1 .. q : sent[a] < s_queue[b]
        /\ msg # 0 => /\ \A a \in 1 .. s : sent[a] < msg
                      /\ \A b \in 1 .. q : msg < s_queue[b]
    BY DEF IInv, Ordered
  <2> HIDE DEF s, m, q
  <2>3. i \in 1 .. s + m + q /\ j \in 1 .. s + m + q
    BY <2>1
  <2>4. \A x \in 1 .. s + m + q :
          \/ x \in 1 .. s
          \/ msg # 0 /\ x = s + 1
          \/ x - (s + m) \in 1 .. q /\ x = s + m + (x - (s + m))
    BY <2>1
  <2>5. \A x \in 1 .. s + m + q :
          x - (s + m) \in 1 .. q => Pipeline[x] = s_queue[x - (s + m)]
    <3> SUFFICES ASSUME NEW x \in 1 .. s + m + q, x - (s + m) \in 1 .. q
                 PROVE  Pipeline[x] = s_queue[x - (s + m)]
      OBVIOUS
    <3>1. s + m + (x - (s + m)) = x
      BY <2>1
    <3>2. Pipeline[s + m + (x - (s + m))] = s_queue[x - (s + m)]
      BY <2>1
    <3> QED
      BY <3>1, <3>2
  <2>6. CASE i \in 1 .. s
    BY <2>1, <2>2, <2>3, <2>4, <2>5, <2>6
  <2>7. CASE msg # 0 /\ i = s + 1
    <3>1. j - (s + m) \in 1 .. q
      BY <2>1, <2>3, <2>4, <2>7
    <3> QED
      BY <2>1, <2>2, <2>3, <2>5, <2>7, <3>1
  <2>8. CASE i - (s + m) \in 1 .. q
    <3>1. j - (s + m) \in 1 .. q /\ i - (s + m) < j - (s + m)
      BY <2>1, <2>3, <2>4, <2>8
    <3> QED
      BY <2>2, <2>3, <2>5, <2>8, <3>1
  <2> QED
    BY <2>3, <2>4, <2>6, <2>7, <2>8
<1> QED
  BY <1>1, Always, PTL
(***************************************************************************)
(* When a pass is over, every event was handed to the notifier, but those  *)
(* that later events of the same pass pushed out of the copy.              *)
(***************************************************************************)
THEOREM NeverOverlooked == Spec => []NothingOverlooked
<1>1. IInv => NothingOverlooked
  <2> SUFFICES ASSUME IInv, pc = "wait", NEW e \in Logged
               PROVE  e \in HandedOver \cup overrun
    BY DEF NothingOverlooked
  <2>1. Behind(e)
    BY DEF IInv, TypeOK, Clocked, Behind, Logged
  <2>2. InFlight(e) \/ e \in dropped \cup overrun
    BY <2>1 DEF IInv, Covered
  <2> DEFINE s == Len(sent)
             m == Len(Posting)
             q == Len(s_queue)
  <2>3. /\ s \in Nat /\ m \in Nat /\ q \in Nat
        /\ m = IF msg = 0 THEN 0 ELSE 1
        /\ DOMAIN Pipeline = 1 .. s + m + q
        /\ \A k \in 1 .. s : Pipeline[k] = sent[k]
        /\ msg # 0 => Pipeline[s + 1] = msg
        /\ \A k \in 1 .. q : Pipeline[s + m + k] = s_queue[k]
    BY Places DEF IInv
  <2> HIDE DEF m
  <2>4. ASSUME InFlight(e)
        PROVE  \E x \in DOMAIN Pipeline : Pipeline[x] = e
    <3>1. CASE WasSent(e)
      <4>1. PICK x \in 1 .. s : sent[x] = e
        BY <3>1 DEF WasSent
      <4>2. x \in DOMAIN Pipeline
        BY <2>3
      <4> QED
        BY <2>3, <4>1, <4>2
    <3>2. CASE msg # 0 /\ msg = e
      <4>1. s + 1 \in DOMAIN Pipeline
        BY <2>3, <3>2
      <4> QED
        BY <2>3, <3>2, <4>1
    <3>3. CASE Waits(e)
      <4>1. PICK k \in 1 .. q : s_queue[k] = e
        BY <3>3 DEF Waits
      <4>2. s + m + k \in DOMAIN Pipeline
        BY <2>3
      <4> QED
        BY <2>3, <4>1, <4>2
    <3> QED
      BY <2>4, <3>1, <3>2, <3>3 DEF InFlight
  <2> QED
    BY <2>2, <2>4 DEF HandedOver
<1> QED
  BY <1>1, Always, PTL

-----------------------------------------------------------------------------
(* The two tasks implement AlertDelivery.  What has been given up lies     *)
(* behind the loop, which will therefore not come to it again, and is not  *)
(* on its way.                                                             *)

GaveUp(e) == e \in dropped \cup overrun

Apart == \A e \in Logged : GaveUp(e) => Behind(e) /\ ~InFlight(e)

\* What a step gives up was not posted.
LostBy(E) == E \subseteq Logged /\ \A e \in E : ~InFlight(e)

LEMMA CopyGivesUp ==
  ASSUME IInv, inv_get_events
  PROVE  /\ LostBy(passed + 1 .. at' - 1)
         /\ \A e \in passed + 1 .. at' - 1 : Behind(e)'
<1>1. passed \in Nat /\ Len(stamp) \in Nat /\ pc = "diff" /\ pc' = "forward"
  BY DEF IInv, TypeOK, inv_get_events
<1>2. at' \in 1 .. Len(stamp) + 1
  BY <1>1, NotifierAssumption DEF inv_get_events, Larger
<1>3. ASSUME NEW e \in passed + 1 .. at' - 1
      PROVE  e \in Logged /\ ~Behind(e) /\ Behind(e)'
  <2>1. \A a, b, n \in Nat : b <= n + 1 =>
          \A k \in a + 1 .. b - 1 : k \in 1 .. n /\ a < k /\ k < b
    OBVIOUS
  <2>2. at' \in Nat /\ at' <= Len(stamp) + 1
    BY <1>1, <1>2
  <2>3. e \in 1 .. Len(stamp) /\ passed < e /\ e < at'
    BY <1>1, <2>1, <2>2
  <2> QED
    BY <1>1, <2>3 DEF Logged, Behind
<1> QED
  BY <1>3 DEF IInv, NotAhead, LostBy

LEMMA WalkGivesUp ==
  ASSUME IInv, Walk, IsNew(at)
  PROVE  /\ at \in Logged /\ ~Behind(at) /\ LostBy({at})
         /\ \A e : e = at => Behind(e)'
<1>1. at \in Logged /\ pc = "forward" /\ pc' = "forward" /\ at' = at + 1
  BY DEF IInv, TypeOK, Walk, Logged
<1>2. ~Behind(at)
  BY <1>1, NewIsAhead
<1>3. \A e : e = at => Behind(e)'
  BY <1>1 DEF Behind, Logged
<1> QED
  BY <1>1, <1>2, <1>3 DEF IInv, NotAhead, LostBy

LEMMA PostGivesUp ==
  ASSUME IInv, post_one
  PROVE  /\ msg \in Logged /\ Behind(msg) /\ ~WasSent(msg)
         /\ \A e : e = msg /\ sent' = sent => ~InFlight(e)'
<1>1. msg \in Logged /\ msg \in Nat /\ msg # 0 /\ InFlight(msg)
  BY DEF IInv, TypeOK, post_one, InFlight, Logged
<1>2. /\ \A j \in 1 .. Len(sent) : sent[j] < msg
      /\ \A k \in 1 .. Len(s_queue) : msg < s_queue[k]
  BY <1>1 DEF IInv, Ordered
<1>3. ~WasSent(msg) /\ ~Waits(msg)
  BY <1>1, <1>2 DEF WasSent, Waits
<1>4. \A e : e = msg /\ sent' = sent => ~InFlight(e)'
  BY <1>3 DEF post_one, InFlight, WasSent, Waits
<1> QED
  BY <1>1, <1>3, <1>4 DEF IInv, NotAhead

LEMMA StaysApart == IInv /\ Apart /\ [Next]_vars => Apart'
<1> SUFFICES ASSUME IInv, Apart, [Next]_vars
             PROVE  Apart'
  OBVIOUS
<1>1. ASSUME UNCHANGED <<sent, msg, s_queue, dropped, overrun>>,
             \A e \in Logged : Behind(e) => Behind(e)', Logged' = Logged
      PROVE  Apart'
  BY <1>1, Untouched DEF Apart, GaveUp
<1>2. CASE Tick \/ Sweep \/ DrainDone \/ UNCHANGED vars
  BY <1>1, <1>2
  DEF Tick, Sweep, DrainDone, vars, scan, history, Behind, Logged
<1>3. CASE WalkDone
  <2>1. \A e \in Logged : Behind(e)'
    BY <1>3 DEF IInv, TypeOK, WalkDone, Behind, Logged
  <2> QED
    BY <1>1, <1>3, <2>1 DEF WalkDone, Logged
<1>4. CASE Restart
  BY <1>4 DEF Restart, Apart, GaveUp
<1>5. CASE inv_log_event
  <2>1. /\ UNCHANGED <<sent, msg, s_queue, dropped, overrun, pc, at, passed>>
        /\ dropped \subseteq Logged /\ overrun \subseteq Logged
    BY <1>5 DEF inv_log_event, scan, history, IInv, TypeOK
  <2>2. \A e : InFlight(e)' <=> InFlight(e)
    BY <2>1, Untouched
  <2> QED
    BY <2>1, <2>2 DEF Apart, GaveUp, Behind
<1>6. CASE inv_get_events
  <2>1. /\ UNCHANGED <<sent, msg, s_queue, dropped, stamp, passed>>
        /\ overrun' = overrun \cup (passed + 1 .. at' - 1)
        /\ pc = "diff"
    BY <1>6 DEF inv_get_events
  <2>2. \A e : InFlight(e)' <=> InFlight(e)
    BY <2>1, Untouched
  <2>3. \A e \in passed + 1 .. at' - 1 : Behind(e)' /\ ~InFlight(e)
    BY <1>6, CopyGivesUp DEF LostBy
  <2>4. \A e : Behind(e) => Behind(e)'
    BY <2>1 DEF Behind
  <2> QED
    BY <2>1, <2>2, <2>3, <2>4 DEF Apart, GaveUp, Logged
<1>7. CASE Walk
  <2>1. /\ UNCHANGED <<sent, msg, stamp, passed, overrun>>
        /\ pc = "forward" /\ pc' = pc /\ at' = at + 1 /\ at \in Logged
    BY <1>7 DEF Walk, IInv, TypeOK, Logged
  <2>2. \A e \in Logged : Behind(e) => Behind(e)'
    BY <2>1 DEF Behind, Logged
  <2>3. CASE s_queue' = s_queue /\ dropped' = dropped
    BY <1>1, <2>1, <2>2, <2>3 DEF Logged
  <2>4. CASE IsNew(at) /\ s_queue' = Append(s_queue, at) /\ dropped' = dropped
    <3>1. ~Behind(at) /\ \A e \in Logged : InFlight(e) => e < at
      BY <2>1, <2>4, NewIsAhead
    <3>2. \A e \in Logged : InFlight(e)' <=> InFlight(e) \/ e = at
      BY <2>1, <2>4, <3>1, Enqueued
    <3> QED
      BY <2>1, <2>2, <2>4, <3>1, <3>2 DEF Apart, GaveUp, Logged
  <2>5. CASE IsNew(at) /\ s_queue' = s_queue /\ dropped' = dropped \cup {at}
    <3>1. ~InFlight(at) /\ \A e : e = at => Behind(e)'
      BY <1>7, <2>5, WalkGivesUp DEF LostBy
    <3>2. \A e : InFlight(e)' <=> InFlight(e)
      BY <2>1, <2>5, Untouched
    <3> QED
      BY <2>1, <2>2, <2>5, <3>1, <3>2 DEF Apart, GaveUp, Logged
  <2> QED
    BY <1>7, <2>3, <2>4, <2>5 DEF Walk, notifier_notify
<1>8. CASE xQueueReceive
  <2>1. UNCHANGED <<sent, dropped, overrun, stamp, pc, at, passed>>
    BY <1>8 DEF xQueueReceive, scan, history
  <2>2. \A e \in Logged : InFlight(e)' => InFlight(e)
    BY <1>8, Received
  <2> QED
    BY <2>1, <2>2 DEF Apart, GaveUp, Behind, Logged
<1>9. CASE post_one
  <2>1. /\ UNCHANGED <<overrun, stamp, pc, at, passed, s_queue>>
        /\ msg' = 0
    BY <1>9 DEF post_one, scan
  <2>2. /\ msg \in Logged /\ Behind(msg) /\ InFlight(msg)
        /\ \A e : e = msg /\ sent' = sent => ~InFlight(e)'
    BY <1>9, PostGivesUp DEF post_one, InFlight
  <2>3. \A e \in Logged : Behind(e)' <=> Behind(e)
    BY <2>1 DEF Behind
  <2>4. \A e \in Logged : InFlight(e)' => InFlight(e)
    <3>1. CASE sent' = Append(sent, msg)
      <4>1. \A e : WasSent(e)' => WasSent(e) \/ e = msg
        BY <3>1 DEF WasSent, IInv, TypeOK
      <4> QED
        BY <2>1, <2>2, <4>1 DEF InFlight, Waits
    <3>2. CASE sent' = sent
      BY <2>1, <3>2 DEF InFlight, WasSent, Waits
    <3> QED
      BY <1>9, <3>1, <3>2 DEF post_one
  <2>5. dropped' = dropped \/ (sent' = sent /\ dropped' = dropped \cup {msg})
    BY <1>9 DEF post_one
  <2> QED
    BY <2>1, <2>2, <2>3, <2>4, <2>5 DEF Apart, GaveUp, Logged
<1> QED
  BY <1>2, <1>3, <1>4, <1>5, <1>6, <1>7, <1>8, <1>9
  DEF Next, discovery_task, on_scan_complete, notifier_task

\* A step of the two tasks is a step of AlertDelivery, or none.
LEMMA DeliveryStep ==
  IInv /\ Apart /\ [Next]_vars
    => [Delivery!Next]_<<Len(stamp), sent, dropped \cup overrun>>
<1> SUFFICES ASSUME IInv, Apart, [Next]_vars
             PROVE  \/ Delivery!Next
                    \/ UNCHANGED <<Len(stamp), sent, dropped \cup overrun>>
  OBVIOUS
<1>1. CASE UNCHANGED <<stamp, sent, dropped, overrun>>
  BY <1>1
<1>2. CASE Restart
  <2>1. Delivery!Reboot
    BY <1>2 DEF Restart, Delivery!Reboot
  <2> QED
    BY <2>1 DEF Delivery!Next
<1>3. CASE inv_log_event
  <2>1. Delivery!Log
    BY <1>3 DEF inv_log_event, history, Delivery!Log, IInv, TypeOK
  <2> QED
    BY <2>1 DEF Delivery!Next
<1>4. ASSUME NEW E, LostBy(E), UNCHANGED <<stamp, sent>>,
             (dropped \cup overrun)' = dropped \cup overrun \cup E
      PROVE  Delivery!Next
  <2>1. E \in SUBSET (1 .. Len(stamp))
    BY <1>4 DEF LostBy, Logged
  <2>2. Delivery!GiveUp(E)
    BY <1>4 DEF LostBy, InFlight, WasSent, Delivery!GiveUp, Delivery!WasPosted
  <2> QED
    BY <2>1, <2>2 DEF Delivery!Next
<1>5. CASE inv_get_events
  <2>1. LostBy(passed + 1 .. at' - 1)
    BY <1>5, CopyGivesUp
  <2>2. /\ UNCHANGED <<stamp, sent>>
        /\ dropped' = dropped /\ overrun' = overrun \cup (passed + 1 .. at' - 1)
    BY <1>5 DEF inv_get_events
  <2>3. (dropped \cup overrun)'
          = dropped \cup overrun \cup (passed + 1 .. at' - 1)
    BY <2>2
  <2> QED
    BY <1>4, <2>1, <2>2, <2>3
<1>6. CASE Walk
  <2>1. UNCHANGED <<stamp, sent, overrun>>
    BY <1>6 DEF Walk
  <2>2. CASE dropped' = dropped
    BY <1>1, <2>1, <2>2
  <2>3. CASE IsNew(at) /\ dropped' = dropped \cup {at}
    <3>1. LostBy({at})
      BY <1>6, <2>3, WalkGivesUp
    <3>2. (dropped \cup overrun)' = dropped \cup overrun \cup {at}
      BY <2>1, <2>3
    <3> QED
      BY <1>4, <2>1, <3>1, <3>2
  <2> QED
    BY <1>6, <2>2, <2>3 DEF Walk, notifier_notify
<1>7. CASE post_one
  <2>1. UNCHANGED <<stamp, overrun>>
    BY <1>7 DEF post_one
  <2>2. msg \in 1 .. Len(stamp) /\ ~WasSent(msg) /\ msg # 0
    BY <1>7, PostGivesUp DEF Logged, post_one
  <2>3. CASE sent' = Append(sent, msg) /\ dropped' = dropped
    <3>1. msg \notin dropped \cup overrun
      BY <2>2 DEF Apart, GaveUp, InFlight, Logged
    <3>2. \A k \in 1 .. Len(sent) : sent[k] < msg
      BY <2>2 DEF IInv, Ordered
    <3>3. Delivery!Post(msg)
      BY <2>1, <2>3, <3>1, <3>2 DEF Delivery!Post
    <3> QED
      BY <2>2, <3>3 DEF Delivery!Next
  <2>4. CASE sent' = sent /\ dropped' = dropped \cup {msg}
    <3>1. Delivery!GiveUp({msg})
      BY <2>1, <2>2, <2>4
      DEF WasSent, Delivery!GiveUp, Delivery!WasPosted
    <3>2. {msg} \in SUBSET (1 .. Len(stamp))
      BY <2>2
    <3> QED
      BY <3>1, <3>2 DEF Delivery!Next
  <2> QED
    BY <1>7, <2>3, <2>4 DEF post_one
<1>8. CASE Tick \/ Sweep \/ DrainDone \/ WalkDone \/ xQueueReceive
             \/ UNCHANGED vars
  BY <1>1, <1>8
  DEF Tick, Sweep, DrainDone, WalkDone, xQueueReceive, vars, history
<1> QED
  BY <1>2, <1>3, <1>5, <1>6, <1>7, <1>8
  DEF Next, discovery_task, on_scan_complete, notifier_task

(***************************************************************************)
(* Every event is posted once, in the order of the log, or given up for    *)
(* good, for every length of copy and queue and whatever the network does. *)
(***************************************************************************)
THEOREM Delivers == Spec => ImplementsDelivery
<1>1. Init => Delivery!Init /\ Apart
  BY DEF Init, Delivery!Init, Apart, GaveUp
<1> QED
  BY <1>1, Always, StaysApart, DeliveryStep, PTL
  DEF Spec, ImplementsDelivery, Delivery!Spec
=============================================================================
