------------------------------ MODULE EventRing ------------------------------
(***************************************************************************)
(* The event log of main/inventory.c: a ring of INV_EVENT_RING_SIZE        *)
(* records that anomaly_run() writes and that on_scan_complete() and the   *)
(* /api/events handler copy out.  Writers and readers hold inv_lock(), so  *)
(* a call is one action.  Indices are size_t; they stay below twice the    *)
(* size of the ring, far from wrapping.                                    *)
(***************************************************************************)
EXTENDS Integers, Sequences

CONSTANTS
  Event,                \* what can be logged; the content is never looked at
  NONE,                 \* a record of zeros, as left by calloc
  INV_EVENT_RING_SIZE,  \* capacity of s_events
  BatchSize             \* what readers pass as max: 64 and 128 in the source

ASSUME EventRingAssumption ==
  /\ NONE \notin Event
  /\ INV_EVENT_RING_SIZE \in Nat \ {0}
  /\ BatchSize \subseteq Nat

VARIABLES
  s_events,
  s_event_head,
  s_event_count,
  copied         \* out: the buffer of the last reader

ringvars == <<s_events, s_event_head, s_event_count, copied>>

Position == 0 .. INV_EVENT_RING_SIZE - 1

Smaller(a, b) == IF a < b THEN a ELSE b

RingInit ==
  /\ s_events = [p \in Position |-> NONE]
  /\ s_event_head = 0
  /\ s_event_count = 0
  /\ copied = <<>>

\* Mutant of inv_log_event: the count never stops at the size of the ring.
inv_log_event_uncapped(e) ==
  /\ s_events' = [s_events EXCEPT ![s_event_head] = e]
  /\ s_event_head' = (s_event_head + 1) % INV_EVENT_RING_SIZE
  /\ s_event_count' = s_event_count + 1
  /\ UNCHANGED copied

inv_log_event(e) ==
  /\ s_events' = [s_events EXCEPT ![s_event_head] = e]
  /\ s_event_head' = (s_event_head + 1) % INV_EVENT_RING_SIZE
  /\ s_event_count' = IF s_event_count < INV_EVENT_RING_SIZE
                        THEN s_event_count + 1 ELSE s_event_count
  /\ UNCHANGED copied

\* Mutant of Back: the head itself is taken for the newest event.
BackFromHead(i) ==
  (s_event_head + INV_EVENT_RING_SIZE - i) % INV_EVENT_RING_SIZE

\* The position of the event logged i events before the newest.
Back(i) ==
  (s_event_head + INV_EVENT_RING_SIZE - 1 - i) % INV_EVENT_RING_SIZE

inv_get_events(max) ==
  /\ copied' = [k \in 1 .. Smaller(max, s_event_count) |-> s_events[Back(k - 1)]]
  /\ UNCHANGED <<s_events, s_event_head, s_event_count>>

RingNext ==
  \/ \E e \in Event : inv_log_event(e)
  \/ \E max \in BatchSize : inv_get_events(max)

RingSpec == RingInit /\ [][RingNext]_ringvars

-----------------------------------------------------------------------------
RingTypeOK ==
  /\ s_events \in [Position -> Event \cup {NONE}]
  /\ s_event_head \in Position
  /\ s_event_count \in 0 .. INV_EVENT_RING_SIZE
  /\ copied \in Seq(Event)

(***************************************************************************)
(* The records a reader may copy hold events: the last s_event_count       *)
(* positions before the head, and before the ring first wraps these are    *)
(* the positions below the head.  A reader is never given a zeroed record. *)
(***************************************************************************)
ValidIsWritten ==
  /\ \A i \in 0 .. s_event_count - 1 : s_events[Back(i)] # NONE
  /\ s_event_count < INV_EVENT_RING_SIZE => s_event_head = s_event_count

(***************************************************************************)
(* The ring implements the log: its content, oldest first, is the window   *)
(* of s_event_count events that ends before the head.                      *)
(***************************************************************************)
Contents ==
  [k \in 1 .. s_event_count |-> s_events[Back(s_event_count - k)]]

Log == INSTANCE EventLog WITH log <- Contents, batch <- copied

\* Whatever is logged and read, in any order, the readers see a log that
\* forgets its oldest events only.
ImplementsLog == Log!Spec
=============================================================================
