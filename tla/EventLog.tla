------------------------------ MODULE EventLog ------------------------------
(***************************************************************************)
(* What inventory.h promises of the event log: it holds the most recent    *)
(* events, INV_EVENT_RING_SIZE of them at most, and a reader is given the  *)
(* newest ones, newest first.  EventRing is shown to implement it.         *)
(***************************************************************************)
EXTENDS Integers, Sequences

CONSTANTS
  Event,                \* what can be logged
  INV_EVENT_RING_SIZE,  \* how many events are kept
  BatchSize             \* how many events a reader may ask for

VARIABLES
  log,     \* the events kept, oldest first
  batch    \* what the last reader was given

Smaller(a, b) == IF a < b THEN a ELSE b

Init ==
  /\ log = <<>>
  /\ batch = <<>>

Record(e) ==
  /\ log' = IF Len(log) < INV_EVENT_RING_SIZE THEN Append(log, e)
                                              ELSE Append(Tail(log), e)
  /\ UNCHANGED batch

Read(max) ==
  /\ batch' = [k \in 1 .. Smaller(max, Len(log)) |-> log[Len(log) + 1 - k]]
  /\ UNCHANGED log

Next ==
  \/ \E e \in Event : Record(e)
  \/ \E max \in BatchSize : Read(max)

Spec == Init /\ [][Next]_<<log, batch>>
=============================================================================
