---------------------------- MODULE AlertDelivery ----------------------------
(***************************************************************************)
(* What the scan hook and the notifier promise together of the events of   *)
(* the log: Discord is posted each of them once, in the order they were    *)
(* logged, or never; what has been given up is not posted after all, and   *)
(* what was posted is not given up.  Notifier is shown to implement it.    *)
(***************************************************************************)
EXTENDS Integers, Sequences

VARIABLES
  logged,  \* how many events were logged since boot
  sent,    \* those that Discord accepted, in order
  lost     \* those that were given up

Init == logged = 0 /\ sent = <<>> /\ lost = {}

WasPosted(e) == \E k \in 1 .. Len(sent) : sent[k] = e

Log == logged' = logged + 1 /\ UNCHANGED <<sent, lost>>

Post(e) ==
  /\ e \notin lost
  /\ \A k \in 1 .. Len(sent) : sent[k] < e
  /\ sent' = Append(sent, e)
  /\ UNCHANGED <<logged, lost>>

\* E did not fit the copy, or found the queue full, or its POST failed.
GiveUp(E) ==
  /\ \A e \in E : ~WasPosted(e)
  /\ lost' = lost \cup E
  /\ UNCHANGED <<logged, sent>>

\* A power cycle forgets the log with what was to be posted of it.
Reboot == logged' = 0 /\ sent' = <<>> /\ lost' = {}

Next ==
  \/ Log
  \/ \E e \in 1 .. logged : Post(e)
  \/ \E E \in SUBSET (1 .. logged) : GiveUp(E)
  \/ Reboot

Spec == Init /\ [][Next]_<<logged, sent, lost>>
=============================================================================
