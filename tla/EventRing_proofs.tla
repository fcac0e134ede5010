-------------------------- MODULE EventRing_proofs --------------------------
(***************************************************************************)
(* The ring implements the log, for every capacity and whatever is logged  *)
(* and read.                                                               *)
(***************************************************************************)
EXTENDS EventRing, SequenceTheorems, TLAPS

(***************************************************************************)
(* One turn of the ring: the only wrap the index arithmetic of             *)
(* main/inventory.c meets.                                                 *)
(***************************************************************************)
LEMMA Wrap ==
  ASSUME NEW x \in 0 .. 2 * INV_EVENT_RING_SIZE - 1
  PROVE  x % INV_EVENT_RING_SIZE
           = IF x < INV_EVENT_RING_SIZE THEN x ELSE x - INV_EVENT_RING_SIZE
<1> USE EventRingAssumption
<1>1. CASE x < INV_EVENT_RING_SIZE
  BY <1>1
<1>2. CASE x >= INV_EVENT_RING_SIZE
  BY <1>2
<1> QED
  BY <1>1, <1>2

(* Where the events are: below the head, and above it once they wrapped.   *)
LEMMA BackOf ==
  ASSUME NEW h \in Position, NEW i \in Position
  PROVE  (h + INV_EVENT_RING_SIZE - 1 - i) % INV_EVENT_RING_SIZE
           = IF i < h THEN h - 1 - i ELSE h + INV_EVENT_RING_SIZE - 1 - i
<1> DEFINE x == h + INV_EVENT_RING_SIZE - 1 - i
<1>1. x \in 0 .. 2 * INV_EVENT_RING_SIZE - 1
  BY EventRingAssumption DEF Position
<1>2. x % INV_EVENT_RING_SIZE
        = IF x < INV_EVENT_RING_SIZE THEN x ELSE x - INV_EVENT_RING_SIZE
  BY <1>1, Wrap
<1> QED
  BY <1>2, EventRingAssumption DEF Position

(* Logging moves every event one place back; only the oldest of a full     *)
(* ring is at the head, where the new one goes.                            *)
LEMMA Shift ==
  ASSUME s_event_head \in Position,
         s_event_head' = (s_event_head + 1) % INV_EVENT_RING_SIZE
  PROVE  /\ s_event_head' \in Position
         /\ Back(0)' = s_event_head
         /\ \A i \in 1 .. INV_EVENT_RING_SIZE - 1 :
              /\ Back(i)' = Back(i - 1)
              /\ Back(i - 1) \in Position \ {s_event_head}
<1> USE EventRingAssumption DEF Position
<1>1. s_event_head' = IF s_event_head + 1 < INV_EVENT_RING_SIZE
                        THEN s_event_head + 1 ELSE 0
  <2>1. s_event_head + 1 \in 0 .. 2 * INV_EVENT_RING_SIZE - 1
    OBVIOUS
  <2> QED
    BY <2>1, Wrap
<1>2. s_event_head' \in Position
  BY <1>1
<1>3. \A i \in Position :
        Back(i)' = IF i < s_event_head'
                     THEN s_event_head' - 1 - i
                     ELSE s_event_head' + INV_EVENT_RING_SIZE - 1 - i
  BY <1>2, BackOf DEF Back
<1>4. Back(0)' = s_event_head
  BY <1>1, <1>3
<1>5. ASSUME NEW i \in 1 .. INV_EVENT_RING_SIZE - 1
      PROVE  /\ Back(i)' = Back(i - 1)
             /\ Back(i - 1) \in Position \ {s_event_head}
  <2>1. i - 1 \in Position /\ i \in Position
    OBVIOUS
  <2>2. Back(i - 1) = IF i - 1 < s_event_head
                        THEN s_event_head - i
                        ELSE s_event_head + INV_EVENT_RING_SIZE - i
    BY <2>1, BackOf DEF Back
  <2> QED
    BY <1>1, <1>3, <2>1, <2>2
<1> QED
  BY <1>2, <1>4, <1>5

-----------------------------------------------------------------------------
(***************************************************************************)
(* The inductive invariant: the types, and that the window of valid        *)
(* positions holds events.  copied is a sequence of events because of it.  *)
(***************************************************************************)
Window ==
  /\ \A i \in 0 .. s_event_count - 1 : s_events[Back(i)] \in Event
  /\ s_event_count < INV_EVENT_RING_SIZE => s_event_head = s_event_count

IInv == RingTypeOK /\ Window

LEMMA Inductive == IInv /\ [RingNext]_ringvars => IInv'
<1> SUFFICES ASSUME IInv, [RingNext]_ringvars PROVE IInv'
  OBVIOUS
<1> USE EventRingAssumption DEF IInv, RingTypeOK, Window
<1>1. ASSUME NEW e \in Event, inv_log_event(e) PROVE IInv'
  <2>1. /\ s_event_head' \in Position
        /\ Back(0)' = s_event_head
        /\ \A i \in 1 .. INV_EVENT_RING_SIZE - 1 :
             /\ Back(i)' = Back(i - 1)
             /\ Back(i - 1) \in Position \ {s_event_head}
    BY <1>1, Shift DEF inv_log_event
  <2>2. s_event_count' \in 0 .. INV_EVENT_RING_SIZE
    BY <1>1 DEF inv_log_event
  <2>3. RingTypeOK'
    BY <1>1, <2>1, <2>2 DEF inv_log_event
  <2>4. ASSUME NEW i \in 0 .. s_event_count' - 1
        PROVE  s_events'[Back(i)'] \in Event
    <3>1. CASE i = 0
      BY <1>1, <2>1, <3>1 DEF inv_log_event
    <3>2. CASE i # 0
      <4>1. i \in 1 .. INV_EVENT_RING_SIZE - 1 /\ i - 1 \in 0 .. s_event_count - 1
        BY <1>1, <2>2, <3>2 DEF inv_log_event
      <4>2. s_events'[Back(i)'] = s_events[Back(i - 1)]
        BY <1>1, <2>1, <4>1 DEF inv_log_event
      <4> QED
        BY <4>1, <4>2
    <3> QED
      BY <3>1, <3>2
  <2>5. s_event_count' < INV_EVENT_RING_SIZE => s_event_head' = s_event_count'
    <3> SUFFICES ASSUME s_event_count' < INV_EVENT_RING_SIZE
                 PROVE  s_event_head' = s_event_count'
      OBVIOUS
    <3>1. s_event_count' = s_event_count + 1 /\ s_event_head = s_event_count
      BY <1>1 DEF inv_log_event
    <3>2. s_event_head + 1 \in 0 .. 2 * INV_EVENT_RING_SIZE - 1
      BY DEF Position
    <3> QED
      BY <1>1, <3>1, <3>2, Wrap DEF inv_log_event
  <2> QED
    BY <2>3, <2>4, <2>5
<1>2. ASSUME NEW max \in BatchSize, inv_get_events(max) PROVE IInv'
  <2>1. \A i : Back(i)' = Back(i)
    BY <1>2 DEF inv_get_events, Back
  <2>2. Smaller(max, s_event_count) \in 0 .. s_event_count
    BY DEF Smaller
  <2>3. \A k \in 1 .. Smaller(max, s_event_count) :
          s_events[Back(k - 1)] \in Event
    BY <2>2
  <2>4. copied' \in Seq(Event)
    BY <1>2, <2>2, <2>3 DEF inv_get_events
  <2> QED
    BY <1>2, <2>1, <2>4 DEF inv_get_events
<1>3. CASE UNCHANGED ringvars
  BY <1>3 DEF ringvars, Back
<1> QED
  BY <1>1, <1>2, <1>3 DEF RingNext

LEMMA Initial == RingInit => IInv
  BY EventRingAssumption DEF RingInit, IInv, RingTypeOK, Window, Position

LEMMA Invariance == RingSpec => []IInv
  BY Initial, Inductive, PTL DEF RingSpec

(***************************************************************************)
(* The indices stay in the ring and readers are given events only.         *)
(***************************************************************************)
THEOREM TypeCorrect == RingSpec => []RingTypeOK
  BY Invariance, PTL DEF IInv

(***************************************************************************)
(* No reader of the log is ever given a record nobody wrote.               *)
(***************************************************************************)
THEOREM OnlyWritten == RingSpec => []ValidIsWritten
<1>1. IInv => ValidIsWritten
  BY EventRingAssumption DEF IInv, Window, ValidIsWritten
<1> QED
  BY <1>1, Invariance, PTL

-----------------------------------------------------------------------------
(* What the log looks like after a call.                                   *)

LEMMA ContentsType ==
  ASSUME IInv
  PROVE  Contents \in Seq(Event) /\ Len(Contents) = s_event_count
<1>1. \A k \in 1 .. s_event_count : s_events[Back(s_event_count - k)] \in Event
  BY DEF IInv, RingTypeOK, Window
<1> QED
  BY <1>1 DEF IInv, RingTypeOK, Contents

\* Append as a function of the positions.
LEMMA AppendIs ==
  ASSUME NEW s \in Seq(Event), NEW e \in Event
  PROVE  Append(s, e)
           = [k \in 1 .. Len(s) + 1 |-> IF k <= Len(s) THEN s[k] ELSE e]
<1> DEFINE n == Len(s)
           t == [k \in 1 .. n + 1 |-> IF k <= n THEN s[k] ELSE e]
<1>1. n \in Nat /\ \A k \in 1 .. n : s[k] \in Event
  BY ElementOfSeq, LenProperties
<1>2. t \in Seq(Event) /\ Len(t) = n + 1
  <2> HIDE DEF n
  <2>1. \A k \in 1 .. n + 1 : (IF k <= n THEN s[k] ELSE e) \in Event
    BY <1>1
  <2> QED
    BY <1>1, <2>1
<1>3. /\ Append(s, e) \in Seq(Event)
      /\ Len(Append(s, e)) = n + 1
      /\ \A k \in 1 .. n + 1 : Append(s, e)[k] = t[k]
  <2>1. /\ Append(s, e) \in Seq(Event)
        /\ Len(Append(s, e)) = n + 1
        /\ \A k \in 1 .. n : Append(s, e)[k] = s[k]
        /\ Append(s, e)[n + 1] = e
    BY AppendProperties
  <2> HIDE DEF n
  <2>2. \A k \in 1 .. n + 1 : k \in 1 .. n \/ k = n + 1
    BY <1>1
  <2> QED
    BY <1>1, <2>1, <2>2
<1> HIDE DEF t, n
<1>4. Append(s, e) = t
  BY <1>2, <1>3, SeqEqual
<1> QED
  BY <1>4 DEF t, n

\* Back(i), when the head is at h.
At(h, i) == (h + INV_EVENT_RING_SIZE - 1 - i) % INV_EVENT_RING_SIZE

LEMMA LogStep ==
  ASSUME IInv, NEW e \in Event, inv_log_event(e)
  PROVE  Contents' = IF s_event_count < INV_EVENT_RING_SIZE
                       THEN Append(Contents, e)
                       ELSE Append(Tail(Contents), e)
<1> USE EventRingAssumption DEF IInv, RingTypeOK
<1>1. /\ At(s_event_head', 0) = s_event_head
      /\ \A i \in 1 .. INV_EVENT_RING_SIZE - 1 :
           /\ At(s_event_head', i) = Back(i - 1)
           /\ Back(i - 1) \in Position \ {s_event_head}
  BY Shift DEF inv_log_event, Back, At
<1>2. s_events'[At(s_event_head', 0)] = e
  BY <1>1 DEF inv_log_event
<1>3. \A i \in 1 .. INV_EVENT_RING_SIZE - 1 :
        s_events'[At(s_event_head', i)] = s_events[Back(i - 1)]
  BY <1>1 DEF inv_log_event
<1>4. Contents \in Seq(Event) /\ Len(Contents) = s_event_count
  BY ContentsType
<1>5. Contents' = [k \in 1 .. s_event_count'
                     |-> s_events'[At(s_event_head', s_event_count' - k)]]
  BY DEF Contents, Back, At
<1>6. CASE s_event_count < INV_EVENT_RING_SIZE
  <2>1. s_event_count' = s_event_count + 1
    BY <1>6 DEF inv_log_event
  <2>2. ASSUME NEW k \in 1 .. s_event_count
        PROVE  s_events'[At(s_event_head', s_event_count + 1 - k)] = Contents[k]
    <3>1. /\ s_event_count + 1 - k \in 1 .. INV_EVENT_RING_SIZE - 1
          /\ (s_event_count + 1 - k) - 1 = s_event_count - k
      BY <1>6
    <3>2. s_events'[At(s_event_head', s_event_count + 1 - k)]
            = s_events[Back(s_event_count - k)]
      BY <1>3, <3>1
    <3> QED
      BY <3>2 DEF Contents
  <2>3. Contents' = [k \in 1 .. s_event_count + 1
                       |-> IF k <= s_event_count THEN Contents[k] ELSE e]
    BY <1>2, <1>5, <2>1, <2>2
  <2>4. Append(Contents, e)
          = [k \in 1 .. s_event_count + 1
               |-> IF k <= s_event_count THEN Contents[k] ELSE e]
    BY <1>4, AppendIs
  <2> QED
    BY <1>6, <2>3, <2>4
<1>7. CASE s_event_count = INV_EVENT_RING_SIZE
  <2>1. s_event_count' = s_event_count
    BY <1>7 DEF inv_log_event
  <2>2. ASSUME NEW k \in 1 .. s_event_count - 1
        PROVE  s_events'[At(s_event_head', s_event_count - k)] = Contents[k + 1]
    <3>1. /\ s_event_count - k \in 1 .. INV_EVENT_RING_SIZE - 1
          /\ (s_event_count - k) - 1 = s_event_count - (k + 1)
          /\ k + 1 \in 1 .. s_event_count
      BY <1>7
    <3>2. s_events'[At(s_event_head', s_event_count - k)]
            = s_events[Back(s_event_count - (k + 1))]
      BY <1>3, <3>1
    <3> QED
      BY <3>1, <3>2 DEF Contents
  <2>3. /\ Tail(Contents) \in Seq(Event)
        /\ Len(Tail(Contents)) = s_event_count - 1
        /\ \A k \in 1 .. s_event_count - 1 : Tail(Contents)[k] = Contents[k + 1]
    BY <1>4, <1>7
  <2>4. Contents' = [k \in 1 .. s_event_count
                       |-> IF k < s_event_count THEN Contents[k + 1] ELSE e]
    BY <1>2, <1>5, <1>7, <2>1, <2>2
  <2>5. Append(Tail(Contents), e)
          = [k \in 1 .. s_event_count
               |-> IF k < s_event_count THEN Contents[k + 1] ELSE e]
    <3>1. Append(Tail(Contents), e)
            = [k \in 1 .. (s_event_count - 1) + 1
                 |-> IF k <= s_event_count - 1 THEN Tail(Contents)[k] ELSE e]
      <4> DEFINE T == Tail(Contents)
      <4>1. T \in Seq(Event) /\ Len(T) = s_event_count - 1
        BY <2>3
      <4> HIDE DEF T
      <4>2. Append(T, e) = [k \in 1 .. Len(T) + 1
                              |-> IF k <= Len(T) THEN T[k] ELSE e]
        BY <4>1, AppendIs
      <4>3. Append(T, e) = [k \in 1 .. (s_event_count - 1) + 1
                              |-> IF k <= s_event_count - 1 THEN T[k] ELSE e]
        BY <4>1, <4>2
      <4> QED
        BY <4>3 DEF T
    <3>2. (s_event_count - 1) + 1 = s_event_count
      OBVIOUS
    <3>3. \A k \in 1 .. s_event_count :
            (IF k <= s_event_count - 1 THEN Tail(Contents)[k] ELSE e)
              = (IF k < s_event_count THEN Contents[k + 1] ELSE e)
      BY <1>7, <2>3
    <3> QED
      BY <3>1, <3>2, <3>3
  <2> QED
    BY <1>7, <2>4, <2>5
<1> QED
  BY <1>6, <1>7

LEMMA ReadStep ==
  ASSUME IInv, NEW max \in BatchSize, inv_get_events(max)
  PROVE  Log!Read(max)
<1> USE EventRingAssumption DEF IInv, RingTypeOK
<1>1. Contents' = Contents
  BY DEF inv_get_events, Contents, Back
<1>2. Len(Contents) = s_event_count
  BY ContentsType
<1>3. Smaller(max, s_event_count) = Log!Smaller(max, Len(Contents))
  BY <1>2 DEF Smaller, Log!Smaller
<1>4. \A k \in 1 .. Smaller(max, s_event_count) :
        s_events[Back(k - 1)] = Contents[Len(Contents) + 1 - k]
  <2> SUFFICES ASSUME NEW k \in 1 .. Smaller(max, s_event_count)
               PROVE  s_events[Back(k - 1)] = Contents[s_event_count + 1 - k]
    BY <1>2
  <2>1. /\ s_event_count + 1 - k \in 1 .. s_event_count
        /\ s_event_count - (s_event_count + 1 - k) = k - 1
    BY DEF Smaller
  <2> QED
    BY <2>1 DEF Contents
<1> QED
  BY <1>1, <1>3, <1>4 DEF inv_get_events, Log!Read

(***************************************************************************)
(* The ring of main/inventory.c implements the log inventory.h promises:   *)
(* only the oldest events are ever lost, and readers see the newest first. *)
(***************************************************************************)
THEOREM Implements == RingSpec => ImplementsLog
<1>1. RingInit => Log!Init
  BY DEF RingInit, Log!Init, Contents
<1>2. IInv /\ [RingNext]_ringvars => [Log!Next]_<<Contents, copied>>
  <2> SUFFICES ASSUME IInv, [RingNext]_ringvars PROVE [Log!Next]_<<Contents, copied>>
    OBVIOUS
  <2>1. ASSUME NEW e \in Event, inv_log_event(e) PROVE Log!Record(e)
    <3>1. Len(Contents) = s_event_count
      BY ContentsType
    <3> QED
      BY <2>1, <3>1, LogStep DEF Log!Record, inv_log_event
  <2>2. CASE UNCHANGED ringvars
    BY <2>2 DEF ringvars, Contents, Back
  <2> QED
    BY <2>1, <2>2, ReadStep DEF RingNext, Log!Next
<1> QED
  BY <1>1, <1>2, Invariance, PTL DEF RingSpec, Log!Spec, ImplementsLog
=============================================================================
