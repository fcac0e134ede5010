-------------------------- MODULE WifiStation_proofs --------------------------
(***************************************************************************)
(* The station never falls idle with retries to spare, whatever MAX_RETRY. *)
(*                                                                         *)
(* What on_event() has yet to handle depends on the link: a link that is   *)
(* being made has nothing outstanding, one that is up may have its address *)
(* outstanding, and a link that was lost has its loss outstanding, maybe   *)
(* with the address it had before.  The invariant says which event waits   *)
(* for which link, and that s_retry counts the losses handled until the    *)
(* station gives up.                                                       *)
(***************************************************************************)
EXTENDS WifiStation, TLAPS

EventName == {"STA_START", "STA_DISCONNECTED", "GOT_IP"}

Nothing == Len(posted) = 0

Only(event) == Len(posted) = 1 /\ posted[1] = event

LostAgain ==
  Len(posted) = 2 /\ posted[1] = "GOT_IP" /\ posted[2] = "STA_DISCONNECTED"

Fields ==
  /\ ap \in BOOLEAN
  /\ link \in {"idle", "connecting", "associated", "up"}
  /\ posted \in Seq(EventName)
  /\ s_retry \in 0 .. MAX_RETRY
  /\ bits \subseteq {"CONNECTED", "FAIL"}
  /\ app \in {"waiting", "running", "failed"}
  /\ losses \in 0 .. MAX_RETRY + 1

Trying ==
  /\ losses = s_retry
  /\ \/ link = "idle" /\ (Only("STA_START") \/ Only("STA_DISCONNECTED")
                            \/ LostAgain)
     \/ link \in {"connecting", "associated"} /\ Nothing
     \/ link = "up" /\ (Only("GOT_IP") \/ Nothing)

GivenUp ==
  link = "idle" /\ Nothing /\ losses = MAX_RETRY + 1 /\ "FAIL" \in bits

IInv == Fields /\ (Trying \/ GivenUp)

-----------------------------------------------------------------------------
(* The queue of the event loop.                                            *)

LEMMA Posting ==
  ASSUME Fields, NEW e \in EventName, posted' = Append(posted, e)
  PROVE  /\ posted' \in Seq(EventName)
         /\ Nothing => Only(e)'
         /\ Only("GOT_IP") /\ e = "STA_DISCONNECTED" => LostAgain'
  BY DEF Fields, Nothing, Only, LostAgain

LEMMA Handling ==
  ASSUME Fields, NEW e \in EventName, Handle(e)
  PROVE  /\ posted' \in Seq(EventName)
         /\ ~Nothing
         /\ \A f \in EventName : Only(f) => f = e /\ Nothing'
         /\ LostAgain => e = "GOT_IP" /\ Only("STA_DISCONNECTED")'
  BY DEF Fields, Nothing, Only, LostAgain, Handle

-----------------------------------------------------------------------------
LEMMA BootGood ==
  ASSUME ap \in BOOLEAN, Boot
  PROVE  IInv
  BY WifiAssumption DEF Boot, IInv, Fields, Trying, Only, EventName

LEMMA Inductive == IInv /\ [Next]_vars => IInv'
<1> SUFFICES ASSUME IInv, [Next]_vars
             PROVE  IInv'
  OBVIOUS
<1> USE WifiAssumption
<1>1. CASE Toggle
  BY <1>1 DEF IInv, Fields, Trying, GivenUp, Nothing, Only, LostAgain, Toggle
<1>2. CASE Associate
  BY <1>2 DEF IInv, Fields, Trying, GivenUp, Nothing, Only, LostAgain,
              Associate
<1>3. CASE Lease
  <2>1. posted' \in Seq(EventName) /\ (Nothing => Only("GOT_IP")')
    BY <1>3, Posting DEF IInv, Lease, EventName
  <2> QED
    BY <1>3, <2>1 DEF IInv, Fields, Trying, GivenUp, Lease
<1>4. CASE Drop
  <2>1. /\ posted' \in Seq(EventName)
        /\ Nothing => Only("STA_DISCONNECTED")'
        /\ Only("GOT_IP") => LostAgain'
    BY <1>4, Posting DEF IInv, Drop, EventName
  <2> QED
    BY <1>4, <2>1 DEF IInv, Fields, Trying, GivenUp, Drop
<1>5. CASE Started
  <2>1. /\ posted' \in Seq(EventName) /\ ~Nothing
        /\ \A f \in EventName : Only(f) => f = "STA_START" /\ Nothing'
        /\ ~LostAgain
    BY <1>5, Handling DEF IInv, Started, EventName
  <2> QED
    BY <1>5, <2>1
    DEF IInv, Fields, Trying, GivenUp, Started, esp_wifi_connect, EventName
<1>6. CASE Disconnected
  <2>1. /\ posted' \in Seq(EventName) /\ ~Nothing
        /\ \A f \in EventName :
             Only(f) => f = "STA_DISCONNECTED" /\ Nothing'
        /\ ~LostAgain
    BY <1>6, Handling DEF IInv, Disconnected, EventName
  <2>2. losses = s_retry /\ link = "idle" /\ Nothing'
    BY <2>1 DEF IInv, Trying, GivenUp, EventName
  <2>3. ap' = ap /\ app' = app /\ losses' = losses + 1
    BY <1>6, <2>2 DEF Disconnected, IInv, Fields
  <2>4. CASE s_retry < MAX_RETRY
    <3>1. link' = "connecting" /\ s_retry' = s_retry + 1 /\ bits' = bits
      BY <1>6, <2>4 DEF Disconnected, esp_wifi_connect
    <3>2. Fields' /\ Trying'
      BY <2>1, <2>2, <2>3, <2>4, <3>1 DEF IInv, Fields, Trying
    <3> QED
      BY <3>2 DEF IInv
  <2>5. CASE ~(s_retry < MAX_RETRY)
    <3>1. link' = link /\ s_retry' = s_retry /\ bits' = bits \cup {"FAIL"}
      BY <1>6, <2>5 DEF Disconnected
    <3>2. s_retry = MAX_RETRY
      BY <2>5 DEF IInv, Fields
    <3>3. Fields'
      BY <2>1, <2>2, <2>3, <3>1, <3>2 DEF IInv, Fields
    <3>4. GivenUp'
      BY <2>2, <2>3, <3>1, <3>2 DEF GivenUp
    <3> QED
      BY <3>3, <3>4 DEF IInv
  <2> QED
    BY <2>4, <2>5
<1>7. CASE GotIp
  <2>1. /\ posted' \in Seq(EventName) /\ ~Nothing
        /\ \A f \in EventName : Only(f) => f = "GOT_IP" /\ Nothing'
        /\ LostAgain => Only("STA_DISCONNECTED")'
    BY <1>7, Handling DEF IInv, GotIp, EventName
  <2> QED
    BY <1>7, <2>1 DEF IInv, Fields, Trying, GivenUp, GotIp, EventName
<1>8. CASE WaitReturns \/ WaitTimesOut
  BY <1>8 DEF IInv, Fields, Trying, GivenUp, Nothing, Only, LostAgain,
              WaitReturns, WaitTimesOut
<1>9. CASE esp_restart
  BY <1>9 DEF IInv, Fields, Trying, Only, EventName, esp_restart
<1>10. CASE UNCHANGED vars
  BY <1>10 DEF IInv, Fields, Trying, GivenUp, Nothing, Only, LostAgain, vars
<1> QED
  BY <1>1, <1>2, <1>3, <1>4, <1>5, <1>6, <1>7, <1>8, <1>9, <1>10
  DEF Next, driver, on_event, app_main

LEMMA Always == Spec => []IInv
<1>1. Init => IInv
  BY BootGood DEF Init
<1> QED
  BY <1>1, Inductive, PTL DEF Spec

-----------------------------------------------------------------------------
(***************************************************************************)
(* Every variable keeps its type; at most two events of the driver are     *)
(* ever outstanding.                                                       *)
(***************************************************************************)
THEOREM TypeCorrect == Spec => []TypeOK
<1>1. IInv => TypeOK
  <2> SUFFICES ASSUME IInv
               PROVE  TypeOK
    OBVIOUS
  <2>1. Len(posted) = 0 \/ Len(posted) = 1 \/ Len(posted) = 2
    BY Zenon DEF IInv, Trying, GivenUp, Nothing, Only, LostAgain
  <2>2. posted \in Seq({"STA_START", "STA_DISCONNECTED", "GOT_IP"})
    BY DEF IInv, Fields, EventName
  <2>3. Len(posted) \in 0 .. 2
    BY <2>1, <2>2
  <2>4. Len(posted) <= 2
    <3>1. \A n \in 0 .. 2 : n <= 2
      OBVIOUS
    <3> QED
      BY <2>3, <3>1, Zenon
  <2> QED
    BY <2>2, <2>4 DEF IInv, Fields, TypeOK
<1> QED
  BY <1>1, Always, PTL

(***************************************************************************)
(* The station is idle with nothing to handle only after MAX_RETRY + 1     *)
(* losses in a row.                                                        *)
(***************************************************************************)
THEOREM NeverIdleEarly == Spec => []IdleOnlyAfterRetries
<1>1. IInv => IdleOnlyAfterRetries
  BY DEF IInv, Fields, Trying, GivenUp, Nothing, Only, LostAgain,
         IdleOnlyAfterRetries
<1> QED
  BY <1>1, Always, PTL
=============================================================================
