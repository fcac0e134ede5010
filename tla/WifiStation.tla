---------------------------- MODULE WifiStation ----------------------------
(***************************************************************************)
(* main/wifi.c and the boot step of main/main.c that waits for it.  The    *)
(* Wi-Fi driver posts events to the default event loop, whose task runs    *)
(* on_event(); app_main() waits on the event group on_event() sets, and    *)
(* restarts the chip if the wait fails.                                    *)
(*                                                                         *)
(* The driver and the access point are not under src/: they are modelled   *)
(* by the events on_event() distinguishes.  An event is handled later than *)
(* it is posted, and the link may have changed in between.                 *)
(***************************************************************************)
EXTENDS Integers, Sequences

CONSTANT MAX_RETRY  \* consecutive reconnections on_event() asks for

ASSUME WifiAssumption == MAX_RETRY \in Nat

VARIABLES
  ap,       \* the access point answers this station
  link,     \* the driver: idle, connecting, associated, or up with an address
  posted,   \* events of the driver on_event() has not handled yet
  s_retry,
  bits,     \* the bits set in s_wifi_events
  app,      \* app_main(): waiting for the bits, running, or failed
  losses    \* history: disconnections handled since the last address, as far
            \* as MAX_RETRY + 1

vars == <<ap, link, posted, s_retry, bits, app, losses>>

\* esp_wifi_start() has posted STA_START, app_main() begins to wait.
Boot ==
  /\ link = "idle"
  /\ posted = <<"STA_START">>
  /\ s_retry = 0
  /\ bits = {}
  /\ app = "waiting"
  /\ losses = 0

Init == ap \in BOOLEAN /\ Boot

-----------------------------------------------------------------------------
(* The access point and the driver.                                        *)

Toggle ==
  /\ ap' = ~ap
  /\ UNCHANGED <<link, posted, s_retry, bits, app, losses>>

Associate ==
  /\ ap /\ link = "connecting"
  /\ link' = "associated"
  /\ UNCHANGED <<ap, posted, s_retry, bits, app, losses>>

Lease ==
  /\ ap /\ link = "associated"
  /\ link' = "up"
  /\ posted' = Append(posted, "GOT_IP")
  /\ UNCHANGED <<ap, s_retry, bits, app, losses>>

\* An attempt fails, or an established link is lost.
Drop ==
  /\ ~ap /\ link # "idle"
  /\ link' = "idle"
  /\ posted' = Append(posted, "STA_DISCONNECTED")
  /\ UNCHANGED <<ap, s_retry, bits, app, losses>>

-----------------------------------------------------------------------------
(* on_event(), in the task of the event loop.                              *)

Handle(event) ==
  /\ posted # <<>>
  /\ Head(posted) = event
  /\ posted' = Tail(posted)

esp_wifi_connect == link' = "connecting"

Started ==
  /\ Handle("STA_START")
  /\ esp_wifi_connect
  /\ UNCHANGED <<ap, s_retry, bits, app, losses>>

\* Mutant of Disconnected: one retry too many.
DisconnectedOnceMore ==
  /\ Handle("STA_DISCONNECTED")
  /\ losses' = IF losses <= MAX_RETRY THEN losses + 1 ELSE losses
  /\ IF s_retry <= MAX_RETRY
       THEN /\ esp_wifi_connect
            /\ s_retry' = s_retry + 1
            /\ UNCHANGED bits
       ELSE /\ bits' = bits \cup {"FAIL"}
            /\ UNCHANGED <<link, s_retry>>
  /\ UNCHANGED <<ap, app>>

Disconnected ==
  /\ Handle("STA_DISCONNECTED")
  /\ losses' = IF losses <= MAX_RETRY THEN losses + 1 ELSE losses
  /\ IF s_retry < MAX_RETRY
       THEN /\ esp_wifi_connect
            /\ s_retry' = s_retry + 1
            /\ UNCHANGED bits
       ELSE /\ bits' = bits \cup {"FAIL"}
            /\ UNCHANGED <<link, s_retry>>
  /\ UNCHANGED <<ap, app>>

\* Mutant of GotIp: the retries are never granted again.
GotIpKeepsRetries ==
  /\ Handle("GOT_IP")
  /\ losses' = 0
  /\ bits' = bits \cup {"CONNECTED"}
  /\ UNCHANGED <<ap, link, app, s_retry>>

GotIp ==
  /\ Handle("GOT_IP")
  /\ s_retry' = 0
  /\ losses' = 0
  /\ bits' = bits \cup {"CONNECTED"}
  /\ UNCHANGED <<ap, link, app>>

on_event == Started \/ Disconnected \/ GotIp

-----------------------------------------------------------------------------
(* wifi_connect_blocking() and app_main().                                 *)

\* xEventGroupWaitBits() returns with a bit set.
WaitReturns ==
  /\ app = "waiting"
  /\ bits # {}
  /\ app' = IF "CONNECTED" \in bits THEN "running" ELSE "failed"
  /\ UNCHANGED <<ap, link, posted, s_retry, bits, losses>>

\* Its 30 seconds are over, whether the access point answers or not.
WaitTimesOut ==
  /\ app = "waiting"
  /\ bits = {}
  /\ app' = "failed"
  /\ UNCHANGED <<ap, link, posted, s_retry, bits, losses>>

\* Mutant of esp_restart: app_main() returns instead.
esp_restart_never ==
  /\ app = "failed"
  /\ UNCHANGED vars

\* Ten seconds later, whatever the link does meanwhile.
esp_restart ==
  /\ app = "failed"
  /\ link' = "idle"
  /\ posted' = <<"STA_START">>
  /\ s_retry' = 0
  /\ bits' = {}
  /\ app' = "waiting"
  /\ losses' = 0
  /\ UNCHANGED ap

-----------------------------------------------------------------------------
app_main == WaitReturns \/ WaitTimesOut \/ esp_restart

driver == Associate \/ Lease \/ Drop

Next == Toggle \/ driver \/ on_event \/ app_main

\* The tasks run, and the driver finishes what it began.
Spec ==
  /\ Init
  /\ [][Next]_vars
  /\ WF_vars(driver)
  /\ WF_vars(on_event)
  /\ WF_vars(WaitReturns)
  /\ WF_vars(esp_restart)

-----------------------------------------------------------------------------
TypeOK ==
  /\ ap \in BOOLEAN
  /\ link \in {"idle", "connecting", "associated", "up"}
  /\ posted \in Seq({"STA_START", "STA_DISCONNECTED", "GOT_IP"})
  /\ Len(posted) <= 2
  /\ s_retry \in 0 .. MAX_RETRY
  /\ bits \subseteq {"CONNECTED", "FAIL"}
  /\ app \in {"waiting", "running", "failed"}
  /\ losses \in 0 .. MAX_RETRY + 1

(***************************************************************************)
(* The station stops trying only when it has lost MAX_RETRY + 1            *)
(* connections in a row: if the driver is idle and nothing is left for     *)
(* on_event() to handle, that many disconnections followed the last        *)
(* address, and the FAIL bit tells so.  No order in which links come, go   *)
(* and are handled leaves it idle before.                                  *)
(***************************************************************************)
IdleOnlyAfterRetries ==
  link = "idle" /\ posted = <<>>
    => losses = MAX_RETRY + 1 /\ "FAIL" \in bits

(***************************************************************************)
(* Whatever outages come first, if in the end the access point answers for *)
(* good, and soon enough for the 30 seconds, app_main() gets past the      *)
(* Wi-Fi step: each failure to connect ends in a restart that tries again. *)
(***************************************************************************)
BootRecovers ==
  (<>[]ap) /\ (<>[][~WaitTimesOut]_vars) => <>(app = "running")

=============================================================================
