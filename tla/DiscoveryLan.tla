---------------------------- MODULE DiscoveryLan ----------------------------
(***************************************************************************)
(* Discovery on a LAN whose DHCP server moves addresses between hosts: a   *)
(* history variable records whose address each one was, so that it can be  *)
(* compared with what the inventory made of it.                            *)
(***************************************************************************)
EXTENDS Discovery

VARIABLE
  tenant  \* history: the MAC that last answered from each address, unless it
          \* has answered from another one since

LanInit ==
  /\ Init
  /\ tenant = [a \in ADDR |-> NONE]

\* Leases change hands between passes: within one, a host has one address and
\* an address one host.
Harvested(m, addr) ==
  /\ m \in heard \/ tenant[addr] \in heard => tenant[addr] = m
  /\ harvest_one(m, addr)
  /\ tenant' = [a \in ADDR |-> IF a = addr THEN m
                               ELSE IF tenant[a] = m THEN NONE ELSE tenant[a]]

PowerCycle ==
  /\ Restart
  /\ tenant' = [a \in ADDR |-> NONE]

LanNext ==
  \/ \E m \in MAC, addr \in ADDR : Harvested(m, addr)
  \/ PowerCycle
  \/ (Tick \/ discovery_trigger_now \/ discovery_task) /\ UNCHANGED tenant

LanSpec == LanInit /\ [][LanNext]_<<vars, tenant>>

-----------------------------------------------------------------------------
(***************************************************************************)
(* README: MAC is the primary key, so that a DHCP lease that changes hands *)
(* confuses nothing.  But a name is given to the first slot that records   *)
(* the address, and a device that left keeps the address it had: the name  *)
(* of the new tenant becomes, for good, that of the old one.               *)
(***************************************************************************)
NameIsOfTheTenant ==
  [][\A i \in InUse(devices) :
       devices[i].hostname = NONE /\ devices'[i].hostname # NONE
         => devices[i].mac = tenant[devices[i].ip]]_devices
=============================================================================
