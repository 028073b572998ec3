---------------------------- MODULE McpDevices -----------------------------
(***************************************************************************)
(* The device services of the MCP endpoint (src/mcp/mod.rs): one service   *)
(* with its sessions per device, leased to each request for as long as the *)
(* request is handled, dropped when idle for too long or when another      *)
(* device needs the room.  Dropping one cancels its sessions.              *)
(*                                                                         *)
(* service_for and DeviceLease::drop each run under the lock of the map and *)
(* are one action each.  A request whose device header is missing or       *)
(* malformed is answered before it gets here.                              *)
(***************************************************************************)
EXTENDS Integers, FiniteSets

CONSTANTS Devices,
          Requests,     \* MCP requests; a service is named by the one it was built for
          MaxDevices,   \* MAX_DEVICES
          IdleTtl,      \* DEVICE_IDLE_TTL, in ticks
          NoService

ASSUME McpAssumption ==
    /\ IsFiniteSet(Devices)
    /\ IsFiniteSet(Requests)
    /\ MaxDevices \in Nat \ {0}
    /\ IdleTtl \in Nat \ {0}
    /\ NoService \notin Requests

VARIABLES services,   \* device -> its DeviceEntry
          cancelled,  \* services whose cancellation token was triggered
          lease       \* request -> its DeviceLease

vars == <<services, cancelled, lease>>

-----------------------------------------------------------------------------
\* idle is the time since last_used; it stops at IdleTtl, the most that is asked.
Absent == [service |-> NoService, idle |-> 0, inFlight |-> 0]

\* A request has its lease from service_for to the response or to the moment
\* the client leaves.
Waiting == [phase |-> "waiting", device |-> NoService, service |-> NoService]

TypeOK ==
    /\ services \in [Devices -> [service : Requests \cup {NoService},
                                 idle : 0..IdleTtl, inFlight : Nat]]
    /\ cancelled \subseteq Requests
    /\ lease \in [Requests -> [phase : {"waiting", "held", "refused", "done"},
                               device : Devices \cup {NoService},
                               service : Requests \cup {NoService}]]

Init ==
    /\ services = [d \in Devices |-> Absent]
    /\ cancelled = {}
    /\ lease = [r \in Requests |-> Waiting]

-----------------------------------------------------------------------------
Present == {d \in Devices : services[d].service # NoService}
Holders(d) == {r \in Requests : lease[r].phase = "held" /\ lease[r].device = d}

\* Mutant: age alone decides.
IdleByAge(d) == TRUE

Idle(d) == services[d].inFlight = 0

Expired == {d \in Present : Idle(d) /\ services[d].idle >= IdleTtl}
Live == Present \ Expired

\* The idle devices that have waited longest: the map picks one of them.
Oldest == {d \in Live : /\ Idle(d)
                        /\ \A e \in Live : Idle(e) => services[d].idle >= services[e].idle}

\* What must go, besides the expired, before one more device fits.
MakesRoom(gone) ==
    \/ Cardinality(Live) < MaxDevices /\ gone = {}
    \/ Cardinality(Live) >= MaxDevices /\ \E d \in Oldest : gone = {d}

\* Remove the devices in gone and cancel their sessions; entry is then d's.
Replace(gone, d, entry) ==
    /\ services' = [e \in Devices |-> IF e = d THEN entry
                                      ELSE IF e \in gone THEN Absent
                                      ELSE services[e]]
    /\ cancelled' = cancelled \cup {services[e].service : e \in gone}

Grant(r, d, service) ==
    lease' = [lease EXCEPT ![r] = [phase |-> "held", device |-> d, service |-> service]]

\* The device has a service.
Reuse(r, d) ==
    /\ lease[r].phase = "waiting"
    /\ d \in Live
    /\ Replace(Expired, d, [service |-> services[d].service, idle |-> 0,
                            inFlight |-> services[d].inFlight + 1])
    /\ Grant(r, d, services[d].service)

\* It gets a new one.
Build(r, d) ==
    /\ lease[r].phase = "waiting"
    /\ d \in Devices \ Live
    /\ \E gone \in SUBSET Live :
          /\ MakesRoom(gone)
          /\ Replace(Expired \cup gone, d, [service |-> r, idle |-> 0, inFlight |-> 1])
    /\ Grant(r, d, r)

\* Mutant: the device used least recently is looked at before its leases are.
OldestIsBusy ==
    \E d \in Live : ~Idle(d) /\ \A e \in Live : services[d].idle >= services[e].idle

NoneIdle == \A d \in Live : ~Idle(d)

\* Every device in the map is busy: 503.
Refuse(r, d) ==
    /\ lease[r].phase = "waiting"
    /\ d \in Devices \ Live
    /\ Cardinality(Live) >= MaxDevices
    /\ NoneIdle
    /\ services' = [e \in Devices |-> IF e \in Expired THEN Absent ELSE services[e]]
    /\ cancelled' = cancelled \cup {services[e].service : e \in Expired}
    /\ lease' = [lease EXCEPT ![r].phase = "refused"]

\* saturating_sub
Less(n) == IF n = 0 THEN 0 ELSE n - 1

\* The response is there, or the client left: the lease gives back whatever
\* entry the device has by then.
DropLease(r) ==
    /\ lease[r].phase = "held"
    /\ services' = [d \in Devices |->
                       IF d = lease[r].device /\ d \in Present
                       THEN [service |-> services[d].service, idle |-> 0,
                             inFlight |-> Less(services[d].inFlight)]
                       ELSE services[d]]
    /\ lease' = [lease EXCEPT ![r].phase = "done"]
    /\ UNCHANGED cancelled

Later(n) == IF n < IdleTtl THEN n + 1 ELSE n

Tick ==
    /\ services' = [d \in Devices |->
                       IF d \in Present THEN [services[d] EXCEPT !.idle = Later(@)]
                       ELSE services[d]]
    /\ services' # services
    /\ UNCHANGED <<cancelled, lease>>

Next ==
    \/ \E r \in Requests, d \in Devices : Reuse(r, d) \/ Build(r, d) \/ Refuse(r, d)
    \/ \E r \in Requests : DropLease(r)
    \/ Tick

Spec == Init /\ [][Next]_vars

-----------------------------------------------------------------------------
(* Properties.                                                             *)

\* in_flight is the number of requests that hold a lease of the device, so a
\* device is never taken for idle while one is handled, nor pinned for ever by
\* one that has ended (DeviceLease, src/mcp/mod.rs).
LeasesExact == \A d \in Devices : services[d].inFlight = Cardinality(Holders(d))

\* A request works on its device's current service, and that service has not
\* been cancelled: neither idleness nor eviction ends the sessions of a request
\* that is being handled (service_for, src/mcp/mod.rs).
HeldServiceLives ==
    \A r \in Requests : lease[r].phase = "held" =>
        /\ lease[r].device \in Present
        /\ lease[r].service = services[lease[r].device].service
        /\ lease[r].service \notin cancelled

\* No two devices share a service, and every service in the map is one that was
\* built and has not been cancelled, whether a request holds it or not: a
\* device that comes back never gets the sessions it lost.
OwnServices ==
    /\ \A d \in Present : /\ lease[services[d].service].phase # "waiting"
                          /\ services[d].service \notin cancelled
    /\ \A d, e \in Present : services[d].service = services[e].service => d = e
    /\ \A r \in cancelled : lease[r].phase # "waiting"

\* The map stays within MAX_DEVICES.
WithinCapacity == Cardinality(Present) <= MaxDevices

\* A request is refused only when as many devices as fit have a request in
\* flight each: idle devices make room at once (service_for, src/mcp/mod.rs).
RefusedOnlyWhenBusy ==
    [][\A r \in Requests :
          lease[r].phase = "waiting" /\ lease'[r].phase = "refused" =>
              Cardinality({d \in Devices : Holders(d) # {}}) >= MaxDevices]_vars
=============================================================================
