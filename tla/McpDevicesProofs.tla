------------------------- MODULE McpDevicesProofs --------------------------
(***************************************************************************)
(* The invariants of McpDevices for any devices, requests, capacity and    *)
(* idle time.  Idleness is read off a counter; what makes it safe to       *)
(* cancel an idle device is that the counter is exact (LeasesExact), and   *)
(* what makes it safe for the others that no two share a service.          *)
(***************************************************************************)
EXTENDS McpDevices, FiniteSetTheorems, TLAPS

IndInv == TypeOK /\ LeasesExact /\ HeldServiceLives /\ OwnServices /\ WithinCapacity

Entry == [service : Requests \cup {NoService}, idle : 0..IdleTtl, inFlight : Nat]

-----------------------------------------------------------------------------
(* Sets of devices and of requests are finite.                             *)

\* The leases of a device and the devices in the map are finite sets.
LEMMA Finite ==
    /\ IsFiniteSet(Present)
    /\ IsFiniteSet(Live)
    /\ \A d \in Devices : IsFiniteSet(Holders(d))
  BY McpAssumption, FS_Subset, SMT DEF Present, Live, Holders

\* A device is idle exactly when nobody holds it.
LEMMA IdleMeansFree ==
    ASSUME TypeOK, LeasesExact, NEW d \in Devices
    PROVE  Idle(d) <=> Holders(d) = {}
  <1>1. services[d].inFlight = Cardinality(Holders(d))
    BY DEF LeasesExact
  <1>2. Cardinality(Holders(d)) = 0 <=> Holders(d) = {}
    BY Finite, FS_EmptySet
  <1>. QED BY <1>1, <1>2 DEF Idle

-----------------------------------------------------------------------------
(* A request enters: some idle devices go, its device has the new entry.   *)

\* Whatever is removed was idle, so nobody's service is cancelled, and the new
\* entry counts the request that it was made for.
LEMMA Entering ==
    ASSUME IndInv, NEW r \in Requests, NEW d \in Devices,
           NEW gone \in SUBSET Present, \A e \in gone : Idle(e),
           NEW entry \in Entry,
           lease[r].phase = "waiting",
           Replace(gone, d, entry), Grant(r, d, entry.service),
           \/ /\ d \notin Present \ gone
              /\ entry.service = r /\ entry.inFlight = 1
           \/ /\ d \in Present \ gone
              /\ entry.service = services[d].service
              /\ entry.inFlight = services[d].inFlight + 1
    PROVE  /\ TypeOK' /\ LeasesExact' /\ HeldServiceLives' /\ OwnServices'
           /\ Present' = (Present \ gone) \cup {d}
  <1>. USE DEF IndInv
  <1>0. /\ entry.service \in Requests
        /\ Absent \in Entry
        /\ Absent.service = NoService /\ Absent.inFlight = 0
    BY McpAssumption DEF TypeOK, Entry, Absent, Present
  <1>1. /\ \A e \in Devices : services'[e] = IF e = d THEN entry
                                             ELSE IF e \in gone THEN Absent ELSE services[e]
        /\ services' \in [Devices -> Entry]
    BY <1>0 DEF Replace, TypeOK, Entry
  <1>2. /\ lease'[r] = [phase |-> "held", device |-> d, service |-> entry.service]
        /\ \A q \in Requests \ {r} : lease'[q] = lease[q]
        /\ lease' \in [Requests -> [phase : {"waiting", "held", "refused", "done"},
                                    device : Devices \cup {NoService},
                                    service : Requests \cup {NoService}]]
    BY <1>0 DEF Grant, TypeOK
  <1>3. \A e \in gone : Holders(e) = {}
    BY IdleMeansFree DEF Present
  <1>4. d \notin Present \ gone => Holders(d) = {}
    BY <1>3 DEF HeldServiceLives, Holders
  <1>5. Present' = (Present \ gone) \cup {d}
    BY <1>0, <1>1, McpAssumption DEF Present
  <1>6. /\ cancelled' = cancelled \cup {services[e].service : e \in gone}
        /\ cancelled' \subseteq Requests
    BY DEF Replace, TypeOK, Present
  <1>7. TypeOK'
    BY <1>1, <1>2, <1>6 DEF TypeOK, Entry
  <1>8. LeasesExact'
    <2>1. r \notin Holders(d) /\ Holders(d)' = Holders(d) \cup {r}
      BY <1>2 DEF Holders
    <2>2. Cardinality(Holders(d)') = Cardinality(Holders(d)) + 1
      BY <2>1, Finite, FS_AddElement
    <2>3. entry.inFlight = Cardinality(Holders(d)) + 1
      BY <1>4, FS_EmptySet DEF LeasesExact
    <2>4. services'[d].inFlight = Cardinality(Holders(d)')
      BY <1>1, <2>2, <2>3
    <2>5. ASSUME NEW e \in Devices, e # d
          PROVE  services'[e].inFlight = Cardinality(Holders(e)')
      <3>1. Holders(e)' = Holders(e)
        BY <1>2, <2>5 DEF Holders
      <3>2. CASE e \in gone
        BY <1>0, <1>1, <1>3, <2>5, <3>1, <3>2, FS_EmptySet
      <3>3. CASE e \notin gone
        BY <1>1, <2>5, <3>1, <3>3 DEF LeasesExact
      <3>. QED BY <3>2, <3>3
    <2>. QED BY <2>4, <2>5 DEF LeasesExact
  <1>9. ASSUME NEW e \in Present \ gone
        PROVE  services[e].service \notin cancelled'
    BY <1>6, <1>9 DEF OwnServices
  <1>10. entry.service \notin cancelled'
    <2>1. CASE d \in Present \ gone
      BY <1>9, <2>1
    <2>2. CASE d \notin Present \ gone
      BY <1>6, <2>2 DEF OwnServices
    <2>. QED BY <2>1, <2>2
  <1>11. HeldServiceLives'
    <2>1. ASSUME NEW q \in Requests, lease'[q].phase = "held"
          PROVE  /\ lease'[q].device \in Present'
                 /\ lease'[q].service = services'[lease'[q].device].service
                 /\ lease'[q].service \notin cancelled'
      <3>1. CASE q = r
        BY <1>1, <1>2, <1>5, <1>10, <3>1
      <3>2. CASE q # r
        <4>. DEFINE e == lease[q].device
        <4>1. /\ lease'[q] = lease[q] /\ lease[q].phase = "held"
              /\ e \in Present /\ q \in Holders(e)
              /\ lease[q].service = services[e].service
          BY <1>2, <2>1, <3>2 DEF HeldServiceLives, Holders
        <4>2. e \in Present \ gone
          BY <1>3, <4>1
        <4>3. services'[e].service = services[e].service
          BY <1>1, <4>2 DEF Present
        <4>. QED BY <1>5, <1>9, <4>1, <4>2, <4>3
      <3>. QED BY <3>1, <3>2
    <2>. QED BY <2>1 DEF HeldServiceLives
  <1>12. OwnServices'
    <2>1. ASSUME NEW e \in Present'
          PROVE  /\ services'[e].service = IF e = d THEN entry.service ELSE services[e].service
                 /\ e # d => e \in Present \ gone
      BY <1>1, <1>5, <2>1 DEF Present
    <2>2. ASSUME NEW q \in Requests, lease[q].phase # "waiting" \/ q = r
          PROVE  lease'[q].phase # "waiting"
      BY <1>2, <2>2
    <2>3. ASSUME NEW e \in Present'
          PROVE  /\ lease'[services'[e].service].phase # "waiting"
                 /\ services'[e].service \notin cancelled'
      <3>1. CASE e = d
        BY <1>0, <1>10, <2>1, <2>2, <3>1 DEF OwnServices
      <3>2. CASE e # d
        <4>1. e \in Present \ gone /\ services[e].service \in Requests
          BY <2>1, <3>2 DEF Present, TypeOK
        <4>. QED BY <1>9, <2>1, <2>2, <3>2, <4>1 DEF OwnServices
      <3>. QED BY <3>1, <3>2
    <2>4. ASSUME NEW e \in Present', e # d
          PROVE  services[e].service # entry.service
      BY <2>1, <2>4 DEF OwnServices
    <2>5. \A e, f \in Present' : services'[e].service = services'[f].service => e = f
      BY <2>1, <2>4 DEF OwnServices
    <2>6. \A q \in cancelled' : lease'[q].phase # "waiting"
      BY <1>6, <2>2 DEF OwnServices, TypeOK, Present
    <2>. QED BY <2>3, <2>5, <2>6 DEF OwnServices
  <1>. QED BY <1>5, <1>7, <1>8, <1>11, <1>12

-----------------------------------------------------------------------------
(* The steps.                                                              *)

\* A request finds its device's service.
LEMMA ReuseKeeps ==
    ASSUME IndInv, NEW r \in Requests, NEW d \in Devices, Reuse(r, d)
    PROVE  IndInv'
  <1>. DEFINE entry == [service |-> services[d].service, idle |-> 0,
                        inFlight |-> services[d].inFlight + 1]
  <1>1. /\ d \in Present \ Expired
        /\ \A e \in Expired : Idle(e)
        /\ Expired \in SUBSET Present
        /\ entry \in Entry
    BY McpAssumption DEF Reuse, Live, Expired, IndInv, TypeOK, Entry
  <1>2. /\ TypeOK' /\ LeasesExact' /\ HeldServiceLives' /\ OwnServices'
        /\ Present' = (Present \ Expired) \cup {d}
    BY <1>1, Entering DEF Reuse
  <1>3. WithinCapacity'
    <2>1. Present' \in SUBSET Present
      BY <1>1, <1>2
    <2>2. Cardinality(Present') <= Cardinality(Present)
      BY <2>1, Finite, FS_Subset
    <2>3. Cardinality(Present') \in Nat /\ Cardinality(Present) \in Nat
      BY <2>1, Finite, FS_Subset, FS_CardinalityType
    <2>. QED BY <2>2, <2>3, McpAssumption DEF WithinCapacity, IndInv
  <1>. QED BY <1>2, <1>3 DEF IndInv

\* A request gets a new service; an idle device has made room where needed.
LEMMA BuildKeeps ==
    ASSUME IndInv, NEW r \in Requests, NEW d \in Devices, Build(r, d)
    PROVE  IndInv'
  <1>1. PICK gone \in SUBSET Live :
           /\ MakesRoom(gone)
           /\ Replace(Expired \cup gone, d, [service |-> r, idle |-> 0, inFlight |-> 1])
    BY DEF Build
  <1>. DEFINE entry == [service |-> r, idle |-> 0, inFlight |-> 1]
              left  == Live \ gone
  <1>2. /\ Expired \cup gone \in SUBSET Present
        /\ \A e \in Expired \cup gone : Idle(e)
        /\ Present \ (Expired \cup gone) = left
        /\ d \notin left
        /\ entry \in Entry
    BY <1>1, McpAssumption DEF Build, Live, Expired, MakesRoom, Oldest, Entry
  <1>3. /\ TypeOK' /\ LeasesExact' /\ HeldServiceLives' /\ OwnServices'
        /\ Present' = left \cup {d}
    BY <1>1, <1>2, Entering DEF Build
  <1>4. WithinCapacity'
    <2>1. /\ IsFiniteSet(left) /\ Cardinality(left) \in Nat
          /\ Cardinality(Live) \in Nat /\ Cardinality(Present) \in Nat
      BY Finite, FS_Subset, FS_CardinalityType
    <2>2. Cardinality(Live) <= MaxDevices
      <3>1. Cardinality(Live) <= Cardinality(Present)
        BY Finite, FS_Subset DEF Live
      <3>. QED BY <2>1, <3>1, McpAssumption DEF IndInv, WithinCapacity
    <2>3. Cardinality(left) < MaxDevices
      <3>1. CASE Cardinality(Live) < MaxDevices /\ gone = {}
        BY <3>1
      <3>2. CASE \E e \in Oldest : gone = {e}
        <4>1. PICK e \in Live : gone = {e}
          BY <3>2 DEF Oldest
        <4>2. Cardinality(left) = Cardinality(Live) - 1
          BY <4>1, Finite, FS_RemoveElement
        <4>. QED BY <2>1, <2>2, <4>2, McpAssumption
      <3>. QED BY <1>1, <3>1, <3>2 DEF MakesRoom
    <2>4. Cardinality(Present') = Cardinality(left) + 1
      BY <1>2, <1>3, <2>1, FS_AddElement
    <2>. QED BY <2>1, <2>3, <2>4, McpAssumption DEF WithinCapacity
  <1>. QED BY <1>3, <1>4 DEF IndInv

\* A refused request leaves only the expired devices changed.
LEMMA RefuseKeeps ==
    ASSUME IndInv, NEW r \in Requests, NEW d \in Devices, Refuse(r, d)
    PROVE  IndInv'
  <1>. USE DEF IndInv
  <1>1. /\ Absent \in Entry /\ Absent.service = NoService /\ Absent.inFlight = 0
        /\ services' \in [Devices -> Entry]
        /\ \A e \in Devices : services'[e] = IF e \in Expired THEN Absent ELSE services[e]
    BY McpAssumption DEF Refuse, TypeOK, Entry, Absent
  <1>2. /\ lease' \in [Requests -> [phase : {"waiting", "held", "refused", "done"},
                                    device : Devices \cup {NoService},
                                    service : Requests \cup {NoService}]]
        /\ \A q \in Requests \ {r} : lease'[q] = lease[q]
        /\ lease[r].phase = "waiting" /\ lease'[r].phase = "refused"
    BY DEF Refuse, TypeOK
  <1>3. /\ cancelled' = cancelled \cup {services[e].service : e \in Expired}
        /\ cancelled' \subseteq Requests
        /\ Expired \subseteq Present /\ Expired \subseteq Devices
    BY DEF Refuse, TypeOK, Expired, Present
  <1>4. Present' = Present \ Expired
    BY <1>1, McpAssumption DEF Present
  <1>5. \A e \in Expired : Holders(e) = {}
    BY IdleMeansFree DEF Expired, Present
  <1>6. \A e \in Devices : Holders(e)' = Holders(e)
    BY <1>2 DEF Holders
  <1>7. TypeOK'
    BY <1>1, <1>2, <1>3 DEF TypeOK, Entry
  <1>8. LeasesExact'
    BY <1>1, <1>5, <1>6, FS_EmptySet DEF LeasesExact
  <1>9. \A e \in Present' : /\ e \in Present /\ services'[e] = services[e]
                            /\ services[e].service \notin cancelled'
    BY <1>1, <1>3, <1>4 DEF OwnServices, Present
  <1>10. HeldServiceLives'
    <2>1. ASSUME NEW q \in Requests, lease'[q].phase = "held"
          PROVE  /\ lease'[q].device \in Present'
                 /\ lease'[q].service = services'[lease'[q].device].service
                 /\ lease'[q].service \notin cancelled'
      <3>. DEFINE e == lease[q].device
      <3>1. /\ lease'[q] = lease[q] /\ q \in Holders(e)
            /\ e \in Present /\ lease[q].service = services[e].service
        BY <1>2, <2>1 DEF HeldServiceLives, Holders
      <3>2. e \in Present'
        BY <1>4, <1>5, <3>1
      <3>. QED BY <1>9, <3>1, <3>2
    <2>. QED BY <2>1 DEF HeldServiceLives
  <1>11. OwnServices'
    <2>1. \A q \in Requests : lease[q].phase # "waiting" => lease'[q].phase # "waiting"
      BY <1>2
    <2>2. \A e \in Present' : services[e].service \in Requests
      BY <1>9 DEF Present, TypeOK
    <2>3. \A q \in cancelled' : lease[q].phase # "waiting"
      BY <1>3 DEF OwnServices
    <2>. QED BY <1>3, <1>9, <2>1, <2>2, <2>3 DEF OwnServices
  <1>12. WithinCapacity'
    <2>1. /\ Cardinality(Present') <= Cardinality(Present)
          /\ Cardinality(Present') \in Nat /\ Cardinality(Present) \in Nat
      BY <1>4, Finite, FS_Subset, FS_CardinalityType
    <2>. QED BY <2>1, McpAssumption DEF WithinCapacity
  <1>. QED BY <1>7, <1>8, <1>10, <1>11, <1>12

\* A lease that ends takes one off its device's counter and nothing else.
LEMMA DropKeeps ==
    ASSUME IndInv, NEW r \in Requests, DropLease(r)
    PROVE  IndInv'
  <1>. USE DEF IndInv
  <1>0. PICK d \in Present : lease[r].device = d
    BY DEF DropLease, HeldServiceLives
  <1>1. /\ d \in Devices /\ r \in Holders(d)
        /\ services[d].inFlight \in Nat
    BY <1>0 DEF DropLease, Present, Holders, TypeOK
  <1>2. /\ services' \in [Devices -> Entry]
        /\ \A e \in Devices : services'[e].service = services[e].service
        /\ \A e \in Devices : e # d => services'[e] = services[e]
        /\ services'[d].inFlight = Less(services[d].inFlight)
    <2>. DEFINE left == [service |-> services[d].service, idle |-> 0,
                         inFlight |-> Less(services[d].inFlight)]
    <2>1. left \in Entry
      BY <1>1, McpAssumption DEF TypeOK, Entry, Less
    <2>2. services' = [e \in Devices |-> IF e = d THEN left ELSE services[e]]
      BY <1>0, <1>1 DEF DropLease
    <2>. QED BY <1>1, <2>1, <2>2 DEF TypeOK, Entry
  <1>3. /\ lease' \in [Requests -> [phase : {"waiting", "held", "refused", "done"},
                                    device : Devices \cup {NoService},
                                    service : Requests \cup {NoService}]]
        /\ \A q \in Requests \ {r} : lease'[q] = lease[q]
        /\ lease'[r].phase = "done"
        /\ cancelled' = cancelled
    BY DEF DropLease, TypeOK
  <1>4. Present' = Present
    BY <1>2 DEF Present
  <1>5. TypeOK'
    BY <1>2, <1>3 DEF TypeOK, Entry
  <1>6. LeasesExact'
    <2>1. Holders(d)' = Holders(d) \ {r}
      BY <1>1, <1>3 DEF Holders
    <2>2. /\ Cardinality(Holders(d)') = Cardinality(Holders(d)) - 1
          /\ Cardinality(Holders(d)') \in Nat
      BY <1>1, <2>1, Finite, FS_RemoveElement, FS_CardinalityType
    <2>3. services'[d].inFlight = Cardinality(Holders(d)')
      BY <1>1, <1>2, <2>2 DEF LeasesExact, Less
    <2>4. ASSUME NEW e \in Devices, e # d
          PROVE  services'[e].inFlight = Cardinality(Holders(e)')
      <3>1. Holders(e)' = Holders(e)
        BY <1>0, <1>3, <2>4 DEF Holders
      <3>. QED BY <1>2, <2>4, <3>1 DEF LeasesExact
    <2>. QED BY <2>3, <2>4 DEF LeasesExact
  <1>7. HeldServiceLives'
    BY <1>2, <1>3, <1>4 DEF HeldServiceLives, Present
  <1>8. OwnServices'
    <2>1. \A q \in Requests : lease[q].phase # "waiting" => lease'[q].phase # "waiting"
      BY <1>3
    <2>2. \A e \in Present : e \in Devices /\ services[e].service \in Requests
      BY DEF Present, TypeOK
    <2>. QED BY <1>2, <1>3, <1>4, <2>1, <2>2 DEF OwnServices, TypeOK
  <1>9. WithinCapacity'
    BY <1>4 DEF WithinCapacity
  <1>. QED BY <1>5, <1>6, <1>7, <1>8, <1>9

\* Time changes the idle times only.
LEMMA TickKeeps ==
    ASSUME IndInv, Tick
    PROVE  IndInv'
  <1>. USE DEF IndInv
  <1>1. /\ services' \in [Devices -> Entry]
        /\ \A e \in Devices : /\ services'[e].service = services[e].service
                              /\ services'[e].inFlight = services[e].inFlight
        /\ cancelled' = cancelled /\ lease' = lease
    BY McpAssumption DEF Tick, TypeOK, Entry, Later
  <1>2. Present' = Present /\ \A e \in Devices : Holders(e)' = Holders(e)
    BY <1>1 DEF Present, Holders
  <1>3. TypeOK'
    BY <1>1 DEF TypeOK, Entry
  <1>4. LeasesExact' /\ WithinCapacity'
    BY <1>1, <1>2 DEF LeasesExact, WithinCapacity
  <1>5. HeldServiceLives' /\ OwnServices'
    BY <1>1, <1>2 DEF HeldServiceLives, OwnServices, Present
  <1>. QED BY <1>3, <1>4, <1>5

-----------------------------------------------------------------------------
(* The theorems.                                                           *)

\* At the start there is neither a service nor a lease.
LEMMA Starts == ASSUME Init PROVE IndInv
  <1>1. Present = {}
    BY DEF Init, Present, Absent
  <1>2. \A d \in Devices : Holders(d) = {}
    BY DEF Init, Holders, Waiting
  <1>3. TypeOK
    BY McpAssumption DEF Init, TypeOK, Absent, Waiting
  <1>4. LeasesExact
    BY <1>2, FS_EmptySet DEF Init, LeasesExact, Absent
  <1>5. HeldServiceLives /\ OwnServices
    BY <1>1 DEF Init, HeldServiceLives, OwnServices, Waiting
  <1>6. WithinCapacity
    BY <1>1, FS_EmptySet, McpAssumption DEF WithinCapacity
  <1>. QED BY <1>3, <1>4, <1>5, <1>6 DEF IndInv

\* Every behaviour of the device services satisfies the inductive invariant.
THEOREM Inductive == Spec => []IndInv
  <1>1. ASSUME IndInv, Next PROVE IndInv'
    BY <1>1, ReuseKeeps, BuildKeeps, RefuseKeeps, DropKeeps, TickKeeps DEF Next
  <1>2. ASSUME IndInv, UNCHANGED vars PROVE IndInv'
    BY <1>2 DEF vars, IndInv, TypeOK, LeasesExact, HeldServiceLives, OwnServices,
                WithinCapacity, Present, Holders
  <1>. QED BY <1>1, <1>2, Starts, PTL DEF Spec

\* The in-flight count of every device is the number of leases that are held,
\* for any number of devices and requests.
THEOREM LeasesExactCorrect == Spec => []LeasesExact
  BY Inductive, PTL DEF IndInv

\* Neither idleness nor eviction ever cancels the service of a request that is
\* being handled.
THEOREM HeldServiceLivesCorrect == Spec => []HeldServiceLives
  BY Inductive, PTL DEF IndInv

\* No service is shared between devices or handed out again once cancelled.
THEOREM OwnServicesCorrect == Spec => []OwnServices
  BY Inductive, PTL DEF IndInv

\* The map of services stays within its capacity.
THEOREM WithinCapacityCorrect == Spec => []WithinCapacity
  BY Inductive, PTL DEF IndInv

\* A refusal means that as many devices as fit have a request in flight.
THEOREM RefusedOnlyWhenBusyCorrect == Spec => RefusedOnlyWhenBusy
  <1>. DEFINE Busy == {d \in Devices : Holders(d) # {}}
  <1>1. ASSUME IndInv, Next, NEW r \in Requests,
               lease[r].phase = "waiting", lease'[r].phase = "refused"
        PROVE  Cardinality(Busy) >= MaxDevices
    <2>1. PICK q \in Requests, d \in Devices : Refuse(q, d)
      <3>1. ASSUME NEW q \in Requests, NEW d \in Devices, Reuse(q, d) \/ Build(q, d)
            PROVE  FALSE
        BY <1>1, <3>1 DEF Reuse, Build, Grant, IndInv, TypeOK
      <3>2. ASSUME NEW q \in Requests, DropLease(q) PROVE FALSE
        BY <1>1, <3>2 DEF DropLease, IndInv, TypeOK
      <3>3. ~Tick
        BY <1>1 DEF Tick
      <3>. QED BY <1>1, <3>1, <3>2, <3>3 DEF Next
    <2>2. Live \in SUBSET Busy
      BY <1>1, <2>1, IdleMeansFree DEF Refuse, NoneIdle, Live, Present, IndInv
    <2>3. /\ Cardinality(Live) <= Cardinality(Busy)
          /\ Cardinality(Live) \in Nat /\ Cardinality(Busy) \in Nat
      BY <2>2, McpAssumption, FS_Subset, FS_CardinalityType
    <2>. QED BY <2>1, <2>3, McpAssumption DEF Refuse
  <1>2. IndInv /\ [Next]_vars =>
          [\A r \in Requests :
             lease[r].phase = "waiting" /\ lease'[r].phase = "refused" =>
                 Cardinality(Busy) >= MaxDevices]_vars
    BY <1>1
  <1>. QED BY <1>2, Inductive, PTL DEF Spec, RefusedOnlyWhenBusy
=============================================================================
