-------------------------- MODULE VehicleAddressing --------------------------
(***************************************************************************)
(* Address pools and binder registration of SatelliteNetworkConfiguratorScs *)
(* while SUMO/Veins vehicles enter and leave the simulation.               *)
(*                                                                         *)
(* A vehicle is named by its OMNeT++ module id: ids only grow and are      *)
(* never reused.  The periodic timer runs reinvokeConfigurator(), of which *)
(* this module keeps the two loops that touch the pools and the binder:    *)
(* cleanupVeinsNode() over the ids of the two address maps, then           *)
(* checkAndConfigureVehicleInterfaces() over the vehicles of the freshly   *)
(* extracted topology.  The simulator is single-threaded, so no vehicle    *)
(* enters or leaves inside the handler: Enter and Exit wait for phase      *)
(* "idle", and one step of the handler is one iteration of its loop.       *)
(*                                                                         *)
(* An address is its host part: the wlan and cellular pools live in two    *)
(* different /24 networks (10.3.0.0 and 10.4.0.0), so the base is the      *)
(* pool's name.  A MacNodeId is the vehicle it was issued to.              *)
(***************************************************************************)
EXTENDS Integers, Sequences

CONSTANTS
  MaxVehicle,     \* bound: how many vehicles ever enter
  First,          \* IpPool::nextAddress after construction (100)
  MaxHost,        \* IpPool::maxHosts, (~netmask) - 1 (254)
  CarTypes,       \* the kinds of vehicle the network can contain
  NicUnregisters  \* external: does the cellular NIC tell the binder when its
                  \* vehicle is deleted?

Vehicle == 1..MaxVehicle
Pool    == {"wlan", "cellular"}
CarType == [ifaces : SUBSET Pool, nic : BOOLEAN]

Unspecified == 0   \* 0.0.0.0, MacNodeId 0 and "no entry in this map"
NoInterface == -1  \* the vehicle does not exist or lacks this interface

ASSUME ConstantAssumption ==
  /\ MaxVehicle \in Nat
  /\ First \in Nat \ {0}
  /\ MaxHost \in Nat
  /\ First <= MaxHost
  /\ CarTypes \subseteq CarType
  /\ NicUnregisters \in BOOLEAN

Addr == First..MaxHost

VARIABLES
  created,    \* the last module id handed out
  live,       \* modules that exist
  ifAddr,     \* vehicle -> pool -> the interface's IPv4 address
  nextAddress, freeAddressesQueue, usedAddressesSet,  \* the two IpPools
  nodeToIpMap,           \* pool -> vehicle -> leased address
  nodeIdToMacNodeIdMap,  \* vehicle -> cached MacNodeId
  binderNodes,           \* external: MacNodeIds the binder knows
  nicOf,                 \* external: vehicles whose NIC registered itself
  binderIp,              \* external: cellular address -> MacNodeId
  phase,      \* where the timer handler is; "failed" after cRuntimeError
  todo        \* what its current loop has still to visit

poolVars   == <<nextAddress, freeAddressesQueue, usedAddressesSet, nodeToIpMap>>
binderVars == <<nodeIdToMacNodeIdMap, binderNodes, nicOf, binderIp>>
vars == <<created, live, ifAddr, poolVars, binderVars, phase, todo>>

NoLease == [v \in Vehicle |-> Unspecified]

Init ==
  /\ created = 0
  /\ live = {}
  /\ ifAddr = [v \in Vehicle |-> [p \in Pool |-> NoInterface]]
  /\ nextAddress = [p \in Pool |-> First]
  /\ freeAddressesQueue = [p \in Pool |-> <<>>]
  /\ usedAddressesSet = [p \in Pool |-> {}]
  /\ nodeToIpMap = [p \in Pool |-> NoLease]
  /\ nodeIdToMacNodeIdMap = NoLease
  /\ binderNodes = {}
  /\ nicOf = {}
  /\ binderIp = [a \in Addr |-> Unspecified]
  /\ phase = "idle"
  /\ todo = {}

-----------------------------------------------------------------------------
(* The traffic simulator.                                                  *)

(* A vehicle module is created.  Its interfaces have no address; a NIC     *)
(* registers the vehicle in the binder.                                    *)
Enter(type) ==
  /\ phase = "idle"
  /\ created < MaxVehicle
  /\ LET v == created + 1
     IN /\ created' = v
        /\ live' = live \cup {v}
        /\ ifAddr' = [ifAddr EXCEPT ![v] =
             [p \in Pool |-> IF p \in type.ifaces THEN Unspecified ELSE NoInterface]]
        /\ nicOf' = IF type.nic THEN nicOf \cup {v} ELSE nicOf
        /\ binderNodes' = IF type.nic THEN binderNodes \cup {v} ELSE binderNodes
  /\ UNCHANGED <<poolVars, nodeIdToMacNodeIdMap, binderIp, phase, todo>>

(* A vehicle leaves and its module is deleted.  The configurator is not    *)
(* told.  A NIC that unregisters also removes the addresses that resolve   *)
(* to its MacNodeId.                                                       *)
Exit(v) ==
  /\ phase = "idle"
  /\ v \in live
  /\ live' = live \ {v}
  /\ ifAddr' = [ifAddr EXCEPT ![v] = [p \in Pool |-> NoInterface]]
  /\ nicOf' = nicOf \ {v}
  /\ IF NicUnregisters /\ v \in nicOf
     THEN /\ binderNodes' = binderNodes \ {v}
          /\ binderIp' = [a \in Addr |-> IF binderIp[a] = v THEN Unspecified
                                                            ELSE binderIp[a]]
     ELSE UNCHANGED <<binderNodes, binderIp>>
  /\ UNCHANGED <<created, poolVars, nodeIdToMacNodeIdMap, phase, todo>>

-----------------------------------------------------------------------------
(* The binder.                                                             *)

(* The methods of findMacNodeId, tried in order: what the NIC registered   *)
(* (by its MAC module or by the host's parameter), the address, the cache. *)
(* A destroyed host has no MacNodeId whatever binder and cache still hold. *)
FindMacNodeId(v, a) ==
  IF v \notin live THEN Unspecified
  ELSE IF v \in nicOf THEN v
  ELSE IF a # Unspecified /\ binderIp[a] # Unspecified THEN binderIp[a]
  ELSE nodeIdToMacNodeIdMap[v]

(* Mutant: the address of a vehicle the binder already knows is not mapped. *)
RegisterOnlyNew(a, v) ==
  LET found == FindMacNodeId(v, a)
      mac   == IF found = Unspecified THEN v ELSE found
  IN /\ binderNodes' = binderNodes \cup {mac}
     /\ binderIp' = IF found = Unspecified THEN [binderIp EXCEPT ![a] = mac] ELSE binderIp
     /\ nodeIdToMacNodeIdMap' = [nodeIdToMacNodeIdMap EXCEPT ![v] = mac]
     /\ UNCHANGED nicOf

(* registerToBinder: fall back to registering the node by hand, map the    *)
(* address if nobody else owns it, cache the id.                           *)
RegisterToBinder(a, v) ==
  LET found == FindMacNodeId(v, a)
      mac   == IF found = Unspecified THEN v ELSE found
  IN /\ binderNodes' = IF found = Unspecified THEN binderNodes \cup {v} ELSE binderNodes
     /\ binderIp' = IF binderIp[a] = Unspecified THEN [binderIp EXCEPT ![a] = mac]
                                                 ELSE binderIp
     /\ nodeIdToMacNodeIdMap' = [nodeIdToMacNodeIdMap EXCEPT ![v] = mac]
     /\ UNCHANGED nicOf

(* unRegisterFromBinder: does nothing without a cellular lease, and nothing *)
(* when no MacNodeId is found.                                             *)
UnRegisterFromBinder(v) ==
  LET a   == nodeToIpMap["cellular"][v]
      mac == FindMacNodeId(v, a)
  IN IF a = Unspecified \/ mac = Unspecified
     THEN UNCHANGED binderVars
     ELSE /\ binderIp' = [x \in Addr |-> IF x = a \/ binderIp[x] = mac
                                         THEN Unspecified ELSE binderIp[x]]
          /\ binderNodes' = binderNodes \ {mac}
          /\ nodeIdToMacNodeIdMap' = [nodeIdToMacNodeIdMap EXCEPT ![v] = Unspecified]
          /\ UNCHANGED nicOf

-----------------------------------------------------------------------------
(* The timer handler.                                                      *)

Leased(p) == {v \in Vehicle : nodeToIpMap[p][v] # Unspecified}

IsFirst(v) == \A w \in todo : v <= w  \* the loops visit ids in ascending order

(* Mutant: only the cellular map is searched for vehicles to clean up.     *)
CleanupCellularOnly ==
  /\ phase = "idle"
  /\ phase' = "cleanup"
  /\ todo' = Leased("cellular")
  /\ UNCHANGED <<created, live, ifAddr, poolVars, binderVars>>

(* The timer fires; cleanupVeinsNode collects the ids of both maps.        *)
StartReconfigure ==
  /\ phase = "idle"
  /\ phase' = "cleanup"
  /\ todo' = Leased("cellular") \cup Leased("wlan")
  /\ UNCHANGED <<created, live, ifAddr, poolVars, binderVars>>

(* Mutant: releases without looking whether the vehicle held an address.   *)
ReleaseUnheld(v, P) ==
  /\ usedAddressesSet' = [p \in Pool |-> usedAddressesSet[p] \ {nodeToIpMap[p][v]}]
  /\ freeAddressesQueue' =
       [p \in Pool |-> Append(freeAddressesQueue[p], nodeToIpMap[p][v])]
  /\ nodeToIpMap' = [p \in Pool |-> [nodeToIpMap[p] EXCEPT ![v] = Unspecified]]
  /\ UNCHANGED nextAddress

(* Mutant: a released address is not queued for reuse.                     *)
ReleaseLeaks(v, P) ==
  /\ usedAddressesSet' = [p \in Pool |-> usedAddressesSet[p] \ {nodeToIpMap[p][v]}]
  /\ nodeToIpMap' = [p \in Pool |-> [nodeToIpMap[p] EXCEPT ![v] = Unspecified]]
  /\ UNCHANGED <<freeAddressesQueue, nextAddress>>

(* releaseIpToPool on the pools of P in which v holds a lease.             *)
ReleaseIpToPool(v, P) ==
  LET held == {p \in P : nodeToIpMap[p][v] # Unspecified}
  IN /\ usedAddressesSet' = [p \in Pool |->
           IF p \in held THEN usedAddressesSet[p] \ {nodeToIpMap[p][v]}
                         ELSE usedAddressesSet[p]]
     /\ freeAddressesQueue' = [p \in Pool |->
           IF p \in held THEN Append(freeAddressesQueue[p], nodeToIpMap[p][v])
                         ELSE freeAddressesQueue[p]]
     /\ nodeToIpMap' = [p \in Pool |->
           IF p \in held THEN [nodeToIpMap[p] EXCEPT ![v] = Unspecified]
                         ELSE nodeToIpMap[p]]
     /\ UNCHANGED nextAddress

(* Mutant: a vehicle counts as gone when the binder does not know it.      *)
CleanupByBinder(v) ==
  /\ phase = "cleanup"
  /\ v \in todo /\ IsFirst(v)
  /\ todo' = todo \ {v}
  /\ IF v \in binderNodes
     THEN UNCHANGED <<poolVars, binderVars>>
     ELSE /\ UnRegisterFromBinder(v)
          /\ ReleaseIpToPool(v, Pool)
  /\ UNCHANGED <<created, live, ifAddr, phase>>

(* One iteration of cleanupVeinsNode: a module that is gone is             *)
(* unregistered and its two addresses are released.                        *)
CleanupVeinsNode(v) ==
  /\ phase = "cleanup"
  /\ v \in todo /\ IsFirst(v)
  /\ todo' = todo \ {v}
  /\ IF v \in live
     THEN UNCHANGED <<poolVars, binderVars>>
     ELSE /\ UnRegisterFromBinder(v)
          /\ ReleaseIpToPool(v, Pool)
  /\ UNCHANGED <<created, live, ifAddr, phase>>

(* Mutant: only the vehicles with a registered NIC are visited.            *)
ConfigureNicsOnly ==
  /\ phase = "cleanup"
  /\ todo = {}
  /\ phase' = "configure"
  /\ todo' = nicOf
  /\ UNCHANGED <<created, live, ifAddr, poolVars, binderVars>>

(* The cleanup is over; the topology is extracted anew.                    *)
StartConfigure ==
  /\ phase = "cleanup"
  /\ todo = {}
  /\ phase' = "configure"
  /\ todo' = live
  /\ UNCHANGED <<created, live, ifAddr, poolVars, binderVars>>

(* Mutant: exhaustion is tested before the queue of freed addresses.       *)
ExhaustedBeforeQueue(v, p) ==
  nodeToIpMap[p][v] = Unspecified /\ nextAddress[p] > MaxHost

(* allocateIpFromPool: the lease it has, else the oldest freed address,    *)
(* else a new one, while there is one.                                     *)
Exhausted(v, p) ==
  /\ nodeToIpMap[p][v] = Unspecified
  /\ freeAddressesQueue[p] = <<>>
  /\ nextAddress[p] > MaxHost

(* Mutant: takes the newest freed address, while the oldest is dequeued.   *)
AllocateNewest(v, p) ==
  IF nodeToIpMap[p][v] # Unspecified THEN nodeToIpMap[p][v]
  ELSE IF freeAddressesQueue[p] # <<>>
       THEN freeAddressesQueue[p][Len(freeAddressesQueue[p])]
  ELSE nextAddress[p]

AllocateIp(v, p) ==
  IF nodeToIpMap[p][v] # Unspecified THEN nodeToIpMap[p][v]
  ELSE IF freeAddressesQueue[p] # <<>> THEN Head(freeAddressesQueue[p])
  ELSE nextAddress[p]

AllocateIpFromPool(v, P) ==
  LET fresh == {p \in P : nodeToIpMap[p][v] = Unspecified}
  IN /\ nodeToIpMap' = [p \in Pool |->
           IF p \in fresh THEN [nodeToIpMap[p] EXCEPT ![v] = AllocateIp(v, p)]
                          ELSE nodeToIpMap[p]]
     /\ usedAddressesSet' = [p \in Pool |->
           IF p \in fresh THEN usedAddressesSet[p] \cup {AllocateIp(v, p)}
                          ELSE usedAddressesSet[p]]
     /\ freeAddressesQueue' = [p \in Pool |->
           IF p \in fresh /\ freeAddressesQueue[p] # <<>>
           THEN Tail(freeAddressesQueue[p]) ELSE freeAddressesQueue[p]]
     /\ nextAddress' = [p \in Pool |->
           IF p \in fresh /\ freeAddressesQueue[p] = <<>>
           THEN nextAddress[p] + 1 ELSE nextAddress[p]]

Unaddressed(v) == {p \in Pool : ifAddr[v][p] = Unspecified}

(* One vehicle of checkAndConfigureVehicleInterfaces: address the          *)
(* interfaces that have none, then register the cellular address unless    *)
(* the binder already resolves it to somebody.                             *)
ConfigureVehicle(v) ==
  /\ phase = "configure"
  /\ v \in todo /\ IsFirst(v)
  /\ \A p \in Unaddressed(v) : ~Exhausted(v, p)
  /\ todo' = todo \ {v}
  /\ AllocateIpFromPool(v, Unaddressed(v))
  /\ ifAddr' = [ifAddr EXCEPT ![v] = [p \in Pool |->
       IF p \in Unaddressed(v) THEN AllocateIp(v, p) ELSE ifAddr[v][p]]]
  /\ IF /\ ifAddr'[v]["cellular"] # NoInterface
        /\ binderIp[ifAddr'[v]["cellular"]] = Unspecified
     THEN RegisterToBinder(ifAddr'[v]["cellular"], v)
     ELSE UNCHANGED binderVars
  /\ UNCHANGED <<created, live, phase>>

(* The pool is exhausted: cRuntimeError ends the simulation.               *)
PoolExhausted(v) ==
  /\ phase = "configure"
  /\ v \in todo /\ IsFirst(v)
  /\ \E p \in Unaddressed(v) : Exhausted(v, p)
  /\ phase' = "failed"
  /\ UNCHANGED <<created, live, ifAddr, poolVars, binderVars, todo>>

FinishReconfigure ==
  /\ phase = "configure"
  /\ todo = {}
  /\ phase' = "idle"
  /\ UNCHANGED <<created, live, ifAddr, poolVars, binderVars, todo>>

Handler ==
  \/ StartReconfigure
  \/ \E v \in Vehicle : CleanupVeinsNode(v)
  \/ StartConfigure
  \/ \E v \in Vehicle : ConfigureVehicle(v) \/ PoolExhausted(v)
  \/ FinishReconfigure

Next ==
  \/ \E type \in CarTypes : Enter(type)
  \/ \E v \in Vehicle : Exit(v)
  \/ Handler

Spec == Init /\ [][Next]_vars

(* The timer is re-armed by every invocation, so the handler always runs   *)
(* again.                                                                  *)
FairSpec == Spec /\ WF_vars(Handler)

-----------------------------------------------------------------------------
(* Properties.                                                             *)

(* Every variable has its type; the todo list never outgrows the handler.  *)
TypeOK ==
  /\ created \in 0..MaxVehicle
  /\ live \subseteq 1..created
  /\ ifAddr \in [Vehicle -> [Pool -> Addr \cup {Unspecified, NoInterface}]]
  /\ nextAddress \in [Pool -> First..(MaxHost + 1)]
  /\ freeAddressesQueue \in [Pool -> Seq(Addr)]
  /\ usedAddressesSet \in [Pool -> SUBSET Addr]
  /\ nodeToIpMap \in [Pool -> [Vehicle -> Addr \cup {Unspecified}]]
  /\ nodeIdToMacNodeIdMap \in [Vehicle -> Vehicle \cup {Unspecified}]
  /\ binderNodes \subseteq Vehicle
  /\ nicOf \subseteq live
  /\ binderIp \in [Addr -> Vehicle \cup {Unspecified}]
  /\ phase \in {"idle", "cleanup", "configure", "failed"}
  /\ todo \subseteq 1..created

(* No two vehicles ever hold the same address of a pool, neither by lease  *)
(* nor on their interfaces, however often addresses of exited vehicles     *)
(* have been released and reused (allocateIpFromPool, releaseIpToPool).    *)
Injective(map) ==
  \A v, w \in Vehicle : v # w /\ map[v] # Unspecified => map[v] # map[w]

NoSharedAddress ==
  \A p \in Pool :
    /\ Injective(nodeToIpMap[p])
    /\ \A v, w \in Vehicle :
         v # w /\ ifAddr[v][p] \in Addr => ifAddr[v][p] # ifAddr[w][p]

(* Conservation: every address a pool has ever handed out is either leased *)
(* to exactly the vehicles usedAddressesSet says, or waits in the free     *)
(* queue, once.  None is lost and none is queued twice.                    *)
Conserved(map, used, queue, next) ==
  LET freed == {queue[i] : i \in 1..Len(queue)}
  IN /\ used = {map[v] : v \in Vehicle} \ {Unspecified}
     /\ used \cap freed = {}
     /\ used \cup freed = First..(next - 1)
     /\ \A i, j \in 1..Len(queue) : queue[i] = queue[j] => i = j

PoolConservation ==
  \A p \in Pool : Conserved(nodeToIpMap[p], usedAddressesSet[p],
                            freeAddressesQueue[p], nextAddress[p])

(* The address on a live vehicle's interface is backed by a lease in the   *)
(* pool's map, so it cannot be handed to another vehicle while in use.     *)
InterfaceHasLease ==
  \A p \in Pool, v \in live :
    ifAddr[v][p] \in Addr => nodeToIpMap[p][v] = ifAddr[v][p]

(* The simulation stops with "IP pool exhausted" only when vehicles that   *)
(* are still on the road hold every address of a pool: addresses of exited *)
(* vehicles are reclaimed before any allocation.                           *)
NoFalseExhaustion ==
  phase = "failed" =>
    \E p \in Pool : \A a \in Addr : \E v \in live : nodeToIpMap[p][v] = a

(* The binder resolves the cellular address of each live vehicle to that   *)
(* vehicle, not to a previous holder of the address.                       *)
BinderResolvesHolder ==
  \A v \in live : ifAddr[v]["cellular"] \in Addr =>
    binderIp[ifAddr[v]["cellular"]] = v

(* When a reconfiguration has visited all vehicles, whatever entered, left *)
(* or was cleaned up before, exactly the live vehicles hold leases, no     *)
(* interface is left without an address, and the binder knows the holders. *)
ReconfigureIsComplete ==
  phase = "configure" /\ todo = {} =>
    /\ \A p \in Pool : Leased(p) = {v \in live : ifAddr[v][p] # NoInterface}
    /\ \A v \in live : Unaddressed(v) = {}
    /\ BinderResolvesHolder

(* A vehicle that stays gets an address for each interface, unless the     *)
(* pool runs out.                                                          *)
EventuallyAddressed ==
  \A v \in Vehicle :
    v \in live ~> (v \notin live \/ Unaddressed(v) = {} \/ phase = "failed")

(* The addresses of a vehicle that has left are eventually released.       *)
EventuallyReclaimed ==
  \A v \in Vehicle :
    (v <= created /\ v \notin live)
      ~> (phase = "failed" \/ \A p \in Pool : v \notin Leased(p))

(* The service the pools promise, and the claim that the handler           *)
(* implements it: the leases are the same variable in both modules.        *)
Lease == INSTANCE AddressLease WITH lease <- nodeToIpMap
ImplementsLease == Lease!Spec
=============================================================================
