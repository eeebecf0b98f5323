# Verification of the hybrid satellite / 5G vehicle simulator

The repository extends OMNeT++/INET with satellites (SCS, OS3), SUMO/Veins
vehicles and Simu5G cells, and lets a *hybrid* vehicle choose between a
satellite link (`wlan0`) and a cellular one. This directory holds the TLA+
specifications of its control logic, the TLC configurations that check them on
small instances, and proofs checked by TLAPS.

Everything runs in one single-threaded event loop: an event handler is atomic,
so what is hard is not data races but *handlers in an unexpected order* –
independent timers, vehicles entering and leaving between two firings, packets
lost, late or reordered, state cached in two places – and long runs that reuse
what earlier vehicles left behind.

Paths below: `CFG` is
`src/modules/inet_leosatellites/src/inet/networklayer/configurator/ipv4/SatelliteNetworkConfiguratorScs.cc`,
`H/` is `src/samples-scs-hybrid/SatelliteVehicleHybridSample/HybridSCSV5GFusion/src/`,
`SCS/` is `src/modules/scs/src/`.

## Inventory

| Component | State | Operations | Talks to | What makes it correct |
|---|---|---|---|---|
| Addressing (`CFG`) | two IP pools (next address, free queue, used set), two lease maps, MacNodeId cache | timer → cleanup of exited vehicles, allocation, binder registration | Veins (vehicles appear and vanish), Simu5G binder | an address has one holder, is never lost, is reclaimed; the binder resolves it to its holder |
| Routes (`CFG`) | routing tables, topology links | timer → clear, extract, filter links, compute, optimise | carriers of the vehicles' interfaces, satellites in sight, INET configurator | after a switch the routes follow the carrier; no route outlives its satellite for long |
| `H/HybridInterfaceManager.cc` | active interface, carriers, usage times, switch counter | `performSwitch`, `finish` | strategies call it; routes and AlertServer read it | one carrier; statistics tell the truth |
| `H/strategies/QoSBasedStrategy.cc` | probe history, byte counters, own copy of interface and switch time, degradation counter | application signals, evaluation timer | manager, applications, satellites' mobility | leaves a lost satellite; switches only after hold time and enough degradations; measures recent probes |
| `H/strategies/EnergyAwareStrategy.cc` | the same, and the battery | the same, with an emergency check | the same, energy storage | a critical battery leaves the satellite |
| `H/strategies/TimeBasedStrategy.cc` | a timer | toggle | manager | alternation without drift |
| `H/strategies/CoverageBasedStrategy.cc` | a timer | coverage check | manager, satellites | follows the sky |
| `H/app/AlertServerApp.cc` | queue of alerts, stagger timer | trigger → broadcast, timer → send one | managers and addresses of all vehicles | every alert sent once, in order, in bounded time |
| `SCS/` radio, propagation, receiver | transmissions in flight, one *global* position | transmit, arrival, reception attempt, framing | medium, mobility | each transmission is received from where it was sent; a receiver follows the first signal it can receive |
| `SCS/…/SatelliteMac.cc` | association, pending radio command, radio mode | frames from both sides, radio signals | radio, management | nothing runs it: every network uses INET's AckingMac (`SatelliteLinkLayer.ned:85` is commented out), its default submodule types are not in the repository and its calls of the coordination functions are commented out |
| `SCS/scs` binder and beams (`SBinder`, `BeamInfo`) | the beams around each satellite, the place each serves, the current beam | a move of the satellite updates positions and looks up the nearest beam | mobility, converter | the beam pointed at is the one the lookup chooses for the scale that finally holds, and the nearest on the map (which it is not, finding 4) |
| Mobility (`SatelliteMobilityScs`, `NoradScs`, OS3) | orbit, next change, repeat cycle | periodic update, position queries that may trigger it | radio, propagation, converter | each satellite moves once per interval, its orbit is that of its next change, and repeats after the cycle time (which it does not, finding 5) |
| `PositionConverter` | map size, scale, geographic reference | two-stage initialisation with a ladder of sources, conversions | mobility, strategies, configurator | reference from the best source; map, centre and scale agree |
| Visualizers, node containers, refresh counter, analysis scripts, patches | – | – | – | not about behaviour |

## Modules

| Module | Models | State and actions against the code |
|---|---|---|
| `VehicleAddressing` | pools, leases, binder (`CFG` 44–311, 327–341) | One module-id per vehicle, as in OMNeT++ (ids are never reused). `Enter`/`Exit` are Veins. The timer handler is cut into one action per loop iteration (`StartReconfigure`, `CleanupVeinsNode`, `StartConfigure`, `ConfigureVehicle`, `PoolExhausted`, `FinishReconfigure`); nothing else can run in between, which `phase` enforces. An `std::map` lookup that fails is `Unspecified`. The binder is external: what `setMacNodeId`, `registerNode`, `unregisterNode` do to it. |
| `AddressLease` | what the pools promise | Arrive, leave, grant an unheld address to a live vehicle, reclaim from one that left. `VehicleAddressing` implements it with `lease <- nodeToIpMap`. |
| `InterfaceManager` | `HybridInterfaceManager` | `PerformSwitch`, `CompleteSwitch`, `UpdateInterfaceStates`, `FinishTotals`; the history variables `satOnTime`/`cellOnTime` measure the carriers themselves. |
| `LinkUsage` | what the manager promises | One link in use, every instant charged to it. |
| `ScoreStrategy` | what the two scoring strategies share | `ProbeSent`, `DataSent`, `ProbeReceived` are the branches of `receiveSignal`; `AvgRTT`, `AvgJitter`, `AvgPDR`, `QoSScore` the formulas in thousandths; `PerformDecision` the ladder of `performDecision`. Instantiates `InterfaceManager`. |
| `QoSBasedStrategy`, `EnergyAwareStrategy` | the two strategies | `EvaluateAndDecide` (`EvaluateQoS`) in the code's order: statistics, cleaning, (emergency,) decision. |
| `ScoreStrategies` | `createStrategy`, for these two | extends both: one initial choice of the strategy, whose steps follow; the battery of a QoS-based vehicle, which nobody reads, stays full. |
| `TimeBasedStrategy`, `CoverageBasedStrategy` | the other two | One action each on top of the manager. |
| `SatelliteLinks` | the links the configurator computes routes over (`CFG` 343–447, 598–844) | `Disabled` is the filter; `WirelessWeighs` and `WiredWeighs` say which weights are finite under each metric (`FromSatellite`, `FromVehicle`, `FromStation` for `propagationDelay`); `PathExists` stands for INET's shortest paths: no set of nodes that holds the vehicle and that no usable link leaves is without the server. |
| `Handover` | a strategy, the manager and the configurator's routes together | `Switch` by one of the last two strategies; `TimePasses` turns the sky under either, although the time-based one does not look at it; `ReinvokeConfigurator` on its own timer: `DirectRoutes`, then INET's static routes (external: any set, by satellite only where `SatelliteLinks` has a path), then `Optimized`; `MulticastLeft` is the loop over the station's multicast table. |
| `AlertServer` | `AlertServerApp` | `BroadcastAlert` is `processPacket` and `broadcastAlert`: the `Reachable` vehicles `InNetworkOrder`; `SendNextPending`/`NothingPending` are `sendNextPending`. Time is relative: the timer counts down. |
| `PositionConverter` | `PositionConverter::initialize` and the satellites drawn with its scale | One action per rung of the ladder, with every way a source can fail; `PlaceSatellite` and `Move` are `SatelliteMobilityScs`, between the two stages and later. `CanvasPlaces` is where the beam lookup takes the places served to be, `MapPlaces` where they are. |
| `BeamInfo` | `BeamInfo` and the lookup of `SBinder` | the beams of every satellite, spread with the scale at its last move, and the one it points; `NearestAmongFirst` is the loop of `FindBeamDirection`, as a recursive function; `PositionConverter` drives it from `PlaceSatellite` and `Move`. |
| `MCPositionConverter` | places, orbit, beams and crop areas for TLC | places a satellite moves between whose nearest beam changes. |
| `SatelliteChannel` | satellite mobility, transmitter, propagation, receiver, framing | `Move` is the mobility timer, `Moved` what every position query does; `Transmit` is `createTransmission` with all its `computeArrival` calls, `Enter` those that INET's medium makes for the radio of a new vehicle (such a signal is `cached`, as interference, and never starts); `SignalStart`/`SignalEnd` are INET's radio calling `ReceiverBase` and `SatelliteRadio`; whether a signal is in band and strong enough is chosen when it starts. A place is a radio and, for a satellite, the time its orbit was computed for; distance is a constant operator `Delay`. `transmissions` is a sequence, an arrival belongs to a pair of its index and a radio. |
| `MCSatelliteChannel` | delays and modulations for TLC | delays change with the orbit, so that signals overtake each other. |
| `MCVehicleAddressing` | vehicle kinds for TLC | hybrid, satellite-only and cellular-only vehicles, as the sample's NED files define them. |
| `Induction` | – | induction over intervals and finite sets, for the proofs |
| seven modules `…_proofs` | theorems | see *Proofs* |

Operators marked *Mutant* are not part of any specification. Each is a
plausible mistake in the definition that follows it; with the mistake in place
the property named in `PROJECT.json` fails, which shows the property can see
that part of the code.

## Runs

| Run | Question | Bounds, and why they are enough |
|---|---|---|
| `addressing` | unique, conserved, backed addresses; no false exhaustion; complete reconfigurations, binder included; refinement; eventual addressing and reclaiming | 4 vehicles, pools of 2 addresses (100, 101): exhaustion, release, reuse in queue order and reuse by a third kind of vehicle all occur |
| `manager` | carriers and usage under any sequence of calls | 8 ticks, at most 5 switches, creation at 0 or 2; several switches at one instant, and `finish` at any time |
| `strategies` | for both score strategies: the ladder, the mirrors, staleness, earned switches; critical battery | 5.5 million states. 6 ticks, creation at 0 or 4, evaluation at every tick, window 1, hold time 3, 2 degradations, at most 4 probes and 1 other packet, 4 in all (2 for an energy-aware vehicle). Enough for a voluntary switch after a forced one and after a voluntary one, each of which must count its degradations and wait for the hold time anew; for the hold time to prevent a switch that is otherwise due; and for a late echo of a cleaned probe. A vehicle created at 4 has the hold time, counted from 0, already behind it. Capacity 3, critical below 2, so the battery becomes critical on either interface, also on a satellite the vehicle has returned to |
| `alert` | queue order, no stranded alert, backlog, stagger, eventual sending | 3 vehicles, 3 triggers, stagger of 2 ticks; arrival at any speed (period 0) and at the pace one broadcast needs (6); one change of address |
| `handover` | phase, coverage, blind window, paths under coverage, stale multicast routes, fresh satellite routes | 2 satellites, toggle every 3, configurator every 2, coverage checks at 1 and every 2 (ticks of 0.5 s), creation at 0 or 1; a sky that may change at every tick, under both strategies; up to 3 multicast routes, so that a firing leaves one behind; metric `propagationDelay`, the samples' |
| `converter` | best reference, consistent map, final scale on the canvas, up-to-date beam | every combination of five states of the SUMO file, manual coordinates, TraCI, mode and crop area; widths 10, 11, 20 and heights 10, 20, so that sizes differ by nothing, by the tolerated metre and by more; 2 satellites, redrawn every 2 of 5 ticks; 4 beams to a satellite, each of which is pointed at some place and scale |
| `channel` | one move per interval, arrivals from the right place, first signal wins, intact packets | 4.1 million states. 1 satellite, 1 station, 1 vehicle, 3 transmissions of 2 ticks with delays of 1 or 2 that change with the orbit, so that signals overlap, touch and overtake, each of them strong enough or not; a vehicle that enters before, between and after transmissions; a repeat cycle of one update and 4 ticks, so that the orbit wraps; code words of 8 and 6 bits, so that padding is needed and sometimes differs. 5 ticks pass as well (8.8 million states) |
| `qos_window`, `energy_critical`, `converter_scale_mode`, `converter_beam_latitude`, `channel_cycle` | statements of documents, comments and headers that the code does not keep | expected violations, see *Findings* |

Safety needs no fairness. `FairSpec` of `VehicleAddressing` is weak fairness of
the timer handler: `handleMessage` re-arms the timer in every invocation
(`CFG:339`) and an event loop delivers every scheduled event. `FairSpec` of
`AlertServer` is weak fairness of time and of the due timer event, for the same
reason; nothing is assumed of the network, of vehicles or of triggers.
Deadlock checking is off where the system stops: at the time bound, after
`finish`, and when an exhausted pool has thrown.

## Findings

1. Statistics are computed before old probes are dropped: an evaluation counts
   probes up to one check interval older than the documented window.
   `StalenessBounded` is what does hold.
2. With a critical battery on cellular, degradation still switches to the
   satellite; the next evaluation forces the vehicle back.
   `CriticalStretchBounded` is what does hold.
3. The converter computes its scale before it reads `universalMode`
   (`PositionConverter.cc:43-44`): in universal mode the crop area that
   `PositionConverter.ned:115` calls ignored decides the scale, unless the SUMO
   file later changes the size. `MapConsistent` and `CanvasCatchesUp` hold in
   either case.
4. The beam lookup converts the latitude of the place a beam serves by
   `currentXposition` (`BeamInfo.cc:141`) and compares the result with the height
   of the beam on the canvas; `PositionConverter.h:241-250` has
   `currentYposition` for that. The beam a satellite points is up to date
   (`BeamCatchesUp`) and nearest by the lookup's own distances, but not the
   nearest on the map (`PointsNearestOnMap`).
5. The orbits repeat one `updateInterval` after `cycleTime`
   (`SatelliteMobilityScs.cc:109` compares with `>`), while
   `simu-scs-readme.md:100` calls `cycleTime` the repeat cycle time: each cycle
   leaves a satellite one update further behind. `InStep` is what does hold, and
   the theorem `ActualCycle` says what the code's cycle is.

Also seen while modelling, not findings of a run: `unRegisterFromBinder` never
unregisters a vehicle that has left, because with the module gone `findMacNodeId`
returns 0 (`CFG:130`), so the cache entry stays although the header
(`SatelliteNetworkConfiguratorScs.h:171-174`) says that the binder is cleaned
up; addresses still resolve to their holders, but only because the NIC
unregisters itself when it is deleted (`NicUnregisters`). Only the metric
`propagationDelay` asks who the ends of a wireless link are: for every other one
`computeWirelessLinkWeight` returns a finite weight first (`CFG:628`,
`CFG:794-796`), so the direct link from a vehicle to a ground station, which the
comment at `CFG:747` calls disabled, carries routes; the samples use
`propagationDelay`, the configurator's own fallback (`CFG:331`) names no metric.
A trigger that arrives just
after the alert queue ran dry is served at once, so the stagger interval holds
inside a broadcast but not between any two alerts (`StaggerHolds` is what does
hold); a vehicle that enters while transmissions are in flight has all of them
come from the place of whoever transmitted last (`ArrivalFromSender` says so;
only the interference the vehicle sees depends on it);
a link between a satellite and the ground station always has a finite weight,
so routes may lead over a satellite the station cannot see, which the
coverage-based strategy would not count as visible; with the default weights
the cellular utility score never falls below the default threshold, so that the
vehicle never tries the satellite (theorem `NoReturn`);
skipped evaluations do not
reset the "consecutive" degradation counter (`QoSBasedStrategy.cc:325`); a
forced switch ignores the hold time; the multicast loop at `CFG:550` skips every
other route (`StaleMulticastGoes` is what does hold); the test at `CFG:498` is unreachable; all alerts of one broadcast
share a sequence number.

## Proofs

`VehicleAddressing_proofs` proves, for every number of vehicles, every pool size
and every mix of vehicles (`ConstantAssumption`), `TypeOK`,
`NoSharedAddress`, `PoolConservation` and `InterfaceHasLease` as invariants of
`Spec`.

None of them is inductive alone. Uniqueness of leases needs that a queued or
fresh address is nobody's, which is conservation, and conservation needs
uniqueness (releasing one of two equal leases would break it); uniqueness on
interfaces needs that every address on an interface is leased. The inductive
invariant `IInv` is their conjunction: types, `PoolOK` for each pool, and the
lease behind every interface. The pool lemmas (`ReleaseKeepsPool`,
`ReuseKeepsPool`, `ExtendKeepsPool`) are about one map, set, queue and number
and know nothing of vehicles or phases; `ReleaseStep` and `AllocateStep` lift
them to the two operators; `NextIInv` has one step per action.

`InterfaceManager_proofs` proves of `InterfaceManager`, for any set of creation
times, any bound on time and whichever interfaces exist (`ManagerAssumption`),
`TypeOK`, `OneCarrier`, `UsageMatchesCarrier` and the refinement
`ImplementsUsage`. The inductive invariant `IInv` adds to the types and the
statistics that the carriers follow the state flag (`CarriersFollowState`): a
switch charges the time since the last one to the interface the flag names, so
the statistics are true only because the flag and the carriers never part. The
refinement maps a tick to `LinkUsage`'s `Elapse`, a switch to `Switch` and
`finish` to a stutter. The model checker needs a bound on the calls; the proofs
do not, and speak of `OpenSpec`, the manager called as often as one likes, of
which `Spec` is a part.

That is what composes. `ScoreStrategies_proofs` and `Handover_proofs` each show
that every step of their strategies is, for the manager, one call, a tick, the
end of the run or nothing (`UsesManager`: the strategy's specification implies
`OpenSpec`), and conclude that under each of the four strategies switches are
hard, the statistics true, and `LinkUsage` implemented (`ManagerKeepsPromises`).

Three more facts of addressing build on that invariant. `LeasesImplemented` is
the refinement to `AddressLease`. `ExhaustionIsReal` needs that the cleanup's
work list still holds every lease of a vehicle that left, and that none is left
once allocation starts (`Reclaimed`). `ReconfigureCompletes` needs what the
binder knows in every phase (`Registered`), and assumes `NicsRegister`: a NIC
unregisters when it is deleted, and every kind of vehicle with a cellular
interface has one. Both are true of the code; *Findings* says why the first
matters.

`ScoreStrategies_proofs` is about both score strategies, for whichever of them a
vehicle has and any weights, thresholds, intervals and traffic. The properties
are about *now*, the decisions happen at the timer: `SInv` therefore speaks of
`nextCheck`. A satellite in use was visible at most one interval before the next
check (`SeenSinceCheck`), a remembered probe will be at most window plus
interval old then (`RecentProbes`), and the counter never exceeds the
degradations that history shows since the last switch or good evaluation
(`CountIsEarned`); while there was no switch the hold time counts from time 0, as
in the code, and not from the vehicle's creation (`FirstHold`). The same holds of the battery
of an energy-aware vehicle. `TruthfulBytes` assumes `BothInterfaces`: with one of
them missing, packets are counted that no carrier takes. `CriticalStretch`
assumes that a full battery is not critical.

The scores are sums over the probes, each rounded down. That no probe is
answered before it was sent (`Chronological`) makes the round-trip times
naturals, the jitter an average of them, and every share at most the whole:
`QoSScoreBounds` and `UtilityScoreBounds` put both scores between 0 and 1000 for
any history (in `TypeCorrectness`). They also bound the utility score from
below, and that settles what no run shows: where cellular is no dearer than the
satellite, a vehicle on cellular goes back only in an evaluation whose quality
of service leaves the weighted score below the threshold (`Return`), and if the
energy's weight alone reaches the threshold, never (`NoReturn`). The defaults
(weights 0.5 and 0.5, threshold 0.5, 0.0002 J against 0.01 J per byte) are of the
second kind; the run `strategies` uses a higher threshold, and vehicles do return in it.

`Induction` supplies what the provers do not. The library's induction theorems
take an operator as parameter, but that the order on the naturals is well-founded
is a statement about sets: from it follow the least element of a set of naturals,
induction over an interval, that a recursive function on an interval exists and
obeys its equation (`IterationExists`), and the same for sums over a finite set,
taken element by element as `MapThenSumSet` does (`SumExists`). The beam lookup
and the averages of the scores rest on these.

`AlertServer_proofs` relates the queue, the timer and two clocks. A trigger in
flight has not been broadcast (`Fresh`), so the last alert sent and the first of
a new broadcast tell their triggers apart. While something is queued, the time
since the last send and the time the timer still runs make up an interval, or a
new broadcast begins (`Staggered`). At the pace of one broadcast, the time since
the trigger, the timer and an interval for each alert behind the first add up to
no more than the intervals of one whole broadcast (`Drains`): a send pays with
one interval for the one it sets, and the queue is empty when the next trigger
arrives. `Intervals` and `FewerAreFaster` are the products this needs.

`PositionConverter_proofs` carries, for each rung of the ladder, which sources
have failed before it and what they may have left (`Ladder`), and that only
the first drawing of a satellite may be stale (`Timers`). For the beams it shows
by induction over the loop that the lookup returns the last of the nearest among
the beams scanned so far (`FindsNearest`), and that a satellite's beams and its
drawing were computed together (`BeamsDrawn`): so the beam is up to date when the
drawing is (`BeamFinal`). The distances are those of the lookup, not of the
map.

`Handover_proofs` is about two timers of which neither knows the other. After
each firing of the configurator the routes are usable as long as no switch
happens (`Rebuilt`), and a gatewayed route dates from a rebuild at which a path existed (`Fresh`), whichever strategy the vehicle has and however the sky
has turned since; the toggle and the coverage check each have their own clause. `SeenMeansPath` proves that what the coverage-based strategy calls
visible is a path for the configurator; `NoSatelliteNoPath` the converse, under
`LooksAtLinks` (metric `propagationDelay`, and a valid position).
`BlindWindow` assumes `BothInterfaces`. `MulticastGoes` assumes that there are at
most three multicast routes, which is how many two firings can delete;
`AllMulticastGoes` says for every number of firings how many they can: the number
of routes left, times two to the number of firings, never exceeds the number
configured (`Halved`).

`SatelliteChannel_proofs` ties every signal's state to the clock (`Timely`),
says that a receiver follows only a signal that is arriving (`Following`), and
keeps the parts of `FirstSignalWins` apart (`OnlyPossible`, `NoOverlap`,
`Excused`). `Arrivals` needs that the global position is still that of the last
transmission when a vehicle enters (`LastSent`), and that nothing was on its way
to the vehicle before (`NotYet`).
`DecapsulatedIntact` is the arithmetic of the padding: a code word has at most
eight bits, so two paddings differ by less than a byte, and the check for whole
bytes finds any difference. `Steps` and `ActualCycle` need the number of
updates a satellite has made (`InOrbit`) and the arithmetic of quotient and remainder (`Unique`,
`NextModulo`, `WholeUpdates`).

Every safety property, action property and refinement of the passing runs is
proved. Only model-checked is liveness (`EventuallyAddressed`,
`EventuallyReclaimed`, `EventuallySent`): it rests on fairness, whose `ENABLED`
the provers cannot reason about. What liveness needs besides fairness is proved.
`HandlerEnds`: each step of the timer handler leaves one iteration less
(`StepsLeft`), and until a loop is over there is a next vehicle to visit; with
`ReconfigureCompletes`, a handler that has started ends with every vehicle
addressed, or with a pool exhausted. `BacklogBounded` is a bound in time for
alerts that arrive at the pace of the queue.

## Not modelled

Orbit propagation, path loss, bit errors and coordinate projection are
floating-point formulas without control; reachability, delay and noise enter as
environment choices or constant operators. `SatelliteMac` is in no network and
could not be: nothing in the repository says what its commented-out calls would
do. Visualizers, containers, the refresh counter (only logged), scripts and
patches have no behaviour to check. Of the configurator, the unicast tables of
the other nodes and the values of finite weights, which only order paths, are
missing, and so is a `cost` attribute in the configuration (`CFG:623-625`,
`CFG:806-808`), which no sample has; of the mobility, `enableRepeatCycle = 0`,
which one sample sets and under which orbits never start over; of the radio,
half-duplex mode changes, the frequencies that keep channels apart (being in
band is a choice) and movement during a reception
(`ignoreMovementDuringReception = false`, `SatellitePropagationScs.cc:172-181`;
INET's default is true); of the beams, labels and the drawn radius. Strategies and
addressing are separate modules: a vehicle's address does not influence its
strategy.

## Plan

1. *(done)* Addressing, manager, four strategies, handover and alert server.
2. *(done)* Satellite radio, propagation and mobility; converter; beams; link
   filter and weights for every metric; the station's multicast table.
3. *(done)* Proofs of every safety property the runs check; the strategies
   composed with the manager.
4. *(open)* Several vehicles in the route model; half-duplex feeder links;
   strategies on top of `SatelliteLinks` instead of a free sky.
