------------------------- MODULE MCVehicleAddressing -------------------------
(* Instances of VehicleAddressing for TLC.                                 *)
EXTENDS VehicleAddressing

Hybrid        == [ifaces |-> {"wlan", "cellular"}, nic |-> TRUE]
SatelliteOnly == [ifaces |-> {"wlan"}, nic |-> FALSE]
CellularOnly  == [ifaces |-> {"cellular"}, nic |-> TRUE]

HybridCars == {Hybrid}
MixedCars  == {Hybrid, SatelliteOnly, CellularOnly}
=============================================================================
