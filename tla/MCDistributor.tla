---------------------------- MODULE MCDistributor ----------------------------
(***************************************************************************)
(* Distributor over a small fleet, with the targets of module Waterfall:   *)
(* a SolarEdge (1), an OpenDTU inverter (2) and a Shelly relay (3).        *)
(***************************************************************************)
EXTENDS Distributor, TLC

CONSTANTS Fleet,       \* the devices of this run, a subset of {1, 2, 3}
          DeadTime,    \* throttle_dead_time_s of the proportional ones, in ticks
          Cooldown,    \* cooldown_s of the relay, in ticks
          OwnDeadTime  \* DEAD_TIME_S of the OpenDTU plugin, in ticks

W == INSTANCE Waterfall

MCDevice   == Fleet
NoReading  == {-1}
Cloudy     == {-1, 100}
MCBinary   == Fleet \cap {3}
MCHold     == [d \in Fleet |-> IF d \in MCBinary THEN Cooldown ELSE DeadTime]

MCPluginHold == [d \in Fleet |-> IF d = 2 THEN OwnDeadTime ELSE 0]

\* Entries and caps (solaredge.py, opendtu.py and shelly.py
\* throttle_capabilities); readings are in watts, negative for none.
Entry(d) ==
    IF d = 1 THEN [rated |-> 2000, mode |-> "proportional", response |-> 10,
                   cooldown |-> 0, startupDelay |-> 0]
    ELSE IF d = 2 THEN [rated |-> 1000, mode |-> "proportional",
                        response |-> 100, cooldown |-> 0, startupDelay |-> 0]
    ELSE [rated |-> 600, mode |-> "binary", response |-> 5, cooldown |-> 300,
          startupDelay |-> 30]

MCRank(d) == 10 * W!Score(Entry(d)) + d

\* The targets by limit, managed, online and starting devices, and reading: a
\* constant (@@ makes each a table), so that TLC computes each of them once.
TargetTable ==
    [l \in Limit \cup {100}, fleet \in SUBSET Fleet, online \in SUBSET Fleet,
     started \in SUBSET MCBinary, r \in Reading |->
       W!Targets([d \in fleet |->
         [rated |-> Entry(d).rated, mode |-> Entry(d).mode,
          response |-> Entry(d).response, cooldown |-> Entry(d).cooldown,
          startupDelay |-> Entry(d).startupDelay, enabled |-> TRUE,
          aggregate |-> TRUE, throttle |-> TRUE, online |-> d \in online,
          startup |-> d \in started, actual |-> r]], l) @@ <<>>] @@ <<>>

MCTargetsOf(l, fleet, online, started, reading) ==
    TargetTable[l, fleet, online, started \cap MCBinary, reading]

\* SolarEdgePlugin.write_power_limit() sends whole percents from 1 to 100.
MCEffect(d, v) ==
    IF d = 1 THEN 10 * W!Max({1, W!Min({100, W!RoundDiv(v, 10)})}) ELSE v
=============================================================================
