---------------------------- MODULE Aggregation ----------------------------
(***************************************************************************)
(* AggregationLayer.recalculate() of aggregation.py, called after every    *)
(* successful poll of any device, the RegisterCache it fills and what      *)
(* Venus OS is allowed to read of it (proxy.py).  Of a device's registers  *)
(* one number is kept, its power; time is counted in ticks.                *)
(***************************************************************************)
EXTENDS Naturals, FiniteSets, Functions

CONSTANTS Devices,
          MaxReading,     \* readings are 0..MaxReading
          Width,          \* numbers a register holds (65 536)
          StaleTimeout,   \* staleness_timeout
          Empty,          \* a successful poll without registers
          None            \* no poll yet

\* What is no power is told from one.
AggregationConstants ==
    /\ IsFiniteSet(Devices)
    /\ MaxReading \in Nat /\ StaleTimeout \in Nat /\ Width \in Nat \ {0}
    /\ {Empty, None} \intersect Nat = {}

VARIABLES
    present,    \* ids in app_ctx.devices
    aggregate,  \* ids with the flag in the config
    reading,    \* last_poll_data: a power, Empty, or None
    total,      \* the power in the cache
    age,        \* ticks since last_successful_poll; stale before the first
    behind,     \* ticks since the total last was that of the readings
    unheard     \* ticks since a poll last succeeded

vars == <<present, aggregate, reading, total, age, behind, unheard>>

Old == StaleTimeout + 1
Later(t) == IF t < Old THEN t + 1 ELSE Old

\* The devices whose readings count: the others have no data, too few registers
\* to decode, or no flag.
Active == {d \in present \intersect aggregate : reading[d] \notin {Empty, None}}

\* The sum as the power register holds it.
Sum == SumFunctionOnSet(reading, Active) % Width

Init ==
    /\ present = {} /\ aggregate = Devices
    /\ reading = [d \in Devices |-> None]
    /\ total = 0 /\ age = Old /\ behind = 0 /\ unheard = Old

\* is_stale: getValues() raises, and Venus OS gets an error.
Served == age <= StaleTimeout

\* A total that is right now is not behind.
Compare == behind' = IF total' = Sum' THEN 0 ELSE behind

\* Mutant: the cache counts as updated although there was nothing to sum.
RecalculateTouching ==
    /\ total' = IF Active' = {} THEN total ELSE Sum'
    /\ age' = 0

\* Nothing to sum leaves the cache, and its age, as they are.
Recalculate ==
    IF Active' = {} THEN UNCHANGED <<total, age>> ELSE total' = Sum' /\ age' = 0

\* OpenDTU answers success without registers while its radio link is down.
PollSucceeds(d, r) ==
    /\ d \in present
    /\ reading' = [reading EXCEPT ![d] = r]
    /\ UNCHANGED <<present, aggregate>>
    /\ Recalculate /\ Compare
    /\ unheard' = 0

\* A poll whose registers are kept and then cannot be shown or passed on (a
\* decoder or the distributor raises): the cache never hears of it, and it counts
\* as a failure.
PollRaises(d, r) ==
    /\ d \in present
    /\ reading' = [reading EXCEPT ![d] = r]
    /\ UNCHANGED <<present, aggregate, total, age, unheard>> /\ Compare

\* start_device() and stop_device(): the cache keeps its total until the next
\* poll of any device.
Start(d) ==
    /\ d \notin present /\ present' = present \union {d}
    /\ reading' = [reading EXCEPT ![d] = None]
    /\ UNCHANGED <<aggregate, total, age, unheard>> /\ Compare

Stop(d) ==
    /\ d \in present /\ present' = present \ {d}
    /\ reading' = [reading EXCEPT ![d] = None]
    /\ UNCHANGED <<aggregate, total, age, unheard>> /\ Compare

\* The flag is edited in the page.
Flag(d) ==
    /\ aggregate' = (aggregate \ {d}) \union ({d} \ aggregate)
    /\ UNCHANGED <<present, reading, total, age, unheard>> /\ Compare

Tick ==
    /\ age' = Later(age) /\ unheard' = Later(unheard)
    /\ behind' = IF total = Sum THEN 0 ELSE Later(behind)
    /\ UNCHANGED <<present, aggregate, reading, total>>

Next ==
    \/ \E d \in Devices :
         \/ \E r \in 0..MaxReading \union {Empty} : PollSucceeds(d, r) \/ PollRaises(d, r)
         \/ Start(d) \/ Stop(d) \/ Flag(d)
    \/ Tick

Spec == Init /\ [][Next]_vars

TypeOK ==
    /\ present \subseteq Devices /\ aggregate \subseteq Devices
    /\ reading \in [Devices -> 0..MaxReading \union {Empty, None}]
    /\ total \in 0..Width - 1
    /\ {age, behind, unheard} \subseteq 0..Old

\* What Venus OS reads is the sum of the last readings of the devices that
\* count, or has not been for longer than the cache lives: a device that was
\* stopped, lost its radio link or its flag leaves the total, or the reads are
\* refused.  And when no poll succeeds they are refused as well.
WrongTotalEnds == Served => behind <= StaleTimeout /\ unheard <= StaleTimeout
=============================================================================
