---------------------------- MODULE Distribution ----------------------------
(***************************************************************************)
(* One call of distribute(limit, enable=True) over any fleet: an initial   *)
(* state is an input, Distribute computes its targets with the arithmetic  *)
(* of module Waterfall.                                                    *)
(***************************************************************************)
EXTENDS Waterfall

CONSTANTS Fleets,     \* the fleets of the calls
          Limits      \* their global limits, in percent

\* What the code knows of a device: rated_power is configured in watts, the
\* response time is measured or declared (tenths of a second), cooldown and
\* startup delay are declared by the plugin.
DeviceRecord ==
    [rated : Nat, mode : {"proportional", "binary", "none"},
     response : Nat, cooldown : Nat, startupDelay : Nat,
     enabled : BOOLEAN, aggregate : BOOLEAN, throttle : BOOLEAN,
     online : BOOLEAN, startup : BOOLEAN, actual : Int]

IsFleet(f) ==
    /\ IsFiniteSet(DOMAIN f)
    /\ DOMAIN f \subseteq Nat
    /\ \A d \in DOMAIN f : f[d] \in DeviceRecord

ASSUME FleetAssumption == Limits \subseteq Nat /\ \A f \in Fleets : IsFleet(f)

\* The proportional plugins declare no cooldown and no startup delay
\* (solaredge.py 210, opendtu.py 474, sungrow.py 346-351).
ASSUME CapsAssumption ==
    \A f \in Fleets : \A d \in DOMAIN f :
      f[d].mode = "proportional" => f[d].cooldown = 0 /\ f[d].startupDelay = 0

VARIABLES fleet, limit, targets

vars == <<fleet, limit, targets>>

Init ==
    /\ fleet \in Fleets
    /\ limit \in Limits
    /\ targets = <<>>

Distribute ==
    /\ targets = <<>>
    /\ targets' = Targets(fleet, limit)
    /\ UNCHANGED <<fleet, limit>>

Spec == Init /\ [][Distribute]_vars

-----------------------------------------------------------------------------
Poured == Pour(fleet, Budget(fleet, limit))

Biggest == Max({fleet[d].rated : d \in DOMAIN targets})

\* Reference definition of the waterfall (class docstring, distributor.py
\* 44-50): a device gets what the devices before it in the order leave over,
\* clamped to its rating.
WaterfallMeetsReference ==
    LET before(d)   == {e \in InWaterfall(fleet) : Precedes(fleet, e, d)}
        leftover(d) == Budget(fleet, limit) - 100 * RatedSum(fleet, before(d))
        share(d)    == Max({0, Min({100 * fleet[d].rated, leftover(d)})})
    IN  Poured = [d \in InWaterfall(fleet) |->
                    RoundDiv(10 * share(d), fleet[d].rated)]

\* What a device may produce under its target, in mW: what it does produce, up
\* to its target; an absorber, or a device without a reading, its target.
Expected(d) ==
    IF d \in Absorbers(fleet, Poured) \/ fleet[d].actual < 0
    THEN targets[d] * fleet[d].rated
    ELSE Min({1000 * fleet[d].actual, targets[d] * fleet[d].rated})

\* Slack reallocation (distributor.py 433-447) must not push the expected
\* production of the fleet above the waterfall budget: what the absorbers may
\* now produce plus what the others do produce, each capped by its own
\* command, stays within the budget up to the rounding of the targets.
ReclaimKeepsCeiling ==
    targets # <<>> =>
      SumFunctionOnSet([d \in DOMAIN targets |-> Expected(d)], DOMAIN targets)
        <= 10 * Budget(fleet, limit) + Biggest

\* Raising the global limit never lowers the target of a device by more than
\* the 50 W for which the reallocation passes an absorber over: the aggregate
\* cannot drop because the user asked for more.
MoreLimitNeverLess ==
    targets # <<>> =>
      \A higher \in {l \in Limits : l > limit} :
        \A d \in DOMAIN targets :
          Targets(fleet, higher)[d] * fleet[d].rated + HeadroomFloor
            >= targets[d] * fleet[d].rated

\* "Proportional > binary > none" (plugin.py 39) for the caps the plugins
\* declare, whatever response time is measured: a relay is never switched off
\* while a proportional device still has budget to give up.
RelaysThrottledLast ==
    targets # <<>> =>
      \A d, e \in DOMAIN Poured :
        /\ IsBinary(fleet[d])
        /\ fleet[e].mode = "proportional"
        /\ Poured[e] > 0
        => Poured[d] = Full
=============================================================================
