------------------------------ MODULE Waterfall ------------------------------
(***************************************************************************)
(* The pure part of PowerLimitDistributor.distribute(): from the global    *)
(* limit to one target per device (distributor.py 127-160, 210-275 and     *)
(* 433-512, with the throttle score of plugin.py 36-51).                   *)
(*                                                                         *)
(* A fleet is a function from device ids to records; a record holds what   *)
(* the code reads from DeviceLimitState, InverterEntry, ThrottleCaps and   *)
(* the collector snapshot at the moment distribute() runs:                 *)
(*   rated      entry.rated_power, in watts                                *)
(*   enabled, aggregate, throttle   the entry's three flags                *)
(*   online     ds.is_online                                               *)
(*   startup    _is_in_startup(ds), FALSE for a device that is not binary  *)
(*   mode       caps.mode: "proportional", "binary" or "none"              *)
(*   response   the measured response time if there is one, else the       *)
(*              declared one, in tenths of a second                        *)
(*   cooldown, startupDelay         the other two caps, in seconds         *)
(*   actual     _read_actual_power_w(), in watts; negative: no reading     *)
(* Ids are natural numbers: the code breaks ties by comparing id strings.  *)
(*                                                                         *)
(* Limits are whole percents (WMaxLimPct has scale factor 0) and targets   *)
(* tenths of a percent (the code rounds to one decimal), so a percentage   *)
(* of watts is an exact integer: percent * W in 1/100 W, tenths of a       *)
(* percent * W in mW.  The code computes the same numbers in floats.       *)
(***************************************************************************)
EXTENDS Integers, FiniteSetsExt, Functions

Full == 1000                      \* 100.0 %, in tenths of a percent

SlackMinPerDevice == 50 * 1000    \* _SLACK_MIN_PER_DEVICE_W, in mW
SlackMinTotal     == 100 * 1000   \* _SLACK_MIN_TOTAL_W
HeadroomFloor     == 50 * 1000    \* _SLACK_HEADROOM_FLOOR_W

\* Python's round(): to the nearest integer, ties to the even one.
RoundDiv(a, b) ==
    LET q == a \div b
        r == a % b
    IN  IF 2 * r > b \/ (2 * r = b /\ q % 2 = 1) THEN q + 1 ELSE q

-----------------------------------------------------------------------------
\* Mutant: a slow measured response counts against a device without limit.
ThrottleScoreUnboundedBonus(mode, response, cooldown, startupDelay) ==
    LET base  == IF mode = "proportional" THEN 2100 ELSE 900
        score == base + 9 * (100 - response) - Min({600, 2 * cooldown})
                      - Min({300, 10 * startupDelay})
    IN  IF mode = "none" THEN 0
        ELSE RoundDiv(Max({0, Min({3000, score})}), 30)

\* compute_throttle_score() in tenths, from thirtieths of a tenth: a base by
\* mode, a bonus for fast response, penalties for cooldown and startup delay.
ThrottleScore(mode, response, cooldown, startupDelay) ==
    LET base  == IF mode = "proportional" THEN 2100 ELSE 900
        bonus == Max({0, 9 * (100 - response)})
        score == base + bonus - Min({600, 2 * cooldown})
                              - Min({300, 10 * startupDelay})
    IN  IF mode = "none" THEN 0
        ELSE RoundDiv(Max({0, Min({3000, score})}), 30)

Score(ds) == ThrottleScore(ds.mode, ds.response, ds.cooldown, ds.startupDelay)

IsBinary(ds) == ds.mode = "binary"

\* _is_throttle_eligible(): the devices a limit may be sent to.
ThrottleEligible(ds) == ds.aggregate /\ ds.throttle /\ ds.online /\ ds.rated > 0

\* The devices counted in the denominator of the percentage.
CountsAsRated(ds) ==
    ds.enabled /\ ds.aggregate /\ ds.rated > 0 /\ ~ds.startup

RatedSum(f, S) == SumFunctionOnSet([d \in DOMAIN f |-> f[d].rated], S)

TotalRated(f) == RatedSum(f, {d \in DOMAIN f : CountsAsRated(f[d])})

NonThrottleRated(f) ==
    RatedSum(f, {d \in DOMAIN f : CountsAsRated(f[d]) /\ ~f[d].throttle})

\* waterfall_budget, in 1/100 W.
Budget(f, limit) ==
    Max({0, limit * TotalRated(f) - 100 * NonThrottleRated(f)})

-----------------------------------------------------------------------------
\* The sort key of _waterfall(): score, then rated power, then id.
Precedes(f, d, e) ==
    \/ Score(f[d]) < Score(f[e])
    \/ /\ Score(f[d]) = Score(f[e])
       /\ \/ f[d].rated < f[e].rated
          \/ f[d].rated = f[e].rated /\ d < e

\* The sort key of _reclaim_slack_into_targets(): highest score first, then id.
Outpaces(f, d, e) ==
    \/ Score(f[d]) > Score(f[e])
    \/ Score(f[d]) = Score(f[e]) /\ d < e

InWaterfall(f) ==
    {d \in DOMAIN f : ThrottleEligible(f[d]) /\ ~f[d].startup}

SlowestFirst(f) ==
    {p \in InWaterfall(f) \X InWaterfall(f) : Precedes(f, p[1], p[2])}

FastestFirst(f) ==
    {p \in InWaterfall(f) \X InWaterfall(f) : Outpaces(f, p[1], p[2])}

LastOf(order, S) == CHOOSE d \in S : \A e \in S \ {d} : <<e, d>> \in order

\* Mutant: what a device takes is not deducted.
AllotWithoutDeduction(order, cap, amount) ==
    [d \in DOMAIN cap |-> Min({amount, cap[d]})]

\* Mutant: a device whose cap exceeds what is left is passed over.
AllotWhole(order, cap, amount) ==
    LET Take(d, acc) ==
            LET share == IF cap[d] <= acc.left THEN cap[d] ELSE 0
            IN  [left  |-> acc.left - share,
                 share |-> [acc.share EXCEPT ![d] = share]]
    IN  MapThenFoldSet(Take,
                       [left |-> amount, share |-> [d \in DOMAIN cap |-> 0]],
                       LAMBDA d : d, LAMBDA S : LastOf(order, S),
                       DOMAIN cap).share

\* The loop over the sorted devices of both functions below: each device in
\* turn takes what is left, up to its cap.
Allot(order, cap, amount) ==
    LET Take(d, acc) ==
            LET share == Min({acc.left, cap[d]})
            IN  [left  |-> acc.left - share,
                 share |-> [acc.share EXCEPT ![d] = share]]
    IN  MapThenFoldSet(Take,
                       [left |-> amount, share |-> [d \in DOMAIN cap |-> 0]],
                       LAMBDA d : d, LAMBDA S : LastOf(order, S),
                       DOMAIN cap).share

\* What a device can take of the budget, in 1/100 W.
Ratings(f) == [d \in InWaterfall(f) |-> 100 * f[d].rated]

\* _waterfall(): the budget is handed out, each device up to its rating.
Pour(f, budget) ==
    LET share == Allot(SlowestFirst(f), Ratings(f), budget)
    IN  [d \in InWaterfall(f) |-> RoundDiv(10 * share[d], f[d].rated)]

-----------------------------------------------------------------------------
\* The absorber pool: proportional devices that the waterfall throttled.
Absorbers(f, t) == {d \in DOMAIN t : t[d] < Full /\ ~IsBinary(f[d])}

\* What a device that is not an absorber leaves unused of its target, in mW;
\* shortfalls of 50 W or less are noise.
Shortfall(f, t, d) ==
    LET short == t[d] * f[d].rated - 1000 * f[d].actual
    IN  IF f[d].actual >= 0 /\ short > SlackMinPerDevice THEN short ELSE 0

Slack(f, t) ==
    SumFunctionOnSet([d \in DOMAIN t |-> Shortfall(f, t, d)],
                     DOMAIN t \ Absorbers(f, t))

\* What an absorber can take of the slack, in mW.
Headroom(f, t) ==
    [d \in Absorbers(f, t) |->
       LET headroom == (Full - t[d]) * f[d].rated
       IN  IF headroom <= HeadroomFloor THEN 0 ELSE headroom]

\* Mutant: every absorber is handed the whole slack.
ReclaimForEach(f, t) ==
    [d \in DOMAIN t |->
       IF d \notin Absorbers(f, t) \/ Slack(f, t) < SlackMinTotal THEN t[d]
       ELSE Min({Full, RoundDiv(t[d] * f[d].rated + Slack(f, t), f[d].rated)})]

\* _reclaim_slack_into_targets(): hand the slack to the absorbers, highest
\* score first, each up to its rating.
Reclaim(f, t) ==
    LET share == Allot(FastestFirst(f), Headroom(f, t), Slack(f, t))
    IN  IF Slack(f, t) < SlackMinTotal THEN t
        ELSE [d \in DOMAIN t |->
                IF d \in Absorbers(f, t)
                THEN RoundDiv(t[d] * f[d].rated + share[d], f[d].rated)
                ELSE t[d]]

\* The targets of distribute(limit, enable=True); none when nothing is rated.
Targets(f, limit) ==
    IF TotalRated(f) <= 0 THEN <<>> ELSE Reclaim(f, Pour(f, Budget(f, limit)))
=============================================================================
