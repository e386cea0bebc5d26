----------------------------- MODULE MCWaterfall -----------------------------
(***************************************************************************)
(* Distribution over every fleet of a SolarEdge-like (1), an OpenDTU-like  *)
(* (2) and a Shelly-like (3) device with small sets of flags and readings. *)
(***************************************************************************)
EXTENDS Distribution, TLC

Proportional(rated, response) ==
    [rated |-> rated, mode |-> "proportional", response |-> response,
     cooldown |-> 0, startupDelay |-> 0, startup |-> FALSE, enabled |-> TRUE]

Shelly == [rated |-> 600, mode |-> "binary", response |-> 5, cooldown |-> 300,
           startupDelay |-> 30, enabled |-> TRUE]

Flags(aggregate, throttle, online, actual) ==
    [aggregate |-> aggregate, throttle |-> throttle, online |-> online,
     actual |-> actual]

MCFleets ==
    {(1 :> (Proportional(2000, r1) @@ Flags(TRUE, TRUE, TRUE, a1))) @@
     (2 :> (Proportional(p2, 100) @@ Flags(g2, t2, TRUE, a2))) @@
     (3 :> (Shelly @@ [startup |-> s3] @@ Flags(TRUE, TRUE, o3, a3))) :
        r1 \in {10, 100, 300}, a1 \in {900, -1}, p2 \in {410, 2000},
        g2 \in BOOLEAN, t2 \in BOOLEAN, a2 \in {-1, 0, 300},
        s3 \in BOOLEAN, o3 \in BOOLEAN, a3 \in {-1, 0, 545, 600}}
=============================================================================
