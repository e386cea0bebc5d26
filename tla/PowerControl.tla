---------------------------- MODULE PowerControl ----------------------------
(***************************************************************************)
(* Who decides the global power limit, and what of it survives a restart:  *)
(* ControlState (control.py), the Model 123 writes of Venus OS (proxy.py), *)
(* the webapp's power_limit, power_clamp and venus_lock handlers, the      *)
(* three files they persist to, the boot that reads them back, and the     *)
(* maintenance gate with the drain at shutdown.                            *)
(*                                                                         *)
(* Handlers change ControlState, write the files and enter distribute()    *)
(* without awaiting anything, so each is one action; only the plugin calls *)
(* inside distribute() (module Distributor, of which `dist' is _enabled    *)
(* and _global_limit_pct) take time.  The boot is one action too: nothing  *)
(* between the loading of the files and the restored distribute() yields   *)
(* to the event loop.                                                      *)
(*                                                                         *)
(* Time is counted in ticks, and the ages below saturate at the point      *)
(* where the code stops telling them apart.                                *)
(***************************************************************************)
EXTENDS Integers

CONSTANTS
    VenusLimit,   \* WMaxLimPct values Venus OS writes, in percent
    WebLimit,     \* limits the user sets in the webapp
    Clamp,        \* <<min, max>> pairs the user chooses as virtual clamp
    LockFor,      \* kinds of lock the user asks for: "timed", "permanent"
    MaxInflight,  \* bound on Modbus writes inside distribute() at once
    LastTTL,      \* last_limit.json is restored if younger (300 s)
    StateTTL,     \* state.json is restored if younger (900 s / 2)
    LockTTL,      \* length of a timed lock (900 s)
    Fault,        \* {"tear"}: a crash may cut a handler's file writes short
    Missing       \* a file that is not there, or not readable as JSON

Pct == 0..100

ASSUME PowerControlAssumption ==
    /\ VenusLimit \subseteq Pct
    /\ WebLimit \subseteq Pct
    /\ Clamp \subseteq Pct \X Pct
    /\ LockFor \subseteq {"timed", "permanent"}
    /\ MaxInflight \in Nat
    /\ LastTTL \in Nat /\ StateTTL \in Nat /\ LockTTL \in Nat

VARIABLES
    up,           \* the service runs
    ctl,          \* ControlState
    dist,         \* PowerLimitDistributor: on (_enabled), limit
    lastLimit,    \* last_limit.json
    stateJson,    \* state.json
    uiState,      \* ui_state.json
    maintenance,  \* app_ctx.maintenance_mode
    inflight,     \* StalenessAwareSlaveContext._inflight_count
    drain,        \* progress of drain_inflight_modbus() at shutdown
    wish          \* history: the last decision about the limit

files == <<lastLimit, stateJson, uiState>>
vars  == <<up, ctl, dist, files, maintenance, inflight, drain, wish>>

-----------------------------------------------------------------------------
Sources == {"none", "venus_os", "webapp"}

\* lock and left: is_locked and lock_expires_at; free (history): the limit is
\* the default, the 100 % of a lock, or picked in the webapp's limit control,
\* which the clamp does not bind.
Control == [raw : Pct, ena : BOOLEAN, source : Sources, lo : Pct, hi : Pct,
            lock : {"off", "timed", "permanent"}, left : 0..LockTTL,
            free : BOOLEAN]

LastLimit == [raw : Pct, source : Sources, age : 0..LastTTL]
StateJson == [pct : Pct, age : 0..StateTTL]
UiState   == [raw : Pct, ena : BOOLEAN, source : Sources, lo : Pct, hi : Pct,
              locked : BOOLEAN, age : 0..LockTTL, free : BOOLEAN]

ASSUME MissingAssumption == Missing \notin LastLimit \cup StateJson \cup UiState

Wish == [kind : {"none", "venus", "clamp", "set", "released"},
         ok : SUBSET Pct, age : 0..StateTTL, lapsed : BOOLEAN]

TypeOK ==
    /\ up \in BOOLEAN
    /\ ctl \in Control
    /\ dist \in [on : BOOLEAN, limit : Pct]
    /\ lastLimit \in LastLimit \cup {Missing}
    /\ stateJson \in StateJson \cup {Missing}
    /\ uiState \in UiState \cup {Missing}
    /\ maintenance \in BOOLEAN
    /\ inflight \in 0..MaxInflight
    /\ drain \in {"no", "waiting", "woken", "done", "timeout"}
    /\ wish \in Wish
    /\ ctl.lock # "timed" => ctl.left = 0

Fresh == [raw |-> 0, ena |-> FALSE, source |-> "none", lo |-> 0, hi |-> 100,
          lock |-> "off", left |-> 0, free |-> TRUE]

Wished(kind, ok) == [kind |-> kind, ok |-> ok, age |-> 0, lapsed |-> FALSE]

Init ==
    /\ up = TRUE
    /\ ctl = Fresh
    /\ dist = [on |-> FALSE, limit |-> 100]
    /\ lastLimit = Missing /\ stateJson = Missing /\ uiState = Missing
    /\ maintenance = FALSE
    /\ inflight = 0
    /\ drain = "no"
    /\ wish = Wished("none", {})

MinOf(a, b) == IF a <= b THEN a ELSE b
MaxOf(a, b) == IF a >= b THEN a ELSE b

-----------------------------------------------------------------------------
\* The images of a control state in the files.
LastImage(c)  == [raw |-> c.raw, source |-> c.source, age |-> 0]
StateImage(c) == [pct |-> c.raw, age |-> 0]
UiImage(c)    == [raw |-> c.raw, ena |-> c.ena, source |-> c.source,
                  lo |-> c.lo, hi |-> c.hi, locked |-> c.lock # "off",
                  age |-> 0, free |-> c.free]

\* Mutant: state.json is not written.
SaveLastLimitLegacy(c) ==
    /\ lastLimit' = LastImage(c)
    /\ UNCHANGED stateJson

\* save_last_limit(): last_limit.json, then state.json.
SaveLastLimit(c) ==
    /\ lastLimit' = LastImage(c)
    /\ stateJson' = StateImage(c)

\* save_ui_state().
SaveUiState(c) == uiState' = UiImage(c)

\* distribute() up to its first await.
Distribute(limit, on) == dist' = [on |-> on, limit |-> limit]

-----------------------------------------------------------------------------
\* Mutant: Model 123 writes are let through during maintenance.
GateNothing == up /\ inflight < MaxInflight

\* async_setValues() during maintenance_mode: a Model 123 write is answered
\* DEVICE_BUSY and changes nothing.  Also the bound on concurrent writes.
Gate == up /\ ~maintenance /\ inflight < MaxInflight

\* Venus OS writes WMaxLimPct: clipped to the clamp, at least 1 %, saved,
\* distributed.  (A value above 100 is refused before anything changes.)
Clip(v) == MaxOf(MaxOf(ctl.lo, 1), MinOf(ctl.hi, v))

AfterVenusLimit(v) ==
    [ctl EXCEPT !.raw = Clip(v), !.ena = TRUE, !.source = "venus_os",
                !.free = FALSE]

VenusWritesLimit(v) ==
    /\ Gate
    /\ ctl' = AfterVenusLimit(v)
    /\ SaveLastLimit(ctl')
    /\ Distribute(ctl'.raw, TRUE)
    /\ inflight' = inflight + 1
    /\ wish' = Wished("venus", {ctl'.raw})
    /\ UNCHANGED <<up, uiState, maintenance, drain>>

\* Venus OS writes WMaxLim_Ena: nothing is saved.
VenusWritesEna(ena) ==
    /\ Gate
    /\ ctl' = [ctl EXCEPT !.ena = ena, !.source = "venus_os"]
    /\ Distribute(ctl.raw, ena)
    /\ inflight' = inflight + 1
    /\ wish' = Wished(IF ena THEN "none" ELSE "released", {})
    /\ UNCHANGED <<up, files, maintenance, drain>>

\* Venus OS writes another register of Model 123: what is stored is distributed
\* again.
VenusWritesOther ==
    /\ Gate
    /\ Distribute(ctl.raw, ctl.ena)
    /\ inflight' = inflight + 1
    /\ UNCHANGED <<up, ctl, files, maintenance, drain, wish>>

\* A write leaves distribute(); the last one sets the drained event.
WriteReturns ==
    /\ up /\ inflight > 0
    /\ inflight' = inflight - 1
    /\ drain' = IF inflight' = 0 /\ drain = "waiting" THEN "woken" ELSE drain
    /\ UNCHANGED <<up, ctl, dist, files, maintenance, wish>>

-----------------------------------------------------------------------------
\* power_limit_handler(): set, enable, disable.  None of them saves anything.
WebSet(v) ==
    /\ up
    /\ ctl' = [ctl EXCEPT !.raw = v, !.ena = TRUE, !.source = "webapp",
                          !.free = TRUE]
    /\ Distribute(v, TRUE)
    /\ wish' = Wished("set", {v})
    /\ UNCHANGED <<up, files, maintenance, inflight, drain>>

WebEnable ==
    /\ up
    /\ ctl' = [ctl EXCEPT !.ena = TRUE, !.source = "webapp"]
    /\ Distribute(ctl.raw, TRUE)
    /\ wish' = Wished("none", {})
    /\ UNCHANGED <<up, files, maintenance, inflight, drain>>

WebDisable ==
    /\ up
    /\ ctl' = [ctl EXCEPT !.ena = FALSE, !.source = "none"]
    /\ Distribute(ctl.raw, FALSE)
    /\ wish' = Wished("released", {})
    /\ UNCHANGED <<up, files, maintenance, inflight, drain>>

\* Mutant: the clamp bounds later writes but leaves the limit in force alone.
AfterClampOnly(lo, hi) ==
    [ctl EXCEPT !.lo = lo, !.hi = hi, !.source = "webapp",
                !.ena = ~(lo = 0 /\ hi >= 100)]

\* power_clamp_handler() for the virtual device: the maximum becomes the limit,
\* and <<0, 100>> releases it.  The pair is not put in order.
AfterClamp(lo, hi) ==
    LET release == lo = 0 /\ hi >= 100
    IN  [ctl EXCEPT !.lo = lo, !.hi = hi, !.source = "webapp",
                    !.raw = IF release THEN 100 ELSE hi,
                    !.ena = ~release, !.free = FALSE]

VirtualClamp(lo, hi) ==
    /\ up
    /\ ctl' = AfterClamp(lo, hi)
    /\ SaveUiState(ctl')
    /\ SaveLastLimit(ctl')
    /\ Distribute(ctl'.raw, ctl'.ena)
    /\ wish' = IF ctl'.ena THEN Wished("clamp", {ctl'.raw})
               ELSE Wished("released", {})
    /\ UNCHANGED <<up, maintenance, inflight, drain>>

\* set_device_clamp(), and get_device_clamp() of a device seen for the first
\* time: the file is saved with whatever the control state is.
DeviceClamp ==
    /\ up
    /\ SaveUiState(ctl)
    /\ UNCHANGED <<up, ctl, dist, lastLimit, stateJson, maintenance, inflight,
                   drain, wish>>

\* venus_lock_handler(): the limit is reset in the control state only.
Lock(kind) ==
    /\ up
    /\ ctl' = [ctl EXCEPT !.lock = kind, !.raw = 100, !.ena = FALSE,
                          !.left = IF kind = "timed" THEN LockTTL ELSE 0,
                          !.source = "none", !.free = TRUE]
    /\ SaveUiState(ctl')
    /\ wish' = Wished("none", {})
    /\ UNCHANGED <<up, dist, lastLimit, stateJson, maintenance, inflight, drain>>

Unlock ==
    /\ up /\ ctl.lock # "off"
    /\ ctl' = [ctl EXCEPT !.lock = "off", !.left = 0]
    /\ SaveUiState(ctl')
    /\ UNCHANGED <<up, dist, lastLimit, stateJson, maintenance, inflight, drain,
                   wish>>

-----------------------------------------------------------------------------
\* update_start_handler(), update_rollback_handler(): nothing clears the mode.
EnterMaintenance ==
    /\ up /\ ~maintenance
    /\ maintenance' = TRUE
    /\ UNCHANGED <<up, ctl, dist, files, inflight, drain, wish>>

\* _graceful_shutdown_maintenance() after SIGTERM: drain only in maintenance.
StartDrain ==
    /\ up /\ maintenance /\ drain = "no"
    /\ drain' = IF inflight = 0 THEN "done" ELSE "waiting"
    /\ UNCHANGED <<up, ctl, dist, files, maintenance, inflight, wish>>

\* The waiter runs some time after the event was set; it does not look again.
FinishDrain ==
    /\ up /\ drain = "woken"
    /\ drain' = "done"
    /\ UNCHANGED <<up, ctl, dist, files, maintenance, inflight, wish>>

DrainTimesOut ==
    /\ up /\ drain = "waiting"
    /\ drain' = "timeout"
    /\ UNCHANGED <<up, ctl, dist, files, maintenance, inflight, wish>>

-----------------------------------------------------------------------------
\* The process is gone, with everything it held in memory.
Gone ==
    /\ up /\ up' = FALSE
    /\ ctl' = Fresh
    /\ dist' = [on |-> FALSE, limit |-> 100]
    /\ maintenance' = FALSE /\ inflight' = 0 /\ drain' = "no"

\* The service stops or is killed between two handlers.
Stop == Gone /\ UNCHANGED <<files, wish>>

\* It is killed in the middle of a handler's file writes.  The two files written
\* in place may be left empty; state.json is replaced atomically.
Either(limit) ==
    [wish EXCEPT !.ok = IF wish.kind \in {"venus", "clamp"} THEN @ \cup {limit}
                        ELSE @]

TornVenusWrite(v) ==
    LET c == AfterVenusLimit(v) IN
    /\ "tear" \in Fault /\ Gate /\ Gone
    /\ lastLimit' \in {Missing, LastImage(c)}
    /\ wish' = Either(c.raw)
    /\ UNCHANGED <<stateJson, uiState>>

TornClamp(lo, hi) ==
    LET c == AfterClamp(lo, hi) IN
    /\ "tear" \in Fault /\ Gone
    /\ \/ /\ uiState' \in {Missing, UiImage(ctl), UiImage(c)}
          /\ UNCHANGED lastLimit
       \/ /\ uiState' = UiImage(c)
          /\ lastLimit' \in {Missing, LastImage(c)}
    /\ wish' = Either(c.raw)
    /\ UNCHANGED stateJson

\* Mutant: the age of the lock is added to its length.
FromUiStateLongLock(c) ==
    IF uiState = Missing THEN c ELSE
    [c EXCEPT !.lo = uiState.lo, !.hi = uiState.hi,
              !.lock = IF uiState.locked THEN "timed" ELSE "off",
              !.left = IF uiState.locked THEN LockTTL + uiState.age ELSE 0]

\* ControlState.__init__(): _load_ui_state(), then _load_last_limit().
FromUiState(c) ==
    IF uiState = Missing THEN c ELSE
    LET u     == uiState
        limit == u.ena /\ u.raw > 0
        lock  == u.locked /\ u.age < LockTTL
    IN  [raw |-> IF limit THEN u.raw ELSE c.raw, ena |-> limit,
         source |-> IF limit THEN u.source ELSE c.source,
         lo |-> u.lo, hi |-> u.hi,
         lock |-> IF lock THEN "timed" ELSE "off",
         left |-> IF lock THEN LockTTL - u.age ELSE 0,
         free |-> limit => u.free]

FromLastLimit(c) ==
    IF lastLimit # Missing /\ lastLimit.age < LastTTL
       /\ lastLimit.source = "venus_os"
    THEN [c EXCEPT !.raw = lastLimit.raw, !.ena = TRUE, !.source = "venus_os",
                   !.free = FALSE]
    ELSE c

Loaded == FromLastLimit(FromUiState(Fresh))

\* is_power_limit_fresh() on what load_state() returns.
Restorable == stateJson # Missing /\ stateJson.age < StateTTL

\* The boot: a fresh state.json is issued again as if Venus OS had written it.
Boot ==
    /\ ~up /\ up' = TRUE
    /\ IF Restorable
       THEN /\ ctl' = [Loaded EXCEPT !.raw = stateJson.pct, !.ena = TRUE,
                                     !.source = "venus_os", !.free = FALSE]
            /\ SaveLastLimit(ctl')
            /\ Distribute(ctl'.raw, TRUE)
       ELSE /\ ctl' = Loaded
            /\ UNCHANGED <<lastLimit, stateJson, dist>>
    /\ wish' = [wish EXCEPT !.lapsed = @ \/ wish.age >= StateTTL]
    /\ UNCHANGED <<uiState, maintenance, inflight, drain>>

\* Time passes, for a running process and for the files of a stopped one.  An
\* age that nothing asks for is not counted.
Tick ==
    /\ ctl' = [ctl EXCEPT !.left = IF @ > 0 THEN @ - 1 ELSE 0]
    /\ lastLimit' = IF lastLimit = Missing \/ lastLimit.source # "venus_os"
                    THEN lastLimit
                    ELSE [lastLimit EXCEPT !.age = MinOf(@ + 1, LastTTL)]
    /\ stateJson' = IF stateJson = Missing THEN Missing
                    ELSE [stateJson EXCEPT !.age = MinOf(@ + 1, StateTTL)]
    /\ uiState' = IF uiState = Missing \/ ~uiState.locked THEN uiState
                  ELSE [uiState EXCEPT !.age = MinOf(@ + 1, LockTTL)]
    /\ wish' = [wish EXCEPT !.age = MinOf(@ + 1, StateTTL)]
    /\ UNCHANGED <<up, dist, maintenance, inflight, drain>>

VenusWrite ==
    \/ \E v \in VenusLimit : VenusWritesLimit(v)
    \/ \E ena \in BOOLEAN : VenusWritesEna(ena)
    \/ VenusWritesOther

Next ==
    \/ VenusWrite
    \/ WriteReturns
    \/ \E v \in WebLimit : WebSet(v)
    \/ WebEnable \/ WebDisable
    \/ \E k \in Clamp : VirtualClamp(k[1], k[2]) \/ TornClamp(k[1], k[2])
    \/ DeviceClamp
    \/ \E kind \in LockFor : Lock(kind)
    \/ Unlock
    \/ EnterMaintenance \/ StartDrain \/ FinishDrain \/ DrainTimesOut
    \/ Stop
    \/ \E v \in VenusLimit : TornVenusWrite(v)
    \/ Boot
    \/ Tick

Spec == Init /\ [][Next]_vars

-----------------------------------------------------------------------------
\* The limit in force, in the control state and at the distributor, is one of
\* those in `limits'.
InForce(limits) ==
    /\ dist.on /\ dist.limit \in limits
    /\ ctl.ena /\ ctl.raw = dist.limit

\* SAFETY-09 (state_file.py 1-9): a limit set by Venus OS or by the virtual
\* clamp is in force as long as nobody decides otherwise, across any number of
\* crashes and restarts, unless the service was down until the limit was too
\* old.  A crash that cuts the saving of another limit short leaves one of the
\* two.
LimitSurvivesRestart ==
    up /\ wish.kind \in {"venus", "clamp"} /\ ~wish.lapsed => InForce(wish.ok)

\* control.py 113: "Power clamp: min/max bounds for Venus OS regulation".  What
\* is distributed on behalf of Venus OS stays inside the clamp in force, also
\* when the limit was set before the clamp and when it comes back after a
\* restart.  Free are the limits the clamp was never applied to (see Control).
ClampBoundsVenus ==
    up /\ dist.on /\ ctl.ena /\ ctl.source = "venus_os" /\ ~ctl.free
      => dist.limit \in ctl.lo..ctl.hi

\* RESTART-02 (maintenance.py 106-116): when the drain reports that the writes
\* in flight are through, none is inside distribute(), and none gets in until
\* the process ends.
DrainedMeansQuiet == drain = "done" => inflight = 0

\* webapp.py 2091: "Reset limit to 100% so inverter runs at full power while
\* locked", and 2097, "Venus OS writes blocked": as long as the lock holds no
\* limit is enforced, neither the one it found nor one Venus OS writes.
LockedRunsAtFullPower ==
    ctl.lock # "off" => ~dist.on \/ dist.limit = 100

\* control.py 174-176: "Webapp-driven limits are restored unconditionally on
\* boot -- the user explicitly chose them and expects them to survive restarts."
\* Does not hold: setting a limit in the page saves nothing.
WebLimitSurvivesRestart ==
    up /\ wish.kind \in {"set", "clamp"} => InForce(wish.ok)

\* state_file.py 5: "The main service writes on state changes".  A limit that
\* was withdrawn does not come back with a restart.  Does not hold: withdrawing it
\* writes no file.
WithdrawnStaysWithdrawn ==
    up /\ wish.kind = "released" => ~dist.on \/ dist.limit = 100
=============================================================================
