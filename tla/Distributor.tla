----------------------------- MODULE Distributor -----------------------------
(***************************************************************************)
(* PowerLimitDistributor (distributor.py): concurrent distribute() calls   *)
(* that turn one global limit into plugin writes and relay commands.       *)
(*                                                                         *)
(* A caller is one coroutine that may be inside distribute(): a Modbus     *)
(* write, a web handler, the boot restore, the slack refresh loop.  Calls  *)
(* interleave at their awaits, so each is split there:                     *)
(*   Distribute / SlackTick  everything up to the first await: sync, store *)
(*                           the limit, compute the targets                *)
(*   StartGather  the tasks of asyncio.gather() take their first steps, up *)
(*                to the plugin call (they are scheduled back to back)     *)
(*   StartRelay   the next relay command of the two loops after the gather *)
(*   Land         the command takes effect at the device                   *)
(*   Fail         the command never takes effect                           *)
(*   Reply        the plugin call returns and the bookkeeping is done      *)
(*                                                                         *)
(* A limit is in tenths of a percent.  For a binary device the two values  *)
(* Full and 0 stand for relay on and off, and one record plays two roles:  *)
(*   belief  current_limit_pct | relay_on                                  *)
(*   age     time since last_write_ts | last_toggle_ts, saturated at Hold, *)
(*           the dead time | the cooldown; saturated also stands for None  *)
(* Time is counted in ticks; plugin calls time out after MaxLatency ticks. *)
(***************************************************************************)
EXTENDS Integers, FiniteSets

CONSTANTS
    Device,       \* device ids
    Binary,       \* those driven by a relay
    Eligible,     \* aggregate, throttle_enabled and rated_power > 0
    Caller,       \* coroutines that call distribute()
    SlackLoop,    \* the one that runs slack_refresh_loop()
    Limit,        \* global limits callers ask for, in percent
    Reading,      \* production readings the slack reclaim may see
    Hold,         \* throttle_dead_time_s | cooldown_s of each device, in ticks
    PluginHold,   \* the plugin's own dead time (opendtu.py DEAD_TIME_S), or 0
    StartupDelay, \* startup_delay_s, in ticks
    MaxLatency,   \* bound on one plugin call, in ticks
    Rank(_),      \* position of a device in the waterfall order
    Effect(_, _), \* what a device makes of the percentage it is sent
    TargetsOf(_, _, _, _, _), \* the targets: limit, fleet, online, startup, reading
    Fault         \* the faults of the environment that may happen

Full == 1000
None == -1        \* pending_limit_pct is None
Pct  == 0..Full

Faults == {"disconnect", "unmanage", "refuse", "loseReply", "bypass"}

ASSUME DistributorAssumption ==
    /\ Binary \subseteq Device
    /\ Eligible \subseteq Device
    /\ SlackLoop \in Caller
    /\ Hold \in [Device -> Nat]
    /\ PluginHold \in [Device -> Nat]
    /\ StartupDelay \in Nat
    /\ MaxLatency \in Nat
    /\ Fault \subseteq Faults
    /\ Limit \subseteq 0..100

\* Targets are percentages of eligible online devices, and a device turns a
\* percentage into a percentage (relays: on stays on, off stays off).
ASSUME TargetsAssumption ==
    \A l \in Limit \cup {100}, r \in Reading :
      \A fleet, online, started \in SUBSET Device :
        LET t == TargetsOf(l, fleet, online, started, r)
        IN  /\ DOMAIN t \subseteq (Eligible \cap fleet \cap online)
            /\ \A d \in DOMAIN t : t[d] \in Pct

ASSUME EffectAssumption ==
    /\ \A d \in Device, v \in Pct : Effect(d, v) \in Pct
    /\ \A d \in Binary : Effect(d, 0) = 0 /\ Effect(d, Full) = Full

VARIABLES
    managed,      \* DeviceRegistry._managed
    conn,         \* devices whose ConnectionManager is CONNECTED
    actual,       \* the limit in force at the device itself
    guard,        \* ticks left of the plugin's own dead time (_last_limit_ts)
    known,        \* keys of _device_states
    belief, age, pending, startup,   \* DeviceLimitState, by device
    enabled,      \* _enabled
    globalLimit,  \* _global_limit_pct
    job,          \* by caller: what its distribute() has still to start
    task,         \* by caller and device: the plugin call in flight
    rest,         \* history: ticks since the relay was last moved by a regular
                  \* command (Hold after a release) | since the plugin was
                  \* last called; saturated at Hold
    settled       \* history: the environment has become quiet for good

place == <<managed, conn, actual>>
world == <<place, guard>>
state == <<known, belief, age, pending, startup>>
vars  == <<world, state, enabled, globalLimit, job, task, rest, settled>>

-----------------------------------------------------------------------------
IdleJob == [gather |-> {}, off |-> {}, on |-> {},
            goal |-> [d \in Device |-> Full], force |-> FALSE]

\* orphan: the distributor has forgotten the device the call is about;
\* old: the registry has replaced the plugin the call was made on;
\* crossed (history): a release moved the relay while the call was under way.
NoTask == [st |-> "none", val |-> Full, age |-> 0, orphan |-> FALSE,
           old |-> FALSE, crossed |-> FALSE]

\* The commands a device understands: a relay knows on and off only.
Command(d) == IF d \in Binary THEN {0, Full} ELSE Pct
Commands   == {f \in [Device -> Pct] : \A d \in Device : f[d] \in Command(d)}

Job == [gather : SUBSET Eligible, off : SUBSET (Eligible \cap Binary),
        on : SUBSET (Eligible \cap Binary), goal : Commands,
        force : BOOLEAN]

Task == [st : {"none", "sent", "landed", "failed"}, val : Pct,
         age : 0..MaxLatency, orphan : BOOLEAN, old : BOOLEAN,
         crossed : BOOLEAN]

\* The types, and that a relay is only ever told, and believed, on or off.
TypeOK ==
    /\ managed \subseteq Device
    /\ conn \subseteq managed
    /\ actual \in [Device -> Pct]
    /\ guard \in [Device -> Nat]
    /\ known \subseteq Device
    /\ belief \in Commands
    /\ age \in [Device -> Nat]
    /\ pending \in [Device -> Pct \cup {None}]
    /\ startup \in [Device -> 0..StartupDelay]
    /\ enabled \in BOOLEAN
    /\ globalLimit \in Limit \cup {100}
    /\ job \in [Caller -> Job]
    /\ task \in [Caller -> [Device -> Task]]
    /\ rest \in [Device -> Nat]
    /\ settled \in BOOLEAN
    /\ \A d \in Device :
         /\ age[d] <= Hold[d] /\ rest[d] <= Hold[d]
         /\ guard[d] <= PluginHold[d]
         /\ pending[d] \in Command(d) \cup {None}
         /\ \A c \in Caller : task[c][d].val \in Command(d)

Init ==
    /\ managed = Device
    /\ conn = Device
    /\ actual = [d \in Device |-> Full]
    /\ guard = [d \in Device |-> 0]
    /\ known = {}
    /\ belief = [d \in Device |-> Full]
    /\ age = Hold
    /\ pending = [d \in Device |-> None]
    /\ startup = [d \in Device |-> 0]
    /\ enabled = FALSE
    /\ globalLimit = 100
    /\ job = [c \in Caller |-> IdleJob]
    /\ task = [c \in Caller |-> [d \in Device |-> NoTask]]
    /\ rest = Hold
    /\ settled = FALSE

-----------------------------------------------------------------------------
Least(S)  == CHOOSE d \in S : \A e \in S : Rank(d) <= Rank(e)
MinOf(a, b) == IF a <= b THEN a ELSE b

InFlight(c) == {d \in Device : task[c][d].st # "none"}

Idle(c) == job[c] = IdleJob /\ InFlight(c) = {}

\* The event loop runs a coroutine up to its next await: one that is between
\* two relay commands goes on before anything else happens.  Gathered tasks
\* are started in the loop's next round: other callbacks that are ready may
\* come first, but nothing that needs the outside world to answer.
Running(c)  == job[c].gather = {} /\ InFlight(c) = {} /\ job[c] # IdleJob
NoneRunning == \A c \in Caller : ~Running(c)
Waiting     == NoneRunning /\ \A c \in Caller : job[c].gather = {}

\* A job with nothing left to start and nothing in flight is over.
Settle(j, flying) ==
    IF j.gather = {} /\ j.off = {} /\ j.on = {} /\ flying = {}
    THEN IdleJob ELSE j

\* sync_devices(): forget devices no longer managed (calls in flight then
\* update a state object nobody holds), take up new ones with the defaults.
Sync ==
    LET kept == known \cap managed IN
    /\ known' = managed
    /\ belief'  = [d \in Device |-> IF d \in kept THEN belief[d] ELSE Full]
    /\ age'     = [d \in Device |-> IF d \in kept THEN age[d] ELSE Hold[d]]
    /\ pending' = [d \in Device |-> IF d \in kept THEN pending[d] ELSE None]
    /\ startup' = [d \in Device |-> IF d \in kept THEN startup[d] ELSE 0]
    /\ task' = [c \in Caller |-> [d \in Device |->
                  IF d \in known \ managed /\ task[c][d].st # "none"
                  THEN [task[c][d] EXCEPT !.orphan = TRUE] ELSE task[c][d]]]

\* distribute(..., enable=False): one forced write or relay command for each
\* eligible device that is online, all gathered.
ReleaseJob ==
    [gather |-> Eligible \cap managed \cap conn, off |-> {}, on |-> {},
     goal |-> [d \in Device |-> Full], force |-> TRUE]

\* Mutant: relays are sent percentages like everybody else.
EnforceJobPercentages(l, reading) ==
    LET t == TargetsOf(l, managed, conn, {}, reading)
    IN  [IdleJob EXCEPT !.gather = DOMAIN t, !.goal =
           [d \in Device |-> IF d \in DOMAIN t THEN t[d] ELSE Full]]

\* distribute(..., enable=True): proportional writes gathered, then the relays
\* to switch off, then those to switch on.
EnforceJob(l, reading) ==
    LET started == {d \in known \cap managed : startup[d] > 0}
        t == TargetsOf(l, managed, conn, started, reading)
    IN  [gather |-> DOMAIN t \ Binary,
         off    |-> {d \in DOMAIN t \cap Binary : t[d] = 0},
         on     |-> {d \in DOMAIN t \cap Binary : t[d] > 0},
         goal   |-> [d \in Device |-> IF d \notin DOMAIN t THEN Full
                                      ELSE IF d \notin Binary THEN t[d]
                                      ELSE IF t[d] > 0 THEN Full ELSE 0],
         force  |-> FALSE]

DistributeAs(c, l, en) ==
    /\ Idle(c) /\ NoneRunning
    /\ Sync
    /\ enabled' = en
    /\ globalLimit' = l
    /\ \E reading \in Reading :
         job' = [job EXCEPT ![c] =
                   Settle(IF en THEN EnforceJob(l, reading) ELSE ReleaseJob, {})]
    /\ UNCHANGED <<world, rest, settled>>

\* distribute() called by a Modbus write, a web handler or the boot restore.
Distribute(c, l, en) ==
    /\ c # SlackLoop
    /\ ~settled
    /\ DistributeAs(c, l, en)

\* Mutant: the loop does nothing when no device could absorb slack.
SlackTickForAbsorbers ==
    /\ enabled /\ managed \ Binary # {}
    /\ DistributeAs(SlackLoop, globalLimit, TRUE)

\* slack_refresh_loop() and redistribute(): again, with the stored limit.
SlackTick ==
    /\ enabled
    /\ DistributeAs(SlackLoop, globalLimit, TRUE)

-----------------------------------------------------------------------------
\* Mutant: the cooldown is not looked at.
MaySendAtOnce(d, goal, force) == d \in known /\ (d \in Binary => belief[d] # goal)

\* Mutant: a limit that is believed to be in force is not sent again.
MaySendOnChange(d, goal, force) ==
    d \in known /\ belief[d] # goal /\ (force \/ age[d] >= Hold[d])

\* _send_limit() and _send_binary_command() up to the plugin call: a relay
\* that is believed to be there already needs no command; inside the dead time
\* or the cooldown only a forced command is sent.
MaySend(d, goal, force) ==
    /\ d \in known
    /\ d \in Binary => belief[d] # goal
    /\ force \/ age[d] >= Hold[d]

\* ... and a proportional write inside the dead time is buffered instead.
MayBuffer(d, force) == d \in known \ Binary /\ ~force /\ age[d] < Hold[d]

\* A plugin inside its own dead time reports success and sends nothing.
Suppressed(d, force) == ~force /\ guard[d] > 0

Sent(v) == [st |-> "sent", val |-> v, age |-> 0, orphan |-> FALSE,
            old |-> FALSE, crossed |-> FALSE]

StartGather(c) ==
    LET j    == job[c]
        call == {d \in j.gather : MaySend(d, j.goal[d], j.force)}
        send == {d \in call : ~Suppressed(d, j.force)}
    IN  /\ NoneRunning /\ j.gather # {}
        /\ task' = [task EXCEPT ![c] =
                      [d \in Device |-> IF d \in send THEN Sent(j.goal[d])
                                        ELSE task[c][d]]]
        /\ belief' = [d \in Device |-> IF d \in call \ send THEN j.goal[d]
                                       ELSE belief[d]]
        /\ age' = [d \in Device |-> IF d \in call \ send THEN 0 ELSE age[d]]
        /\ pending' = [d \in Device |->
                         IF d \in j.gather /\ MayBuffer(d, j.force) THEN j.goal[d]
                         ELSE IF d \in call \ send THEN None ELSE pending[d]]
        /\ rest' = [d \in Device |-> IF d \in call \ Binary THEN 0 ELSE rest[d]]
        /\ job' = [job EXCEPT ![c] = Settle([j EXCEPT !.gather = {}], send)]
        /\ UNCHANGED <<world, known, startup, enabled, globalLimit, settled>>

\* The loops over binary_off and binary_on: one command at a time, each
\* awaited before the next is looked at.
StartRelay(c) ==
    LET j == job[c]
        d == IF j.off # {} THEN Least(j.off) ELSE Least(j.on)
        left == IF j.off # {} THEN [j EXCEPT !.off = @ \ {d}]
                              ELSE [j EXCEPT !.on = @ \ {d}]
    IN  /\ Running(c)
        /\ IF MaySend(d, j.goal[d], FALSE)
           THEN /\ task' = [task EXCEPT ![c][d] = Sent(j.goal[d])]
                /\ job' = [job EXCEPT ![c] = left]
           ELSE /\ job' = [job EXCEPT ![c] = Settle(left, {})]
                /\ UNCHANGED task
        /\ UNCHANGED <<world, state, enabled, globalLimit, rest, settled>>

\* The device takes a new limit; a relay that moves starts its rest, unless
\* a release or a command crossed by one moved it.
Obey(d, v, released) ==
    /\ actual' = [actual EXCEPT ![d] = Effect(d, v)]
    /\ rest' = IF d \in Binary /\ actual'[d] # actual[d]
               THEN [rest EXCEPT ![d] = IF released THEN Hold[d] ELSE 0]
               ELSE rest

\* The command arrives at the device.
Land(c, d) ==
    /\ Waiting
    /\ task[c][d].st = "sent"
    /\ Obey(d, task[c][d].val, job[c].force \/ task[c][d].crossed)
    /\ task' = [e \in Caller |->
                  IF e = c THEN [task[c] EXCEPT ![d].st = "landed"]
                  ELSE IF task[e][d].st # "none" /\ job[c].force
                          /\ d \in Binary /\ actual'[d] # actual[d]
                  THEN [task[e] EXCEPT ![d].crossed = TRUE] ELSE task[e]]
    /\ UNCHANGED <<managed, conn, guard, state, enabled, globalLimit, job,
                   settled>>

\* The device is unreachable, or rejects the command.
Fail(c, d) ==
    /\ "refuse" \in Fault /\ ~settled /\ Waiting
    /\ task[c][d].st = "sent"
    /\ task' = [task EXCEPT ![c][d].st = "failed"]
    /\ UNCHANGED <<world, state, enabled, globalLimit, job, rest, settled>>

\* The plugin call returns.  Only success is recorded, with the time at which
\* the command was started; a failure is logged and nothing else.
Record(d, tk) ==
    /\ belief' = [belief EXCEPT ![d] = tk.val]
    /\ age' = [age EXCEPT ![d] = MinOf(tk.age, Hold[d])]
    /\ pending' = [pending EXCEPT ![d] = IF d \in Binary THEN @ ELSE None]
    /\ startup' = IF d \in Binary /\ tk.val = Full
                  THEN [startup EXCEPT ![d] = IF tk.age >= StartupDelay THEN 0
                                              ELSE StartupDelay - tk.age]
                  ELSE startup

Reply(c, d, ok) ==
    LET tk == task[c][d] IN
    /\ NoneRunning
    /\ IF ok THEN tk.st = "landed"
       ELSE \/ tk.st = "failed"
            \/ tk.st = "landed" /\ "loseReply" \in Fault /\ ~settled
    /\ task' = [task EXCEPT ![c][d] = NoTask]
    /\ job' = [job EXCEPT ![c] = Settle(@, InFlight(c) \ {d})]
    /\ IF ok /\ ~tk.orphan THEN Record(d, tk)
       ELSE UNCHANGED <<belief, age, pending, startup>>
    /\ guard' = IF ok /\ ~tk.old THEN [guard EXCEPT ![d] = PluginHold[d]]
                ELSE guard
    /\ UNCHANGED <<place, known, enabled, globalLimit, rest, settled>>

-----------------------------------------------------------------------------
\* Time passes; a plugin call cannot outlive its timeout.
Tick ==
    /\ Waiting
    /\ \A c \in Caller : \A d \in InFlight(c) : task[c][d].age < MaxLatency
    /\ task' = [c \in Caller |-> [d \in Device |->
                  IF task[c][d].st = "none" THEN task[c][d]
                  ELSE [task[c][d] EXCEPT !.age = @ + 1]]]
    /\ age' = [d \in Device |-> MinOf(age[d] + 1, Hold[d])]
    /\ rest' = [d \in Device |-> MinOf(rest[d] + 1, Hold[d])]
    /\ startup' = [d \in Device |-> IF startup[d] > 0 THEN startup[d] - 1 ELSE 0]
    /\ guard' = [d \in Device |-> IF guard[d] > 0 THEN guard[d] - 1 ELSE 0]
    /\ UNCHANGED <<place, known, belief, pending, enabled, globalLimit, job,
                   settled>>

\* ConnectionManager: a device comes online, or fails three polls in a row.
Connect(d) ==
    /\ d \in managed \ conn /\ ~settled /\ NoneRunning
    /\ conn' = conn \cup {d}
    /\ UNCHANGED <<managed, actual, guard, state, enabled, globalLimit, job,
                   task, rest, settled>>

Disconnect(d) ==
    /\ "disconnect" \in Fault /\ d \in conn /\ ~settled /\ NoneRunning
    /\ conn' = conn \ {d}
    /\ UNCHANGED <<managed, actual, guard, state, enabled, globalLimit, job,
                   task, rest, settled>>

\* DeviceRegistry.stop_device() and start_device(), as an edit of the device
\* in the webapp runs them: the second makes a new plugin and a new
\* ConnectionManager, which starts out CONNECTED.
StopDevice(d) ==
    /\ "unmanage" \in Fault /\ d \in managed /\ ~settled /\ NoneRunning
    /\ managed' = managed \ {d}
    /\ conn' = conn \ {d}
    /\ UNCHANGED <<actual, guard, state, enabled, globalLimit, job, task, rest,
                   settled>>

StartDevice(d) ==
    /\ d \notin managed /\ ~settled /\ NoneRunning
    /\ managed' = managed \cup {d}
    /\ conn' = conn \cup {d}
    /\ guard' = [guard EXCEPT ![d] = 0]
    /\ task' = [c \in Caller |->
                  IF task[c][d].st = "none" THEN task[c]
                  ELSE [task[c] EXCEPT ![d].old = TRUE]]
    /\ UNCHANGED <<actual, state, enabled, globalLimit, job, rest, settled>>

\* What the page asks a device for: on and off, or some percentage.
Asked(d) == IF d \in Binary THEN {0, Full} ELSE {10 * l : l \in Limit \cup {0, 100}}

\* shelly_switch_handler() and the per-device branch of power_clamp_handler():
\* the plugin is driven without telling the distributor, but starts its own dead
\* time as soon as it has an answer.  A write that fails changes nothing.
Bypass(d, v) ==
    /\ "bypass" \in Fault /\ ~settled /\ NoneRunning
    /\ d \in managed
    /\ Obey(d, v, FALSE)
    /\ \/ guard' = [guard EXCEPT ![d] = PluginHold[d]]
       \/ "loseReply" \in Fault /\ UNCHANGED guard
    /\ UNCHANGED <<managed, conn, state, enabled, globalLimit, job, task, settled>>

\* From here on nobody calls and nothing breaks: what remains is what the
\* running tasks and the slack loop do by themselves.
Quiet ==
    /\ ~settled /\ NoneRunning
    /\ settled' = TRUE
    /\ UNCHANGED <<world, state, enabled, globalLimit, job, task, rest>>

CallStep(c) ==
    \/ StartGather(c)
    \/ StartRelay(c)
    \/ \E d \in Device : Land(c, d) \/ Fail(c, d)
                          \/ Reply(c, d, TRUE) \/ Reply(c, d, FALSE)

Next ==
    \/ \E c \in Caller, l \in Limit, en \in BOOLEAN : Distribute(c, l, en)
    \/ SlackTick
    \/ \E c \in Caller : CallStep(c)
    \/ Tick
    \/ \E d \in Device : \/ Connect(d) \/ Disconnect(d)
                         \/ StopDevice(d) \/ StartDevice(d)
                         \/ \E v \in Asked(d) : Bypass(d, v)
    \/ Quiet

Spec == Init /\ [][Next]_vars

\* Plugin calls return (each has a timeout), gathered tasks and loops go on and
\* the slack loop's sleep ends.  Answers arrive and time passes between the
\* event loop's rounds: strong, because a gather that is about to start holds
\* both back.
Fairness ==
    /\ \A c \in Caller : SF_vars(CallStep(c))
    /\ WF_vars(SlackTick)
    /\ SF_vars(Tick)

FairSpec == Spec /\ Fairness

-----------------------------------------------------------------------------
\* The relay cooldown (distributor.py 575-591): however calls overlap, and
\* whatever the relay refuses, two moves of a relay by regular commands with no
\* release between them are the cooldown apart, less the latency of one call
\* (the cooldown is counted from when a command was started, not from when the
\* relay moved).  An answer that is lost after the relay obeyed can break it.
RelayRest ==
    [][\A c \in Caller, d \in Binary :
         /\ Land(c, d)
         /\ actual'[d] # actual[d]
         /\ ~job[c].force /\ ~task[c][d].crossed
         => rest[d] >= Hold[d] - MaxLatency]_vars

\* The device has what the last distribution gave it; of a relay, the
\* distributor only believes it (see NoChangeNeeded).
Ordered(d, reading) ==
    LET started == {e \in managed : startup[e] > 0}
        t == TargetsOf(globalLimit, managed, conn, started, reading)
    IN  d \in DOMAIN t =>
          IF d \in Binary THEN belief[d] = IF t[d] > 0 THEN Full ELSE 0
                          ELSE actual[d] = Effect(d, t[d])

\* While limiting is enabled the slack loop repairs everything that went wrong
\* before: lost, refused, suppressed, overtaken and buffered commands.  Once
\* nobody interferes any more, all eligible online devices reach the targets
\* of the last limit and stay there.
Converges ==
    <>[](settled /\ enabled => \A d \in Device, r \in Reading : Ordered(d, r))

\* distributor.py 109: "Disable: force-send 100% to all devices".  When the
\* last call was a release and no call is under way, no device that the
\* release could reach is still throttled.
ReleasedWhenQuiet ==
    /\ ~enabled
    /\ \A c \in Caller : Idle(c)
    /\ known = managed
    => \A d \in Eligible \cap managed \cap conn : actual[d] = Full

\* distributor.py 283: "Send limit to one device, respecting dead-time
\* buffering".  Two unforced writes to a proportional device are at least its
\* dead time apart.  Does not hold: two calls that overlap both look at the time
\* of the last write before either of them stores its own.
DeadTimeRespected ==
    [][\A c \in Caller, d \in Device \ Binary :
         /\ StartGather(c)
         /\ ~job[c].force
         /\ task[c][d] = NoTask /\ task'[c][d] # NoTask
         => rest[d] >= Hold[d]]_vars

\* distributor.py 571: "No change needed".  A relay with no command under way
\* is where it is believed to be, so that a command it is believed to obey
\* already can be left out.  Does not hold: two calls that overlap may be answered
\* in the opposite order of their effects.
NoChangeNeeded ==
    \A d \in Binary \cap known :
      (\A c \in Caller : task[c][d] = NoTask) => actual[d] = belief[d]
=============================================================================
