# Verification of pv-inverter-master

TLA+ models of the PV inverter proxy (`src/src/pv_inverter_proxy/`), checked
with TLC, and theorems about them proved with TLAPS.  Paths below are relative
to `src/src/pv_inverter_proxy/` unless they start with `src/`.

1. [The system](#1-the-system)
2. [Inventory](#2-inventory)
3. [Plan](#3-plan)
4. [The modules](#4-the-modules)
5. [The runs](#5-the-runs)
6. [Bounds and fairness](#6-bounds-and-fairness)
7. [The proofs](#7-the-proofs)
8. [Where code and documentation disagree](#8-where-code-and-documentation-disagree)
9. [What is not modelled](#9-what-is-not-modelled)

## 1. The system

The proxy polls several PV inverters and relays, adds up what they produce, and
shows the sum to Venus OS as one virtual Fronius inverter behind a Modbus TCP
server.  Venus OS, and the user in a web page, limit the power of that virtual
inverter; the proxy splits the limit among the real devices.  A privileged
helper updates the installation in blue/green fashion.

Everything in the main service is one asyncio process:

```
 Venus OS --Modbus write--> proxy.py --+                     +--> plugins/solaredge.py
                                       |                     |
 browser --HTTP/WebSocket-> webapp.py -+-> ControlState      +--> plugins/opendtu.py
                                       |   (control.py)      |
 boot restore --------> __main__.py ---+-> distributor.py ---+--> plugins/shelly.py
                                       |       ^             +--> plugins/sungrow.py
 slack_refresh_loop() -----------------+       |
                                               | is online?
 device_registry.py: a poll task per device ---+-- connection.py
        |
        +--> aggregation.py --> register_cache.py --> proxy.py --Modbus read--> Venus OS
        +--> dashboard.py --> webapp.py (snapshots) --> mqtt_publisher.py

 webapp.py --trigger file--> updater_root/runner.py --symlink, systemctl--> main service
 boot: recovery.py (before the main service)
```

Coroutines interleave at their awaits only; what may happen between two awaits
of one coroutine is the source of most of what is hard here.

## 2. Inventory

| Component (files) | State it keeps | Operations | Interacts with | What makes it correct |
|---|---|---|---|---|
| Power-limit distributor (`distributor.py`, `plugin.py`) | global limit, enabled; per device: last limit, buffered limit, time of last write, relay state, time of last toggle, start-up deadline | `distribute`, `sync_devices`, `_send_limit`, `_send_binary_command`, `slack_refresh_loop`, `on_poll` | called by the Modbus write, four web handlers, boot and its own loop; reads the registry and connection managers; calls the plugins | the limit is given out exactly; dead times and cooldowns hold although calls overlap; a release reaches everybody; after faults the devices end at their targets |
| Plugins (`plugins/`) | sessions, OpenDTU's own dead time, Shelly's energy offset | `poll`, `write_power_limit`, `switch` | called by poll tasks and distributor | a command means what the distributor thinks it means; counters never decrease |
| Control state (`control.py`, `state_file.py`) | limit, enabled, source, clamp, lock; three files | Model 123 updates, set from webapp, lock, save, load | proxy, web handlers, boot | what was decided survives a restart as documented; the clamp bounds Venus OS; a lock blocks and ends |
| Modbus server (`proxy.py`) | writes in flight, drained event | `async_setValues`, `getValues` | Venus OS, distributor, cache | no write is lost or half applied at shutdown; stale data is not served |
| Power handlers (`webapp.py`) | none of their own | power limit, clamp, lock, per-device clamp and switch | control state, distributor, plugins | the same state as after a Venus OS write |
| Maintenance and shutdown (`updater/maintenance.py`, `__main__.py`) | maintenance mode | enter, drain | proxy, updater | after the drain nothing is in flight; the mode ends |
| Connection manager (`connection.py`) | state, failures, back-off | success, failure | poll task, distributor | three failures in a row and no fewer; back-off is bounded; night mode ends |
| Device registry (`device_registry.py`) | managed devices, poll tasks | start, stop, enable, disable | web handlers, poll tasks, distributor | one poll task per device; registry and shared context agree |
| Aggregation and cache (`aggregation.py`, `register_cache.py`) | shared registers, time of last update | `recalculate`, `update`, `is_stale` | poll tasks, proxy | the sum is of live devices; values fit their registers |
| Dashboard (`dashboard.py`, `timeseries.py`) | last snapshot, history | collect | registry, webapp | bounded history |
| MQTT publisher (`mqtt_publisher.py`, `mqtt_payloads.py`) | queue, pending, last published | publish loop | broadcasts of webapp | newest data is published, reconnects lose nothing that matters |
| Venus OS reader (`venus_reader.py`) | last grid values | subscribe loop | webapp | stale values are marked |
| Discovery (`scanner.py`, `mdns_discovery.py`, `shelly_discovery.py`) | none | scan | webapp | - |
| Configuration (`config.py`) | YAML file | load, save | all | what is saved is what runs |
| Update start (`webapp.py`, `updater/security.py`, `trigger.py`, `status.py`) | rate limiter, trigger file | start, rollback | updater | at most one update at a time; a refused start changes nothing |
| Update check and progress (`updater/scheduler.py`, `github_client.py`, `version.py`, `progress.py`) | last check, last sequence sent | check, poll, broadcast | webapp | every phase is shown once; checks happen |
| Privileged updater (`updater_root/`) | status file, nonce store, PENDING marker, symlink | `run`, `_rollback`, health check | systemd, main service | from every crash point a bootable release is reached; one request is worked on once |
| Recovery and releases (`recovery.py`, `releases.py`) | marker, symlink, release directories | recover, retain | updater, boot | never deletes the running or the previous release |

The behaviours that are hard to test:

- *Overlapping calls of `distribute()`.*  There is no lock: the Modbus server,
  the web handlers and the slack loop may be inside at once, each at a plugin
  call that takes up to seconds.
- *State checked before an await and written after it*: dead times, cooldowns,
  relay states.
- *Commands that fail, or succeed without an answer, or are suppressed by the
  plugin and reported as successful.*
- *Three files with three lifetimes* (300 s, 450 s, unlimited), written one after
  the other by eight handlers and read in a fixed order at boot.
- *A drain on an event* that is waited for while writes go on arriving.
- *Devices removed and added while commands to them are under way.*
- *An updater that restarts the process that started it.*

`PROJECT.json` lists them one by one, at their lines.

## 3. Plan

Most important first.  The power path decides what physical devices do, so it
comes before the updater, and the updater before what is only displayed.

| # | Module | What it models | State |
|---|---|---|---|
| 1 | `Waterfall`, `Distribution` | the arithmetic from limit to targets; one call of it over any fleet | done; proved |
| 2 | `Distributor` | overlapping calls, dead times, faults, slack loop; composed with `Waterfall` by `MCDistributor` | done; types and relay cooldown proved |
| 3 | `PowerControl` | who sets the limit, what survives a restart, maintenance and drain | done; types, drain, durability and clamp proved |
| 4 | `BlueGreen` | abstract: the installation runs a release that has proven itself, or one on trial with a way back | done |
| 5 | `UpdateRunner` | `updater_root/runner.py`, `recovery.py`, the healthy watcher of `__main__.py`, crashes between steps; implements `BlueGreen` | done; safety and refinement proved |
| 6 | `UpdateRequest` | start guards, trigger file, nonce store, status file, progress; maintenance mode seen from here | done; safety proved |
| 7 | `DeviceRegistry` | poll tasks, start and stop across awaits, the pages' handlers, scans, imports | done; safety proved |
| 8 | `HealthCheck`, `UpdateCheck`, `MqttPublisher`, `VenusReader`, `ConnectionManager`, `Aggregation`, put side by side by `Services` | small machines of their own | done; safety of five of the six proved (`VenusReader` has a liveness property only) |

Left for later, in this order:

- a durable register (one limit, atomically replaced, expiring) as abstract
  specification of the three files of `PowerControl`;
- the composition of `UpdateRequest` and `UpdateRunner`, which meet today in the
  actions of one that stand for the other's steps;
- the convergence measurement of `on_poll()` and Shelly's energy counter.

## 4. The modules

### Waterfall

The pure part of `distribute()`.  A fleet is a function from ids to records with
what the code reads at that moment: rating, flags, mode, response time, reading.
`Budget` is the limit in watts less what cannot be throttled, `Pour` is
`_waterfall()`, `Reclaim` is `_reclaim_slack_into_targets()`, `Targets` the whole
of it.  The code computes in floats and rounds each percentage to one decimal;
the module uses exact integers (1/100 W, mW, tenths of a percent) and Python's
rounding.

Both functions walk over sorted devices and give each what is left, up to a cap:
`Allot` is that loop, for an order, the caps and an amount.  `_waterfall()` runs it
over the ratings (`Ratings`), slowest first; the reallocation over what the
throttled devices still have room for (`Headroom`, which is nothing at 50 W or
less), fastest first.

`Distribution` is one call of `distribute(limit, True)`: any fleet and limit is an
initial state, and `Distribute` computes the targets.  Its four properties compare
them with a definition that has no loop, with the budget, with the targets of a
higher limit, and with the order of relays and inverters.  `MCWaterfall` gives it
every fleet of small sets of ratings, flags, readings and response times.

### Distributor

One state machine for `PowerLimitDistributor` and the devices below it.  A caller
is a coroutine that may be inside `distribute()`.

| Code | Action |
|---|---|
| `distribute()` up to its first await (`sync_devices`, storing the limit, the targets) | `Distribute`, `SlackTick` for the slack loop |
| first steps of the tasks given to `asyncio.gather` | `StartGather` |
| the loops over `binary_off`, `binary_on`, one command at a time | `StartRelay` |
| the command reaches the device / does not | `Land` / `Fail` |
| the plugin call returns, with success or not | `Reply` |
| `ConnectionManager` changes its mind | `Connect`, `Disconnect` |
| a device is edited in the page | `StopDevice`, `StartDevice` |
| a device is driven past the distributor (switch and per-device clamp of the page) | `Bypass` |

The guards of `StartGather` and `StartRelay` (`NoneRunning`, `Running`) are the
event loop: a coroutine between two commands runs on before anything else, and
gathered tasks start in the next round.  `belief` and `age` stand for the limit
and write time of a proportional device and for `relay_on` and `last_toggle_ts`
of a relay; `actual` is what the device really has.  `rest`, `settled` and the
field `crossed` are history.  The targets come from a constant operator:
`MCDistributor` gives it `Waterfall!Targets`, the proofs only that targets are
percentages of eligible online devices (`TargetsAssumption`).

The faults are named, and each run lists those it allows: `disconnect`,
`unmanage` (the device is edited), `refuse`, `loseReply` (the device obeys, the
answer is lost), `bypass`.  A write past the distributor goes through the same
plugin and starts its dead time (`guard`), so that what the distributor sends next
may be suppressed; the distributor learns nothing of it.

### PowerControl

`ControlState`, the writes of Venus OS, the handlers of the page, the three
files, crashes, boots, maintenance and drain.  Handlers change `ControlState`,
write the files and enter `distribute()` without awaiting, so each is one action;
`dist` is the part of the distributor they set.  The boot is one action as well:
although the Modbus server is started before the limit is restored, nothing in
between yields to the event loop.

| Code | Action |
|---|---|
| `async_setValues()` for Model 123 | `VenusWritesLimit`, `VenusWritesEna`, `VenusWritesOther`, `WriteReturns` |
| `power_limit_handler()` | `WebSet`, `WebEnable`, `WebDisable` |
| `power_clamp_handler()` for the virtual device | `VirtualClamp` |
| per-device clamps, which save the control state too | `DeviceClamp` |
| `venus_lock_handler()` | `Lock`, `Unlock` |
| update start, SIGTERM, `drain_inflight_modbus()` | `EnterMaintenance`, `StartDrain`, `FinishDrain`, `DrainTimesOut` |
| the process ends, or is killed in the middle of saving | `Stop`, `TornVenusWrite`, `TornClamp` |
| `ControlState.__init__()` and the restore | `Boot` |

Files carry ages instead of time stamps.  Writes that are refused (a value out of
range, a busy answer, a request that fails validation) change nothing and have no
action.  `wish` is history: the last decision about the limit, with the limits a
crash in the middle of saving may leave, and whether the service was ever down
until that decision was too old.  `free` is history too: it marks limits the
clamp was never applied to.

### BlueGreen and UpdateRunner

`BlueGreen` says what the updater promises and nothing of how: a way back is
recorded while a proven release is linked (`Arm`), another release is linked only
if it is proven or a way back is (`Switch`), a release proves itself (`Prove`), the
trial ends in its favour (`Commit`) or goes back (`Revert`).  A release has proven
itself once
a service running it has reached an inverter; that is what the code takes for
success, too (`_write_healthy_flag_once()`).  An update that is started from a
release that is not proven has no proven release to go back to: from there on
the installation is no longer watched (`Overrule`, `Unwatched`).  `UpdateRunner` implements it with
`back <- marker.previous` and `watched <- ~blind`.

| Code | Action |
|---|---|
| the updater starts, raises `/run/.../updater-active` | `Start` |
| `run()`, phase by phase | `ReadTrigger`, `Preflight`, `Install`, `WriteMarker`, `Flip`, `Restart`, `RestartReturns`, `Health`, `Finish` |
| `_rollback()` | `FlipBack`, `RestartBack`, `RestartBackReturns`, `HealthBack` |
| the `except` clauses around both | `Raises` |
| `_drop_updater_active_flag()` | `Exit` |
| `recover_if_needed()`, then the service | `Recover`, `Boot` |
| `_write_healthy_flag_once()` at the first successful poll | `FirstPoll` |
| what nobody asked for | `Crash`, `Kill`, `Reboot` |

A step of the updater is a status write and the call that follows it: nothing
else reads the phase in between.  `succeeded` is the one comparison of times the
code makes, whether `last-boot-success` is newer than the marker.  `blind` and
`proven` are history.  Each release has a quality: it works, it reaches its
inverters but fails the health check, or it never reaches one.

### UpdateRequest

| Code | Action |
|---|---|
| `update_start_handler()` up to `await request.json()` and after it, up to the write in a thread | `StartRequest`, `StartBody` |
| `update_rollback_handler()` | `Rollback` |
| the 409 while an update runs | `Refused`; other refusals change nothing |
| `write_trigger()` and the answer | `WriteTrigger` |
| `RateLimiter`: the window of a client ends | `WindowPasses` |
| path unit and updater: reading the trigger, the nonce store, the phases, the restart, the end | `UpdaterStep` (`Wake`, `ReadTrigger`, `Begin`, `Install`, `Restart`, `Finish`, `Exit`) |
| `ProgressBroadcaster._poll_once()`, `_emit_new_entries()` | `Poll`, `Emit` |
| faults | `Kill`, `Crash`, `Reboot`; `"disk"` is a choice of the steps that write |

What is between the phases is `UpdateRunner`'s.  `begun` counts how often each
request was worked on, `cut` remembers that an updater was killed or rebooted
away; both are history.  That the path unit notices a change while
the updater runs is systemd's promise and external.

### DeviceRegistry

Handlers are coroutines: each has a place (`h[i].at`) for every await it may be
suspended at, and one action runs it from there to the next await.

| Code | Action |
|---|---|
| `inverters_add_handler()` | `Add` |
| `inverters_update_handler()`, with the refusal after the fields were set | `Edit` |
| `inverters_delete_handler()` | `Delete` |
| `config_save_handler()`, also refused for its Venus settings after the list was replaced; `config_import_handler()` | `Save`, `Import` |
| `scanner_discover_handler()`, `_run_scan()` | `Discover` |
| `start_device()`, `stop_device()`, `stop_all()`, `_reconfigure_active()`, between their awaits | `HandlerStep` |
| a cancelled `_device_poll_loop()` ends | `TaskEnds` |

A task and the plugin it polls have one number.  `entries` is the list of the
configuration, `frozen` the one the registry was constructed with, which an
import leaves behind.  Handlers that are idle are alike, so a request is given to
the lowest idle one.

### The small machines

| Module | Code | Actions |
|---|---|---|
| `HealthCheck` | `wait_for_healthy()` against `_derive_health_payload()` | `Head` (clock, timeouts, sleep), `Probe` (the answer and what is made of it), `ServiceChanges` |
| `UpdateCheck` | one iteration of the scheduler, the GitHub client, `_on_update_available()` | `Boot`, `Ask`, `Answered`, `Failed`, `Ends`, `Publish`, `PageOpensOrCloses` |
| `MqttPublisher` | `mqtt_publish_loop()` and the broadcasts that feed it | `Broadcast` (a device, or the total when no page makes it wait), `HoldTotal` and `QueueTotal` (a total whose broadcast a slow page holds up), `Connect`, `Drain`, `BeginPublish`, `Send`, `Notice`, `Reload`, `ClientsChange`, `Breaks`, `BrokerRestarts`, `NewReading` |
| `VenusReader` | `venus_mqtt_loop()` | `Discover`, `DiscoverFails` (the portal), `Connect`, `ConnectFails`, `Receive`, `ReceiveRaises`, `Timeout`, `Closed`, `GivesUp`; what the network does |
| `ConnectionManager` | `_device_poll_loop()` with `connection.py` | `PollSucceeds`, `PollFails`, `PollRaises`, `PollPaused`, `Restart`, `Tick` |
| `Aggregation` | `recalculate()`, `RegisterCache`, `getValues()` | `PollSucceeds`, `PollRaises`, `Start`, `Stop`, `Flag`, `Tick`; `Served` is what Venus OS may read |

They share no variable; `Services` puts them side by side and runs one of them in
each behaviour, chosen in the initial state; `MCServices` gives it constants.

- `HealthCheck` reads the clock at the head of the loop and judges by it after
  the sleep, as the code does.  `served` counts the answers that deserve to be
  counted, from the service and not from the checker's parsing of them.  The
  version of an answer is judged only if one is expected (`AsksVersion`).  The
  updater expects none (`updater_root/runner.py:400`, `:494`), and so does the run: it
  counts the good answers of any version, and that no process of the old one is
  left to answer is owed to `systemctl restart` alone
  (`updater_root/healthcheck.py:239`).  The theorem covers both; TLC finds no error
  with a version expected either.
- `UpdateCheck`: an answer without an ETag is kept with the ETag of an earlier one
  (`updater/github_client.py:295`, `:308`).  `Untagged` says whether GitHub may send
  such an answer; the run, and the premise of `TagMatchesCache` and `OfferFollows`,
  is that it does not.
- In `MqttPublisher` a message is a reading of one topic key; `retained` is what
  the broker keeps.  Discovery messages are sent at every connect and carry no
  state.  A total is read before the awaits that send it to the pages and queued
  after them, so totals of several polls may be queued out of order.  A dead link
  is noticed by a publish and by nothing else.  Time stamps are left out: a total
  always differs from the last by its own, so only a device's message can be
  skipped, and need not be.  An exception that is no `MqttError` would end the loop
  for good; the module supposes that the client raises no other.
- `VenusReader` may be without a portal at first and has flags that the task before it
  left, as after a change of the settings.  A packet that cannot be read ends
  the connection before its settings are copied, and a reset clears the flag where
  an orderly close does not.
- `ConnectionManager`: a poll takes no time; a poll that succeeds but whose
  processing raises counts as a success and then as a failure.
- In `Aggregation` the power is a number written to a register modulo `Width`,
  which is how the code encodes it; `behind` and `unheard` are history.  A poll that
  is stored and then raises changes what will be summed and is no success.

## 5. The runs

Passing:

| Run | Question | Properties |
|---|---|---|
| `waterfall` | Does the loop compute what it should, for every fleet and limit? | `WaterfallMeetsReference`, `ReclaimKeepsCeiling`, `MoreLimitNeverLess`, `RelaysThrottledLast` |
| `distributor_relay` | Two callers and the slack loop drive a relay that may refuse and disconnect: is it only told on and off, are its regular moves a cooldown apart, does it end where the last limit puts it? | `TypeOK`, `RelayRest`, `Converges` |
| `distributor_opendtu` | Does an OpenDTU inverter, which suppresses writes and reports success, reach its target once things are quiet, after faults of every kind? | `Converges` |
| `control_restart` | Does a limit survive crashes, torn writes and restarts, and does a finished drain mean that nothing is in flight? | `TypeOK`, `LimitSurvivesRestart`, `DrainedMeansQuiet` |
| `control_clamp` | Does the clamp bound Venus OS whatever the order of events? | `ClampBoundsVenus` |
| `update_faults` | Updates against kills, crashes, reboots and steps that raise: is there always a way back, does a boot nobody watches start a proven release, is what the status file says true, and does each update end? | `TypeOK`, `WayBack`, `NeededAreKept`, `OutcomeIsTrue`, `BootIsSafe`, `UpdateEnds`, `BlueGreenPromise` |
| `update_request` | Two clients ask for updates while disks, updater, service and machine fail: is a request worked on once, is Venus OS turned away from before it can be read, does a refusal end, does a page learn the outcome? | `TypeOK`, `AtMostOnce`, `BusyBeforeUpdate`, `RefusalEnds`, `OutcomeTold` |
| `devices_requests` | Two requests or scans at work at a time on two devices: one poll task per device, no leaked connection, and polling that resumes? | `TypeOK`, `PollsOpenPlugin`, `ConfigIsPolled`, `CleanWhenSerial`, `PollingResumes`, `RequestsEnd` |
| `services` | Do the six small machines do what each is for? | `TypeOK`, `VerdictIsRight`, `TagMatchesCache`, `SkipIsRight`, `StateFollowsDevice`, `WrongTotalEnds`, `EndsInTime`, `OfferFollows`, `BrokerCatchesUp`, `PageFollows` |

What they show, and the limits of it:

- `MoreLimitNeverLess` holds up to 50 W, and no better.  An absorber whose headroom
  falls to 50 W or less is passed over by the reallocation
  (`distributor.py:502`): of a 2000 W inverter that the waterfall leaves at 97 %,
  slack takes the target to 100 %; at a limit that leaves it at 98 %, it stays
  there.  That more limit never means less command is true up to this floor.
- `RelaysThrottledLast` is about the devices whose plugin declares a proportional
  mode.  One without declared capabilities scores 0 and comes before the relays.
- `ReclaimKeepsCeiling` is about proportional devices.  A relay that is given a
  part of its rating is switched fully on by `distribute()` (`distributor.py:186`),
  so that the aggregate may exceed the ceiling by up to its rating.
- `RelayRest`: the cooldown holds between *regular* commands, less the latency of
  one call, because `last_toggle_ts` is the time at which a command was started.
  A release ignores the cooldown by design, and a command that was under way
  when a release moved the relay is not counted.  A lost answer leaves
  `last_toggle_ts` old, and an edited device starts without one: with these two
  faults the cooldown is not kept, and run and theorem exclude them.
- `Converges`: everything that failed, was buffered, suppressed, overtaken or
  lost is repaired by the slack loop, *while limiting is enabled*.  For a relay
  the conclusion is about what the distributor believes; that belief may be
  wrong for good (`NoChangeNeeded`, section 8).
- `LimitSurvivesRestart`: for limits of Venus OS and of the virtual clamp, and
  services that are never down for longer than the lifetime of `state.json`.
  The restore stamps the limit with the time of the boot, so a chain of restarts
  keeps it alive beyond 450 s; `wish.lapsed` accounts for that.
- `ClampBoundsVenus`: for clamps whose bounds are in order and whose maximum is at
  least 1 %, and for crashes between handlers.  A crash inside the clamp handler
  breaks it; so do bounds in the wrong order, which `set_device_clamp()` sorts and
  `power_clamp_handler()` stores as they came.
- `WayBack`, `BootIsSafe`, `OutcomeIsTrue`: for updates started from a release
  that has proven itself, and without the fault `"late"` (section 8).
  `BootIsSafe` fails, as it must, if recovery itself cannot replace the symlink
  (fault `"stuck"`): it lets the service start all the same.  `UpdateEnds` is
  about an updater that is not blocked for good; a killed one is at its end.
- `AtMostOnce` holds although the store keeps the newest nonces only: what the path
  unit may report again is the last trigger, and that is the newest entry.  It
  fails if the wall clock is set back (fault `"clock"`, not in the run), because the
  store is sorted by time and the new entry may be the one that is cut off.
- `RefusalEnds`: a 409 is temporary, unless an updater was killed, which leaves its
  last phase in the status file.
- `OutcomeTold` speaks of a service that stays up from some time on, and exempts
  an update that fails before the restart after the same process has told of
  another one: `_last_sequence` is never reset, so its lower sequence numbers are
  taken for old.
- `ConfigIsPolled` and `CleanWhenSerial` exempt what is known to break them:
  `past = "drifted"` says that the configuration was changed behind the
  registry, by an edit that was refused after its fields had been set, by saving
  the list whole or by an import; `past = "aligned"` that two requests were at
  work on one device at the same time.
- `VerdictIsRight` says that a release is kept exactly if the last answers came from
  a service that works; whether it is the new release is asked only where a version
  is expected, and the updater expects none.
- `TagMatchesCache` and `OfferFollows` suppose that GitHub sends an ETag with every
  release (`~Untagged`): without one the new release is stored beside the old
  ETag, and when it is withdrawn "not modified" goes on speaking for it.  `OfferFollows`
  also supposes that no page is open in the end (an open one stops all checks,
  `updater/scheduler.py:215`).
- `PageFollows`: a closed connection leaves `venus_mqtt_connected` set until the
  next connect fails; the age of the last VE.Bus message is looked at only when
  a read times out, so its third conjunct supposes that the traffic has gaps.
- `BrokerCatchesUp` says that the broker ends up with the latest readings; it says
  nothing of which messages a full queue drops (section 8).
- `WrongTotalEnds` is about devices that are gone or lost their flag, and about
  silence of all.  One device that stopped answering while others go on is
  counted with its last reading for ever (`aggregation.py:179`).

Failing on purpose, one documented claim each: see section 8.

Every property of a passing run is backed by a mutant, a plausible bug in one
definition (an operator above it named after the bug) that the run detects.

## 6. Bounds and fairness

`MCWaterfall`: three devices are enough for each role in the waterfall and the
slack reallocation (two that may absorb, one relay), with ratings that make the
budget end inside, at the edge of and beyond a device, and twelve limits from 0 to
100 that include percentages which do not divide evenly, several that end inside
the same device, and two on either side of the 50 W floor (55 296 calls).

`MCDistributor`: one tick is a unit to which the shortest delay is scaled; dead
time, cooldown and latency matter only by their order (a call is shorter than a
cooldown).  The relay run has three callers, because two are needed to overlap
and the slack loop is always there; each run has one device, since devices
interact through targets only, and these are the subject of `Waterfall`.  `Limit`
has one value that switches the device off and one that leaves it on.  A caller
has one call at a time; more calls of one client are more callers.

`MCPowerControl`: one tick is 150 s, which makes the lifetimes of `last_limit.json`
and `state.json` 2 and 3 ticks; a timed lock lasts 6, or 4 in the two large runs,
which keeps the order of the three.  One write may be in flight: it leaves while
the drain waits, and the next one tries to enter before the waiter runs (the
proof covers any number).  Clamps are those that release, cap, and set a floor.

`MCUpdateRunner`: two updates (77 178 states), because what an update leaves
behind (a marker, a failed release, an unproven one) matters to the next one;
with three it passed too (1 336 307 states).  `Keep` is 1, the smallest that
`retention` accepts, at which the most is deleted.

`MCUpdateRequest`: two clients, two requests and one nonce in the store, so that
the store forgets the first request while its trigger may still be reported
(395 136 states).  Two nonces pass as well.

`MCDeviceRegistry`: two devices and two handlers, so that requests overlap on one
device and on two; three poll tasks of a device, the most the overlaps reach;
five requests (`MaxRequests`), which is why deadlock is not checked there
(165 850 states).  The theorems are about any number of requests.

`MCServices`: three answers required, a tolerance of half the hard timeout, two
releases, a queue of two for two keys (so that it overflows), a night threshold
of twice the longest sleep, two devices, one of whose broadcasts of the total may
be held up (`Pollers`), and one fault of the publisher (`MaxFaults`): what it
remembers and what is pending belong to one connection, so a second fault
meets the same states again (148 451 states).  With two it passes as well, in twice
the time.

Deadlock is checked in every other state machine (for the distributor `Tick` is
always possible between steps, so only a wedged caller would show).
`MCWaterfall` computes once and stops, and says so in its configuration.

Fairness, and why the code justifies it:

| Module | Assumed | Because |
|---|---|---|
| `Distributor` | SF `CallStep` of each caller, WF `SlackTick`, SF `Tick` | a coroutine that can go on does, and plugin calls have a timeout (`Tick` cannot pass `MaxLatency`); the sleep of the slack loop ends; time passes.  Strong, because a gather about to start holds answers and time back for one round of the event loop |
| `UpdateRunner` | WF `UpdaterStep`, `Recover`, `Boot`; SF `RestartReturns`, `RestartBackReturns` | each call of the updater has a timeout; systemd starts what it was told to; `systemctl restart` returns although the service may end again at once |
| `UpdateRequest` | WF `UpdaterStep`, `Poll`, `Emit` | as above; the broadcaster is a loop with a sleep that catches what its steps raise |
| `DeviceRegistry` | WF of each handler's step and of `TaskEnds` | the event loop runs what can run; `close()`, scans and broadcasts return; a cancelled task ends |
| `HealthCheck` | WF `Step` | sleeps end, requests have a timeout |
| `UpdateCheck` | WF `Boot`, WF `Ask`, SF `Answered`, WF `Answered \/ Failed` | the same, and GitHub answers now and then |
| `MqttPublisher` | WF of the loop's steps, SF of `NoticeFresh`, SF of `Broadcast` for each key | back-off and interval are bounded; once the keep-alive has found a link dead, the publish of a message that is not skipped fails; each device is polled about once a second while one `get()` empties the queue |
| `VenusReader` | WF of discovering, connecting, closing, giving up and the 30 s; SF `Receive` | discovery, connects and the kernel's retransmissions have a timeout; a broker that can be reached names its portal, and talks |

Nothing is assumed about users, faults, connections or services.  In `Distributor`,
`Quiet` is a step that need not happen, and `Converges` speaks of what follows it.

## 7. The proofs

Seven modules hold the theorems and an eighth, `Sums`, lemmas about finite sums
that two of them need; every leaf is checked by SMT, Zenon or, for the
temporal steps, the PTL prover.

| Theorem | Says | Assuming |
|---|---|---|
| `Distributor_proofs!TypeCorrect` | `Spec => []TypeOK`: for any fleet, callers, dead times, limits and faults | |
| `Distributor_proofs!RelayRestHolds` | `Spec => RelayRest` | `RelayTiming`; no edits, lost answers or bypasses |
| `Distributor_proofs!BeliefIsTrueAlone` | `Spec /\ []Alone => []NoChangeNeeded` | no relay plugin with a dead time of its own; no edits, lost answers or bypasses |
| `Distributor_proofs!DeadTimeIsRespectedAlone` | `Spec /\ []Alone => DeadTimeRespected` | `RelaysRanked`; no edits, lost answers or refusals |
| `Distributor_proofs!ReleaseReachesAllAlone` | `Spec /\ []Alone => []ReleasedWhenQuiet` | no faults; no relay plugin with a dead time of its own; devices that reach full power when told to |
| `PowerControl_proofs!TypeCorrect` | `Spec => []TypeOK`: for any limits, clamps, lifetimes and numbers of writes | |
| `PowerControl_proofs!DrainCorrect` | `Spec => []DrainedMeansQuiet` | |
| `PowerControl_proofs!LimitsAreDurable` | `Spec => []LimitSurvivesRestart` | |
| `PowerControl_proofs!ClampHolds` | `Spec => []ClampBoundsVenus` | `OrderedClamps`; no `"tear"` |
| `UpdateRunner_proofs!TypeCorrect` | `Spec => []TypeOK` | no `"late"` |
| `UpdateRunner_proofs!WayBackHolds` | `Spec => []WayBack` | no `"late"` |
| `UpdateRunner_proofs!RetentionIsSafe` | `Spec => []NeededAreKept` | no `"late"` |
| `UpdateRunner_proofs!RecoveryIsSafe` | `Spec => BootIsSafe` | no `"late"`, no `"stuck"` |
| `UpdateRunner_proofs!OutcomeHolds` | `Spec => []OutcomeIsTrue` | no `"late"` |
| `UpdateRunner_proofs!KeepsThePromise` | `Spec => BG!Spec`: the refinement of `BlueGreen` | no `"late"` |
| `UpdateRequest_proofs!AtMostOnceHolds` | `Spec => []AtMostOnce` | no `"clock"` |
| `UpdateRequest_proofs!BusyBeforeUpdateHolds` | `Spec => []BusyBeforeUpdate` | |
| `UpdateRequest_proofs!TypesCorrect` | `Spec => []TypeOK`: for any clients and requests and every fault | |
| `DeviceRegistry_proofs!TypesCorrect` | `Spec => []TypeOK`: for any ids, handlers, tasks and requests | |
| `DeviceRegistry_proofs!PluginsCorrect` | `Spec => []PollsOpenPlugin` | |
| `DeviceRegistry_proofs!ConfigCorrect` | `Spec => []ConfigIsPolled` | |
| `DeviceRegistry_proofs!SerialCorrect` | `Spec => []CleanWhenSerial` | |
| `DeviceRegistry_proofs!PauseCorrect` | `Spec => []PollingResumes` | |
| `Services_proofs!TypesCorrect` | `Spec => []TypeOK` of all six machines | |
| `Services_proofs!VerdictCorrect` | `Spec => []VerdictIsRight` | |
| `Services_proofs!TagCorrect` | `Spec => []TagMatchesCache` | `~Untagged` (premise of the property) |
| `Services_proofs!SkipCorrect` | `Spec => []SkipIsRight` | |
| `Services_proofs!StateFollows` | `Spec => []StateFollowsDevice` | |
| `Services_proofs!WrongTotalsEnd` | `Spec => []WrongTotalEnds` | |
| `Waterfall_proofs!ReferenceMet` | `Spec => []WaterfallMeetsReference`: for any fleet, limit and readings | |
| `Waterfall_proofs!CeilingCorrect` | `Spec => []ReclaimKeepsCeiling` | |
| `Waterfall_proofs!MoreLimitCorrect` | `Spec => []MoreLimitNeverLess` | |
| `Waterfall_proofs!RelaysCorrect` | `Spec => []RelaysThrottledLast` | `CapsAssumption` |
| `Waterfall_proofs!TargetsArePercentages` | the targets of a call meet `TargetsAssumption` | |

The modules' own assumptions are `DistributorAssumption` (kinds of the constants),
`TargetsAssumption` (targets are percentages of eligible online devices; that
`Waterfall!Targets` delivers this is `TargetsArePercentages`), `EffectAssumption` (a device turns percentages
into percentages, a relay knows on and off), `PowerControlAssumption`,
`MissingAssumption`, `UpdateAssumption`, `RequestAssumption`, `RegistryAssumption`,
`ServicesAssumption` (the constants of the small machines), `FleetAssumption`
(fleets are finite, with ratings and delays that are natural numbers) and
`CapsAssumption` (proportional plugins declare neither cooldown nor start-up
delay, as all three in `plugins/` do).  TLC evaluates them in the runs of their
modules.

`TypeOK` of `Distributor` is inductive as it stands, since it says which commands
each kind of device may be sent; the proof has a lemma for each operator that
builds a job, a task or a bookkeeping step, and one step for each action.

`RelayRest` is far from inductive.  Two regular moves in quick succession would
take a call that computed its command before the first and lands it after; the
code has no lock against that.  What rules it out is arithmetic of times and
goals.  `RelayInv` has six parts, for each relay: `Held` (nothing is in flight to
a relay nobody has heard of), `Overtaken` (a call asks for something else than
what is believed, unless the belief is newer than the call), `OneGoal` (regular
calls that overlap ask for the same, for the cooldown separates opposite
ones), `Arrived` and `Outdated` (the relay is where the calls that arrived put
it, and one that is yet to arrive moves nothing if it was anticipated), `Resting`
(while the relay rests no call that counts asks it to move).  `CallersInv` ties
callers and their calls.  The cooldown must be longer than two calls:
300 s against about 10 s.

Three properties of `Distributor` that TLC refutes (section 8) hold as long as calls
of `distribute()` do not overlap: `Alone` says that at most one of them is under
way.  Nothing in the code sees to it, so it is a hypothesis about the behaviour and
not part of the specification; the theorems say that the overlap is the cause,
and that a lock around `distribute()` would be a repair.  Each has an invariant for
one device, next to `CallersInv`:

- `Faithful`, for `NoChangeNeeded`: a relay is where it is believed to be until the one
  command to it arrives, and then where that command puts it.  A lost answer, an edit
  that forgets the device's state and a switch behind the distributor's back each
  break it without any overlap, and TLC shows that, too.
- `Spaced`, for `DeadTimeRespected`: the last call of the plugin is at least as long ago
  as the write that was recorded last, or the one under way.  A write that fails or
  loses its answer starts no dead time, and an edited device begins without one.
  `RelaysRanked` says that of the relays still to be switched one is first: `Rank` is
  the order of the lists of `distribute()`, and with no first one `Least` might name
  a device that is no relay.
- `Freed`, for `ReleasedWhenQuiet`: while limiting is off, a device below full power has
  the release still before it, and nothing else is on its way to it.

These proofs and the one of `RelayRest` share a lemma for each action
(`DistributeDoes`, `StartGatherDoes`, `LandDoes`, `ReplyDoes` ...) that says what it does
to the callers and to one device, whatever the invariant.

`DrainedMeansQuiet` is not inductive: the drain is done when its waiter *runs*,
and that nothing entered since the event was set follows from the mode.
`DrainInv` adds that a drain that has begun means maintenance, and that a woken
waiter means nothing in flight.

`LimitSurvivesRestart` says nothing of the files.  `DurableInv` adds what a boot
relies on.  As long as a promise stands (the last decision set a limit and has
not lapsed), `state.json` holds one of the promised limits and is no older than
the promise; and while the service is up, control state and distributor agree on
one of them.  So a boot before the promise gets too old finds a file that is
fresh enough, and one after it makes the promise lapse.  The proof shows that
each decision that promises a limit writes the file in the same step, that a torn
write leaves the old `state.json` in place, that a boot dates file and limit anew,
and that a decision that saves nothing ends the promise.

`ClampBoundsVenus` needs `ClampInv`: the clamp in force is the one in the files,
and whatever each of the three files says on behalf of Venus OS lies inside it,
since a boot may pick any of them.

`UpdateRunner`: one invariant carries all six theorems.  `IInv` is `TypeOK`,
`Numbered` (releases have the numbers of the updates that made them), `Flags`
(which steps of the updater go with which flag), `Linked` (what the symlink names
at each step), `Kept` (`NeededAreKept`, with the steps between marker and
symlink) and `Guarded` (unless the installation is blind: at each step either
the linked release is proven or the marker names the one before, which is; and
`succeeded` is about the linked one).  `Told` adds what the status file may say at
each step.  The refinement takes each action to `Arm`, `Switch`, `Prove`, `Commit`,
`Revert`, `Overrule` or a stutter, and uses `IInv` for the guards of `BlueGreen`.

`UpdateRequest`: `AtMostOnce` needs that requests on their way to the trigger file
have nonces of their own which nobody has taken (`Pending`), that the nonce of the
file is in the store if it was taken (`Written`), and that a nonce is marked before
the work on it begins (`Once`).  `BusyBeforeUpdate` needs that a process has entered
maintenance mode before it hands out its first nonce (`HandedOut`).

The types of `UpdateRequest` are not inductive as they stand: that an update's
history has four entries at most, and that the broadcaster never counts past them,
follows from where the updater is (`HistTypes`: it has three when the service was
restarted, and one exactly if its only phase is the first).

`DeviceRegistry`: the five properties speak of the moment when all handlers are
idle; the invariants say what holds on the way there.

- `Plugins`: what is managed is alive and not cancelled, what is alive has its
  plugin open, and every task that was cancelled, or has ended with its plugin
  still open, has a handler that waits for it and is going to close it.
- `Config`: unless the configuration was changed behind the registry, what is
  managed is enabled, and a device that is enabled and not managed has a handler on
  its way to start it; no handler is in `stop_all()`, and the registry's list is
  the configuration's.
- `Serial`: as long as no two requests were at one device, the handlers are at
  different devices (`Apart`), a device without a handler is settled, and one with
  a handler has exactly the tasks of the place where that handler stands
  (`Halted`).
- `Resumes`: while polling is paused and a device is managed, a handler is still to
  write the flag back.

They rest on `Types`, which adds to `TypeOK` the shape of a handler: at which places
it holds a device, and at which a task.

The small machines, in `Services_proofs`: `HealthCheck` counts in `ok` what the service
deserved (`Counted`); `TagMatchesCache` is inductive; `SkipIsRight` needs that a message
being sent is the one remembered and that a connecting publisher remembers nothing
(`Forgotten`); `WrongTotalEnds` that the total is behind for no longer than the cache is
old (`Young`).  `StateFollowsDevice` bounds how long the state of a device may lag
behind what its polls return, which depends on how long the poll loop still
sleeps: `DeviceIInv` bounds the sum of the two, separately for a device that
answers (`Answering`), one that is still shown as connected (`Connected`) and one
that is not (`Failing`).

`Waterfall`: the invariant only says that the targets are those of the fleet and
the limit; the argument is about the operators.

- A sum or a fold over a finite set is a recursion over chosen elements.
  Induction on the size of a set is available for a *set* of numbers or of
  subsets in the place of a predicate (`SetInduction`, `SubsetInduction`), and with
  it `Sums` shows that the recursion exists, does not depend on what is chosen,
  and adds up: `SumRemove`, `SumUnion`, `SumPlus`, `SumLess`.
- `AllotIs` is the closed form of the loop: each device takes what the devices
  before it leave over, up to its cap.  `WaterfallMeetsReference` and
  `RelaysThrottledLast` follow, the latter because a relay scores below every
  proportional device (`ScoreBounds`) and a device gets nothing before all slower
  ones are full (`Shares`).
- `ReclaimKeepsCeiling`: the shares add up to the amount at most
  (`SharesWithinAmount`), and rounding a target adds half a tenth of a percent of a
  rating.  Only the last device that gets anything is rounded at all, the
  others being full or empty; so the two roundings, of the waterfall and of the
  reallocation, each add half of one rating (`PourWithinBudget`,
  `AbsorbersWithinSlack`), and together the one rating that the property allows.
- `MoreLimitNeverLess`: a larger budget raises each target (`PourGrows`), so fewer
  devices absorb (`AbsorbersShrink`), each with less headroom, while the others leave
  more unused (`SlackGrows`); a device that still absorbs gets no less than before
  (`AbsorberRises`), and one that is passed over was 50 W from its rating.

Only model-checked: liveness, which is out of the prover's reach (`Converges`,
`UpdateEnds`, `RefusalEnds`, `OutcomeTold`, `RequestsEnd`, `EndsInTime`, `OfferFollows`,
`BrokerCatchesUp`, `PageFollows`).  Every safety property of the passing runs is a
theorem.  Of the properties in section 8 that no passing run checks, the three
above are theorems under `Alone`.

## 8. Where code and documentation disagree

Each of these is a run that ends in a counterexample; `PROJECT.json` quotes the
claim.

| Run | What the counterexample shows |
|---|---|
| `distributor_release` | a release is overtaken by an older call (two HTTP requests to an OpenDTU gateway have no order); the device stays limited and nobody repairs it; without an overlap it holds (`ReleaseReachesAllAlone`) |
| `control_lock` | the lock resets `ControlState`, not the distributor, which goes on limiting |
| `update_late` | the old service reaches its first inverter only after the marker was written, and clears it: the new release is linked without a way back |

These are stated as properties in the modules, with a comment that says that they
do not hold.  TLC refutes each of them; they have no run of their own:

| Property | What breaks it |
|---|---|
| `Distributor!DeadTimeRespected` | two overlapping calls both pass the dead-time check; without an overlap it holds (`DeadTimeIsRespectedAlone`) |
| `Distributor!NoChangeNeeded` | answers in the opposite order of effects leave `relay_on` wrong for good; without an overlap it holds (`BeliefIsTrueAlone`) |
| `Distributor!RelayRest` with `"loseReply"` | a lost answer leaves `last_toggle_ts` old, and the next move comes too early |
| `PowerControl!ClampBoundsVenus` with `"tear"` | a crash between two files restores a new clamp with the old limit above it |
| `PowerControl!WebLimitSurvivesRestart` | a limit set in the page is not saved and gone after a restart |
| `PowerControl!WithdrawnStaysWithdrawn` | a withdrawn limit is enforced again by a restart |
| `DeviceRegistry!CleanThoughOverlapped` | two requests at work on one device: the late pop in `stop_device()` takes the state of a device that was started meanwhile (`device_registry.py:163`), and a second start overwrites the task of the first, which goes on polling (`device_registry.py:123`); without such an overlap it holds (`SerialCorrect`) |
| `DeviceRegistry!AddedIsStarted` | after an import the registry looks added devices up in the configuration it was constructed with, and does not start them |

Further consequences of the same definitions, met while modelling:

- Power path.  A Venus OS write while locked is distributed (`proxy.py:193`); a
  timed lock outlives its 900 s, because nothing calls `check_lock_expiry()`
  (`control.py:309`); enabling without a stored limit distributes 0 %, below the
  1 % floor, which is applied to limit writes only (`proxy.py:249`); a limit of
  Venus OS comes back through `ui_state.json` after any time, since that file has no
  lifetime (`control.py:213`); a clamp is loaded after a late restart but not
  distributed (`__main__.py:403`); a release goes to the devices that are online at
  that moment, and one that comes back later keeps its old limit
  (`distributor.py:113`).
- Updater.  An exception after the flip ends with `rollback_failed` and exit code
  1 although `run()` says "1: … no symlink flip" (`updater_root/runner.py:232`), and
  a second update may then start from the unproven release; a killed updater
  leaves its flag in `/run`, so recovery does nothing until a reboot, and its
  phase in the status file, so that new requests are answered 409; a 409 uses up
  the rate limit's window; `exit_maintenance_mode()` has no caller, so a trigger
  that could not be written leaves the mode on (`webapp.py:582`); a chmod that
  fails answers 500 although the trigger is in place; `/api/update/check` always
  answers 503, because the key it looks up is never set.
- Devices.  A refused edit has changed the entry already (`webapp.py:2514`), and a
  valid one after it starts a second poll task; a saved list that is refused for
  its Venus settings has been replaced already (`webapp.py:944`, `:979`); overlapping updates of one device
  orphan a task, or take a managed device out of what is shown; saving the list
  whole starts and stops nothing; after an import the aggregation keeps the old
  configuration, too.
- Numbers.  A sum above 32 767 W is written modulo 65 536 and read as negative
  (`aggregation.py:106`); a removed device is counted until the next poll of
  another one.
- Publishing.  Nothing is published while no page is open; on a full queue the
  newest snapshot is dropped although the comment says the oldest
  (`webapp.py:1375`), so the first messages after an outage are the oldest; a clean
  stop leaves the retained status "online" (`mqtt_publisher.py:202`).

## 9. What is not modelled

Within the modelled components: `flush_pending()`, `edpc_refresh_loop()`,
`check_lock_expiry()` and `exit_maintenance_mode()`, which nothing calls (that they
are never called is part of what the runs show); the measurement of response times
in `on_poll()`, an input of `Waterfall`; the registers Venus OS reads back, and of
the aggregated registers all but the power; errors of file writes that the code
logs and ignores; floating-point rounding below a tenth of a percent; CSRF tokens
and the audit log, which only decide whether a request is heard; git, pip, gpg and
tar, which are steps that succeed or raise; the layout checks and the free disk
space before an update, which are outcomes of `Preflight`; the faster polling of the
progress while a page looks on; the energy counters.

Components left out altogether:

| Component | Why |
|---|---|
| Dashboard and time series | decodes and keeps a bounded history for display; nothing of it decides anything except the reading the distributor takes, which is an input |
| Discovery | network scans on request, pure I/O; that polling pauses meanwhile is in `DeviceRegistry` |
| Configuration | reads and validates YAML; its values are constants, its list of devices is in `DeviceRegistry` |
| Status pages, WebSocket | display; the queueing for MQTT is in `MqttPublisher` |
| Deployment | shell scripts and units; what the units promise is stated by the external actions |

External, modelled from how the code uses them: systemd, the brokers, GitHub, the
network and the inverters themselves.
