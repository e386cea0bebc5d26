---------------------------- MODULE DeviceRegistry ----------------------------
(***************************************************************************)
(* The life of a device: the registry's start_device and stop_device, the  *)
(* pages' handlers that add, edit, delete and replace inverters, the       *)
(* network scan that pauses polling and adds what it finds, and the config *)
(* the pages see beside the one the registry was given.                    *)
(*                                                                         *)
(* Every handler is a coroutine: it runs from one await to the next in one *)
(* step, and other handlers run in between.  A request has its body with   *)
(* it, so `await request.json()` is no such point, and a page is connected, *)
(* so a broadcast is one.                                                  *)
(***************************************************************************)
EXTENDS Naturals, FiniteSets, FiniteSetsExt

CONSTANTS
    Ids,         \* device ids
    Handlers,    \* requests and scans in progress at a time (numbered)
    Requests,    \* the kinds of request clients send, out of AllRequests
    MaxTasks,    \* bound: poll tasks of a device alive at a time
    MaxRequests  \* bound: requests in a behaviour

AllRequests == {"add", "edit", "delete", "save", "import", "scan"}

ASSUME RegistryAssumption ==
    /\ Requests \subseteq AllRequests
    /\ Handlers \subseteq Nat /\ {MaxTasks, MaxRequests} \subseteq Nat
    /\ MaxTasks > Cardinality(Handlers)

Tasks == 1 .. MaxTasks
Entry == {"absent", "off", "on"}   \* an InverterEntry that is not enabled, or is

VARIABLES
    entries,       \* app["config"].inverters
    frozen,        \* the registry's config once an import has replaced that
    shared,        \* both are still one object
    managed,       \* _managed: the current task (and plugin) of each id, or 0
    devices,       \* app_ctx.devices: whose state is shown and summed, or 0
    alive,         \* each id's poll tasks that have not ended
    cancelled,     \* those that have been cancelled
    open,          \* each id's plugins that have not been closed
    paused,        \* app_ctx.polling_paused
    scanning,      \* app["_scan_running"]
    h,             \* where each handler is
    asked,         \* history: requests so far
    past           \* history: "serial" while no two handlers were at work on one
                   \* device at once; "aligned" while the config was changed
                   \* together with the registry only; else "drifted"

lists == <<entries, frozen, shared>>
tasks == <<managed, devices, alive, cancelled, open>>
vars == <<lists, tasks, paused, scanning, h, asked, past>>

\* Where a handler is; the device it is at, the task it waits for and where it
\* goes from there; the ids it still has to visit; the scan's was_paused.
Idle == [at |-> "idle", dev |-> {}, task |-> 0, then |-> "end", ids |-> {},
         was |-> FALSE]

Init ==
    /\ entries = [d \in Ids |-> "absent"]
    /\ frozen = entries /\ shared = TRUE
    /\ managed = [d \in Ids |-> 0] /\ devices = managed
    /\ alive = [d \in Ids |-> {}] /\ cancelled = alive /\ open = alive
    /\ paused = FALSE /\ scanning = FALSE
    /\ h = [i \in Handlers |-> Idle]
    /\ asked = 0 /\ past = "serial"

-----------------------------------------------------------------------------
(* The registry *)

\* _find_entry() looks into the config the registry was constructed with.
Find(d) == IF shared THEN entries'[d] ELSE frozen[d]

Unused(d) == Tasks \ (alive[d] \cup open[d] \cup {managed[d], devices[d]})

\* A plugin and a task, in the place of those that were managed: the free task
\* with the least number, for which the bound leaves room.
NewTask(d) ==
    \E t \in Unused(d) :
        /\ \A u \in Unused(d) : t <= u
        /\ managed' = [managed EXCEPT ![d] = t]
        /\ devices' = [devices EXCEPT ![d] = t]
        /\ alive' = [alive EXCEPT ![d] = @ \cup {t}]
        /\ open' = [open EXCEPT ![d] = @ \cup {t}]
        /\ UNCHANGED cancelled

\* Mutant: what is found is started, enabled or not.
StartFound(d) == IF Find(d) = "absent" THEN UNCHANGED tasks ELSE NewTask(d)

\* start_device(): no await, so one step; what was managed is overwritten.
StartDevice(d) == IF Find(d) # "on" THEN UNCHANGED tasks ELSE NewTask(d)

\* Mutant: the task is awaited without having been cancelled.
StopUncancelled(d) ==
    /\ managed' = [managed EXCEPT ![d] = 0]
    /\ UNCHANGED <<alive, open, cancelled>>

\* stop_device() up to its first await: what leaves app_ctx.devices meanwhile is
\* left to the caller.
StopDevice(d) ==
    /\ managed' = [managed EXCEPT ![d] = 0]
    /\ cancelled' = [cancelled EXCEPT ![d] = @ \cup ({managed[d]} \cap alive[d])]
    /\ UNCHANGED <<alive, open>>

\* The loop ends where the cancellation finds it: no plugin swallows it.
TaskEnds(d, t) ==
    /\ t \in cancelled[d]
    /\ alive' = [alive EXCEPT ![d] = @ \ {t}]
    /\ cancelled' = [cancelled EXCEPT ![d] = @ \ {t}]
    /\ UNCHANGED <<lists, managed, devices, open, paused, scanning, h,
                   asked, past>>

\* Mutant: the plugin is closed while the loop is still to end.
CloseUnawaited(i, d) ==
    /\ h[i].at = "await" /\ h[i].dev = {d}
    /\ open' = [open EXCEPT ![d] = @ \ {h[i].task}]
    /\ h' = [h EXCEPT ![i].at = "close"]
    /\ UNCHANGED <<lists, managed, devices, alive, cancelled, paused, scanning,
                   asked, past>>

\* `await managed.poll_task` has returned: plugin.close().
Close(i, d) ==
    /\ h[i].at = "await" /\ h[i].dev = {d}
    /\ h[i].task \notin alive[d]
    /\ open' = [open EXCEPT ![d] = @ \ {h[i].task}]
    /\ h' = [h EXCEPT ![i].at = "close"]
    /\ UNCHANGED <<lists, managed, devices, alive, cancelled, paused, scanning, asked, past>>

-----------------------------------------------------------------------------
(* _reconfigure_active() *)

NoneActive == \A d \in Ids : entries'[d] # "on"

\* Its last statements, up to the broadcast of the device list.
Settle == paused' = (NoneActive /\ \A d \in Ids : managed'[d] = 0)

Goto(i, place) == h' = [h EXCEPT ![i].at = place, ![i].dev = {}, ![i].task = 0]

\* Handler i has stopped d and broadcasts.
Stopped(i, d, then) ==
    h' = [h EXCEPT ![i] = [Idle EXCEPT !.at = then,
                                       !.dev = IF then = "again" THEN {d} ELSE {}]]

\* Handler i waits for the end of d's task.
AwaitTask(i, d, then, ids) ==
    h' = [h EXCEPT ![i] = [@ EXCEPT !.at = "await", !.dev = {d}, !.task = managed[d],
                                    !.then = then, !.ids = ids]]

\* Mutant: what is not managed is stopped all the same.
StopUnmanaged(i, d, then) ==
    /\ StopDevice(d) /\ UNCHANGED <<devices, paused>>
    /\ AwaitTask(i, d, then, {})

\* action "stop" and "disable": what is not managed needs no await.
ReconfigureStop(i, d, then) ==
    IF managed[d] = 0
    THEN UNCHANGED tasks /\ Settle /\ Stopped(i, d, then)
    ELSE /\ StopDevice(d) /\ UNCHANGED <<devices, paused>>
         /\ AwaitTask(i, d, then, {})

\* stop_all(): of the ids it still has to visit the next one that is managed
\* (those listed before it are passed over), or the end of the loop.
StopNext(i, ids) ==
    LET left == {d \in ids : managed[d] # 0} IN
    \/ /\ left = {}
       /\ paused' = TRUE
       /\ Goto(i, "no_inverter")
       /\ UNCHANGED <<managed, cancelled, alive, open>>
    \/ \E d \in left, rest \in SUBSET ids :
          /\ left \ {d} \subseteq rest /\ d \notin rest
          /\ StopDevice(d) /\ UNCHANGED paused
          /\ AwaitTask(i, d, "all", rest)

\* Mutant: the state stays in app_ctx.devices.
StopKeepsState(i, d) ==
    /\ h[i].at = "close" /\ h[i].dev = {d}
    /\ UNCHANGED <<lists, scanning, asked, past, devices>>
    /\ \/ /\ h[i].then = "all"
          /\ StopNext(i, h[i].ids)
       \/ /\ h[i].then # "all"
          /\ UNCHANGED <<managed, alive, cancelled, open>>
          /\ Settle /\ Stopped(i, d, h[i].then)

\* plugin.close() has returned: the rest of stop_device() and of its caller.
StopReturns(i, d) ==
    /\ h[i].at = "close" /\ h[i].dev = {d}
    /\ UNCHANGED <<lists, scanning, asked, past>>
    /\ devices' = [devices EXCEPT ![d] = 0]
    /\ \/ /\ h[i].then = "all"
          /\ StopNext(i, h[i].ids)
       \/ /\ h[i].then # "all"
          /\ UNCHANGED <<managed, alive, cancelled, open>>
          /\ Settle /\ Stopped(i, d, h[i].then)

\* The broadcast between the stop and the start of an edited device is out.
StartAgain(i, d) ==
    /\ h[i].at = "again" /\ h[i].dev = {d}
    /\ UNCHANGED <<lists, scanning, asked, past>>
    /\ StartDevice(d) /\ Settle
    /\ Goto(i, "end")

\* The broadcast of `no_inverter` is out.
AllStopped(i) ==
    /\ h[i].at = "no_inverter"
    /\ UNCHANGED <<lists, tasks, scanning, asked, past>>
    /\ Settle
    /\ Goto(i, "end")

\* The broadcast of the device list is out: `finally`, and the answer.
Answer(i) ==
    /\ h[i].at = "end"
    /\ h' = [h EXCEPT ![i] = Idle]
    /\ UNCHANGED <<lists, tasks, paused, scanning, asked, past>>

-----------------------------------------------------------------------------
(* The handlers *)

\* The ids a handler has yet to stop or start.
Visits(j) == h[j].dev \cup h[j].ids

\* A request is taken up.
Accept(i, op) ==
    /\ op \in Requests /\ asked < MaxRequests
    /\ asked' = asked + 1
    /\ h[i].at = "idle"
    /\ \A j \in Handlers : h[j].at = "idle" => i <= j

\* What a request about the devices ds does to the history.
Passes(ds, drift) ==
    past' = CASE drift \/ past = "drifted" -> "drifted"
              [] OTHER -> IF \E j \in Handlers : Visits(j) \cap ds # {}
                          THEN "aligned" ELSE past

\* The bound leaves each handler at work, and one more, a task of d to start.
Room(d) == Cardinality(Unused(d)) > Quantify(Handlers, LAMBDA j : h[j].at # "idle")

\* An id that nothing knows: new ids are random.
New(d) ==
    /\ entries[d] = "absent" /\ frozen[d] = "absent"
    /\ managed[d] = 0 /\ devices[d] = 0 /\ alive[d] = {} /\ open[d] = {}
    /\ \A j \in Handlers : d \notin Visits(j)

\* inverters_add_handler()
Add(i, d, e) ==
    /\ Accept(i, "add") /\ Passes({d}, FALSE) /\ New(d)
    /\ entries' = [entries EXCEPT ![d] = e]
    /\ IF e = "on" THEN StartDevice(d) /\ Settle /\ Goto(i, "end")
       ELSE UNCHANGED <<tasks, paused, h>>
    /\ UNCHANGED <<frozen, shared, scanning>>

\* inverters_update_handler(): the fields are set before they are validated.
Edit(i, d, e, valid) ==
    /\ Accept(i, "edit") /\ Room(d) /\ entries[d] # "absent"
    /\ entries' = [entries EXCEPT ![d] = e]
    /\ Passes({d}, ~valid /\ e # entries[d])
    /\ \/ /\ ~valid \/ {e, entries[d]} = {"off"}
          /\ UNCHANGED <<tasks, paused, h>>
       \/ /\ valid /\ e = "on" /\ entries[d] = "off"
          /\ StartDevice(d) /\ Settle /\ Goto(i, "end")
       \/ /\ valid /\ entries[d] = "on"
          /\ ReconfigureStop(i, d, IF e = "on" THEN "again" ELSE "end")
    /\ UNCHANGED <<frozen, shared, scanning>>

\* inverters_delete_handler()
Delete(i, d) ==
    /\ Accept(i, "delete") /\ Passes({d}, FALSE) /\ entries[d] # "absent"
    /\ entries' = [entries EXCEPT ![d] = "absent"]
    /\ ReconfigureStop(i, d, "end")
    /\ UNCHANGED <<frozen, shared, scanning>>

\* config_save_handler(): the list is replaced (here: one entry of it changes, or
\* none).  The Venus settings are validated after that, and a request refused for
\* them leaves it at the list; the generic reconfigure of the others starts nothing
\* and stops all or nothing.
Save(i, d, e) ==
    /\ Accept(i, "save") /\ Passes(Ids, e # entries[d])
    /\ entries' = [entries EXCEPT ![d] = e]
    /\ \/ UNCHANGED <<tasks, paused, h>>
       \/ /\ NoneActive
          /\ StopNext(i, {x \in Ids : managed[x] # 0}) /\ UNCHANGED devices
       \/ ~NoneActive /\ UNCHANGED tasks /\ Settle /\ Goto(i, "end")
    /\ UNCHANGED <<frozen, shared, scanning>>

\* config_import_handler(): app["config"] and app_ctx.config become another object.
\* Bound: one import, and no other request at work on the old object.
Import(i, d, e) ==
    /\ Accept(i, "import") /\ Passes({}, TRUE)
    /\ shared /\ \A j \in Handlers : h[j].at = "idle"
    /\ entries' = [entries EXCEPT ![d] = e]
    /\ shared' = FALSE
    /\ frozen' = entries
    /\ UNCHANGED <<tasks, paused, scanning, h>>

-----------------------------------------------------------------------------
(* The network scan *)

\* scanner_discover_handler(): the flag is tested here and set by the task.
Discover(i) ==
    /\ Accept(i, "scan") /\ ~scanning
    /\ \A d \in Ids : Room(d)
    /\ Goto(i, "asked")
    /\ UNCHANGED <<lists, tasks, paused, scanning, past>>

\* Mutant: was_paused is read when polling has been paused.
ReadPausedLate(i) ==
    /\ h[i].at = "asked"
    /\ scanning' = TRUE /\ paused' = TRUE
    /\ h' = [h EXCEPT ![i].at = "scan", ![i].was = paused']
    /\ UNCHANGED <<lists, tasks, asked, past>>

\* _run_scan() up to `await asyncio.sleep(1)`.
ScanBegin(i) ==
    /\ h[i].at = "asked"
    /\ scanning' = TRUE /\ paused' = TRUE
    /\ h' = [h EXCEPT ![i].at = "scan", ![i].was = paused]
    /\ UNCHANGED <<lists, tasks, asked, past>>

\* The loop that starts what is enabled and has no state: the next one (those
\* before it in the list are passed over), or its end.
ScanNext(i, ids) ==
    LET left == {d \in ids : entries'[d] # "off" /\ devices[d] = 0} IN
    \/ /\ left = {}
       /\ h' = [h EXCEPT ![i].at = "told", ![i].ids = {}]
       /\ UNCHANGED <<tasks, paused>>
    \/ \E d \in left, rest \in SUBSET ids :
          /\ left \ {d} \subseteq rest /\ d \notin rest
          /\ StartDevice(d) /\ Settle
          /\ h' = [h EXCEPT ![i].at = "adding", ![i].ids = rest]

\* scan_subnet() has returned: nothing to add (or it failed), or a device.
ScanFound(i) ==
    /\ h[i].at = "scan"
    /\ \/ /\ h' = [h EXCEPT ![i].at = "told"]
          /\ UNCHANGED <<entries, tasks, paused, past>>
       \/ \E d \in Ids :
             /\ New(d)
             /\ entries' = [entries EXCEPT ![d] = "on"]
             /\ LET ids == {x \in Ids : entries'[x] # "absent"} IN
                /\ ScanNext(i, ids)
                /\ Passes(ids, FALSE)
    /\ UNCHANGED <<frozen, shared, scanning, asked>>

\* The broadcast of _reconfigure_active() is out, and the loop goes on.
ScanAdds(i) ==
    /\ h[i].at = "adding"
    /\ UNCHANGED <<lists, scanning, asked, past>>
    /\ ScanNext(i, h[i].ids)

\* The result is broadcast: `finally`.
ScanEnd(i) ==
    /\ h[i].at = "told"
    /\ scanning' = FALSE
    /\ paused' = (paused /\ h[i].was)
    /\ h' = [h EXCEPT ![i] = Idle]
    /\ UNCHANGED <<lists, tasks, asked, past>>

-----------------------------------------------------------------------------
HandlerStep(i) ==
    \/ \E d \in Ids : Close(i, d) \/ StopReturns(i, d) \/ StartAgain(i, d)
    \/ AllStopped(i) \/ Answer(i)
    \/ ScanBegin(i) \/ ScanFound(i) \/ ScanAdds(i) \/ ScanEnd(i)

Next ==
    \/ \E i \in Handlers, d \in Ids :
          \/ \E e \in {"off", "on"} : Add(i, d, e)
          \/ \E e \in {"off", "on"}, valid \in BOOLEAN : Edit(i, d, e, valid)
          \/ Delete(i, d)
          \/ \E e \in Entry : Save(i, d, e) \/ Import(i, d, e)
    \/ \E i \in Handlers : Discover(i) \/ HandlerStep(i)
    \/ \E d \in Ids, t \in Tasks : TaskEnds(d, t)

Spec == Init /\ [][Next]_vars

\* The event loop runs every coroutine that can go on; plugin.close(), a scan and
\* a broadcast return, and a cancelled task ends.
FairSpec ==
    /\ Spec
    /\ \A i \in Handlers : WF_vars(HandlerStep(i))
    /\ \A d \in Ids, t \in Tasks : WF_vars(TaskEnds(d, t))

-----------------------------------------------------------------------------
(* Properties *)

\* Every variable has its type.
TypeOK ==
    /\ entries \in [Ids -> Entry] /\ frozen \in [Ids -> Entry]
    /\ managed \in [Ids -> {0} \cup Tasks] /\ devices \in [Ids -> {0} \cup Tasks]
    /\ alive \in [Ids -> SUBSET Tasks] /\ cancelled \in [Ids -> SUBSET Tasks]
    /\ open \in [Ids -> SUBSET Tasks]
    /\ {shared, paused, scanning} \subseteq BOOLEAN
    /\ asked \in 0 .. MaxRequests /\ past \in {"serial", "aligned", "drifted"}
    /\ \A i \in Handlers :
          /\ Visits(i) \subseteq Ids
          /\ h[i].at \in {"await", "close"} => h[i].task \in Tasks /\ h[i].dev # {}

\* No request is at work.
Quiet == \A i \in Handlers : h[i].at = "idle"

\* A plugin is polled only while it is open, and when no request is at work every
\* plugin that is not polled has been closed: no connection leaks
\* (device_registry.py: cancel, await the task, close the plugin).
PollsOpenPlugin ==
    \A d \in Ids :
        /\ alive[d] \subseteq open[d]
        /\ Quiet => alive[d] = open[d]

\* When no request is at work, the devices that are managed are the enabled ones,
\* whatever requests overlapped, unless the config was changed behind the registry:
\* an edit refused after its fields were set, a list saved whole, an import.
ConfigIsPolled ==
    Quiet /\ past # "drifted" => \A d \in Ids : (managed[d] # 0) <=> (entries[d] = "on")

\* If moreover no two requests were ever at work on one device at the same time, a
\* device has one poll task, the managed one, and its state is the one shown.
CleanWhenSerial ==
    Quiet /\ past = "serial" =>
        /\ devices = managed
        /\ \A d \in Ids : alive[d] = {managed[d]} \ {0}

\* The same although requests overlapped on a device.  Does not hold: the late pop of
\* stop_device() takes the state of a device that was started meanwhile, and of two
\* edits at once the second to start overwrites the task of the first.
CleanThoughOverlapped ==
    Quiet /\ past # "drifted" =>
        /\ devices = managed
        /\ \A d \in Ids : alive[d] = {managed[d]} \ {0}

\* Polling never stays paused when scans and requests are over and a device is
\* managed, however scans, starts and stops overlapped (webapp.py, _run_scan and
\* _reconfigure_active write the same flag).
PollingResumes == Quiet /\ paused => \A d \in Ids : managed[d] = 0

\* Every request is answered and every scan ends.
RequestsEnd == \A i \in Handlers : h[i].at # "idle" ~> h[i].at = "idle"

\* A device that is added enabled is polled at once (webapp.py: "Start device
\* immediately if enabled").  Does not hold after an import: the registry looks the
\* new device up in the config it was constructed with.
AddedIsStarted ==
    [][\A i \in Handlers, d \in Ids : Add(i, d, "on") => managed'[d] # 0]_vars
=============================================================================
