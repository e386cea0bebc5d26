------------------------ MODULE DeviceRegistry_proofs ------------------------
(***************************************************************************)
(* The properties of the device registry, for any ids, handlers, tasks and *)
(* requests.  The handlers are coroutines that interleave at every await:  *)
(* the invariants say, for each device, which handler is still to undo     *)
(* what a property forbids.                                                *)
(***************************************************************************)
EXTENDS DeviceRegistry, TLAPS

-----------------------------------------------------------------------------
(***************************************************************************)
(* The types, and the shape of a handler's state.                          *)
(***************************************************************************)

Stopping == {"await", "close"}
AtDevice == Stopping \cup {"again"}
Spots == AtDevice \cup {"idle", "no_inverter", "end", "asked", "scan", "adding", "told"}
Thens == {"end", "again", "all"}

HandlerState ==
    [at : Spots, dev : SUBSET Ids, task : {0} \cup Tasks, then : Thens,
     ids : SUBSET Ids, was : BOOLEAN]

ListTypes ==
    /\ entries \in [Ids -> Entry] /\ frozen \in [Ids -> Entry] /\ shared \in BOOLEAN

TaskTypes ==
    /\ managed \in [Ids -> {0} \cup Tasks] /\ devices \in [Ids -> {0} \cup Tasks]
    /\ alive \in [Ids -> SUBSET Tasks] /\ cancelled \in [Ids -> SUBSET Tasks]
    /\ open \in [Ids -> SUBSET Tasks]

FlagTypes ==
    /\ paused \in BOOLEAN /\ scanning \in BOOLEAN
    /\ asked \in 0 .. MaxRequests /\ past \in {"serial", "aligned", "drifted"}

HandlerTypes == h \in [Handlers -> HandlerState]

\* A handler that stops or starts a device is at that device and no other one.
Shape(i) ==
    /\ h[i].at \in Stopping => h[i].task \in Tasks
    /\ h[i].at \in AtDevice => \E d \in Ids : h[i].dev = {d}
    /\ h[i].at \notin AtDevice => h[i].dev = {}
    /\ h[i].at = "idle" => h[i].ids = {}

Shapes == \A i \in Handlers : Shape(i)

Types == ListTypes /\ TaskTypes /\ FlagTypes /\ HandlerTypes /\ Shapes

-----------------------------------------------------------------------------
(* What the steps of a handler do to the handlers. *)

\* The other handlers stay where they are.
Leaves(i) == \A j \in Handlers \ {i} : h'[j] = h[j]

Becomes(i, at, dev, task, then, ids, was) ==
    /\ h' \in [Handlers -> HandlerState] /\ Leaves(i)
    /\ h'[i].at = at /\ h'[i].dev = dev /\ h'[i].task = task
    /\ h'[i].then = then /\ h'[i].ids = ids /\ h'[i].was = was

LEMMA NumberFacts ==
    /\ Tasks \subseteq Nat /\ 0 \notin Tasks
    /\ MaxRequests \in Nat
  BY RegistryAssumption DEF Tasks

LEMMA IdleType == Idle \in HandlerState
  BY DEF Idle, HandlerState, Spots, AtDevice, Stopping, Thens

LEMMA SpotsNamed ==
    "await" \in Spots /\ "told" \in Spots /\ "adding" \in Spots /\ "scan" \in Spots
  BY DEF Spots, AtDevice, Stopping

LEMMA GotoBecomes ==
    ASSUME HandlerTypes, NEW i \in Handlers, NEW p \in Spots, Goto(i, p)
    PROVE  Becomes(i, p, {}, 0, h[i].then, h[i].ids, h[i].was)
  BY DEF HandlerTypes, HandlerState, Goto, Becomes, Leaves

LEMMA StoppedBecomes ==
    ASSUME HandlerTypes, NEW i \in Handlers, NEW d \in Ids, NEW then \in {"end", "again"},
           Stopped(i, d, then)
    PROVE  Becomes(i, then, IF then = "again" THEN {d} ELSE {}, 0, "end", {}, FALSE)
  BY DEF HandlerTypes, HandlerState, Stopped, Idle, Becomes, Leaves, Spots, AtDevice, Thens

LEMMA AwaitBecomes ==
    ASSUME HandlerTypes, TaskTypes, NEW i \in Handlers, NEW d \in Ids, NEW then \in Thens,
           NEW ids \in SUBSET Ids, AwaitTask(i, d, then, ids)
    PROVE  Becomes(i, "await", {d}, managed[d], then, ids, h[i].was)
<1>1. managed[d] \in {0} \cup Tasks
  BY DEF TaskTypes
<1>2. h' \in [Handlers -> HandlerState]
  <2>1. h[i] \in HandlerState
    BY DEF HandlerTypes
  <2>2. [h[i] EXCEPT !.at = "await", !.dev = {d}, !.task = managed[d], !.then = then, !.ids = ids]
        \in HandlerState
    BY <1>1, <2>1, SpotsNamed DEF HandlerState
  <2> QED BY <2>2 DEF HandlerTypes, AwaitTask
<1>3. Leaves(i)
  BY DEF HandlerTypes, AwaitTask, Leaves
<1>4. /\ h'[i].at = "await" /\ h'[i].dev = {d} /\ h'[i].task = managed[d]
      /\ h'[i].then = then /\ h'[i].ids = ids /\ h'[i].was = h[i].was
  BY DEF HandlerTypes, HandlerState, AwaitTask
<1> QED BY <1>2, <1>3, <1>4 DEF Becomes

\* The shape of the handler that moved is all that has to be looked at.
LEMMA ShapesKept ==
    ASSUME Shapes, NEW i \in Handlers, Leaves(i), Shape(i)'
    PROVE  Shapes'
  BY DEF Shapes, Shape, Leaves

-----------------------------------------------------------------------------
(* What they do to the tasks. *)

LEMMA NewTaskTypes ==
    ASSUME TaskTypes, NEW d \in Ids, NewTask(d)
    PROVE  TaskTypes'
  BY DEF TaskTypes, NewTask, Unused

LEMMA StartTypes ==
    ASSUME TaskTypes, NEW d \in Ids, StartDevice(d)
    PROVE  TaskTypes'
<1>1. CASE UNCHANGED tasks
  BY <1>1 DEF tasks, TaskTypes
<1>2. CASE NewTask(d)
  BY <1>2, NewTaskTypes
<1> QED BY <1>1, <1>2 DEF StartDevice

LEMMA StopTypes ==
    ASSUME TaskTypes, NEW d \in Ids, StopDevice(d), devices' \in [Ids -> {0} \cup Tasks]
    PROVE  TaskTypes'
  BY DEF TaskTypes, StopDevice

LEMMA SettleType == ASSUME Settle PROVE paused' \in BOOLEAN
  BY DEF Settle

\* stop_all() goes to the next device, of which it awaits the task, or to its end.
LEMMA StopNextTypes ==
    ASSUME TaskTypes, HandlerTypes, paused \in BOOLEAN, NEW i \in Handlers, NEW ids \in SUBSET Ids,
           StopNext(i, ids), devices' \in [Ids -> {0} \cup Tasks]
    PROVE  TaskTypes' /\ paused' \in BOOLEAN /\ HandlerTypes' /\ Leaves(i) /\ Shape(i)'
<1>1. CASE /\ paused' = TRUE /\ Goto(i, "no_inverter")
           /\ UNCHANGED <<managed, cancelled, alive, open>>
  <2>1. Becomes(i, "no_inverter", {}, 0, h[i].then, h[i].ids, h[i].was)
    BY <1>1, GotoBecomes DEF Spots
  <2>2. TaskTypes'
    BY <1>1 DEF TaskTypes
  <2> QED BY <1>1, <2>1, <2>2 DEF Becomes, HandlerTypes, Shape, AtDevice, Stopping
<1>2. ASSUME NEW d \in ids, NEW rest \in SUBSET ids, managed[d] # 0, StopDevice(d),
             UNCHANGED paused, AwaitTask(i, d, "all", rest)
      PROVE  TaskTypes' /\ paused' \in BOOLEAN /\ HandlerTypes' /\ Leaves(i) /\ Shape(i)'
  <2>1. Becomes(i, "await", {d}, managed[d], "all", rest, h[i].was)
    BY <1>2, AwaitBecomes DEF Thens
  <2>2. TaskTypes'
    BY <1>2, StopTypes
  <2>3. managed[d] \in Tasks
    BY <1>2 DEF TaskTypes
  <2> QED BY <1>2, <2>1, <2>2, <2>3 DEF Becomes, HandlerTypes, Shape, AtDevice, Stopping
<1> QED BY <1>1, <1>2 DEF StopNext

LEMMA ReconfigureTypes ==
    ASSUME TaskTypes, HandlerTypes, paused \in BOOLEAN, NEW i \in Handlers, NEW d \in Ids,
           NEW then \in {"end", "again"}, ReconfigureStop(i, d, then)
    PROVE  TaskTypes' /\ paused' \in BOOLEAN /\ HandlerTypes' /\ Leaves(i) /\ Shape(i)'
<1>1. CASE managed[d] = 0
  <2>1. UNCHANGED tasks /\ Settle /\ Stopped(i, d, then)
    BY <1>1 DEF ReconfigureStop
  <2>2. Becomes(i, then, IF then = "again" THEN {d} ELSE {}, 0, "end", {}, FALSE)
    BY <2>1, StoppedBecomes
  <2>3. TaskTypes'
    BY <2>1 DEF tasks, TaskTypes
  <2> QED BY <2>1, <2>2, <2>3, SettleType DEF Becomes, HandlerTypes, Shape, AtDevice, Stopping
<1>2. CASE managed[d] # 0
  <2>1. StopDevice(d) /\ UNCHANGED <<devices, paused>> /\ AwaitTask(i, d, then, {})
    BY <1>2 DEF ReconfigureStop
  <2>2. Becomes(i, "await", {d}, managed[d], then, {}, h[i].was)
    BY <2>1, AwaitBecomes DEF Thens
  <2>3. TaskTypes'
    BY <2>1, StopTypes DEF TaskTypes
  <2>4. managed[d] \in Tasks
    BY <1>2 DEF TaskTypes
  <2> QED BY <2>1, <2>2, <2>3, <2>4 DEF Becomes, HandlerTypes, Shape, AtDevice, Stopping
<1> QED BY <1>1, <1>2

LEMMA ScanNextTypes ==
    ASSUME TaskTypes, HandlerTypes, paused \in BOOLEAN, NEW i \in Handlers, NEW ids \in SUBSET Ids,
           ScanNext(i, ids), h[i].dev = {}
    PROVE  TaskTypes' /\ paused' \in BOOLEAN /\ HandlerTypes' /\ Leaves(i) /\ Shape(i)'
<1>1. CASE h' = [h EXCEPT ![i].at = "told", ![i].ids = {}] /\ UNCHANGED <<tasks, paused>>
  <2>1. h' \in [Handlers -> HandlerState]
    <3>1. h[i] \in HandlerState
      BY DEF HandlerTypes
    <3>2. [h[i] EXCEPT !.at = "told", !.ids = {}] \in HandlerState
      BY <3>1, SpotsNamed DEF HandlerState
    <3> QED BY <1>1, <3>2 DEF HandlerTypes
  <2>2. Leaves(i)
    BY <1>1 DEF HandlerTypes, Leaves
  <2>3. h'[i].at = "told" /\ h'[i].dev = {}
    BY <1>1 DEF HandlerTypes, HandlerState
  <2>4. Shape(i)'
    BY <2>3 DEF Shape, AtDevice, Stopping
  <2>5. TaskTypes'
    BY <1>1 DEF tasks, TaskTypes
  <2> QED BY <1>1, <2>1, <2>2, <2>4, <2>5 DEF HandlerTypes
<1>2. ASSUME NEW d \in ids, NEW rest \in SUBSET ids, StartDevice(d), Settle,
             h' = [h EXCEPT ![i].at = "adding", ![i].ids = rest]
      PROVE  TaskTypes' /\ paused' \in BOOLEAN /\ HandlerTypes' /\ Leaves(i) /\ Shape(i)'
  <2>1. TaskTypes' /\ paused' \in BOOLEAN
    BY <1>2, StartTypes, SettleType
  <2>2. h' \in [Handlers -> HandlerState]
    <3>1. h[i] \in HandlerState /\ rest \in SUBSET Ids
      BY <1>2 DEF HandlerTypes
    <3>2. [h[i] EXCEPT !.at = "adding", !.ids = rest] \in HandlerState
      BY <3>1, SpotsNamed DEF HandlerState
    <3> QED BY <1>2, <3>2 DEF HandlerTypes
  <2>3. Leaves(i)
    BY <1>2 DEF HandlerTypes, Leaves
  <2>4. h'[i].at = "adding" /\ h'[i].dev = {}
    BY <1>2 DEF HandlerTypes, HandlerState
  <2>5. Shape(i)'
    BY <2>4 DEF Shape, AtDevice, Stopping
  <2> QED BY <2>1, <2>2, <2>3, <2>5 DEF HandlerTypes
<1> QED BY <1>1, <1>2 DEF ScanNext

-----------------------------------------------------------------------------
(* The types are inductive. *)

LEMMA InitTypes == Init => Types
<1> SUFFICES ASSUME Init PROVE Types
  OBVIOUS
<1>1. ListTypes /\ TaskTypes /\ FlagTypes
  <2>1. ListTypes
    BY DEF Init, ListTypes, Entry
  <2>2. managed = [d \in Ids |-> 0] /\ alive = [d \in Ids |-> {}]
    BY DEF Init
  <2>3. managed \in [Ids -> {0} \cup Tasks] /\ alive \in [Ids -> SUBSET Tasks]
    BY <2>2
  <2>4. devices = managed /\ cancelled = alive /\ open = alive
    BY DEF Init
  <2>5. TaskTypes
    BY <2>3, <2>4 DEF TaskTypes
  <2>6. asked = 0 /\ paused = FALSE /\ scanning = FALSE /\ past = "serial"
    BY DEF Init
  <2>7. asked \in 0 .. MaxRequests
    BY <2>6, NumberFacts
  <2>8. paused \in BOOLEAN /\ scanning \in BOOLEAN
    BY <2>6, Zenon
  <2>9. FlagTypes
    BY <2>6, <2>7, <2>8, Zenon DEF FlagTypes
  <2> QED BY <2>1, <2>5, <2>9
<1>2. HandlerTypes
  BY IdleType DEF Init, HandlerTypes
<1>3. Shapes
  BY DEF Init, Shapes, Shape, Idle, Stopping, AtDevice
<1> QED BY <1>1, <1>2, <1>3 DEF Types

LEMMA PassesType ==
    ASSUME past \in {"serial", "aligned", "drifted"}, NEW ds, NEW drift \in BOOLEAN, Passes(ds, drift)
    PROVE  past' \in {"serial", "aligned", "drifted"}
<1>1. CASE drift \/ past = "drifted"
  BY <1>1, Zenon DEF Passes
<1>2. CASE ~(drift \/ past = "drifted")
  BY <1>2, Zenon DEF Passes
<1> QED BY <1>1, <1>2

LEMMA AcceptFacts ==
    ASSUME Types, NEW i \in Handlers, NEW op, Accept(i, op)
    PROVE  /\ asked' \in 0 .. MaxRequests /\ h[i].at = "idle"
           /\ h[i].dev = {} /\ h[i].ids = {} /\ h[i] \in HandlerState
<1>1. asked' \in 0 .. MaxRequests
  BY NumberFacts DEF Accept, Types, FlagTypes
<1> QED BY <1>1 DEF Accept, Types, Shapes, Shape, HandlerTypes, AtDevice, Stopping

\* The entries change by one entry.
LEMMA EntriesType ==
    ASSUME ListTypes, NEW d \in Ids, NEW e \in Entry, entries' = [entries EXCEPT ![d] = e],
           UNCHANGED <<frozen, shared>>
    PROVE  ListTypes'
  BY DEF ListTypes

LEMMA AddTypes ==
    ASSUME Types, NEW i \in Handlers, NEW d \in Ids, NEW e \in {"off", "on"}, Add(i, d, e)
    PROVE  Types'
<1>1. ListTypes'
  BY EntriesType DEF Add, Types, Entry
<1>2. asked' \in 0 .. MaxRequests /\ past' \in {"serial", "aligned", "drifted"}
      /\ scanning' \in BOOLEAN
  BY AcceptFacts, PassesType DEF Add, Types, FlagTypes
<1>3. CASE e = "on"
  <2>1. StartDevice(d) /\ Settle /\ Goto(i, "end")
    BY <1>3 DEF Add
  <2>2. TaskTypes' /\ paused' \in BOOLEAN
    BY <2>1, StartTypes, SettleType DEF Types
  <2>3. Becomes(i, "end", {}, 0, h[i].then, h[i].ids, h[i].was)
    BY <2>1, GotoBecomes DEF Types, Spots
  <2>4. HandlerTypes' /\ Shapes'
    BY <2>3, ShapesKept DEF Becomes, HandlerTypes, Types, Shape, AtDevice, Stopping
  <2> QED BY <1>1, <1>2, <2>2, <2>4 DEF Types, FlagTypes
<1>4. CASE e # "on"
  <2>1. UNCHANGED <<tasks, paused, h>>
    BY <1>4 DEF Add
  <2> QED BY <1>1, <1>2, <2>1
          DEF Types, TaskTypes, tasks, FlagTypes, HandlerTypes, Shapes, Shape
<1> QED BY <1>3, <1>4

LEMMA EditTypes ==
    ASSUME Types, NEW i \in Handlers, NEW d \in Ids, NEW e \in {"off", "on"},
           NEW valid \in BOOLEAN, Edit(i, d, e, valid)
    PROVE  Types'
<1>1. ListTypes'
  BY EntriesType DEF Edit, Types, Entry
<1>2. asked' \in 0 .. MaxRequests /\ past' \in {"serial", "aligned", "drifted"}
      /\ scanning' \in BOOLEAN
  <2>1. Passes({d}, ~valid /\ e # entries[d])
    BY DEF Edit
  <2> QED BY <2>1, AcceptFacts, PassesType DEF Edit, Types, FlagTypes
<1>3. CASE UNCHANGED <<tasks, paused, h>>
  BY <1>1, <1>2, <1>3 DEF Types, TaskTypes, tasks, FlagTypes, HandlerTypes, Shapes, Shape
<1>4. CASE StartDevice(d) /\ Settle /\ Goto(i, "end")
  <2>1. TaskTypes' /\ paused' \in BOOLEAN
    BY <1>4, StartTypes, SettleType DEF Types
  <2>2. Becomes(i, "end", {}, 0, h[i].then, h[i].ids, h[i].was)
    BY <1>4, GotoBecomes DEF Types, Spots
  <2>3. HandlerTypes' /\ Shapes'
    BY <2>2, ShapesKept DEF Becomes, HandlerTypes, Types, Shape, AtDevice, Stopping
  <2> QED BY <1>1, <1>2, <2>1, <2>3 DEF Types, FlagTypes
<1>5. CASE ReconfigureStop(i, d, IF e = "on" THEN "again" ELSE "end")
  <2>1. TaskTypes' /\ paused' \in BOOLEAN /\ HandlerTypes' /\ Leaves(i) /\ Shape(i)'
    BY <1>5, ReconfigureTypes DEF Types, FlagTypes
  <2> QED BY <1>1, <1>2, <2>1, ShapesKept DEF Types, FlagTypes
<1> QED BY <1>3, <1>4, <1>5 DEF Edit

LEMMA DeleteTypes ==
    ASSUME Types, NEW i \in Handlers, NEW d \in Ids, Delete(i, d)
    PROVE  Types'
<1>1. ListTypes'
  BY EntriesType DEF Delete, Types, Entry
<1>2. asked' \in 0 .. MaxRequests /\ past' \in {"serial", "aligned", "drifted"}
      /\ scanning' \in BOOLEAN
  BY AcceptFacts, PassesType DEF Delete, Types, FlagTypes
<1>3. TaskTypes' /\ paused' \in BOOLEAN /\ HandlerTypes' /\ Leaves(i) /\ Shape(i)'
  BY ReconfigureTypes DEF Delete, Types, FlagTypes
<1> QED BY <1>1, <1>2, <1>3, ShapesKept DEF Types, FlagTypes

LEMMA SaveTypes ==
    ASSUME Types, NEW i \in Handlers, NEW d \in Ids, NEW e \in Entry, Save(i, d, e)
    PROVE  Types'
<1>1. ListTypes'
  BY EntriesType DEF Save, Types
<1>2. asked' \in 0 .. MaxRequests /\ past' \in {"serial", "aligned", "drifted"}
      /\ scanning' \in BOOLEAN
  <2>1. Passes(Ids, e # entries[d])
    BY DEF Save
  <2> QED BY <2>1, AcceptFacts, PassesType DEF Save, Types, FlagTypes
<1>3. CASE StopNext(i, {x \in Ids : managed[x] # 0}) /\ UNCHANGED devices
  <2>1. TaskTypes' /\ paused' \in BOOLEAN /\ HandlerTypes' /\ Leaves(i) /\ Shape(i)'
    <3> DEFINE ids == {x \in Ids : managed[x] # 0}
    <3>1. ids \in SUBSET Ids /\ devices' \in [Ids -> {0} \cup Tasks]
      BY <1>3 DEF Types, TaskTypes
    <3>2. StopNext(i, ids)
      BY <1>3
    <3> HIDE DEF ids
    <3> QED BY <3>1, <3>2, StopNextTypes DEF Types, FlagTypes
  <2> QED BY <1>1, <1>2, <2>1, ShapesKept DEF Types, FlagTypes
<1>4. CASE UNCHANGED tasks /\ Settle /\ Goto(i, "end")
  <2>1. Becomes(i, "end", {}, 0, h[i].then, h[i].ids, h[i].was)
    BY <1>4, GotoBecomes DEF Types, Spots
  <2>2. HandlerTypes' /\ Shapes'
    BY <2>1, ShapesKept DEF Becomes, HandlerTypes, Types, Shape, AtDevice, Stopping
  <2> QED BY <1>1, <1>2, <1>4, <2>2, SettleType DEF Types, TaskTypes, tasks, FlagTypes
<1>5. CASE UNCHANGED <<tasks, paused, h>>
  BY <1>1, <1>2, <1>5
     DEF Types, TaskTypes, HandlerTypes, Shapes, Shape, AtDevice, Stopping, FlagTypes, tasks
<1> QED BY <1>3, <1>4, <1>5 DEF Save

LEMMA ImportTypes ==
    ASSUME Types, NEW i \in Handlers, NEW d \in Ids, NEW e \in Entry, Import(i, d, e)
    PROVE  Types'
<1>1. ListTypes'
  BY DEF Import, Types, ListTypes
<1>2. asked' \in 0 .. MaxRequests /\ past' \in {"serial", "aligned", "drifted"}
  BY AcceptFacts, PassesType DEF Import, Types, FlagTypes
<1> QED BY <1>1, <1>2
        DEF Import, Types, TaskTypes, tasks, FlagTypes, HandlerTypes, Shapes, Shape

LEMMA StepsTypes ==
    ASSUME Types, NEW i \in Handlers, Discover(i) \/ HandlerStep(i)
    PROVE  Types'
<1>1. ASSUME NEW d \in Ids, Close(i, d) PROVE Types'
  <2>1. h' \in [Handlers -> HandlerState] /\ Leaves(i)
        /\ h'[i].at = "close" /\ h'[i].dev = h[i].dev /\ h'[i].task = h[i].task
    BY <1>1 DEF Close, Types, HandlerTypes, HandlerState, Spots, AtDevice, Stopping, Leaves
  <2>2. Shape(i)'
    BY <1>1, <2>1 DEF Close, Types, Shapes, Shape, AtDevice, Stopping
  <2>3. TaskTypes'
    BY <1>1 DEF Close, Types, TaskTypes
  <2> QED BY <1>1, <2>1, <2>2, <2>3, ShapesKept
          DEF Close, Types, lists, ListTypes, FlagTypes, HandlerTypes
<1>2. ASSUME NEW d \in Ids, StopReturns(i, d) PROVE Types'
  <2>1. devices' \in [Ids -> {0} \cup Tasks]
    BY <1>2 DEF StopReturns, Types, TaskTypes
  <2>2. UNCHANGED <<lists, scanning, asked, past>>
    BY <1>2 DEF StopReturns
  <2>3. h[i].ids \in SUBSET Ids /\ h[i].then \in Thens
    BY DEF Types, HandlerTypes, HandlerState
  <2>4. CASE StopNext(i, h[i].ids)
    <3>1. TaskTypes' /\ paused' \in BOOLEAN /\ HandlerTypes' /\ Leaves(i) /\ Shape(i)'
      BY <2>1, <2>3, <2>4, StopNextTypes DEF Types, FlagTypes
    <3> QED BY <2>2, <3>1, ShapesKept DEF Types, lists, ListTypes, FlagTypes
  <2>5. CASE /\ h[i].then # "all" /\ UNCHANGED <<managed, alive, cancelled, open>>
             /\ Settle /\ Stopped(i, d, h[i].then)
    <3>1. h[i].then \in {"end", "again"}
      BY <2>3, <2>5 DEF Thens
    <3>2. Becomes(i, h[i].then, IF h[i].then = "again" THEN {d} ELSE {}, 0, "end", {}, FALSE)
      BY <2>5, <3>1, StoppedBecomes DEF Types
    <3>3. HandlerTypes' /\ Leaves(i) /\ Shape(i)'
      BY <3>1, <3>2 DEF Becomes, HandlerTypes, Shape, AtDevice, Stopping
    <3>4. TaskTypes'
      BY <2>1, <2>5 DEF Types, TaskTypes
    <3> QED BY <2>2, <2>5, <3>3, <3>4, ShapesKept, SettleType
            DEF Types, lists, ListTypes, FlagTypes
  <2> QED BY <1>2, <2>4, <2>5 DEF StopReturns
<1>3. ASSUME NEW d \in Ids, StartAgain(i, d) PROVE Types'
  <2>1. Becomes(i, "end", {}, 0, h[i].then, h[i].ids, h[i].was)
    BY <1>3, GotoBecomes DEF StartAgain, Types, Spots
  <2>2. HandlerTypes' /\ Leaves(i) /\ Shape(i)'
    BY <2>1 DEF Becomes, HandlerTypes, Shape, AtDevice, Stopping
  <2>3. TaskTypes' /\ paused' \in BOOLEAN
    BY <1>3, StartTypes, SettleType DEF StartAgain, Types
  <2> QED BY <1>3, <2>2, <2>3, ShapesKept DEF StartAgain, Types, lists, ListTypes, FlagTypes
<1>4. CASE AllStopped(i)
  <2>1. Becomes(i, "end", {}, 0, h[i].then, h[i].ids, h[i].was)
    BY <1>4, GotoBecomes DEF AllStopped, Types, Spots
  <2>2. HandlerTypes' /\ Leaves(i) /\ Shape(i)'
    BY <2>1 DEF Becomes, HandlerTypes, Shape, AtDevice, Stopping
  <2> QED BY <1>4, <2>2, ShapesKept, SettleType
          DEF AllStopped, Types, lists, tasks, ListTypes, TaskTypes, FlagTypes
<1>5. CASE Answer(i) \/ ScanEnd(i)
  <2>1. h' = [h EXCEPT ![i] = Idle]
    BY <1>5 DEF Answer, ScanEnd
  <2>2. HandlerTypes' /\ Leaves(i) /\ h'[i] = Idle
    BY <2>1, IdleType DEF Types, HandlerTypes, Leaves
  <2>3. Shape(i)'
    BY <2>2 DEF Shape, Idle, AtDevice, Stopping
  <2>4. ListTypes' /\ TaskTypes' /\ FlagTypes'
    BY <1>5 DEF Answer, ScanEnd, Types, lists, tasks, ListTypes, TaskTypes, FlagTypes
  <2> QED BY <2>2, <2>3, <2>4, ShapesKept DEF Types
<1>6. CASE ScanBegin(i)
  <2>1. h' \in [Handlers -> HandlerState] /\ Leaves(i)
        /\ h'[i].at = "scan" /\ h'[i].dev = h[i].dev
    <3>1. h' = [h EXCEPT ![i].at = "scan", ![i].was = paused] /\ paused \in BOOLEAN
      BY <1>6 DEF ScanBegin, Types, FlagTypes
    <3>2. h \in [Handlers -> HandlerState]
      BY DEF Types, HandlerTypes
    <3>3. h' \in [Handlers -> HandlerState]
      <4>1. [h[i] EXCEPT !.at = "scan", !.was = paused] \in HandlerState
        BY <3>1, <3>2, SpotsNamed DEF HandlerState
      <4> QED BY <3>1, <3>2, <4>1
    <3>4. Leaves(i)
      BY <3>1, <3>2 DEF Leaves
    <3>5. h'[i].at = "scan" /\ h'[i].dev = h[i].dev
      BY <3>1, <3>2 DEF HandlerState
    <3> QED BY <3>3, <3>4, <3>5
  <2>2. Shape(i)'
    BY <1>6, <2>1 DEF ScanBegin, Types, Shapes, Shape, AtDevice, Stopping
  <2>3. ListTypes' /\ TaskTypes' /\ FlagTypes'
    BY <1>6 DEF ScanBegin, Types, lists, tasks, ListTypes, TaskTypes, FlagTypes
  <2> QED BY <2>1, <2>2, <2>3, ShapesKept DEF Types, HandlerTypes
<1>7. CASE ScanFound(i)
  <2>1. UNCHANGED <<frozen, shared, scanning, asked>> /\ h[i].at = "scan" /\ h[i].dev = {}
    BY <1>7 DEF ScanFound, Types, Shapes, Shape, AtDevice, Stopping
  <2>2. CASE h' = [h EXCEPT ![i].at = "told"] /\ UNCHANGED <<entries, tasks, paused, past>>
    <3>1. h' \in [Handlers -> HandlerState] /\ Leaves(i)
          /\ h'[i].at = "told" /\ h'[i].dev = {}
      BY <2>1, <2>2 DEF Types, HandlerTypes, HandlerState, Spots, Leaves
    <3>2. Shape(i)'
      BY <3>1 DEF Shape, AtDevice, Stopping
    <3>3. ListTypes' /\ TaskTypes' /\ FlagTypes'
      BY <2>1, <2>2 DEF Types, tasks, ListTypes, TaskTypes, FlagTypes
    <3> QED BY <3>1, <3>2, <3>3, ShapesKept DEF Types, HandlerTypes
  <2>3. ASSUME NEW d \in Ids, NEW ids \in SUBSET Ids, entries' = [entries EXCEPT ![d] = "on"],
               ScanNext(i, ids), Passes(ids, FALSE)
        PROVE  Types'
    <3>1. TaskTypes' /\ paused' \in BOOLEAN /\ HandlerTypes' /\ Leaves(i) /\ Shape(i)'
      BY <2>1, <2>3, ScanNextTypes DEF Types, FlagTypes
    <3>2. ListTypes' /\ past' \in {"serial", "aligned", "drifted"}
      BY <2>1, <2>3, EntriesType, PassesType DEF Types, FlagTypes, Entry
    <3> QED BY <2>1, <3>1, <3>2, ShapesKept DEF Types, FlagTypes
  <2>4. {x \in Ids : entries'[x] # "absent"} \in SUBSET Ids
    OBVIOUS
  <2> QED BY <1>7, <2>2, <2>3, <2>4 DEF ScanFound
<1>8. CASE ScanAdds(i)
  <2>1. h[i].ids \in SUBSET Ids /\ h[i].dev = {}
    BY <1>8 DEF ScanAdds, Types, HandlerTypes, HandlerState, Shapes, Shape, AtDevice, Stopping
  <2>2. TaskTypes' /\ paused' \in BOOLEAN /\ HandlerTypes' /\ Leaves(i) /\ Shape(i)'
    BY <1>8, <2>1, ScanNextTypes DEF ScanAdds, Types, FlagTypes
  <2> QED BY <1>8, <2>2, ShapesKept DEF ScanAdds, Types, lists, ListTypes, FlagTypes
<1>9. CASE Discover(i)
  <2>1. asked' \in 0 .. MaxRequests
    BY <1>9, AcceptFacts DEF Discover
  <2>2. Becomes(i, "asked", {}, 0, h[i].then, h[i].ids, h[i].was)
    BY <1>9, GotoBecomes DEF Discover, Types, Spots
  <2>3. HandlerTypes' /\ Leaves(i) /\ Shape(i)'
    BY <2>2 DEF Becomes, HandlerTypes, Shape, AtDevice, Stopping
  <2> QED BY <1>9, <2>1, <2>3, ShapesKept
          DEF Discover, Types, lists, tasks, ListTypes, TaskTypes, FlagTypes
<1> QED BY <1>1, <1>2, <1>3, <1>4, <1>5, <1>6, <1>7, <1>8, <1>9 DEF HandlerStep

LEMMA StepTypes == Types /\ [Next]_vars => Types'
<1> SUFFICES ASSUME Types, [Next]_vars PROVE Types'
  OBVIOUS
<1>1. ASSUME NEW d \in Ids, NEW t \in Tasks, TaskEnds(d, t) PROVE Types'
  BY <1>1 DEF TaskEnds, Types, lists, ListTypes, TaskTypes, FlagTypes, HandlerTypes, Shapes, Shape
<1>2. CASE UNCHANGED vars
  BY <1>2 DEF vars, Types, lists, tasks, ListTypes, TaskTypes, FlagTypes, HandlerTypes, Shapes, Shape
<1> QED BY <1>1, <1>2, AddTypes, EditTypes, DeleteTypes, SaveTypes, ImportTypes, StepsTypes DEF Next

\* The module's type invariant (the shapes of the handlers with it).
THEOREM TypesCorrect == Spec => []TypeOK
<1>1. Types => TypeOK
  <2> SUFFICES ASSUME Types PROVE TypeOK
    OBVIOUS
  <2>1. ASSUME NEW i \in Handlers
        PROVE  /\ Visits(i) \subseteq Ids
               /\ h[i].at \in {"await", "close"} => h[i].task \in Tasks /\ h[i].dev # {}
    <3>1. h[i].dev \subseteq Ids /\ h[i].ids \subseteq Ids
      BY DEF Types, HandlerTypes, HandlerState
    <3> QED BY <3>1 DEF Types, Shapes, Shape, Stopping, AtDevice, Visits
  <2>2. ListTypes /\ TaskTypes /\ FlagTypes
    BY DEF Types
  <2>3. {shared, paused, scanning} \subseteq BOOLEAN
    BY <2>2, Zenon DEF ListTypes, FlagTypes
  <2> QED BY <2>1, <2>2, <2>3, Zenon DEF TypeOK, ListTypes, TaskTypes, FlagTypes
<1> QED BY <1>1, InitTypes, StepTypes, PTL DEF Spec

-----------------------------------------------------------------------------
(***************************************************************************)
(* Plugins: what has been cancelled, or is open and no longer polled, has  *)
(* a handler that waits for it and will close it.                          *)
(***************************************************************************)

Awaited(d, t) ==
    \E i \in Handlers : h[i].at = "await" /\ h[i].dev = {d} /\ h[i].task = t

Plugin(d) ==
    /\ cancelled[d] \subseteq alive[d] /\ alive[d] \subseteq open[d]
    /\ managed[d] # 0 => managed[d] \in alive[d] \ cancelled[d]
    /\ \A t \in cancelled[d] \cup (open[d] \ alive[d]) : Awaited(d, t)

Plugins == \A d \in Ids : Plugin(d)

\* What a handler does that waits for no task: nothing to the tasks, or it starts
\* one, or it stops a device and waits for the task that device had.
Cancels(i, d) ==
    /\ StopDevice(d) /\ managed[d] # 0
    /\ h'[i].at = "await" /\ h'[i].dev = {d} /\ h'[i].task = managed[d]

Works(i) ==
    /\ Leaves(i) /\ h[i].at # "await"
    /\ \/ UNCHANGED <<managed, alive, cancelled, open>>
       \/ \E d \in Ids : NewTask(d) \/ Cancels(i, d)

LEMMA StartWorks ==
    ASSUME HandlerTypes, NEW i \in Handlers, NEW d \in Ids, NEW p \in Spots,
           h[i].at # "await", StartDevice(d), Goto(i, p)
    PROVE  Works(i)
<1>1. Leaves(i)
  BY GotoBecomes DEF Becomes
<1> QED BY <1>1 DEF Works, StartDevice, tasks

LEMMA ReconfigureWorks ==
    ASSUME TaskTypes, HandlerTypes, NEW i \in Handlers, NEW d \in Ids,
           NEW then \in {"end", "again"}, h[i].at # "await", ReconfigureStop(i, d, then)
    PROVE  Works(i)
<1>1. CASE managed[d] = 0
  <2>1. UNCHANGED tasks /\ Stopped(i, d, then)
    BY <1>1 DEF ReconfigureStop
  <2>2. Leaves(i)
    BY <2>1, StoppedBecomes DEF Becomes
  <2> QED BY <2>1, <2>2 DEF Works, tasks
<1>2. CASE managed[d] # 0
  <2>1. StopDevice(d) /\ AwaitTask(i, d, then, {})
    BY <1>2 DEF ReconfigureStop
  <2>2. Becomes(i, "await", {d}, managed[d], then, {}, h[i].was)
    BY <2>1, AwaitBecomes DEF Thens
  <2> QED BY <1>2, <2>1, <2>2 DEF Works, Becomes, Cancels
<1> QED BY <1>1, <1>2

LEMMA StopNextWorks ==
    ASSUME TaskTypes, HandlerTypes, NEW i \in Handlers, NEW ids \in SUBSET Ids,
           h[i].at # "await", StopNext(i, ids)
    PROVE  Works(i)
<1>1. CASE Goto(i, "no_inverter") /\ UNCHANGED <<managed, cancelled, alive, open>>
  <2>1. Leaves(i)
    BY <1>1, GotoBecomes DEF Becomes, Spots
  <2> QED BY <1>1, <2>1 DEF Works
<1>2. ASSUME NEW d \in ids, NEW rest \in SUBSET ids, managed[d] # 0, StopDevice(d),
             AwaitTask(i, d, "all", rest)
      PROVE  Works(i)
  <2>1. Becomes(i, "await", {d}, managed[d], "all", rest, h[i].was)
    BY <1>2, AwaitBecomes DEF Thens
  <2> QED BY <1>2, <2>1 DEF Works, Becomes, Cancels
<1> QED BY <1>1, <1>2 DEF StopNext

LEMMA ScanNextWorks ==
    ASSUME HandlerTypes, NEW i \in Handlers, NEW ids \in SUBSET Ids,
           h[i].at # "await", ScanNext(i, ids)
    PROVE  Works(i)
<1>1. CASE h' = [h EXCEPT ![i].at = "told", ![i].ids = {}] /\ UNCHANGED <<tasks, paused>>
  BY <1>1 DEF HandlerTypes, Leaves, Works, tasks
<1>2. ASSUME NEW d \in ids, NEW rest \in SUBSET ids, StartDevice(d),
             h' = [h EXCEPT ![i].at = "adding", ![i].ids = rest]
      PROVE  Works(i)
  <2>1. Leaves(i)
    BY <1>2 DEF HandlerTypes, Leaves
  <2> QED BY <1>2, <2>1 DEF Works, StartDevice, tasks
<1> QED BY <1>1, <1>2 DEF ScanNext

LEMMA RequestsWork ==
    ASSUME Types, NEW i \in Handlers, NEW d \in Ids,
           \/ \E e \in {"off", "on"} : Add(i, d, e)
           \/ \E e \in {"off", "on"}, valid \in BOOLEAN : Edit(i, d, e, valid)
           \/ Delete(i, d)
           \/ \E e \in Entry : Save(i, d, e) \/ Import(i, d, e)
           \/ Discover(i)
    PROVE  Works(i)
<1>1. h[i].at = "idle"
  BY DEF Add, Edit, Delete, Save, Import, Discover, Accept
<1>2. ASSUME UNCHANGED <<tasks, h>> PROVE Works(i)
  BY <1>1, <1>2 DEF Works, Leaves, tasks
<1>3. ASSUME UNCHANGED tasks, NEW p \in Spots, Goto(i, p) PROVE Works(i)
  <2>1. Leaves(i)
    BY <1>3, GotoBecomes DEF Types, Becomes
  <2> QED BY <1>1, <1>3, <2>1 DEF Works, tasks
<1>4. {"end", "asked"} \subseteq Spots
  BY DEF Spots
<1>5. ASSUME NEW e \in {"off", "on"}, Add(i, d, e) PROVE Works(i)
  BY <1>1, <1>2, <1>4, <1>5, StartWorks DEF Add, Types
<1>6. ASSUME NEW e \in {"off", "on"}, NEW valid \in BOOLEAN, Edit(i, d, e, valid) PROVE Works(i)
  <2>1. (IF e = "on" THEN "again" ELSE "end") \in {"end", "again"}
    OBVIOUS
  <2>2. CASE ReconfigureStop(i, d, IF e = "on" THEN "again" ELSE "end")
    BY <1>1, <2>1, <2>2, ReconfigureWorks DEF Types
  <2> QED BY <1>1, <1>2, <1>4, <1>6, <2>2, StartWorks DEF Edit, Types
<1>7. CASE Delete(i, d)
  BY <1>1, <1>7, ReconfigureWorks DEF Delete, Types
<1>8. ASSUME NEW e \in Entry, Save(i, d, e) PROVE Works(i)
  <2>1. {x \in Ids : managed[x] # 0} \in SUBSET Ids
    OBVIOUS
  <2>2. CASE StopNext(i, {x \in Ids : managed[x] # 0})
    BY <1>1, <2>1, <2>2, StopNextWorks DEF Types
  <2> QED BY <1>2, <1>3, <1>4, <1>8, <2>2 DEF Save
<1>9. ASSUME NEW e \in Entry, Import(i, d, e) PROVE Works(i)
  BY <1>2, <1>9 DEF Import
<1>10. CASE Discover(i)
  BY <1>3, <1>4, <1>10 DEF Discover
<1> QED BY <1>5, <1>6, <1>7, <1>8, <1>9, <1>10

LEMMA StepsWork ==
    ASSUME Types, NEW i \in Handlers, HandlerStep(i)
    PROVE  Works(i) \/ \E d \in Ids : Close(i, d)
<1>1. ASSUME NEW d \in Ids, StopReturns(i, d) PROVE Works(i)
  <2>1. h[i].at # "await" /\ h[i].ids \in SUBSET Ids /\ h[i].then \in Thens
    BY <1>1 DEF StopReturns, Types, HandlerTypes, HandlerState
  <2>2. CASE StopNext(i, h[i].ids)
    BY <2>1, <2>2, StopNextWorks DEF Types
  <2>3. CASE /\ h[i].then # "all" /\ UNCHANGED <<managed, alive, cancelled, open>>
             /\ Stopped(i, d, h[i].then)
    <3>1. h[i].then \in {"end", "again"}
      BY <2>1, <2>3 DEF Thens
    <3>2. Leaves(i)
      BY <2>3, <3>1, StoppedBecomes DEF Types, Becomes
    <3> QED BY <2>1, <2>3, <3>2 DEF Works
  <2> QED BY <1>1, <2>2, <2>3 DEF StopReturns
<1>2. ASSUME NEW d \in Ids, StartAgain(i, d) PROVE Works(i)
  BY <1>2, StartWorks DEF StartAgain, Types, Spots
<1>3. CASE AllStopped(i)
  <2>1. Leaves(i)
    BY <1>3, GotoBecomes DEF AllStopped, Types, Spots, Becomes
  <2> QED BY <1>3, <2>1 DEF AllStopped, Works, tasks
<1>4. CASE Answer(i) \/ ScanBegin(i) \/ ScanEnd(i)
  <2>1. Leaves(i)
    BY <1>4 DEF Answer, ScanBegin, ScanEnd, Leaves, Types, HandlerTypes
  <2> QED BY <1>4, <2>1 DEF Answer, ScanBegin, ScanEnd, Works, tasks
<1>5. CASE ScanFound(i)
  <2>1. h[i].at # "await"
    BY <1>5 DEF ScanFound
  <2>2. CASE h' = [h EXCEPT ![i].at = "told"] /\ UNCHANGED tasks
    BY <2>1, <2>2 DEF Types, HandlerTypes, Leaves, Works, tasks
  <2>3. ASSUME NEW ids \in SUBSET Ids, ScanNext(i, ids) PROVE Works(i)
    BY <2>1, <2>3, ScanNextWorks DEF Types
  <2>4. {x \in Ids : entries'[x] # "absent"} \in SUBSET Ids
    OBVIOUS
  <2> QED BY <1>5, <2>2, <2>3, <2>4 DEF ScanFound
<1>6. CASE ScanAdds(i)
  <2>1. h[i].at # "await" /\ h[i].ids \in SUBSET Ids
    BY <1>6 DEF ScanAdds, Types, HandlerTypes, HandlerState
  <2> QED BY <1>6, <2>1, ScanNextWorks DEF ScanAdds, Types
<1> QED BY <1>1, <1>2, <1>3, <1>4, <1>5, <1>6 DEF HandlerStep

LEMMA AwaitedStays ==
    ASSUME NEW i \in Handlers, Leaves(i), h[i].at # "await", NEW d \in Ids, NEW t, Awaited(d, t)
    PROVE  Awaited(d, t)'
  BY DEF Leaves, Awaited

\* The invariant is kept by the handlers,
LEMMA WorksPlugins ==
    ASSUME Types, Plugins, NEW i \in Handlers, Works(i)
    PROVE  Plugins'
<1>1. CASE UNCHANGED <<managed, alive, cancelled, open>>
  BY <1>1, AwaitedStays DEF Works, Plugins, Plugin
<1>2. ASSUME NEW d \in Ids, NewTask(d) PROVE Plugins'
  <2>1. PICK t \in Unused(d) :
            /\ managed' = [managed EXCEPT ![d] = t]
            /\ alive' = [alive EXCEPT ![d] = @ \cup {t}]
            /\ open' = [open EXCEPT ![d] = @ \cup {t}]
            /\ cancelled' = cancelled
    BY <1>2 DEF NewTask
  <2>2. t \notin open[d] /\ t \notin cancelled[d]
    BY <2>1 DEF Unused, Plugins, Plugin
  <2>3. ASSUME NEW c \in Ids PROVE Plugin(c)'
    <3>1. CASE c = d
      <4>1. managed'[d] = t /\ alive'[d] = alive[d] \cup {t} /\ open'[d] = open[d] \cup {t}
            /\ cancelled'[d] = cancelled[d]
        BY <2>1 DEF Types, TaskTypes
      <4> QED BY <2>2, <3>1, <4>1, AwaitedStays DEF Works, Plugins, Plugin
    <3>2. CASE c # d
      <4>1. managed'[c] = managed[c] /\ alive'[c] = alive[c] /\ open'[c] = open[c]
            /\ cancelled'[c] = cancelled[c]
        BY <2>1, <3>2 DEF Types, TaskTypes
      <4> QED BY <4>1, AwaitedStays DEF Works, Plugins, Plugin
    <3> QED BY <3>1, <3>2
  <2> QED BY <2>3 DEF Plugins
<1>3. ASSUME NEW d \in Ids, Cancels(i, d) PROVE Plugins'
  <2>1. ASSUME NEW c \in Ids PROVE Plugin(c)'
    <3>1. CASE c = d
      <4>1. /\ managed'[d] = 0 /\ alive'[d] = alive[d] /\ open'[d] = open[d]
            /\ cancelled'[d] \subseteq cancelled[d] \cup {managed[d]}
            /\ cancelled'[d] \subseteq alive[d]
        BY <1>3 DEF Cancels, StopDevice, Types, TaskTypes, Plugins, Plugin
      <4>2. \A t : t = managed[d] => Awaited(d, t)'
        BY <1>3 DEF Cancels, Awaited
      <4>3. \A t \in cancelled'[d] \cup (open'[d] \ alive'[d]) : Awaited(d, t)'
        BY <4>1, <4>2, AwaitedStays DEF Works, Plugins, Plugin
      <4> QED BY <3>1, <4>1, <4>3 DEF Plugins, Plugin
    <3>2. CASE c # d
      <4>1. managed'[c] = managed[c] /\ alive'[c] = alive[c] /\ open'[c] = open[c]
            /\ cancelled'[c] = cancelled[c]
        BY <1>3, <3>2 DEF Cancels, StopDevice, Types, TaskTypes
      <4> QED BY <4>1, AwaitedStays DEF Works, Plugins, Plugin
    <3> QED BY <3>1, <3>2
  <2> QED BY <2>1 DEF Plugins
<1> QED BY <1>1, <1>2, <1>3 DEF Works

\* by the end of what a handler waits for,
LEMMA ClosePlugins ==
    ASSUME Types, Plugins, NEW i \in Handlers, NEW d \in Ids, Close(i, d)
    PROVE  Plugins'
<1>1. Leaves(i)
  BY DEF Close, Types, HandlerTypes, Leaves
<1>2. ASSUME NEW c \in Ids PROVE Plugin(c)'
  <2>1. managed'[c] = managed[c] /\ alive'[c] = alive[c] /\ cancelled'[c] = cancelled[c]
    BY DEF Close
  <2>2. open'[c] = IF c = d THEN open[d] \ {h[i].task} ELSE open[c]
    BY DEF Close, Types, TaskTypes
  <2>3. alive'[c] \subseteq open'[c]
    BY <2>1, <2>2 DEF Close, Plugins, Plugin
  <2>4. ASSUME NEW t \in cancelled'[c] \cup (open'[c] \ alive'[c]) PROVE Awaited(c, t)'
    <3>1. Awaited(c, t)
      BY <2>1, <2>2, <2>4 DEF Plugins, Plugin
    <3>2. ~ (c = d /\ t = h[i].task)
      BY <2>1, <2>2, <2>4 DEF Close, Plugins, Plugin
    <3>3. PICK j \in Handlers : h[j].at = "await" /\ h[j].dev = {c} /\ h[j].task = t
      BY <3>1 DEF Awaited
    <3>4. j # i
      BY <3>2, <3>3 DEF Close
    <3> QED BY <1>1, <3>3, <3>4 DEF Leaves, Awaited
  <2> QED BY <2>1, <2>3, <2>4 DEF Plugins, Plugin
<1> QED BY <1>2 DEF Plugins

\* and by the end of a task.
LEMMA EndPlugins ==
    ASSUME Types, Plugins, NEW d \in Ids, NEW t \in Tasks, TaskEnds(d, t)
    PROVE  Plugins'
<1>1. ASSUME NEW c \in Ids PROVE Plugin(c)'
  <2>1. managed'[c] = managed[c] /\ open'[c] = open[c]
    BY DEF TaskEnds
  <2>2. /\ alive'[c] = IF c = d THEN alive[d] \ {t} ELSE alive[c]
        /\ cancelled'[c] = IF c = d THEN cancelled[d] \ {t} ELSE cancelled[c]
    BY DEF TaskEnds, Types, TaskTypes
  <2>3. \A u : Awaited(c, u)' <=> Awaited(c, u)
    BY DEF TaskEnds, Awaited
  <2>4. t \in cancelled[d]
    BY DEF TaskEnds
  <2> QED BY <2>1, <2>2, <2>3, <2>4 DEF Plugins, Plugin
<1> QED BY <1>1 DEF Plugins

LEMMA InitPlugins == Init => Plugins
<1> SUFFICES ASSUME Init, NEW d \in Ids PROVE Plugin(d)
  BY DEF Plugins
<1>1. managed[d] = 0 /\ alive[d] = {} /\ cancelled[d] = {} /\ open[d] = {}
  BY DEF Init
<1> QED BY <1>1 DEF Plugin

LEMMA StepPlugins == Types /\ Plugins /\ [Next]_vars => Plugins'
<1> SUFFICES ASSUME Types, Plugins, [Next]_vars PROVE Plugins'
  OBVIOUS
<1>1. ASSUME NEW i \in Handlers, HandlerStep(i) PROVE Plugins'
  BY <1>1, StepsWork, WorksPlugins, ClosePlugins
<1>2. ASSUME NEW i \in Handlers, NEW d \in Ids,
             \/ \E e \in {"off", "on"} : Add(i, d, e)
             \/ \E e \in {"off", "on"}, valid \in BOOLEAN : Edit(i, d, e, valid)
             \/ Delete(i, d)
             \/ \E e \in Entry : Save(i, d, e) \/ Import(i, d, e)
      PROVE  Plugins'
  BY <1>2, RequestsWork, WorksPlugins
<1>3. ASSUME NEW i \in Handlers, Discover(i) PROVE Plugins'
  <2>1. UNCHANGED tasks /\ Goto(i, "asked") /\ h[i].at # "await"
    BY <1>3 DEF Discover, Accept
  <2>2. Leaves(i)
    BY <2>1, GotoBecomes DEF Types, Becomes, Spots
  <2> QED BY <2>1, <2>2, WorksPlugins DEF Works, tasks
<1>4. ASSUME NEW d \in Ids, NEW t \in Tasks, TaskEnds(d, t) PROVE Plugins'
  BY <1>4, EndPlugins
<1>5. CASE UNCHANGED vars
  BY <1>5 DEF vars, tasks, Plugins, Plugin, Awaited
<1> QED BY <1>1, <1>2, <1>3, <1>4, <1>5 DEF Next

\* A poll loop never runs against a closed plugin, and when no request is at work
\* every plugin that is not polled has been closed: start_device() and stop_device()
\* leak no connection, whatever requests overlap.
THEOREM PluginsCorrect == Spec => []PollsOpenPlugin
<1>1. Plugins => PollsOpenPlugin
  <2> SUFFICES ASSUME Plugins, NEW d \in Ids
               PROVE  alive[d] \subseteq open[d] /\ (Quiet => alive[d] = open[d])
    BY DEF PollsOpenPlugin
  <2>1. Quiet => \A t : ~ Awaited(d, t)
    BY DEF Quiet, Awaited
  <2> QED BY <2>1 DEF Plugins, Plugin
<1> QED BY <1>1, InitTypes, StepTypes, InitPlugins, StepPlugins, PTL DEF Spec

-----------------------------------------------------------------------------
(***************************************************************************)
(* The config: as long as it changes together with the registry, what is   *)
(* enabled and not managed has a handler that is on its way to start it.   *)
(***************************************************************************)

Restarts(i, d) ==
    \/ h[i].dev = {d} /\ h[i].at = "again"
    \/ h[i].dev = {d} /\ h[i].at \in Stopping /\ h[i].then = "again"
    \/ devices[d] = 0 /\ h[i].at = "adding" /\ d \in h[i].ids

Wanted(d) ==
    /\ managed[d] # 0 => entries[d] = "on"
    /\ entries[d] = "on" /\ managed[d] = 0 => \E i \in Handlers : Restarts(i, d)

\* No handler is in stop_all(): it would stop what is enabled.
NotAll(i) == h[i].at \in Stopping => h[i].then # "all"

Aligned ==
    /\ shared = TRUE
    /\ \A d \in Ids : Wanted(d)
    /\ \A i \in Handlers : NotAll(i)

Config == past # "drifted" => Aligned

\* A device a step does not touch.
Same(d) ==
    /\ managed'[d] = managed[d] /\ devices'[d] = devices[d]
    /\ alive'[d] = alive[d] /\ cancelled'[d] = cancelled[d]

LEMMA PassesFacts ==
    ASSUME NEW ds, NEW drift \in BOOLEAN, Passes(ds, drift)
    PROVE  /\ past' # "drifted" => past # "drifted" /\ ~ drift
           /\ past' = "serial" => past = "serial" /\ \A j \in Handlers : Visits(j) \cap ds = {}
<1>1. CASE drift \/ past = "drifted"
  BY <1>1, Zenon DEF Passes
<1>2. CASE ~(drift \/ past = "drifted")
  <2>1. past' = IF \E j \in Handlers : Visits(j) \cap ds # {} THEN "aligned" ELSE past
    BY <1>2, Zenon DEF Passes
  <2> QED BY <1>2, <2>1
<1> QED BY <1>1, <1>2

\* start_device() starts what is enabled, and touches nothing else.
LEMMA StartEffect ==
    ASSUME Types, NEW d \in Ids, StartDevice(d)
    PROVE  /\ \A c \in Ids \ {d} : Same(c)
           /\ Find(d) # "on" => Same(d)
           /\ Find(d) = "on" => \E t \in Tasks :
                 /\ managed'[d] = t /\ devices'[d] = t
                 /\ alive'[d] = alive[d] \cup {t} /\ cancelled'[d] = cancelled[d]
<1>1. CASE Find(d) # "on"
  BY <1>1 DEF StartDevice, Same, tasks
<1>2. CASE Find(d) = "on"
  <2>1. PICK t \in Unused(d) :
            /\ managed' = [managed EXCEPT ![d] = t] /\ devices' = [devices EXCEPT ![d] = t]
            /\ alive' = [alive EXCEPT ![d] = @ \cup {t}] /\ cancelled' = cancelled
    BY <1>2 DEF StartDevice, NewTask
  <2>2. t \in Tasks
    BY DEF Unused
  <2>3. /\ managed'[d] = t /\ devices'[d] = t
        /\ alive'[d] = alive[d] \cup {t} /\ cancelled'[d] = cancelled[d]
    BY <2>1 DEF Types, TaskTypes
  <2>4. \A c \in Ids \ {d} : Same(c)
    BY <2>1 DEF Types, TaskTypes, Same
  <2> QED BY <1>2, <2>2, <2>3, <2>4
<1> QED BY <1>1, <1>2

\* stop_device() cancels the task that was managed, up to its first await.
LEMMA StopEffect ==
    ASSUME Types, NEW d \in Ids, StopDevice(d)
    PROVE  /\ \A c \in Ids \ {d} : managed'[c] = managed[c] /\ alive'[c] = alive[c]
                                   /\ cancelled'[c] = cancelled[c]
           /\ managed'[d] = 0 /\ alive'[d] = alive[d]
  BY DEF StopDevice, Types, TaskTypes

LEMMA WantedStays ==
    ASSUME Types, NEW i \in Handlers, Leaves(i), NEW d \in Ids, Wanted(d),
           entries'[d] = entries[d], managed'[d] = managed[d], devices'[d] \in {0, devices[d]},
           Restarts(i, d) => Restarts(i, d)'
    PROVE  Wanted(d)'
<1>1. \A j \in Handlers : Restarts(j, d) => Restarts(j, d)'
  BY DEF Restarts, Leaves
<1> QED BY <1>1 DEF Wanted

\* Of the handlers too, the one that moved is all that has to be looked at.
LEMMA NotAllStays ==
    ASSUME Aligned, NEW i \in Handlers, Leaves(i), NotAll(i)'
    PROVE  \A j \in Handlers : NotAll(j)'
  BY DEF Aligned, Leaves, NotAll

\* A handler that is idle, or stands where it starts nothing.
Elsewhere == {"idle", "end", "no_inverter", "asked", "scan", "told"}

LEMMA NoRestarts ==
    ASSUME Types, NEW i \in Handlers, h[i].at \in Elsewhere
    PROVE  \A d : ~ Restarts(i, d)
  BY DEF Restarts, Elsewhere, Stopping

\* A device that is not enabled, and not managed, wants nothing.
LEMMA Unwanted ==
    ASSUME NEW d \in Ids, entries'[d] # "on", managed'[d] = 0
    PROVE  Wanted(d)'
  BY DEF Wanted

\* A device that has just been started is one that is enabled.
LEMMA StartWanted ==
    ASSUME Types, shared = TRUE, NEW i \in Handlers, Leaves(i), NEW d \in Ids, StartDevice(d),
           \A c \in Ids \ {d} : Wanted(c) /\ entries'[c] = entries[c],
           \A c \in Ids \ {d} : Restarts(i, c) => Restarts(i, c)',
           managed[d] # 0 => entries'[d] = "on"
    PROVE  \A c \in Ids : Wanted(c)'
<1>1. Find(d) = entries'[d]
  BY DEF Find
<1>2. ASSUME NEW c \in Ids, c # d PROVE Wanted(c)'
  <2>1. Same(c)
    BY <1>2, StartEffect
  <2> QED BY <1>2, <2>1, WantedStays DEF Same
<1>3. CASE entries'[d] = "on"
  <2>1. managed'[d] \in Tasks
    BY <1>1, <1>3, StartEffect
  <2>2. Wanted(d)'
    BY <1>3, <2>1, NumberFacts DEF Wanted
  <2> QED BY <1>2, <2>2
<1>4. CASE entries'[d] # "on"
  <2>1. managed'[d] = 0
    BY <1>1, <1>4, StartEffect DEF Same
  <2> QED BY <1>2, <1>4, <2>1, Unwanted
<1> QED BY <1>3, <1>4

\* A device that is stopped to be started again is one that is enabled.
LEMMA ReconfigureWanted ==
    ASSUME Types, NEW i \in Handlers, h[i].at = "idle", NEW d \in Ids,
           NEW then \in {"end", "again"}, ReconfigureStop(i, d, then),
           \A c \in Ids : Wanted(c),
           \A c \in Ids \ {d} : entries'[c] = entries[c],
           entries'[d] = "on" => then = "again"
    PROVE  Leaves(i) /\ NotAll(i)' /\ \A c \in Ids : Wanted(c)'
<1>1. \A c : ~ Restarts(i, c)
  BY NoRestarts DEF Elsewhere
<1>2. CASE managed[d] = 0
  <2>1. UNCHANGED tasks /\ Stopped(i, d, then)
    BY <1>2 DEF ReconfigureStop
  <2>2. Becomes(i, then, IF then = "again" THEN {d} ELSE {}, 0, "end", {}, FALSE)
    BY <2>1, StoppedBecomes DEF Types
  <2>3. Leaves(i) /\ NotAll(i)'
    BY <2>2 DEF Becomes, NotAll, Stopping
  <2>4. ASSUME NEW c \in Ids, c # d PROVE Wanted(c)'
    BY <1>1, <2>1, <2>3, <2>4, WantedStays DEF tasks
  <2>5. Wanted(d)'
    <3>1. CASE then = "again"
      <4>1. Restarts(i, d)'
        BY <2>2, <3>1 DEF Becomes, Restarts
      <4> QED BY <1>2, <2>1, <4>1 DEF Wanted, tasks
    <3>2. CASE then # "again"
      BY <1>2, <2>1, <3>2, Unwanted DEF tasks
    <3> QED BY <3>1, <3>2
  <2> QED BY <2>3, <2>4, <2>5
<1>3. CASE managed[d] # 0
  <2>1. StopDevice(d) /\ UNCHANGED devices /\ AwaitTask(i, d, then, {})
    BY <1>3 DEF ReconfigureStop
  <2>2. Becomes(i, "await", {d}, managed[d], then, {}, h[i].was)
    BY <2>1, AwaitBecomes DEF Types, Thens
  <2>3. Leaves(i) /\ NotAll(i)'
    BY <2>2 DEF Becomes, NotAll, Stopping
  <2>4. ASSUME NEW c \in Ids, c # d PROVE Wanted(c)'
    BY <1>1, <2>1, <2>3, <2>4, StopEffect, WantedStays
  <2>5. managed'[d] = 0
    BY <2>1, StopEffect
  <2>6. Wanted(d)'
    <3>1. CASE then = "again"
      <4>1. Restarts(i, d)'
        BY <2>2, <3>1 DEF Becomes, Restarts, Stopping
      <4> QED BY <2>5, <4>1 DEF Wanted
    <3>2. CASE then # "again"
      BY <2>5, <3>2, Unwanted
    <3> QED BY <3>1, <3>2
  <2> QED BY <2>3, <2>4, <2>6
<1> QED BY <1>2, <1>3

\* A scan goes on until everything that it found enabled and unknown is started.
LEMMA ScanNextWanted ==
    ASSUME Types, shared = TRUE, NEW i \in Handlers, h[i].at \in {"scan", "adding"},
           NEW ids \in SUBSET Ids, ScanNext(i, ids), NEW found \in SUBSET ids,
           \A c \in found : entries'[c] = "on" /\ managed[c] = 0 /\ devices[c] = 0,
           \A c \in Ids \ found : Wanted(c) /\ entries'[c] = entries[c],
           \A c \in Ids \ found : Restarts(i, c) => c \in ids
    PROVE  Leaves(i) /\ NotAll(i)' /\ \A c \in Ids : Wanted(c)'
<1>1. h[i].dev = {}
  BY DEF Types, Shapes, Shape, AtDevice, Stopping
<1>2. \A c \in Ids : Restarts(i, c) => h[i].at = "adding" /\ c \in h[i].ids /\ devices[c] = 0
  BY <1>1 DEF Restarts
<1>3. CASE /\ {d \in ids : entries'[d] # "off" /\ devices[d] = 0} = {}
           /\ h' = [h EXCEPT ![i].at = "told", ![i].ids = {}] /\ UNCHANGED <<tasks, paused>>
  <2>1. Leaves(i) /\ h'[i].at = "told"
    BY <1>3 DEF Types, HandlerTypes, HandlerState, Leaves
  <2>2. found = {}
    BY <1>3
  <2>3. ASSUME NEW c \in Ids PROVE Wanted(c)'
    <3>1. CASE entries[c] = "on"
      <4>1. ~ Restarts(i, c)
        BY <1>2, <1>3, <2>2, <3>1
      <4> QED BY <1>3, <2>1, <2>2, <4>1, WantedStays DEF tasks
    <3>2. CASE entries[c] # "on"
      <4>1. entries'[c] # "on" /\ managed'[c] = 0
        BY <1>3, <2>2, <3>2 DEF Wanted, tasks
      <4> QED BY <4>1, Unwanted
    <3> QED BY <3>1, <3>2
  <2> QED BY <2>1, <2>3 DEF NotAll, Stopping
<1>4. ASSUME NEW d \in ids, NEW rest \in SUBSET ids,
             {c \in ids : entries'[c] # "off" /\ devices[c] = 0} \ {d} \subseteq rest,
             entries'[d] # "off", devices[d] = 0, StartDevice(d),
             h' = [h EXCEPT ![i].at = "adding", ![i].ids = rest]
      PROVE  Leaves(i) /\ NotAll(i)' /\ \A c \in Ids : Wanted(c)'
  <2>1. Leaves(i) /\ h'[i].at = "adding" /\ h'[i].ids = rest
    BY <1>4 DEF Types, HandlerTypes, HandlerState, Leaves
  <2>2. d \in Ids /\ Find(d) = entries'[d]
    BY DEF Find
  <2>3. ASSUME NEW c \in Ids, c # d PROVE Wanted(c)'
    <3>1. Same(c)
      BY <1>4, <2>2, <2>3, StartEffect
    <3>2. ASSUME entries'[c] = "on", c \in ids, devices[c] = 0 PROVE Restarts(i, c)'
      BY <1>4, <2>1, <2>3, <3>1, <3>2 DEF Restarts, Same
    <3>3. CASE c \in found
      BY <3>1, <3>2, <3>3 DEF Wanted, Same
    <3>4. CASE c \notin found /\ entries[c] = "on"
      <4>1. Restarts(i, c) => Restarts(i, c)'
        BY <1>2, <3>2, <3>4
      <4> QED BY <2>1, <3>1, <3>4, <4>1, WantedStays DEF Same
    <3>5. CASE c \notin found /\ entries[c] # "on"
      BY <3>1, <3>5, Unwanted DEF Wanted, Same
    <3> QED BY <3>3, <3>4, <3>5
  <2>4. Wanted(d)'
    <3>1. CASE entries'[d] = "on"
      <4>1. managed'[d] \in Tasks
        BY <1>4, <2>2, <3>1, StartEffect
      <4> QED BY <3>1, <4>1, NumberFacts DEF Wanted
    <3>2. CASE entries'[d] # "on"
      <4>1. Same(d)
        BY <1>4, <2>2, <3>2, StartEffect
      <4>2. managed[d] = 0
        BY <2>2, <3>2 DEF Wanted
      <4> QED BY <2>2, <3>2, <4>1, <4>2, Unwanted DEF Same
    <3> QED BY <3>1, <3>2
  <2> QED BY <2>1, <2>3, <2>4 DEF NotAll, Stopping
<1> QED BY <1>3, <1>4 DEF ScanNext

LEMMA AddConfig ==
    ASSUME Types, Config, NEW i \in Handlers, NEW d \in Ids, NEW e \in {"off", "on"}, Add(i, d, e)
    PROVE  Config'
<1> SUFFICES ASSUME past' # "drifted" PROVE Aligned'
  BY DEF Config
<1>1. Passes({d}, FALSE) /\ New(d) /\ shared' = shared /\ entries' = [entries EXCEPT ![d] = e]
      /\ h[i].at = "idle"
  BY DEF Add, Accept
<1>2. Aligned
  BY <1>1, PassesFacts DEF Config
<1>3. \A c \in Ids \ {d} : entries'[c] = entries[c]
  BY <1>1 DEF Types, ListTypes
<1>4. \A c : ~ Restarts(i, c)
  BY <1>1, NoRestarts DEF Elsewhere
<1>5. entries'[d] = e /\ managed[d] = 0
  BY <1>1 DEF Types, ListTypes, New
<1>6. CASE e = "on"
  <2>1. StartDevice(d) /\ Goto(i, "end")
    BY <1>6 DEF Add
  <2>2. Becomes(i, "end", {}, 0, h[i].then, h[i].ids, h[i].was)
    BY <2>1, GotoBecomes DEF Types, Spots
  <2>3. Leaves(i) /\ NotAll(i)'
    BY <2>2 DEF Becomes, NotAll, Stopping
  <2>4. \A c \in Ids : Wanted(c)'
    BY <1>2, <1>3, <1>4, <1>5, <2>1, <2>3, StartWanted DEF Aligned
  <2> QED BY <1>1, <1>2, <2>3, <2>4, NotAllStays DEF Aligned
<1>7. CASE e # "on"
  <2>1. UNCHANGED <<tasks, h>>
    BY <1>7 DEF Add
  <2>2. Leaves(i) /\ \A j \in Handlers : NotAll(j)'
    BY <1>2, <2>1 DEF Leaves, Aligned, NotAll
  <2>3. ASSUME NEW c \in Ids PROVE Wanted(c)'
    BY <1>2, <1>3, <1>4, <1>5, <1>7, <2>1, <2>2, WantedStays, Unwanted DEF Aligned, tasks
  <2> QED BY <1>1, <1>2, <2>2, <2>3 DEF Aligned
<1> QED BY <1>6, <1>7

LEMMA EditConfig ==
    ASSUME Types, Config, NEW i \in Handlers, NEW d \in Ids, NEW e \in {"off", "on"},
           NEW valid \in BOOLEAN, Edit(i, d, e, valid)
    PROVE  Config'
<1> SUFFICES ASSUME past' # "drifted" PROVE Aligned'
  BY DEF Config
<1>1. Passes({d}, ~valid /\ e # entries[d]) /\ shared' = shared
      /\ entries' = [entries EXCEPT ![d] = e] /\ h[i].at = "idle"
  BY DEF Edit, Accept
<1>2. Aligned /\ ~(~valid /\ e # entries[d])
  BY <1>1, PassesFacts DEF Config
<1>3. \A c \in Ids \ {d} : entries'[c] = entries[c]
  BY <1>1 DEF Types, ListTypes
<1>4. \A c : ~ Restarts(i, c)
  BY <1>1, NoRestarts DEF Elsewhere
<1>5. entries'[d] = e
  BY <1>1 DEF Types, ListTypes
<1>6. CASE (~valid \/ {e, entries[d]} = {"off"}) /\ UNCHANGED <<tasks, h>>
  <2>1. entries'[d] = entries[d]
    BY <1>2, <1>5, <1>6
  <2>2. Leaves(i) /\ \A j \in Handlers : NotAll(j)'
    BY <1>2, <1>6 DEF Leaves, Aligned, NotAll
  <2>3. ASSUME NEW c \in Ids PROVE Wanted(c)'
    BY <1>2, <1>3, <1>4, <1>6, <2>1, <2>2, WantedStays DEF Aligned, tasks
  <2> QED BY <1>1, <1>2, <2>2, <2>3 DEF Aligned
<1>7. CASE e = "on" /\ StartDevice(d) /\ Goto(i, "end")
  <2>1. Becomes(i, "end", {}, 0, h[i].then, h[i].ids, h[i].was)
    BY <1>7, GotoBecomes DEF Types, Spots
  <2>2. Leaves(i) /\ NotAll(i)'
    BY <2>1 DEF Becomes, NotAll, Stopping
  <2>3. \A c \in Ids : Wanted(c)'
    BY <1>2, <1>3, <1>4, <1>5, <1>7, <2>2, StartWanted DEF Aligned
  <2> QED BY <1>1, <1>2, <2>2, <2>3, NotAllStays DEF Aligned
<1>8. CASE ReconfigureStop(i, d, IF e = "on" THEN "again" ELSE "end")
  <2> DEFINE then == IF e = "on" THEN "again" ELSE "end"
  <2>1. then \in {"end", "again"} /\ (entries'[d] = "on" => then = "again")
    BY <1>5
  <2>2. ReconfigureStop(i, d, then)
    BY <1>8
  <2> HIDE DEF then
  <2>3. Leaves(i) /\ NotAll(i)' /\ \A c \in Ids : Wanted(c)'
    BY <1>1, <1>2, <1>3, <2>1, <2>2, ReconfigureWanted DEF Aligned
  <2> QED BY <1>1, <1>2, <2>3, NotAllStays DEF Aligned
<1> QED BY <1>6, <1>7, <1>8 DEF Edit

LEMMA DeleteConfig ==
    ASSUME Types, Config, NEW i \in Handlers, NEW d \in Ids, Delete(i, d)
    PROVE  Config'
<1> SUFFICES ASSUME past' # "drifted" PROVE Aligned'
  BY DEF Config
<1>1. Passes({d}, FALSE) /\ shared' = shared /\ ReconfigureStop(i, d, "end")
      /\ entries' = [entries EXCEPT ![d] = "absent"] /\ h[i].at = "idle"
  BY DEF Delete, Accept
<1>2. Aligned
  BY <1>1, PassesFacts DEF Config
<1>3. entries'[d] = "absent" /\ \A c \in Ids \ {d} : entries'[c] = entries[c]
  BY <1>1 DEF Types, ListTypes
<1>4. Leaves(i) /\ NotAll(i)' /\ \A c \in Ids : Wanted(c)'
  BY <1>1, <1>2, <1>3, ReconfigureWanted DEF Aligned
<1> QED BY <1>1, <1>2, <1>4, NotAllStays DEF Aligned

\* A list that is saved as it was: stop_all() finds nothing that is managed.
LEMMA SaveConfig ==
    ASSUME Types, Config, NEW i \in Handlers, NEW d \in Ids, NEW e \in Entry, Save(i, d, e)
    PROVE  Config'
<1> SUFFICES ASSUME past' # "drifted" PROVE Aligned'
  BY DEF Config
<1>1. Passes(Ids, e # entries[d]) /\ shared' = shared /\ h[i].at = "idle"
      /\ entries' = [entries EXCEPT ![d] = e]
  BY DEF Save, Accept
<1>2. Aligned /\ e = entries[d]
  BY <1>1, PassesFacts DEF Config
<1>3. entries' = entries
  BY <1>1, <1>2 DEF Types, ListTypes
<1>4. \A c : ~ Restarts(i, c)
  BY <1>1, NoRestarts DEF Elsewhere
<1>5. ASSUME UNCHANGED <<managed, devices>>, NEW p \in {"end", "no_inverter"}, Goto(i, p)
      PROVE  Aligned'
  <2>1. Becomes(i, p, {}, 0, h[i].then, h[i].ids, h[i].was)
    BY <1>5, GotoBecomes DEF Types, Spots
  <2>2. Leaves(i) /\ NotAll(i)'
    BY <2>1 DEF Becomes, NotAll, Stopping
  <2>3. \A c \in Ids : Wanted(c)'
    BY <1>2, <1>3, <1>4, <1>5, <2>2, WantedStays DEF Aligned
  <2> QED BY <1>1, <1>2, <2>2, <2>3, NotAllStays DEF Aligned
<1>6. CASE NoneActive /\ StopNext(i, {x \in Ids : managed[x] # 0}) /\ UNCHANGED devices
  <2>1. \A c \in Ids : managed[c] = 0
    BY <1>2, <1>3, <1>6 DEF NoneActive, Aligned, Wanted
  <2>2. Goto(i, "no_inverter") /\ UNCHANGED managed
    BY <1>6, <2>1 DEF StopNext
  <2> QED BY <1>5, <1>6, <2>2
<1>7. CASE UNCHANGED tasks /\ Goto(i, "end")
  BY <1>5, <1>7 DEF tasks
<1>8. CASE UNCHANGED <<tasks, paused, h>>
  <2>1. Leaves(i) /\ \A j \in Handlers : NotAll(j)'
    BY <1>2, <1>8 DEF Leaves, Aligned, NotAll
  <2>2. \A c \in Ids : Wanted(c)'
    BY <1>2, <1>3, <1>4, <1>8, <2>1, WantedStays DEF Aligned, tasks
  <2> QED BY <1>1, <1>2, <2>1, <2>2 DEF Aligned
<1> QED BY <1>6, <1>7, <1>8 DEF Save

LEMMA ImportConfig ==
    ASSUME NEW i \in Handlers, NEW d \in Ids, NEW e \in Entry, Import(i, d, e)
    PROVE  Config'
  BY PassesFacts DEF Import, Config

LEMMA StepsConfig ==
    ASSUME Types, Config, NEW i \in Handlers, Discover(i) \/ HandlerStep(i)
    PROVE  Config'
<1> SUFFICES ASSUME past' # "drifted" PROVE Aligned'
  BY DEF Config
<1>1. shared' = shared
  BY DEF Discover, HandlerStep, Close, StopReturns, StartAgain, AllStopped, Answer, ScanBegin,
         ScanFound, ScanAdds, ScanEnd, lists
<1>2. Aligned
  <2>1. past # "drifted"
    BY PassesFacts DEF Discover, HandlerStep, Close, StopReturns, StartAgain, AllStopped,
         Answer, ScanBegin, ScanFound, ScanAdds, ScanEnd
  <2> QED BY <2>1 DEF Config
<1>3. ASSUME UNCHANGED <<entries, managed, devices>>, Leaves(i), NotAll(i)',
             \A c \in Ids : ~ Restarts(i, c) \/ Restarts(i, c)'
      PROVE  Aligned'
  <2>1. \A c \in Ids : Wanted(c)'
    BY <1>2, <1>3, WantedStays DEF Aligned
  <2> QED BY <1>1, <1>2, <1>3, <2>1, NotAllStays DEF Aligned
<1>4. ASSUME NEW d \in Ids, Close(i, d) PROVE Aligned'
  <2>1. Leaves(i) /\ h'[i].at = "close" /\ h'[i].dev = h[i].dev /\ h'[i].then = h[i].then
    BY <1>4 DEF Close, Types, HandlerTypes, HandlerState, Leaves
  <2>2. NotAll(i)' /\ \A c \in Ids : ~ Restarts(i, c) \/ Restarts(i, c)'
    BY <1>2, <1>4, <2>1 DEF Close, Aligned, NotAll, Restarts, Stopping
  <2> QED BY <1>3, <1>4, <2>1, <2>2 DEF Close, lists
<1>5. ASSUME NEW d \in Ids, StopReturns(i, d) PROVE Aligned'
  <2>1. h[i].then # "all" /\ h[i].at = "close" /\ h[i].dev = {d}
    BY <1>2, <1>5 DEF StopReturns, Aligned, NotAll, Stopping
  <2>2. h[i].then \in {"end", "again"}
    BY <2>1 DEF Types, HandlerTypes, HandlerState, Thens
  <2>3. Stopped(i, d, h[i].then) /\ UNCHANGED <<entries, managed>>
    BY <1>5, <2>1 DEF StopReturns, lists
  <2>4. Becomes(i, h[i].then, IF h[i].then = "again" THEN {d} ELSE {}, 0, "end", {}, FALSE)
    BY <2>2, <2>3, StoppedBecomes DEF Types
  <2>5. Leaves(i) /\ NotAll(i)'
    BY <2>2, <2>4 DEF Becomes, NotAll, Stopping
  <2>6. \A c \in Ids : Restarts(i, c) => Restarts(i, c)'
    BY <2>1, <2>2, <2>4 DEF Becomes, Restarts
  <2>7. \A c \in Ids : devices'[c] \in {0, devices[c]}
    BY <1>5 DEF StopReturns, Types, TaskTypes
  <2>8. \A c \in Ids : Wanted(c)'
    BY <1>2, <2>3, <2>5, <2>6, <2>7, WantedStays DEF Aligned
  <2> QED BY <1>1, <1>2, <2>5, <2>8, NotAllStays DEF Aligned
<1>6. ASSUME NEW d \in Ids, StartAgain(i, d) PROVE Aligned'
  <2>1. StartDevice(d) /\ Goto(i, "end") /\ entries' = entries
        /\ h[i].at = "again" /\ h[i].dev = {d}
    BY <1>6 DEF StartAgain, lists
  <2>2. Becomes(i, "end", {}, 0, h[i].then, h[i].ids, h[i].was)
    BY <2>1, GotoBecomes DEF Types, Spots
  <2>3. Leaves(i) /\ NotAll(i)'
    BY <2>2 DEF Becomes, NotAll, Stopping
  <2>4. \A c \in Ids \ {d} : ~ Restarts(i, c)
    BY <2>1 DEF Restarts, Stopping
  <2>5. \A c \in Ids : Wanted(c)'
    BY <1>2, <2>1, <2>3, <2>4, StartWanted DEF Aligned, Wanted
  <2> QED BY <1>1, <1>2, <2>3, <2>5, NotAllStays DEF Aligned
<1>7. CASE Discover(i) \/ AllStopped(i) \/ Answer(i) \/ ScanBegin(i) \/ ScanEnd(i)
           \/ (ScanFound(i) /\ h' = [h EXCEPT ![i].at = "told"] /\ UNCHANGED <<entries, tasks>>)
  <2>1. h[i].at \in Elsewhere /\ UNCHANGED <<entries, managed, devices>>
    BY <1>7 DEF Discover, AllStopped, Answer, ScanBegin, ScanEnd, ScanFound, Accept, Elsewhere,
                lists, tasks
  <2>2. Leaves(i) /\ h'[i].at \in Elsewhere
    BY <1>7 DEF Discover, AllStopped, Answer, ScanBegin, ScanEnd, Goto, Idle, Elsewhere,
                Types, HandlerTypes, HandlerState, Leaves
  <2>3. NotAll(i)'
    BY <2>2 DEF NotAll, Stopping, Elsewhere
  <2> QED BY <1>3, <2>1, <2>2, <2>3, NoRestarts
<1>8. ASSUME ScanFound(i), ~(h' = [h EXCEPT ![i].at = "told"] /\ UNCHANGED <<entries, tasks>>)
      PROVE  Aligned'
  <2>1. PICK d \in Ids :
            /\ New(d) /\ entries' = [entries EXCEPT ![d] = "on"]
            /\ ScanNext(i, {x \in Ids : entries'[x] # "absent"})
    BY <1>8 DEF ScanFound
  <2> DEFINE ids == {x \in Ids : entries'[x] # "absent"}
  <2>2. entries'[d] = "on" /\ \A c \in Ids \ {d} : entries'[c] = entries[c]
    BY <2>1 DEF Types, ListTypes
  <2>3. ids \in SUBSET Ids /\ {d} \in SUBSET ids
    BY <2>2
  <2>4. managed[d] = 0 /\ devices[d] = 0
    BY <2>1 DEF New
  <2>5. h[i].at = "scan" /\ \A c : ~ Restarts(i, c)
    BY <1>8, NoRestarts DEF ScanFound, Elsewhere
  <2>6. ScanNext(i, ids)
    BY <2>1
  <2> HIDE DEF ids
  <2>7. Leaves(i) /\ NotAll(i)' /\ \A c \in Ids : Wanted(c)'
    <3> DEFINE found == {d}
    <3>1. /\ found \in SUBSET ids
          /\ \A c \in found : entries'[c] = "on" /\ managed[c] = 0 /\ devices[c] = 0
          /\ \A c \in Ids \ found : Wanted(c) /\ entries'[c] = entries[c]
      BY <1>2, <2>2, <2>3, <2>4 DEF Aligned
    <3> HIDE DEF found
    <3> QED BY <1>2, <2>3, <2>5, <2>6, <3>1, ScanNextWanted DEF Aligned
  <2> QED BY <1>1, <1>2, <2>7, NotAllStays DEF Aligned
<1>9. CASE ScanAdds(i)
  <2>1. h[i].at = "adding" /\ ScanNext(i, h[i].ids) /\ entries' = entries
    BY <1>9 DEF ScanAdds, lists
  <2>2. h[i].ids \in SUBSET Ids /\ h[i].dev = {}
    BY <2>1 DEF Types, HandlerTypes, HandlerState, Shapes, Shape, AtDevice, Stopping
  <2>3. \A c \in Ids : Restarts(i, c) => c \in h[i].ids
    BY <2>2 DEF Restarts
  <2>4. Leaves(i) /\ NotAll(i)' /\ \A c \in Ids : Wanted(c)'
    <3> DEFINE found == {} ids == h[i].ids
    <3>1. /\ found \in SUBSET ids /\ ids \in SUBSET Ids /\ ScanNext(i, ids)
          /\ \A c \in found : entries'[c] = "on" /\ managed[c] = 0 /\ devices[c] = 0
          /\ \A c \in Ids \ found : Wanted(c) /\ entries'[c] = entries[c]
          /\ \A c \in Ids \ found : Restarts(i, c) => c \in ids
      BY <1>2, <2>1, <2>2, <2>3 DEF Aligned
    <3> HIDE DEF found, ids
    <3> QED BY <1>2, <2>1, <3>1, ScanNextWanted DEF Aligned
  <2> QED BY <1>1, <1>2, <2>4, NotAllStays DEF Aligned
<1> QED BY <1>4, <1>5, <1>6, <1>7, <1>8, <1>9 DEF HandlerStep

LEMMA StepConfig == Types /\ Config /\ [Next]_vars => Config'
<1> SUFFICES ASSUME Types, Config, [Next]_vars PROVE Config'
  OBVIOUS
<1>1. ASSUME UNCHANGED <<lists, managed, devices, h, past>> PROVE Config'
  BY <1>1 DEF lists, Config, Aligned, Wanted, Restarts, NotAll
<1>2. ASSUME NEW d \in Ids, NEW t \in Tasks, TaskEnds(d, t) PROVE Config'
  BY <1>1, <1>2 DEF TaskEnds
<1>3. CASE UNCHANGED vars
  BY <1>1, <1>3 DEF vars, tasks
<1> QED BY <1>2, <1>3, AddConfig, EditConfig, DeleteConfig, SaveConfig, ImportConfig, StepsConfig
        DEF Next

LEMMA InitConfig == Init => Config
<1> SUFFICES ASSUME Init PROVE Aligned
  BY DEF Config
<1>1. shared = TRUE /\ \A d \in Ids : managed[d] = 0 /\ entries[d] # "on"
  BY DEF Init
<1>2. \A i \in Handlers : h[i].at = "idle"
  BY DEF Init, Idle
<1> QED BY <1>1, <1>2 DEF Aligned, Wanted, NotAll, Stopping

\* When no request is at work, the devices that are polled are the enabled ones,
\* however adding, editing, deleting and scanning overlapped, unless the config was
\* changed without the registry being told (_reconfigure_active, _run_scan).
THEOREM ConfigCorrect == Spec => []ConfigIsPolled
<1>1. Config => ConfigIsPolled
  <2> SUFFICES ASSUME Config, Quiet, past # "drifted", NEW d \in Ids
               PROVE  (managed[d] # 0) <=> (entries[d] = "on")
    BY DEF ConfigIsPolled
  <2>1. \A i \in Handlers : ~ Restarts(i, d)
    BY DEF Quiet, Restarts, Stopping
  <2> QED BY <2>1 DEF Config, Aligned, Wanted
<1> QED BY <1>1, InitTypes, StepTypes, InitConfig, StepConfig, PTL DEF Spec

-----------------------------------------------------------------------------
(***************************************************************************)
(* One handler at a time: a device that no handler is at has one task, the *)
(* managed one, whose state is shown; one that a handler is at has what    *)
(* that handler has left of it.                                            *)
(***************************************************************************)

Settled(d) ==
    /\ devices[d] = managed[d] /\ alive[d] = {managed[d]} \ {0} /\ cancelled[d] = {}

Halted(i, d) ==
    /\ managed[d] = 0
    /\ h[i].at = "await" => devices[d] = h[i].task /\ alive[d] \subseteq {h[i].task}
    /\ h[i].at = "close" => devices[d] = h[i].task /\ alive[d] = {}
    /\ h[i].at = "again" => devices[d] = 0 /\ alive[d] = {}

Apart == \A i, j \in Handlers : i # j => Visits(i) \cap Visits(j) = {}

Untouched(d) == \A i \in Handlers : d \notin h[i].dev

Tidy(d) ==
    /\ Untouched(d) => Settled(d)
    /\ \A i \in Handlers : h[i].dev = {d} => Halted(i, d)

Orderly == Apart /\ \A d \in Ids : Tidy(d)

Serial == past = "serial" => Orderly

\* Handler i gives ids up, or takes ids on that no handler visits.
LEMMA ApartStays ==
    ASSUME Apart, NEW i \in Handlers, Leaves(i),
           NEW ds, Visits(i)' \subseteq Visits(i) \cup ds,
           \A j \in Handlers \ {i} : Visits(j) \cap ds = {}
    PROVE  Apart'
<1>1. \A j \in Handlers \ {i} : Visits(j)' = Visits(j)
  BY DEF Leaves, Visits
<1> QED BY <1>1 DEF Apart

LEMMA ApartShrinks ==
    ASSUME Apart, NEW i \in Handlers, Leaves(i), Visits(i)' \subseteq Visits(i)
    PROVE  Apart'
<1>1. \A j \in Handlers \ {i} : Visits(j)' = Visits(j)
  BY DEF Leaves, Visits
<1> QED BY <1>1 DEF Apart

\* A device that the step does not touch, and where i neither was nor goes.
LEMMA TidyStays ==
    ASSUME Types, NEW i \in Handlers, Leaves(i), NEW d \in Ids, Tidy(d), Same(d),
           d \notin h[i].dev, d \notin h'[i].dev
    PROVE  Tidy(d)'
<1>1. Untouched(d)' => Untouched(d)
  BY DEF Untouched, Leaves
<1>2. Settled(d) => Settled(d)'
  BY DEF Settled, Same
<1>3. ASSUME NEW j \in Handlers, h'[j].dev = {d} PROVE Halted(j, d)'
  <2>1. j # i /\ h'[j] = h[j]
    BY <1>3 DEF Leaves
  <2> QED BY <1>3, <2>1 DEF Tidy, Halted, Same
<1> QED BY <1>1, <1>2, <1>3 DEF Tidy

\* A settled device that is not managed may be started, and is settled again.
LEMMA StartSettled ==
    ASSUME Types, NEW d \in Ids, StartDevice(d), managed[d] = 0, devices[d] = 0, alive[d] = {},
           cancelled[d] = {}
    PROVE  Settled(d)'
<1>1. CASE Find(d) = "on"
  <2>1. PICK t \in Tasks :
            /\ managed'[d] = t /\ devices'[d] = t
            /\ alive'[d] = alive[d] \cup {t} /\ cancelled'[d] = cancelled[d]
    BY <1>1, StartEffect
  <2>2. t # 0
    BY NumberFacts
  <2> QED BY <2>1, <2>2 DEF Settled
<1>2. CASE Find(d) # "on"
  BY <1>2, StartEffect DEF Settled, Same
<1> QED BY <1>1, <1>2

\* Nobody is at a device whose ids nobody visits.
LEMMA FreeSettled ==
    ASSUME Orderly, NEW d \in Ids, \A j \in Handlers : d \notin Visits(j)
    PROVE  Untouched(d) /\ Settled(d)
  BY DEF Orderly, Tidy, Untouched, Visits

\* A step that only moves a handler that is at no device.
LEMMA OrderlyMoved ==
    ASSUME Types, Orderly, NEW i \in Handlers, Leaves(i), UNCHANGED tasks,
           h[i].dev = {}, h'[i].dev = {}, h'[i].ids \subseteq h[i].ids
    PROVE  Orderly'
<1>1. Apart'
  <2>1. Visits(i)' \subseteq Visits(i)
    BY DEF Visits
  <2> QED BY <2>1, ApartShrinks DEF Orderly
<1>2. ASSUME NEW c \in Ids PROVE Tidy(c)'
  <2>1. Same(c) /\ c \notin h[i].dev /\ c \notin h'[i].dev /\ Tidy(c)
    BY DEF Same, tasks, Orderly
  <2> QED BY <2>1, TidyStays
<1> QED BY <1>1, <1>2 DEF Orderly

\* A handler that was at no device, or at d, has started d.
LEMMA OrderlyStarted ==
    ASSUME Types, Orderly, NEW i \in Handlers, Leaves(i), NEW d \in Ids, StartDevice(d),
           managed[d] = 0, devices[d] = 0, alive[d] = {}, cancelled[d] = {},
           h[i].dev \in {{}, {d}}, h'[i].dev = {},
           NEW ds, h'[i].ids \subseteq Visits(i) \cup ds,
           \A j \in Handlers \ {i} : Visits(j) \cap ds = {},
           \A j \in Handlers \ {i} : d \notin h[j].dev
    PROVE  Orderly'
<1>1. Apart'
  <2>1. Visits(i)' \subseteq Visits(i) \cup ds
    BY DEF Visits
  <2> QED BY <2>1, ApartStays DEF Orderly
<1>2. ASSUME NEW c \in Ids, c # d PROVE Tidy(c)'
  <2>1. Same(c) /\ c \notin h[i].dev /\ c \notin h'[i].dev /\ Tidy(c)
    BY <1>2, StartEffect DEF Orderly
  <2> QED BY <2>1, TidyStays
<1>3. Tidy(d)'
  <2>1. Settled(d)'
    BY StartSettled
  <2>2. \A j \in Handlers : d \notin h'[j].dev
    BY DEF Leaves
  <2> QED BY <2>1, <2>2 DEF Tidy
<1> QED BY <1>1, <1>2, <1>3 DEF Orderly

\* A handler that nobody is in the way of stops a settled device.
LEMMA OrderlyReconfigured ==
    ASSUME Types, Orderly, NEW i \in Handlers, h[i].at = "idle", NEW d \in Ids,
           NEW then \in {"end", "again"}, ReconfigureStop(i, d, then),
           \A j \in Handlers : d \notin Visits(j)
    PROVE  Orderly'
<1>1. Untouched(d) /\ Settled(d)
  BY FreeSettled
<1>2. h[i].dev = {} /\ h[i].ids = {} /\ \A j \in Handlers \ {i} : Visits(j) \cap {d} = {}
  BY DEF Types, Shapes, Shape, AtDevice, Stopping
<1>3. CASE managed[d] = 0
  <2>1. UNCHANGED tasks /\ Stopped(i, d, then)
    BY <1>3 DEF ReconfigureStop
  <2>2. Becomes(i, then, IF then = "again" THEN {d} ELSE {}, 0, "end", {}, FALSE)
    BY <2>1, StoppedBecomes DEF Types
  <2>3. Leaves(i) /\ h'[i].ids = {}
    BY <2>2 DEF Becomes
  <2>4. CASE then = "end"
    BY <1>2, <2>1, <2>2, <2>4, OrderlyMoved DEF Becomes
  <2>5. CASE then = "again"
    <3>1. h'[i].dev = {d} /\ h'[i].at = "again"
      BY <2>2, <2>5 DEF Becomes
    <3>2. Visits(i)' \subseteq Visits(i) \cup {d}
      BY <2>3, <3>1 DEF Visits
    <3>3. Apart'
      BY <1>2, <2>3, <3>2, ApartStays DEF Orderly
    <3>4. ASSUME NEW c \in Ids, c # d PROVE Tidy(c)'
      <4>1. Same(c) /\ c \notin h[i].dev /\ c \notin h'[i].dev /\ Tidy(c)
        BY <1>2, <2>1, <3>1, <3>4 DEF Same, tasks, Orderly
      <4> QED BY <2>3, <4>1, TidyStays
    <3>5. Halted(i, d)'
      BY <1>1, <1>3, <2>1, <3>1 DEF Settled, Halted, tasks
    <3>6. Tidy(d)'
      <4>1. \A j \in Handlers \ {i} : h'[j].dev # {d}
        BY <1>1, <2>3 DEF Leaves, Untouched
      <4> QED BY <3>1, <3>5, <4>1 DEF Tidy, Untouched
    <3> QED BY <3>3, <3>4, <3>6 DEF Orderly
  <2> QED BY <2>4, <2>5
<1>4. CASE managed[d] # 0
  <2>1. StopDevice(d) /\ devices' = devices /\ AwaitTask(i, d, then, {})
    BY <1>4 DEF ReconfigureStop
  <2>2. Becomes(i, "await", {d}, managed[d], then, {}, h[i].was)
    BY <2>1, AwaitBecomes DEF Types, Thens
  <2>3. Leaves(i) /\ h'[i].ids = {} /\ h'[i].dev = {d} /\ h'[i].at = "await"
        /\ h'[i].task = managed[d]
    BY <2>2 DEF Becomes
  <2>4. Visits(i)' \subseteq Visits(i) \cup {d}
    BY <2>3 DEF Visits
  <2>5. Apart'
    BY <1>2, <2>3, <2>4, ApartStays DEF Orderly
  <2>6. ASSUME NEW c \in Ids, c # d PROVE Tidy(c)'
    <3>1. Same(c) /\ c \notin h[i].dev /\ c \notin h'[i].dev /\ Tidy(c)
      BY <1>2, <2>1, <2>3, <2>6, StopEffect DEF Same, Orderly
    <3> QED BY <2>3, <3>1, TidyStays
  <2>7. Halted(i, d)'
    BY <1>1, <2>1, <2>3, StopEffect DEF Settled, Halted
  <2>8. Tidy(d)'
    <3>1. \A j \in Handlers \ {i} : h'[j].dev # {d}
      BY <1>1, <2>3 DEF Leaves, Untouched
    <3> QED BY <2>3, <2>7, <3>1 DEF Tidy, Untouched
  <2> QED BY <2>5, <2>6, <2>8 DEF Orderly
<1> QED BY <1>3, <1>4

LEMMA RequestsSerial ==
    ASSUME Types, Plugins, Config, Serial, NEW i \in Handlers, NEW d \in Ids,
           \/ \E e \in {"off", "on"} : Add(i, d, e)
           \/ \E e \in {"off", "on"}, valid \in BOOLEAN : Edit(i, d, e, valid)
           \/ Delete(i, d)
           \/ \E e \in Entry : Save(i, d, e) \/ Import(i, d, e)
           \/ Discover(i)
    PROVE  Serial'
<1> SUFFICES ASSUME past' = "serial" PROVE Orderly'
  BY DEF Serial
<1>1. h[i].at = "idle" /\ h[i].dev = {} /\ h[i].ids = {}
  BY DEF Add, Edit, Delete, Save, Import, Discover, Accept, Types, Shapes, Shape, AtDevice, Stopping
<1>2. ASSUME UNCHANGED tasks, UNCHANGED h \/ \E p \in Spots : Goto(i, p), Orderly
      PROVE  Orderly'
  <2>1. Leaves(i) /\ h'[i].dev = {} /\ h'[i].ids = {}
    BY <1>1, <1>2, GotoBecomes DEF Types, Becomes, Leaves
  <2> QED BY <1>1, <1>2, <2>1, OrderlyMoved
<1>3. ASSUME Orderly, StartDevice(d), Goto(i, "end"), managed[d] = 0,
             \A j \in Handlers : d \notin Visits(j)
      PROVE  Orderly'
  <2>1. Settled(d) /\ Untouched(d)
    BY <1>3, FreeSettled
  <2>2. Leaves(i) /\ h'[i].dev = {} /\ h'[i].ids = {}
    BY <1>1, <1>3, GotoBecomes DEF Types, Becomes, Spots
  <2>3. devices[d] = 0 /\ alive[d] = {} /\ cancelled[d] = {}
    BY <1>3, <2>1 DEF Settled
  <2>4. h'[i].ids \subseteq Visits(i) \cup {}
    BY <2>2
  <2>5. \A j \in Handlers \ {i} : Visits(j) \cap {} = {} /\ d \notin h[j].dev
    BY <2>1 DEF Untouched
  <2> QED BY <1>1, <1>3, <2>2, <2>3, <2>4, <2>5, OrderlyStarted
<1>4. ASSUME NEW e \in {"off", "on"}, Add(i, d, e) PROVE Orderly'
  <2>1. Passes({d}, FALSE) /\ New(d)
    BY <1>4 DEF Add
  <2>2. Orderly /\ managed[d] = 0 /\ \A j \in Handlers : d \notin Visits(j)
    BY <2>1, PassesFacts DEF Serial, New
  <2> QED BY <1>2, <1>3, <1>4, <2>2 DEF Add
<1>5. ASSUME NEW e \in {"off", "on"}, NEW valid \in BOOLEAN, Edit(i, d, e, valid) PROVE Orderly'
  <2>1. Passes({d}, ~valid /\ e # entries[d])
    BY <1>5 DEF Edit
  <2>2. past = "serial" /\ \A j \in Handlers : Visits(j) \cap {d} = {}
    BY <2>1, PassesFacts
  <2>3. Orderly /\ Aligned /\ \A j \in Handlers : d \notin Visits(j)
    BY <2>2 DEF Serial, Config
  <2>4. CASE UNCHANGED <<tasks, paused, h>>
    BY <1>2, <2>3, <2>4
  <2>5. CASE entries[d] = "off" /\ StartDevice(d) /\ Goto(i, "end")
    BY <1>3, <2>3, <2>5 DEF Aligned, Wanted
  <2>6. CASE ReconfigureStop(i, d, IF e = "on" THEN "again" ELSE "end")
    <3>1. (IF e = "on" THEN "again" ELSE "end") \in {"end", "again"}
      OBVIOUS
    <3> QED BY <1>1, <2>3, <2>6, <3>1, OrderlyReconfigured
  <2> QED BY <1>5, <2>4, <2>5, <2>6 DEF Edit
<1>6. CASE Delete(i, d)
  <2>1. Passes({d}, FALSE) /\ ReconfigureStop(i, d, "end")
    BY <1>6 DEF Delete
  <2>2. Orderly /\ \A j \in Handlers : d \notin Visits(j)
    BY <2>1, PassesFacts DEF Serial
  <2> QED BY <1>1, <2>1, <2>2, OrderlyReconfigured
<1>7. ASSUME NEW e \in Entry, Save(i, d, e) PROVE Orderly'
  <2>1. Passes(Ids, e # entries[d]) /\ entries' = [entries EXCEPT ![d] = e]
    BY <1>7 DEF Save
  <2>2. past = "serial" /\ e = entries[d]
    BY <2>1, PassesFacts
  <2>3. Orderly /\ Aligned /\ entries' = entries
    BY <2>1, <2>2 DEF Serial, Config, Types, ListTypes
  <2>4. CASE NoneActive /\ StopNext(i, {x \in Ids : managed[x] # 0}) /\ UNCHANGED devices
    <3>1. \A c \in Ids : managed[c] = 0
      BY <2>3, <2>4 DEF NoneActive, Aligned, Wanted
    <3>2. Goto(i, "no_inverter") /\ UNCHANGED tasks
      BY <2>4, <3>1 DEF StopNext, tasks
    <3> QED BY <1>2, <2>3, <3>2 DEF Spots
  <2>5. CASE UNCHANGED tasks /\ Goto(i, "end")
    BY <1>2, <2>3, <2>5 DEF Spots
  <2>6. CASE UNCHANGED <<tasks, paused, h>>
    BY <1>2, <2>3, <2>6
  <2> QED BY <1>7, <2>4, <2>5, <2>6 DEF Save
<1>8. ASSUME NEW e \in Entry, Import(i, d, e) PROVE Orderly'
  BY <1>8, PassesFacts DEF Import
<1>9. CASE Discover(i)
  BY <1>2, <1>9 DEF Discover, Serial, Spots
<1> QED BY <1>4, <1>5, <1>6, <1>7, <1>8, <1>9

\* The scan starts a device that is its own to start, and settled.
LEMMA ScanNextOrderly ==
    ASSUME Types, Orderly, NEW i \in Handlers, h[i].at \in {"scan", "adding"},
           NEW ids \in SUBSET Ids, ScanNext(i, ids),
           \A j \in Handlers \ {i} : Visits(j) \cap ids = {}
    PROVE  Orderly'
<1>1. h[i].dev = {}
  BY DEF Types, Shapes, Shape, AtDevice, Stopping
<1>2. CASE h' = [h EXCEPT ![i].at = "told", ![i].ids = {}] /\ UNCHANGED <<tasks, paused>>
  <2>1. Leaves(i) /\ h'[i].dev = {} /\ h'[i].ids = {}
    BY <1>1, <1>2 DEF Types, HandlerTypes, HandlerState, Leaves
  <2> QED BY <1>1, <1>2, <2>1, OrderlyMoved
<1>3. ASSUME NEW d \in ids, NEW rest \in SUBSET ids, devices[d] = 0, StartDevice(d),
             h' = [h EXCEPT ![i].at = "adding", ![i].ids = rest]
      PROVE  Orderly'
  <2>1. Leaves(i) /\ h'[i].dev = {} /\ h'[i].ids = rest
    BY <1>1, <1>3 DEF Types, HandlerTypes, HandlerState, Leaves
  <2>2. \A j \in Handlers \ {i} : d \notin h[j].dev
    BY DEF Visits
  <2>3. Settled(d)
    BY <1>1, <2>2 DEF Orderly, Tidy, Untouched
  <2>4. managed[d] = 0 /\ alive[d] = {} /\ cancelled[d] = {}
    BY <1>3, <2>3 DEF Settled
  <2>5. h'[i].ids \subseteq Visits(i) \cup ids
    BY <2>1
  <2> QED BY <1>1, <1>3, <2>1, <2>2, <2>4, <2>5, OrderlyStarted
<1> QED BY <1>2, <1>3 DEF ScanNext

LEMMA StepsSerial ==
    ASSUME Types, Plugins, Config, Serial, NEW i \in Handlers, HandlerStep(i)
    PROVE  Serial'
<1> SUFFICES ASSUME past' = "serial" PROVE Orderly'
  BY DEF Serial
<1>1. Orderly /\ Aligned
  <2>1. past = "serial"
    BY PassesFacts DEF HandlerStep, Close, StopReturns, StartAgain, AllStopped,
         Answer, ScanBegin, ScanFound, ScanAdds, ScanEnd
  <2> QED BY <2>1 DEF Serial, Config
<1>2. ASSUME NEW d \in Ids, Close(i, d) PROVE Orderly'
  <2>1. Leaves(i) /\ h'[i].at = "close" /\ h'[i].dev = {d} /\ h'[i].task = h[i].task
        /\ h'[i].ids = h[i].ids /\ h[i].dev = {d}
    BY <1>2 DEF Close, Types, HandlerTypes, HandlerState, Leaves
  <2>2. \A c \in Ids : Same(c)
    BY <1>2 DEF Close, Same
  <2>3. Apart'
    <3>1. Visits(i)' \subseteq Visits(i)
      BY <2>1 DEF Visits
    <3> QED BY <1>1, <2>1, <3>1, ApartShrinks DEF Orderly
  <2>4. ASSUME NEW c \in Ids, c # d PROVE Tidy(c)'
    <3>1. Tidy(c) /\ c \notin h[i].dev /\ c \notin h'[i].dev
      BY <1>1, <2>1, <2>4 DEF Orderly
    <3> QED BY <2>1, <2>2, <3>1, TidyStays
  <2>5. Halted(i, d)'
    BY <1>1, <1>2, <2>1, <2>2 DEF Close, Orderly, Tidy, Halted, Same
  <2>6. \A j \in Handlers \ {i} : h'[j].dev # {d}
    BY <1>1, <2>1 DEF Leaves, Orderly, Apart, Visits
  <2>7. Tidy(d)'
    BY <2>1, <2>5, <2>6 DEF Tidy, Untouched
  <2> QED BY <2>3, <2>4, <2>7 DEF Orderly
<1>3. ASSUME NEW d \in Ids, StopReturns(i, d) PROVE Orderly'
  <2>1. h[i].then # "all" /\ h[i].at = "close" /\ h[i].dev = {d}
    BY <1>1, <1>3 DEF StopReturns, Aligned, NotAll, Stopping
  <2>2. h[i].then \in {"end", "again"}
    BY <2>1 DEF Types, HandlerTypes, HandlerState, Thens
  <2>3. Stopped(i, d, h[i].then) /\ UNCHANGED <<managed, alive, cancelled>>
        /\ devices' = [devices EXCEPT ![d] = 0]
    BY <1>3, <2>1 DEF StopReturns
  <2>4. Becomes(i, h[i].then, IF h[i].then = "again" THEN {d} ELSE {}, 0, "end", {}, FALSE)
    BY <2>2, <2>3, StoppedBecomes DEF Types
  <2>5. Leaves(i) /\ h'[i].ids = {} /\ h'[i].at = h[i].then
        /\ h'[i].dev = IF h[i].then = "again" THEN {d} ELSE {}
    BY <2>4 DEF Becomes
  <2>6. Apart'
    <3>1. Visits(i)' \subseteq Visits(i)
      BY <2>1, <2>5 DEF Visits
    <3> QED BY <1>1, <2>5, <3>1, ApartShrinks DEF Orderly
  <2>7. ASSUME NEW c \in Ids, c # d PROVE Tidy(c)'
    <3>1. Tidy(c) /\ c \notin h[i].dev /\ c \notin h'[i].dev
      BY <1>1, <2>1, <2>5, <2>7 DEF Orderly
    <3>2. Same(c)
      BY <2>3, <2>7 DEF Same, Types, TaskTypes
    <3> QED BY <2>5, <3>1, <3>2, TidyStays
  <2>8. managed'[d] = 0 /\ devices'[d] = 0 /\ alive'[d] = {} /\ cancelled'[d] = {}
    <3>1. Halted(i, d)
      BY <1>1, <2>1 DEF Orderly, Tidy
    <3>2. managed[d] = 0 /\ alive[d] = {} /\ cancelled[d] \subseteq alive[d]
      BY <2>1, <3>1 DEF Halted, Plugins, Plugin
    <3> QED BY <2>3, <3>2 DEF Types, TaskTypes
  <2>9. \A j \in Handlers \ {i} : h'[j].dev # {d}
    BY <1>1, <2>1, <2>5 DEF Leaves, Orderly, Apart, Visits
  <2>10. Tidy(d)'
    <3>1. Settled(d)' /\ (h'[i].at \in {"again", "end"} => Halted(i, d)')
      BY <2>8 DEF Settled, Halted
    <3> QED BY <2>2, <2>5, <2>9, <3>1 DEF Tidy
  <2> QED BY <2>6, <2>7, <2>10 DEF Orderly
<1>4. ASSUME NEW d \in Ids, StartAgain(i, d) PROVE Orderly'
  <2>1. StartDevice(d) /\ Goto(i, "end") /\ h[i].at = "again" /\ h[i].dev = {d}
    BY <1>4 DEF StartAgain
  <2>2. Leaves(i) /\ h'[i].dev = {} /\ h'[i].ids = h[i].ids
    BY <2>1, GotoBecomes DEF Types, Becomes, Spots
  <2>3. Halted(i, d)
    BY <1>1, <2>1 DEF Orderly, Tidy
  <2>4. managed[d] = 0 /\ devices[d] = 0 /\ alive[d] = {} /\ cancelled[d] = {}
    BY <2>1, <2>3 DEF Halted, Plugins, Plugin
  <2>5. \A j \in Handlers \ {i} : d \notin h[j].dev
    BY <1>1, <2>1 DEF Orderly, Apart, Visits
  <2>6. h'[i].ids \subseteq Visits(i) \cup {}
    BY <2>2 DEF Visits
  <2> QED BY <1>1, <2>1, <2>2, <2>4, <2>5, <2>6, OrderlyStarted
<1>5. CASE AllStopped(i) \/ Answer(i) \/ ScanBegin(i) \/ ScanEnd(i)
           \/ (ScanFound(i) /\ h' = [h EXCEPT ![i].at = "told"] /\ UNCHANGED tasks)
  <2>1. UNCHANGED tasks /\ h[i].dev = {}
    BY <1>5 DEF AllStopped, Answer, ScanBegin, ScanEnd, ScanFound, Types, Shapes, Shape,
                AtDevice, Stopping
  <2>2. Leaves(i) /\ h'[i].dev = {} /\ h'[i].ids \subseteq h[i].ids
    BY <1>5, <2>1 DEF AllStopped, Answer, ScanBegin, ScanEnd, Goto, Idle,
                      Types, HandlerTypes, HandlerState, Leaves
  <2> QED BY <1>1, <2>1, <2>2, OrderlyMoved
<1>6. ASSUME ScanFound(i), ~(h' = [h EXCEPT ![i].at = "told"] /\ UNCHANGED tasks)
      PROVE  Orderly'
  <2> DEFINE ids == {x \in Ids : entries'[x] # "absent"}
  <2>1. ScanNext(i, ids) /\ Passes(ids, FALSE) /\ ids \in SUBSET Ids
    BY <1>6 DEF ScanFound
  <2> HIDE DEF ids
  <2>2. \A j \in Handlers : Visits(j) \cap ids = {}
    BY <2>1, PassesFacts
  <2> QED BY <1>1, <1>6, <2>1, <2>2, ScanNextOrderly DEF ScanFound
<1>7. CASE ScanAdds(i)
  <2>1. h[i].at = "adding" /\ ScanNext(i, h[i].ids) /\ h[i].ids \in SUBSET Ids
    BY <1>7 DEF ScanAdds, Types, HandlerTypes, HandlerState
  <2>2. \A j \in Handlers \ {i} : Visits(j) \cap h[i].ids = {}
    BY <1>1 DEF Orderly, Apart, Visits
  <2> QED BY <1>1, <2>1, <2>2, ScanNextOrderly
<1> QED BY <1>2, <1>3, <1>4, <1>5, <1>6, <1>7 DEF HandlerStep

\* A task ends only when a handler is at its device.
LEMMA EndSerial ==
    ASSUME Types, Serial, NEW d \in Ids, NEW t \in Tasks, TaskEnds(d, t)
    PROVE  Serial'
<1> SUFFICES ASSUME past' = "serial" PROVE Orderly'
  BY DEF Serial
<1>1. Orderly /\ h' = h /\ UNCHANGED <<managed, devices>> /\ t \in cancelled[d]
  BY DEF TaskEnds, Serial
<1>2. Apart'
  BY <1>1 DEF Orderly, Apart, Visits
<1>3. ASSUME NEW c \in Ids PROVE Tidy(c)'
  <2>1. alive'[c] \subseteq alive[c] /\ (c # d => Same(c))
    BY <1>1 DEF TaskEnds, Types, TaskTypes, Same
  <2>2. Settled(c) => c # d
    BY <1>1 DEF Settled
  <2>3. Settled(c) => Settled(c)'
    BY <2>1, <2>2 DEF Settled, Same
  <2>4. \A i \in Handlers : Halted(i, c) => Halted(i, c)'
    BY <1>1, <2>1 DEF Halted
  <2> QED BY <1>1, <2>3, <2>4 DEF Orderly, Tidy, Untouched
<1> QED BY <1>2, <1>3 DEF Orderly

LEMMA InitSerial == Init => Serial
<1> SUFFICES ASSUME Init PROVE Orderly
  BY DEF Serial
<1>1. \A d \in Ids : Settled(d)
  BY DEF Init, Settled
<1>2. \A i \in Handlers : h[i].dev = {} /\ h[i].ids = {}
  BY DEF Init, Idle
<1> QED BY <1>1, <1>2 DEF Orderly, Apart, Visits, Tidy

LEMMA StepSerial == Types /\ Plugins /\ Config /\ Serial /\ [Next]_vars => Serial'
<1> SUFFICES ASSUME Types, Plugins, Config, Serial, [Next]_vars PROVE Serial'
  OBVIOUS
<1>1. CASE UNCHANGED vars
  BY <1>1 DEF vars, tasks, Serial, Orderly, Apart, Visits, Tidy, Untouched, Settled, Halted
<1>2. ASSUME NEW i \in Handlers, Discover(i) PROVE Serial'
  <2>1. UNCHANGED tasks /\ Goto(i, "asked") /\ past' = past /\ h[i].dev = {}
    BY <1>2 DEF Discover, Accept, Types, Shapes, Shape, AtDevice, Stopping
  <2>2. Leaves(i) /\ h'[i].dev = {} /\ h'[i].ids = h[i].ids
    BY <2>1, GotoBecomes DEF Types, Becomes, Spots
  <2> QED BY <2>1, <2>2, OrderlyMoved DEF Serial
<1> QED BY <1>1, <1>2, RequestsSerial, StepsSerial, EndSerial DEF Next

\* When no request is at work, and no two were ever at work on one device at the same
\* time, a device has one poll task, the managed one, and its state is the one shown:
\* the handlers leave nothing behind between their awaits (start_device, stop_device,
\* _reconfigure_active).
THEOREM SerialCorrect == Spec => []CleanWhenSerial
<1>1. Types /\ Serial => CleanWhenSerial
  <2> SUFFICES ASSUME Types, Serial, Quiet, past = "serial"
               PROVE  devices = managed /\ \A d \in Ids : alive[d] = {managed[d]} \ {0}
    BY DEF CleanWhenSerial
  <2>1. \A d \in Ids : Settled(d)
    BY DEF Types, Shapes, Shape, AtDevice, Stopping, Quiet, Serial, Orderly, Tidy, Untouched
  <2> QED BY <2>1 DEF Settled, Types, TaskTypes
<1> QED BY <1>1, InitTypes, StepTypes, InitPlugins, StepPlugins, InitConfig, StepConfig,
           InitSerial, StepSerial, PTL DEF Spec

-----------------------------------------------------------------------------
(***************************************************************************)
(* The pause: while polling is paused and a device is managed, a handler   *)
(* is still to write the flag, and will not leave it set.                  *)
(***************************************************************************)

Unpauses(i) ==
    \/ h[i].at = "no_inverter"
    \/ h[i].at \in {"scan", "adding", "told"} /\ h[i].was = FALSE

Resumes ==
    paused = TRUE /\ (\E d \in Ids : managed[d] # 0) => \E i \in Handlers : Unpauses(i)

LEMMA SettleResumes == ASSUME Settle PROVE Resumes'
  BY DEF Settle, Resumes

\* A step that leaves the flag alone, starts nothing, and gives up no promise.
LEMMA ResumesStays ==
    ASSUME Resumes, NEW i \in Handlers, Leaves(i), paused' = paused,
           \A d \in Ids : managed'[d] \in {0, managed[d]},
           Unpauses(i) => Unpauses(i)'
    PROVE  Resumes'
<1>1. \A j \in Handlers : Unpauses(j) => Unpauses(j)'
  BY DEF Leaves, Unpauses
<1> QED BY <1>1 DEF Resumes

LEMMA StopNextResumes ==
    ASSUME Types, Resumes, NEW i \in Handlers, ~ Unpauses(i), NEW ids \in SUBSET Ids,
           StopNext(i, ids)
    PROVE  Resumes'
<1>1. CASE Goto(i, "no_inverter")
  <2>1. h'[i].at = "no_inverter"
    BY <1>1, GotoBecomes DEF Types, Becomes, Spots
  <2> QED BY <2>1 DEF Resumes, Unpauses
<1>2. ASSUME NEW d \in ids, NEW rest \in SUBSET ids, StopDevice(d), UNCHANGED paused,
             AwaitTask(i, d, "all", rest)
      PROVE  Resumes'
  <2>1. Leaves(i)
    BY <1>2, AwaitBecomes DEF Types, Becomes, Thens
  <2>2. \A c \in Ids : managed'[c] \in {0, managed[c]}
    BY <1>2 DEF StopDevice, Types, TaskTypes
  <2> QED BY <1>2, <2>1, <2>2, ResumesStays
<1> QED BY <1>1, <1>2 DEF StopNext

LEMMA ReconfigureResumes ==
    ASSUME Types, Resumes, NEW i \in Handlers, ~ Unpauses(i), NEW d \in Ids,
           NEW then \in {"end", "again"}, ReconfigureStop(i, d, then)
    PROVE  Resumes'
<1>1. CASE managed[d] = 0
  BY <1>1, SettleResumes DEF ReconfigureStop
<1>2. CASE managed[d] # 0
  <2>1. StopDevice(d) /\ UNCHANGED paused /\ AwaitTask(i, d, then, {})
    BY <1>2 DEF ReconfigureStop
  <2>2. Leaves(i)
    BY <2>1, AwaitBecomes DEF Types, Becomes, Thens
  <2>3. \A c \in Ids : managed'[c] \in {0, managed[c]}
    BY <2>1 DEF StopDevice, Types, TaskTypes
  <2> QED BY <2>1, <2>2, <2>3, ResumesStays
<1> QED BY <1>1, <1>2

LEMMA ScanNextResumes ==
    ASSUME Types, Resumes, NEW i \in Handlers, h[i].at \in {"scan", "adding"},
           NEW ids \in SUBSET Ids, ScanNext(i, ids)
    PROVE  Resumes'
<1>1. CASE h' = [h EXCEPT ![i].at = "told", ![i].ids = {}] /\ UNCHANGED <<tasks, paused>>
  <2>1. Leaves(i) /\ h'[i].at = "told" /\ h'[i].was = h[i].was
    BY <1>1 DEF Types, HandlerTypes, HandlerState, Leaves
  <2> QED BY <1>1, <2>1, ResumesStays DEF tasks, Unpauses
<1>2. CASE Settle
  BY <1>2, SettleResumes
<1> QED BY <1>1, <1>2 DEF ScanNext

LEMMA RequestsResume ==
    ASSUME Types, Resumes, NEW i \in Handlers, NEW d \in Ids,
           \/ \E e \in {"off", "on"} : Add(i, d, e)
           \/ \E e \in {"off", "on"}, valid \in BOOLEAN : Edit(i, d, e, valid)
           \/ Delete(i, d)
           \/ \E e \in Entry : Save(i, d, e) \/ Import(i, d, e)
    PROVE  Resumes'
<1>1. ~ Unpauses(i)
  BY DEF Add, Edit, Delete, Save, Import, Accept, Unpauses
<1>2. ASSUME UNCHANGED <<tasks, paused, h>> PROVE Resumes'
  BY <1>2 DEF tasks, Resumes, Unpauses
<1>3. ASSUME NEW e \in {"off", "on"}, Add(i, d, e) PROVE Resumes'
  BY <1>2, <1>3, SettleResumes DEF Add
<1>4. ASSUME NEW e \in {"off", "on"}, NEW valid \in BOOLEAN, Edit(i, d, e, valid) PROVE Resumes'
  <2>1. (IF e = "on" THEN "again" ELSE "end") \in {"end", "again"}
    OBVIOUS
  <2>2. CASE ReconfigureStop(i, d, IF e = "on" THEN "again" ELSE "end")
    BY <1>1, <2>1, <2>2, ReconfigureResumes
  <2> QED BY <1>2, <1>4, <2>2, SettleResumes DEF Edit
<1>5. CASE Delete(i, d)
  BY <1>1, <1>5, ReconfigureResumes DEF Delete
<1>6. ASSUME NEW e \in Entry, Save(i, d, e) PROVE Resumes'
  <2> DEFINE ids == {x \in Ids : managed[x] # 0}
  <2>1. StopNext(i, ids) \/ Settle \/ UNCHANGED <<tasks, paused, h>>
    BY <1>6 DEF Save
  <2>2. ids \in SUBSET Ids
    OBVIOUS
  <2> HIDE DEF ids
  <2> QED BY <1>1, <1>2, <2>1, <2>2, StopNextResumes, SettleResumes
<1>7. ASSUME NEW e \in Entry, Import(i, d, e) PROVE Resumes'
  BY <1>2, <1>7 DEF Import
<1> QED BY <1>3, <1>4, <1>5, <1>6, <1>7

LEMMA StepsResume ==
    ASSUME Types, Resumes, NEW i \in Handlers, Discover(i) \/ HandlerStep(i)
    PROVE  Resumes'
<1>1. CASE (\E d \in Ids : Close(i, d)) \/ Discover(i) \/ Answer(i)
  <2>1. Leaves(i) /\ UNCHANGED <<managed, paused>>
    BY <1>1 DEF Close, Discover, Answer, Goto, Leaves, tasks, Types, HandlerTypes
  <2>2. ~ Unpauses(i)
    BY <1>1 DEF Close, Discover, Accept, Answer, Unpauses
  <2> QED BY <2>1, <2>2, ResumesStays
<1>2. ASSUME NEW d \in Ids, StopReturns(i, d) PROVE Resumes'
  <2>1. ~ Unpauses(i) /\ h[i].ids \in SUBSET Ids
    BY <1>2 DEF StopReturns, Unpauses, Types, HandlerTypes, HandlerState
  <2> QED BY <1>2, <2>1, StopNextResumes, SettleResumes DEF StopReturns
<1>3. CASE (\E d \in Ids : StartAgain(i, d)) \/ AllStopped(i)
  BY <1>3, SettleResumes DEF StartAgain, AllStopped
<1>4. CASE ScanBegin(i)
  <2>1. Leaves(i) /\ managed' = managed /\ h'[i].at = "scan" /\ h'[i].was = paused /\ ~ Unpauses(i)
    BY <1>4 DEF ScanBegin, tasks, Leaves, Unpauses, Types, FlagTypes, HandlerTypes, HandlerState
  <2>2. CASE paused = FALSE
    BY <2>1, <2>2 DEF Resumes, Unpauses
  <2>3. CASE paused = TRUE
    <3>1. paused' = paused
      BY <1>4, <2>3 DEF ScanBegin
    <3> QED BY <2>1, <3>1, ResumesStays
  <2> QED BY <2>2, <2>3 DEF Types, FlagTypes
<1>5. ASSUME ScanFound(i), h' = [h EXCEPT ![i].at = "told"], UNCHANGED <<tasks, paused>>
      PROVE  Resumes'
  <2>1. Leaves(i) /\ managed' = managed /\ h'[i].at = "told" /\ h'[i].was = h[i].was
    BY <1>5 DEF tasks, Leaves, Types, HandlerTypes, HandlerState
  <2>2. Unpauses(i) => Unpauses(i)'
    BY <1>5, <2>1 DEF ScanFound, Unpauses
  <2> QED BY <1>5, <2>1, <2>2, ResumesStays
<1>6. ASSUME ScanFound(i), ~(h' = [h EXCEPT ![i].at = "told"] /\ UNCHANGED <<tasks, paused>>)
      PROVE  Resumes'
  <2> DEFINE ids == {x \in Ids : entries'[x] # "absent"}
  <2>1. ScanNext(i, ids) /\ ids \in SUBSET Ids
    BY <1>6 DEF ScanFound
  <2> HIDE DEF ids
  <2> QED BY <1>6, <2>1, ScanNextResumes DEF ScanFound
<1>7. CASE ScanAdds(i)
  BY <1>7, ScanNextResumes DEF ScanAdds, Types, HandlerTypes, HandlerState
<1>8. CASE ScanEnd(i)
  <2>1. Leaves(i) /\ managed' = managed
    BY <1>8 DEF ScanEnd, tasks, Leaves, Types, HandlerTypes
  <2>2. h[i].was \in BOOLEAN /\ paused \in BOOLEAN
    BY DEF Types, FlagTypes, HandlerTypes, HandlerState
  <2>3. CASE h[i].was = TRUE
    <3>1. paused' = paused
      BY <1>8, <2>2, <2>3 DEF ScanEnd
    <3>2. ~ Unpauses(i)
      BY <1>8, <2>3 DEF ScanEnd, Unpauses
    <3> QED BY <2>1, <3>1, <3>2, ResumesStays
  <2>4. CASE h[i].was = FALSE
    <3>1. paused' = FALSE
      BY <1>8, <2>2, <2>4 DEF ScanEnd
    <3> QED BY <3>1 DEF Resumes
  <2> QED BY <2>2, <2>3, <2>4
<1> QED BY <1>1, <1>2, <1>3, <1>4, <1>5, <1>6, <1>7, <1>8 DEF HandlerStep

LEMMA StepResumes == Types /\ Resumes /\ [Next]_vars => Resumes'
<1> SUFFICES ASSUME Types, Resumes, [Next]_vars PROVE Resumes'
  OBVIOUS
<1>1. ASSUME UNCHANGED <<managed, paused, h>> PROVE Resumes'
  BY <1>1 DEF Resumes, Unpauses
<1>2. ASSUME NEW d \in Ids, NEW t \in Tasks, TaskEnds(d, t) PROVE Resumes'
  BY <1>1, <1>2 DEF TaskEnds
<1>3. CASE UNCHANGED vars
  BY <1>1, <1>3 DEF vars, tasks
<1> QED BY <1>2, <1>3, RequestsResume, StepsResume DEF Next

\* Polling never stays paused when requests and scans are over and a device is
\* managed, however they overlapped: _run_scan() restores the flag it found,
\* _reconfigure_active() computes it, and the last of them to write it is right.
THEOREM PauseCorrect == Spec => []PollingResumes
<1>1. Types /\ Resumes => PollingResumes
  BY DEF Types, FlagTypes, Resumes, PollingResumes, Quiet, Unpauses
<1>2. Init => Resumes
  BY DEF Init, Resumes
<1> QED BY <1>1, <1>2, InitTypes, StepTypes, StepResumes, PTL DEF Spec
=============================================================================
