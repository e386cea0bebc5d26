------------------------- MODULE PowerControl_proofs -------------------------
(***************************************************************************)
(* What holds of PowerControl for every set of limits, clamps and locks,   *)
(* every lifetime of the files and any number of concurrent writes: the    *)
(* types, the drain and the survival of limits across restarts.            *)
(***************************************************************************)
EXTENDS PowerControl, TLAPS

\* The steps that neither stop nor start the process.
Serve ==
    \/ VenusWrite \/ WriteReturns
    \/ \E v \in WebLimit : WebSet(v)
    \/ WebEnable \/ WebDisable
    \/ \E k \in Clamp : VirtualClamp(k[1], k[2])
    \/ DeviceClamp
    \/ \E kind \in LockFor : Lock(kind)
    \/ Unlock
    \/ EnterMaintenance \/ StartDrain \/ FinishDrain \/ DrainTimesOut
    \/ Tick

\* Those that end it.
End ==
    \/ Stop
    \/ \E v \in VenusLimit : TornVenusWrite(v)
    \/ \E k \in Clamp : TornClamp(k[1], k[2])

\* Every step serves, ends the process or boots it.
LEMMA NextCases == ASSUME Next PROVE Serve \/ End \/ Boot
  BY DEF Next, Serve, End

-----------------------------------------------------------------------------
\* What the handlers compute is a control state.
LEMMA FreshType == Fresh \in Control
  BY PowerControlAssumption DEF Fresh, Control, Pct, Sources

LEMMA ClipType ==
  ASSUME TypeOK, NEW v \in Pct
  PROVE  Clip(v) \in Pct
  BY DEF Clip, MaxOf, MinOf, TypeOK, Control, Pct

LEMMA AfterVenusLimitType ==
  ASSUME TypeOK, NEW v \in VenusLimit
  PROVE  AfterVenusLimit(v) \in Control
  <1>1. Clip(v) \in Pct
    BY ClipType, PowerControlAssumption
  <1> QED
    BY <1>1 DEF AfterVenusLimit, TypeOK, Control, Sources

LEMMA AfterClampType ==
  ASSUME TypeOK, NEW k \in Clamp
  PROVE  AfterClamp(k[1], k[2]) \in Control
  <1> DEFINE release == k[1] = 0 /\ k[2] >= 100
             raw == IF release THEN 100 ELSE k[2]
  <1>1. k[1] \in Pct /\ k[2] \in Pct
    BY PowerControlAssumption
  <1>2. raw \in Pct
    BY <1>1 DEF Pct
  <1>3. AfterClamp(k[1], k[2]) =
          [ctl EXCEPT !.lo = k[1], !.hi = k[2], !.source = "webapp",
                      !.raw = raw, !.ena = ~release, !.free = FALSE]
    BY DEF AfterClamp
  <1> HIDE DEF raw, release
  <1>4. (~release) \in BOOLEAN
    OBVIOUS
  <1> QED
    BY <1>1, <1>2, <1>3, <1>4 DEF TypeOK, Control, Sources

\* Their images in the files have the files' types.
LEMMA ImageType ==
  ASSUME NEW c \in Control
  PROVE  /\ LastImage(c) \in LastLimit
         /\ StateImage(c) \in StateJson
         /\ UiImage(c) \in UiState
  <1>1. 0 \in 0..LastTTL /\ 0 \in 0..StateTTL /\ 0 \in 0..LockTTL
    BY PowerControlAssumption
  <1>2. LastImage(c) \in LastLimit /\ StateImage(c) \in StateJson
    BY <1>1 DEF LastImage, StateImage, Control, LastLimit, StateJson
  <1>3. (c.lock # "off") \in BOOLEAN
    OBVIOUS
  <1>4. UiImage(c) \in UiState
    BY <1>1, <1>3, Zenon DEF UiImage, Control, UiState
  <1> QED
    BY <1>2, <1>4

\* What the two loaders make of the files.
LEMMA LoadedType ==
  ASSUME TypeOK
  PROVE  Loaded \in Control /\ (Loaded.lock # "timed" => Loaded.left = 0)
  <1> DEFINE c == FromUiState(Fresh)
  <1>1. c \in Control /\ (c.lock # "timed" => c.left = 0)
    <2>1. CASE uiState = Missing
      BY <2>1, FreshType DEF FromUiState, Fresh
    <2>2. CASE uiState # Missing
      <3>1. uiState \in UiState
        BY <2>2 DEF TypeOK
      <3>2. uiState.age < LockTTL => LockTTL - uiState.age \in 0..LockTTL
        BY <3>1, PowerControlAssumption DEF UiState
      <3> QED
        BY <2>2, <3>1, <3>2, FreshType, PowerControlAssumption
           DEF FromUiState, Control, UiState, Fresh
    <2> QED
      BY <2>1, <2>2
  <1>2. FromLastLimit(c) \in Control
        /\ (FromLastLimit(c).lock # "timed" => FromLastLimit(c).left = 0)
    <2>1. CASE lastLimit = Missing
      BY <1>1, <2>1 DEF FromLastLimit
    <2>2. CASE lastLimit # Missing
      <3>1. lastLimit \in LastLimit
        BY <2>2 DEF TypeOK
      <3> QED
        BY <1>1, <3>1 DEF FromLastLimit, Control, LastLimit, Sources
    <2> QED
      BY <2>1, <2>2
  <1> QED
    BY <1>2 DEF Loaded
-----------------------------------------------------------------------------
\* The type invariant, step by step.
LEMMA TypeInit == ASSUME Init PROVE TypeOK
  <1>1. [on |-> FALSE, limit |-> 100] \in [on : BOOLEAN, limit : Pct]
    BY DEF Pct
  <1>2. Wished("none", {}) \in Wish
    BY PowerControlAssumption DEF Wished, Wish, Pct
  <1>3. inflight \in 0..MaxInflight
    BY PowerControlAssumption DEF Init
  <1>4. ctl \in Control /\ ctl.left = 0
    BY FreshType DEF Init, Fresh
  <1> QED
    BY <1>1, <1>2, <1>3, <1>4 DEF Init, TypeOK

LEMMA WishedType ==
  ASSUME NEW kind \in {"none", "venus", "clamp", "set", "released"},
         NEW ok \in SUBSET Pct
  PROVE  Wished(kind, ok) \in Wish
  BY PowerControlAssumption DEF Wished, Wish

LEMMA VenusWriteType == ASSUME TypeOK, VenusWrite PROVE TypeOK'
  <1>1. ASSUME NEW v \in VenusLimit, VenusWritesLimit(v) PROVE TypeOK'
    <2>1. ctl' \in Control /\ (ctl'.lock # "timed" => ctl'.left = 0)
      BY <1>1, AfterVenusLimitType
         DEF VenusWritesLimit, AfterVenusLimit, TypeOK, Control
    <2>2. ctl'.raw \in Pct
      BY <2>1 DEF Control
    <2>3. lastLimit' \in LastLimit /\ stateJson' \in StateJson
      BY <1>1, <2>1, ImageType DEF VenusWritesLimit, SaveLastLimit
    <2>4. dist' \in [on : BOOLEAN, limit : Pct]
      BY <1>1, <2>2 DEF VenusWritesLimit, Distribute
    <2>5. wish' \in Wish
      BY <1>1, <2>2, WishedType DEF VenusWritesLimit
    <2>6. inflight' \in 0..MaxInflight
      BY <1>1, PowerControlAssumption DEF VenusWritesLimit, Gate, TypeOK
    <2> QED
      BY <1>1, <2>1, <2>3, <2>4, <2>5, <2>6 DEF VenusWritesLimit, TypeOK
  <1>2. ASSUME NEW ena \in BOOLEAN, VenusWritesEna(ena) PROVE TypeOK'
    <2>1. ctl' \in Control /\ (ctl'.lock # "timed" => ctl'.left = 0)
      BY <1>2 DEF VenusWritesEna, TypeOK, Control, Sources
    <2>2. dist' \in [on : BOOLEAN, limit : Pct]
      BY <1>2 DEF VenusWritesEna, Distribute, TypeOK, Control
    <2>3. wish' \in Wish
      BY <1>2, WishedType DEF VenusWritesEna
    <2>4. inflight' \in 0..MaxInflight
      BY <1>2, PowerControlAssumption DEF VenusWritesEna, Gate, TypeOK
    <2> QED
      BY <1>2, <2>1, <2>2, <2>3, <2>4 DEF VenusWritesEna, TypeOK, files
  <1>3. CASE VenusWritesOther
    <2>1. ctl.raw \in Pct /\ ctl.ena \in BOOLEAN
      BY DEF TypeOK, Control
    <2>2. dist' \in [on : BOOLEAN, limit : Pct]
      BY <1>3, <2>1 DEF VenusWritesOther, Distribute
    <2>3. inflight' \in 0..MaxInflight
      BY <1>3, PowerControlAssumption DEF VenusWritesOther, Gate, TypeOK
    <2> QED
      BY <1>3, <2>2, <2>3 DEF VenusWritesOther, TypeOK, files
  <1> QED
    BY <1>1, <1>2, <1>3 DEF VenusWrite

LEMMA WebLimitType ==
  ASSUME TypeOK, (\E v \in WebLimit : WebSet(v)) \/ WebEnable \/ WebDisable
  PROVE  TypeOK'
  <1>1. ASSUME NEW v \in WebLimit, WebSet(v) PROVE TypeOK'
    <2>1. v \in Pct
      BY PowerControlAssumption
    <2>2. ctl' \in Control /\ (ctl'.lock # "timed" => ctl'.left = 0)
      BY <1>1, <2>1 DEF WebSet, TypeOK, Control, Sources
    <2>3. wish' \in Wish /\ dist' \in [on : BOOLEAN, limit : Pct]
      BY <1>1, <2>1, WishedType DEF WebSet, Distribute
    <2> QED
      BY <1>1, <2>2, <2>3 DEF WebSet, TypeOK, files
  <1>2. ASSUME WebEnable \/ WebDisable PROVE TypeOK'
    <2>1. ctl' \in Control /\ (ctl'.lock # "timed" => ctl'.left = 0)
      <3>1. /\ ctl \in Control /\ (ctl.lock # "timed" => ctl.left = 0)
            /\ "webapp" \in Sources /\ "none" \in Sources
        BY DEF TypeOK, Sources
      <3>2. \/ ctl' = [ctl EXCEPT !.ena = TRUE, !.source = "webapp"]
            \/ ctl' = [ctl EXCEPT !.ena = FALSE, !.source = "none"]
        BY <1>2 DEF WebEnable, WebDisable
      <3> QED
        BY <3>1, <3>2 DEF Control
    <2>2. ctl.raw \in Pct
      BY DEF TypeOK, Control
    <2>3. dist' \in [on : BOOLEAN, limit : Pct]
      <3>1. \E on \in BOOLEAN : Distribute(ctl.raw, on)
        BY <1>2 DEF WebEnable, WebDisable
      <3> QED
        BY <2>2, <3>1 DEF Distribute
    <2>4. wish' \in Wish
      BY <1>2, WishedType DEF WebEnable, WebDisable
    <2> QED
      BY <1>2, <2>1, <2>3, <2>4 DEF WebEnable, WebDisable, TypeOK, files
  <1> QED
    BY <1>1, <1>2

LEMMA ClampType ==
  ASSUME TypeOK, (\E k \in Clamp : VirtualClamp(k[1], k[2])) \/ DeviceClamp
  PROVE  TypeOK'
  <1>1. ASSUME NEW k \in Clamp, VirtualClamp(k[1], k[2]) PROVE TypeOK'
    <2>1. ctl' \in Control
      BY <1>1, AfterClampType DEF VirtualClamp
    <2>2. ctl'.lock # "timed" => ctl'.left = 0
      BY <1>1 DEF VirtualClamp, AfterClamp, TypeOK, Control
    <2>3. ctl'.raw \in Pct /\ ctl'.ena \in BOOLEAN
      BY <2>1 DEF Control
    <2>4. /\ lastLimit' \in LastLimit /\ stateJson' \in StateJson
          /\ uiState' \in UiState
      BY <1>1, <2>1, ImageType DEF VirtualClamp, SaveLastLimit, SaveUiState
    <2>5. dist' \in [on : BOOLEAN, limit : Pct]
      BY <1>1, <2>3 DEF VirtualClamp, Distribute
    <2>6. wish' \in Wish
      BY <1>1, <2>3, WishedType DEF VirtualClamp
    <2> QED
      BY <1>1, <2>1, <2>2, <2>4, <2>5, <2>6 DEF VirtualClamp, TypeOK
  <1>2. ASSUME DeviceClamp PROVE TypeOK'
    <2>1. uiState' \in UiState
      BY <1>2, ImageType DEF DeviceClamp, SaveUiState, TypeOK
    <2> QED
      BY <1>2, <2>1 DEF DeviceClamp, TypeOK
  <1> QED
    BY <1>1, <1>2

LEMMA LockType ==
  ASSUME TypeOK, (\E kind \in LockFor : Lock(kind)) \/ Unlock
  PROVE  TypeOK'
  <1>1. ASSUME NEW kind \in LockFor, Lock(kind) PROVE TypeOK'
    <2> DEFINE left == IF kind = "timed" THEN LockTTL ELSE 0
    <2>0. /\ left \in 0..LockTTL /\ 100 \in Pct
          /\ kind \in {"off", "timed", "permanent"}
      BY PowerControlAssumption DEF Pct
    <2>1. ctl' \in Control /\ (ctl'.lock # "timed" => ctl'.left = 0)
      <3>1. ctl' = [ctl EXCEPT !.lock = kind, !.raw = 100, !.ena = FALSE,
                               !.left = left, !.source = "none", !.free = TRUE]
        BY <1>1 DEF Lock
      <3>2. kind # "timed" => left = 0
        OBVIOUS
      <3> HIDE DEF left
      <3>3. ctl \in Control /\ "none" \in Sources
        BY DEF TypeOK, Sources
      <3>4. ctl' \in Control
        BY <2>0, <3>1, <3>3 DEF Control
      <3>5. ctl'.lock = kind /\ ctl'.left = left
        BY <3>1, <3>3 DEF Control
      <3> QED
        BY <3>2, <3>4, <3>5
    <2>2. uiState' \in UiState /\ wish' \in Wish
      BY <1>1, <2>1, ImageType, WishedType DEF Lock, SaveUiState
    <2> QED
      BY <1>1, <2>1, <2>2 DEF Lock, TypeOK
  <1>2. ASSUME Unlock PROVE TypeOK'
    <2>0. 0 \in 0..LockTTL
      BY PowerControlAssumption
    <2>1. ctl' \in Control /\ (ctl'.lock # "timed" => ctl'.left = 0)
      BY <1>2, <2>0 DEF Unlock, TypeOK, Control
    <2>2. uiState' \in UiState
      BY <1>2, <2>1, ImageType DEF Unlock, SaveUiState
    <2> QED
      BY <1>2, <2>1, <2>2 DEF Unlock, TypeOK
  <1> QED
    BY <1>1, <1>2

LEMMA DrainType ==
  ASSUME TypeOK,
         \/ WriteReturns \/ EnterMaintenance
         \/ StartDrain \/ FinishDrain \/ DrainTimesOut
  PROVE  TypeOK'
  <1>1. CASE WriteReturns
    <2>1. inflight' \in 0..MaxInflight
      BY <1>1, PowerControlAssumption DEF WriteReturns, TypeOK
    <2> QED
      BY <1>1, <2>1 DEF WriteReturns, TypeOK, files
  <1>2. CASE EnterMaintenance
    BY <1>2 DEF EnterMaintenance, TypeOK, files
  <1>3. CASE StartDrain \/ FinishDrain \/ DrainTimesOut
    BY <1>3 DEF StartDrain, FinishDrain, DrainTimesOut, TypeOK, files
  <1> QED
    BY <1>1, <1>2, <1>3

\* The ages stay in their ranges.
LEMMA AgeType ==
  ASSUME NEW n \in Nat, NEW a \in 0..n
  PROVE  MinOf(a + 1, n) \in 0..n
  BY DEF MinOf

LEMMA TickType == ASSUME TypeOK, Tick PROVE TypeOK'
  <1>1. ctl' \in Control /\ (ctl'.lock # "timed" => ctl'.left = 0)
    <2>1. (IF ctl.left > 0 THEN ctl.left - 1 ELSE 0) \in 0..LockTTL
      BY PowerControlAssumption DEF TypeOK, Control
    <2> QED
      BY <2>1 DEF Tick, TypeOK, Control
  <1>2. lastLimit' \in LastLimit \cup {Missing}
    BY AgeType, PowerControlAssumption DEF Tick, TypeOK, LastLimit
  <1>3. stateJson' \in StateJson \cup {Missing}
    BY AgeType, PowerControlAssumption DEF Tick, TypeOK, StateJson
  <1>4. uiState' \in UiState \cup {Missing}
    BY AgeType, PowerControlAssumption DEF Tick, TypeOK, UiState
  <1>5. wish' \in Wish
    BY AgeType, PowerControlAssumption DEF Tick, TypeOK, Wish
  <1> QED
    BY <1>1, <1>2, <1>3, <1>4, <1>5 DEF Tick, TypeOK

\* A process that has ended; with the files it leaves behind.
LEMMA GoneType ==
  ASSUME TypeOK, Gone,
         lastLimit' \in LastLimit \cup {Missing},
         stateJson' \in StateJson \cup {Missing},
         uiState' \in UiState \cup {Missing},
         wish' \in Wish
  PROVE  TypeOK'
  <1>1. [on |-> FALSE, limit |-> 100] \in [on : BOOLEAN, limit : Pct]
    BY DEF Pct
  <1>2. 0 \in 0..MaxInflight
    BY PowerControlAssumption
  <1>3. Fresh \in Control /\ Fresh.left = 0
    BY FreshType DEF Fresh
  <1> QED
    BY <1>1, <1>2, <1>3 DEF Gone, TypeOK

LEMMA EitherType ==
  ASSUME TypeOK, NEW limit \in Pct
  PROVE  Either(limit) \in Wish
  BY DEF Either, TypeOK, Wish

LEMMA EndType == ASSUME TypeOK, End PROVE TypeOK'
  <1>1. CASE Stop
    BY <1>1, GoneType DEF Stop, files, TypeOK
  <1>2. ASSUME NEW v \in VenusLimit, TornVenusWrite(v) PROVE TypeOK'
    <2> DEFINE c == AfterVenusLimit(v)
    <2>1. c \in Control /\ c.raw \in Pct
      BY AfterVenusLimitType DEF Control
    <2> HIDE DEF c
    <2>2. lastLimit' \in LastLimit \cup {Missing}
      BY <1>2, <2>1, ImageType DEF TornVenusWrite, c
    <2>3. wish' \in Wish
      BY <1>2, <2>1, EitherType DEF TornVenusWrite, c
    <2> QED
      BY <1>2, <2>2, <2>3, GoneType DEF TornVenusWrite, TypeOK
  <1>3. ASSUME NEW k \in Clamp, TornClamp(k[1], k[2]) PROVE TypeOK'
    <2> DEFINE c == AfterClamp(k[1], k[2])
    <2>1. c \in Control /\ c.raw \in Pct
      BY AfterClampType DEF Control
    <2>2. ctl \in Control
      BY DEF TypeOK
    <2> HIDE DEF c
    <2>3. lastLimit' \in LastLimit \cup {Missing}
      BY <1>3, <2>1, ImageType DEF TornClamp, c, TypeOK
    <2>4. uiState' \in UiState \cup {Missing}
      BY <1>3, <2>1, <2>2, ImageType DEF TornClamp, c
    <2>5. wish' \in Wish
      BY <1>3, <2>1, EitherType DEF TornClamp, c
    <2> QED
      BY <1>3, <2>3, <2>4, <2>5, GoneType DEF TornClamp, TypeOK
  <1> QED
    BY <1>1, <1>2, <1>3 DEF End

LEMMA BootType == ASSUME TypeOK, Boot PROVE TypeOK'
  <1>1. ctl' \in Control /\ (ctl'.lock # "timed" => ctl'.left = 0)
    <2>1. CASE Restorable
      <3>1. stateJson.pct \in Pct
        BY <2>1 DEF Restorable, TypeOK, StateJson
      <3> QED
        BY <2>1, <3>1, LoadedType DEF Boot, Control, Sources
    <2>2. CASE ~Restorable
      BY <2>2, LoadedType DEF Boot
    <2> QED
      BY <2>1, <2>2
  <1>2. ctl'.raw \in Pct
    BY <1>1 DEF Control
  <1>3. /\ lastLimit' \in LastLimit \cup {Missing}
        /\ stateJson' \in StateJson \cup {Missing}
    BY <1>1, ImageType DEF Boot, SaveLastLimit, TypeOK
  <1>4. dist' \in [on : BOOLEAN, limit : Pct]
    <2>1. CASE Restorable
      <3>1. dist' = [on |-> TRUE, limit |-> ctl'.raw]
        BY <2>1 DEF Boot, Distribute
      <3> QED
        BY <1>2, <3>1
    <2>2. CASE ~Restorable
      BY <2>2 DEF Boot, TypeOK
    <2> QED
      BY <2>1, <2>2
  <1>5. wish' \in Wish
    <2>1. (wish.lapsed \/ wish.age >= StateTTL) \in BOOLEAN
      OBVIOUS
    <2> QED
      BY <2>1, Zenon DEF Boot, TypeOK, Wish
  <1> QED
    BY <1>1, <1>3, <1>4, <1>5 DEF Boot, TypeOK

LEMMA TypeNext == ASSUME TypeOK, [Next]_vars PROVE TypeOK'
  <1>1. CASE Serve
    BY <1>1, VenusWriteType, WebLimitType, ClampType, LockType, DrainType,
       TickType DEF Serve
  <1>2. CASE End \/ Boot
    BY <1>2, EndType, BootType
  <1>3. CASE UNCHANGED vars
    BY <1>3 DEF vars, files, TypeOK
  <1> QED
    BY <1>1, <1>2, <1>3, NextCases

\* Every variable keeps its type; in particular no age leaves its range, no
\* count of writes in flight its bound, and no limit 0..100 %.
THEOREM TypeCorrect == Spec => []TypeOK
  BY TypeInit, TypeNext, PTL DEF Spec

-----------------------------------------------------------------------------
\* Draining happens in maintenance only, where no write gets in: the inductive
\* form of DrainedMeansQuiet.
DrainInv ==
    /\ drain # "no" => maintenance
    /\ drain \in {"woken", "done"} => inflight = 0

LEMMA DrainInvNext == ASSUME TypeOK, DrainInv, [Next]_vars PROVE DrainInv'
  <1>1. CASE VenusWrite
    BY <1>1 DEF VenusWrite, VenusWritesLimit, VenusWritesEna, VenusWritesOther,
                Gate, DrainInv
  <1>2. CASE WriteReturns
    <2>1. inflight \in Nat /\ inflight > 0
      BY <1>2, PowerControlAssumption DEF TypeOK, WriteReturns
    <2>2. drain \notin {"woken", "done"}
      BY <2>1 DEF DrainInv
    <2>3. drain' \in {"woken", "done"} => inflight' = 0
      BY <1>2, <2>2 DEF WriteReturns
    <2>4. drain' # "no" => maintenance'
      BY <1>2 DEF WriteReturns, DrainInv
    <2> QED
      BY <2>3, <2>4 DEF DrainInv
  <1>3. CASE EnterMaintenance \/ StartDrain \/ FinishDrain \/ DrainTimesOut
    BY <1>3 DEF EnterMaintenance, StartDrain, FinishDrain, DrainTimesOut, DrainInv
  <1>4. CASE \/ \E v \in WebLimit : WebSet(v)
             \/ WebEnable \/ WebDisable
             \/ \E k \in Clamp : VirtualClamp(k[1], k[2])
             \/ DeviceClamp
             \/ \E kind \in LockFor : Lock(kind)
             \/ Unlock \/ Tick \/ Boot
    <2>1. UNCHANGED <<maintenance, inflight, drain>>
      BY <1>4 DEF WebSet, WebEnable, WebDisable, VirtualClamp, DeviceClamp, Lock,
                  Unlock, Tick, Boot
    <2> QED
      BY <2>1 DEF DrainInv
  <1>5. CASE End
    <2>1. Gone
      BY <1>5 DEF End, Stop, TornVenusWrite, TornClamp
    <2> QED
      BY <2>1 DEF Gone, DrainInv
  <1>6. CASE UNCHANGED vars
    BY <1>6 DEF vars, DrainInv
  <1> QED
    BY <1>1, <1>2, <1>3, <1>4, <1>5, <1>6, NextCases DEF Serve

\* RESTART-02: however many writes are in flight when the drain starts, when it
\* reports success none is left, and none gets in before the process ends.
THEOREM DrainCorrect == Spec => []DrainedMeansQuiet
  <1>1. Init => DrainInv
    BY DEF Init, DrainInv
  <1>2. DrainInv => DrainedMeansQuiet
    BY DEF DrainInv, DrainedMeansQuiet
  <1> QED
    BY <1>1, <1>2, TypeInit, TypeNext, DrainInvNext, PTL DEF Spec

-----------------------------------------------------------------------------
\* A limit that is promised to survive is in state.json, no older there than it
\* is, and in force while the process runs.
Promised == wish.kind \in {"venus", "clamp"} /\ ~wish.lapsed

DurableInv ==
    Promised => /\ stateJson \in StateJson
                /\ stateJson.pct \in wish.ok
                /\ stateJson.age <= wish.age
                /\ up => InForce(wish.ok)

\* A handler that saves the limit it puts in force, or that makes no promise.
LEMMA DurableDecision ==
  ASSUME TypeOK, DurableInv, VenusWrite \/ (\E v \in WebLimit : WebSet(v))
           \/ WebEnable \/ WebDisable
           \/ (\E k \in Clamp : VirtualClamp(k[1], k[2]))
           \/ (\E kind \in LockFor : Lock(kind))
  PROVE  DurableInv'
  <1>1. ASSUME NEW v \in VenusLimit, VenusWritesLimit(v) PROVE DurableInv'
    <2>1. ctl'.ena /\ ctl' \in Control
      BY <1>1, AfterVenusLimitType
         DEF VenusWritesLimit, AfterVenusLimit, TypeOK, Control
    <2>2. stateJson' = [pct |-> ctl'.raw, age |-> 0]
          /\ dist' = [on |-> TRUE, limit |-> ctl'.raw]
      BY <1>1 DEF VenusWritesLimit, SaveLastLimit, StateImage, Distribute
    <2>3. stateJson' \in StateJson
      BY <1>1, <2>1, ImageType DEF VenusWritesLimit, SaveLastLimit
    <2>4. wish'.ok = {ctl'.raw} /\ wish'.age = 0
      BY <1>1 DEF VenusWritesLimit, Wished
    <2> QED
      BY <2>1, <2>2, <2>3, <2>4 DEF DurableInv, InForce
  <1>2. ASSUME NEW k \in Clamp, VirtualClamp(k[1], k[2]) PROVE DurableInv'
    <2>1. ctl' \in Control
      BY <1>2, AfterClampType DEF VirtualClamp
    <2>2. stateJson' = [pct |-> ctl'.raw, age |-> 0]
          /\ dist' = [on |-> ctl'.ena, limit |-> ctl'.raw]
      BY <1>2 DEF VirtualClamp, SaveLastLimit, StateImage, Distribute
    <2>3. stateJson' \in StateJson
      BY <1>2, <2>1, ImageType DEF VirtualClamp, SaveLastLimit
    <2>4. IF ctl'.ena THEN wish'.ok = {ctl'.raw} /\ wish'.age = 0
                      ELSE wish'.kind = "released"
      BY <1>2 DEF VirtualClamp, Wished
    <2> QED
      BY <2>1, <2>2, <2>3, <2>4 DEF DurableInv, InForce, Promised
  <1>3. CASE \/ \E ena \in BOOLEAN : VenusWritesEna(ena)
             \/ \E v \in WebLimit : WebSet(v)
             \/ WebEnable \/ WebDisable
             \/ \E kind \in LockFor : Lock(kind)
    <2>1. \E kind \in {"none", "set", "released"}, ok \in SUBSET Pct :
            wish' = Wished(kind, ok)
      BY <1>3, PowerControlAssumption
         DEF VenusWritesEna, WebSet, WebEnable, WebDisable, Lock
    <2>2. wish'.kind \in {"none", "set", "released"}
      BY <2>1 DEF Wished
    <2> QED
      BY <2>2 DEF DurableInv, Promised
  <1>4. CASE VenusWritesOther
    <2>1. dist' = [on |-> ctl.ena, limit |-> ctl.raw]
          /\ UNCHANGED <<up, ctl, stateJson, wish>>
      BY <1>4 DEF VenusWritesOther, Distribute, files
    <2> QED
      BY <2>1 DEF DurableInv, Promised, InForce
  <1> QED
    BY <1>1, <1>2, <1>3, <1>4 DEF VenusWrite

\* Steps that leave the limit and its file alone.
LEMMA DurableRest ==
  ASSUME TypeOK, DurableInv,
         \/ WriteReturns \/ DeviceClamp \/ Unlock
         \/ EnterMaintenance \/ StartDrain \/ FinishDrain \/ DrainTimesOut
  PROVE  DurableInv'
  <1>1. /\ UNCHANGED <<up, dist, stateJson, wish>>
        /\ ctl'.ena = ctl.ena /\ ctl'.raw = ctl.raw
    BY DEF WriteReturns, DeviceClamp, Unlock, EnterMaintenance, StartDrain,
           FinishDrain, DrainTimesOut, files, TypeOK, Control
  <1> QED
    BY <1>1 DEF DurableInv, Promised, InForce

\* Both ages grow together, up to the same bound.
LEMMA DurableTick == ASSUME TypeOK, DurableInv, Tick PROVE DurableInv'
  <1> SUFFICES ASSUME Promised' PROVE DurableInv'
    BY DEF DurableInv
  <1>1. /\ wish'.kind = wish.kind /\ wish'.lapsed = wish.lapsed
        /\ wish'.ok = wish.ok /\ wish'.age = MinOf(wish.age + 1, StateTTL)
        /\ wish.age \in 0..StateTTL
    BY DEF Tick, TypeOK, Wish
  <1>2. Promised
    BY <1>1 DEF Promised
  <1>3. stateJson' = [stateJson EXCEPT !.age = MinOf(@ + 1, StateTTL)]
        /\ stateJson \in StateJson
    BY <1>2, MissingAssumption DEF Tick, DurableInv
  <1>4. /\ stateJson'.pct = stateJson.pct
        /\ stateJson'.age = MinOf(stateJson.age + 1, StateTTL)
        /\ stateJson.age \in 0..StateTTL
    BY <1>3 DEF StateJson
  <1>5. stateJson'.age <= wish'.age
    BY <1>1, <1>2, <1>4, PowerControlAssumption DEF DurableInv, MinOf
  <1>6. MinOf(stateJson.age + 1, StateTTL) \in 0..StateTTL
    BY <1>4, PowerControlAssumption, AgeType
  <1>7. stateJson' \in StateJson
    BY <1>3, <1>6 DEF StateJson
  <1>8. UNCHANGED <<up, dist>> /\ ctl'.ena = ctl.ena /\ ctl'.raw = ctl.raw
    BY DEF Tick, TypeOK, Control
  <1> QED
    BY <1>1, <1>2, <1>4, <1>5, <1>7, <1>8 DEF DurableInv, InForce

\* A process that ends leaves state.json as it is; what is promised only grows.
LEMMA DurableEnd == ASSUME TypeOK, DurableInv, End PROVE DurableInv'
  <1>1. UNCHANGED stateJson /\ ~up'
    BY DEF End, Stop, TornVenusWrite, TornClamp, Gone, files
  <1>2. /\ wish'.kind = wish.kind /\ wish'.lapsed = wish.lapsed
        /\ wish'.age = wish.age
        /\ Promised => wish.ok \subseteq wish'.ok
    <2>1. CASE Stop
      BY <2>1 DEF Stop
    <2>2. ASSUME NEW limit, wish' = Either(limit)
          PROVE  /\ wish'.kind = wish.kind /\ wish'.lapsed = wish.lapsed
                 /\ wish'.age = wish.age
                 /\ Promised => wish.ok \subseteq wish'.ok
      BY <2>2 DEF Either, Promised, TypeOK, Wish
    <2>3. CASE \/ \E v \in VenusLimit : TornVenusWrite(v)
               \/ \E k \in Clamp : TornClamp(k[1], k[2])
      BY <2>2, <2>3 DEF TornVenusWrite, TornClamp
    <2> QED
      BY <2>1, <2>3 DEF End
  <1> QED
    BY <1>1, <1>2 DEF DurableInv, Promised

\* A boot that still owes the limit finds state.json fresh.
LEMMA DurableBoot == ASSUME TypeOK, DurableInv, Boot PROVE DurableInv'
  <1> SUFFICES ASSUME Promised' PROVE DurableInv'
    BY DEF DurableInv
  <1>1. wish' = [wish EXCEPT !.lapsed = @ \/ wish.age >= StateTTL]
        /\ wish \in Wish
    BY DEF Boot, TypeOK
  <1>2. /\ wish'.kind = wish.kind /\ wish'.ok = wish.ok /\ wish'.age = wish.age
        /\ wish'.lapsed = (wish.lapsed \/ wish.age >= StateTTL)
        /\ wish.age \in 0..StateTTL
    BY <1>1 DEF Wish
  <1>3. Promised /\ wish.age < StateTTL
    <2>1. ~wish.lapsed /\ ~(wish.age >= StateTTL)
      BY <1>2, Zenon DEF Promised
    <2>2. wish.age < StateTTL
      BY <1>2, <2>1, PowerControlAssumption
    <2> QED
      BY <1>2, <2>1, <2>2 DEF Promised
  <1>4. stateJson \in StateJson /\ stateJson.age <= wish.age
        /\ stateJson.pct \in wish.ok
    BY <1>3 DEF DurableInv
  <1>5. Restorable
    <2>1. stateJson.age < StateTTL
      BY <1>2, <1>3, <1>4, PowerControlAssumption DEF StateJson
    <2> QED
      BY <1>4, <2>1, MissingAssumption DEF Restorable
  <1>6. /\ ctl' = [Loaded EXCEPT !.raw = stateJson.pct, !.ena = TRUE,
                                 !.source = "venus_os", !.free = FALSE]
        /\ stateJson' = [pct |-> ctl'.raw, age |-> 0]
        /\ dist' = [on |-> TRUE, limit |-> ctl'.raw]
    BY <1>5 DEF Boot, SaveLastLimit, StateImage, Distribute
  <1>7. ctl'.raw = stateJson.pct /\ ctl'.ena
    BY <1>6, LoadedType DEF Control
  <1>8. stateJson' \in StateJson /\ stateJson'.age <= wish'.age
    BY <1>2, <1>4, <1>6, <1>7, PowerControlAssumption DEF StateJson
  <1> QED
    BY <1>2, <1>4, <1>6, <1>7, <1>8 DEF DurableInv, InForce

LEMMA DurableNext == ASSUME TypeOK, DurableInv, [Next]_vars PROVE DurableInv'
  <1>1. CASE Serve
    BY <1>1, DurableDecision, DurableRest, DurableTick DEF Serve
  <1>2. CASE End \/ Boot
    BY <1>2, DurableEnd, DurableBoot
  <1>3. CASE UNCHANGED vars
    BY <1>3 DEF vars, files, DurableInv, Promised, InForce
  <1> QED
    BY <1>1, <1>2, <1>3, NextCases

\* SAFETY-09: a limit of Venus OS or of the virtual clamp stays in force across
\* any number of stops, crashes between and inside handlers, and boots, as long
\* as no boot comes after the limit's lifetime and nobody decides otherwise.
THEOREM LimitsAreDurable == Spec => []LimitSurvivesRestart
  <1>1. Init => DurableInv
    BY DEF Init, DurableInv, Promised, Wished
  <1>2. DurableInv => LimitSurvivesRestart
    BY DEF DurableInv, Promised, LimitSurvivesRestart
  <1> QED
    BY <1>1, <1>2, TypeInit, TypeNext, DurableNext, PTL DEF Spec

-----------------------------------------------------------------------------
\* The clamp that a boot would load.
FileLo == IF uiState = Missing THEN 0 ELSE uiState.lo
FileHi == IF uiState = Missing THEN 100 ELSE uiState.hi
Inside(limit) == FileLo <= limit /\ limit <= FileHi

\* Every clamp that is set is saved in the same step, so the clamp in force is
\* the one of the files, and what any file says on behalf of Venus OS lies
\* inside it.
ClampInv ==
    /\ FileLo <= FileHi /\ FileHi >= 1
    /\ up => ctl.lo = FileLo /\ ctl.hi = FileHi
    /\ up /\ ~ctl.free => Inside(ctl.raw)
    /\ uiState # Missing /\ ~uiState.free => Inside(uiState.raw)
    /\ lastLimit # Missing /\ lastLimit.source = "venus_os" => Inside(lastLimit.raw)
    /\ stateJson # Missing => Inside(stateJson.pct)
    /\ dist.on => up
    /\ dist.on /\ ~ctl.free => dist.limit = ctl.raw

OrderedClamps == \A k \in Clamp : k[1] <= k[2] /\ k[2] >= 1

\* The clamp's bounds are numbers.
LEMMA ClampNumbers ==
  ASSUME TypeOK
  PROVE  FileLo \in Pct /\ FileHi \in Pct /\ ctl.raw \in Pct
  BY DEF FileLo, FileHi, TypeOK, UiState, Control, Pct

\* Between the bounds, what Venus OS asks for is clipped to the clamp.
LEMMA ClipInside ==
  ASSUME TypeOK, ClampInv, up, NEW v \in Pct
  PROVE  Inside(Clip(v))
  BY ClampNumbers DEF Clip, MaxOf, MinOf, ClampInv, Inside, Pct

LEMMA ClampVenus == ASSUME TypeOK, ClampInv, VenusWrite PROVE ClampInv'
  <1>1. UNCHANGED <<up, uiState>> /\ up
    BY DEF VenusWrite, VenusWritesLimit, VenusWritesEna, VenusWritesOther, Gate,
           files
  <1>2. FileLo' = FileLo /\ FileHi' = FileHi
    BY <1>1 DEF FileLo, FileHi
  <1>3. ASSUME NEW v \in VenusLimit, VenusWritesLimit(v) PROVE ClampInv'
    <2>1. Inside(Clip(v))
      BY <1>1, ClipInside, PowerControlAssumption
    <2>2. /\ ctl'.raw = Clip(v) /\ ctl'.lo = ctl.lo /\ ctl'.hi = ctl.hi
      BY <1>3 DEF VenusWritesLimit, AfterVenusLimit, TypeOK, Control
    <2>3. /\ lastLimit'.raw = Clip(v) /\ stateJson'.pct = Clip(v)
          /\ dist'.limit = ctl'.raw
      BY <1>3, <2>2 DEF VenusWritesLimit, SaveLastLimit, LastImage, StateImage,
                       Distribute
    <2> QED
      BY <1>1, <1>2, <2>1, <2>2, <2>3 DEF ClampInv, Inside
  <1>4. CASE VenusWritesOther \/ \E ena \in BOOLEAN : VenusWritesEna(ena)
    <2>1. UNCHANGED <<lastLimit, stateJson>> /\ dist'.limit = ctl.raw
      <3>1. CASE VenusWritesOther
        BY <3>1 DEF VenusWritesOther, Distribute, files
      <3>2. ASSUME NEW ena \in BOOLEAN, VenusWritesEna(ena)
            PROVE  UNCHANGED <<lastLimit, stateJson>> /\ dist'.limit = ctl.raw
        BY <3>2 DEF VenusWritesEna, Distribute, files
      <3> QED
        BY <1>4, <3>1, <3>2
    <2>2. /\ ctl'.raw = ctl.raw /\ ctl'.free = ctl.free
          /\ ctl'.lo = ctl.lo /\ ctl'.hi = ctl.hi
      BY <1>4 DEF VenusWritesOther, VenusWritesEna, TypeOK, Control
    <2> QED
      BY <1>1, <1>2, <2>1, <2>2 DEF ClampInv, Inside
  <1> QED
    BY <1>3, <1>4 DEF VenusWrite

LEMMA ClampWeb ==
  ASSUME TypeOK, ClampInv, (\E v \in WebLimit : WebSet(v)) \/ WebEnable \/ WebDisable
  PROVE  ClampInv'
  <1>1. UNCHANGED <<up, files>> /\ up
    BY DEF WebSet, WebEnable, WebDisable
  <1>2. FileLo' = FileLo /\ FileHi' = FileHi
    BY <1>1 DEF FileLo, FileHi, files
  <1>3. ctl'.lo = ctl.lo /\ ctl'.hi = ctl.hi
    <2>1. ASSUME NEW v \in WebLimit, WebSet(v) PROVE ctl'.lo = ctl.lo /\ ctl'.hi = ctl.hi
      <3>1. ctl' = [ctl EXCEPT !.raw = v, !.ena = TRUE, !.source = "webapp", !.free = TRUE]
        BY <2>1 DEF WebSet
      <3> QED BY <3>1 DEF TypeOK, Control
    <2>2. CASE WebEnable
      <3>1. ctl' = [ctl EXCEPT !.ena = TRUE, !.source = "webapp"]
        BY <2>2 DEF WebEnable
      <3> QED BY <3>1 DEF TypeOK, Control
    <2>3. CASE WebDisable
      <3>1. ctl' = [ctl EXCEPT !.ena = FALSE, !.source = "none"]
        BY <2>3 DEF WebDisable
      <3> QED BY <3>1 DEF TypeOK, Control
    <2> QED BY <2>1, <2>2, <2>3
  <1>4. CASE \E v \in WebLimit : WebSet(v)
    <2>1. ctl'.free = TRUE
      BY <1>4 DEF WebSet, TypeOK, Control
    <2> QED
      BY <1>1, <1>2, <1>3, <2>1 DEF ClampInv, Inside, files
  <1>5. CASE WebEnable \/ WebDisable
    <2>1. ctl'.raw = ctl.raw /\ ctl'.free = ctl.free
      BY <1>5 DEF WebEnable, WebDisable, TypeOK, Control
    <2>2. dist'.limit = ctl.raw
      BY <1>5 DEF WebEnable, WebDisable, Distribute
    <2> QED
      BY <1>1, <1>2, <1>3, <2>1, <2>2 DEF ClampInv, Inside, files
  <1> QED
    BY <1>4, <1>5

\* A clamp in order contains its own maximum, and 100 % when it is released.
LEMMA ClampSet ==
  ASSUME TypeOK, ClampInv, OrderedClamps, NEW k \in Clamp, VirtualClamp(k[1], k[2])
  PROVE  ClampInv'
  <1> DEFINE release == k[1] = 0 /\ k[2] >= 100
             limit == IF release THEN 100 ELSE k[2]
  <1>1. /\ k[1] \in 0..100 /\ k[2] \in 0..100 /\ k[1] <= k[2] /\ k[2] >= 1
    BY PowerControlAssumption DEF OrderedClamps, Pct
  <1>2. k[1] <= limit /\ limit <= k[2]
    BY <1>1
  <1>3. ctl' \in Control
    BY AfterClampType DEF VirtualClamp
  <1>4. ctl'.raw = limit /\ ctl'.lo = k[1] /\ ctl'.hi = k[2]
    BY DEF VirtualClamp, AfterClamp, TypeOK, Control
  <1> HIDE DEF release, limit
  <1>5. /\ uiState'.raw = limit /\ uiState'.lo = k[1] /\ uiState'.hi = k[2]
        /\ lastLimit'.raw = limit /\ stateJson'.pct = limit
    BY <1>4 DEF VirtualClamp, SaveUiState, UiImage, SaveLastLimit, LastImage,
                StateImage
  <1>6. uiState' # Missing
    BY <1>3, ImageType, MissingAssumption DEF VirtualClamp, SaveUiState
  <1>7. FileLo' = k[1] /\ FileHi' = k[2]
    BY <1>5, <1>6 DEF FileLo, FileHi
  <1>8. dist'.limit = ctl'.raw /\ up'
    BY DEF VirtualClamp, Distribute
  <1> QED
    BY <1>1, <1>2, <1>4, <1>5, <1>7, <1>8 DEF ClampInv, Inside

\* Saving the control state saves the clamp that is in the file already.
LEMMA ClampSave ==
  ASSUME TypeOK, ClampInv, DeviceClamp \/ Unlock \/ \E kind \in LockFor : Lock(kind)
  PROVE  ClampInv'
  <1>1. /\ UNCHANGED <<up, dist, lastLimit, stateJson>> /\ up
        /\ uiState' = UiImage(ctl')
    BY DEF DeviceClamp, Unlock, Lock, SaveUiState
  <1>2. /\ ctl'.lo = ctl.lo /\ ctl'.hi = ctl.hi
        /\ ctl'.free = TRUE \/ (ctl'.raw = ctl.raw /\ ctl'.free = ctl.free)
    <2>1. CASE DeviceClamp
      BY <2>1 DEF DeviceClamp
    <2>2. CASE Unlock
      BY <2>2 DEF Unlock, TypeOK, Control
    <2>3. ASSUME NEW kind \in LockFor, Lock(kind)
          PROVE  ctl'.lo = ctl.lo /\ ctl'.hi = ctl.hi /\ ctl'.free = TRUE
      <3> DEFINE left == IF kind = "timed" THEN LockTTL ELSE 0
      <3>1. ctl' = [ctl EXCEPT !.lock = kind, !.raw = 100, !.ena = FALSE,
                               !.left = left, !.source = "none", !.free = TRUE]
        BY <2>3 DEF Lock
      <3> HIDE DEF left
      <3> QED
        BY <3>1 DEF TypeOK, Control
    <2> QED
      BY <2>1, <2>2, <2>3
  <1>3. TypeOK'
    BY ClampType, LockType
  <1>4. uiState' # Missing
    BY <1>1, <1>3, ImageType, MissingAssumption DEF TypeOK
  <1>5. /\ uiState'.raw = ctl'.raw /\ uiState'.free = ctl'.free
        /\ uiState'.lo = ctl.lo /\ uiState'.hi = ctl.hi
    BY <1>1, <1>2 DEF UiImage
  <1>6. FileLo' = FileLo /\ FileHi' = FileHi
    BY <1>1, <1>4, <1>5 DEF FileLo, FileHi, ClampInv
  <1> QED
    BY <1>1, <1>2, <1>5, <1>6 DEF ClampInv, Inside

\* Steps that leave the limit, the clamp and what the files say of them alone.
LEMMA ClampRest ==
  ASSUME TypeOK, ClampInv,
         \/ WriteReturns \/ EnterMaintenance
         \/ StartDrain \/ FinishDrain \/ DrainTimesOut
  PROVE  ClampInv'
  <1>1. UNCHANGED <<up, ctl, dist, files>>
    BY DEF WriteReturns, EnterMaintenance, StartDrain, FinishDrain, DrainTimesOut
  <1> QED
    BY <1>1 DEF ClampInv, FileLo, FileHi, Inside, files

LEMMA ClampTick == ASSUME TypeOK, ClampInv, Tick PROVE ClampInv'
  <1>1. /\ UNCHANGED <<up, dist>>
        /\ ctl'.raw = ctl.raw /\ ctl'.free = ctl.free
        /\ ctl'.lo = ctl.lo /\ ctl'.hi = ctl.hi
    BY DEF Tick, TypeOK, Control
  <1>3. /\ uiState = Missing => uiState' = Missing
        /\ uiState # Missing => /\ uiState' # Missing
                               /\ uiState'.raw = uiState.raw
                               /\ uiState'.free = uiState.free
                               /\ uiState'.lo = uiState.lo
                               /\ uiState'.hi = uiState.hi
    <2>1. TypeOK'
      BY TickType
    <2> QED
      BY <2>1, AgeType, PowerControlAssumption, MissingAssumption
         DEF Tick, TypeOK, UiState
  <1>4. /\ lastLimit = Missing => lastLimit' = Missing
        /\ lastLimit # Missing => /\ lastLimit'.raw = lastLimit.raw
                                 /\ lastLimit'.source = lastLimit.source
    BY DEF Tick, TypeOK, LastLimit
  <1>5. /\ stateJson = Missing => stateJson' = Missing
        /\ stateJson # Missing => stateJson'.pct = stateJson.pct
    BY DEF Tick, TypeOK, StateJson
  <1>6. FileLo' = FileLo /\ FileHi' = FileHi
    BY <1>3 DEF FileLo, FileHi
  <1> QED
    BY <1>1, <1>3, <1>4, <1>5, <1>6 DEF ClampInv, Inside

\* A process that ends leaves the files as they are, unless a crash tears them.
LEMMA ClampEnd ==
  ASSUME TypeOK, ClampInv, End, "tear" \notin Fault
  PROVE  ClampInv'
  <1>1. Gone /\ UNCHANGED files
    BY DEF End, Stop, TornVenusWrite, TornClamp
  <1>2. ~up' /\ ~dist'.on
    BY <1>1 DEF Gone
  <1> QED
    BY <1>1, <1>2 DEF ClampInv, FileLo, FileHi, Inside, files

\* What is read back: the clamp of the files, and with it a limit inside it or
\* one it does not bind.
LEMMA ClampLoaded ==
  ASSUME TypeOK, ClampInv
  PROVE  /\ Loaded.lo = FileLo /\ Loaded.hi = FileHi
         /\ ~Loaded.free => Inside(Loaded.raw)
  <1> DEFINE c == FromUiState(Fresh)
  <1>1. /\ c.lo = FileLo /\ c.hi = FileHi
        /\ ~c.free => Inside(c.raw)
        /\ c \in Control
    <2>1. CASE uiState = Missing
      BY <2>1, FreshType DEF FromUiState, Fresh, FileLo, FileHi
    <2>2. CASE uiState # Missing
      <3>1. uiState \in UiState
        BY <2>2 DEF TypeOK
      <3>2. c.lo = uiState.lo /\ c.hi = uiState.hi
        BY <2>2 DEF FromUiState
      <3>3. ~c.free => ~uiState.free /\ c.raw = uiState.raw
        BY <2>2 DEF FromUiState
      <3>4. uiState.age < LockTTL => LockTTL - uiState.age \in 0..LockTTL
        BY <3>1, PowerControlAssumption DEF UiState
      <3>5. c \in Control
        BY <2>2, <3>1, <3>4, FreshType, PowerControlAssumption
           DEF FromUiState, Control, UiState, Fresh
      <3> QED
        BY <2>2, <3>2, <3>3, <3>5 DEF FileLo, FileHi, ClampInv
    <2> QED
      BY <2>1, <2>2
  <1> HIDE DEF c
  <1>2. CASE /\ lastLimit # Missing /\ lastLimit.age < LastTTL
             /\ lastLimit.source = "venus_os"
    <2>1. FromLastLimit(c) =
            [c EXCEPT !.raw = lastLimit.raw, !.ena = TRUE, !.source = "venus_os",
                      !.free = FALSE]
      BY <1>2 DEF FromLastLimit
    <2> QED
      BY <1>1, <1>2, <2>1 DEF Loaded, Control, ClampInv, c
  <1>3. CASE ~ /\ lastLimit # Missing /\ lastLimit.age < LastTTL
               /\ lastLimit.source = "venus_os"
    <2>1. FromLastLimit(c) = c
      BY <1>3 DEF FromLastLimit
    <2> QED
      BY <1>1, <2>1 DEF Loaded, c
  <1> QED
    BY <1>2, <1>3

LEMMA ClampBoot == ASSUME TypeOK, ClampInv, Boot PROVE ClampInv'
  <1>1. up' /\ UNCHANGED uiState /\ ~up
    BY DEF Boot
  <1>2. FileLo' = FileLo /\ FileHi' = FileHi
    BY <1>1 DEF FileLo, FileHi
  <1>3. CASE Restorable
    <2>1. /\ ctl'.raw = stateJson.pct /\ ctl'.lo = FileLo /\ ctl'.hi = FileHi
          /\ Inside(stateJson.pct)
      BY <1>3, LoadedType, ClampLoaded DEF Boot, Control, Restorable, ClampInv
    <2>2. /\ lastLimit'.raw = ctl'.raw /\ stateJson'.pct = ctl'.raw
          /\ dist'.limit = ctl'.raw
      BY <1>3 DEF Boot, SaveLastLimit, LastImage, StateImage, Distribute
    <2> QED
      BY <1>1, <1>2, <2>1, <2>2 DEF ClampInv, Inside
  <1>4. CASE ~Restorable
    <2>1. ctl' = Loaded /\ UNCHANGED <<lastLimit, stateJson, dist>>
      BY <1>4 DEF Boot
    <2> QED
      BY <1>1, <1>2, <2>1, ClampLoaded DEF ClampInv, Inside
  <1> QED
    BY <1>3, <1>4

LEMMA ClampNext ==
  ASSUME TypeOK, ClampInv, OrderedClamps, "tear" \notin Fault, [Next]_vars
  PROVE  ClampInv'
  <1>1. CASE Serve
    BY <1>1, ClampVenus, ClampWeb, ClampSet, ClampSave, ClampRest, ClampTick
       DEF Serve
  <1>2. CASE End \/ Boot
    BY <1>2, ClampEnd, ClampBoot
  <1>3. CASE UNCHANGED vars
    BY <1>3 DEF vars, files, ClampInv, FileLo, FileHi, Inside
  <1> QED
    BY <1>1, <1>2, <1>3, NextCases

LEMMA ClampMeans == ASSUME TypeOK, ClampInv PROVE ClampBoundsVenus
  <1> SUFFICES ASSUME up, dist.on, ~ctl.free
               PROVE  dist.limit \in ctl.lo..ctl.hi
    BY DEF ClampBoundsVenus
  <1>1. dist.limit = ctl.raw /\ ctl.lo = FileLo /\ ctl.hi = FileHi
        /\ Inside(ctl.raw)
    BY DEF ClampInv
  <1> QED
    BY <1>1, ClampNumbers DEF Inside, Pct

\* "Power clamp: min/max bounds for Venus OS regulation": what is distributed on
\* behalf of Venus OS stays inside the clamp in force, through every change of
\* the clamp, every lock, stop and boot, if the clamps chosen are in order and
\* no crash tears the two files.
THEOREM ClampHolds ==
  ASSUME OrderedClamps, "tear" \notin Fault
  PROVE  Spec => []ClampBoundsVenus
  <1>1. Init => ClampInv
    BY DEF Init, ClampInv, FileLo, FileHi, Fresh
  <1> QED
    BY <1>1, ClampMeans, TypeInit, TypeNext, ClampNext, PTL DEF Spec
=============================================================================
