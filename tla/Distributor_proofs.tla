-------------------------- MODULE Distributor_proofs --------------------------
(***************************************************************************)
(* What holds of the distributor for every fleet, every set of callers and *)
(* every timing constant.                                                  *)
(***************************************************************************)
EXTENDS Distributor, TLAPS

\* The parts of TypeOK that talk about one device at a time.
LEMMA IdleJobOK == IdleJob \in Job
  BY DistributorAssumption DEF IdleJob, Job, Commands, Command, Pct, Full

LEMMA NoTaskOK == /\ NoTask \in Task
                  /\ \A d \in Device : NoTask.val \in Command(d)
  BY DistributorAssumption DEF NoTask, Task, Command, Pct, Full

\* Settle() returns the job it is given, or the idle one.
LEMMA SettleOK == ASSUME NEW j \in Job, NEW flying
                  PROVE  Settle(j, flying) \in Job
  BY IdleJobOK DEF Settle

LEMMA SentOK == ASSUME NEW d \in Device, NEW v \in Command(d)
                PROVE  Sent(v) \in Task /\ Sent(v).val = v
  <1>1. v \in Pct
    BY DEF Command, Pct, Full
  <1>2. 0 \in 0..MaxLatency
    BY DistributorAssumption
  <1> QED BY <1>1, <1>2 DEF Sent, Task

LEMMA ReleaseJobOK == ReleaseJob \in Job
  BY IdleJobOK DEF ReleaseJob, IdleJob, Job

LEMMA EnforceJobOK ==
  ASSUME TypeOK, NEW l \in Limit \cup {100}, NEW r \in Reading
  PROVE  EnforceJob(l, r) \in Job
  <1> DEFINE started == {d \in known \cap managed : startup[d] > 0}
             t == TargetsOf(l, managed, conn, started, r)
             goal == [d \in Device |-> IF d \notin DOMAIN t THEN Full
                                       ELSE IF d \notin Binary THEN t[d]
                                       ELSE IF t[d] > 0 THEN Full ELSE 0]
  <1>1. /\ managed \in SUBSET Device
        /\ conn \in SUBSET Device
        /\ started \in SUBSET Device
    BY DEF TypeOK
  <1> HIDE DEF started
  <1>2. /\ DOMAIN t \subseteq (Eligible \cap managed \cap conn)
        /\ \A d \in DOMAIN t : t[d] \in Pct
    <2>1. \A m, o, s \in SUBSET Device :
            /\ DOMAIN TargetsOf(l, m, o, s, r) \subseteq (Eligible \cap m \cap o)
            /\ \A d \in DOMAIN TargetsOf(l, m, o, s, r) :
                 TargetsOf(l, m, o, s, r)[d] \in Pct
      BY TargetsAssumption
    <2> QED BY <1>1, <2>1
  <1> HIDE DEF t
  <1>3. goal \in Commands
    <2>1. \A d \in Device : goal[d] \in Pct /\ goal[d] \in Command(d)
      BY <1>2 DEF Command, Pct, Full
    <2>2. goal \in [Device -> Pct]
      BY <2>1
    <2> QED BY <2>1, <2>2 DEF Commands
  <1> DEFINE gather == DOMAIN t \ Binary
             off == {d \in DOMAIN t \cap Binary : t[d] = 0}
             on == {d \in DOMAIN t \cap Binary : t[d] > 0}
  <1>4. /\ gather \in SUBSET Eligible
        /\ off \in SUBSET (Eligible \cap Binary)
        /\ on \in SUBSET (Eligible \cap Binary)
    BY <1>2
  <1>5. EnforceJob(l, r) = [gather |-> gather, off |-> off, on |-> on,
                            goal |-> goal, force |-> FALSE]
    BY DEF EnforceJob, t, started
  <1> HIDE DEF goal, gather, off, on
  <1> QED BY <1>3, <1>4, <1>5 DEF Job

-----------------------------------------------------------------------------
LEMMA InitOK == Init => TypeOK
  <1> SUFFICES ASSUME Init PROVE TypeOK
    OBVIOUS
  <1>1. /\ [d \in Device |-> Full] \in Commands
        /\ [d \in Device |-> Full] \in [Device -> Pct]
    BY DEF Commands, Command, Pct, Full
  <1>2. /\ job \in [Caller -> Job]
        /\ task \in [Caller -> [Device -> Task]]
        /\ \A d \in Device, c \in Caller : task[c][d].val \in Command(d)
    BY IdleJobOK, NoTaskOK DEF Init
  <1>3. /\ age \in [Device -> Nat] /\ rest \in [Device -> Nat]
        /\ guard \in [Device -> Nat]
        /\ startup \in [Device -> 0..StartupDelay]
        /\ pending \in [Device -> Pct \cup {None}]
    BY DistributorAssumption DEF Init
  <1>4. \A d \in Device : /\ age[d] <= Hold[d] /\ rest[d] <= Hold[d]
                          /\ guard[d] <= PluginHold[d]
                          /\ pending[d] \in Command(d) \cup {None}
    BY DistributorAssumption DEF Init
  <1> QED BY <1>1, <1>2, <1>3, <1>4, DistributorAssumption DEF Init, TypeOK

\* sync_devices() and the job of a new call.
LEMMA DistributeOK ==
  ASSUME TypeOK, NEW c \in Caller, NEW l \in Limit \cup {100},
         NEW en \in BOOLEAN, DistributeAs(c, l, en)
  PROVE  TypeOK'
  <1>1. PICK r \in Reading :
          job' = [job EXCEPT ![c] =
                    Settle(IF en THEN EnforceJob(l, r) ELSE ReleaseJob, {})]
    BY DEF DistributeAs
  <1>2. Settle(IF en THEN EnforceJob(l, r) ELSE ReleaseJob, {}) \in Job
    BY EnforceJobOK, ReleaseJobOK, SettleOK
  <1>3. job' \in [Caller -> Job]
    BY <1>1, <1>2 DEF TypeOK
  <1>4. /\ belief' \in Commands
        /\ age' \in [Device -> Nat]
        /\ pending' \in [Device -> Pct \cup {None}]
        /\ startup' \in [Device -> 0..StartupDelay]
        /\ \A d \in Device : /\ age'[d] <= Hold[d]
                             /\ pending'[d] \in Command(d) \cup {None}
    <2>1. belief' \in Commands
      <3>1. PICK kept \in SUBSET Device :
              belief' = [d \in Device |-> IF d \in kept THEN belief[d] ELSE Full]
        <4>1. belief' = [d \in Device |-> IF d \in known \cap managed THEN belief[d] ELSE Full]
          BY DEF DistributeAs, Sync
        <4>2. known \cap managed \in SUBSET Device
          BY DEF TypeOK
        <4> QED BY <4>1, <4>2
      <3>2. belief \in [Device -> Pct] /\ \A d \in Device : belief[d] \in Command(d)
        BY DEF TypeOK, Commands
      <3>3. Full \in Pct /\ \A d \in Device : Full \in Command(d)
        BY DEF Command, Pct, Full
      <3> QED BY <3>1, <3>2, <3>3 DEF Commands
    <2>2. age' \in [Device -> Nat] /\ \A d \in Device : age'[d] <= Hold[d]
      BY DistributorAssumption DEF DistributeAs, Sync, TypeOK
    <2>3. /\ pending' \in [Device -> Pct \cup {None}]
          /\ \A d \in Device : pending'[d] \in Command(d) \cup {None}
      BY DEF DistributeAs, Sync, TypeOK
    <2>4. startup' \in [Device -> 0..StartupDelay]
      BY DistributorAssumption DEF DistributeAs, Sync, TypeOK
    <2> QED BY <2>1, <2>2, <2>3, <2>4
  <1>5. /\ task' \in [Caller -> [Device -> Task]]
        /\ \A d \in Device, k \in Caller : task'[k][d].val \in Command(d)
    <2> SUFFICES ASSUME NEW k \in Caller, NEW d \in Device
                 PROVE  /\ task'[k][d] \in Task
                        /\ task'[k][d].val \in Command(d)
      BY DEF DistributeAs, Sync
    <2>1. task[k][d] \in Task /\ task[k][d].val \in Command(d)
      BY DEF TypeOK
    <2>2. task'[k][d] = task[k][d]
          \/ task'[k][d] = [task[k][d] EXCEPT !.orphan = TRUE]
      BY DEF DistributeAs, Sync
    <2> QED BY <2>1, <2>2 DEF Task
  <1> QED
    BY <1>3, <1>4, <1>5 DEF DistributeAs, Sync, TypeOK, world, place, Command

\* Jobs and tasks stay well-typed when a field is updated.
LEMMA JobUpdate ==
  ASSUME NEW j \in Job, NEW d
  PROVE  /\ [j EXCEPT !.gather = {}] \in Job
         /\ [j EXCEPT !.off = @ \ {d}] \in Job
         /\ [j EXCEPT !.on = @ \ {d}] \in Job
  <1>1. [j EXCEPT !.gather = {}] =
          [gather |-> {}, off |-> j.off, on |-> j.on, goal |-> j.goal,
           force |-> j.force]
    BY DEF Job
  <1>2. [j EXCEPT !.off = @ \ {d}] =
          [gather |-> j.gather, off |-> j.off \ {d}, on |-> j.on,
           goal |-> j.goal, force |-> j.force]
    BY DEF Job
  <1>3. [j EXCEPT !.on = @ \ {d}] =
          [gather |-> j.gather, off |-> j.off, on |-> j.on \ {d},
           goal |-> j.goal, force |-> j.force]
    BY DEF Job
  <1> QED BY <1>1, <1>2, <1>3 DEF Job

TaskFor(d) == {tk \in Task : tk.val \in Command(d)}

LEMMA TaskUpdate ==
  ASSUME NEW d, NEW tk \in TaskFor(d)
  PROVE  /\ [tk EXCEPT !.st = "landed"] \in TaskFor(d)
         /\ [tk EXCEPT !.st = "failed"] \in TaskFor(d)
         /\ [tk EXCEPT !.orphan = TRUE] \in TaskFor(d)
         /\ [tk EXCEPT !.old = TRUE] \in TaskFor(d)
         /\ [tk EXCEPT !.crossed = TRUE] \in TaskFor(d)
         /\ tk.age < MaxLatency => [tk EXCEPT !.age = @ + 1] \in TaskFor(d)
  <1>1. [tk EXCEPT !.st = "landed"] \in TaskFor(d)
    BY DEF TaskFor, Task
  <1>2. [tk EXCEPT !.st = "failed"] \in TaskFor(d)
    BY DEF TaskFor, Task
  <1>3. [tk EXCEPT !.orphan = TRUE] \in TaskFor(d)
    BY DEF TaskFor, Task
  <1>4. [tk EXCEPT !.old = TRUE] \in TaskFor(d)
    BY DEF TaskFor, Task
  <1>5. [tk EXCEPT !.crossed = TRUE] \in TaskFor(d)
    BY DEF TaskFor, Task
  <1>6. ASSUME tk.age < MaxLatency
        PROVE  [tk EXCEPT !.age = @ + 1] \in TaskFor(d)
    <2>1. tk.age + 1 \in 0..MaxLatency
      BY <1>6, DistributorAssumption DEF TaskFor, Task
    <2> QED BY <2>1 DEF TaskFor, Task
  <1> QED BY <1>1, <1>2, <1>3, <1>4, <1>5, <1>6

\* All the calls in flight are well-typed.
TasksOK(t) == /\ t \in [Caller -> [Device -> Task]]
              /\ \A d \in Device, k \in Caller : t[k][d].val \in Command(d)

LEMMA TasksFor ==
  ASSUME NEW t
  PROVE  TasksOK(t) <=> /\ t = [k \in Caller |-> [d \in Device |-> t[k][d]]]
                        /\ \A k \in Caller, d \in Device : t[k][d] \in TaskFor(d)
  BY DEF TasksOK, TaskFor

LEMMA TasksUpdate ==
  ASSUME NEW t, TasksOK(t), NEW c \in Caller, NEW d, NEW tk,
         d \in Device => tk \in TaskFor(d)
  PROVE  TasksOK([t EXCEPT ![c][d] = tk])
  BY DEF TasksOK, TaskFor

\* A task entry of a well-typed state.
LEMMA TaskOK ==
  ASSUME TypeOK, NEW c \in Caller, NEW d \in Device
  PROVE  task[c][d] \in Task /\ task[c][d].val \in Command(d)
  BY DEF TypeOK

LEMMA GoalOK ==
  ASSUME TypeOK, NEW c \in Caller, NEW d \in Device
  PROVE  job[c].goal[d] \in Command(d) /\ job[c].goal[d] \in Pct
  BY DEF TypeOK, Job, Commands

LEMMA StartGatherOK ==
  ASSUME TypeOK, NEW c \in Caller, StartGather(c)
  PROVE  TypeOK'
  <1> DEFINE j    == job[c]
             call == {d \in j.gather : MaySend(d, j.goal[d], j.force)}
             send == {d \in call : ~Suppressed(d, j.force)}
  <1>1. j \in Job /\ [j EXCEPT !.gather = {}] \in Job
    <2>1. j \in Job
      BY DEF TypeOK
    <2> HIDE DEF j
    <2> QED BY <2>1, JobUpdate
  <1>2. job' \in [Caller -> Job]
    BY <1>1, SettleOK DEF StartGather, TypeOK
  <1>3. /\ task' \in [Caller -> [Device -> Task]]
        /\ \A d \in Device, k \in Caller : task'[k][d].val \in Command(d)
    <2> SUFFICES ASSUME NEW k \in Caller, NEW d \in Device
                 PROVE  /\ task'[k][d] \in Task
                        /\ task'[k][d].val \in Command(d)
      BY DEF StartGather, TypeOK
    <2>1. task \in [Caller -> [Device -> Task]]
      BY DEF TypeOK
    <2>2. task' = [task EXCEPT ![c] = [x \in Device |-> IF x \in send THEN Sent(j.goal[x])
                                                       ELSE task[c][x]]]
      BY DEF StartGather
    <2> HIDE DEF send, j
    <2>3. task'[k][d] = task[k][d] \/ (k = c /\ task'[k][d] = Sent(j.goal[d]))
      BY <2>1, <2>2
    <2>4. job[c].goal[d] = j.goal[d]
      BY DEF j
    <2> QED BY <2>3, <2>4, TaskOK, GoalOK, SentOK
  <1>4. belief' \in Commands
    <2>1. \A d \in Device : belief'[d] \in Pct /\ belief'[d] \in Command(d)
      BY GoalOK DEF StartGather, TypeOK, Commands
    <2>2. belief' \in [Device -> Pct]
      BY <2>1 DEF StartGather
    <2> QED BY <2>1, <2>2 DEF Commands
  <1>5. /\ age' \in [Device -> Nat] /\ rest' \in [Device -> Nat]
        /\ \A d \in Device : age'[d] <= Hold[d] /\ rest'[d] <= Hold[d]
    BY DistributorAssumption DEF StartGather, TypeOK
  <1>6. /\ pending' \in [Device -> Pct \cup {None}]
        /\ \A d \in Device : pending'[d] \in Command(d) \cup {None}
    BY GoalOK DEF StartGather, TypeOK
  <1> QED
    BY <1>2, <1>3, <1>4, <1>5, <1>6
    DEF StartGather, TypeOK, world, place, Command

LEMMA StartRelayOK ==
  ASSUME TypeOK, NEW c \in Caller, StartRelay(c)
  PROVE  TypeOK'
  <1> DEFINE j == job[c]
             d == IF j.off # {} THEN Least(j.off) ELSE Least(j.on)
             left == IF j.off # {} THEN [j EXCEPT !.off = @ \ {d}]
                                   ELSE [j EXCEPT !.on = @ \ {d}]
  <1>1. left \in Job
    <2>1. j \in Job
      BY DEF TypeOK
    <2>2. \/ left = [j EXCEPT !.off = @ \ {d}]
          \/ left = [j EXCEPT !.on = @ \ {d}]
      OBVIOUS
    <2> HIDE DEF j, d, left
    <2> QED BY <2>1, <2>2, JobUpdate
  <1>2. \/ job' = [job EXCEPT ![c] = left]
        \/ job' = [job EXCEPT ![c] = Settle(left, {})]
    BY DEF StartRelay
  <1>3. task' = task \/ task' = [task EXCEPT ![c][d] = Sent(j.goal[d])]
    BY DEF StartRelay
  <1>4. d \in Device => Sent(j.goal[d]) \in TaskFor(d)
    <2> HIDE DEF d
    <2> QED BY GoalOK, SentOK DEF TaskFor
  <1> HIDE DEF j, d, left
  <1>5. job' \in [Caller -> Job]
    <2>1. job \in [Caller -> Job] /\ Settle(left, {}) \in Job
      BY <1>1, SettleOK DEF TypeOK
    <2> QED BY <1>1, <1>2, <2>1
  <1>6. TasksOK(task')
    <2>1. TasksOK(task)
      BY DEF TypeOK, TasksOK
    <2>2. TasksOK([task EXCEPT ![c][d] = Sent(j.goal[d])])
      BY <1>4, <2>1, TasksUpdate
    <2> QED BY <1>3, <2>1, <2>2
  <1> QED
    BY <1>5, <1>6 DEF StartRelay, TypeOK, TasksOK, world, place, state, Command

\* Obey() changes actual and rest within their types.
LEMMA ObeyOK ==
  ASSUME TypeOK, NEW d \in Device, NEW v \in Pct, NEW released \in BOOLEAN,
         Obey(d, v, released)
  PROVE  /\ actual' \in [Device -> Pct]
         /\ rest' \in [Device -> Nat]
         /\ \A e \in Device : rest'[e] <= Hold[e]
  <1>1. Effect(d, v) \in Pct
    BY EffectAssumption
  <1>2. actual' \in [Device -> Pct]
    BY <1>1 DEF Obey, TypeOK
  <1>3. /\ Hold \in [Device -> Nat] /\ rest \in [Device -> Nat]
        /\ \A e \in Device : rest[e] <= Hold[e]
    BY DistributorAssumption DEF TypeOK
  <1>4. \/ rest' = rest
        \/ rest' = [rest EXCEPT ![d] = Hold[d]]
        \/ rest' = [rest EXCEPT ![d] = 0]
    BY DEF Obey
  <1> QED BY <1>2, <1>3, <1>4

LEMMA LandOK ==
  ASSUME TypeOK, NEW c \in Caller, NEW d \in Device, Land(c, d)
  PROVE  TypeOK'
  <1>1. task[c][d].val \in Pct /\ task[c][d].crossed \in BOOLEAN
        /\ job[c].force \in BOOLEAN
    BY TaskOK DEF Task, TypeOK, Job
  <1>2. /\ actual' \in [Device -> Pct]
        /\ rest' \in [Device -> Nat]
        /\ \A e \in Device : rest'[e] <= Hold[e]
    <2>1. (job[c].force \/ task[c][d].crossed) \in BOOLEAN
      OBVIOUS
    <2> QED BY <1>1, <2>1, ObeyOK DEF Land
  <1>3. TasksOK(task')
    <2>1. TasksOK(task)
      BY DEF TypeOK, TasksOK
    <2>2. \A k \in Caller :
            \/ task'[k] = task[k]
            \/ task'[k] = [task[k] EXCEPT ![d].st = "landed"]
            \/ task'[k] = [task[k] EXCEPT ![d].crossed = TRUE]
      BY DEF Land
    <2>3. task' = [k \in Caller |-> task'[k]]
      BY DEF Land
    <2>4. \A k \in Caller, e \in Device : task[k][e] \in TaskFor(e)
      BY <2>1, TasksFor
    <2>5. \A k \in Caller : task[k] \in [Device -> Task]
      BY <2>1 DEF TasksOK
    <2>6. \A k \in Caller, e \in Device : task'[k][e] \in TaskFor(e)
      <3> SUFFICES ASSUME NEW k \in Caller, NEW e \in Device
                   PROVE  task'[k][e] \in TaskFor(e)
        OBVIOUS
      <3>1. task[k] \in [Device -> Task] /\ task[k][e] \in TaskFor(e)
        BY <2>4, <2>5
      <3>2. CASE task'[k] = task[k]
        BY <3>1, <3>2
      <3>3. CASE task'[k] = [task[k] EXCEPT ![d].st = "landed"]
        <4>1. task'[k][e] = IF e = d THEN [task[k][e] EXCEPT !.st = "landed"]
                                     ELSE task[k][e]
          BY <3>1, <3>3
        <4> QED BY <3>1, <4>1, TaskUpdate
      <3>4. CASE task'[k] = [task[k] EXCEPT ![d].crossed = TRUE]
        <4>1. task'[k][e] = IF e = d THEN [task[k][e] EXCEPT !.crossed = TRUE]
                                     ELSE task[k][e]
          BY <3>1, <3>4
        <4> QED BY <3>1, <4>1, TaskUpdate
      <3> QED BY <2>2, <3>2, <3>3, <3>4
    <2>7. \A k \in Caller : task'[k] = [e \in Device |-> task'[k][e]]
      BY <2>2, <2>5
    <2> QED BY <2>3, <2>6, <2>7, TasksFor
  <1> QED
    BY <1>2, <1>3 DEF Land, TypeOK, TasksOK, state, Command

LEMMA FailOK ==
  ASSUME TypeOK, NEW c \in Caller, NEW d \in Device, Fail(c, d)
  PROVE  TypeOK'
  <1>1. TasksOK(task)
    BY DEF TypeOK, TasksOK
  <1>2. [task[c][d] EXCEPT !.st = "failed"] \in TaskFor(d)
    BY <1>1, TasksFor, TaskUpdate
  <1>3. task' = [task EXCEPT ![c][d] = [task[c][d] EXCEPT !.st = "failed"]]
    BY DEF Fail
  <1>4. TasksOK(task')
    BY <1>1, <1>2, <1>3, TasksUpdate
  <1> QED
    BY <1>4 DEF Fail, TypeOK, TasksOK, world, place, state, Command

LEMMA RecordOK ==
  ASSUME TypeOK, NEW d \in Device, NEW tk \in TaskFor(d), Record(d, tk)
  PROVE  /\ belief' \in Commands
         /\ age' \in [Device -> Nat]
         /\ pending' \in [Device -> Pct \cup {None}]
         /\ startup' \in [Device -> 0..StartupDelay]
         /\ \A e \in Device : /\ age'[e] <= Hold[e]
                              /\ pending'[e] \in Command(e) \cup {None}
  <1>1. tk.val \in Pct /\ tk.val \in Command(d) /\ tk.age \in Nat
    BY DistributorAssumption DEF TaskFor, Task
  <1>2. belief' \in Commands
    BY <1>1 DEF Record, TypeOK, Commands
  <1>3. /\ age' \in [Device -> Nat]
        /\ \A e \in Device : age'[e] <= Hold[e]
    <2>1. /\ Hold \in [Device -> Nat] /\ age \in [Device -> Nat]
          /\ \A e \in Device : age[e] <= Hold[e]
      BY DistributorAssumption DEF TypeOK
    <2> QED BY <1>1, <2>1 DEF Record, MinOf
  <1>4. /\ pending' \in [Device -> Pct \cup {None}]
        /\ \A e \in Device : pending'[e] \in Command(e) \cup {None}
    <2>1. /\ pending \in [Device -> Pct \cup {None}]
          /\ \A e \in Device : pending[e] \in Command(e) \cup {None}
      BY DEF TypeOK
    <2>2. pending' = [e \in Device |-> IF e = d /\ d \notin Binary THEN None
                                      ELSE pending[e]]
      BY <2>1 DEF Record
    <2> QED BY <2>1, <2>2
  <1>5. startup' \in [Device -> 0..StartupDelay]
    <2>1. startup \in [Device -> 0..StartupDelay] /\ StartupDelay \in Nat
      BY DistributorAssumption DEF TypeOK
    <2>2. (IF tk.age >= StartupDelay THEN 0 ELSE StartupDelay - tk.age)
            \in 0..StartupDelay
      BY <1>1, <2>1
    <2> QED BY <2>1, <2>2 DEF Record
  <1> QED BY <1>2, <1>3, <1>4, <1>5

LEMMA ReplyOK ==
  ASSUME TypeOK, NEW c \in Caller, NEW d \in Device, NEW ok \in BOOLEAN,
         Reply(c, d, ok)
  PROVE  TypeOK'
  <1>1. TasksOK(task)
    BY DEF TypeOK, TasksOK
  <1>2. TasksOK(task')
    <2>1. TasksOK([task EXCEPT ![c][d] = NoTask])
      BY <1>1, NoTaskOK, TasksUpdate DEF TaskFor
    <2> QED BY <2>1 DEF Reply
  <1>3. job' \in [Caller -> Job]
    BY SettleOK DEF Reply, TypeOK
  <1>4. /\ belief' \in Commands
        /\ age' \in [Device -> Nat]
        /\ pending' \in [Device -> Pct \cup {None}]
        /\ startup' \in [Device -> 0..StartupDelay]
        /\ \A e \in Device : /\ age'[e] <= Hold[e]
                             /\ pending'[e] \in Command(e) \cup {None}
    <2>1. CASE ok /\ ~task[c][d].orphan
      <3>1. task[c][d] \in TaskFor(d)
        BY <1>1, TasksFor
      <3>2. Record(d, task[c][d])
        BY <2>1 DEF Reply
      <3> QED BY <3>1, <3>2, RecordOK
    <2>2. CASE ~(ok /\ ~task[c][d].orphan)
      BY <2>2 DEF Reply, TypeOK
    <2> QED BY <2>1, <2>2
  <1>5. /\ guard' \in [Device -> Nat]
        /\ \A e \in Device : guard'[e] <= PluginHold[e]
    <2>1. /\ PluginHold \in [Device -> Nat] /\ guard \in [Device -> Nat]
          /\ \A e \in Device : guard[e] <= PluginHold[e]
      BY DistributorAssumption DEF TypeOK
    <2> QED BY <2>1 DEF Reply
  <1> QED
    BY <1>2, <1>3, <1>4, <1>5 DEF Reply, TypeOK, TasksOK, place, Command

LEMMA TickOK ==
  ASSUME TypeOK, Tick
  PROVE  TypeOK'
  <1>1. TasksOK(task')
    <2>1. TasksOK(task)
      BY DEF TypeOK, TasksOK
    <2>2. task' = [c \in Caller |-> [d \in Device |-> task'[c][d]]]
      BY DEF Tick
    <2>3. ASSUME NEW c \in Caller, NEW d \in Device
          PROVE  task'[c][d] \in TaskFor(d)
      <3>1. task[c][d] \in TaskFor(d)
        BY <2>1, TasksFor
      <3>2. CASE task[c][d].st = "none"
        BY <3>1, <3>2 DEF Tick
      <3>3. CASE task[c][d].st # "none"
        <4>1. task'[c][d] = [task[c][d] EXCEPT !.age = @ + 1]
          BY <3>3 DEF Tick
        <4>2. task[c][d].age < MaxLatency
          BY <3>3 DEF Tick, InFlight
        <4> QED BY <3>1, <4>1, <4>2, TaskUpdate
      <3> QED BY <3>2, <3>3
    <2> QED BY <2>2, <2>3, TasksFor
  <1>2. /\ age' \in [Device -> Nat] /\ rest' \in [Device -> Nat]
        /\ guard' \in [Device -> Nat]
        /\ startup' \in [Device -> 0..StartupDelay]
        /\ \A d \in Device : /\ age'[d] <= Hold[d] /\ rest'[d] <= Hold[d]
                             /\ guard'[d] <= PluginHold[d]
    <2>1. \A d \in Device :
            /\ Hold[d] \in Nat /\ PluginHold[d] \in Nat
            /\ age[d] \in Nat /\ rest[d] \in Nat /\ guard[d] \in Nat
            /\ startup[d] \in 0..StartupDelay
            /\ guard[d] <= PluginHold[d]
      BY DistributorAssumption DEF TypeOK
    <2>2. \A d \in Device :
            /\ MinOf(age[d] + 1, Hold[d]) \in Nat
            /\ MinOf(age[d] + 1, Hold[d]) <= Hold[d]
            /\ MinOf(rest[d] + 1, Hold[d]) \in Nat
            /\ MinOf(rest[d] + 1, Hold[d]) <= Hold[d]
      BY <2>1 DEF MinOf
    <2>3. \A d \in Device :
            /\ (IF startup[d] > 0 THEN startup[d] - 1 ELSE 0) \in 0..StartupDelay
            /\ (IF guard[d] > 0 THEN guard[d] - 1 ELSE 0) \in Nat
            /\ (IF guard[d] > 0 THEN guard[d] - 1 ELSE 0) <= PluginHold[d]
      BY <2>1, DistributorAssumption
    <2> QED BY <2>2, <2>3 DEF Tick
  <1> QED
    BY <1>1, <1>2 DEF Tick, TypeOK, TasksOK, place, Command

\* The steps of the registry and of the web handlers that bypass the
\* distributor.
LEMMA WorldOK ==
  ASSUME TypeOK, NEW d \in Device,
         \/ Connect(d) \/ Disconnect(d) \/ StopDevice(d)
         \/ \E v \in Asked(d) : Bypass(d, v)
  PROVE  TypeOK'
  <1>1. CASE Connect(d)
    BY <1>1 DEF Connect, TypeOK, state, Command
  <1>2. CASE Disconnect(d)
    BY <1>2 DEF Disconnect, TypeOK, state, Command
  <1>3. CASE StopDevice(d)
    BY <1>3 DEF StopDevice, TypeOK, state, Command
  <1>4. ASSUME NEW v \in Asked(d), Bypass(d, v)
        PROVE  TypeOK'
    <2>1. /\ actual' \in [Device -> Pct]
          /\ rest' \in [Device -> Nat]
          /\ \A e \in Device : rest'[e] <= Hold[e]
      <3>1. v \in Pct
        BY <1>4, DistributorAssumption DEF Asked, Pct, Full
      <3>2. Obey(d, v, FALSE)
        BY <1>4 DEF Bypass
      <3>3. FALSE \in BOOLEAN
        OBVIOUS
      <3> QED BY <3>1, <3>2, <3>3, ObeyOK
    <2>2. guard' \in [Device -> Nat] /\ \A e \in Device : guard'[e] <= PluginHold[e]
      <3>1. guard' = guard \/ guard' = [guard EXCEPT ![d] = PluginHold[d]]
        BY <1>4 DEF Bypass
      <3>2. /\ PluginHold \in [Device -> Nat] /\ guard \in [Device -> Nat]
            /\ \A e \in Device : guard[e] <= PluginHold[e]
        BY DistributorAssumption DEF TypeOK
      <3> QED BY <3>1, <3>2
    <2>3. UNCHANGED <<managed, conn, state, enabled, globalLimit, job, task, settled>>
      BY <1>4 DEF Bypass
    <2> QED BY <2>1, <2>2, <2>3 DEF TypeOK, state, Command
  <1> QED BY <1>1, <1>2, <1>3, <1>4

LEMMA StartDeviceOK ==
  ASSUME TypeOK, NEW d \in Device, StartDevice(d)
  PROVE  TypeOK'
  <1>1. TasksOK(task')
    <2>1. TasksOK(task)
      BY DEF TypeOK, TasksOK
    <2>2. \A k \in Caller : task[k] \in [Device -> Task]
      BY <2>1 DEF TasksOK
    <2>3. task' = [k \in Caller |-> [e \in Device |-> task'[k][e]]]
      BY <2>2 DEF StartDevice
    <2>4. ASSUME NEW k \in Caller, NEW e \in Device
          PROVE  task'[k][e] \in TaskFor(e)
      <3>1. task[k] \in [Device -> Task] /\ task[k][e] \in TaskFor(e)
        BY <2>1, <2>2, TasksFor
      <3>2. \/ task'[k] = task[k]
            \/ task'[k] = [task[k] EXCEPT ![d].old = TRUE]
        BY DEF StartDevice
      <3>3. \/ task'[k][e] = task[k][e]
            \/ e = d /\ task'[k][e] = [task[k][e] EXCEPT !.old = TRUE]
        BY <3>1, <3>2
      <3> QED BY <3>1, <3>3, TaskUpdate
    <2> QED BY <2>3, <2>4, TasksFor
  <1>2. /\ guard' \in [Device -> Nat]
        /\ \A e \in Device : guard'[e] <= PluginHold[e]
    <2>1. /\ PluginHold \in [Device -> Nat] /\ guard \in [Device -> Nat]
          /\ \A e \in Device : guard[e] <= PluginHold[e]
      BY DistributorAssumption DEF TypeOK
    <2>2. guard' = [guard EXCEPT ![d] = 0]
      BY DEF StartDevice
    <2> QED BY <2>1, <2>2
  <1> QED
    BY <1>1, <1>2 DEF StartDevice, TypeOK, TasksOK, state, Command

-----------------------------------------------------------------------------
\* Type correctness: whatever the fleet, however many calls overlap and
\* whatever faults happen, no relay is ever told a percentage, and no clock of
\* the distributor runs past the dead time or cooldown it is compared with.
THEOREM TypeCorrect == Spec => []TypeOK
  <1>1. Init => TypeOK
    BY InitOK
  <1>2. TypeOK /\ [Next]_vars => TypeOK'
    <2> SUFFICES ASSUME TypeOK, [Next]_vars PROVE TypeOK'
      OBVIOUS
    <2>1. ASSUME NEW c \in Caller, NEW l \in Limit, NEW en \in BOOLEAN,
                 Distribute(c, l, en)
          PROVE  TypeOK'
      BY <2>1, DistributeOK DEF Distribute
    <2>2. CASE SlackTick
      <3>1. globalLimit \in Limit \cup {100} /\ SlackLoop \in Caller
        BY DistributorAssumption DEF TypeOK
      <3> QED BY <2>2, <3>1, DistributeOK DEF SlackTick
    <2>3. ASSUME NEW c \in Caller, CallStep(c)
          PROVE  TypeOK'
      BY <2>3, StartGatherOK, StartRelayOK, LandOK, FailOK, ReplyOK DEF CallStep
    <2>4. CASE Tick
      BY <2>4, TickOK
    <2>5. ASSUME NEW d \in Device,
                 \/ Connect(d) \/ Disconnect(d) \/ StopDevice(d)
                 \/ StartDevice(d) \/ \E v \in Asked(d) : Bypass(d, v)
          PROVE  TypeOK'
      BY <2>5, WorldOK, StartDeviceOK
    <2>6. CASE Quiet
      BY <2>6 DEF Quiet, TypeOK, world, place, state, Command
    <2>7. CASE UNCHANGED vars
      BY <2>7 DEF vars, TypeOK, world, place, state, Command
    <2> QED BY <2>1, <2>2, <2>3, <2>4, <2>5, <2>6, <2>7 DEF Next
  <1> QED BY <1>1, <1>2, PTL DEF Spec

-----------------------------------------------------------------------------
(* The relay cooldown *)

\* What RelayRest supposes of the constants: the cooldown of a relay is longer
\* than two calls, and its plugin has no dead time of its own.
RelayTiming == \A d \in Binary : Hold[d] > 2 * MaxLatency /\ PluginHold[d] = 0

\* A call of c to d is in flight; it is a regular one, not one of a release; it
\* has yet to arrive, and counts when the relay moves.
Flying(c, d)  == task[c][d].st # "none"
Landed(c, d)  == task[c][d].st = "landed"
Release(c, d) == Flying(c, d) /\ job[c].force
Regular(c, d) == Flying(c, d) /\ ~job[c].force
Counts(c, d)  == task[c][d].st = "sent" /\ ~job[c].force /\ ~task[c][d].crossed

\* What is believed of d was recorded while the call of c was under way.
Lately(c, d) == age[d] <= MaxLatency + task[c][d].age

\* A regular command moved d less than the cooldown ago.
Recent(d) == rest[d] + MaxLatency < Hold[d]

\* A call that is not over has something to start or to wait for.
Occupied(c) ==
    \/ job[c] = IdleJob \/ job[c].gather # {} \/ job[c].off # {} \/ job[c].on # {}
    \/ InFlight(c) # {}

\* Of callers: gathered tasks start together, and releases ask for full power.
CallersInv ==
    \A c \in Caller :
        /\ Occupied(c)
        /\ job[c].gather # {} => InFlight(c) = {}
        /\ job[c].force => \A d \in Binary : job[c].goal[d] = Full

\* Of a relay nobody has heard of nothing is believed and nothing is in flight.
Held(d) ==
    /\ d \in known \/ /\ belief[d] = Full /\ age[d] = Hold[d]
                      /\ \A c \in Caller : ~Flying(c, d)
    /\ actual[d] \in {0, Full}
    /\ \A c \in Caller : Flying(c, d) =>
          /\ ~task[c][d].orphan
          /\ job[c].force => task[c][d].val = Full

\* A call is made only if it asks for something else than what is believed: if
\* that is believed now, it has been recorded since.  So it is, too, if a call
\* and a release that overlap ask for different things.
Overtaken(d) ==
    /\ \A c \in Caller : Flying(c, d) /\ belief[d] = task[c][d].val => Lately(c, d)
    /\ \A c, e \in Caller :
          Regular(c, d) /\ task[c][d].val = 0 /\ Release(e, d) => Lately(c, d)
    /\ \A c \in Caller :
          Regular(c, d) /\ task[c][d].val = 0 /\ task[c][d].crossed => Lately(c, d)

\* Regular calls that overlap ask for the same.
OneGoal(d) ==
    \A c, e \in Caller : Regular(c, d) /\ Regular(e, d) => task[c][d].val = task[e][d].val

\* The relay is where a call that has arrived put it, unless a release moved it
\* since; and where a release put it, unless a call did.
Arrived(d) ==
    /\ \A c \in Caller :
          Regular(c, d) /\ Landed(c, d) /\ (task[c][d].crossed => task[c][d].val = Full)
            => actual[d] = task[c][d].val
    /\ \A e \in Caller :
          Release(e, d) /\ Landed(e, d) /\ actual[d] = 0
            => Lately(e, d) \/ \E w \in Caller : /\ Regular(w, d) /\ Landed(w, d)
                                                /\ task[w][d].val = 0

\* Nor can a call that is yet to arrive move it, if another one with the same
\* goal has arrived, or its goal is believed to be reached.
Outdated(d) ==
    \A c \in Caller : Counts(c, d) =>
        /\ \A e \in Caller : Landed(e, d) /\ task[e][d].val = task[c][d].val
                             => actual[d] = task[c][d].val
        /\ belief[d] = task[c][d].val => actual[d] = task[c][d].val

\* While the relay rests no call that counts asks it to move, and the next one is
\* not made before the cooldown.
Resting(d) ==
    Recent(d) =>
        /\ belief[d] = actual[d] => age[d] <= rest[d] + MaxLatency
        /\ \A c \in Caller : Counts(c, d) => task[c][d].val = actual[d]

RelayInv(d) ==
    Held(d) /\ Overtaken(d) /\ OneGoal(d) /\ Arrived(d) /\ Outdated(d) /\ Resting(d)

\* The types of what is known of a relay.
LEMMA RelayTypes ==
  ASSUME TypeOK, RelayTiming, NEW d \in Binary
  PROVE  /\ d \in Device /\ MaxLatency \in Nat /\ Hold[d] \in Nat
         /\ Hold[d] > 2 * MaxLatency
         /\ age[d] \in Nat /\ rest[d] \in Nat /\ belief[d] \in {0, Full}
         /\ \A c \in Caller :
              /\ task[c][d].val \in {0, Full} /\ task[c][d].age \in 0..MaxLatency
              /\ task[c][d].st \in {"none", "sent", "landed", "failed"}
  BY DistributorAssumption
     DEF TypeOK, RelayTiming, Commands, Command, Task

-----------------------------------------------------------------------------
(* What a step may do to one relay *)

SameCall(c, d) ==
    /\ task'[c][d] = task[c][d]
    /\ Flying(c, d) => job'[c].force = job[c].force

SameRelay(d) == actual'[d] = actual[d] /\ rest'[d] = rest[d]
SameBelief(d) == belief'[d] = belief[d] /\ age'[d] = age[d] /\ (d \in known => d \in known')

\* Nothing.
Still(d) == SameRelay(d) /\ SameBelief(d) /\ \A c \in Caller : SameCall(c, d)

\* A call is made.
Sends(c, d) ==
    /\ SameRelay(d) /\ SameBelief(d) /\ d \in known /\ ~Flying(c, d)
    /\ \A e \in Caller \ {c} : SameCall(e, d)
    /\ \E v \in {0, Full} :
          /\ task'[c][d] = Sent(v) /\ v # belief[d]
          /\ \/ job'[c].force /\ v = Full
             \/ ~job'[c].force /\ age[d] >= Hold[d]

LEMMA StillKeeps ==
  ASSUME NEW d \in Binary, RelayInv(d), Still(d)
  PROVE  RelayInv(d)'
  <1>1. \A c \in Caller :
          /\ task'[c][d] = task[c][d]
          /\ Flying(c, d)' <=> Flying(c, d)
          /\ Landed(c, d)' <=> Landed(c, d)
          /\ Release(c, d)' <=> Release(c, d)
          /\ Regular(c, d)' <=> Regular(c, d)
          /\ Counts(c, d)' <=> Counts(c, d)
    BY DEF Still, SameCall, Flying, Landed, Release, Regular, Counts
  <1>2. \A c \in Caller : Lately(c, d)' <=> Lately(c, d)
    BY DEF Still, SameCall, SameBelief, Lately
  <1>3. Held(d)'
    BY <1>1 DEF Still, SameRelay, SameBelief, RelayInv, Held, Release
  <1>4. Overtaken(d)'
    BY <1>1, <1>2 DEF Still, SameBelief, RelayInv, Overtaken
  <1>5. OneGoal(d)'
    BY <1>1 DEF RelayInv, OneGoal
  <1>6. Arrived(d)'
    BY <1>1, <1>2 DEF Still, SameRelay, RelayInv, Arrived
  <1>7. Outdated(d)'
    BY <1>1 DEF Still, SameRelay, SameBelief, RelayInv, Outdated
  <1>8. Resting(d)'
    BY <1>1 DEF Still, SameRelay, SameBelief, RelayInv, Resting, Recent
  <1> QED
    BY <1>3, <1>4, <1>5, <1>6, <1>7, <1>8 DEF RelayInv

\* A regular call is made long after the last answer: whatever is in flight asks
\* for the same, and none of it was crossed by a release on its way to off.
LEMMA SendsKeeps ==
  ASSUME TypeOK, RelayTiming, NEW d \in Binary, RelayInv(d), NEW c \in Caller,
         Sends(c, d)
  PROVE  RelayInv(d)'
  <1>1. PICK v \in {0, Full} :
          /\ task'[c][d] = Sent(v) /\ v # belief[d]
          /\ \/ job'[c].force /\ v = Full
             \/ ~job'[c].force /\ age[d] >= Hold[d]
    BY DEF Sends
  <1>2. /\ task'[c][d].st = "sent" /\ task'[c][d].val = v /\ ~task'[c][d].crossed
        /\ ~task'[c][d].orphan
    BY <1>1 DEF Sent
  <1>3. \A e \in Caller \ {c} :
          /\ task'[e][d] = task[e][d]
          /\ Flying(e, d)' <=> Flying(e, d)
          /\ Landed(e, d)' <=> Landed(e, d)
          /\ Release(e, d)' <=> Release(e, d)
          /\ Regular(e, d)' <=> Regular(e, d)
          /\ Counts(e, d)' <=> Counts(e, d)
    BY DEF Sends, SameCall, Flying, Landed, Release, Regular, Counts
  <1>4. \A e \in Caller \ {c} : Lately(e, d)' <=> Lately(e, d)
    BY <1>3 DEF Sends, SameBelief, Lately
  <1>5. /\ Flying(c, d)' /\ ~Landed(c, d)' /\ ~Flying(c, d)
        /\ Release(c, d)' <=> job'[c].force
        /\ Regular(c, d)' <=> ~job'[c].force
        /\ Counts(c, d)' <=> ~job'[c].force
        /\ ~Landed(c, d) /\ ~Regular(c, d)
    BY <1>2 DEF Sends, Flying, Landed, Release, Regular, Counts
  <1>6. /\ Hold[d] > 2 * MaxLatency /\ MaxLatency \in Nat /\ Hold[d] \in Nat
        /\ age[d] \in Nat /\ rest[d] \in Nat /\ belief[d] \in {0, Full}
        /\ \A e \in Caller : /\ task[e][d].val \in {0, Full}
                             /\ task[e][d].age \in 0..MaxLatency
    BY RelayTypes
  <1>7. UNCHANGED <<actual[d], rest[d], belief[d], age[d]>> /\ d \in known'
    BY DEF Sends, SameRelay, SameBelief
  <1>8. ASSUME ~job'[c].force, NEW e \in Caller, Flying(e, d)
        PROVE  ~Lately(e, d) /\ task[e][d].val = v
    <2>1. ~Lately(e, d)
      BY <1>1, <1>6, <1>8 DEF Lately
    <2> QED
      BY <1>1, <1>6, <1>8, <2>1 DEF RelayInv, Overtaken
  <1>9. Held(d)'
    <2>1. \A e \in Caller : Release(e, d)' => task'[e][d].val = Full
      BY <1>1, <1>2, <1>3, <1>5 DEF RelayInv, Held, Release
    <2>2. \A e \in Caller : Flying(e, d)' => ~task'[e][d].orphan
      BY <1>2, <1>3 DEF RelayInv, Held
    <2> QED
      BY <1>7, <2>1, <2>2 DEF RelayInv, Held, Release
  <1>10. Overtaken(d)'
    <2>1. ASSUME NEW e \in Caller, Flying(e, d)', (belief[d] = task[e][d].val)'
          PROVE  Lately(e, d)'
      BY <1>1, <1>2, <1>3, <1>4, <1>7, <2>1 DEF RelayInv, Overtaken
    <2>2. ASSUME NEW e \in Caller, NEW f \in Caller,
                 Regular(e, d)', task'[e][d].val = 0, Release(f, d)'
          PROVE  Lately(e, d)'
      <3>1. CASE e = c
        <4>1. f # c /\ ~job'[c].force
          BY <1>5, <2>2, <3>1
        <4>2. Flying(f, d) /\ task[f][d].val = Full
          BY <1>3, <2>2, <4>1 DEF RelayInv, Held, Release
        <4> QED
          BY <1>2, <1>8, <2>2, <3>1, <4>1, <4>2 DEF Full
      <3>2. CASE e # c /\ f = c
        <4>1. v = Full /\ belief[d] = 0 /\ Flying(e, d) /\ task[e][d].val = 0
          BY <1>1, <1>3, <1>5, <1>6, <2>2, <3>2 DEF Regular
        <4> QED
          BY <1>4, <3>2, <4>1 DEF RelayInv, Overtaken
      <3>3. CASE e # c /\ f # c
        BY <1>3, <1>4, <2>2, <3>3 DEF RelayInv, Overtaken
      <3> QED
        BY <3>1, <3>2, <3>3
    <2>3. ASSUME NEW e \in Caller,
                 Regular(e, d)', task'[e][d].val = 0, task'[e][d].crossed
          PROVE  Lately(e, d)'
      BY <1>2, <1>3, <1>4, <2>3 DEF RelayInv, Overtaken
    <2> QED
      BY <2>1, <2>2, <2>3 DEF Overtaken
  <1>11. OneGoal(d)'
    BY <1>2, <1>3, <1>5, <1>8 DEF RelayInv, OneGoal, Regular
  <1>12. Arrived(d)'
    BY <1>3, <1>4, <1>5, <1>7 DEF RelayInv, Arrived
  <1>13. Outdated(d)'
    <2>1. ASSUME ~job'[c].force, NEW e \in Caller, Landed(e, d), task[e][d].val = v
          PROVE  actual[d] = v
      <3>1. Flying(e, d) /\ ~Lately(e, d)
        BY <1>8, <2>1 DEF Flying, Landed
      <3>2. CASE Regular(e, d)
        <4>1. task[e][d].crossed => task[e][d].val = Full
          BY <1>6, <3>1, <3>2 DEF RelayInv, Overtaken
        <4> QED
          BY <2>1, <3>2, <4>1 DEF RelayInv, Arrived
      <3>3. CASE Release(e, d)
        <4>1. v = Full /\ actual[d] \in {0, Full}
          BY <2>1, <3>3 DEF RelayInv, Held, Release
        <4>2. ASSUME actual[d] = 0 PROVE FALSE
          <5>1. PICK w \in Caller : Regular(w, d) /\ task[w][d].val = 0
            BY <2>1, <3>1, <3>3, <4>2 DEF RelayInv, Arrived
          <5> QED
            BY <1>8, <2>1, <4>1, <5>1 DEF Regular, Full
        <4> QED
          BY <4>1, <4>2
      <3> QED
        BY <3>1, <3>2, <3>3 DEF Regular, Release
    <2>2. ASSUME NEW e \in Caller, Counts(e, d)', NEW f \in Caller, Landed(f, d)',
                 task'[f][d].val = task'[e][d].val
          PROVE  actual'[d] = task'[e][d].val
      BY <1>2, <1>3, <1>5, <1>7, <2>1, <2>2 DEF RelayInv, Outdated
    <2>3. ASSUME NEW e \in Caller, Counts(e, d)', belief'[d] = task'[e][d].val
          PROVE  actual'[d] = task'[e][d].val
      BY <1>1, <1>2, <1>3, <1>7, <2>3 DEF RelayInv, Outdated
    <2> QED
      BY <2>2, <2>3 DEF Outdated
  <1>14. Resting(d)'
    <2>1. ASSUME Recent(d), ~job'[c].force PROVE v = actual[d]
      BY <1>1, <1>6, <2>1 DEF RelayInv, Resting, Recent, Held
    <2>2. Recent(d)' <=> Recent(d)
      BY <1>7 DEF Recent
    <2> QED
      BY <1>2, <1>3, <1>5, <1>7, <2>1, <2>2 DEF RelayInv, Resting
  <1> QED
    BY <1>9, <1>10, <1>11, <1>12, <1>13, <1>14 DEF RelayInv

\* A call arrives.
Lands(c, d) ==
    LET moved == actual'[d] # actual[d] IN
    /\ SameBelief(d) /\ task[c][d].st = "sent"
    /\ actual'[d] = task[c][d].val
    /\ rest'[d] = IF ~moved THEN rest[d]
                  ELSE IF job[c].force \/ task[c][d].crossed THEN Hold[d] ELSE 0
    /\ task'[c][d] = [task[c][d] EXCEPT !.st = "landed"]
    /\ \A e \in Caller \ {c} :
         task'[e][d] = IF Flying(e, d) /\ job[c].force /\ moved
                       THEN [task[e][d] EXCEPT !.crossed = TRUE] ELSE task[e][d]
    /\ \A e \in Caller : job'[e].force = job[e].force

\* A call that counts moves the relay to what all calls under way ask for, and
\* a release crosses them.
LEMMA LandsKeeps ==
  ASSUME TypeOK, RelayTiming, NEW d \in Binary, RelayInv(d), NEW c \in Caller,
         Lands(c, d)
  PROVE  RelayInv(d)'
  <1> DEFINE moved == actual'[d] # actual[d]
  <1>1. /\ Hold[d] > 2 * MaxLatency /\ MaxLatency \in Nat /\ Hold[d] \in Nat
        /\ rest[d] \in Nat
        /\ \A e \in Caller : /\ task[e][d].val \in {0, Full} /\ task[e][d] \in Task
    BY RelayTypes DEF TypeOK
  <1>2. /\ task'[c][d].st = "landed" /\ task'[c][d].val = task[c][d].val
        /\ task'[c][d].age = task[c][d].age /\ task'[c][d].orphan = task[c][d].orphan
        /\ task'[c][d].crossed = task[c][d].crossed
    BY <1>1 DEF Lands, Task
  <1>3. ASSUME NEW e \in Caller, e # c
        PROVE  /\ task'[e][d].st = task[e][d].st /\ task'[e][d].val = task[e][d].val
               /\ task'[e][d].age = task[e][d].age
               /\ task'[e][d].orphan = task[e][d].orphan
               /\ Flying(e, d) /\ job[c].force /\ moved => task'[e][d].crossed
               /\ ~(Flying(e, d) /\ job[c].force /\ moved)
                    => task'[e][d].crossed = task[e][d].crossed
    <2>1. CASE Flying(e, d) /\ job[c].force /\ moved
      <3>1. task'[e][d] = [task[e][d] EXCEPT !.crossed = TRUE]
        BY <1>3, <2>1 DEF Lands
      <3>2. task[e][d] \in Task
        BY <1>1
      <3>3. /\ task'[e][d].st = task[e][d].st /\ task'[e][d].val = task[e][d].val
            /\ task'[e][d].age = task[e][d].age
            /\ task'[e][d].orphan = task[e][d].orphan /\ task'[e][d].crossed
        BY <3>1, <3>2 DEF Task
      <3> QED
        BY <2>1, <3>3
    <2>2. CASE ~(Flying(e, d) /\ job[c].force /\ moved)
      <3>1. task'[e][d] = task[e][d]
        BY <1>3, <2>2 DEF Lands
      <3> QED
        BY <2>2, <3>1
    <2> QED
      BY <2>1, <2>2
  <1>4. /\ SameBelief(d) /\ actual'[d] = task[c][d].val /\ Flying(c, d)
        /\ ~Landed(c, d) /\ Landed(c, d)'
        /\ \A e \in Caller : job'[e].force = job[e].force
    BY <1>2 DEF Lands, Flying, Landed
  <1>5. \A e \in Caller : /\ Flying(e, d)' <=> Flying(e, d)
                          /\ Release(e, d)' <=> Release(e, d)
                          /\ Regular(e, d)' <=> Regular(e, d)
                          /\ task'[e][d].val = task[e][d].val
    BY <1>2, <1>3, <1>4 DEF Flying, Release, Regular
  <1>6. \A e \in Caller : Lately(e, d)' <=> Lately(e, d)
    BY <1>2, <1>3, <1>4 DEF Lately, SameBelief
  <1>7. \A e \in Caller \ {c} : Landed(e, d)' <=> Landed(e, d)
    BY <1>3 DEF Landed
  <1>8. /\ ~Counts(c, d)'
        /\ \A e \in Caller : Counts(e, d)' => /\ e # c /\ Counts(e, d)
                                              /\ ~(job[c].force /\ moved)
    <2>1. ~Counts(c, d)'
      BY <1>2 DEF Counts
    <2>2. ASSUME NEW e \in Caller, e # c, Counts(e, d)'
          PROVE  Counts(e, d) /\ ~(job[c].force /\ moved)
      <3>1. task[e][d].st = "sent" /\ ~job[e].force /\ ~task'[e][d].crossed
        BY <1>3, <1>4, <2>2 DEF Counts
      <3> QED
        BY <1>3, <2>2, <3>1 DEF Counts, Flying
    <2> QED
      BY <2>1, <2>2
  <1>9. Release(c, d) => task[c][d].val = Full
    BY DEF RelayInv, Held, Release
  <1>10. ASSUME NEW e \in Caller, Regular(e, d), Regular(c, d)
         PROVE  actual'[d] = task[e][d].val
    BY <1>4, <1>10 DEF RelayInv, OneGoal
  <1>11. Regular(c, d) \/ Release(c, d)
    BY <1>4 DEF Regular, Release
  <1>12. Held(d)'
    <2>1. \A e \in Caller : Flying(e, d)' => ~task'[e][d].orphan
      BY <1>2, <1>3, <1>5 DEF RelayInv, Held
    <2>2. \A e \in Caller : Release(e, d)' => task'[e][d].val = Full
      BY <1>5 DEF RelayInv, Held, Release
    <2>3. d \in known'
      BY <1>4 DEF RelayInv, Held, SameBelief
    <2> QED
      BY <1>1, <1>4, <2>1, <2>2, <2>3 DEF Held, Release
  <1>13. Overtaken(d)'
    <2>1. \A e \in Caller : Flying(e, d)' /\ (belief[d] = task[e][d].val)' => Lately(e, d)'
      BY <1>4, <1>5, <1>6 DEF RelayInv, Overtaken, SameBelief
    <2>2. \A e, f \in Caller :
            Regular(e, d)' /\ task'[e][d].val = 0 /\ Release(f, d)' => Lately(e, d)'
      BY <1>5, <1>6 DEF RelayInv, Overtaken
    <2>3. ASSUME NEW e \in Caller, Regular(e, d)', task'[e][d].val = 0,
                 task'[e][d].crossed
          PROVE  Lately(e, d)'
      <3>1. CASE task[e][d].crossed
        BY <1>5, <1>6, <2>3, <3>1 DEF RelayInv, Overtaken
      <3>2. CASE ~task[e][d].crossed
        <4>1. Release(c, d)
          BY <1>2, <1>3, <1>4, <2>3, <3>2 DEF Release
        <4> QED
          BY <1>5, <1>6, <2>3, <4>1 DEF RelayInv, Overtaken
      <3> QED
        BY <3>1, <3>2
    <2> QED
      BY <2>1, <2>2, <2>3 DEF Overtaken
  <1>14. OneGoal(d)'
    BY <1>5 DEF RelayInv, OneGoal
  <1>15. Arrived(d)'
    <2>1. ASSUME NEW e \in Caller, Regular(e, d)', Landed(e, d)',
                 task'[e][d].crossed => task'[e][d].val = Full
          PROVE  actual'[d] = task'[e][d].val
      <3>1. CASE Regular(c, d)
        BY <1>5, <1>10, <2>1, <3>1
      <3>2. CASE Release(c, d) /\ moved
        <4>1. e # c
          BY <1>5, <2>1, <3>2 DEF Regular, Release
        <4> QED
          BY <1>3, <1>4, <1>5, <1>9, <2>1, <3>2, <4>1 DEF Regular, Release
      <3>3. CASE Release(c, d) /\ ~moved
        <4>1. e # c
          BY <1>5, <2>1, <3>3 DEF Regular, Release
        <4>2. task'[e][d].crossed = task[e][d].crossed
          BY <1>3, <3>3, <4>1
        <4> QED
          BY <1>5, <1>7, <2>1, <3>3, <4>1, <4>2 DEF RelayInv, Arrived
      <3> QED
        BY <1>11, <3>1, <3>2, <3>3
    <2>2. ASSUME actual'[d] = 0
          PROVE  \E w \in Caller : (/\ Regular(w, d) /\ Landed(w, d)
                                   /\ task[w][d].val = 0)'
      <3>1. task[c][d].val = 0 /\ task[c][d].val # Full
        BY <1>4, <2>2 DEF Full
      <3>2. Regular(c, d)' /\ Landed(c, d)' /\ task'[c][d].val = 0
        BY <1>4, <1>5, <1>9, <1>11, <3>1
      <3> QED
        BY <3>2, Zenon
    <2>3. \A e \in Caller :
            (Regular(e, d) /\ Landed(e, d) /\ (task[e][d].crossed => task[e][d].val = Full)
               => actual[d] = task[e][d].val)'
      BY <2>1
    <2>4. (actual[d] = 0)' => \E w \in Caller : (/\ Regular(w, d) /\ Landed(w, d)
                                                 /\ task[w][d].val = 0)'
      BY <2>2
    <2> QED
      BY <2>3, <2>4, Zenon DEF Arrived
  <1>16. ASSUME NEW e \in Caller, Counts(e, d)', actual[d] = task[e][d].val
         PROVE  actual'[d] = task[e][d].val
    <2>1. Regular(e, d) /\ ~(job[c].force /\ moved)
      BY <1>8, <1>16 DEF Counts, Regular, Flying
    <2> QED
      BY <1>10, <1>11, <1>16, <2>1 DEF Release
  <1>17. Outdated(d)'
    <2>1. ASSUME NEW e \in Caller, Counts(e, d)', NEW f \in Caller, Landed(f, d)',
                 task'[f][d].val = task'[e][d].val
          PROVE  actual'[d] = task'[e][d].val
      <3>1. CASE f = c
        BY <1>4, <1>5, <2>1, <3>1
      <3>2. CASE f # c
        <4>1. Counts(e, d) /\ Landed(f, d) /\ task[f][d].val = task[e][d].val
          BY <1>5, <1>7, <1>8, <2>1, <3>2
        <4>2. actual[d] = task[e][d].val
          BY <4>1 DEF RelayInv, Outdated
        <4> QED
          BY <1>5, <1>16, <2>1, <4>2
      <3> QED
        BY <3>1, <3>2
    <2>2. ASSUME NEW e \in Caller, Counts(e, d)', belief'[d] = task'[e][d].val
          PROVE  actual'[d] = task'[e][d].val
      <3>1. Counts(e, d) /\ belief[d] = task[e][d].val
        BY <1>4, <1>5, <1>8, <2>2 DEF SameBelief
      <3>2. actual[d] = task[e][d].val
        BY <3>1 DEF RelayInv, Outdated
      <3> QED
        BY <1>5, <1>16, <2>2, <3>2
    <2> QED
      BY <2>1, <2>2 DEF Outdated
  <1>18. Resting(d)'
    <2>1. CASE ~moved
      <3>1. Recent(d)' <=> Recent(d)
        BY <2>1 DEF Lands, Recent
      <3> QED
        BY <1>4, <1>5, <1>8, <2>1, <3>1 DEF RelayInv, Resting, SameBelief, Lands
    <2>2. CASE moved /\ (job[c].force \/ task[c][d].crossed)
      <3>1. rest'[d] = Hold[d]
        BY <2>2 DEF Lands
      <3> QED
        BY <1>1, <3>1 DEF Resting, Recent
    <2>3. CASE moved /\ ~job[c].force /\ ~task[c][d].crossed
      <3>1. Regular(c, d) /\ Counts(c, d)
        BY <1>4, <2>3 DEF Regular, Counts, Lands
      <3>2. belief'[d] # actual'[d]
        BY <1>4, <2>3, <3>1 DEF RelayInv, Outdated, SameBelief
      <3>3. \A e \in Caller : Counts(e, d)' => task'[e][d].val = actual'[d]
        BY <1>5, <1>8, <1>10, <3>1 DEF Counts, Regular, Flying
      <3> QED
        BY <3>2, <3>3 DEF Resting
    <2> QED
      BY <2>1, <2>2, <2>3
  <1> QED
    BY <1>12, <1>13, <1>14, <1>15, <1>17, <1>18 DEF RelayInv

\* A call is refused, or it fails and is over: nobody learns anything.
Fails(c, d) ==
    /\ SameRelay(d) /\ SameBelief(d) /\ Flying(c, d) /\ ~Landed(c, d)
    /\ \/ /\ task'[c][d] = [task[c][d] EXCEPT !.st = "failed"]
          /\ job'[c].force = job[c].force
       \/ task'[c][d].st = "none"
    /\ \A e \in Caller \ {c} : SameCall(e, d)

LEMMA FailsKeeps ==
  ASSUME TypeOK, RelayTiming, NEW d \in Binary, RelayInv(d), NEW c \in Caller,
         Fails(c, d)
  PROVE  RelayInv(d)'
  <1>1. \A e \in Caller \ {c} :
          /\ task'[e][d] = task[e][d]
          /\ Flying(e, d)' <=> Flying(e, d)
          /\ Landed(e, d)' <=> Landed(e, d)
          /\ Release(e, d)' <=> Release(e, d)
          /\ Regular(e, d)' <=> Regular(e, d)
          /\ Counts(e, d)' <=> Counts(e, d)
    BY DEF Fails, SameCall, Flying, Landed, Release, Regular, Counts
  <1>2. /\ ~Landed(c, d) /\ ~Landed(c, d)' /\ ~Counts(c, d)'
        /\ Flying(c, d)' => /\ task'[c][d].val = task[c][d].val
                            /\ task'[c][d].age = task[c][d].age
                            /\ task'[c][d].orphan = task[c][d].orphan
                            /\ task'[c][d].crossed = task[c][d].crossed
                            /\ Flying(c, d)
        /\ Release(c, d)' => Release(c, d)
        /\ Regular(c, d)' => Regular(c, d)
    <2>1. CASE /\ task'[c][d] = [task[c][d] EXCEPT !.st = "failed"]
               /\ job'[c].force = job[c].force
      <3>1. task[c][d] \in Task
        BY RelayTypes DEF TypeOK
      <3> QED
        BY <2>1, <3>1 DEF Fails, Task, Flying, Landed, Release, Regular, Counts
    <2>2. CASE task'[c][d].st = "none"
      BY <2>2 DEF Fails, Flying, Landed, Release, Regular, Counts
    <2> QED
      BY <2>1, <2>2 DEF Fails
  <1>3. \A e \in Caller : Flying(e, d)' =>
          /\ Flying(e, d) /\ (Lately(e, d)' <=> Lately(e, d))
          /\ task'[e][d].val = task[e][d].val
          /\ task'[e][d].orphan = task[e][d].orphan
          /\ task'[e][d].crossed = task[e][d].crossed
    BY <1>1, <1>2 DEF Fails, SameBelief, Lately
  <1>4. \A e \in Caller : /\ Release(e, d)' => Release(e, d)
                          /\ Regular(e, d)' => Regular(e, d)
                          /\ Landed(e, d)' <=> Landed(e, d)
                          /\ Counts(e, d)' => Counts(e, d) /\ Flying(e, d)'
    BY <1>1, <1>2 DEF Counts, Flying
  <1>5. UNCHANGED <<actual[d], rest[d], belief[d], age[d]>> /\ (d \in known => d \in known')
    BY DEF Fails, SameRelay, SameBelief
  <1>6. Held(d)'
    <2>1. \A e \in Caller : Flying(e, d)' => ~task'[e][d].orphan
      BY <1>3 DEF RelayInv, Held
    <2>2. \A e \in Caller : Release(e, d)' => task'[e][d].val = Full
      BY <1>3, <1>4 DEF RelayInv, Held, Release
    <2>3. d \in known'
      BY <1>5 DEF RelayInv, Held, Fails
    <2> QED
      BY <1>5, <2>1, <2>2, <2>3 DEF RelayInv, Held, Release
  <1>7. Overtaken(d)'
    BY <1>3, <1>4, <1>5 DEF RelayInv, Overtaken, Regular
  <1>8. OneGoal(d)'
    BY <1>3, <1>4 DEF RelayInv, OneGoal, Regular
  <1>9. Arrived(d)'
    <2>1. \A e \in Caller :
            (Regular(e, d) /\ Landed(e, d) /\ (task[e][d].crossed => task[e][d].val = Full)
               => actual[d] = task[e][d].val)'
      BY <1>3, <1>4, <1>5 DEF RelayInv, Arrived, Regular
    <2>2. ASSUME NEW e \in Caller, Release(e, d)', Landed(e, d)', (actual[d] = 0)',
                 ~Lately(e, d)'
          PROVE  \E w \in Caller : (/\ Regular(w, d) /\ Landed(w, d)
                                    /\ task[w][d].val = 0)'
      <3>1. Release(e, d) /\ Landed(e, d) /\ actual[d] = 0 /\ ~Lately(e, d)
        BY <1>3, <1>4, <1>5, <2>2 DEF Release
      <3>2. PICK w \in Caller : Regular(w, d) /\ Landed(w, d) /\ task[w][d].val = 0
        BY <3>1 DEF RelayInv, Arrived
      <3>3. (Regular(w, d) /\ Landed(w, d) /\ task[w][d].val = 0)'
        BY <1>1, <1>2, <3>2
      <3> QED
        BY <3>3, Zenon
    <2> QED
      BY <2>1, <2>2, Zenon DEF Arrived
  <1>10. Outdated(d)'
    <2>1. ASSUME NEW e \in Caller, Counts(e, d)'
          PROVE  Counts(e, d) /\ task'[e][d].val = task[e][d].val
      BY <1>3, <1>4, <2>1
    <2>2. ASSUME NEW f \in Caller, Landed(f, d)'
          PROVE  Landed(f, d) /\ task'[f][d].val = task[f][d].val
      BY <1>1, <1>2, <2>2
    <2> QED
      BY <1>5, <2>1, <2>2 DEF RelayInv, Outdated
  <1>11. Resting(d)'
    BY <1>3, <1>4, <1>5 DEF RelayInv, Resting, Recent
  <1> QED
    BY <1>6, <1>7, <1>8, <1>9, <1>10, <1>11 DEF RelayInv

\* A call that arrived is answered, and what it asked for is believed.
Answers(c, d) ==
    /\ SameRelay(d) /\ Landed(c, d) /\ task'[c][d].st = "none"
    /\ belief'[d] = task[c][d].val
    /\ age'[d] = MinOf(task[c][d].age, Hold[d])
    /\ d \in known => d \in known'
    /\ \A e \in Caller \ {c} : SameCall(e, d)

LEMMA AnswersKeeps ==
  ASSUME TypeOK, RelayTiming, NEW d \in Binary, RelayInv(d), NEW c \in Caller,
         Answers(c, d)
  PROVE  RelayInv(d)'
  <1>1. \A e \in Caller \ {c} :
          /\ task'[e][d] = task[e][d]
          /\ Flying(e, d)' <=> Flying(e, d)
          /\ Landed(e, d)' <=> Landed(e, d)
          /\ Release(e, d)' <=> Release(e, d)
          /\ Regular(e, d)' <=> Regular(e, d)
          /\ Counts(e, d)' <=> Counts(e, d)
    BY DEF Answers, SameCall, Flying, Landed, Release, Regular, Counts
  <1>2. /\ ~Flying(c, d)' /\ ~Landed(c, d)' /\ ~Release(c, d)' /\ ~Regular(c, d)'
        /\ ~Counts(c, d)' /\ Landed(c, d) /\ Flying(c, d)
    BY DEF Answers, Flying, Landed, Release, Regular, Counts
  <1>3. /\ age'[d] <= MaxLatency /\ age'[d] \in Nat /\ MaxLatency \in Nat
        /\ rest[d] \in Nat
        /\ \A e \in Caller : task[e][d].age \in Nat
    <2>1. task[c][d].age \in 0..MaxLatency /\ Hold[d] \in Nat /\ Hold[d] > 2 * MaxLatency
      BY RelayTypes
    <2>2. age'[d] <= MaxLatency /\ age'[d] \in Nat
      BY <2>1, RelayTypes DEF Answers, MinOf
    <2> QED
      BY <2>2, RelayTypes
  <1>4. \A e \in Caller : Flying(e, d)' => Lately(e, d)'
    BY <1>1, <1>2, <1>3 DEF Lately
  <1>5. /\ UNCHANGED <<actual[d], rest[d]>> /\ belief'[d] = task[c][d].val
        /\ d \in known'
    BY <1>2 DEF Answers, SameRelay, RelayInv, Held
  <1>6. Held(d)'
    <2>1. \A e \in Caller : Flying(e, d)' => ~task'[e][d].orphan
      BY <1>1, <1>2 DEF RelayInv, Held
    <2>2. \A e \in Caller : Release(e, d)' => task'[e][d].val = Full
      BY <1>1, <1>2 DEF RelayInv, Held, Release
    <2> QED
      BY <1>5, <2>1, <2>2 DEF RelayInv, Held, Release
  <1>7. Overtaken(d)'
    BY <1>4 DEF Overtaken, Regular
  <1>8. OneGoal(d)'
    BY <1>1, <1>2 DEF RelayInv, OneGoal
  <1>9. Arrived(d)'
    <2>1. \A e \in Caller :
            (Regular(e, d) /\ Landed(e, d) /\ (task[e][d].crossed => task[e][d].val = Full)
               => actual[d] = task[e][d].val)'
      BY <1>1, <1>2, <1>5 DEF RelayInv, Arrived
    <2>2. \A e \in Caller : Release(e, d)' => Lately(e, d)'
      BY <1>4 DEF Release
    <2> QED
      BY <2>1, <2>2, Zenon DEF Arrived
  <1>10. Outdated(d)'
    BY <1>1, <1>2, <1>5 DEF RelayInv, Outdated
  <1>11. Resting(d)'
    <2>1. age'[d] <= rest'[d] + MaxLatency
      BY <1>3, <1>5
    <2>2. Recent(d)' <=> Recent(d)
      BY <1>5 DEF Recent
    <2> QED
      BY <1>1, <1>2, <1>5, <2>1, <2>2 DEF RelayInv, Resting
  <1> QED
    BY <1>6, <1>7, <1>8, <1>9, <1>10, <1>11 DEF RelayInv

\* Time passes.
Passes(d) ==
    /\ UNCHANGED <<actual[d], belief[d], known>>
    /\ age'[d] = MinOf(age[d] + 1, Hold[d]) /\ rest'[d] = MinOf(rest[d] + 1, Hold[d])
    /\ \A c \in Caller :
         /\ task'[c][d] = IF Flying(c, d) THEN [task[c][d] EXCEPT !.age = @ + 1]
                                          ELSE task[c][d]
         /\ job'[c].force = job[c].force

LEMMA PassesKeeps ==
  ASSUME TypeOK, RelayTiming, NEW d \in Binary, RelayInv(d), Passes(d)
  PROVE  RelayInv(d)'
  <1>1. /\ Hold[d] \in Nat /\ MaxLatency \in Nat /\ age[d] \in Nat /\ rest[d] \in Nat
        /\ \A c \in Caller : task[c][d] \in Task
    BY RelayTypes DEF TypeOK
  <1>2. ASSUME NEW c \in Caller
        PROVE  /\ task'[c][d].st = task[c][d].st /\ task'[c][d].val = task[c][d].val
               /\ task'[c][d].orphan = task[c][d].orphan
               /\ task'[c][d].crossed = task[c][d].crossed
               /\ Flying(c, d) => task'[c][d].age = task[c][d].age + 1
    <2>1. CASE Flying(c, d)
      <3>1. task'[c][d] = [task[c][d] EXCEPT !.age = @ + 1]
        BY <2>1 DEF Passes
      <3> QED
        BY <1>1, <3>1 DEF Task
    <2>2. CASE ~Flying(c, d)
      BY <2>2 DEF Passes
    <2> QED
      BY <2>1, <2>2
  <1>3. \A c \in Caller :
          /\ Flying(c, d)' <=> Flying(c, d)
          /\ Landed(c, d)' <=> Landed(c, d)
          /\ Release(c, d)' <=> Release(c, d)
          /\ Regular(c, d)' <=> Regular(c, d)
          /\ Counts(c, d)' <=> Counts(c, d)
    BY <1>2 DEF Passes, Flying, Landed, Release, Regular, Counts
  <1>4. age'[d] <= age[d] + 1 /\ age'[d] \in Nat
    BY <1>1 DEF Passes, MinOf
  <1>5. ASSUME NEW c \in Caller, Flying(c, d), Lately(c, d) PROVE Lately(c, d)'
    <2>1. task'[c][d].age = task[c][d].age + 1 /\ task[c][d].age \in Nat
      BY <1>1, <1>2, <1>5 DEF Task
    <2> QED
      BY <1>1, <1>4, <1>5, <2>1 DEF Lately
  <1>6. UNCHANGED <<actual[d], belief[d], known>>
    BY DEF Passes
  <1>7. Held(d)'
    <2>1. \A c \in Caller : Flying(c, d)' =>
            ~task'[c][d].orphan /\ (Release(c, d)' => task'[c][d].val = Full)
      BY <1>2, <1>3 DEF RelayInv, Held, Release
    <2>2. age[d] = Hold[d] => age'[d] = Hold[d]
      BY <1>1 DEF Passes, MinOf
    <2>3. (d \in known \/ /\ belief[d] = Full /\ age[d] = Hold[d]
                          /\ \A c \in Caller : ~Flying(c, d))'
      BY <1>3, <1>6, <2>2 DEF RelayInv, Held
    <2> QED
      BY <1>6, <2>1, <2>3 DEF RelayInv, Held, Release
  <1>8. Overtaken(d)'
    BY <1>2, <1>3, <1>5, <1>6 DEF RelayInv, Overtaken, Regular
  <1>9. OneGoal(d)'
    BY <1>2, <1>3 DEF RelayInv, OneGoal
  <1>10. Arrived(d)'
    <2>1. \A c \in Caller :
            (Regular(c, d) /\ Landed(c, d) /\ (task[c][d].crossed => task[c][d].val = Full)
               => actual[d] = task[c][d].val)'
      BY <1>2, <1>3, <1>6 DEF RelayInv, Arrived
    <2>2. ASSUME NEW c \in Caller, Release(c, d)', Landed(c, d)', (actual[d] = 0)',
                 ~Lately(c, d)'
          PROVE  \E w \in Caller : (/\ Regular(w, d) /\ Landed(w, d)
                                    /\ task[w][d].val = 0)'
      <3>1. PICK w \in Caller : Regular(w, d) /\ Landed(w, d) /\ task[w][d].val = 0
        BY <1>3, <1>5, <1>6, <2>2 DEF RelayInv, Arrived, Release
      <3>2. (Regular(w, d) /\ Landed(w, d) /\ task[w][d].val = 0)'
        BY <1>2, <1>3, <3>1
      <3> QED
        BY <3>2, Zenon
    <2> QED
      BY <2>1, <2>2, Zenon DEF Arrived
  <1>11. Outdated(d)'
    BY <1>2, <1>3, <1>6 DEF RelayInv, Outdated
  <1>12. Resting(d)'
    <2>1. ASSUME Recent(d)' PROVE Recent(d) /\ rest'[d] = rest[d] + 1
      BY <1>1, <2>1 DEF Passes, Recent, MinOf
    <2>2. ASSUME Recent(d)', age[d] <= rest[d] + MaxLatency
          PROVE  age'[d] <= rest'[d] + MaxLatency
      BY <1>1, <1>4, <2>1, <2>2
    <2> QED
      BY <1>2, <1>3, <1>6, <2>1, <2>2 DEF RelayInv, Resting
  <1> QED
    BY <1>7, <1>8, <1>9, <1>10, <1>11, <1>12 DEF RelayInv

-----------------------------------------------------------------------------
(* What each action does to the callers, and to one device *)

\* A proportional write arrives.
Arrives(c, d) ==
    /\ rest'[d] = rest[d] /\ SameBelief(d) /\ task[c][d].st = "sent"
    /\ task'[c][d] = [task[c][d] EXCEPT !.st = "landed"]
    /\ \A e \in Caller \ {c} : SameCall(e, d)

\* Of the relays a loop has still to switch there is a first one.
RelaysRanked == \A S \in SUBSET Binary : S # {} => Least(S) \in S

LEMMA SettleIs ==
  ASSUME NEW j, NEW flying
  PROVE  /\ Settle(j, flying) = j \/ Settle(j, flying) = IdleJob
         /\ flying # {} => Settle(j, flying) = j
         /\ \/ Settle(j, flying) = IdleJob
            \/ j.gather # {} \/ j.off # {} \/ j.on # {} \/ flying # {}
  BY DEF Settle

LEMMA IdleJobIs == IdleJob.gather = {} /\ IdleJob.force = FALSE
  BY DEF IdleJob

\* A job that is over, or goes on, or waits with other things to start.
LEMMA CallersKept ==
  ASSUME CallersInv, NEW c \in Caller,
         \A e \in Caller \ {c} : job'[e] = job[e],
         \A e \in Caller \ {c} : InFlight(e)' = InFlight(e), Occupied(c)',
         \/ job'[c].gather = {}
         \/ job'[c].gather = job[c].gather /\ InFlight(c)' \subseteq InFlight(c),
         \/ job'[c].force = FALSE
         \/ job'[c].force = job[c].force /\ job'[c].goal = job[c].goal
  PROVE  CallersInv'
  BY DEF CallersInv, Occupied

\* Jobs stay as they are, and so do the calls in flight.
LEMMA CallersSame ==
  ASSUME CallersInv, job' = job,
         \A c \in Caller, d \in Device : Flying(c, d)' <=> Flying(c, d)
  PROVE  CallersInv'
  <1>1. \A c \in Caller : InFlight(c)' = InFlight(c)
    BY DEF InFlight, Flying
  <1> QED
    BY <1>1 DEF CallersInv, Occupied

\* Of a device nobody has heard of yet nothing is known but the defaults.
Unheard(d) == d \in known \/ (belief[d] = Full /\ age[d] = Hold[d])

\* A call of distribute() starts, with every device managed.
LEMMA DistributeDoes ==
  ASSUME TypeOK, managed = Device, CallersInv, NEW c \in Caller,
         NEW l \in Limit \cup {100}, NEW en \in BOOLEAN, DistributeAs(c, l, en)
  PROVE  /\ CallersInv' /\ managed' = Device
         /\ \A d \in Device : Unheard(d) => Still(d)
  <1>1. \A e \in Caller, d \in Device : task'[e][d] = task[e][d]
    BY DEF DistributeAs, Sync
  <1>2. \A e \in Caller \ {c} : job'[e] = job[e]
    BY DEF DistributeAs, TypeOK
  <1>3. \A e \in Caller : InFlight(e)' = InFlight(e)
    BY <1>1 DEF InFlight
  <1>4. InFlight(c) = {} /\ InFlight(c)' = {}
    BY <1>3 DEF DistributeAs, Idle
  <1>5. ASSUME NEW d \in Device, Unheard(d) PROVE Still(d)
    <2>1. SameRelay(d)
      BY DEF DistributeAs, world, place, SameRelay
    <2>2. belief'[d] = belief[d] /\ age'[d] = age[d] /\ d \in known'
      BY <1>5 DEF DistributeAs, Sync, Unheard
    <2>3. \A e \in Caller : SameCall(e, d)
      BY <1>1, <1>2, <1>4 DEF SameCall, Flying, InFlight
    <2> QED
      BY <2>1, <2>2, <2>3 DEF Still, SameBelief
  <1>6. PICK r \in Reading :
          job' = [job EXCEPT ![c] =
                    Settle(IF en THEN EnforceJob(l, r) ELSE ReleaseJob, {})]
    BY DEF DistributeAs
  <1>7. job'[c].force => \A d \in Binary : job'[c].goal[d] = Full
    <2>1. \/ job'[c] = IdleJob \/ job'[c] = EnforceJob(l, r)
          \/ job'[c] = ReleaseJob
      BY <1>6, SettleIs DEF TypeOK
    <2>2. ~IdleJob.force /\ ~EnforceJob(l, r).force
      BY DEF IdleJob, EnforceJob
    <2>3. \A d \in Binary : ReleaseJob.goal[d] = Full
      BY DistributorAssumption DEF ReleaseJob
    <2> QED
      BY <2>1, <2>2, <2>3
  <1>8. Occupied(c)'
    <2>1. \E j \in Job : job'[c] = Settle(j, {})
      <3>1. (IF en THEN EnforceJob(l, r) ELSE ReleaseJob) \in Job
        BY EnforceJobOK, ReleaseJobOK
      <3> QED BY <1>6, <3>1 DEF TypeOK
    <2> QED BY <2>1, SettleIs DEF Occupied
  <1>9. CallersInv'
    BY <1>2, <1>3, <1>4, <1>7, <1>8 DEF CallersInv, Occupied
  <1> QED
    BY <1>5, <1>9 DEF DistributeAs, world, place

\* The gathered writes that reach the plugin, and those it passes on.
Called(c) == {d \in job[c].gather : MaySend(d, job[c].goal[d], job[c].force)}
Issued(c) == {d \in Called(c) : ~Suppressed(d, job[c].force)}

LEMMA StartGatherCalls ==
  ASSUME TypeOK, CallersInv, NEW c \in Caller, StartGather(c)
  PROVE  /\ CallersInv' /\ managed' = managed
         /\ job[c] \in Job /\ InFlight(c) = {}
         /\ \A e \in Caller \ {c} : job'[e] = job[e]
         /\ \A e \in Caller \ {c}, d \in Device : task'[e][d] = task[e][d]
         /\ \A d \in Device : task'[c][d] = IF d \in Issued(c) THEN Sent(job[c].goal[d])
                                            ELSE task[c][d]
         /\ Issued(c) # {} => job'[c].force = job[c].force
  <1> DEFINE j == job[c]
             left == [j EXCEPT !.gather = {}]
  <1>1. j \in Job /\ j.gather # {} /\ InFlight(c) = {}
    <2>1. j \in Job
      BY DEF TypeOK
    <2>2. j.gather # {}
      BY DEF StartGather
    <2> QED
      BY <2>1, <2>2 DEF CallersInv
  <1>2. /\ task' = [task EXCEPT ![c] = [d \in Device |-> IF d \in Issued(c)
                                          THEN Sent(j.goal[d]) ELSE task[c][d]]]
        /\ job' = [job EXCEPT ![c] = Settle(left, Issued(c))]
        /\ managed' = managed
    BY DEF StartGather, Issued, Called, world, place
  <1>3. left.gather = {} /\ left.force = j.force /\ left.goal = j.goal
    BY <1>1 DEF Job
  <1>4. task \in [Caller -> [Device -> Task]] /\ job \in [Caller -> Job]
    BY DEF TypeOK
  <1> HIDE DEF left
  <1>5. job'[c] = Settle(left, Issued(c)) /\ \A e \in Caller \ {c} : job'[e] = job[e]
    BY <1>2, <1>4
  <1>6. /\ \A e \in Caller \ {c}, d \in Device : task'[e][d] = task[e][d]
        /\ \A d \in Device : task'[c][d] = IF d \in Issued(c) THEN Sent(j.goal[d])
                                           ELSE task[c][d]
    BY <1>2, <1>4
  <1>7. /\ job'[c].gather = {}
        /\ \/ job'[c].force = FALSE
           \/ job'[c].force = j.force /\ job'[c].goal = j.goal
        /\ Issued(c) # {} => job'[c].force = j.force
    BY <1>3, <1>5, SettleIs, IdleJobIs
  <1>8. \A e \in Caller \ {c} : InFlight(e)' = InFlight(e)
    BY <1>6 DEF InFlight
  <1>9. Occupied(c)'
    <2>1. Issued(c) \subseteq Device
      BY <1>1, DistributorAssumption DEF Issued, Called, Job
    <2>2. Issued(c) \subseteq InFlight(c)'
      <3>1. \A v : Sent(v).st # "none"
        BY DEF Sent
      <3> QED BY <1>6, <2>1, <3>1 DEF InFlight
    <2> QED BY <1>5, <2>2, SettleIs DEF Occupied
  <1>10. CallersInv'
    BY <1>5, <1>7, <1>8, <1>9, CallersKept
  <1> QED
    BY <1>1, <1>2, <1>5, <1>6, <1>7, <1>10

\* Gathered commands to relays: those that are called are made at once, as a relay
\* has no dead time of its own.
LEMMA StartGatherDoes ==
  ASSUME TypeOK, CallersInv, NEW c \in Caller, StartGather(c),
         NEW d \in Binary, PluginHold[d] = 0
  PROVE  Still(d) \/ Sends(c, d)
  <1> DEFINE j == job[c]
  <1>1. d \in Device
    BY DistributorAssumption
  <1>2. ~Flying(c, d)
    BY <1>1, StartGatherCalls DEF InFlight, Flying
  <1>3. \A e \in Caller \ {c} : SameCall(e, d)
    BY <1>1, StartGatherCalls DEF SameCall
  <1>4. ~(guard[d] > 0)
    BY <1>1 DEF TypeOK
  <1>5. Called(c) \ Issued(c) \subseteq Device \ {d}
    <2>1. Called(c) \subseteq Device
      BY StartGatherCalls, DistributorAssumption DEF Called, Job
    <2>2. d \in Called(c) => d \in Issued(c)
      BY <1>4 DEF Issued, Suppressed
    <2> QED BY <2>1, <2>2
  <1>6. SameRelay(d) /\ SameBelief(d)
    <2>1. UNCHANGED <<actual, known>>
      BY DEF StartGather, world, place
    <2>2. /\ belief' = [x \in Device |-> IF x \in Called(c) \ Issued(c) THEN j.goal[x]
                                         ELSE belief[x]]
          /\ age' = [x \in Device |-> IF x \in Called(c) \ Issued(c) THEN 0 ELSE age[x]]
          /\ rest' = [x \in Device |-> IF x \in Called(c) \ Binary THEN 0 ELSE rest[x]]
      BY DEF StartGather, Issued, Called
    <2> QED
      BY <1>1, <1>5, <2>1, <2>2 DEF SameRelay, SameBelief
  <1>7. CASE d \in Issued(c)
    <2>1. j.goal[d] \in {0, Full}
      BY <1>1, GoalOK DEF Command
    <2>2. /\ d \in known /\ belief[d] # j.goal[d] /\ (j.force \/ age[d] >= Hold[d])
      BY <1>7 DEF MaySend, Issued, Called
    <2>3. task'[c][d] = Sent(j.goal[d])
      BY <1>1, <1>7, StartGatherCalls
    <2>4. job'[c].force = j.force /\ (j.force => j.goal[d] = Full)
      BY <1>7, StartGatherCalls DEF CallersInv
    <2>5. j.force \in BOOLEAN
      BY StartGatherCalls DEF Job
    <2> QED
      BY <1>2, <1>3, <1>6, <2>1, <2>2, <2>3, <2>4, <2>5 DEF Sends
  <1>8. CASE d \notin Issued(c)
    <2>1. task'[c][d] = task[c][d]
      BY <1>1, <1>8, StartGatherCalls
    <2>2. \A e \in Caller : SameCall(e, d)
      BY <1>2, <1>3, <2>1 DEF SameCall
    <2> QED
      BY <1>6, <2>2 DEF Still
  <1> QED
    BY <1>7, <1>8

\* The next relay command of a loop.
LEMMA StartRelayCalls ==
  ASSUME TypeOK, CallersInv, NEW c \in Caller, StartRelay(c)
  PROVE  /\ CallersInv' /\ managed' = managed
         /\ \E d0 : /\ RelaysRanked => d0 \in Binary
                    /\ \A d \in Device \ {d0} : Still(d)
                    /\ d0 \in Binary => Still(d0) \/ Sends(c, d0)
  <1> DEFINE j == job[c]
             d0 == IF j.off # {} THEN Least(j.off) ELSE Least(j.on)
             left == IF j.off # {} THEN [j EXCEPT !.off = @ \ {d0}]
                                   ELSE [j EXCEPT !.on = @ \ {d0}]
  <1>1. /\ j \in Job /\ j.gather = {} /\ InFlight(c) = {}
        /\ j # IdleJob
    BY DEF StartRelay, Running, TypeOK
  <1>2. left.gather = {} /\ left.force = j.force /\ left.goal = j.goal
    BY <1>1 DEF Job
  <1>3. RelaysRanked => d0 \in Binary
    <2>1. j.off \in SUBSET Binary /\ j.on \in SUBSET Binary
      BY <1>1 DEF Job
    <2>2. j.off # {} \/ j.on # {}
      BY <1>1 DEF CallersInv, Occupied
    <2> QED BY <2>1, <2>2 DEF RelaysRanked
  <1> HIDE DEF d0, left
  <1>4. /\ UNCHANGED <<managed, actual, rest, known, belief, age>>
        /\ IF MaySend(d0, j.goal[d0], FALSE)
           THEN /\ task' = [task EXCEPT ![c][d0] = Sent(j.goal[d0])]
                /\ job' = [job EXCEPT ![c] = left]
           ELSE /\ job' = [job EXCEPT ![c] = Settle(left, {})]
                /\ UNCHANGED task
    BY DEF StartRelay, world, place, state, d0, left
  <1>5. /\ \A e \in Caller \ {c} : job'[e] = job[e]
        /\ job'[c] = left \/ job'[c] = IdleJob
        /\ MaySend(d0, j.goal[d0], FALSE) => job'[c] = left
        /\ \A e \in Caller, d \in Device : e # c \/ d # d0 => task'[e][d] = task[e][d]
    <2>1. CASE MaySend(d0, j.goal[d0], FALSE)
      <3>1. /\ task' = [task EXCEPT ![c][d0] = Sent(j.goal[d0])]
            /\ job' = [job EXCEPT ![c] = left]
        BY <1>4, <2>1
      <3>2. job \in [Caller -> Job] /\ task \in [Caller -> [Device -> Task]]
        BY DEF TypeOK
      <3> QED
        BY <3>1, <3>2
    <2>2. CASE ~MaySend(d0, j.goal[d0], FALSE)
      <3>1. job' = [job EXCEPT ![c] = Settle(left, {})] /\ UNCHANGED task
        BY <1>4, <2>2
      <3>2. job \in [Caller -> Job]
        BY DEF TypeOK
      <3> QED
        BY <2>2, <3>1, <3>2, SettleIs
    <2> QED
      BY <2>1, <2>2
  <1>6. ASSUME NEW d \in Device, d # d0 \/ ~MaySend(d0, j.goal[d0], FALSE)
        PROVE  Still(d)
    <2>1. ~Flying(c, d) /\ task'[c][d] = task[c][d]
      BY <1>1, <1>4, <1>5, <1>6 DEF InFlight, Flying
    <2>2. \A e \in Caller : SameCall(e, d)
      BY <1>5, <2>1 DEF SameCall
    <2> QED
      BY <1>4, <2>2 DEF Still, SameRelay, SameBelief
  <1>7. ASSUME d0 \in Binary, MaySend(d0, j.goal[d0], FALSE) PROVE Sends(c, d0)
    <2>1. d0 \in Device /\ j.goal[d0] \in {0, Full} /\ j.force \in BOOLEAN
      BY <1>1, <1>7, GoalOK, DistributorAssumption DEF Job, Commands, Command
    <2>2. d0 \in known /\ belief[d0] # j.goal[d0] /\ age[d0] >= Hold[d0]
      BY <1>7 DEF MaySend
    <2>3. task'[c][d0] = Sent(j.goal[d0])
      BY <1>4, <1>7, <2>1 DEF TypeOK
    <2>4. ~Flying(c, d0)
      BY <1>1, <2>1 DEF InFlight, Flying
    <2>5. \A e \in Caller \ {c} : SameCall(e, d0)
      BY <1>5, <2>1 DEF SameCall
    <2>6. job'[c].force = j.force /\ (j.force => j.goal[d0] = Full)
      BY <1>2, <1>5, <1>7 DEF CallersInv
    <2> QED
      BY <1>4, <2>1, <2>2, <2>3, <2>4, <2>5, <2>6
         DEF Sends, SameRelay, SameBelief
  <1>8. \A e \in Caller \ {c} : InFlight(e)' = InFlight(e)
    BY <1>5 DEF InFlight
  <1>9. CallersInv'
    <2>1. Occupied(c)'
      <3>1. CASE MaySend(d0, j.goal[d0], FALSE)
        <4>1. job'[c] = left
          BY <1>5, <3>1
        <4>2. task' = [task EXCEPT ![c][d0] = Sent(j.goal[d0])] /\ d0 \in known
          BY <1>4, <3>1 DEF MaySend
        <4>3. d0 \in Device /\ task'[c][d0] = Sent(j.goal[d0])
          BY <4>2 DEF TypeOK
        <4>4. Sent(j.goal[d0]).st # "none"
          BY DEF Sent
        <4> QED BY <4>3, <4>4 DEF Occupied, InFlight
      <3>2. CASE ~MaySend(d0, j.goal[d0], FALSE)
        <4>1. job'[c] = Settle(left, {})
          BY <1>4, <3>2 DEF TypeOK
        <4> QED BY <4>1, SettleIs DEF Occupied
      <3> QED BY <3>1, <3>2
    <2> QED BY <1>2, <1>5, <1>8, <2>1, CallersKept, IdleJobIs
  <1>10. d0 \in Binary => Still(d0) \/ Sends(c, d0)
    BY <1>6, <1>7, DistributorAssumption
  <1> QED
    BY <1>3, <1>4, <1>6, <1>9, <1>10

LEMMA LandDoes ==
  ASSUME TypeOK, CallersInv, NEW c \in Caller, NEW d0 \in Device, Land(c, d0)
  PROVE  /\ CallersInv' /\ managed' = managed /\ Flying(c, d0)
         /\ \A d \in Device \ {d0} : Still(d)
         /\ d0 \in Binary => Lands(c, d0)
         /\ d0 \notin Binary => Arrives(c, d0)
  <1> DEFINE cross == job[c].force /\ d0 \in Binary /\ actual'[d0] # actual[d0]
  <1>1. /\ UNCHANGED <<managed, job, known, belief, age>>
        /\ task[c][d0].st = "sent"
        /\ actual' = [actual EXCEPT ![d0] = Effect(d0, task[c][d0].val)]
        /\ rest' = IF d0 \in Binary /\ actual'[d0] # actual[d0]
                   THEN [rest EXCEPT ![d0] = IF job[c].force \/ task[c][d0].crossed
                                             THEN Hold[d0] ELSE 0]
                   ELSE rest
        /\ task' = [e \in Caller |->
                      IF e = c THEN [task[c] EXCEPT ![d0].st = "landed"]
                      ELSE IF task[e][d0].st # "none" /\ cross
                      THEN [task[e] EXCEPT ![d0].crossed = TRUE] ELSE task[e]]
    BY DEF Land, Obey, state
  <1> HIDE DEF cross
  <1>2. \A e \in Caller : task[e] \in [Device -> Task]
    BY DEF TypeOK
  <1>3. task'[c][d0] = [task[c][d0] EXCEPT !.st = "landed"]
    BY <1>1, <1>2
  <1>4. ASSUME NEW e \in Caller \ {c}
        PROVE  task'[e][d0] = IF Flying(e, d0) /\ cross
                              THEN [task[e][d0] EXCEPT !.crossed = TRUE]
                              ELSE task[e][d0]
    <2>1. CASE Flying(e, d0) /\ cross
      <3>1. task'[e] = [task[e] EXCEPT ![d0].crossed = TRUE]
        BY <1>1, <2>1 DEF Flying
      <3> QED
        BY <1>2, <2>1, <3>1
    <2>2. CASE ~(Flying(e, d0) /\ cross)
      <3>1. task'[e] = task[e]
        BY <1>1, <2>2 DEF Flying
      <3> QED
        BY <2>2, <3>1
    <2> QED
      BY <2>1, <2>2
  <1>5. \A e \in Caller, d \in Device \ {d0} : task'[e][d] = task[e][d]
    <2> SUFFICES ASSUME NEW e \in Caller, NEW d \in Device \ {d0}
                 PROVE  task'[e][d] = task[e][d]
      OBVIOUS
    <2>1. \/ task'[e] = task[e]
          \/ task'[e] = [task[e] EXCEPT ![d0].st = "landed"]
          \/ task'[e] = [task[e] EXCEPT ![d0].crossed = TRUE]
      BY <1>1
    <2> QED
      BY <1>2, <2>1
  <1>6. \A e \in Caller, d \in Device : Flying(e, d)' <=> Flying(e, d)
    <2>1. task[c][d0] \in Task /\ \A e \in Caller : task[e][d0] \in Task
      BY <1>2
    <2>2. task'[c][d0].st = "landed" /\ task[c][d0].st = "sent"
      BY <1>1, <1>3, <2>1 DEF Task
    <2>3. ASSUME NEW e \in Caller \ {c} PROVE task'[e][d0].st = task[e][d0].st
      BY <1>4, <2>1 DEF Task
    <2> QED
      BY <1>5, <2>2, <2>3 DEF Flying
  <1>7. CallersInv'
    BY <1>1, <1>6, CallersSame
  <1>8. rest \in [Device -> Nat] /\ actual \in [Device -> Pct]
    BY DEF TypeOK
  <1>9. ASSUME NEW d \in Device, d # d0 PROVE Still(d)
    <2>1. SameRelay(d)
      BY <1>1, <1>8, <1>9 DEF SameRelay
    <2> QED
      BY <1>1, <1>5, <1>9, <2>1 DEF Still, SameBelief, SameCall
  <1>10. ASSUME d0 \in Binary PROVE Lands(c, d0)
    <2>1. actual'[d0] = task[c][d0].val
      <3>1. task[c][d0].val \in {0, Full}
        BY <1>10, TaskOK DEF Command
      <3> QED
        BY <1>1, <1>8, <1>10, <3>1, EffectAssumption
    <2>2. rest'[d0] = IF ~(actual'[d0] # actual[d0]) THEN rest[d0]
                      ELSE IF job[c].force \/ task[c][d0].crossed THEN Hold[d0] ELSE 0
      BY <1>1, <1>8, <1>10
    <2>3. cross <=> job[c].force /\ actual'[d0] # actual[d0]
      BY <1>10 DEF cross
    <2>4. \A e \in Caller \ {c} :
            task'[e][d0] = IF Flying(e, d0) /\ job[c].force /\ actual'[d0] # actual[d0]
                           THEN [task[e][d0] EXCEPT !.crossed = TRUE] ELSE task[e][d0]
      BY <1>4, <2>3
    <2> QED
      BY <1>1, <1>3, <2>1, <2>2, <2>4 DEF Lands, SameBelief
  <1>11. ASSUME d0 \notin Binary PROVE Arrives(c, d0)
    <2>1. rest'[d0] = rest[d0]
      BY <1>1, <1>11
    <2>2. ~cross
      BY <1>11 DEF cross
    <2>3. \A e \in Caller \ {c} : SameCall(e, d0)
      BY <1>1, <1>4, <2>2 DEF SameCall
    <2> QED
      BY <1>1, <1>3, <2>1, <2>3 DEF Arrives, SameBelief
  <1>12. Flying(c, d0)
    BY <1>1 DEF Flying
  <1> QED
    BY <1>1, <1>7, <1>9, <1>10, <1>11, <1>12

LEMMA FailDoes ==
  ASSUME TypeOK, CallersInv, NEW c \in Caller, NEW d0 \in Device, Fail(c, d0)
  PROVE  /\ CallersInv' /\ managed' = managed
         /\ \A d \in Device \ {d0} : Still(d)
         /\ Fails(c, d0)
  <1>1. /\ UNCHANGED <<managed, actual, rest, job, known, belief, age>>
        /\ task[c][d0].st = "sent"
        /\ task' = [task EXCEPT ![c][d0].st = "failed"]
    BY DEF Fail, world, place, state
  <1>2. \A e \in Caller, d \in Device :
          task'[e][d] = IF e = c /\ d = d0 THEN [task[c][d0] EXCEPT !.st = "failed"]
                                           ELSE task[e][d]
    BY <1>1 DEF TypeOK
  <1>3. task'[c][d0].st = "failed"
    BY <1>2, TaskOK DEF Task
  <1>4. CallersInv'
    <2>1. \A e \in Caller, d \in Device : Flying(e, d)' <=> Flying(e, d)
      BY <1>1, <1>2, <1>3 DEF Flying
    <2> QED
      BY <1>1, <2>1, CallersSame
  <1>5. \A d \in Device \ {d0} : Still(d)
    BY <1>1, <1>2 DEF Still, SameRelay, SameBelief, SameCall
  <1>6. Fails(c, d0)
    BY <1>1, <1>2 DEF Fails, SameRelay, SameBelief, SameCall, Flying, Landed
  <1> QED
    BY <1>1, <1>4, <1>5, <1>6

\* As no answer is lost, a call that failed did not arrive.
LEMMA ReplyDoes ==
  ASSUME TypeOK, CallersInv, "loseReply" \notin Fault,
         NEW c \in Caller, NEW d0 \in Device, NEW ok \in BOOLEAN, Reply(c, d0, ok)
  PROVE  /\ CallersInv' /\ managed' = managed
         /\ \A d \in Device \ {d0} : Still(d)
         /\ ok /\ ~task[c][d0].orphan => Answers(c, d0)
         /\ ok => Landed(c, d0)
         /\ ~ok => Fails(c, d0) /\ task[c][d0].st = "failed"
  <1> DEFINE tk == task[c][d0]
  <1>1. /\ UNCHANGED <<managed, actual, rest, known>>
        /\ IF ok THEN tk.st = "landed" ELSE tk.st = "failed"
        /\ task' = [task EXCEPT ![c][d0] = NoTask]
        /\ job' = [job EXCEPT ![c] = Settle(@, InFlight(c) \ {d0})]
    BY DEF Reply, place
  <1>2. /\ \A e \in Caller, d \in Device : e # c \/ d # d0 => task'[e][d] = task[e][d]
        /\ task'[c][d0].st = "none"
    <2>1. task'[c][d0] = NoTask
      BY <1>1 DEF TypeOK
    <2>2. NoTask.st = "none"
      BY DEF NoTask
    <2>3. \A e \in Caller, d \in Device : e # c \/ d # d0 => task'[e][d] = task[e][d]
      BY <1>1 DEF TypeOK
    <2> QED
      BY <2>1, <2>2, <2>3
  <1>3. IF ok /\ ~tk.orphan THEN Record(d0, tk) ELSE UNCHANGED <<belief, age>>
    BY DEF Reply
  <1>4. /\ \A e \in Caller \ {c} : job'[e] = job[e]
        /\ job'[c] = job[c] \/ job'[c] = IdleJob
        /\ InFlight(c) \ {d0} # {} => job'[c] = job[c]
        /\ \/ job'[c] = IdleJob
           \/ job'[c].gather # {} \/ job'[c].off # {} \/ job'[c].on # {}
           \/ InFlight(c) \ {d0} # {}
    <2> DEFINE flying == InFlight(c) \ {d0}
    <2>1. job' = [job EXCEPT ![c] = Settle(job[c], flying)] /\ job \in [Caller -> Job]
      BY <1>1 DEF TypeOK
    <2> HIDE DEF flying
    <2>2. job'[c] = Settle(job[c], flying) /\ \A e \in Caller \ {c} : job'[e] = job[e]
      BY <2>1
    <2>3. job'[c] = job[c] \/ job'[c] = IdleJob
      BY <2>2, SettleIs
    <2>4. flying # {} => job'[c] = job[c]
      BY <2>2, SettleIs
    <2>5. \/ job'[c] = IdleJob
          \/ job'[c].gather # {} \/ job'[c].off # {} \/ job'[c].on # {} \/ flying # {}
      BY <2>2, SettleIs
    <2> QED
      BY <2>2, <2>3, <2>4, <2>5 DEF flying
  <1>5. CallersInv'
    <2>1. InFlight(c)' \subseteq InFlight(c)
      BY <1>2 DEF InFlight
    <2>2. \A e \in Caller \ {c} : InFlight(e)' = InFlight(e)
      BY <1>2 DEF InFlight
    <2>3. InFlight(c)' = InFlight(c) \ {d0}
      BY <1>2 DEF InFlight
    <2>4. Occupied(c)'
      BY <1>4, <2>3 DEF Occupied
    <2> QED
      BY <1>4, <2>1, <2>2, <2>4, CallersKept, IdleJobIs
  <1>6. ASSUME NEW d \in Device, d # d0 PROVE belief'[d] = belief[d] /\ age'[d] = age[d]
    <2>1. CASE ok /\ ~tk.orphan
      <3>1. /\ belief' = [belief EXCEPT ![d0] = tk.val]
            /\ age' = [age EXCEPT ![d0] = MinOf(tk.age, Hold[d0])]
        BY <1>3, <2>1 DEF Record
      <3> QED
        BY <1>6, <3>1 DEF TypeOK, Commands
    <2>2. CASE ~(ok /\ ~tk.orphan)
      BY <1>3, <2>2
    <2> QED
      BY <2>1, <2>2
  <1>7. ASSUME NEW d \in Device, d # d0 PROVE Still(d)
    <2>1. \A e \in Caller : SameCall(e, d)
      <3>1. Flying(c, d) => InFlight(c) \ {d0} # {}
        BY <1>7 DEF Flying, InFlight
      <3> QED
        BY <1>2, <1>4, <1>7, <3>1 DEF SameCall
    <2> QED
      BY <1>1, <1>6, <1>7, <2>1 DEF Still, SameRelay, SameBelief
  <1>8. \A e \in Caller \ {c} : SameCall(e, d0)
    BY <1>2, <1>4 DEF SameCall
  <1>9. ASSUME ok, ~tk.orphan PROVE Answers(c, d0)
    <2>1. /\ belief' = [belief EXCEPT ![d0] = tk.val]
          /\ age' = [age EXCEPT ![d0] = MinOf(tk.age, Hold[d0])]
      BY <1>3, <1>9 DEF Record
    <2>2. belief'[d0] = tk.val /\ age'[d0] = MinOf(tk.age, Hold[d0])
      BY <2>1 DEF TypeOK, Commands
    <2> QED
      BY <1>1, <1>2, <1>8, <1>9, <2>2 DEF Answers, SameRelay, Landed
  <1>10. ASSUME ~ok PROVE Fails(c, d0)
    BY <1>1, <1>2, <1>3, <1>8, <1>10 DEF Fails, SameRelay, SameBelief, Flying, Landed
  <1> QED
    BY <1>1, <1>5, <1>7, <1>9, <1>10 DEF Landed

LEMMA TickDoes ==
  ASSUME TypeOK, CallersInv, Tick
  PROVE  CallersInv' /\ managed' = managed /\ \A d \in Device : Passes(d)
  <1>1. /\ UNCHANGED <<managed, actual, known, belief, job>>
        /\ task' = [c \in Caller |-> [d \in Device |->
                      IF task[c][d].st = "none" THEN task[c][d]
                      ELSE [task[c][d] EXCEPT !.age = @ + 1]]]
        /\ age' = [d \in Device |-> MinOf(age[d] + 1, Hold[d])]
        /\ rest' = [d \in Device |-> MinOf(rest[d] + 1, Hold[d])]
    BY DEF Tick, place
  <1>2. ASSUME NEW c \in Caller, NEW d \in Device
        PROVE  /\ task'[c][d] = IF Flying(c, d) THEN [task[c][d] EXCEPT !.age = @ + 1]
                                                ELSE task[c][d]
               /\ Flying(c, d)' <=> Flying(c, d)
    <2>1. CASE Flying(c, d)
      <3>1. task'[c][d] = [task[c][d] EXCEPT !.age = @ + 1]
        BY <1>1, <2>1 DEF Flying
      <3>2. task'[c][d].st = task[c][d].st
        BY <3>1, TaskOK DEF Task
      <3> QED
        BY <2>1, <3>1, <3>2 DEF Flying
    <2>2. CASE ~Flying(c, d)
      <3>1. task'[c][d] = task[c][d]
        BY <1>1, <2>2 DEF Flying
      <3> QED
        BY <2>2, <3>1 DEF Flying
    <2> QED
      BY <2>1, <2>2
  <1>3. CallersInv'
    BY <1>1, <1>2, CallersSame
  <1>4. \A d \in Device : Passes(d)
    BY <1>1, <1>2 DEF Passes
  <1> QED
    BY <1>1, <1>3, <1>4

\* Steps that touch neither calls nor what is known of the devices.
LEMMA OtherDoes ==
  ASSUME CallersInv, UNCHANGED <<managed, actual, rest, known, belief, age, job, task>>
  PROVE  CallersInv' /\ managed' = managed /\ \A d \in Device : Still(d)
  <1>1. CallersInv'
    BY CallersSame DEF Flying
  <1>2. \A d \in Device : Still(d)
    BY DEF Still, SameRelay, SameBelief, SameCall
  <1> QED
    BY <1>1, <1>2

LEMMA InitCallers == Init => managed = Device /\ CallersInv
  <1> SUFFICES ASSUME Init PROVE managed = Device /\ CallersInv
    OBVIOUS
  <1>1. \A c \in Caller : job[c].gather = {} /\ job[c].force = FALSE
    BY IdleJobIs DEF Init
  <1> QED
    BY <1>1 DEF Init, CallersInv, Occupied

-----------------------------------------------------------------------------
(* ... and so to the relays *)

\* Every device is managed all the time, and every relay is as above.
Relays == managed = Device /\ CallersInv /\ \A d \in Binary : RelayInv(d)

LEMMA InitRelays ==
  ASSUME RelayTiming, Init
  PROVE  Relays
  <1>1. \A c \in Caller, d \in Device : task[c][d].st = "none"
    BY DEF Init, NoTask
  <1>2. ASSUME NEW d \in Binary PROVE RelayInv(d)
    <2>1. d \in Device /\ Hold[d] \in Nat /\ MaxLatency \in Nat
      BY DistributorAssumption
    <2>2. ~Recent(d)
      BY <2>1 DEF Recent, Init
    <2>3. \A c \in Caller : /\ ~Flying(c, d) /\ ~Landed(c, d) /\ ~Release(c, d)
                            /\ ~Regular(c, d) /\ ~Counts(c, d)
      BY <1>1, <2>1 DEF Flying, Landed, Release, Regular, Counts
    <2>4. Held(d)
      BY <2>1, <2>3 DEF Held, Init
    <2> QED
      BY <2>2, <2>3, <2>4
         DEF RelayInv, Overtaken, OneGoal, Arrived, Outdated, Resting
  <1> QED
    BY <1>2, InitCallers DEF Relays

LEMMA CallStepRelays ==
  ASSUME TypeOK, RelayTiming, Relays, "loseReply" \notin Fault, NEW c \in Caller, CallStep(c)
  PROVE  Relays'
  <1>1. managed = Device /\ CallersInv /\ Binary \subseteq Device
        /\ \A d \in Binary : RelayInv(d) /\ PluginHold[d] = 0
    BY DistributorAssumption DEF Relays, RelayTiming
  <1>2. CASE StartGather(c)
    <2>1. CallersInv' /\ managed' = Device
      BY <1>1, <1>2, StartGatherCalls
    <2>2. \A d \in Binary : Still(d) \/ Sends(c, d)
      BY <1>1, <1>2, StartGatherDoes
    <2> QED
      BY <1>1, <2>1, <2>2, StillKeeps, SendsKeeps DEF Relays
  <1>3. CASE StartRelay(c)
    <2>1. CallersInv' /\ managed' = Device
      BY <1>1, <1>3, StartRelayCalls
    <2>2. \A d \in Binary : Still(d) \/ Sends(c, d)
      BY <1>1, <1>3, StartRelayCalls
    <2> QED
      BY <1>1, <2>1, <2>2, StillKeeps, SendsKeeps DEF Relays
  <1>4. ASSUME NEW d0 \in Device, Land(c, d0) PROVE Relays'
    <2>1. CallersInv' /\ managed' = Device
      BY <1>1, <1>4, LandDoes
    <2>2. \A d \in Binary : Still(d) \/ Lands(c, d)
      BY <1>1, <1>4, LandDoes
    <2> QED
      BY <1>1, <2>1, <2>2, StillKeeps, LandsKeeps DEF Relays
  <1>5. ASSUME NEW d0 \in Device, Fail(c, d0) PROVE Relays'
    <2>1. CallersInv' /\ managed' = Device
      BY <1>1, <1>5, FailDoes
    <2>2. \A d \in Binary : Still(d) \/ Fails(c, d)
      BY <1>1, <1>5, FailDoes
    <2> QED
      BY <1>1, <2>1, <2>2, StillKeeps, FailsKeeps DEF Relays
  <1>6. ASSUME NEW d0 \in Device, NEW ok \in BOOLEAN, Reply(c, d0, ok) PROVE Relays'
    <2>1. CallersInv' /\ managed' = Device
      BY <1>1, <1>6, ReplyDoes
    <2>2. d0 \in Binary /\ ok => ~task[c][d0].orphan
      <3>1. ok => Flying(c, d0)
        BY <1>1, <1>6, ReplyDoes DEF Flying, Landed
      <3> QED BY <1>1, <3>1 DEF RelayInv, Held
    <2>3. \A d \in Binary : Still(d) \/ Answers(c, d) \/ Fails(c, d)
      BY <1>1, <1>6, <2>2, ReplyDoes
    <2> QED
      BY <1>1, <2>1, <2>3, StillKeeps, AnswersKeeps, FailsKeeps DEF Relays
  <1> QED
    BY <1>2, <1>3, <1>4, <1>5, <1>6 DEF CallStep

LEMMA NextRelays ==
  ASSUME TypeOK, RelayTiming, Relays, [Next]_vars,
         "unmanage" \notin Fault, "loseReply" \notin Fault, "bypass" \notin Fault
  PROVE  Relays'
  <1>1. managed = Device /\ CallersInv /\ Binary \subseteq Device
        /\ \A d \in Binary : RelayInv(d) /\ Unheard(d)
    BY DistributorAssumption DEF Relays, RelayInv, Held, Unheard
  <1>2. ASSUME CallersInv', managed' = Device, \A d \in Binary : Still(d)
        PROVE  Relays'
    BY <1>1, <1>2, StillKeeps DEF Relays
  <1>3. ASSUME NEW c \in Caller, NEW l \in Limit, NEW en \in BOOLEAN,
               Distribute(c, l, en)
        PROVE  Relays'
    BY <1>1, <1>2, <1>3, DistributeDoes DEF Distribute
  <1>4. CASE SlackTick
    <2>1. globalLimit \in Limit \cup {100} /\ SlackLoop \in Caller
      BY DistributorAssumption DEF TypeOK
    <2> QED
      BY <1>1, <1>2, <1>4, <2>1, DistributeDoes DEF SlackTick
  <1>5. ASSUME NEW c \in Caller, CallStep(c) PROVE Relays'
    BY <1>5, CallStepRelays
  <1>6. CASE Tick
    BY <1>1, <1>6, TickDoes, PassesKeeps DEF Relays
  <1>7. ASSUME NEW d \in Device, Connect(d) \/ Disconnect(d) PROVE Relays'
    BY <1>1, <1>2, <1>7, OtherDoes DEF Connect, Disconnect, state
  <1>8. ASSUME NEW d \in Device,
               StopDevice(d) \/ StartDevice(d) \/ \E v \in Asked(d) : Bypass(d, v)
        PROVE  Relays'
    BY <1>1, <1>8 DEF StopDevice, StartDevice, Bypass
  <1>9. CASE Quiet
    BY <1>1, <1>2, <1>9, OtherDoes DEF Quiet, world, place, state
  <1>10. CASE UNCHANGED vars
    BY <1>1, <1>2, <1>10, OtherDoes DEF vars, world, place, state
  <1> QED
    BY <1>3, <1>4, <1>5, <1>6, <1>7, <1>8, <1>9, <1>10 DEF Next

\* The relay cooldown, for any fleet and any callers: with a cooldown longer than
\* two calls may take (300 s against about 10 s), and as long as devices are
\* neither edited nor switched behind the distributor's back and no answer is lost.
THEOREM RelayRestHolds ==
  ASSUME RelayTiming,
         "unmanage" \notin Fault, "loseReply" \notin Fault, "bypass" \notin Fault
  PROVE  Spec => RelayRest
  <1> DEFINE Rests == \A c \in Caller, d \in Binary :
                        /\ Land(c, d)
                        /\ actual'[d] # actual[d]
                        /\ ~job[c].force /\ ~task[c][d].crossed
                        => rest[d] >= Hold[d] - MaxLatency
  <1>1. Init => Relays
    BY InitRelays
  <1>2. TypeOK /\ Relays /\ [Next]_vars => Relays'
    BY NextRelays
  <1>3. ASSUME TypeOK, Relays PROVE Rests
    <2> SUFFICES ASSUME NEW c \in Caller, NEW d \in Binary, Land(c, d),
                        actual'[d] # actual[d], ~job[c].force, ~task[c][d].crossed
                 PROVE  rest[d] >= Hold[d] - MaxLatency
      OBVIOUS
    <2>1. /\ Hold[d] \in Nat /\ MaxLatency \in Nat /\ rest[d] \in Nat
          /\ task[c][d].val \in {0, Full} /\ d \in Device
      BY <1>3, RelayTypes
    <2>2. Counts(c, d)
      BY DEF Counts, Land
    <2>3. actual'[d] = task[c][d].val
      BY <1>3, <2>1, EffectAssumption DEF Land, Obey, TypeOK
    <2>4. ~Recent(d)
      BY <1>3, <2>2, <2>3 DEF Relays, RelayInv, Resting
    <2> QED
      BY <2>1, <2>4 DEF Recent
  <1>4. TypeOK /\ Relays => [Rests]_vars
    BY <1>3
  <1> QED
    BY <1>1, <1>2, <1>4, TypeCorrect, PTL DEF Spec, RelayRest

-----------------------------------------------------------------------------
(* Calls that do not overlap *)

\* At most one call of distribute() is under way.  Nothing in the code sees to it;
\* it is what the two comparisons below suppose.
Alone == \A c, e \in Caller : c = e \/ Idle(c) \/ Idle(e)

LEMMA OthersIdle ==
  ASSUME Alone, NEW c \in Caller, NEW d \in Device, Flying(c, d) \/ job[c] # IdleJob
  PROVE  \A e \in Caller \ {c} : ~Flying(e, d)
  <1>1. ~Idle(c)
    BY DEF Idle, InFlight, Flying
  <1> QED
    BY <1>1 DEF Alone, Idle, InFlight, Flying

\* A relay is where it is believed to be, until the one command to it arrives; then
\* it is where that command put it.
Faithful(d) ==
    /\ d \in known \/ /\ actual[d] = Full /\ belief[d] = Full /\ age[d] = Hold[d]
                      /\ \A c \in Caller : ~Flying(c, d)
    /\ (\A c \in Caller : ~Flying(c, d)) => actual[d] = belief[d]
    /\ \A c \in Caller : Flying(c, d) =>
          /\ ~task[c][d].orphan
          /\ actual[d] = IF Landed(c, d) THEN task[c][d].val ELSE belief[d]

LEMMA StillFaithful ==
  ASSUME NEW d \in Binary, Faithful(d), Still(d)
  PROVE  Faithful(d)'
  <1>1. \A c \in Caller : /\ task'[c][d] = task[c][d]
                          /\ Flying(c, d)' <=> Flying(c, d)
                          /\ Landed(c, d)' <=> Landed(c, d)
    BY DEF Still, SameCall, Flying, Landed
  <1> QED
    BY <1>1 DEF Still, SameRelay, SameBelief, Faithful

LEMMA SendsFaithful ==
  ASSUME NEW d \in Binary, NEW c \in Caller, Faithful(d), Sends(c, d),
         \A e \in Caller \ {c} : ~Flying(e, d)
  PROVE  Faithful(d)'
  <1>1. PICK v \in {0, Full} : task'[c][d] = Sent(v)
    BY DEF Sends
  <1>2. Flying(c, d)' /\ ~Landed(c, d)' /\ ~task'[c][d].orphan
    BY <1>1 DEF Sent, Flying, Landed
  <1>3. \A e \in Caller \ {c} : ~Flying(e, d)'
    BY DEF Sends, SameCall, Flying
  <1>4. actual[d] = belief[d] /\ d \in known /\ d \in known'
        /\ actual'[d] = actual[d] /\ belief'[d] = belief[d]
    BY DEF Sends, SameRelay, SameBelief, Faithful
  <1> QED
    BY <1>2, <1>3, <1>4 DEF Faithful

LEMMA LandsFaithful ==
  ASSUME TypeOK, NEW d \in Binary, NEW c \in Caller, Faithful(d), Lands(c, d),
         \A e \in Caller \ {c} : ~Flying(e, d)
  PROVE  Faithful(d)'
  <1>1. Flying(c, d) /\ task[c][d] \in Task
    BY TaskOK, DistributorAssumption DEF Lands, Flying
  <1>2. /\ Flying(c, d)' /\ Landed(c, d)'
        /\ task'[c][d].val = task[c][d].val /\ task'[c][d].orphan = task[c][d].orphan
    BY <1>1 DEF Lands, Flying, Landed, Task
  <1>3. \A e \in Caller \ {c} : ~Flying(e, d)'
    BY DEF Lands, Flying
  <1>4. d \in known /\ d \in known' /\ actual'[d] = task[c][d].val /\ ~task[c][d].orphan
    BY <1>1 DEF Lands, SameBelief, Faithful
  <1> QED
    BY <1>2, <1>3, <1>4 DEF Faithful

LEMMA FailsFaithful ==
  ASSUME TypeOK, NEW d \in Binary, NEW c \in Caller, Faithful(d), Fails(c, d),
         \A e \in Caller \ {c} : ~Flying(e, d)
  PROVE  Faithful(d)'
  <1>1. Flying(c, d) /\ ~Landed(c, d) /\ task[c][d] \in Task
    BY TaskOK, DistributorAssumption DEF Fails
  <1>2. ~Landed(c, d)' /\ (Flying(c, d)' => task'[c][d].orphan = task[c][d].orphan)
    BY <1>1 DEF Fails, Flying, Landed, Task
  <1>3. \A e \in Caller \ {c} : ~Flying(e, d)'
    BY DEF Fails, SameCall, Flying
  <1>4. /\ d \in known /\ d \in known' /\ actual[d] = belief[d] /\ ~task[c][d].orphan
        /\ actual'[d] = actual[d] /\ belief'[d] = belief[d]
    BY <1>1 DEF Fails, SameRelay, SameBelief, Faithful
  <1> QED
    BY <1>2, <1>3, <1>4 DEF Faithful

LEMMA AnswersFaithful ==
  ASSUME NEW d \in Binary, NEW c \in Caller, Faithful(d), Answers(c, d),
         \A e \in Caller \ {c} : ~Flying(e, d)
  PROVE  Faithful(d)'
  <1>1. Flying(c, d)
    BY DEF Answers, Landed, Flying
  <1>2. \A e \in Caller : ~Flying(e, d)'
    BY DEF Answers, SameCall, Flying
  <1>3. /\ d \in known /\ d \in known' /\ actual[d] = task[c][d].val
        /\ actual'[d] = actual[d] /\ belief'[d] = task[c][d].val
    BY <1>1 DEF Answers, SameRelay, Faithful
  <1> QED
    BY <1>2, <1>3 DEF Faithful

LEMMA PassesFaithful ==
  ASSUME TypeOK, NEW d \in Binary, Faithful(d), Passes(d)
  PROVE  Faithful(d)'
  <1>1. \A c \in Caller : task[c][d] \in Task
    BY TaskOK, DistributorAssumption
  <1>2. ASSUME NEW c \in Caller
        PROVE  /\ task'[c][d].st = task[c][d].st /\ task'[c][d].val = task[c][d].val
               /\ task'[c][d].orphan = task[c][d].orphan
    <2>1. CASE Flying(c, d)
      BY <1>1, <2>1 DEF Passes, Task
    <2>2. CASE ~Flying(c, d)
      BY <2>2 DEF Passes
    <2> QED BY <2>1, <2>2
  <1>3. \A c \in Caller : /\ Flying(c, d)' <=> Flying(c, d)
                          /\ Landed(c, d)' <=> Landed(c, d)
    BY <1>2 DEF Flying, Landed
  <1>4. age[d] = Hold[d] => age'[d] = Hold[d]
    <2>1. Hold[d] \in Nat
      BY DistributorAssumption
    <2> QED BY <2>1 DEF Passes, MinOf
  <1> QED
    BY <1>2, <1>3, <1>4 DEF Passes, Faithful

\* Every device is managed all the time, and every relay is as above.
Serial == managed = Device /\ CallersInv /\ \A d \in Binary : Faithful(d)

LEMMA InitSerial == Init => Serial
  <1> SUFFICES ASSUME Init PROVE Serial
    OBVIOUS
  <1>1. \A c \in Caller, d \in Device : ~Flying(c, d)
    BY DEF Init, NoTask, Flying
  <1>2. ASSUME NEW d \in Binary PROVE Faithful(d)
    <2>1. d \in Device
      BY DistributorAssumption
    <2> QED BY <1>1, <2>1 DEF Init, Faithful
  <1> QED
    BY <1>2, InitCallers DEF Serial

LEMMA CallStepSerial ==
  ASSUME TypeOK, Alone, Serial, "loseReply" \notin Fault,
         \A d \in Binary : PluginHold[d] = 0, NEW c \in Caller, CallStep(c)
  PROVE  Serial'
  <1>1. /\ managed = Device /\ CallersInv /\ Binary \subseteq Device
        /\ \A d \in Binary : Faithful(d)
    BY DistributorAssumption DEF Serial
  <1>2. CASE StartGather(c)
    <2>1. CallersInv' /\ managed' = Device
      BY <1>1, <1>2, StartGatherCalls
    <2>2. \A d \in Binary : Still(d) \/ Sends(c, d)
      BY <1>1, <1>2, StartGatherDoes
    <2>3. \A d \in Binary, e \in Caller \ {c} : ~Flying(e, d)
      BY <1>1, <1>2, OthersIdle, IdleJobIs DEF StartGather
    <2> QED
      BY <1>1, <2>1, <2>2, <2>3, StillFaithful, SendsFaithful DEF Serial
  <1>3. CASE StartRelay(c)
    <2>1. CallersInv' /\ managed' = Device
      BY <1>1, <1>3, StartRelayCalls
    <2>2. \A d \in Binary : Still(d) \/ Sends(c, d)
      BY <1>1, <1>3, StartRelayCalls
    <2>3. \A d \in Binary, e \in Caller \ {c} : ~Flying(e, d)
      BY <1>1, <1>3, OthersIdle DEF StartRelay, Running
    <2> QED
      BY <1>1, <2>1, <2>2, <2>3, StillFaithful, SendsFaithful DEF Serial
  <1>4. ASSUME NEW d0 \in Device, Land(c, d0) PROVE Serial'
    <2>1. CallersInv' /\ managed' = Device /\ Flying(c, d0)
      BY <1>1, <1>4, LandDoes
    <2>2. \A d \in Binary : Still(d) \/ (d = d0 /\ Lands(c, d))
      BY <1>1, <1>4, LandDoes
    <2>3. \A e \in Caller \ {c} : ~Flying(e, d0)
      BY <2>1, OthersIdle
    <2> QED
      BY <1>1, <2>1, <2>2, <2>3, StillFaithful, LandsFaithful DEF Serial
  <1>5. ASSUME NEW d0 \in Device, Fail(c, d0) PROVE Serial'
    <2>1. CallersInv' /\ managed' = Device /\ Fails(c, d0)
      BY <1>1, <1>5, FailDoes
    <2>2. \A d \in Binary : Still(d) \/ d = d0
      BY <1>1, <1>5, FailDoes
    <2>3. \A e \in Caller \ {c} : ~Flying(e, d0)
      BY <2>1, OthersIdle DEF Fails
    <2> QED
      BY <1>1, <2>1, <2>2, <2>3, StillFaithful, FailsFaithful DEF Serial
  <1>6. ASSUME NEW d0 \in Device, NEW ok \in BOOLEAN, Reply(c, d0, ok) PROVE Serial'
    <2>1. CallersInv' /\ managed' = Device /\ Flying(c, d0)
      <3>1. Landed(c, d0) \/ Fails(c, d0)
        BY <1>1, <1>6, ReplyDoes
      <3>2. Flying(c, d0)
        BY <3>1 DEF Fails, Flying, Landed
      <3> QED BY <1>1, <1>6, <3>2, ReplyDoes
    <2>2. d0 \in Binary => ~task[c][d0].orphan
      BY <1>1, <2>1 DEF Faithful
    <2>3. \A d \in Binary : Still(d) \/ (d = d0 /\ (Answers(c, d) \/ Fails(c, d)))
      BY <1>1, <1>6, <2>2, ReplyDoes
    <2>4. \A e \in Caller \ {c} : ~Flying(e, d0)
      BY <2>1, OthersIdle
    <2> QED
      BY <1>1, <2>1, <2>3, <2>4, StillFaithful, AnswersFaithful, FailsFaithful DEF Serial
  <1> QED
    BY <1>2, <1>3, <1>4, <1>5, <1>6 DEF CallStep

LEMMA NextSerial ==
  ASSUME TypeOK, Alone, Serial, [Next]_vars, \A d \in Binary : PluginHold[d] = 0,
         "unmanage" \notin Fault, "loseReply" \notin Fault, "bypass" \notin Fault
  PROVE  Serial'
  <1>1. managed = Device /\ CallersInv /\ Binary \subseteq Device
        /\ \A d \in Binary : Faithful(d) /\ Unheard(d)
    BY DistributorAssumption DEF Serial, Faithful, Unheard
  <1>2. ASSUME CallersInv', managed' = Device, \A d \in Binary : Still(d)
        PROVE  Serial'
    BY <1>1, <1>2, StillFaithful DEF Serial
  <1>3. ASSUME NEW c \in Caller, NEW l \in Limit, NEW en \in BOOLEAN,
               Distribute(c, l, en)
        PROVE  Serial'
    BY <1>1, <1>2, <1>3, DistributeDoes DEF Distribute
  <1>4. CASE SlackTick
    <2>1. globalLimit \in Limit \cup {100} /\ SlackLoop \in Caller
      BY DistributorAssumption DEF TypeOK
    <2> QED
      BY <1>1, <1>2, <1>4, <2>1, DistributeDoes DEF SlackTick
  <1>5. ASSUME NEW c \in Caller, CallStep(c) PROVE Serial'
    BY <1>5, CallStepSerial
  <1>6. CASE Tick
    BY <1>1, <1>6, TickDoes, PassesFaithful DEF Serial
  <1>7. ASSUME NEW d \in Device, Connect(d) \/ Disconnect(d) PROVE Serial'
    BY <1>1, <1>2, <1>7, OtherDoes DEF Connect, Disconnect, state
  <1>8. ASSUME NEW d \in Device,
               StopDevice(d) \/ StartDevice(d) \/ \E v \in Asked(d) : Bypass(d, v)
        PROVE  Serial'
    BY <1>1, <1>8 DEF StopDevice, StartDevice, Bypass
  <1>9. CASE Quiet
    BY <1>1, <1>2, <1>9, OtherDoes DEF Quiet, world, place, state
  <1>10. CASE UNCHANGED vars
    BY <1>1, <1>2, <1>10, OtherDoes DEF vars, world, place, state
  <1> QED
    BY <1>3, <1>4, <1>5, <1>6, <1>7, <1>8, <1>9, <1>10 DEF Next

\* distributor.py 571, "No change needed": with no two calls under way at once, a
\* relay with no command under way is where the distributor believes it to be,
\* whatever it refuses and however devices go offline, so that leaving a command
\* out loses nothing.  It takes an overlap, a lost answer, a device edited or
\* switched behind the distributor's back to make it false.
THEOREM BeliefIsTrueAlone ==
  ASSUME \A d \in Binary : PluginHold[d] = 0,
         "unmanage" \notin Fault, "loseReply" \notin Fault, "bypass" \notin Fault
  PROVE  Spec /\ []Alone => []NoChangeNeeded
  <1>1. Init => Serial
    BY InitSerial
  <1>2. TypeOK /\ Alone /\ Serial /\ [Next]_vars => Serial'
    BY NextSerial
  <1>3. Serial => NoChangeNeeded
    <2>1. \A c \in Caller, d \in Binary : task[c][d] = NoTask => ~Flying(c, d)
      BY DEF NoTask, Flying
    <2> QED
      BY <2>1 DEF Serial, Faithful, NoChangeNeeded
  <1> QED
    BY <1>1, <1>2, <1>3, TypeCorrect, PTL DEF Spec

\* The last call of the plugin of a proportional device is at least as long ago
\* as the write that was recorded last, or the one under way.
Spaced(d) ==
    /\ d \in known \/ /\ belief[d] = Full /\ age[d] = Hold[d] /\ rest[d] = Hold[d]
                      /\ \A c \in Caller : ~Flying(c, d)
    /\ (\A c \in Caller : ~Flying(c, d)) => age[d] <= rest[d]
    /\ \A c \in Caller : Flying(c, d) =>
          /\ task[c][d].st # "failed" /\ ~task[c][d].orphan
          /\ MinOf(task[c][d].age, Hold[d]) <= rest[d]

\* Nothing happens to the calls of a device, or to what is known of it.
Calm(d) == rest'[d] = rest[d] /\ SameBelief(d) /\ \A c \in Caller : SameCall(c, d)

\* The plugin is called: it writes, or is inside its own dead time and does not.
Writes(c, d) ==
    /\ rest'[d] = 0 /\ d \in known /\ d \in known' /\ ~Flying(c, d)
    /\ \A e \in Caller \ {c} : SameCall(e, d)
    /\ \/ \E v \in Pct : task'[c][d] = Sent(v)
       \/ task'[c][d] = task[c][d] /\ age'[d] = 0

LEMMA StartGatherWrites ==
  ASSUME TypeOK, CallersInv, NEW c \in Caller, StartGather(c), NEW d \in Device \ Binary
  PROVE  /\ Still(d) \/ Writes(c, d)
         /\ task'[c][d] # task[c][d] =>
              d \in known /\ (job[c].force \/ age[d] >= Hold[d])
  <1> DEFINE j == job[c]
  <1>1. ~Flying(c, d)
    BY StartGatherCalls DEF InFlight, Flying
  <1>2. \A e \in Caller \ {c} : SameCall(e, d)
    BY StartGatherCalls DEF SameCall
  <1>3. UNCHANGED <<actual, known>>
    BY DEF StartGather, world, place
  <1>4. /\ belief' = [x \in Device |-> IF x \in Called(c) \ Issued(c) THEN j.goal[x]
                                       ELSE belief[x]]
        /\ age' = [x \in Device |-> IF x \in Called(c) \ Issued(c) THEN 0 ELSE age[x]]
        /\ rest' = [x \in Device |-> IF x \in Called(c) \ Binary THEN 0 ELSE rest[x]]
    BY DEF StartGather, Issued, Called
  <1>5. task'[c][d] = IF d \in Issued(c) THEN Sent(j.goal[d]) ELSE task[c][d]
    BY StartGatherCalls
  <1>6. Issued(c) \subseteq Called(c)
    BY DEF Issued
  <1>7. d \in Called(c) => d \in known /\ (j.force \/ age[d] >= Hold[d])
    BY DEF Called, MaySend
  <1>8. CASE d \in Called(c)
    <2>1. rest'[d] = 0 /\ (d \notin Issued(c) => age'[d] = 0)
      BY <1>4, <1>8
    <2>2. j.goal[d] \in Pct
      BY GoalOK
    <2> QED
      BY <1>1, <1>2, <1>3, <1>5, <1>7, <1>8, <2>1, <2>2 DEF Writes
  <1>9. CASE d \notin Called(c)
    <2>1. SameRelay(d) /\ SameBelief(d)
      BY <1>3, <1>4, <1>9 DEF SameRelay, SameBelief
    <2>2. task'[c][d] = task[c][d]
      BY <1>5, <1>6, <1>9
    <2>3. \A e \in Caller : SameCall(e, d)
      BY <1>1, <1>2, <2>2 DEF SameCall
    <2> QED
      BY <2>1, <2>2, <2>3 DEF Still
  <1> QED
    BY <1>8, <1>9

LEMMA CalmSpaced ==
  ASSUME NEW d \in Device, Spaced(d), Calm(d)
  PROVE  Spaced(d)'
  <1>1. \A c \in Caller : task'[c][d] = task[c][d] /\ (Flying(c, d)' <=> Flying(c, d))
    BY DEF Calm, SameCall, Flying
  <1>2. \A c \in Caller : MinOf(task[c][d].age, Hold[d])' = MinOf(task[c][d].age, Hold[d])
    BY <1>1 DEF MinOf
  <1> QED
    BY <1>1, <1>2 DEF Calm, SameBelief, Spaced

LEMMA WritesSpaced ==
  ASSUME TypeOK, NEW d \in Device, NEW c \in Caller, Writes(c, d),
         \A e \in Caller \ {c} : ~Flying(e, d)
  PROVE  Spaced(d)'
  <1>1. \A e \in Caller \ {c} : ~Flying(e, d)'
    BY DEF Writes, SameCall, Flying
  <1>2. CASE \E v \in Pct : task'[c][d] = Sent(v)
    <2>1. /\ Flying(c, d)' /\ task'[c][d].st # "failed" /\ ~task'[c][d].orphan
          /\ task'[c][d].age = 0
      BY <1>2 DEF Sent, Flying
    <2>2. MinOf(0, Hold[d]) <= 0
      BY DistributorAssumption DEF MinOf
    <2> QED
      BY <1>1, <2>1, <2>2 DEF Spaced, Writes
  <1>3. CASE task'[c][d] = task[c][d] /\ age'[d] = 0
    <2>1. ~Flying(c, d)'
      BY <1>3 DEF Writes, Flying
    <2> QED
      BY <1>1, <1>3, <2>1 DEF Spaced, Writes
  <1> QED
    BY <1>2, <1>3 DEF Writes

LEMMA ArrivesSpaced ==
  ASSUME TypeOK, NEW d \in Device, NEW c \in Caller, Spaced(d), Arrives(c, d),
         \A e \in Caller \ {c} : ~Flying(e, d)
  PROVE  Spaced(d)'
  <1>1. Flying(c, d) /\ task[c][d] \in Task
    BY TaskOK DEF Arrives, Flying
  <1>2. /\ Flying(c, d)' /\ task'[c][d].st = "landed"
        /\ task'[c][d].age = task[c][d].age /\ task'[c][d].orphan = task[c][d].orphan
    BY <1>1 DEF Arrives, Flying, Task
  <1>3. \A e \in Caller \ {c} : ~Flying(e, d)'
    BY DEF Arrives, SameCall, Flying
  <1>4. d \in known /\ d \in known' /\ ~task[c][d].orphan /\ rest'[d] = rest[d]
        /\ MinOf(task[c][d].age, Hold[d]) <= rest[d]
    BY <1>1 DEF Arrives, SameBelief, Spaced
  <1> QED
    BY <1>2, <1>3, <1>4 DEF Spaced

LEMMA AnswersSpaced ==
  ASSUME NEW d \in Device, NEW c \in Caller, Spaced(d), Answers(c, d),
         \A e \in Caller \ {c} : ~Flying(e, d)
  PROVE  Spaced(d)'
  <1>1. Flying(c, d)
    BY DEF Answers, Landed, Flying
  <1>2. \A e \in Caller : ~Flying(e, d)'
    BY DEF Answers, SameCall, Flying
  <1>3. /\ d \in known /\ d \in known' /\ rest'[d] = rest[d]
        /\ age'[d] = MinOf(task[c][d].age, Hold[d])
        /\ MinOf(task[c][d].age, Hold[d]) <= rest[d]
    BY <1>1 DEF Answers, SameRelay, Spaced
  <1> QED
    BY <1>2, <1>3 DEF Spaced

LEMMA PassesSpaced ==
  ASSUME TypeOK, NEW d \in Device, Spaced(d), Passes(d)
  PROVE  Spaced(d)'
  <1>1. /\ Hold[d] \in Nat /\ age[d] \in Nat /\ rest[d] \in Nat
        /\ \A c \in Caller : task[c][d] \in Task /\ task[c][d].age \in Nat
    BY TaskOK, DistributorAssumption DEF TypeOK, Task
  <1>2. \A m, n, k \in Nat : MinOf(m, k) <= n => MinOf(m + 1, k) <= MinOf(n + 1, k)
    BY DEF MinOf
  <1>3. \A m, n, k \in Nat : m <= n => MinOf(m + 1, k) <= MinOf(n + 1, k)
    BY DEF MinOf
  <1>4. \A k \in Nat : MinOf(k + 1, k) = k
    BY DEF MinOf
  <1>5. age'[d] = MinOf(age[d] + 1, Hold[d]) /\ rest'[d] = MinOf(rest[d] + 1, Hold[d])
    BY DEF Passes
  <1>6. ASSUME NEW c \in Caller
        PROVE  /\ Flying(c, d)' <=> Flying(c, d)
               /\ Flying(c, d) => /\ task'[c][d].st = task[c][d].st
                                  /\ task'[c][d].orphan = task[c][d].orphan
                                  /\ task'[c][d].age = task[c][d].age + 1
    <2>1. CASE Flying(c, d)
      <3>1. /\ task'[c][d].st = task[c][d].st /\ task'[c][d].orphan = task[c][d].orphan
            /\ task'[c][d].age = task[c][d].age + 1
        BY <1>1, <2>1 DEF Passes, Task
      <3> QED BY <2>1, <3>1 DEF Flying
    <2>2. CASE ~Flying(c, d)
      <3>1. task'[c][d] = task[c][d]
        BY <2>2 DEF Passes
      <3> QED BY <2>2, <3>1 DEF Flying
    <2> QED BY <2>1, <2>2
  <1>7. ASSUME NEW c \in Caller, Flying(c, d)
        PROVE  MinOf(task'[c][d].age, Hold[d]) <= rest'[d]
    <2>1. MinOf(task[c][d].age, Hold[d]) <= rest[d]
      BY <1>7 DEF Spaced
    <2>2. task'[c][d].age = task[c][d].age + 1
      BY <1>6, <1>7
    <2> HIDE DEF MinOf
    <2> QED BY <1>1, <1>2, <1>5, <2>1, <2>2
  <1>8. (\A c \in Caller : ~Flying(c, d)) => age'[d] <= rest'[d]
    BY <1>1, <1>3, <1>5 DEF Spaced
  <1>9. d \notin known => age'[d] = Hold[d] /\ rest'[d] = Hold[d]
    BY <1>1, <1>4, <1>5 DEF Spaced
  <1>10. belief'[d] = belief[d] /\ known' = known
    BY DEF Passes
  <1> QED
    BY <1>6, <1>7, <1>8, <1>9, <1>10 DEF Spaced

\* Every device is managed all the time, and every proportional one is as above.
SerialWrites == managed = Device /\ CallersInv /\ \A d \in Device \ Binary : Spaced(d)

LEMMA InitWrites == Init => SerialWrites
  <1> SUFFICES ASSUME Init PROVE SerialWrites
    OBVIOUS
  <1>1. \A c \in Caller, d \in Device : ~Flying(c, d)
    BY DEF Init, NoTask, Flying
  <1>2. ASSUME NEW d \in Device PROVE Spaced(d)
    <2>1. Hold[d] <= Hold[d]
      BY DistributorAssumption
    <2> QED BY <1>1, <2>1 DEF Init, Spaced
  <1> QED
    BY <1>2, InitCallers DEF SerialWrites

LEMMA CallStepWrites ==
  ASSUME TypeOK, Alone, SerialWrites, RelaysRanked,
         "loseReply" \notin Fault, "refuse" \notin Fault, NEW c \in Caller, CallStep(c)
  PROVE  SerialWrites'
  <1>1. managed = Device /\ CallersInv /\ \A d \in Device \ Binary : Spaced(d)
    BY DEF SerialWrites
  <1>2. \A d \in Device : Still(d) => Calm(d)
    BY DEF Still, Calm, SameRelay
  <1>3. CASE StartGather(c)
    <2>1. CallersInv' /\ managed' = Device
      BY <1>1, <1>3, StartGatherCalls
    <2>2. \A d \in Device \ Binary : Still(d) \/ Writes(c, d)
      BY <1>1, <1>3, StartGatherWrites
    <2>3. \A d \in Device, e \in Caller \ {c} : ~Flying(e, d)
      BY <1>3, OthersIdle, IdleJobIs DEF StartGather
    <2> QED
      BY <1>1, <1>2, <2>1, <2>2, <2>3, CalmSpaced, WritesSpaced DEF SerialWrites
  <1>4. CASE StartRelay(c)
    <2>1. CallersInv' /\ managed' = Device
      BY <1>1, <1>4, StartRelayCalls
    <2>2. \A d \in Device \ Binary : Still(d)
      BY <1>1, <1>4, StartRelayCalls
    <2> QED
      BY <1>1, <1>2, <2>1, <2>2, CalmSpaced DEF SerialWrites
  <1>5. ASSUME NEW d0 \in Device, Land(c, d0) PROVE SerialWrites'
    <2>1. CallersInv' /\ managed' = Device /\ Flying(c, d0)
      BY <1>1, <1>5, LandDoes
    <2>2. \A d \in Device \ Binary : Still(d) \/ (d = d0 /\ Arrives(c, d))
      BY <1>1, <1>5, LandDoes
    <2>3. \A e \in Caller \ {c} : ~Flying(e, d0)
      BY <2>1, OthersIdle
    <2> QED
      BY <1>1, <1>2, <2>1, <2>2, <2>3, CalmSpaced, ArrivesSpaced DEF SerialWrites
  <1>6. ASSUME NEW d0 \in Device, Fail(c, d0) PROVE SerialWrites'
    BY <1>6 DEF Fail
  <1>7. ASSUME NEW d0 \in Device, NEW ok \in BOOLEAN, Reply(c, d0, ok)
        PROVE  SerialWrites'
    <2>1. CallersInv' /\ managed' = Device /\ Flying(c, d0)
      <3>1. Landed(c, d0) \/ Fails(c, d0)
        BY <1>1, <1>7, ReplyDoes
      <3>2. Flying(c, d0)
        BY <3>1 DEF Fails, Flying, Landed
      <3> QED BY <1>1, <1>7, <3>2, ReplyDoes
    <2>2. d0 \notin Binary => ok /\ ~task[c][d0].orphan
      <3>1. ~ok => task[c][d0].st = "failed"
        BY <1>1, <1>7, ReplyDoes
      <3> QED BY <1>1, <2>1, <3>1 DEF Spaced
    <2>3. \A d \in Device \ Binary : Still(d) \/ (d = d0 /\ Answers(c, d))
      BY <1>1, <1>7, <2>2, ReplyDoes
    <2>4. \A e \in Caller \ {c} : ~Flying(e, d0)
      BY <2>1, OthersIdle
    <2> QED
      BY <1>1, <1>2, <2>1, <2>3, <2>4, CalmSpaced, AnswersSpaced DEF SerialWrites
  <1> QED
    BY <1>3, <1>4, <1>5, <1>6, <1>7 DEF CallStep

LEMMA NextWrites ==
  ASSUME TypeOK, Alone, SerialWrites, RelaysRanked, [Next]_vars,
         "unmanage" \notin Fault, "loseReply" \notin Fault, "refuse" \notin Fault
  PROVE  SerialWrites'
  <1>1. managed = Device /\ CallersInv /\ \A d \in Device \ Binary : Spaced(d) /\ Unheard(d)
    BY DEF SerialWrites, Spaced, Unheard
  <1>2. ASSUME CallersInv', managed' = Device, \A d \in Device \ Binary : Calm(d)
        PROVE  SerialWrites'
    BY <1>1, <1>2, CalmSpaced DEF SerialWrites
  <1>3. \A d \in Device : Still(d) => Calm(d)
    BY DEF Still, Calm, SameRelay
  <1>4. ASSUME NEW c \in Caller, NEW l \in Limit, NEW en \in BOOLEAN,
               Distribute(c, l, en)
        PROVE  SerialWrites'
    BY <1>1, <1>2, <1>3, <1>4, DistributeDoes DEF Distribute
  <1>5. CASE SlackTick
    <2>1. globalLimit \in Limit \cup {100} /\ SlackLoop \in Caller
      BY DistributorAssumption DEF TypeOK
    <2> QED
      BY <1>1, <1>2, <1>3, <1>5, <2>1, DistributeDoes DEF SlackTick
  <1>6. ASSUME NEW c \in Caller, CallStep(c) PROVE SerialWrites'
    BY <1>6, CallStepWrites
  <1>7. CASE Tick
    BY <1>1, <1>7, TickDoes, PassesSpaced DEF SerialWrites
  <1>8. ASSUME NEW d \in Device, Connect(d) \/ Disconnect(d) PROVE SerialWrites'
    BY <1>1, <1>2, <1>3, <1>8, OtherDoes DEF Connect, Disconnect, state
  <1>9. ASSUME NEW d \in Device, StopDevice(d) \/ StartDevice(d) PROVE SerialWrites'
    BY <1>1, <1>9 DEF StopDevice, StartDevice
  <1>10. ASSUME NEW d0 \in Device, NEW v \in Asked(d0), Bypass(d0, v)
         PROVE  SerialWrites'
    <2>1. UNCHANGED <<managed, known, belief, age, job, task>>
      BY <1>10 DEF Bypass, state
    <2>2. rest' = rest \/ (d0 \in Binary /\ rest' = [rest EXCEPT ![d0] = 0])
      BY <1>10 DEF Bypass, Obey
    <2>3. \A d \in Device \ Binary : rest'[d] = rest[d]
      BY <2>2 DEF TypeOK
    <2>4. \A d \in Device \ Binary : Calm(d)
      BY <2>1, <2>3 DEF Calm, SameBelief, SameCall
    <2>5. CallersInv'
      BY <1>1, <2>1, CallersSame DEF Flying
    <2> QED
      BY <1>1, <1>2, <2>1, <2>4, <2>5
  <1>11. CASE Quiet
    BY <1>1, <1>2, <1>3, <1>11, OtherDoes DEF Quiet, world, place, state
  <1>12. CASE UNCHANGED vars
    BY <1>1, <1>2, <1>3, <1>12, OtherDoes DEF vars, world, place, state
  <1> QED
    BY <1>4, <1>5, <1>6, <1>7, <1>8, <1>9, <1>10, <1>11, <1>12 DEF Next

\* distributor.py 283, "respecting dead-time buffering": with no two calls under
\* way at once, two unforced writes to a proportional device are its dead time
\* apart, whatever goes offline or is switched by hand.  It takes an overlap, a
\* failed or unanswered write (neither starts a dead time) or an edit of the
\* device to make it false.
THEOREM DeadTimeIsRespectedAlone ==
  ASSUME RelaysRanked,
         "unmanage" \notin Fault, "loseReply" \notin Fault, "refuse" \notin Fault
  PROVE  Spec /\ []Alone => DeadTimeRespected
  <1> DEFINE Apart == \A c \in Caller, d \in Device \ Binary :
                        /\ StartGather(c)
                        /\ ~job[c].force
                        /\ task[c][d] = NoTask /\ task'[c][d] # NoTask
                        => rest[d] >= Hold[d]
  <1>1. Init => SerialWrites
    BY InitWrites
  <1>2. TypeOK /\ Alone /\ SerialWrites /\ [Next]_vars => SerialWrites'
    BY NextWrites
  <1>3. ASSUME TypeOK, Alone, SerialWrites PROVE Apart
    <2> SUFFICES ASSUME NEW c \in Caller, NEW d \in Device \ Binary, StartGather(c),
                        ~job[c].force, task[c][d] = NoTask, task'[c][d] # NoTask
                 PROVE  rest[d] >= Hold[d]
      OBVIOUS
    <2>1. CallersInv /\ Spaced(d)
      BY <1>3 DEF SerialWrites
    <2>2. age[d] >= Hold[d]
      BY <1>3, <2>1, StartGatherWrites
    <2>3. \A e \in Caller : ~Flying(e, d)
      <3>1. ~Flying(c, d)
        BY DEF Flying, NoTask
      <3>2. job[c] # IdleJob
        BY IdleJobIs DEF StartGather
      <3> QED BY <1>3, <3>1, <3>2, OthersIdle
    <2>4. age[d] <= rest[d]
      BY <2>1, <2>3 DEF Spaced
    <2>5. age[d] \in Nat /\ rest[d] \in Nat /\ Hold[d] \in Nat
      BY <1>3, DistributorAssumption DEF TypeOK
    <2> QED BY <2>2, <2>4, <2>5
  <1>4. TypeOK /\ Alone /\ SerialWrites => [Apart]_vars
    BY <1>3
  <1> QED
    BY <1>1, <1>2, <1>4, TypeCorrect, PTL DEF Spec, DeadTimeRespected

\* While limiting is off, a device that is not at full power yet is waiting for
\* the release, or the release for it, and nothing else is on its way to it.
Freed(d) ==
    ~enabled =>
      /\ actual[d] = Full \/ \E c \in Caller : \/ d \in job[c].gather
                                               \/ task[c][d].st = "sent"
      /\ \A c \in Caller :
            /\ Flying(c, d) => task[c][d].val = Full
            /\ d \notin job[c].off \cup job[c].on
            /\ d \in job[c].gather =>
                  d \in known /\ job[c].force /\ job[c].goal[d] = Full

\* Neither the device nor what is on its way to it changes.
Undisturbed(d) ==
    /\ enabled' = enabled /\ actual'[d] = actual[d] /\ (d \in known => d \in known')
    /\ \A c \in Caller :
         /\ task'[c][d].st = task[c][d].st /\ task'[c][d].val = task[c][d].val
         /\ d \in job'[c].gather <=> d \in job[c].gather
         /\ d \in job'[c].off \cup job'[c].on => d \in job[c].off \cup job[c].on
         /\ d \in job[c].gather => job'[c].force = job[c].force /\ job'[c].goal = job[c].goal

LEMMA UndisturbedFreed ==
  ASSUME NEW d \in Eligible, Freed(d), Undisturbed(d)
  PROVE  Freed(d)'
  BY DEF Freed, Undisturbed, Flying

LEMMA DistributeFrees ==
  ASSUME TypeOK, Alone', managed = Device, conn = Device, NEW c \in Caller,
         NEW l \in Limit \cup {100}, NEW en \in BOOLEAN, DistributeAs(c, l, en),
         NEW d \in Eligible
  PROVE  Freed(d)'
  <1>1. enabled' = en /\ known' = Device /\ d \in Device /\ job \in [Caller -> Job]
    BY DistributorAssumption DEF DistributeAs, Sync, TypeOK
  <1>2. CASE ~en
    <2>1. d \in ReleaseJob.gather /\ ReleaseJob.force /\ ReleaseJob.goal[d] = Full
          /\ ReleaseJob.off = {} /\ ReleaseJob.on = {}
      BY <1>1 DEF ReleaseJob
    <2>2. job' = [job EXCEPT ![c] = Settle(ReleaseJob, {})]
      BY <1>2 DEF DistributeAs
    <2>3. Settle(ReleaseJob, {}) = ReleaseJob
      BY <2>1 DEF Settle
    <2>4. job'[c] = ReleaseJob
      BY <1>1, <2>2, <2>3
    <2>5. ~Idle(c)'
      BY <2>1, <2>4, IdleJobIs DEF Idle
    <2>6. \A e \in Caller \ {c} : job'[e] = IdleJob /\ ~Flying(e, d)'
      BY <1>1, <2>5 DEF Alone, Idle, InFlight, Flying
    <2>7. ~Flying(c, d)'
      <3>1. task[c][d].st = "none"
        BY <1>1 DEF DistributeAs, Idle, InFlight
      <3>2. task'[c][d] = task[c][d]
        BY <1>1, <3>1 DEF DistributeAs, Sync
      <3> QED BY <3>1, <3>2 DEF Flying
    <2>8. IdleJob.gather = {} /\ IdleJob.off = {} /\ IdleJob.on = {}
      BY DEF IdleJob
    <2> QED
      BY <1>1, <2>1, <2>4, <2>6, <2>7, <2>8 DEF Freed
  <1>3. CASE en
    BY <1>1, <1>3 DEF Freed
  <1> QED
    BY <1>2, <1>3

\* A relay the release leaves out, because it is believed to be on, is on.
LEMMA StartGatherFrees ==
  ASSUME TypeOK, Alone, CallersInv, NEW c \in Caller, StartGather(c),
         NEW d \in Eligible, d \in Binary => Faithful(d), Freed(d)
  PROVE  Freed(d)'
  <1> DEFINE j == job[c]
             left == [j EXCEPT !.gather = {}]
  <1>1. d \in Device /\ j \in Job /\ InFlight(c) = {} /\ j # IdleJob
    BY StartGatherCalls, IdleJobIs, DistributorAssumption DEF StartGather
  <1>2. \A e \in Caller : ~Flying(e, d)
    BY <1>1, OthersIdle DEF InFlight, Flying
  <1>3. UNCHANGED <<enabled, actual, known>>
    BY DEF StartGather, world, place
  <1>4. /\ \A e \in Caller \ {c} : job'[e] = job[e] /\ task'[e][d] = task[e][d]
        /\ task'[c][d] = IF d \in Issued(c) THEN Sent(j.goal[d]) ELSE task[c][d]
    BY <1>1, StartGatherCalls
  <1>5. /\ job'[c].gather = {}
        /\ job'[c].off \subseteq j.off /\ job'[c].on \subseteq j.on
    <2>1. left.gather = {} /\ left.off = j.off /\ left.on = j.on
      BY <1>1 DEF Job
    <2>2. IdleJob.gather = {} /\ IdleJob.off = {} /\ IdleJob.on = {}
      BY DEF IdleJob
    <2>3. job' = [job EXCEPT ![c] = Settle(left, Issued(c))]
      BY DEF StartGather, Issued, Called
    <2> HIDE DEF left
    <2>4. job'[c] = left \/ job'[c] = IdleJob
      BY <2>3, SettleIs DEF TypeOK
    <2> QED
      BY <2>1, <2>2, <2>4
  <1>6. CASE enabled
    BY <1>3, <1>6 DEF Freed
  <1>7. CASE ~enabled /\ d \notin j.gather
    <2>1. task'[c][d] = task[c][d]
      BY <1>4, <1>7 DEF Issued, Called
    <2>2. \A e \in Caller : d \in job'[e].gather <=> d \in job[e].gather
      BY <1>4, <1>5, <1>7
    <2>3. Undisturbed(d)
      BY <1>3, <1>4, <1>5, <1>7, <2>1, <2>2 DEF Undisturbed
    <2> QED
      BY <2>3, UndisturbedFreed
  <1>8. CASE ~enabled /\ d \in j.gather
    <2>1. d \in known /\ j.force /\ j.goal[d] = Full
      BY <1>8 DEF Freed
    <2>2. d \in Issued(c) \/ (d \in Binary /\ belief[d] = Full)
      BY <1>8, <2>1 DEF Issued, Called, MaySend, Suppressed
    <2>3. CASE d \in Issued(c)
      <3>1. task'[c][d].st = "sent" /\ task'[c][d].val = Full
        BY <1>4, <2>1, <2>3 DEF Sent
      <3> QED
        BY <1>2, <1>3, <1>4, <1>5, <1>8, <3>1 DEF Freed, Flying
    <2>4. CASE d \notin Issued(c) /\ d \in Binary /\ belief[d] = Full
      <3>1. actual'[d] = Full
        BY <1>2, <1>3, <2>4 DEF Faithful
      <3>2. \A e \in Caller : ~Flying(e, d)'
        BY <1>2, <1>4, <2>4 DEF Flying
      <3> QED
        BY <1>3, <1>4, <1>5, <1>8, <3>1, <3>2 DEF Freed
    <2> QED
      BY <2>2, <2>3, <2>4
  <1> QED
    BY <1>6, <1>7, <1>8

\* While limiting is off no loop has a relay to switch.
LEMMA StartRelayFrees ==
  ASSUME TypeOK, CallersInv, NEW c \in Caller, StartRelay(c),
         \A d \in Eligible : Freed(d)
  PROVE  \A d \in Eligible : Freed(d)'
  <1>1. enabled' = enabled
    BY DEF StartRelay
  <1>2. enabled
    <2>1. job[c] \in Job
      BY DEF TypeOK
    <2>2. job[c].off \cup job[c].on # {}
      BY DEF StartRelay, Running, CallersInv, Occupied
    <2>3. job[c].off \cup job[c].on \subseteq Eligible
      BY <2>1 DEF Job
    <2> QED
      BY <2>2, <2>3 DEF Freed
  <1> QED
    BY <1>1, <1>2 DEF Freed

LEMMA LandFrees ==
  ASSUME TypeOK, Alone, CallersInv, NEW c \in Caller, NEW d0 \in Device, Land(c, d0),
         \A d \in Eligible : Effect(d, Full) = Full, NEW d \in Eligible, Freed(d)
  PROVE  Freed(d)'
  <1>1. d \in Device /\ UNCHANGED <<enabled, known, job>> /\ Flying(c, d0)
    BY LandDoes, DistributorAssumption DEF Land, state
  <1>2. CASE d # d0
    <2>1. Still(d)
      BY <1>1, <1>2, LandDoes
    <2> QED
      BY <1>1, <2>1, UndisturbedFreed DEF Undisturbed, Still, SameRelay, SameCall
  <1>3. CASE d = d0 /\ ~enabled
    <2>1. task[c][d] \in Task /\ task[c][d].val = Full /\ actual \in [Device -> Pct]
      BY <1>1, <1>3, TaskOK DEF Freed, TypeOK
    <2>2. actual'[d] = Full
      <3>1. actual' = [actual EXCEPT ![d] = Effect(d, task[c][d].val)]
        BY <1>3 DEF Land, Obey
      <3> QED
        BY <1>1, <2>1, <3>1
    <2>3. task'[c][d].val = Full
      <3>1. task'[c][d] = [task[c][d] EXCEPT !.st = "landed"]
        BY <1>1, <1>3, LandDoes DEF Lands, Arrives
      <3> QED
        BY <2>1, <3>1 DEF Task
    <2>4. \A e \in Caller \ {c} : ~Flying(e, d)'
      <3>1. \A e \in Caller \ {c} : ~Flying(e, d0)
        BY <1>1, OthersIdle
      <3>2. Lands(c, d0) \/ Arrives(c, d0)
        BY LandDoes
      <3>3. \A e \in Caller \ {c} : task'[e][d0] = task[e][d0]
        BY <3>1, <3>2 DEF Lands, Arrives, SameCall
      <3>4. \A e \in Caller \ {c} : ~Flying(e, d0)'
        BY <3>1, <3>3 DEF Flying
      <3> QED
        BY <1>3, <3>4
    <2> QED
      BY <1>1, <1>3, <2>2, <2>3, <2>4 DEF Freed
  <1>4. CASE enabled
    BY <1>1, <1>4 DEF Freed
  <1> QED
    BY <1>2, <1>3, <1>4

LEMMA ReplyFrees ==
  ASSUME TypeOK, CallersInv, NEW c \in Caller, NEW d0 \in Device, NEW ok \in BOOLEAN,
         Reply(c, d0, ok), NEW d \in Eligible, Freed(d)
  PROVE  Freed(d)'
  <1>1. d \in Device /\ UNCHANGED <<enabled, known, actual>>
        /\ task[c][d0].st \in {"landed", "failed"}
    BY DistributorAssumption DEF Reply, place
  <1>2. task' = [task EXCEPT ![c][d0] = NoTask] /\ NoTask.st = "none"
    BY DEF Reply, NoTask
  <1>3. task'[c][d0].st = "none"
        /\ \A e \in Caller : e # c \/ d # d0 => task'[e][d] = task[e][d]
    BY <1>1, <1>2 DEF TypeOK
  <1>4. job[c].gather = {}
    BY <1>1 DEF CallersInv, InFlight
  <1>5. /\ \A e \in Caller \ {c} : job'[e] = job[e]
        /\ job'[c] = job[c] \/ job'[c] = IdleJob
    <2>1. job' = [job EXCEPT ![c] = Settle(job[c], InFlight(c) \ {d0})]
      BY DEF Reply
    <2> QED
      BY <2>1, SettleIs DEF TypeOK
  <1>6. IdleJob.gather = {} /\ IdleJob.off = {} /\ IdleJob.on = {}
    BY DEF IdleJob
  <1>7. \A e \in Caller : /\ d \in job'[e].gather <=> d \in job[e].gather
                          /\ d \in job'[e].off \cup job'[e].on => d \in job[e].off \cup job[e].on
                          /\ d \in job[e].gather => job'[e] = job[e]
    BY <1>4, <1>5, <1>6
  <1>8. \A e \in Caller : task'[e][d].st = "sent" <=> task[e][d].st = "sent"
    BY <1>1, <1>3
  <1>9. \A e \in Caller : Flying(e, d)' => Flying(e, d) /\ task'[e][d] = task[e][d]
    BY <1>3 DEF Flying
  <1> QED
    BY <1>1, <1>7, <1>8, <1>9 DEF Freed

LEMMA TickFrees ==
  ASSUME TypeOK, CallersInv, Tick, NEW d \in Eligible, Freed(d)
  PROVE  Freed(d)'
  <1>1. d \in Device /\ UNCHANGED <<enabled, known, actual, job>>
    BY DistributorAssumption DEF Tick, place
  <1>2. Passes(d)
    BY <1>1, TickDoes
  <1>3. ASSUME NEW c \in Caller
        PROVE  task'[c][d].st = task[c][d].st /\ task'[c][d].val = task[c][d].val
    <2>1. task[c][d] \in Task
      BY <1>1, TaskOK
    <2>2. CASE Flying(c, d)
      BY <1>2, <2>1, <2>2 DEF Passes, Task
    <2>3. CASE ~Flying(c, d)
      BY <1>2, <2>3 DEF Passes
    <2> QED BY <2>2, <2>3
  <1> QED
    BY <1>1, <1>3, UndisturbedFreed DEF Undisturbed

LEMMA NextFrees ==
  ASSUME TypeOK, Alone, Alone', Serial, conn = Device, \A d \in Eligible : Freed(d),
         [Next]_vars, Fault = {}, \A d \in Eligible : Effect(d, Full) = Full
  PROVE  conn' = Device /\ \A d \in Eligible : Freed(d)'
  <1>1. managed = Device /\ CallersInv /\ \A d \in Binary : Faithful(d)
    BY DEF Serial
  <1>2. ASSUME UNCHANGED <<enabled, conn, actual, known, job, task>>
        PROVE  conn' = Device /\ \A d \in Eligible : Freed(d)'
    BY <1>2, UndisturbedFreed DEF Undisturbed
  <1>3. ASSUME NEW c \in Caller, NEW l \in Limit, NEW en \in BOOLEAN,
               Distribute(c, l, en)
        PROVE  conn' = Device /\ \A d \in Eligible : Freed(d)'
    <2>1. conn' = Device /\ DistributeAs(c, l, en)
      BY <1>3 DEF Distribute, DistributeAs, world, place
    <2> QED
      BY <1>1, <2>1, DistributeFrees
  <1>4. CASE SlackTick
    <2>1. globalLimit \in Limit \cup {100} /\ SlackLoop \in Caller
      BY DistributorAssumption DEF TypeOK
    <2>2. conn' = Device /\ DistributeAs(SlackLoop, globalLimit, TRUE)
      BY <1>4 DEF SlackTick, DistributeAs, world, place
    <2> QED
      BY <1>1, <2>1, <2>2, DistributeFrees
  <1>5. ASSUME NEW c \in Caller, CallStep(c)
        PROVE  conn' = Device /\ \A d \in Eligible : Freed(d)'
    <2>1. conn' = Device
      BY <1>5 DEF CallStep, StartGather, StartRelay, Land, Fail, Reply, world, place
    <2>2. CASE StartGather(c)
      BY <1>1, <2>1, <2>2, StartGatherFrees
    <2>3. CASE StartRelay(c)
      BY <1>1, <2>1, <2>3, StartRelayFrees
    <2>4. ASSUME NEW d0 \in Device, Land(c, d0) PROVE \A d \in Eligible : Freed(d)'
      BY <1>1, <2>4, LandFrees
    <2>5. ASSUME NEW d0 \in Device, Fail(c, d0) PROVE FALSE
      BY <2>5 DEF Fail
    <2>6. ASSUME NEW d0 \in Device, NEW ok \in BOOLEAN, Reply(c, d0, ok)
          PROVE  \A d \in Eligible : Freed(d)'
      BY <1>1, <2>6, ReplyFrees
    <2> QED
      BY <1>5, <2>1, <2>2, <2>3, <2>4, <2>5, <2>6 DEF CallStep
  <1>6. CASE Tick
    <2>1. conn' = conn
      BY <1>6 DEF Tick, place
    <2> QED
      BY <1>1, <1>6, <2>1, TickFrees
  <1>7. ASSUME NEW d \in Device,
               \/ Connect(d) \/ Disconnect(d) \/ StopDevice(d) \/ StartDevice(d)
               \/ \E v \in Asked(d) : Bypass(d, v)
        PROVE  FALSE
    BY <1>1, <1>7 DEF Connect, Disconnect, StopDevice, StartDevice, Bypass
  <1>8. CASE Quiet
    BY <1>2, <1>8 DEF Quiet, world, place, state
  <1>9. CASE UNCHANGED vars
    BY <1>2, <1>9 DEF vars, world, place, state
  <1> QED
    BY <1>3, <1>4, <1>5, <1>6, <1>7, <1>8, <1>9 DEF Next

\* distributor.py 109, "Disable: force-send 100% to all devices": with no two calls
\* under way at once and nothing failing, a release that is over has left no
\* device throttled.  The run distributor_release shows that two calls that
\* overlap are enough to break it.
THEOREM ReleaseReachesAllAlone ==
  ASSUME Fault = {},
         \A d \in Binary : PluginHold[d] = 0,
         \A d \in Eligible : Effect(d, Full) = Full
  PROVE  Spec /\ []Alone => []ReleasedWhenQuiet
  <1> DEFINE Frees == conn = Device /\ \A d \in Eligible : Freed(d)
  <1>1. Init => Serial
    BY InitSerial
  <1>2. Init => Frees
    <2> SUFFICES ASSUME Init, NEW d \in Eligible PROVE conn = Device /\ Freed(d)
      BY DEF Init
    <2>1. d \in Device /\ actual[d] = Full
      BY DistributorAssumption DEF Init
    <2>2. \A c \in Caller : ~Flying(c, d)
      BY <2>1 DEF Init, NoTask, Flying
    <2>3. \A c \in Caller : job[c].gather = {} /\ job[c].off = {} /\ job[c].on = {}
      BY DEF Init, IdleJob
    <2> QED
      BY <2>1, <2>2, <2>3 DEF Freed, Init
  <1>3. TypeOK /\ Alone /\ Serial /\ [Next]_vars => Serial'
    BY NextSerial
  <1>4. TypeOK /\ Alone /\ Alone' /\ Serial /\ Frees /\ [Next]_vars => Frees'
    BY NextFrees
  <1>5. Frees => ReleasedWhenQuiet
    <2> SUFFICES ASSUME Frees, ~enabled, \A c \in Caller : Idle(c), NEW d \in Eligible
                 PROVE  actual[d] = Full
      BY DEF ReleasedWhenQuiet
    <2>1. \A c \in Caller : job[c].gather = {} /\ task[c][d].st = "none"
      BY IdleJobIs, DistributorAssumption DEF Idle, InFlight
    <2> QED
      BY <2>1 DEF Freed
  <1> QED
    BY <1>1, <1>2, <1>3, <1>4, <1>5, TypeCorrect, PTL DEF Spec
=============================================================================
