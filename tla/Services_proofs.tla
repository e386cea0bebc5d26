--------------------------- MODULE Services_proofs ---------------------------
(***************************************************************************)
(* The six machines of Services keep their types and their invariants, for *)
(* every value of the constants.  Each has an inductive invariant of its   *)
(* own; a step of Services is a step or a stutter of each of them.         *)
(***************************************************************************)
EXTENDS Services, Sequences, Sums

-----------------------------------------------------------------------------
(***************************************************************************)
(* The verdict of the health check is right, for any number of answers     *)
(* required and any times.  The invariant behind it: while the checker     *)
(* goes on, the answers it has counted are the probes in a row that met a  *)
(* working service.                                                        *)
(***************************************************************************)

Counted == check # "judged" => ok = served

\* What is known at the moment of a verdict, and stays.
HealthIInv ==
    /\ service \in HC!Services
    /\ served \in Nat
    /\ check \in {"head", "asleep", "judged"}
    /\ Counted
    /\ HC!VerdictIsRight

\* The document of a service passes exactly if its cache is fresh and a device
\* polled.
LEMMA OkMeansWorking ==
    ASSUME NEW s \in HC!Services, s.web = "up"
    PROVE  HC!IsRequiredOk(HC!Payload(s)) <=> s.cache = "fresh" /\ s.polled
<1>1. s.cache \in {"none", "stale", "fresh"} /\ s.polled \in BOOLEAN
  BY DEF HC!Services
<1>2. CASE s.polled /\ s.cache = "fresh"
  BY <1>2 DEF HC!IsRequiredOk, HC!Payload
<1>3. CASE s.cache # "fresh"
  BY <1>1, <1>3 DEF HC!IsRequiredOk, HC!Payload
<1>4. CASE ~s.polled
  BY <1>1, <1>4 DEF HC!IsRequiredOk, HC!Payload
<1> QED BY <1>2, <1>3, <1>4

LEMMA InitHealth == ASSUME HC!HealthConstants PROVE HC!Init => HealthIInv
<1> SUFFICES ASSUME HC!Init PROVE HealthIInv
  OBVIOUS
<1>1. service \in HC!Services
  BY DEF HC!Init, HC!Services
<1> QED BY <1>1 DEF HC!Init, HealthIInv, Counted, HC!VerdictIsRight, HC!HealthConstants

LEMMA HeadIInv == ASSUME HC!HealthConstants, HealthIInv, HC!Head PROVE HealthIInv'
<1>1. service' = service /\ served' = served /\ flag' = flag /\ ok' = ok /\ ok = served
  BY DEF HC!Head, HealthIInv, Counted
<1>2. CASE check' = "judged"
  <2>1. CASE ok >= Required /\ flag /\ HC!Judge("stable_ok")
    BY <1>1, <2>1 DEF HealthIInv, HC!Judge, Counted, HC!VerdictIsRight
  <2>2. CASE ~(ok >= Required /\ flag) /\ HC!Judge(IF flag THEN "timeout" ELSE "no_healthy_flag")
    <3>1. verdict' # "stable_ok" /\ check' = "judged"
      BY <2>2 DEF HC!Judge
    <3> QED BY <1>1, <2>2, <3>1 DEF HealthIInv, Counted, HC!VerdictIsRight
  <2> QED BY <1>2, <2>1, <2>2 DEF HC!Head
<1>3. CASE check' = "asleep"
  BY <1>1, <1>3 DEF HealthIInv, Counted, HC!VerdictIsRight
<1> QED BY <1>2, <1>3 DEF HC!Head, HC!Judge

LEMMA ProbeIInv == ASSUME HC!HealthConstants, HealthIInv, HC!Probe PROVE HealthIInv'
<1> DEFINE Works == HC!Works(service)
<1>1. /\ service' = service /\ flag' = flag /\ service \in HC!Services
      /\ served \in Nat /\ ok = served /\ Required \in Nat \ {0}
  BY DEF HC!Probe, HealthIInv, Counted, HC!HealthConstants
<1>2. served' = IF Works THEN served + 1 ELSE 0
  BY DEF HC!Probe
<1>3. served' \in Nat
  BY <1>1, <1>2
<1>4. CASE check' = "judged" /\ verdict' # "stable_ok" /\ ~Works
  <2>1. served' = 0
    BY <1>2, <1>4
  <2> QED BY <1>1, <1>4, <2>1 DEF HealthIInv, Counted, HC!VerdictIsRight
<1>5. CASE check' = "head" /\ ok' = served'
  BY <1>1, <1>3, <1>5 DEF HealthIInv, Counted, HC!VerdictIsRight
<1>6. CASE service.web = "failed" /\ HC!Judge("systemctl_failed")
  BY <1>4, <1>6 DEF HC!Judge, HC!Works
<1>7. CASE service.web \in {"silent", "error"} /\ HC!Degraded
  <2>1. ok' = 0 /\ served' = 0 /\ ~Works
    BY <1>2, <1>7 DEF HC!Degraded, HC!Works
  <2> QED BY <1>4, <1>5, <1>7, <2>1 DEF HC!Degraded, HC!Judge
<1>8. CASE service.web = "garbled" /\ HC!Garbled
  BY <1>2, <1>5, <1>8 DEF HC!Garbled, HC!Works
<1>9. CASE service.web = "up" /\ HC!Answered
  <2>1. CASE AsksVersion /\ ~service.same
    BY <1>4, <1>9, <2>1 DEF HC!Answered, HC!Judge, HC!Works
  <2>2. CASE ~(AsksVersion /\ ~service.same)
    <3>1. HC!IsRequiredOk(HC!Payload(service)) <=> Works
      BY <1>1, <1>9, <2>2, OkMeansWorking DEF HC!Works
    <3>2. ok' = (IF HC!IsRequiredOk(HC!Payload(service)) THEN ok + 1 ELSE 0) /\ check' = "head"
      BY <1>9, <2>2 DEF HC!Answered
    <3>3. ok' = served'
      BY <1>1, <1>2, <3>1, <3>2
    <3> QED BY <1>5, <3>2, <3>3
  <2> QED BY <1>9, <2>1, <2>2
<1> QED BY <1>6, <1>7, <1>8, <1>9 DEF HC!Probe

LEMMA StepHealth == ASSUME HC!HealthConstants PROVE HealthIInv /\ [HC!Next]_hc => HealthIInv'
<1> SUFFICES ASSUME HealthIInv, [HC!Next]_hc PROVE HealthIInv'
  OBVIOUS
<1>1. CASE HC!Head
  BY <1>1, HeadIInv
<1>2. CASE HC!Probe
  BY <1>2, ProbeIInv
<1>3. CASE HC!ServiceChanges
  BY <1>3 DEF HC!ServiceChanges, HealthIInv, Counted, HC!VerdictIsRight
<1>4. CASE UNCHANGED hc
  BY <1>4 DEF hc, HealthIInv, Counted, HC!VerdictIsRight
<1> QED BY <1>1, <1>2, <1>3, <1>4 DEF HC!Next, HC!Step

-----------------------------------------------------------------------------
(***************************************************************************)
(* The cached release is always the one the ETag stands for, for any set   *)
(* of tags, if every answer has its ETag: the invariant is inductive as it *)
(* stands.                                                                 *)
(***************************************************************************)

LEMMA InitTag == UC!Init => UC!TagMatchesCache
  BY DEF UC!Init, UC!TagMatchesCache, UC!Release

\* What is kept of an answer is kept together, on disk if it gets there.
LEMMA KeepMatches ==
    ASSUME ~Untagged, UC!TagMatchesCache, NEW release, release = UC!Release(github),
           \E tag \in UC!NewTag : UC!Keep(tag, release)
    PROVE  UC!TagMatchesCache'
<1>1. UC!Keep(github, release)
  BY DEF UC!NewTag
<1>2. cached' = UC!Release(etag)'
  BY <1>1 DEF UC!Keep, UC!Release
<1>3. file' = file \/ file' = [etag |-> github, release |-> release]
  BY <1>1 DEF UC!Keep
<1>4. CASE file' = file
  BY <1>2, <1>4 DEF UC!TagMatchesCache, UC!Release
<1>5. CASE file' = [etag |-> github, release |-> release]
  BY <1>2, <1>5 DEF UC!TagMatchesCache, UC!Release
<1> QED BY <1>3, <1>4, <1>5

LEMMA StepTag == UC!TagMatchesCache /\ [UC!Next]_uc => UC!TagMatchesCache'
<1> SUFFICES ASSUME ~Untagged, UC!TagMatchesCache, [UC!Next]_uc PROVE UC!TagMatchesCache'
  BY DEF UC!TagMatchesCache
<1>1. CASE UNCHANGED <<etag, cached, file>>
  BY <1>1 DEF UC!TagMatchesCache, UC!Release
<1>2. CASE UC!Boot
  BY <1>2 DEF UC!Boot, UC!TagMatchesCache, UC!Release
<1>3. CASE UC!Answered
  <2>1. CASE UC!AnswerPrerelease
    <3>1. None = UC!Release(github)
      BY <2>1 DEF UC!AnswerPrerelease, UC!Release
    <3> QED BY <2>1, <3>1, KeepMatches DEF UC!AnswerPrerelease
  <2>2. CASE UC!AnswerRelease
    <3>1. github.tag = UC!Release(github)
      BY <2>2 DEF UC!AnswerRelease, UC!Release
    <3> QED BY <2>2, <3>1, KeepMatches DEF UC!AnswerRelease
  <2>3. CASE UC!AnswerNotModified
    BY <2>3, <1>1 DEF UC!AnswerNotModified
  <2> QED BY <1>3, <2>1, <2>2, <2>3 DEF UC!Answered
<1>4. CASE UC!Failed
  BY <1>4, <1>1 DEF UC!Failed, UC!AnswerNothing
<1>5. CASE UC!Publish \/ UC!PageOpensOrCloses \/ UC!Ends \/ UC!Ask \/ UNCHANGED uc
  BY <1>5, <1>1 DEF UC!Publish, UC!PageOpensOrCloses, UC!Ends, UC!Ask, uc
<1> QED BY <1>2, <1>3, <1>4, <1>5 DEF UC!Next

-----------------------------------------------------------------------------
(***************************************************************************)
(* A message is left out only if the broker has it, for any keys, queue    *)
(* and readings and any number of faults: what is remembered as sent       *)
(* belongs to one connection, and is forgotten before the next one.        *)
(***************************************************************************)

Sent == DOMAIN last = Keys /\ DOMAIN retained = Keys

\* A publisher that connects remembers nothing.
Forgotten == publisher = "connecting" => last = MQ!Nothing

MqttIInv == Sent /\ Forgotten /\ MQ!SkipIsRight

LEMMA InitMqtt == MQ!Init => MqttIInv
  BY DEF MQ!Init, MqttIInv, Sent, Forgotten, MQ!SkipIsRight, MQ!Nothing

\* What is remembered was sent, or was sent already.
LEMMA PublishIInv == ASSUME MqttIInv, NEW k \in Keys, MQ!Publish(k) PROVE MqttIInv'
<1>1. /\ last' = [last EXCEPT ![k] = pending[k]]
      /\ \/ last[k] = pending[k] /\ retained' = retained
         \/ retained' = IF link = "up" THEN [retained EXCEPT ![k] = pending[k]] ELSE retained
      /\ link' = link /\ publisher' # "connecting" /\ pending[k] # None
  BY DEF MQ!Publish, MQ!SkipOrSend
<1>2. Sent'
  BY <1>1 DEF MqttIInv, Sent
<1>3. ASSUME link = "up", NEW j \in Keys PROVE last'[j] \in {None, retained'[j]}
  <2>1. last[j] \in {None, retained[j]}
    BY <1>3 DEF MqttIInv, MQ!SkipIsRight
  <2>2. CASE j # k
    <3>1. last'[j] = last[j] /\ retained'[j] = retained[j]
      BY <1>1, <2>2 DEF MqttIInv, Sent
    <3> QED BY <2>1, <3>1
  <2>3. CASE j = k
    <3>1. last'[j] = pending[k]
      BY <1>1, <2>3 DEF MqttIInv, Sent
    <3>2. CASE retained' = [retained EXCEPT ![k] = pending[k]]
      BY <2>3, <3>1, <3>2 DEF MqttIInv, Sent
    <3>3. CASE last[k] = pending[k] /\ retained' = retained
      BY <1>1, <2>1, <2>3, <3>1, <3>3
    <3> QED BY <1>1, <1>3, <3>2, <3>3
  <2> QED BY <2>2, <2>3
<1> QED BY <1>1, <1>2, <1>3 DEF MqttIInv, Forgotten, MQ!SkipIsRight

LEMMA StepMqtt == MqttIInv /\ [MQ!Next]_mq => MqttIInv'
<1> SUFFICES ASSUME MqttIInv, [MQ!Next]_mq PROVE MqttIInv'
  OBVIOUS
<1> USE DEF MqttIInv, Sent, Forgotten, MQ!SkipIsRight
<1>1. CASE UNCHANGED <<publisher, link, last, retained>>
  BY <1>1
<1>2. CASE MQ!Connect
  <2>1. \A k \in Keys : last'[k] = None
    BY <1>2 DEF MQ!Connect, MQ!Nothing
  <2> QED BY <1>2, <2>1 DEF MQ!Connect
<1>3. CASE MQ!BeginPublish
  BY <1>3 DEF MQ!BeginPublish
<1>4. CASE MQ!Send
  BY <1>4, PublishIInv DEF MQ!Send
<1>5. CASE MQ!Notice
  BY <1>5 DEF MQ!Notice, MQ!Forget, MQ!Nothing
<1>6. CASE MQ!Breaks
  BY <1>6 DEF MQ!Breaks
<1>7. CASE MQ!BrokerRestarts
  <2>1. link' # "up" /\ publisher' = publisher /\ last' = last /\ retained' = MQ!Nothing
    BY <1>7 DEF MQ!BrokerRestarts
  <2> QED BY <2>1 DEF MQ!Nothing
<1>8. CASE MQ!Reload
  BY <1>8 DEF MQ!Reload, MQ!Forget, MQ!Nothing
<1>9. CASE MQ!Drain \/ MQ!ClientsChange \/ UNCHANGED mq
  BY <1>1, <1>9 DEF MQ!Drain, MQ!ClientsChange, mq
<1>10. ASSUME NEW k \in Keys, MQ!NewReading(k) \/ MQ!Broadcast(k)
       PROVE  MqttIInv'
  BY <1>1, <1>10 DEF MQ!NewReading, MQ!Broadcast
<1>11. ASSUME NEW p \in Pollers, MQ!HoldTotal(p) \/ MQ!QueueTotal(p)
       PROVE  MqttIInv'
  BY <1>1, <1>11 DEF MQ!HoldTotal, MQ!QueueTotal
<1> QED BY <1>2, <1>3, <1>4, <1>5, <1>6, <1>7, <1>8, <1>9, <1>10, <1>11 DEF MQ!Next

-----------------------------------------------------------------------------
(***************************************************************************)
(* A total that is not that of the readings is not served for longer than  *)
(* the cache lives, for any devices, readings, width and lifetime.  The    *)
(* inductive invariant says why: the total is never behind for longer than *)
(* the cache is old, for whatever makes the cache young makes it right.    *)
(***************************************************************************)

Times == age \in 0..AG!Old /\ behind \in 0..AG!Old /\ unheard \in 0..AG!Old

\* The cache is as old as the last poll that succeeded, or older; the total has
\* been behind for as long as the cache is old at most.
Young == behind <= age /\ unheard <= age

TotalIInv == Times /\ Young

LEMMA InitTotal == ASSUME AG!AggregationConstants PROVE AG!Init => TotalIInv
  BY DEF AG!Init, TotalIInv, Times, Young, AG!Old, AG!AggregationConstants

LEMMA LaterTypes ==
    ASSUME AG!AggregationConstants, NEW s \in 0..AG!Old, NEW t \in 0..AG!Old, s <= t
    PROVE  AG!Later(s) \in 0..AG!Old /\ AG!Later(t) \in 0..AG!Old /\ AG!Later(s) <= AG!Later(t)
  BY DEF AG!Later, AG!Old, AG!AggregationConstants

\* A change that leaves the cache alone can only end that it is behind.
LEMMA CompareKeeps ==
    ASSUME AG!AggregationConstants, TotalIInv, AG!Compare, UNCHANGED <<age, unheard>>
    PROVE  TotalIInv'
<1>1. behind' = 0 \/ behind' = behind
  BY DEF AG!Compare
<1> QED BY <1>1 DEF TotalIInv, Times, Young, AG!Old, AG!AggregationConstants

LEMMA StepTotal == ASSUME AG!AggregationConstants PROVE TotalIInv /\ [AG!Next]_ag => TotalIInv'
<1> SUFFICES ASSUME TotalIInv, [AG!Next]_ag PROVE TotalIInv'
  OBVIOUS
<1>1. ASSUME NEW d \in Devices, NEW r \in 0..MaxReading \union {Empty}, AG!PollSucceeds(d, r)
      PROVE  TotalIInv'
  <2>1. CASE AG!Active' = {}
    <3>1. age' = age /\ unheard' = 0 /\ AG!Compare
      BY <1>1, <2>1 DEF AG!PollSucceeds, AG!Recalculate
    <3>2. behind' = 0 \/ behind' = behind
      BY <3>1 DEF AG!Compare
    <3> QED BY <3>1, <3>2 DEF TotalIInv, Times, Young, AG!Old, AG!AggregationConstants
  <2>2. CASE AG!Active' # {}
    <3>1. age' = 0 /\ unheard' = 0 /\ total' = AG!Sum' /\ AG!Compare
      BY <1>1, <2>2 DEF AG!PollSucceeds, AG!Recalculate
    <3>2. behind' = 0
      BY <3>1 DEF AG!Compare
    <3> QED BY <3>1, <3>2 DEF TotalIInv, Times, Young, AG!Old, AG!AggregationConstants
  <2> QED BY <2>1, <2>2
<1>2. ASSUME NEW d \in Devices, NEW r \in 0..MaxReading \union {Empty},
             AG!PollRaises(d, r) \/ AG!Start(d) \/ AG!Stop(d) \/ AG!Flag(d)
      PROVE  TotalIInv'
  BY <1>2, CompareKeeps DEF AG!PollRaises, AG!Start, AG!Stop, AG!Flag
<1>3. CASE AG!Tick
  <2>1. age' = AG!Later(age) /\ unheard' = AG!Later(unheard)
    BY <1>3 DEF AG!Tick
  <2>2. behind' = 0 \/ behind' = AG!Later(behind)
    BY <1>3 DEF AG!Tick
  <2>3. age \in 0..AG!Old /\ behind \in 0..AG!Old /\ unheard \in 0..AG!Old
        /\ behind <= age /\ unheard <= age
    BY DEF TotalIInv, Times, Young
  <2>4. /\ AG!Later(behind) \in 0..AG!Old /\ AG!Later(age) \in 0..AG!Old /\ AG!Later(unheard) \in 0..AG!Old
        /\ AG!Later(behind) <= AG!Later(age) /\ AG!Later(unheard) <= AG!Later(age)
    BY <2>3, LaterTypes
  <2>5. AG!Old' = AG!Old
    BY DEF AG!Old
  <2> QED BY <2>1, <2>2, <2>4, <2>5 DEF TotalIInv, Times, Young, AG!Old, AG!AggregationConstants
<1>4. CASE UNCHANGED ag
  BY <1>4 DEF ag, TotalIInv, Times, Young, AG!Old
<1> QED BY <1>1, <1>2, <1>3, <1>4 DEF AG!Next

-----------------------------------------------------------------------------
(***************************************************************************)
(* The connection of a device.  What StateFollowsDevice bounds is not      *)
(* inductive: the invariant bounds the time for which a device has been as *)
(* it is together with the sleep that is left, by the number of failed     *)
(* polls while it counts as connected and by the time since the first of   *)
(* them afterwards.                                                        *)
(***************************************************************************)

\* The time that n + 1 polls of a connected device take.
Polls(n) == (n + 1) * PollInterval

\* A device is asleep for one interval at most while it is connected, and that
\* it is until a poll has failed.
Sleeps ==
    /\ conn = "connected" => wait <= PollInterval
    /\ since = None => conn = "connected"

Answering == ~paused /\ answers /\ conn # "connected" => steady + wait <= MaxBackoff

Connected ==
    ~paused /\ ~answers /\ conn = "connected"
        => steady + wait <= Polls(CM!Least(fails, Failures - 1))

Failing ==
    ~paused /\ ~answers /\ conn # "night" =>
        /\ since = None => steady + wait <= PollInterval
        /\ since # None =>
              /\ since <= NightThreshold => steady <= since + PollInterval
              /\ steady + wait <= NightThreshold + PollInterval + MaxBackoff

DeviceIInv == CM!TypeOK /\ Sleeps /\ Answering /\ Connected /\ Failing

LEMMA PollsFacts ==
    ASSUME CM!ConnectionConstants
    PROVE  /\ \A n \in Nat : Polls(n) \in Nat /\ Polls(n + 1) = Polls(n) + PollInterval
                             /\ Polls(n) >= PollInterval
           /\ \A m, n \in Nat : m <= n => Polls(m) <= Polls(n)
           /\ Polls(Failures - 1) = Failures * PollInterval
<1>1. PollInterval \in Nat /\ Failures \in Nat \ {0}
  BY DEF CM!ConnectionConstants
<1>2. ASSUME NEW n \in Nat
      PROVE  n * PollInterval \in Nat /\ (n + 1) * PollInterval = n * PollInterval + PollInterval
  BY <1>1
<1>3. ASSUME NEW n \in Nat
      PROVE  /\ Polls(n) \in Nat /\ Polls(n + 1) = Polls(n) + PollInterval
             /\ Polls(n) >= PollInterval
  <2>1. n + 1 \in Nat
    OBVIOUS
  <2> QED BY <1>1, <1>2, <2>1 DEF Polls
<1>4. ASSUME NEW m \in Nat, NEW n \in Nat, m <= n PROVE Polls(m) <= Polls(n)
  <2> DEFINE k == n - m
  <2>1. k \in Nat /\ n + 1 = (m + 1) + k
    BY <1>4
  <2>2. (n + 1) * PollInterval = (m + 1) * PollInterval + k * PollInterval
    BY <1>1, <2>1
  <2>3. k * PollInterval \in Nat /\ (m + 1) * PollInterval \in Nat
    BY <1>1, <1>2, <2>1
  <2> QED BY <2>2, <2>3 DEF Polls
<1>5. Polls(Failures - 1) = Failures * PollInterval
  <2>1. (Failures - 1) + 1 = Failures
    BY <1>1
  <2> QED BY <2>1 DEF Polls
<1> QED BY <1>3, <1>4, <1>5

LEMMA InitDevice == ASSUME CM!ConnectionConstants PROVE CM!Init => DeviceIInv
<1> SUFFICES ASSUME CM!Init PROVE DeviceIInv
  OBVIOUS
<1> USE DEF CM!Init, CM!ConnectionConstants
<1>1. CM!TypeOK
  <2>1. CM!Bound + 1 \in Nat
    BY DEF CM!Bound
  <2>2. 0 \in 0..CM!Bound + 1 /\ 0 \in 0..MaxBackoff /\ 0 \in 0..Failures
        /\ InitialBackoff \in InitialBackoff..MaxBackoff
    BY <2>1
  <2> QED BY <2>2 DEF CM!TypeOK
<1>2. CM!Least(fails, Failures - 1) \in Nat
  BY DEF CM!Least
<1>3. 0 <= Polls(CM!Least(fails, Failures - 1))
  BY <1>2, PollsFacts
<1> QED BY <1>1, <1>3 DEF DeviceIInv, Sleeps, Answering, Connected, Failing

\* The types, and that the clocks only move by one.
LEMMA DeviceTypes ==
    ASSUME CM!ConnectionConstants, CM!TypeOK, [CM!Next]_cm
    PROVE  CM!TypeOK'
<1> USE DEF CM!TypeOK, CM!ConnectionConstants
<1>1. CM!Bound \in Nat /\ CM!Bound' = CM!Bound
  BY DEF CM!Bound
<1>2. CASE CM!DeviceChanges
  BY <1>1, <1>2 DEF CM!DeviceChanges
<1>3. CASE CM!PauseChanges
  BY <1>1, <1>3 DEF CM!PauseChanges
<1>4. CASE CM!Restart
  BY <1>1, <1>4 DEF CM!Restart
<1>5. CASE CM!Tick
  BY <1>1, <1>5 DEF CM!Tick, CM!Least
<1>6. CASE CM!PollPaused
  BY <1>1, <1>6 DEF CM!PollPaused, CM!Due
<1>7. CASE CM!PollSucceeds
  BY <1>1, <1>7 DEF CM!PollSucceeds, CM!Due, CM!OnPollSuccess, CM!Sleep
<1>8. CASE CM!PollRaises
  BY <1>1, <1>8 DEF CM!PollRaises, CM!Due, CM!Sleep
<1>9. CASE CM!PollFails
  <2> DEFINE n == CM!Least(fails + 1, Failures)
             elapsed == IF since = None THEN 0 ELSE since
  <2>1. n \in 0..Failures /\ elapsed \in 0..NightThreshold + 1
    BY DEF CM!Least
  <2>2. /\ fails' = n /\ since' = elapsed /\ conn' = CM!AfterFailure(n, elapsed)
        /\ backoff' = IF conn' = "connected" THEN backoff ELSE CM!Least(2 * backoff, MaxBackoff)
        /\ wait' = IF conn' = "connected" THEN PollInterval ELSE backoff'
        /\ UNCHANGED <<answers, paused, steady>>
    BY <1>9 DEF CM!PollFails, CM!Due, CM!OnPollFailure, CM!Sleep
  <2> HIDE DEF n, elapsed
  <2>3. conn' \in {"connected", "reconnecting", "night"}
    BY <2>2 DEF CM!AfterFailure
  <2>4. backoff' \in InitialBackoff..MaxBackoff
    BY <2>2 DEF CM!Least
  <2>5. wait' \in 0..MaxBackoff
    BY <2>2, <2>4
  <2> QED BY <1>1, <2>1, <2>2, <2>3, <2>4, <2>5
<1>10. CASE UNCHANGED cm
  BY <1>1, <1>10 DEF cm
<1> QED BY <1>2, <1>3, <1>4, <1>5, <1>6, <1>7, <1>8, <1>9, <1>10 DEF CM!Next

\* A poll that fails.
LEMMA FailureDevice ==
    ASSUME CM!ConnectionConstants, DeviceIInv, CM!PollFails, CM!TypeOK'
    PROVE  DeviceIInv'
<1> DEFINE n == CM!Least(fails + 1, Failures)
           elapsed == IF since = None THEN 0 ELSE since
<1>1. /\ fails' = n /\ since' = elapsed /\ conn' = CM!AfterFailure(n, elapsed)
      /\ wait' = IF conn' = "connected" THEN PollInterval ELSE backoff'
      /\ wait = 0 /\ ~paused /\ ~answers
      /\ UNCHANGED <<answers, paused, steady>>
  BY DEF CM!PollFails, CM!Due, CM!OnPollFailure, CM!Sleep
<1>2. /\ PollInterval \in Nat \ {0} /\ MaxBackoff \in Nat \ {0} /\ NightThreshold \in Nat \ {0}
      /\ Failures \in Nat \ {0} /\ fails \in 0..Failures /\ n \in 0..Failures
      /\ elapsed \in 0..NightThreshold + 1 /\ steady \in Nat
      /\ backoff' <= MaxBackoff /\ backoff' \in Nat /\ None \notin Nat
      /\ PollInterval <= MaxBackoff
  BY DEF DeviceIInv, CM!TypeOK, CM!ConnectionConstants, CM!Least, CM!Bound
<1> HIDE DEF elapsed, n
<1>3. Sleeps'
  BY <1>1, <1>2 DEF Sleeps
<1>4. Answering'
  BY <1>1 DEF Answering
<1>5. Connected'
  <2> SUFFICES ASSUME conn' = "connected"
               PROVE  (steady + PollInterval <= Polls(CM!Least(n, Failures - 1)))
    BY <1>1 DEF Connected, Polls, CM!Least
  <2>1. conn = "connected" /\ n < Failures
    BY <1>1, <1>2 DEF CM!AfterFailure
  <2>2. n = fails + 1 /\ CM!Least(n, Failures - 1) = fails + 1
        /\ CM!Least(fails, Failures - 1) = fails
    BY <1>2, <2>1 DEF n, CM!Least
  <2>3. steady <= Polls(fails)
    BY <1>1, <1>2, <2>1, <2>2 DEF DeviceIInv, Connected
  <2>4. fails \in Nat
    BY <1>2
  <2>5. Polls(fails) \in Nat /\ Polls(fails + 1) = Polls(fails) + PollInterval
    BY <2>4, PollsFacts
  <2> QED BY <1>2, <2>2, <2>3, <2>5
<1>6. Failing'
  <2> DEFINE w == wait'
  <2>1. w <= MaxBackoff /\ w \in Nat
    BY <1>1, <1>2
  <2> HIDE DEF w
  <2>2. ASSUME conn' # "night"
        PROVE  /\ elapsed <= NightThreshold => steady <= elapsed + PollInterval
               /\ steady + w <= NightThreshold + PollInterval + MaxBackoff
    <3>1. conn # "night" /\ elapsed <= NightThreshold
      BY <1>1, <1>2, <2>2 DEF CM!AfterFailure
    <3>2. CASE since = None
      <4>1. elapsed = 0 /\ steady <= PollInterval
        BY <1>1, <1>2, <3>1, <3>2 DEF elapsed, DeviceIInv, Failing
      <4> QED BY <1>2, <2>1, <4>1
    <3>3. CASE since # None
      <4>1. elapsed = since /\ steady <= since + PollInterval
        BY <1>1, <1>2, <3>1, <3>3 DEF elapsed, DeviceIInv, Failing
      <4> QED BY <1>2, <2>1, <3>1, <4>1
    <3> QED BY <3>2, <3>3
  <2>3. elapsed # None
    BY <1>2
  <2> QED BY <1>1, <2>2, <2>3 DEF w, Failing
<1> QED BY <1>3, <1>4, <1>5, <1>6 DEF DeviceIInv

LEMMA StepDevice == ASSUME CM!ConnectionConstants PROVE DeviceIInv /\ [CM!Next]_cm => DeviceIInv'
<1> SUFFICES ASSUME DeviceIInv, [CM!Next]_cm PROVE DeviceIInv'
  OBVIOUS
<1>1. CM!TypeOK /\ CM!TypeOK'
  BY DeviceTypes DEF DeviceIInv
<1>2. /\ {PollInterval, MaxBackoff, NightThreshold, Failures} \subseteq Nat \ {0}
      /\ PollInterval <= MaxBackoff /\ None \notin Nat
      /\ wait \in 0..MaxBackoff /\ steady \in Nat /\ fails \in 0..Failures
      /\ since \in 0..NightThreshold + 1 \union {None}
  BY <1>1 DEF CM!TypeOK, CM!ConnectionConstants, CM!Bound
<1>3. ASSUME NEW k \in 0..Failures
      PROVE  /\ Polls(CM!Least(k, Failures - 1)) \in Nat
             /\ Polls(CM!Least(k, Failures - 1)) >= PollInterval
  <2>1. CM!Least(k, Failures - 1) \in Nat
    BY <1>2 DEF CM!Least
  <2> QED BY <2>1, PollsFacts
<1> USE DEF DeviceIInv, Sleeps, Answering, Connected, Failing
<1>4. CASE CM!DeviceChanges
  BY <1>1, <1>2, <1>3, <1>4 DEF CM!DeviceChanges, Polls, CM!Least
<1>5. CASE CM!PauseChanges
  BY <1>1, <1>2, <1>3, <1>5 DEF CM!PauseChanges, Polls, CM!Least
<1>6. CASE CM!Restart
  BY <1>1, <1>2, <1>3, <1>6 DEF CM!Restart, Polls, CM!Least
<1>7. CASE CM!Tick
  BY <1>1, <1>2, <1>3, <1>7 DEF CM!Tick, Polls, CM!Least
<1>8. CASE CM!PollPaused
  BY <1>1, <1>2, <1>3, <1>8 DEF CM!PollPaused, CM!Due, Polls, CM!Least
<1>9. CASE CM!PollSucceeds
  BY <1>1, <1>2, <1>3, <1>9 DEF CM!PollSucceeds, CM!Due, CM!OnPollSuccess, CM!Sleep, Polls, CM!Least
<1>10. CASE CM!PollRaises
  BY <1>1, <1>2, <1>3, <1>10 DEF CM!PollRaises, CM!Due, CM!Sleep, Polls, CM!Least
<1>11. CASE CM!PollFails
  BY <1>1, <1>11, FailureDevice
<1>12. CASE UNCHANGED cm
  BY <1>1, <1>12 DEF cm, Polls, CM!Least
<1> QED BY <1>4, <1>5, <1>6, <1>7, <1>8, <1>9, <1>10, <1>11, <1>12 DEF CM!Next

-----------------------------------------------------------------------------
(***************************************************************************)
(* The types of the machines.                                              *)
(***************************************************************************)

LEMMA HealthTypes ==
    ASSUME HC!HealthConstants
    PROVE  (HC!Init => HC!TypeOK) /\ (HC!TypeOK /\ [HC!Next]_hc => HC!TypeOK')
<1> USE DEF HC!HealthConstants, HC!TypeOK, HC!Reasons
<1>1. ASSUME HC!Init PROVE HC!TypeOK
  <2>1. service \in HC!Services
    BY <1>1 DEF HC!Init, HC!Services
  <2>2. /\ service = [web |-> "silent", same |-> FALSE, cache |-> "none", polled |-> FALSE] /\ flag = FALSE
        /\ check = "head" /\ clock = 0 /\ now = 0 /\ ok = 0 /\ served = 0
        /\ degradedAt = None /\ verdict = None
    BY <1>1 DEF HC!Init
  <2>3. degradedAt \in Nat \cup {None} /\ verdict \in HC!Reasons \cup {None}
    BY <2>2
  <2> HIDE DEF HC!Reasons
  <2> QED BY <2>1, <2>2, <2>3
<1>2. ASSUME HC!TypeOK, HC!Head PROVE HC!TypeOK'
  BY <1>2 DEF HC!Head, HC!Judge
<1>3. ASSUME HC!TypeOK, HC!Probe PROVE HC!TypeOK'
  <2>1. /\ service' = service /\ flag' = flag /\ now' = now
        /\ clock' \in Nat /\ served' \in Nat
    BY <1>3 DEF HC!Probe
  <2>2. CASE service.web = "failed" /\ HC!Judge("systemctl_failed") /\ UNCHANGED <<ok, degradedAt>>
    BY <1>3, <2>1, <2>2 DEF HC!Judge
  <2>3. CASE HC!Degraded
    BY <1>3, <2>1, <2>3 DEF HC!Degraded, HC!Judge
  <2>4. CASE HC!Garbled
    BY <1>3, <2>1, <2>4 DEF HC!Garbled
  <2>5. CASE HC!Answered
    BY <1>3, <2>1, <2>5 DEF HC!Answered, HC!Judge
  <2> QED BY <1>3, <2>2, <2>3, <2>4, <2>5 DEF HC!Probe
<1>4. ASSUME HC!TypeOK, HC!ServiceChanges \/ UNCHANGED hc PROVE HC!TypeOK'
  BY <1>4 DEF HC!ServiceChanges, hc
<1> QED BY <1>1, <1>2, <1>3, <1>4 DEF HC!Next, HC!Step

LEMMA CheckTypes == (UC!Init => UC!TypeOK) /\ (UC!TypeOK /\ [UC!Next]_uc => UC!TypeOK')
<1> USE DEF UC!TypeOK, UC!Content
<1>1. UC!Init => UC!TypeOK
  <2>1. [etag |-> None, release |-> None]
            \in [etag : UC!Content \cup {None}, release : Tags \cup {Odd, None}]
    OBVIOUS
  <2> QED BY <2>1 DEF UC!Init
<1>2. ASSUME UC!TypeOK, [UC!Next]_uc PROVE UC!TypeOK'
  <2> USE <1>2
  <2>1. CASE UC!Publish \/ UC!PageOpensOrCloses \/ UC!Ends \/ UC!Ask \/ UNCHANGED uc
    BY <2>1 DEF UC!Publish, UC!PageOpensOrCloses, UC!Ends, UC!Ask, uc
  <2>2. CASE UC!Boot
    BY <2>2 DEF UC!Boot
  <2>3. ASSUME NEW r \in Tags \cup {Odd, None}, UC!OnUpdate(r)
        PROVE  offered' \in Tags \cup {Odd, None}
    BY <2>3 DEF UC!OnUpdate
  <2>4. ASSUME NEW tag \in UC!Content \cup {None}, NEW r \in Tags \cup {Odd, None}, UC!Keep(tag, r)
        PROVE  /\ etag' \in UC!Content \cup {None} /\ cached' \in Tags \cup {Odd, None}
               /\ file' \in [etag : UC!Content \cup {None}, release : Tags \cup {Odd, None}]
    BY <2>4 DEF UC!Keep
  <2>5. CASE UC!Answered
    <3>1. github' = github /\ page' = page /\ version' = version /\ checker' = "asleep"
      BY <2>5 DEF UC!Answered
    <3>2. UC!NewTag \subseteq UC!Content \cup {None}
      BY DEF UC!NewTag
    <3>3. CASE UC!AnswerPrerelease
      BY <2>3, <2>4, <3>1, <3>2, <3>3 DEF UC!AnswerPrerelease
    <3>4. CASE UC!AnswerRelease
      <4>1. github.tag \in Tags \cup {Odd, None}
        BY <3>4 DEF UC!AnswerRelease
      <4> QED BY <2>3, <2>4, <3>1, <3>2, <3>4, <4>1 DEF UC!AnswerRelease
    <3>5. CASE UC!AnswerNotModified
      BY <2>3, <3>1, <3>5 DEF UC!AnswerNotModified
    <3> QED BY <2>5, <3>3, <3>4, <3>5 DEF UC!Answered
  <2>6. CASE UC!Failed
    BY <2>3, <2>6 DEF UC!Failed, UC!AnswerNothing
  <2> QED BY <2>1, <2>2, <2>5, <2>6 DEF UC!Next
<1> QED BY <1>1, <1>2

LEMMA VenusTypes == (VR!Init => VR!TypeOK) /\ (VR!TypeOK /\ [VR!Next]_vr => VR!TypeOK')
<1> USE DEF VR!TypeOK
<1>1. VR!Init => VR!TypeOK
  BY DEF VR!Init
<1>2. ASSUME VR!TypeOK, [VR!Next]_vr PROVE VR!TypeOK'
  <2> USE <1>2
  <2>1. CASE VR!LanDown \/ VR!LanUp \/ VR!BrokerDrops \/ VR!VebusChanges \/ VR!VebusAges
    BY <2>1 DEF VR!LanDown, VR!LanUp, VR!BrokerDrops, VR!VebusChanges, VR!VebusAges
  <2>2. CASE VR!Discover \/ VR!DiscoverFails \/ VR!Connect \/ VR!ConnectFails
    BY <2>2 DEF VR!Discover, VR!DiscoverFails, VR!Connect, VR!ConnectFails
  <2>3. CASE VR!Receive \/ VR!ReceiveRaises
    BY <2>3 DEF VR!Receive, VR!ReceiveRaises, VR!Packet
  <2>4. CASE VR!Timeout \/ VR!Closed \/ VR!GivesUp
    BY <2>4 DEF VR!Timeout, VR!Closed, VR!GivesUp, VR!Leave
  <2>5. CASE UNCHANGED vr
    BY <2>5 DEF vr
  <2> QED BY <2>1, <2>2, <2>3, <2>4, <2>5 DEF VR!Next
<1> QED BY <1>1, <1>2

\* Of finitely many positions one is the last: by induction on the length.
LEMMA LastPlace ==
    ASSUME NEW n \in Nat, NEW S \in SUBSET (1..n), S # {}
    PROVE  MQ!Max(S) \in S
<1> DEFINE HasLast(T) == T # {} => \E x \in T : \A y \in T : x >= y
           N == {m \in Nat : \A T \in SUBSET (1..m) : HasLast(T)}
<1>1. 0 \in N
  <2>1. \A T \in SUBSET (1..0) : T = {}
    OBVIOUS
  <2> QED BY <2>1
<1>2. ASSUME NEW m \in Nat, m \in N PROVE m + 1 \in N
  <2>1. ASSUME NEW T \in SUBSET (1..m + 1) PROVE HasLast(T)
    <3>1. CASE m + 1 \in T
      BY <3>1
    <3>2. CASE m + 1 \notin T
      <4>1. T \in SUBSET (1..m)
        BY <3>2
      <4> QED BY <1>2, <4>1
    <3> QED BY <3>1, <3>2
  <2> QED BY <2>1
<1>3. Nat \subseteq N
  <2> HIDE DEF N
  <2> QED BY <1>1, <1>2, SetInduction
<1>4. \E x \in S : \A y \in S : x >= y
  BY <1>3
<1> QED BY <1>4 DEF MQ!Max

LEMMA MqttTypes ==
    ASSUME MQ!MqttConstants
    PROVE  (MQ!Init => MQ!TypeOK) /\ (MQ!TypeOK /\ [MQ!Next]_mq => MQ!TypeOK')
<1> USE DEF MQ!MqttConstants, MQ!TypeOK, MQ!Nothing
<1>0. <<>> \in Seq(MQ!Message) /\ Len(<<>>) <= QueueSize
  OBVIOUS
<1>1. ASSUME MQ!Init PROVE MQ!TypeOK
  <2>1. queue \in Seq(MQ!Message) /\ Len(queue) <= QueueSize
    BY <1>0, <1>1 DEF MQ!Init
  <2>2. 0 \in MQ!Reading /\ 0 \in 0..MaxFaults
    BY DEF MQ!Reading
  <2> QED BY <1>1, <2>1, <2>2 DEF MQ!Init
<1>2. ASSUME MQ!TypeOK, [MQ!Next]_mq PROVE MQ!TypeOK'
  <2> USE <1>2
  <2>1. ASSUME NEW k \in Keys, MQ!NewReading(k) PROVE MQ!TypeOK'
    <3>1. reading[k] + 1 \in MQ!Reading
      BY <2>1 DEF MQ!NewReading, MQ!Reading
    <3> QED BY <2>1, <3>1 DEF MQ!NewReading
  <2>9. ASSUME NEW k \in Keys, NEW n \in MQ!Reading, MQ!Offer(k, n)
        PROVE  queue' \in Seq(MQ!Message) /\ Len(queue') <= QueueSize
    <3>1. [key |-> k, reading |-> n] \in MQ!Message
      BY DEF MQ!Message
    <3> QED BY <2>9, <3>1 DEF MQ!Offer
  <2>2. ASSUME NEW k \in Keys, MQ!Broadcast(k) PROVE MQ!TypeOK'
    <3>1. reading[k] \in MQ!Reading
      OBVIOUS
    <3> QED BY <2>2, <2>9, <3>1 DEF MQ!Broadcast
  <2>10. ASSUME NEW p \in Pollers, MQ!HoldTotal(p) PROVE MQ!TypeOK'
    BY <2>10 DEF MQ!HoldTotal
  <2>11. ASSUME NEW p \in Pollers, MQ!QueueTotal(p) PROVE MQ!TypeOK'
    <3>1. held[p] \in MQ!Reading
      BY <2>11 DEF MQ!QueueTotal
    <3> QED BY <2>9, <2>11, <3>1 DEF MQ!QueueTotal
  <2>3. CASE MQ!Drain
    <3>1. ASSUME NEW k \in Keys, MQ!Places(k) # {}
          PROVE  queue[MQ!Max(MQ!Places(k))].reading \in MQ!Reading
      <4>1. Len(queue) \in Nat /\ MQ!Places(k) \in SUBSET (1..Len(queue))
        BY DEF MQ!Places
      <4>2. MQ!Max(MQ!Places(k)) \in 1..Len(queue)
        BY <3>1, <4>1, LastPlace
      <4>3. queue[MQ!Max(MQ!Places(k))] \in MQ!Message
        BY <4>2
      <4> QED BY <4>3 DEF MQ!Message
    <3>2. pending' \in [Keys -> MQ!Reading \cup {None}]
      BY <2>3, <3>1 DEF MQ!Drain
    <3> QED BY <2>3, <3>2 DEF MQ!Drain
  <2>4. CASE MQ!Connect \/ MQ!BeginPublish \/ MQ!ClientsChange
    BY <2>4 DEF MQ!Connect, MQ!BeginPublish, MQ!ClientsChange
  <2>5. ASSUME NEW k \in Keys, MQ!Publish(k) PROVE MQ!TypeOK'
    BY <2>5 DEF MQ!Publish, MQ!SkipOrSend
  <2>6. CASE MQ!Notice \/ MQ!Reload
    <3>1. queue' \in Seq(MQ!Message) /\ Len(queue') <= QueueSize
      BY <1>0, <2>6 DEF MQ!Notice, MQ!Reload
    <3>2. faults' \in 0..MaxFaults
      BY <2>6 DEF MQ!Notice, MQ!Reload
    <3> QED BY <2>6, <3>1, <3>2 DEF MQ!Notice, MQ!Reload, MQ!Forget
  <2>7. CASE MQ!Breaks \/ MQ!BrokerRestarts
    BY <2>7 DEF MQ!Breaks, MQ!BrokerRestarts
  <2>8. CASE UNCHANGED mq
    BY <2>8 DEF mq
  <2> QED BY <2>1, <2>2, <2>3, <2>4, <2>5, <2>6, <2>7, <2>8, <2>10, <2>11 DEF MQ!Next, MQ!Send
<1> QED BY <1>1, <1>2

\* What a sum of readings leaves in a register.
LEMMA TotalFits ==
    ASSUME AG!AggregationConstants, NEW f, NEW S \in SUBSET Devices, \A d \in S : f[d] \in Nat
    PROVE  SumFunctionOnSet(f, S) % Width \in 0..Width - 1
<1>1. IsFiniteSet(Devices)
  BY DEF AG!AggregationConstants, AG!IsFiniteSet, IsFiniteSet
<1>0. IsFiniteSet(S)
  BY <1>1, FS_Subset
<1>2. SumFunctionOnSet(f, S) \in Nat
  BY <1>0, SumType
<1> QED BY <1>2 DEF AG!AggregationConstants

LEMMA TotalTypes ==
    ASSUME AG!AggregationConstants
    PROVE  (AG!Init => AG!TypeOK) /\ (AG!TypeOK /\ [AG!Next]_ag => AG!TypeOK')
<1>1. /\ MaxReading \in Nat /\ StaleTimeout \in Nat /\ Width \in Nat \ {0}
      /\ AG!Old \in Nat /\ AG!Old' = AG!Old /\ {Empty, None} \intersect Nat = {}
  BY DEF AG!AggregationConstants, AG!Old
<1>2. AG!Init => AG!TypeOK
  BY <1>1 DEF AG!Init, AG!TypeOK
<1>3. ASSUME AG!TypeOK, [AG!Next]_ag PROVE AG!TypeOK'
  <2>1. ASSUME AG!Compare PROVE behind' \in 0..AG!Old
    BY <1>1, <1>3, <2>1 DEF AG!Compare, AG!TypeOK
  <2>2. \A t \in 0..AG!Old : AG!Later(t) \in 0..AG!Old
    BY <1>1, LaterTypes
  <2>3. ASSUME NEW d \in Devices, NEW r \in 0..MaxReading \union {Empty}, AG!PollSucceeds(d, r)
        PROVE  AG!TypeOK'
    <3>1. /\ present' = present /\ aggregate' = aggregate /\ unheard' = 0 /\ AG!Compare
          /\ sample' = [sample EXCEPT ![d] = r] /\ AG!Recalculate
      BY <2>3 DEF AG!PollSucceeds
    <3>2. sample' \in [Devices -> 0..MaxReading \union {Empty, None}]
      BY <1>3, <3>1 DEF AG!TypeOK
    <3>3. AG!Active' \in SUBSET Devices /\ \A x \in AG!Active' : sample'[x] \in Nat
      BY <1>1, <1>3, <3>1, <3>2 DEF AG!Active, AG!TypeOK
    <3>4. AG!Sum' = SumFunctionOnSet(sample', AG!Active') % Width
      BY DEF AG!Sum, AG!SumFunctionOnSet, AG!FoldFunctionOnSet, AG!MapThenFoldSet,
             SumFunctionOnSet, FoldFunctionOnSet, MapThenFoldSet
    <3>5. AG!Sum' \in 0..Width - 1
      BY <3>3, <3>4, TotalFits
    <3>6. total' \in 0..Width - 1 /\ age' \in 0..AG!Old
      BY <1>1, <1>3, <3>1, <3>5 DEF AG!Recalculate, AG!TypeOK
    <3> QED BY <1>1, <1>3, <2>1, <3>1, <3>2, <3>6 DEF AG!TypeOK
  <2>4. ASSUME NEW d \in Devices, NEW r \in 0..MaxReading \union {Empty},
               AG!PollRaises(d, r) \/ AG!Start(d) \/ AG!Stop(d) \/ AG!Flag(d)
        PROVE  AG!TypeOK'
    BY <1>1, <1>3, <2>1, <2>4 DEF AG!PollRaises, AG!Start, AG!Stop, AG!Flag, AG!TypeOK
  <2>5. CASE AG!Tick
    <3>1. behind' = 0 \/ behind' = AG!Later(behind)
      BY <2>5 DEF AG!Tick
    <3>2. {age', behind', unheard'} \subseteq 0..AG!Old
      BY <1>1, <1>3, <2>2, <2>5, <3>1 DEF AG!Tick, AG!TypeOK
    <3> QED BY <1>1, <1>3, <2>5, <3>2 DEF AG!Tick, AG!TypeOK
  <2>6. CASE UNCHANGED ag
    BY <1>1, <1>3, <2>6 DEF ag, AG!TypeOK
  <2> QED BY <1>3, <2>3, <2>4, <2>5, <2>6 DEF AG!Next
<1> QED BY <1>2, <1>3

-----------------------------------------------------------------------------
(***************************************************************************)
(* The composition.                                                        *)
(***************************************************************************)

\* A step of Services is a step or a stutter of each machine.
LEMMA Steps ==
    ASSUME [Next]_all
    PROVE  /\ [HC!Next]_hc /\ [UC!Next]_uc /\ [MQ!Next]_mq
           /\ [VR!Next]_vr /\ [CM!Next]_cm /\ [AG!Next]_ag
<1>1. CASE UNCHANGED all
  BY <1>1 DEF all
<1>2. CASE Next
  BY <1>2 DEF Next, Judged, all
<1> QED BY <1>1, <1>2

\* Every machine keeps its types, for every value of the constants (TypeOK): the
\* queue its length, the sleeps their limits, the total its register.
THEOREM TypesCorrect == Spec => []TypeOK
<1> DEFINE Types == HC!TypeOK /\ UC!TypeOK /\ MQ!TypeOK /\ VR!TypeOK /\ CM!TypeOK /\ AG!TypeOK
<1>1. Init => Types
  BY HealthTypes, CheckTypes, MqttTypes, VenusTypes, InitDevice, TotalTypes, ServicesAssumption
     DEF Init, DeviceIInv
<1>2. Types /\ [Next]_all => Types'
  BY Steps, HealthTypes, CheckTypes, MqttTypes, VenusTypes, DeviceTypes, TotalTypes,
     ServicesAssumption
<1>3. Types => TypeOK
  BY DEF TypeOK
<1> HIDE DEF Types
<1> QED BY <1>1, <1>2, <1>3, PTL DEF Spec

\* A release is kept exactly if the service deserves it, for any number of
\* answers required, any timeouts and any behaviour of the service, and whether
\* a version is expected or not, as in the runner (VerdictIsRight of HealthCheck;
\* updater_root/healthcheck.py, webapp.py).
THEOREM VerdictCorrect == Spec => []VerdictIsRight
<1>1. Init => HealthIInv
  BY InitHealth, ServicesAssumption DEF Init
<1>2. HealthIInv /\ [Next]_all => HealthIInv'
  BY Steps, StepHealth, ServicesAssumption
<1>3. HealthIInv => VerdictIsRight
  BY DEF HealthIInv, VerdictIsRight
<1> QED BY <1>1, <1>2, <1>3, PTL DEF Spec

\* "Not modified" is answered from the right release whatever GitHub published
\* in between, however often the process was restarted and the saving failed,
\* if every answer has its ETag (TagMatchesCache of UpdateCheck;
\* github_client.py).
THEOREM TagCorrect == Spec => []TagMatchesCache
<1>1. Init => UC!TagMatchesCache
  BY InitTag DEF Init
<1>2. UC!TagMatchesCache /\ [Next]_all => UC!TagMatchesCache'
  BY Steps, StepTag
<1>3. UC!TagMatchesCache => TagMatchesCache
  BY DEF TagMatchesCache
<1> QED BY <1>1, <1>2, <1>3, PTL DEF Spec

\* A message is left out only if the broker has it, however links break,
\* brokers restart and settings are saved (SkipIsRight of MqttPublisher;
\* mqtt_publisher.py).
THEOREM SkipCorrect == Spec => []SkipIsRight
<1>1. Init => MqttIInv
  BY InitMqtt DEF Init
<1>2. MqttIInv /\ [Next]_all => MqttIInv'
  BY Steps, StepMqtt
<1>3. MqttIInv => SkipIsRight
  BY DEF MqttIInv, SkipIsRight
<1> QED BY <1>1, <1>2, <1>3, PTL DEF Spec

\* What a device is taken for follows the device within a bound, for any
\* intervals, back-offs and thresholds and any history of failures, pauses and
\* restarts (StateFollowsDevice of ConnectionManager; connection.py,
\* device_registry.py).
THEOREM StateFollows == Spec => []StateFollowsDevice
<1>1. Init => DeviceIInv
  BY InitDevice, ServicesAssumption DEF Init
<1>2. DeviceIInv /\ [Next]_all => DeviceIInv'
  BY Steps, StepDevice, ServicesAssumption
<1>3. DeviceIInv => StateFollowsDevice
  <2> SUFFICES ASSUME DeviceIInv PROVE CM!StateFollowsDevice
    BY DEF StateFollowsDevice
  <2>1. CM!ConnectionConstants
    BY ServicesAssumption
  <2>2. /\ {PollInterval, MaxBackoff, NightThreshold, Failures} \subseteq Nat \ {0}
        /\ wait \in 0..MaxBackoff /\ steady \in Nat /\ fails \in 0..Failures
        /\ since \in 0..NightThreshold + 1 \union {None}
    BY <2>1 DEF DeviceIInv, CM!TypeOK, CM!ConnectionConstants, CM!Bound
  <2>3. ~paused /\ answers /\ conn # "connected" => steady <= MaxBackoff
    BY <2>2 DEF DeviceIInv, Answering
  <2>4. ~paused /\ ~answers /\ conn = "connected" => steady <= Failures * PollInterval
    <3>1. CM!Least(fails, Failures - 1) \in Nat /\ CM!Least(fails, Failures - 1) <= Failures - 1
          /\ Failures - 1 \in Nat
      BY <2>2 DEF CM!Least
    <3>2. Polls(CM!Least(fails, Failures - 1)) <= Polls(Failures - 1)
          /\ Polls(CM!Least(fails, Failures - 1)) \in Nat /\ Polls(Failures - 1) \in Nat
          /\ Polls(Failures - 1) = Failures * PollInterval
      BY <2>1, <3>1, PollsFacts
    <3> QED BY <2>2, <3>2 DEF DeviceIInv, Connected
  <2>5. ~paused /\ ~answers /\ conn # "night" => steady <= CM!Bound
    BY <2>2 DEF DeviceIInv, Failing, CM!Bound
  <2> QED BY <2>3, <2>4, <2>5 DEF CM!StateFollowsDevice
<1> QED BY <1>1, <1>2, <1>3, PTL DEF Spec

\* What Venus OS reads is the sum of the last readings, or has not been for the
\* life of the cache at most, and some poll succeeded within it, whatever is
\* added, removed, edited or polled in whatever order (WrongTotalEnds of
\* Aggregation; aggregation.py, register_cache.py, proxy.py).
THEOREM WrongTotalsEnd == Spec => []WrongTotalEnds
<1>1. Init => TotalIInv
  BY InitTotal, ServicesAssumption DEF Init
<1>2. TotalIInv /\ [Next]_all => TotalIInv'
  BY Steps, StepTotal, ServicesAssumption
<1>3. TotalIInv => WrongTotalEnds
  BY ServicesAssumption
     DEF TotalIInv, Times, Young, WrongTotalEnds, AG!WrongTotalEnds, AG!Served, AG!Old,
         AG!AggregationConstants
<1> QED BY <1>1, <1>2, <1>3, PTL DEF Spec
=============================================================================
