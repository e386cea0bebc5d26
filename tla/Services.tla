------------------------------ MODULE Services ------------------------------
(***************************************************************************)
(* Six machines that share nothing, each explored from its own initial    *)
(* states while the others stand still.                                    *)
(***************************************************************************)
EXTENDS Naturals

CONSTANTS Required, HardTimeout, Interval, Tolerance, RequestTimeout, AsksVersion,
          Tags, Untagged, Odd, Keys, Virtual, Pollers, QueueSize, MaxReading, MaxFaults,
          PollInterval, InitialBackoff, MaxBackoff, NightThreshold, Failures,
          Devices, Width, StaleTimeout, Empty, None

VARIABLES machine,
    service, flag, check, clock, now, ok, degradedAt, verdict, served,
    github, page, checker, etag, cached, file, version, offered,
    reading, clients, held, queue, publisher, link, pending, last, retained, faults,
    lan, vebus, sock, reader, connected, seen, ess, told,
    answers, paused, conn, fails, since, backoff, wait, steady,
    present, aggregate, sample, total, age, behind, unheard

HC == INSTANCE HealthCheck
UC == INSTANCE UpdateCheck
MQ == INSTANCE MqttPublisher
VR == INSTANCE VenusReader WITH age <- seen
CM == INSTANCE ConnectionManager
AG == INSTANCE Aggregation WITH reading <- sample

ASSUME ServicesAssumption ==
    /\ HC!HealthConstants /\ UC!CheckConstants /\ MQ!MqttConstants
    /\ CM!ConnectionConstants /\ AG!AggregationConstants

hc == <<service, flag, check, clock, now, ok, degradedAt, verdict, served>>
uc == <<github, page, checker, etag, cached, file, version, offered>>
mq == <<reading, clients, held, queue, publisher, link, pending, last, retained, faults>>
vr == <<lan, vebus, sock, reader, connected, seen, ess, told>>
cm == <<answers, paused, conn, fails, since, backoff, wait, steady>>
ag == <<present, aggregate, sample, total, age, behind, unheard>>
all == <<machine, hc, uc, mq, vr, cm, ag>>

Init ==
    /\ machine \in {"health", "check", "mqtt", "venus", "device", "total"}
    /\ HC!Init /\ UC!Init /\ MQ!Init /\ VR!Init /\ CM!Init /\ AG!Init
    /\ machine # "venus" => reader = "sleeping" /\ ~connected /\ ~told

\* A verdict is the end of a health check.
Judged == check = "judged" /\ UNCHANGED all

Next ==
    /\ UNCHANGED machine
    /\ \/ machine = "health" /\ (HC!Next \/ Judged) /\ UNCHANGED <<uc, mq, vr, cm, ag>>
       \/ machine = "check" /\ UC!Next /\ UNCHANGED <<hc, mq, vr, cm, ag>>
       \/ machine = "mqtt" /\ MQ!Next /\ UNCHANGED <<hc, uc, vr, cm, ag>>
       \/ machine = "venus" /\ VR!Next /\ UNCHANGED <<hc, uc, mq, cm, ag>>
       \/ machine = "device" /\ CM!Next /\ UNCHANGED <<hc, uc, mq, vr, ag>>
       \/ machine = "total" /\ AG!Next /\ UNCHANGED <<hc, uc, mq, vr, cm>>

\* What is strongly fair in a machine of its own: as one machine runs, one
\* condition serves for three of them.
Again ==
    \/ machine = "check" /\ UC!Answered /\ UNCHANGED <<machine, hc, mq, vr, cm, ag>>
    \/ machine = "mqtt" /\ MQ!NoticeFresh /\ UNCHANGED <<machine, hc, uc, vr, cm, ag>>
    \/ machine = "venus" /\ VR!Receive /\ UNCHANGED <<machine, hc, uc, mq, cm, ag>>

\* The fairness of the machine that runs, as its module states it.
Fairness ==
    /\ WF_hc(machine = "health" /\ HC!Step)
    /\ WF_uc(machine = "check" /\ UC!Boot)
    /\ WF_uc(machine = "check" /\ UC!Ask)
    /\ WF_uc(machine = "check" /\ (UC!Answered \/ UC!Failed))
    /\ WF_mq(machine = "mqtt" /\ MQ!Connect)
    /\ WF_mq(machine = "mqtt" /\ MQ!Drain)
    /\ WF_mq(machine = "mqtt" /\ MQ!BeginPublish)
    /\ WF_mq(machine = "mqtt" /\ MQ!Send)
    /\ \A k \in Keys : SF_mq(machine = "mqtt" /\ MQ!Broadcast(k))
    /\ WF_vr(machine = "venus" /\ VR!Discover)
    /\ WF_vr(machine = "venus" /\ VR!DiscoverFails)
    /\ WF_vr(machine = "venus" /\ VR!Connect)
    /\ WF_vr(machine = "venus" /\ VR!ConnectFails)
    /\ WF_vr(machine = "venus" /\ VR!Closed)
    /\ WF_vr(machine = "venus" /\ VR!GivesUp)
    /\ WF_vr(machine = "venus" /\ VR!VebusAges)
    /\ SF_all(Again)

Spec == Init /\ [][Next]_all /\ Fairness

\* Each machine keeps its types.
TypeOK == HC!TypeOK /\ UC!TypeOK /\ MQ!TypeOK /\ VR!TypeOK /\ CM!TypeOK /\ AG!TypeOK

\* The verdict on a new release is right (HealthCheck).
VerdictIsRight == HC!VerdictIsRight

\* The health check ends in time (HealthCheck).
EndsInTime == machine = "health" => HC!EndsInTime

\* The cached release is the one of the ETag (UpdateCheck).
TagMatchesCache == UC!TagMatchesCache

\* The page offers the latest release in the end (UpdateCheck).
OfferFollows == UC!OfferFollows

\* A message is left out only if the broker has it (MqttPublisher).
SkipIsRight == MQ!SkipIsRight

\* The broker ends up with the latest readings (MqttPublisher).
BrokerCatchesUp == machine = "mqtt" => MQ!BrokerCatchesUp

\* What the page shows of Venus OS follows it (VenusReader).
PageFollows == machine = "venus" => VR!PageFollows

\* The state of a device follows the device (ConnectionManager).
StateFollowsDevice == CM!StateFollowsDevice

\* A wrong total is served for a while at most (Aggregation).
WrongTotalEnds == AG!WrongTotalEnds
=============================================================================
