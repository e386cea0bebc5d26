---------------------------- MODULE HealthCheck ----------------------------
(***************************************************************************)
(* wait_for_healthy() of updater_root/healthcheck.py, with which the       *)
(* updater decides between keeping a release and going back, and what the  *)
(* new service answers to it (_derive_health_payload() of webapp.py).      *)
(*                                                                         *)
(* Time is counted in units; the checker reads its clock at the head of    *)
(* the loop, sleeps, and judges the answer by the time it read before.     *)
(***************************************************************************)
EXTENDS Naturals

CONSTANTS
    Required,        \* consecutive_ok_required
    HardTimeout,     \* hard_timeout_s
    Interval,        \* poll_interval_s
    Tolerance,       \* degraded_5xx_timeout_s
    RequestTimeout,  \* http_request_timeout_s
    AsksVersion,     \* expected_version is set; the runner passes None: FALSE
    None             \* no streak, no verdict yet

\* What the constants of the code are.
HealthConstants ==
    /\ Required \in Nat \ {0} /\ HardTimeout \in Nat /\ Interval \in Nat \ {0}
    /\ Tolerance \in Nat /\ RequestTimeout \in Nat /\ AsksVersion \in BOOLEAN
    /\ None \notin Nat

VARIABLES
    service,     \* the main service at this moment
    flag,        \* /run/pv-inverter-proxy/healthy exists
    check,       \* where the checker is: "head", "asleep", "judged"
    clock,       \* time since the check began
    now,         \* the clock at the head of the loop
    ok,          \* consecutive_ok
    degradedAt,  \* first_degraded_at
    verdict,     \* the reason of the outcome
    served       \* history: probes in a row that met a working service

vars == <<service, flag, check, clock, now, ok, degradedAt, verdict, served>>

\* What a probe may meet: a unit systemd calls failed; a service that does not
\* listen yet, answers 5xx or no JSON; one that answers, as the version that was
\* installed or as another one.
Services ==
    [web : {"failed", "silent", "error", "garbled"}, same : {FALSE}, cache : {"none"},
     polled : {FALSE}]
    \cup [web : {"up"}, same : BOOLEAN, cache : {"none", "stale", "fresh"}, polled : BOOLEAN]

Reasons == {"stable_ok", "systemctl_failed", "version_mismatch", "degraded_5xx_timeout",
            "no_healthy_flag", "timeout"}

Init ==
    /\ service = [web |-> "silent", same |-> FALSE, cache |-> "none", polled |-> FALSE] /\ flag = FALSE
    /\ check = "head" /\ clock = 0 /\ now = 0
    /\ ok = 0 /\ degradedAt = None /\ verdict = None /\ served = 0

\* The health document: starting, grace and degraded differ in wording only.
Payload(s) ==
    LET devices == {IF s.polled THEN "ok" ELSE "starting"}
        modbus == CASE s.cache = "none" -> "failed" [] s.cache = "stale" -> "degraded" [] OTHER -> "ok"
    IN  [status |-> IF modbus = "ok" /\ "ok" \in devices THEN "ok" ELSE "degraded",
         webapp |-> "ok", modbus_server |-> modbus, devices |-> devices]

IsRequiredOk(body) ==
    /\ body.status = "ok" /\ body.webapp = "ok" /\ body.modbus_server = "ok"
    /\ "ok" \in body.devices

\* The service comes up, fails and recovers as it likes.
ServiceChanges ==
    /\ check = "asleep"
    /\ service' \in Services
    /\ flag' \in BOOLEAN
    /\ UNCHANGED <<check, clock, now, ok, degradedAt, verdict, served>>

Judge(reason) == verdict' = reason /\ check' = "judged"

\* Mutant: one round more.
ExpiredLate == clock > HardTimeout

Expired == clock >= HardTimeout

\* The head of the loop, and what follows it.
Head ==
    /\ check = "head"
    /\ \/ ok >= Required /\ flag /\ Judge("stable_ok") /\ UNCHANGED <<clock, now>>
       \/ /\ ~(ok >= Required /\ flag) /\ Expired
          /\ Judge(IF flag THEN "timeout" ELSE "no_healthy_flag")
          /\ UNCHANGED <<clock, now>>
       \/ /\ ~(ok >= Required /\ flag) /\ ~Expired
          /\ check' = "asleep" /\ now' = clock /\ clock' = clock + Interval
          /\ UNCHANGED verdict
    /\ UNCHANGED <<service, flag, ok, degradedAt, served>>

\* An answer that is not one (5xx, no connection) starts or prolongs a streak.
Degraded ==
    /\ ok' = 0
    /\ degradedAt' = IF degradedAt = None THEN now ELSE degradedAt
    /\ IF degradedAt # None /\ now - degradedAt >= Tolerance
       THEN Judge("degraded_5xx_timeout")
       ELSE check' = "head" /\ UNCHANGED verdict

\* Mutant: an answer without JSON leaves the count alone.
GarbledCounts == check' = "head" /\ UNCHANGED <<ok, degradedAt, verdict>>

\* An answer without JSON resets the count and leaves the streak alone.
Garbled == ok' = 0 /\ check' = "head" /\ UNCHANGED <<degradedAt, verdict>>

\* The version of an answer is looked at only if one is expected.
Answered ==
    /\ degradedAt' = None
    /\ IF AsksVersion /\ ~service.same
       THEN Judge("version_mismatch") /\ UNCHANGED ok
       ELSE /\ ok' = IF IsRequiredOk(Payload(service)) THEN ok + 1 ELSE 0
            /\ check' = "head" /\ UNCHANGED verdict

\* What deserves to be counted: a fresh cache, a polled device, and the version
\* expected if one is.
Works(s) ==
    s.web = "up" /\ s.cache = "fresh" /\ s.polled /\ (AsksVersion => s.same)

Probe ==
    /\ check = "asleep"
    /\ \/ service.web = "failed" /\ Judge("systemctl_failed") /\ UNCHANGED <<ok, degradedAt>>
       \/ service.web \in {"silent", "error"} /\ Degraded
       \/ service.web = "garbled" /\ Garbled
       \/ service.web = "up" /\ Answered
    /\ clock' \in {clock, clock + RequestTimeout}
    /\ served' = IF Works(service) THEN served + 1 ELSE 0
    /\ UNCHANGED <<service, flag, now>>

Step == Head \/ Probe

Next == Step \/ ServiceChanges

Spec == Init /\ [][Next]_vars

\* The checker is a coroutine whose sleeps and requests end.
FairSpec == Spec /\ WF_vars(Step)

TypeOK ==
    /\ service \in Services /\ flag \in BOOLEAN
    /\ check \in {"head", "asleep", "judged"}
    /\ clock \in Nat /\ now \in Nat /\ ok \in Nat /\ served \in Nat
    /\ degradedAt \in Nat \cup {None}
    /\ verdict \in Reasons \cup {None}

\* A release is kept exactly if the last probes, as many as are required, met
\* a service with a fresh cache and a polled device, and the flag is there:
\* neither a way back from a service that works nor a success by answers that
\* only look like one, whatever order they came in.  The service must also have
\* the version expected if one is; the updater expects none (runner.py), so that
\* there the good answers of another version are counted.
VerdictIsRight ==
    check = "judged" => (verdict = "stable_ok" <=> served >= Required /\ flag)

\* The updater waits for a bounded time, whatever the service does: less than
\* one sleep and one request beyond the hard timeout.
EndsInTime == <>(check = "judged" /\ clock < HardTimeout + Interval + RequestTimeout)
=============================================================================
