------------------------- MODULE ConnectionManager -------------------------
(***************************************************************************)
(* The poll loop of one device (device_registry.py) with its               *)
(* ConnectionManager (connection.py): three failures in a row make a       *)
(* device RECONNECTING, five minutes of them NIGHT_MODE, and the sleep     *)
(* between polls doubles up to a limit.  Time is counted in ticks.         *)
(***************************************************************************)
EXTENDS Naturals

CONSTANTS PollInterval, InitialBackoff, MaxBackoff, NightThreshold,
          Failures,   \* CONSECUTIVE_FAILURES_BEFORE_RECONNECTING
          None

\* Times are positive, and the limit of the sleep is one.
ConnectionConstants ==
    /\ {PollInterval, InitialBackoff, MaxBackoff, NightThreshold, Failures} \subseteq Nat \ {0}
    /\ PollInterval <= MaxBackoff /\ InitialBackoff <= MaxBackoff
    /\ None \notin Nat

VARIABLES
    answers,   \* the device answers, and what it says can be worked on
    paused,    \* polling_paused: a scan is running
    conn,      \* _state
    fails,     \* _consecutive_failures, counted up to Failures
    since,     \* ticks since _first_failure_time, or None
    backoff,   \* _backoff
    wait,      \* what is left of the sleep before the next poll
    steady     \* ticks for which answers, paused and the task have not changed

vars == <<answers, paused, conn, fails, since, backoff, wait, steady>>

Least(a, b) == IF a < b THEN a ELSE b

\* By then a device that stopped must be in night mode: the threshold, the polls
\* that failed before it, and one full sleep after it.
Bound == NightThreshold + MaxBackoff + PollInterval + 1

Init ==
    /\ answers = TRUE /\ paused = FALSE /\ steady = 0
    /\ conn = "connected" /\ fails = 0 /\ since = None
    /\ backoff = InitialBackoff /\ wait = 0

DeviceChanges ==
    /\ answers' = ~answers /\ steady' = 0
    /\ UNCHANGED <<paused, conn, fails, since, backoff, wait>>

PauseChanges ==
    /\ paused' = ~paused /\ steady' = 0
    /\ UNCHANGED <<answers, conn, fails, since, backoff, wait>>

\* stop_device() and start_device(): a new DeviceState and a new task.
Restart ==
    /\ conn' = "connected" /\ fails' = 0 /\ since' = None
    /\ backoff' = InitialBackoff /\ wait' = 0 /\ steady' = 0
    /\ UNCHANGED <<answers, paused>>

Tick ==
    /\ wait > 0 /\ wait' = wait - 1
    /\ since' = IF since = None THEN None ELSE Least(since + 1, NightThreshold + 1)
    /\ steady' = Least(steady + 1, Bound + 1)
    /\ UNCHANGED <<answers, paused, conn, fails, backoff>>

\* sleep_duration in the state after the poll.
Sleep == wait' = IF conn' = "connected" THEN PollInterval ELSE backoff'

OnPollSuccess ==
    /\ conn' = "connected" /\ fails' = 0 /\ since' = None /\ backoff' = InitialBackoff

\* The state of a failed poll, from the failures and the time before it.
AfterFailure(n, elapsed) ==
    IF elapsed > NightThreshold THEN "night"
    ELSE IF conn = "connected" /\ n >= Failures THEN "reconnecting" ELSE conn

\* Mutant: the time is counted from the failure before.
OnPollFailureFromLast ==
    LET n == Least(fails + 1, Failures)
        elapsed == IF since = None THEN 0 ELSE since
    IN /\ fails' = n /\ since' = 0
       /\ conn' = AfterFailure(n, elapsed)
       /\ backoff' = IF conn' = "connected" THEN backoff ELSE Least(2 * backoff, MaxBackoff)

OnPollFailure ==
    LET n == Least(fails + 1, Failures)
        elapsed == IF since = None THEN 0 ELSE since
    IN /\ fails' = n /\ since' = elapsed
       /\ conn' = AfterFailure(n, elapsed)
       /\ backoff' = IF conn' = "connected" THEN backoff ELSE Least(2 * backoff, MaxBackoff)

Due == wait = 0 /\ UNCHANGED <<answers, paused, steady>>

PollPaused ==
    /\ Due /\ paused /\ wait' = PollInterval
    /\ UNCHANGED <<conn, fails, since, backoff>>

PollSucceeds == Due /\ ~paused /\ answers /\ OnPollSuccess /\ Sleep

\* The poll succeeds and what follows it raises: the success is taken note of
\* first, then one failure.
PollRaises ==
    /\ Due /\ ~paused /\ answers
    /\ conn' = "connected" /\ fails' = 1 /\ since' = 0 /\ backoff' = InitialBackoff
    /\ Sleep

PollFails == Due /\ ~paused /\ ~answers /\ OnPollFailure /\ Sleep

Next ==
    \/ DeviceChanges \/ PauseChanges \/ Restart \/ Tick
    \/ PollPaused \/ PollSucceeds \/ PollRaises \/ PollFails

Spec == Init /\ [][Next]_vars

TypeOK ==
    /\ answers \in BOOLEAN /\ paused \in BOOLEAN
    /\ conn \in {"connected", "reconnecting", "night"}
    /\ fails \in 0..Failures
    /\ since \in 0..NightThreshold + 1 \union {None}
    /\ backoff \in InitialBackoff..MaxBackoff
    /\ wait \in 0..MaxBackoff
    /\ steady \in 0..Bound + 1

\* What the distributor and the page take a device for follows the device in
\* bounded time, over pauses, restarts of the task and any history of failures:
\* one that answers is connected after the longest sleep, one that does not is
\* out of the distribution after a few polls and in night mode within Bound.
StateFollowsDevice ==
    ~paused =>
        /\ answers /\ conn # "connected" => steady <= MaxBackoff
        /\ ~answers /\ conn = "connected" => steady <= Failures * PollInterval
        /\ ~answers /\ conn # "night" => steady <= Bound
=============================================================================
