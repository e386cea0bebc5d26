---------------------------- MODULE UpdateRunner ----------------------------
(***************************************************************************)
(* The privileged updater (updater_root/runner.py) against everything that *)
(* goes on beside it: the main service, which is restarted by it and by    *)
(* systemd, the recovery hook that runs before every start of the service  *)
(* (recovery.py), the watcher that declares a boot successful              *)
(* (__main__.py), SIGKILLs, crashes, reboots.                              *)
(*                                                                         *)
(* Releases are numbered by the updates that install them; 0 is the one    *)
(* the system starts with.  A step of the updater is the status write and  *)
(* the call that follows it: nobody else acts on the phase in between.     *)
(* Times are compared in one place only, whether last-boot-success is      *)
(* newer than the marker, and kept as that comparison (succeeded).         *)
(***************************************************************************)
EXTENDS Naturals, Sequences, FiniteSets

CONSTANTS
    MaxUpdates,     \* bound: updates started in a behaviour
    Keep,           \* keep_releases of the updater's configuration
    Faults,         \* the faults a run allows, out of AllFaults
    None            \* no marker

AllFaults ==
    {"kill",     \* the updater gets a SIGKILL (TimeoutStartSec, out of memory)
     "crash",    \* the main service ends by itself
     "reboot",   \* the machine reboots
     "restart",  \* systemctl restart reports failure
     "flip",     \* the symlink cannot be replaced on the way back
     "raise",    \* a write of status, marker or symlink raises
     "unlink",   \* the marker cannot be removed
     "stuck",    \* recovery cannot replace the symlink
     "late"}     \* the old service reaches its first inverter once the marker is written

ASSUME UpdateAssumption ==
    /\ MaxUpdates \in Nat /\ Keep \in Nat \ {0}
    /\ Faults \subseteq AllFaults
    /\ None \notin Nat /\ None \notin [previous : Nat, target : Nat]

Releases == 0..MaxUpdates

InstallPhases ==
    <<"extract", "pip_install_dryrun", "pip_install", "compileall", "smoke_import", "config_dryrun">>

\* security.IDLE_PHASES: a new update may be started in these.
IdlePhases == {"idle", "done", "rollback_done", "rollback_failed"}

\* Where the updater is; "idle" when it is not running.
EarlySteps == {"trigger", "preflight", "install"}
LateSteps == {"marker", "flip", "restart", "restarting", "health", "commit", "finish",
              "rbflip", "rbrestart", "rbrestarting", "rbhealth"}
Steps == EarlySteps \cup LateSteps \cup {"exit"}

VARIABLES
    \* on disk
    current,    \* the release the symlink names
    dirs,       \* the release directories; the newer, the higher the number
    marker,     \* update-pending.marker
    succeeded,  \* last-boot-success.marker is newer than the pending marker
    status,     \* the phase in update-status.json
    \* in /run
    flag,       \* pv-inverter-proxy-updater-active
    healthy,    \* pv-inverter-proxy/healthy
    \* processes
    svc,        \* the main service: state, release it runs, healthy_flag_written
    pc,         \* the updater's next step
    old,        \* current_release of run()
    new,        \* new_release of run()
    \* history
    updates,    \* updates started
    quality,    \* what each release is like: never changes
    proven,     \* releases a service of which has reached an inverter
    blind       \* an update was started on a release not proven

disk == <<current, dirs, marker, succeeded>>
run == <<flag, healthy>>
job == <<old, new>>
history == <<updates, quality, proven, blind>>
vars == <<current, dirs, marker, succeeded, status, flag, healthy, svc, pc, old, new,
          updates, quality, proven, blind>>

\* "good" works; "half" reaches its inverters and fails the health check (no
\* Modbus server, say); "bad" never reaches one.
Qualities == {"good", "half", "bad"}

Marker == [previous : Releases, target : Releases]

Init ==
    /\ current = 0 /\ dirs = {0} /\ marker = None /\ succeeded = TRUE
    /\ status = "idle"
    /\ flag = FALSE /\ healthy = TRUE
    /\ svc = [state |-> "up", release |-> 0, fired |-> TRUE]
    /\ pc = "idle" /\ old = 0 /\ new = 0
    /\ updates = 0
    /\ quality \in {q \in [Releases -> Qualities] : q[0] = "good"}
    /\ proven = {0} /\ blind = FALSE

-----------------------------------------------------------------------------
(* UpdateRunner.run() *)

\* The webapp's guard is part of the start: it writes no trigger while the
\* status file names a phase that is not idle.
Start ==
    /\ pc = "idle" /\ svc.state = "up"
    /\ status \in IdlePhases
    /\ updates < MaxUpdates
    /\ updates' = updates + 1
    /\ flag' = TRUE
    /\ blind' = (blind \/ current \notin proven)
    /\ pc' = "trigger"
    /\ UNCHANGED <<disk, status, healthy, svc, job, quality, proven>>

\* A replayed or invalid trigger ends the run without a trace in the status.
ReadTrigger ==
    /\ pc = "trigger"
    /\ \/ pc' = "exit" /\ UNCHANGED <<status, job>>
       \/ /\ current \in dirs
          /\ old' = current /\ new' = updates
          /\ status' = "trigger_received"
          /\ pc' = "preflight"
    /\ UNCHANGED <<disk, run, svc, history>>

\* Mutant: the phase name of an older protocol (updater/status.py).
GiveUpOldPhase == status' = "rollback" /\ pc' = "exit"

GiveUp == status' = "rollback_failed" /\ pc' = "exit"

\* SHA check, disk space, backup, clone and checkout.
Preflight ==
    /\ pc = "preflight"
    /\ \/ GiveUp /\ UNCHANGED dirs
       \/ /\ status' = InstallPhases[1]
          /\ dirs' = dirs \cup {new}
          /\ pc' = "install"
    /\ UNCHANGED <<current, marker, succeeded, run, svc, job, history>>

\* Virtual environment, pip, compileall, smoke import, config dry run.
Install ==
    /\ pc = "install"
    /\ \/ GiveUp
       \/ \E i \in 1 .. Len(InstallPhases) - 1 :
            /\ status = InstallPhases[i]
            /\ status' = InstallPhases[i + 1]
            /\ UNCHANGED pc
       \/ /\ status = InstallPhases[Len(InstallPhases)]
          /\ pc' = "marker"
          /\ UNCHANGED status
    /\ UNCHANGED <<disk, run, svc, job, history>>

\* Mutant: the arguments of write_pending_marker() swapped.
WriteMarkerSwapped ==
    /\ pc = "marker"
    /\ status' = "pending_marker_written"
    /\ marker' = [previous |-> new, target |-> old]
    /\ succeeded' = FALSE
    /\ pc' = "flip"
    /\ UNCHANGED <<current, dirs, run, svc, job, history>>

\* Mutant: created_at is the time at which the update was requested, so that a
\* success of the old release may be newer.
WriteMarkerRequestTime ==
    /\ pc = "marker"
    /\ status' = "pending_marker_written"
    /\ marker' = [previous |-> old, target |-> new]
    /\ pc' = "flip"
    /\ UNCHANGED <<current, dirs, succeeded, run, svc, job, history>>

WriteMarker ==
    /\ pc = "marker"
    /\ status' = "pending_marker_written"
    /\ marker' = [previous |-> old, target |-> new]
    /\ succeeded' = FALSE
    /\ pc' = "flip"
    /\ UNCHANGED <<current, dirs, run, svc, job, history>>

Flip ==
    /\ pc = "flip"
    /\ status' = "symlink_flipped"
    /\ current' = new
    /\ pc' = "restart"
    /\ UNCHANGED <<dirs, marker, succeeded, run, svc, job, history>>

\* Stopping the service destroys its RuntimeDirectory, and the flag in it.
StopService ==
    /\ svc' = [svc EXCEPT !.state = "down"]
    /\ healthy' = FALSE

Restart ==
    /\ pc = "restart"
    /\ status' = "restarting"
    /\ StopService
    /\ pc' = "restarting"
    /\ UNCHANGED <<disk, flag, job, history>>

\* Mutant: the marker is cleared once the restart has worked, before the health check.
RestartReturnsCommitting ==
    /\ pc = "restarting"
    /\ svc.state = "up" /\ status' = "healthcheck" /\ pc' = "health"
    /\ marker' = None
    /\ UNCHANGED <<current, dirs, succeeded, run, svc, job, history>>

RestartReturns ==
    /\ pc = "restarting"
    /\ \/ svc.state = "up" /\ status' = "healthcheck" /\ pc' = "health"
       \/ "restart" \in Faults /\ pc' = "rbflip" /\ UNCHANGED status
    /\ UNCHANGED <<disk, run, svc, job, history>>

\* Mutant: the healthy flag is not looked at.
AnswersWithoutFlag == svc.state = "up" /\ quality[svc.release] = "good"

\* wait_for_healthy() succeeds only with the healthy flag and good answers of
\* the service; it may always fail (slow inverters, night, a crash).
Answers == svc.state = "up" /\ quality[svc.release] = "good" /\ healthy

Health ==
    /\ pc = "health"
    /\ pc' \in {"rbflip"} \cup {s \in {"commit"} : Answers}
    /\ UNCHANGED <<disk, status, run, svc, job, history>>

\* clear_pending_marker() swallows the error of unlink().
Cleared == {None} \cup {m \in {marker} : "unlink" \in Faults}

Commit ==
    /\ pc = "commit"
    /\ marker' \in Cleared
    /\ pc' = "finish"
    /\ UNCHANGED <<current, dirs, succeeded, status, run, svc, job, history>>

\* Not among the newest Keep.
HasNewer(r) == Cardinality({s \in dirs : s > r}) >= Keep

\* Mutant: protect={current_release} forgotten.
DeletableUnprotected == {r \in dirs : HasNewer(r) /\ r # current}

\* select_releases_to_delete(): the newest ones, the current one and the
\* protected one stay; a directory that cannot be removed stays, too.
Deletable == {r \in dirs : HasNewer(r) /\ r \notin {current, old}}

Finish ==
    /\ pc = "finish"
    /\ \E gone \in SUBSET Deletable : dirs' = dirs \ gone
    /\ status' = "done"
    /\ pc' = "exit"
    /\ UNCHANGED <<current, marker, succeeded, run, svc, job, history>>

(* _rollback() *)

FlipBack ==
    /\ pc = "rbflip"
    /\ \/ /\ status' = "rollback_symlink_flipped"
          /\ current' = old
          /\ pc' = "rbrestart"
       \/ "flip" \in Faults /\ GiveUp /\ UNCHANGED current
    /\ UNCHANGED <<dirs, marker, succeeded, run, svc, job, history>>

RestartBack ==
    /\ pc = "rbrestart"
    /\ StopService
    /\ pc' = "rbrestarting"
    /\ UNCHANGED <<disk, status, flag, job, history>>

RestartBackReturns ==
    /\ pc = "rbrestarting"
    /\ \/ svc.state = "up" /\ status' = "rollback_restarting" /\ pc' = "rbhealth"
       \/ "restart" \in Faults /\ GiveUp
    /\ UNCHANGED <<disk, run, svc, job, history>>

\* Mutant: the second health check has no timeout.
HealthBackUntilHealthy ==
    /\ pc = "rbhealth" /\ Answers
    /\ marker' \in Cleared
    /\ status' = "rollback_done"
    /\ pc' = "exit"
    /\ UNCHANGED <<current, dirs, succeeded, run, svc, job, history>>

HealthBack ==
    /\ pc = "rbhealth"
    /\ \/ /\ Answers
          /\ marker' \in Cleared
          /\ status' = "rollback_done"
          /\ pc' = "exit"
       \/ GiveUp /\ UNCHANGED marker
    /\ UNCHANGED <<current, dirs, succeeded, run, svc, job, history>>

\* The finally clause of run().
Exit ==
    /\ pc = "exit"
    /\ flag' = FALSE
    /\ pc' = "idle"
    /\ UNCHANGED <<disk, status, healthy, svc, job, history>>

\* An exception: the last status write may fail as well.
Raises ==
    /\ pc \in EarlySteps \cup {s \in LateSteps : "raise" \in Faults}
    /\ status' \in {status, "rollback_failed"}
    /\ pc' = "exit"
    /\ UNCHANGED <<disk, run, svc, job, history>>

UpdaterStep ==
    \/ ReadTrigger \/ Preflight \/ Install
    \/ WriteMarker \/ Flip \/ Restart \/ RestartReturns \/ Health \/ Commit \/ Finish
    \/ FlipBack \/ RestartBack \/ RestartBackReturns \/ HealthBack
    \/ Exit

-----------------------------------------------------------------------------
(* Beside the updater *)

\* The way back of recovery: the link and the marker it leaves.
Reverted ==
    [current : {marker.previous}, marker : Cleared]
    \cup [current : {c \in {current} : "stuck" \in Faults}, marker : {marker}]

\* recover_if_needed(), before every start of the main service.
Recover ==
    /\ svc.state = "down"
    /\ svc' = [svc EXCEPT !.state = "recovered"]
    /\ \/ (marker = None \/ flag) /\ UNCHANGED <<current, marker>>
       \/ /\ marker # None /\ ~flag
          /\ \/ succeeded /\ marker' \in Cleared /\ UNCHANGED current
             \/ ~succeeded /\ marker.previous \notin dirs /\ UNCHANGED <<current, marker>>
             \/ /\ ~succeeded /\ marker.previous \in dirs
                /\ \E r \in Reverted : current' = r.current /\ marker' = r.marker
    /\ UNCHANGED <<dirs, succeeded, status, run, pc, job, history>>

\* The main unit starts what the symlink names.
Boot ==
    /\ svc.state = "recovered"
    /\ svc' = [state |-> "up", release |-> current, fired |-> FALSE]
    /\ UNCHANGED <<disk, status, run, pc, job, history>>

\* A service of the old release goes on while the new one is, or is about to
\* be, what the symlink names.
Late ==
    /\ marker # None /\ svc.release # marker.target
    /\ pc = "flip" \/ current = marker.target

\* _healthy_flag_watcher() and _write_healthy_flag_once(), once per process.
FirstPoll ==
    /\ svc.state = "up" /\ ~svc.fired
    /\ quality[svc.release] # "bad"
    /\ Late => "late" \in Faults
    /\ svc' = [svc EXCEPT !.fired = TRUE]
    /\ healthy' = TRUE
    /\ succeeded' = TRUE
    /\ marker' \in Cleared
    /\ proven' = proven \cup {svc.release}
    /\ UNCHANGED <<current, dirs, status, flag, pc, job, updates, quality, blind>>

Crash ==
    /\ "crash" \in Faults
    /\ svc.state = "up"
    /\ StopService
    /\ UNCHANGED <<disk, status, flag, pc, job, history>>

Kill ==
    /\ "kill" \in Faults
    /\ pc # "idle"
    /\ pc' = "idle"
    /\ UNCHANGED <<disk, status, run, svc, job, history>>

\* /run is empty after a reboot.
Reboot ==
    /\ "reboot" \in Faults
    /\ StopService
    /\ flag' = FALSE
    /\ pc' = "idle"
    /\ UNCHANGED <<disk, status, job, history>>

Next ==
    \/ Start \/ UpdaterStep \/ Raises
    \/ Recover \/ Boot \/ FirstPoll
    \/ Crash \/ Kill \/ Reboot

Spec == Init /\ [][Next]_vars

\* A coroutine that can go on does, and every call of the updater has a
\* timeout (no exception is needed to end one); systemd starts what it was
\* told to start.  systemctl restart
\* returns although the service may end again at once.
Fairness ==
    /\ WF_vars(UpdaterStep)
    /\ SF_vars(RestartReturns) /\ SF_vars(RestartBackReturns)
    /\ WF_vars(Recover) /\ WF_vars(Boot)

FairSpec == Spec /\ Fairness

-----------------------------------------------------------------------------
(* Properties *)

TypeOK ==
    /\ current \in Releases /\ dirs \in SUBSET Releases
    /\ marker \in Marker \cup {None}
    /\ succeeded \in BOOLEAN /\ flag \in BOOLEAN /\ healthy \in BOOLEAN /\ blind \in BOOLEAN
    /\ status \in IdlePhases \cup {InstallPhases[i] : i \in DOMAIN InstallPhases}
                  \cup {"trigger_received", "pending_marker_written", "symlink_flipped", "restarting",
                        "healthcheck", "rollback_symlink_flipped", "rollback_restarting"}
    /\ svc \in [state : {"down", "recovered", "up"}, release : Releases, fired : BOOLEAN]
    /\ pc \in Steps \cup {"idle"}
    /\ old \in Releases /\ new \in Releases /\ updates \in Releases
    /\ quality \in [Releases -> Qualities]
    /\ proven \in SUBSET Releases

\* The marker is written before the symlink is flipped and removed by three
\* parties (updater, recovery hook, watcher): whatever happens in between, the
\* release started next is proven, or the marker names one that is.  Updates
\* started on a release that is not proven itself are the exception.
WayBack ==
    blind \/ current \in proven \/ (marker # None /\ marker.previous \in proven)

\* A start of the service that no updater watches over (after a reboot, or a
\* crash when the updater is gone) starts a release that is proven: recovery
\* has gone back, or found that the new one had succeeded.
BootIsSafe ==
    [][~blind /\ ~flag /\ svc.state = "down" /\ svc'.state = "recovered" => current' \in proven]_vars

\* Retention never removes what is needed: the release that is linked and the
\* one the marker leads back to.
NeededAreKept ==
    /\ current \in dirs
    /\ marker # None => marker.previous \in dirs

\* The result in the status file is true although the service, the watcher and
\* recovery go on after it was written: "done" is said of a new release that
\* is linked and proven, "rollback_done" of the old one.
OutcomeIsTrue ==
    /\ status = "done" => current = new /\ new \in proven
    /\ status = "rollback_done" => current = old

\* An update that was started comes to its end, the way back included.
UpdateEnds == (pc # "idle") ~> (pc = "idle")

\* The updater, the recovery hook and the watcher together implement the
\* promise of a blue/green installation.
Back == IF marker = None THEN None ELSE marker.previous
BG == INSTANCE BlueGreen WITH back <- Back, watched <- ~blind
BlueGreenPromise == BG!Spec
=============================================================================
