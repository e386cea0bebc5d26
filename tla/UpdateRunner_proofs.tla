------------------------ MODULE UpdateRunner_proofs ------------------------
(***************************************************************************)
(* There is always a way back, for any number of updates, any retention    *)
(* and any combination of faults but "late".  The invariant follows the    *)
(* three releases an update is about (the linked one, the one it started   *)
(* from, the one it installs) and the marker through its steps; what it    *)
(* says of proven releases is for updates that started from one, which is  *)
(* what ~blind means.                                                      *)
(***************************************************************************)
EXTENDS UpdateRunner, TLAPS

\* The steps before the flip: the new release is run by nobody yet.
Before == {"preflight", "install", "marker", "flip"}
OnNew == {"restart", "restarting", "health", "commit", "finish", "rbflip"}
OnOld == {"rbrestart", "rbrestarting", "rbhealth"}
Busy == Before \cup OnNew \cup OnOld

\* Releases are numbered in the order of the updates.
Numbered ==
    /\ current <= updates /\ old <= updates /\ svc.release <= updates
    /\ marker # None => marker.previous <= updates
    /\ pc = "trigger" => current < updates /\ svc.release < updates
    /\ pc \in Before => new = updates /\ svc.release < new /\ current = old /\ old < new

\* The flags in /run say what they should.
Flags ==
    /\ pc # "idle" => flag
    /\ healthy => svc.state = "up" /\ svc.release \in proven

\* Where the updater is tells what is linked, and what the marker says if it is
\* still there.
Linked ==
    /\ pc \in OnNew => current = new
    /\ pc \in OnOld => current = old
    /\ pc \in OnNew \cup OnOld /\ marker # None => marker = [previous |-> old, target |-> new]
    /\ pc = "flip" => marker = [previous |-> old, target |-> new] /\ ~succeeded
    /\ pc \in {"restarting", "health"} /\ svc.state = "up" => svc.release = current

\* What is needed is on disk.
Kept ==
    /\ NeededAreKept
    /\ pc \in Busy => old \in dirs
    /\ pc \in {"install", "marker", "flip"} \cup OnNew => new \in dirs

Proven ==
    /\ pc = "trigger" => current \in proven
    /\ pc \in Busy => old \in proven
    /\ pc = "commit" => new \in proven

\* The marker leads back to a proven release, and is gone only when the linked
\* one is proven.
Marked ==
    /\ marker = None => current \in proven
    /\ marker # None =>
          /\ marker.previous \in proven
          /\ current \in {marker.previous, marker.target}
          /\ succeeded => current \in proven

Guarded == ~blind => Proven /\ Marked

IInv == TypeOK /\ Numbered /\ Flags /\ Linked /\ Kept /\ Guarded

-----------------------------------------------------------------------------
LEMMA Bound == MaxUpdates \in Nat
BY UpdateAssumption

\* No marker is None.
LEMMA NoneIsNone == \A m \in Marker : m # None
BY UpdateAssumption DEF Marker, Releases

USE Bound

\* Phases of the installation follow one another.
Installing == {InstallPhases[i] : i \in DOMAIN InstallPhases}

LEMMA PhasesFollow ==
    /\ InstallPhases[1] \in Installing
    /\ \A i \in 1 .. Len(InstallPhases) - 1 : InstallPhases[i + 1] \in Installing
<1>1. DOMAIN InstallPhases = 1 .. Len(InstallPhases) /\ Len(InstallPhases) = 6
  BY DEF InstallPhases
<1>2. QED
  BY <1>1 DEF Installing

LEMMA PhasesApart ==
    /\ Len(InstallPhases) = 6
    /\ \A i \in 1 .. 6 : InstallPhases[i] \notin {"done", "rollback_done"}
BY DEF InstallPhases

\* Every action leaves the state well typed.
LEMMA TypeStep == TypeOK /\ [Next]_vars => TypeOK'
<1> SUFFICES ASSUME TypeOK, [Next]_vars PROVE TypeOK'
  OBVIOUS
<1> USE DEF TypeOK, Releases, Marker, Qualities, IdlePhases, Steps, EarlySteps,
            LateSteps, disk, run, job, history, GiveUp, StopService, Cleared
<1>1. CASE Start
  BY <1>1 DEF Start
<1>2. CASE ReadTrigger
  BY <1>2 DEF ReadTrigger
<1>3. CASE Preflight
  <2>1. UNCHANGED <<current, marker, succeeded, run, svc, job, history>>
    BY <1>3 DEF Preflight
  <2>2. dirs' \in SUBSET Releases /\ pc' \in Steps
    BY <1>3 DEF Preflight
  <2>3. status' \in IdlePhases \cup Installing
    BY <1>3, PhasesFollow DEF Preflight
  <2> QED BY <2>1, <2>2, <2>3 DEF Installing
<1>4. CASE Install
  BY <1>4, PhasesFollow DEF Install, Installing
<1>5. CASE WriteMarker
  BY <1>5 DEF WriteMarker
<1>6. CASE Flip
  BY <1>6 DEF Flip
<1>7. CASE Restart
  BY <1>7 DEF Restart
<1>8. CASE RestartReturns
  BY <1>8 DEF RestartReturns
<1>9. CASE Health
  BY <1>9 DEF Health
<1>10. CASE Commit
  BY <1>10 DEF Commit
<1>11. CASE Finish
  BY <1>11 DEF Finish
<1>12. CASE FlipBack
  BY <1>12 DEF FlipBack
<1>13. CASE RestartBack
  BY <1>13 DEF RestartBack
<1>14. CASE RestartBackReturns
  BY <1>14 DEF RestartBackReturns
<1>15. CASE HealthBack
  BY <1>15 DEF HealthBack
<1>16. CASE Exit
  <2>1. UNCHANGED <<disk, status, healthy, svc, job, history>>
    BY <1>16 DEF Exit
  <2>2. flag' \in BOOLEAN /\ pc' \in Steps \cup {"idle"}
    BY <1>16 DEF Exit
  <2> QED BY <2>1, <2>2
<1>17. CASE Raises
  BY <1>17 DEF Raises
<1>18. CASE Recover
  BY <1>18 DEF Recover, Reverted
<1>19. CASE Boot
  BY <1>19 DEF Boot
<1>20. CASE FirstPoll
  <2>1. UNCHANGED <<current, dirs, status, flag, pc, job, updates, quality, blind>>
    BY <1>20 DEF FirstPoll
  <2>2. svc' = [svc EXCEPT !.fired = TRUE]
    BY <1>20 DEF FirstPoll
  <2>3. svc' \in [state : {"down", "recovered", "up"}, release : Releases, fired : BOOLEAN]
    BY <2>2
  <2>4. marker' \in Marker \cup {None}
    BY <1>20 DEF FirstPoll
  <2>5. proven' \in SUBSET Releases
    <3>1. svc.release \in Releases
      OBVIOUS
    <3>2. proven' = proven \cup {svc.release}
      BY <1>20 DEF FirstPoll
    <3> QED BY <3>1, <3>2
  <2>6. healthy' \in BOOLEAN /\ succeeded' \in BOOLEAN
    BY <1>20 DEF FirstPoll
  <2> QED BY <2>1, <2>3, <2>4, <2>5, <2>6
<1>21. CASE Crash
  <2>1. UNCHANGED <<disk, status, flag, pc, job, history>>
    BY <1>21 DEF Crash
  <2>2. svc' = [svc EXCEPT !.state = "down"] /\ healthy' = FALSE
    BY <1>21 DEF Crash
  <2>3. svc' \in [state : {"down", "recovered", "up"}, release : Releases, fired : BOOLEAN]
    BY <2>2
  <2>4. healthy' \in BOOLEAN
    BY <2>2
  <2> QED BY <2>1, <2>3, <2>4
<1>22. CASE Kill
  BY <1>22 DEF Kill
<1>23. CASE Reboot
  BY <1>23 DEF Reboot
<1>24. CASE UNCHANGED vars
  BY <1>24 DEF vars
<1>25. QED
  BY <1>1, <1>2, <1>3, <1>4, <1>5, <1>6, <1>7, <1>8, <1>9, <1>10, <1>11, <1>12, <1>13, <1>14,
     <1>15, <1>16, <1>17, <1>18, <1>19, <1>20, <1>21, <1>22, <1>23, <1>24 DEF Next, UpdaterStep
\* Releases keep the order of the updates.
LEMMA NumberedStep == TypeOK /\ Flags /\ Numbered /\ [Next]_vars => Numbered'
<1> SUFFICES ASSUME TypeOK, Flags, Numbered, [Next]_vars PROVE Numbered'
  OBVIOUS
<1> USE DEF TypeOK, Releases, Marker, Steps, EarlySteps, LateSteps, disk, run, job, history, GiveUp,
            StopService, Cleared, Before, Flags, Numbered
<1>1. CASE Start
  BY <1>1 DEF Start
<1>2. CASE ReadTrigger
  BY <1>2 DEF ReadTrigger
<1>3. CASE Preflight
  BY <1>3 DEF Preflight
<1>4. CASE Install
  BY <1>4 DEF Install
<1>5. CASE WriteMarker
  BY <1>5 DEF WriteMarker
<1>6. CASE Flip
  BY <1>6 DEF Flip
<1>7. CASE Restart
  BY <1>7 DEF Restart
<1>8. CASE RestartReturns
  BY <1>8 DEF RestartReturns
<1>9. CASE Health
  BY <1>9 DEF Health
<1>10. CASE Commit
  BY <1>10 DEF Commit
<1>11. CASE Finish
  BY <1>11 DEF Finish
<1>12. CASE FlipBack
  BY <1>12 DEF FlipBack
<1>13. CASE RestartBack
  BY <1>13 DEF RestartBack
<1>14. CASE RestartBackReturns
  BY <1>14 DEF RestartBackReturns
<1>15. CASE HealthBack
  BY <1>15 DEF HealthBack
<1>16. CASE Exit
  BY <1>16 DEF Exit
<1>17. CASE Raises
  BY <1>17 DEF Raises
<1>18. CASE Recover
  BY <1>18 DEF Recover, Reverted
<1>19. CASE Boot
  BY <1>19 DEF Boot
<1>20. CASE FirstPoll
  BY <1>20 DEF FirstPoll
<1>21. CASE Crash
  BY <1>21 DEF Crash
<1>22. CASE Kill
  BY <1>22 DEF Kill
<1>23. CASE Reboot
  BY <1>23 DEF Reboot
<1>24. CASE UNCHANGED vars
  BY <1>24 DEF vars
<1>25. QED
  BY <1>1, <1>2, <1>3, <1>4, <1>5, <1>6, <1>7, <1>8, <1>9, <1>10, <1>11, <1>12, <1>13, <1>14,
     <1>15, <1>16, <1>17, <1>18, <1>19, <1>20, <1>21, <1>22, <1>23, <1>24 DEF Next, UpdaterStep

\* The flags keep saying what they should.
LEMMA FlagsStep == TypeOK /\ Flags /\ [Next]_vars => Flags'
<1> SUFFICES ASSUME TypeOK, Flags, [Next]_vars PROVE Flags'
  OBVIOUS
<1> USE DEF TypeOK, Releases, Marker, Steps, EarlySteps, LateSteps, disk, run, job, history, GiveUp,
            StopService, Cleared, Before, Flags, Answers
<1>1. CASE Start
  BY <1>1 DEF Start
<1>2. CASE ReadTrigger
  BY <1>2 DEF ReadTrigger
<1>3. CASE Preflight
  BY <1>3 DEF Preflight
<1>4. CASE Install
  BY <1>4 DEF Install
<1>5. CASE WriteMarker
  BY <1>5 DEF WriteMarker
<1>6. CASE Flip
  BY <1>6 DEF Flip
<1>7. CASE Restart
  BY <1>7 DEF Restart
<1>8. CASE RestartReturns
  BY <1>8 DEF RestartReturns
<1>9. CASE Health
  BY <1>9 DEF Health
<1>10. CASE Commit
  BY <1>10 DEF Commit
<1>11. CASE Finish
  BY <1>11 DEF Finish
<1>12. CASE FlipBack
  BY <1>12 DEF FlipBack
<1>13. CASE RestartBack
  BY <1>13 DEF RestartBack
<1>14. CASE RestartBackReturns
  BY <1>14 DEF RestartBackReturns
<1>15. CASE HealthBack
  BY <1>15 DEF HealthBack
<1>16. CASE Exit
  BY <1>16 DEF Exit
<1>17. CASE Raises
  BY <1>17 DEF Raises
<1>18. CASE Recover
  BY <1>18 DEF Recover, Reverted
<1>19. CASE Boot
  BY <1>19 DEF Boot
<1>20. CASE FirstPoll
  BY <1>20 DEF FirstPoll
<1>21. CASE Crash
  BY <1>21 DEF Crash
<1>22. CASE Kill
  BY <1>22 DEF Kill
<1>23. CASE Reboot
  BY <1>23 DEF Reboot
<1>24. CASE UNCHANGED vars
  BY <1>24 DEF vars
<1>25. QED
  BY <1>1, <1>2, <1>3, <1>4, <1>5, <1>6, <1>7, <1>8, <1>9, <1>10, <1>11, <1>12, <1>13, <1>14,
     <1>15, <1>16, <1>17, <1>18, <1>19, <1>20, <1>21, <1>22, <1>23, <1>24 DEF Next, UpdaterStep

\* What is linked follows the steps of the updater.
LEMMA LinkedStep == TypeOK /\ Numbered /\ Flags /\ Linked /\ "late" \notin Faults /\ [Next]_vars => Linked'
<1> SUFFICES ASSUME TypeOK, Numbered, Flags, Linked, "late" \notin Faults, [Next]_vars PROVE Linked'
  OBVIOUS
<1> USE DEF TypeOK, Releases, Marker, Steps, EarlySteps, LateSteps, disk, run, job, history, GiveUp,
            StopService, Cleared, Before, Numbered, Flags, Linked, OnNew, OnOld, Late
<1>1. CASE Start
  BY <1>1 DEF Start
<1>2. CASE ReadTrigger
  BY <1>2 DEF ReadTrigger
<1>3. CASE Preflight
  BY <1>3 DEF Preflight
<1>4. CASE Install
  BY <1>4 DEF Install
<1>5. CASE WriteMarker
  BY <1>5 DEF WriteMarker
<1>6. CASE Flip
  BY <1>6 DEF Flip
<1>7. CASE Restart
  BY <1>7 DEF Restart
<1>8. CASE RestartReturns
  BY <1>8 DEF RestartReturns
<1>9. CASE Health
  BY <1>9 DEF Health
<1>10. CASE Commit
  BY <1>10 DEF Commit
<1>11. CASE Finish
  BY <1>11 DEF Finish
<1>12. CASE FlipBack
  BY <1>12 DEF FlipBack
<1>13. CASE RestartBack
  BY <1>13 DEF RestartBack
<1>14. CASE RestartBackReturns
  BY <1>14 DEF RestartBackReturns
<1>15. CASE HealthBack
  BY <1>15 DEF HealthBack
<1>16. CASE Exit
  BY <1>16 DEF Exit
<1>17. CASE Raises
  BY <1>17 DEF Raises
<1>18. CASE Recover
  BY <1>18 DEF Recover, Reverted
<1>19. CASE Boot
  BY <1>19 DEF Boot
<1>20. CASE FirstPoll
  <2>1. pc # "flip"
    <3>1. pc = "flip" => marker # None /\ svc.release # marker.target
      BY NoneIsNone, [previous |-> old, target |-> new] \in Marker
    <3>2. QED
      BY <1>20, <3>1 DEF FirstPoll
  <2>2. QED
    BY <1>20, <2>1 DEF FirstPoll
<1>21. CASE Crash
  BY <1>21 DEF Crash
<1>22. CASE Kill
  BY <1>22 DEF Kill
<1>23. CASE Reboot
  BY <1>23 DEF Reboot
<1>24. CASE UNCHANGED vars
  BY <1>24 DEF vars
<1>25. QED
  BY <1>1, <1>2, <1>3, <1>4, <1>5, <1>6, <1>7, <1>8, <1>9, <1>10, <1>11, <1>12, <1>13, <1>14,
     <1>15, <1>16, <1>17, <1>18, <1>19, <1>20, <1>21, <1>22, <1>23, <1>24 DEF Next, UpdaterStep

\* Nothing that is needed is removed.
LEMMA KeptStep == TypeOK /\ Numbered /\ Flags /\ Linked /\ Kept /\ [Next]_vars => Kept'
<1> SUFFICES ASSUME TypeOK, Numbered, Flags, Linked, Kept, [Next]_vars PROVE Kept'
  OBVIOUS
<1> USE DEF TypeOK, Releases, Marker, Steps, EarlySteps, LateSteps, disk, run, job, history, GiveUp,
            StopService, Cleared, Before, Numbered, Flags, Linked, Kept, NeededAreKept,
               Busy, OnNew, OnOld, Deletable
<1>1. CASE Start
  BY <1>1 DEF Start
<1>2. CASE ReadTrigger
  BY <1>2 DEF ReadTrigger
<1>3. CASE Preflight
  BY <1>3 DEF Preflight
<1>4. CASE Install
  BY <1>4 DEF Install
<1>5. CASE WriteMarker
  BY <1>5 DEF WriteMarker
<1>6. CASE Flip
  BY <1>6 DEF Flip
<1>7. CASE Restart
  BY <1>7 DEF Restart
<1>8. CASE RestartReturns
  BY <1>8 DEF RestartReturns
<1>9. CASE Health
  BY <1>9 DEF Health
<1>10. CASE Commit
  BY <1>10 DEF Commit
<1>11. CASE Finish
  BY <1>11 DEF Finish
<1>12. CASE FlipBack
  BY <1>12 DEF FlipBack
<1>13. CASE RestartBack
  BY <1>13 DEF RestartBack
<1>14. CASE RestartBackReturns
  BY <1>14 DEF RestartBackReturns
<1>15. CASE HealthBack
  BY <1>15 DEF HealthBack
<1>16. CASE Exit
  BY <1>16 DEF Exit
<1>17. CASE Raises
  BY <1>17 DEF Raises
<1>18. CASE Recover
  BY <1>18 DEF Recover, Reverted
<1>19. CASE Boot
  BY <1>19 DEF Boot
<1>20. CASE FirstPoll
  BY <1>20 DEF FirstPoll
<1>21. CASE Crash
  BY <1>21 DEF Crash
<1>22. CASE Kill
  BY <1>22 DEF Kill
<1>23. CASE Reboot
  BY <1>23 DEF Reboot
<1>24. CASE UNCHANGED vars
  BY <1>24 DEF vars
<1>25. QED
  BY <1>1, <1>2, <1>3, <1>4, <1>5, <1>6, <1>7, <1>8, <1>9, <1>10, <1>11, <1>12, <1>13, <1>14,
     <1>15, <1>16, <1>17, <1>18, <1>19, <1>20, <1>21, <1>22, <1>23, <1>24 DEF Next, UpdaterStep

\* Once an update has started from a release that is not proven, blind stays.
LEMMA BlindStays == TypeOK /\ [Next]_vars => (blind => blind')
BY DEF TypeOK, Next, UpdaterStep, vars, disk, run, job, history, Start, ReadTrigger,
   Preflight, Install, WriteMarker, Flip, Restart, RestartReturns, Health, Commit, Finish,
   FlipBack, RestartBack, RestartBackReturns, HealthBack, Exit, Raises, Recover, Boot,
   FirstPoll, Crash, Kill, Reboot

\* The way back is there as long as the linked release is not proven.
LEMMA GuardedStep == IInv /\ "late" \notin Faults /\ [Next]_vars => Guarded'
<1> SUFFICES ASSUME IInv, "late" \notin Faults, [Next]_vars, ~blind' PROVE Proven' /\ Marked'
  BY DEF Guarded
<1>0. ~blind /\ Proven /\ Marked
  BY BlindStays DEF IInv, Guarded, TypeOK
<1> HIDE Bound
<1> USE <1>0, NoneIsNone DEF IInv, TypeOK, Marker, Releases, Steps, EarlySteps, LateSteps, disk, run,
       job, history, GiveUp, StopService, Cleared, Before, OnNew, OnOld, Busy, Flags, Linked,
       Proven, Marked
<1>1. CASE Start
  BY <1>1 DEF Start
<1>2. CASE ReadTrigger
  BY <1>2 DEF ReadTrigger
<1>3. CASE Preflight
  BY <1>3 DEF Preflight
<1>4. CASE Install
  BY <1>4 DEF Install
<1>5. CASE WriteMarker
  <2>1. current = old /\ old \in proven
    BY <1>5 DEF WriteMarker, Numbered
  <2>2. /\ marker' = [previous |-> old, target |-> new] /\ ~succeeded' /\ pc' = "flip"
        /\ UNCHANGED <<current, proven, old>>
    BY <1>5 DEF WriteMarker
  <2>3. marker' # None /\ marker'.previous = old
    BY <2>2
  <2>4. QED
    BY <2>1, <2>2, <2>3
<1>6. CASE Flip
  <2>1. marker = [previous |-> old, target |-> new] /\ marker # None /\ ~succeeded
    BY <1>6 DEF Flip
  <2>2. marker.previous = old /\ marker.target = new /\ old \in proven
    BY <1>6, <2>1 DEF Flip
  <2>3. current' = new /\ pc' = "restart" /\ UNCHANGED <<marker, succeeded, proven, old>>
    BY <1>6 DEF Flip
  <2>4. QED
    BY <2>1, <2>2, <2>3
<1>7. CASE Restart
  BY <1>7 DEF Restart
<1>8. CASE RestartReturns
  BY <1>8 DEF RestartReturns
<1>9. CASE Health
  BY <1>9 DEF Health, Answers
<1>10. CASE Commit
  BY <1>10 DEF Commit
<1>11. CASE Finish
  BY <1>11 DEF Finish
<1>12. CASE FlipBack
  BY <1>12 DEF FlipBack
<1>13. CASE RestartBack
  BY <1>13 DEF RestartBack
<1>14. CASE RestartBackReturns
  BY <1>14 DEF RestartBackReturns
<1>15. CASE HealthBack
  BY <1>15 DEF HealthBack
<1>16. CASE Exit
  BY <1>16 DEF Exit
<1>17. CASE Raises
  BY <1>17 DEF Raises
<1>18. CASE Recover
  BY <1>18 DEF Recover, Reverted
<1>19. CASE Boot
  BY <1>19 DEF Boot
<1>20. CASE FirstPoll
  BY <1>20 DEF FirstPoll, Late, Numbered
<1>21. CASE Crash
  BY <1>21 DEF Crash
<1>22. CASE Kill
  BY <1>22 DEF Kill
<1>23. CASE Reboot
  BY <1>23 DEF Reboot
<1>24. CASE UNCHANGED vars
  BY <1>24 DEF vars
<1>25. QED
  BY <1>1, <1>2, <1>3, <1>4, <1>5, <1>6, <1>7, <1>8, <1>9, <1>10, <1>11, <1>12, <1>13, <1>14,
     <1>15, <1>16, <1>17, <1>18, <1>19, <1>20, <1>21, <1>22, <1>23, <1>24 DEF Next, UpdaterStep

\* The invariant is inductive as long as the watcher of the old service does
\* not act between the marker and the restart.
LEMMA Inductive == ASSUME "late" \notin Faults PROVE Spec => []IInv
<1>1. Init => IInv
  <2>1. Init => TypeOK
    <3>1. 0 \in Releases /\ "idle" \in IdlePhases
      BY DEF Releases, IdlePhases
    <3>2. Init => quality \in [Releases -> Qualities]
      BY DEF Init
    <3>3. Init => svc \in [state : {"down", "recovered", "up"}, release : Releases, fired : BOOLEAN]
      BY <3>1 DEF Init
    <3>4. Init => dirs \in SUBSET Releases /\ proven \in SUBSET Releases
      BY <3>1 DEF Init
    <3>5. Init => /\ succeeded \in BOOLEAN /\ flag \in BOOLEAN
                  /\ healthy \in BOOLEAN /\ blind \in BOOLEAN
      BY DEF Init
    <3>6. Init => /\ current \in Releases /\ old \in Releases /\ new \in Releases
                  /\ updates \in Releases /\ marker = None /\ pc = "idle" /\ status = "idle"
      BY <3>1 DEF Init
    <3>7. QED
      BY <3>1, <3>2, <3>3, <3>4, <3>5, <3>6 DEF TypeOK
  <2>2. Init => Numbered /\ Flags /\ Linked /\ Kept /\ Guarded
    BY DEF Init, Numbered, Flags, Linked, Kept, NeededAreKept, Guarded, Proven, Marked, Before,
       OnNew, OnOld, Busy
  <2>3. QED
    BY <2>1, <2>2 DEF IInv
<1>2. IInv /\ [Next]_vars => IInv'
  BY TypeStep, NumberedStep, FlagsStep, LinkedStep, KeptStep, GuardedStep DEF IInv
<1>3. QED
  BY <1>1, <1>2, PTL DEF Spec

\* Type correctness.
THEOREM TypeCorrect == ASSUME "late" \notin Faults PROVE Spec => []TypeOK
<1>1. IInv => TypeOK
  BY DEF IInv
<1>2. QED
  BY <1>1, Inductive, PTL

\* Whatever the updater, recovery and the watcher do to the marker and the
\* link, in any order: the release that is linked has proven itself, or the
\* marker names one that has.
THEOREM WayBackHolds == ASSUME "late" \notin Faults PROVE Spec => []WayBack
<1>1. IInv => WayBack
  BY DEF IInv, Guarded, Marked, WayBack
<1>2. QED
  BY <1>1, Inductive, PTL

\* Retention keeps the linked release and the one the marker leads back to,
\* however many releases it is told to keep.
THEOREM RetentionIsSafe == ASSUME "late" \notin Faults PROVE Spec => []NeededAreKept
<1>1. IInv => NeededAreKept
  BY DEF IInv, Kept
<1>2. QED
  BY <1>1, Inductive, PTL

\* recover_if_needed() lets the service start only a proven release when no
\* updater watches over it, if it is able to replace the symlink.
THEOREM RecoveryIsSafe == ASSUME "late" \notin Faults, "stuck" \notin Faults PROVE Spec => BootIsSafe
<1> DEFINE A == ~blind /\ ~flag /\ svc.state = "down" /\ svc'.state = "recovered"
                   => current' \in proven
<1>1. IInv /\ [Next]_vars => A
  <2> SUFFICES ASSUME IInv, [Next]_vars, ~blind, ~flag, svc.state = "down",
                      svc'.state = "recovered"
               PROVE  current' \in proven
    OBVIOUS
  <2>1. Recover
    BY DEF IInv, TypeOK, Next, UpdaterStep, vars, disk, run, job, history, GiveUp, StopService,
           Start, ReadTrigger, Preflight, Install, WriteMarker, Flip, Restart, RestartReturns,
           Health, Commit, Finish, FlipBack, RestartBack, RestartBackReturns, HealthBack, Exit,
           Raises, Boot, FirstPoll, Crash, Kill, Reboot
  <2>2. QED
    BY <2>1 DEF Recover, Reverted, IInv, Kept, NeededAreKept, Guarded, Marked
<1>2. QED
  BY <1>1, Inductive, PTL DEF Spec, BootIsSafe

-----------------------------------------------------------------------------
(* The outcome *)

\* A service that is healthy after the restart has succeeded after the marker,
\* so recovery does not go back on what was told.
Told ==
    /\ pc \in {"restarting", "health", "rbrestarting", "rbhealth"} /\ healthy => succeeded
    /\ pc \in {"commit", "finish"} => new \in proven /\ succeeded
    /\ status \in {"done", "rollback_done"} => pc \in {"exit", "idle", "trigger"} /\ succeeded
    /\ OutcomeIsTrue

\* What was told stays true.
LEMMA ToldStep == IInv /\ Told /\ [Next]_vars => Told'
<1> SUFFICES ASSUME IInv, Told, [Next]_vars PROVE Told'
  OBVIOUS
<1> HIDE Bound
<1> USE PhasesApart DEF IInv, TypeOK, Steps, EarlySteps, LateSteps, disk, run, job, history, GiveUp,
       StopService, OnNew, OnOld, Flags, Linked, Told, OutcomeIsTrue
<1>1. CASE Start
  BY <1>1 DEF Start
<1>2. CASE ReadTrigger
  BY <1>2 DEF ReadTrigger
<1>3. CASE Preflight
  <2>1. InstallPhases[1] \notin {"done", "rollback_done"}
    OBVIOUS
  <2>2. QED
    BY <1>3, <2>1 DEF Preflight
<1>4. CASE Install
  <2>1. pc = "install" /\ pc' \in {"install", "marker", "exit"}
    BY <1>4 DEF Install
  <2>2. status' \notin {"done", "rollback_done"}
    <3>1. \A i \in 1 .. Len(InstallPhases) - 1 : i + 1 \in 1 .. 6
      OBVIOUS
    <3>2. status' \in {status, "rollback_failed"}
             \/ \E i \in 1 .. Len(InstallPhases) - 1 : status' = InstallPhases[i + 1]
      BY <1>4 DEF Install
    <3>3. status \notin {"done", "rollback_done"}
      BY <2>1
    <3>4. QED
      BY <3>1, <3>2, <3>3
  <2>3. QED
    BY <1>4, <2>1, <2>2 DEF Install
<1>5. CASE WriteMarker
  BY <1>5 DEF WriteMarker
<1>6. CASE Flip
  BY <1>6 DEF Flip
<1>7. CASE Restart
  BY <1>7 DEF Restart
<1>8. CASE RestartReturns
  BY <1>8 DEF RestartReturns
<1>9. CASE Health
  BY <1>9 DEF Health, Answers
<1>10. CASE Commit
  BY <1>10 DEF Commit
<1>11. CASE Finish
  BY <1>11 DEF Finish
<1>12. CASE FlipBack
  BY <1>12 DEF FlipBack
<1>13. CASE RestartBack
  BY <1>13 DEF RestartBack
<1>14. CASE RestartBackReturns
  BY <1>14 DEF RestartBackReturns
<1>15. CASE HealthBack
  BY <1>15 DEF HealthBack, Answers
<1>16. CASE Exit
  BY <1>16 DEF Exit
<1>17. CASE Raises
  BY <1>17 DEF Raises
<1>18. CASE Recover
  BY <1>18 DEF Recover, Reverted
<1>19. CASE Boot
  BY <1>19 DEF Boot
<1>20. CASE FirstPoll
  BY <1>20 DEF FirstPoll
<1>21. CASE Crash
  BY <1>21 DEF Crash
<1>22. CASE Kill
  BY <1>22 DEF Kill
<1>23. CASE Reboot
  BY <1>23 DEF Reboot
<1>24. CASE UNCHANGED vars
  BY <1>24 DEF vars
<1>25. QED
  BY <1>1, <1>2, <1>3, <1>4, <1>5, <1>6, <1>7, <1>8, <1>9, <1>10, <1>11, <1>12, <1>13, <1>14,
     <1>15, <1>16, <1>17, <1>18, <1>19, <1>20, <1>21, <1>22, <1>23, <1>24 DEF Next, UpdaterStep

\* "done" and "rollback_done" in the status file are, and stay, true.
THEOREM OutcomeHolds == ASSUME "late" \notin Faults PROVE Spec => []OutcomeIsTrue
<1>1. Init => Told
  BY DEF Init, Told, OutcomeIsTrue
<1>2. IInv /\ Told /\ [Next]_vars => Told'
  BY ToldStep
<1>3. Told => OutcomeIsTrue
  BY DEF Told
<1>4. QED
  BY <1>1, <1>2, <1>3, Inductive, PTL DEF Spec

-----------------------------------------------------------------------------
(* The refinement *)

\* While every update has started from a proven release, a step is one of the
\* abstract installation's, or none.
LEMMA StepWatched ==
    ASSUME IInv, IInv', ~blind', [Next]_vars
    PROVE  BG!Step \/ UNCHANGED <<current, Back, proven>>
<1>0. ~blind /\ Proven /\ Marked
  BY BlindStays DEF IInv, Guarded, TypeOK
<1>1. CASE WriteMarker
  <2>1. current = old /\ old \in proven
    BY <1>0, <1>1 DEF WriteMarker, IInv, Numbered, Before, Proven, Busy
  <2>2. marker' = [previous |-> old, target |-> new] /\ UNCHANGED <<current, proven>>
    BY <1>1 DEF WriteMarker, history
  <2>3. marker' # None
    BY <2>2, NoneIsNone DEF IInv, TypeOK, Marker
  <2>4. BG!Arm
    BY <2>1, <2>2, <2>3 DEF BG!Arm, Back
  <2>5. QED
    BY <2>4 DEF BG!Step
<1>2. CASE Flip
  <2>1. marker = [previous |-> old, target |-> new] /\ new \in Releases /\ old \in proven
    BY <1>0, <1>2 DEF Flip, IInv, Linked, TypeOK, Proven, Busy, Before
  <2>2. marker # None
    BY <2>1, NoneIsNone DEF IInv, TypeOK, Marker
  <2>3. current' = new /\ UNCHANGED <<marker, proven>>
    BY <1>2 DEF Flip, history
  <2>4. BG!Switch(new)
    BY <2>1, <2>2, <2>3 DEF BG!Switch, Back
  <2>5. QED
    BY <2>1, <2>4 DEF BG!Step
<1>3. CASE FlipBack
  <2>1. old \in Releases /\ old \in proven
    BY <1>0, <1>3 DEF FlipBack, IInv, TypeOK, Proven, Busy, OnNew
  <2>2. current' \in {current, old} /\ UNCHANGED <<marker, proven>>
    BY <1>3 DEF FlipBack, history, GiveUp
  <2>3. CASE current' = old
    <3>1. BG!Switch(old)
      BY <2>1, <2>2, <2>3 DEF BG!Switch, Back
    <3>2. QED
      BY <2>1, <3>1 DEF BG!Step
  <2>4. CASE current' = current
    BY <2>2, <2>4 DEF Back
  <2>5. QED
    BY <2>2, <2>3, <2>4
<1>4. CASE Commit \/ HealthBack
  <2>1. current \in proven
    BY <1>0, <1>4 DEF Commit, HealthBack, IInv, Linked, Proven, Busy, OnNew, OnOld
  <2>2. marker' \in {None, marker} /\ UNCHANGED <<current, proven>>
    BY <1>4 DEF Commit, HealthBack, Cleared, GiveUp, history
  <2>3. CASE marker' = None
    BY <2>1, <2>2, <2>3 DEF BG!Step, BG!Commit, Back
  <2>4. CASE marker' = marker
    BY <2>2, <2>4 DEF Back
  <2>5. QED
    BY <2>2, <2>3, <2>4
<1>5. CASE Recover
  <2>1. marker' \in {None, marker} /\ UNCHANGED proven
    BY <1>5 DEF Recover, Reverted, Cleared, history
  <2>2. CASE current' = current /\ marker' = marker
    BY <2>1, <2>2 DEF Back
  <2>3. CASE marker # None /\ succeeded /\ current' = current /\ marker' = None
    <3>1. current \in proven
      BY <1>0, <2>3 DEF Marked
    <3>2. QED
      BY <2>1, <2>3, <3>1 DEF BG!Step, BG!Commit, Back
  <2>4. CASE marker # None /\ current' = marker.previous
    <3>1. marker.previous \in proven
      BY <1>0, <2>4 DEF Marked
    <3>2. Back = marker.previous /\ Back' \in {Back, None}
      BY <2>1, <2>4 DEF Back
    <3>3. QED
      BY <2>1, <2>4, <3>1, <3>2 DEF BG!Step, BG!Revert
  <2>5. QED
    BY <1>5, <2>1, <2>2, <2>3, <2>4 DEF Recover, Reverted
<1>6. CASE FirstPoll
  <2>1. marker' \in {None, marker} /\ proven' = proven \cup {svc.release} /\ UNCHANGED current
    BY <1>6 DEF FirstPoll, Cleared
  <2>2. marker' = None => current \in proven'
    BY <2>1, BlindStays DEF IInv, Guarded, Marked
  <2>3. svc.release \in Releases
    BY DEF IInv, TypeOK
  <2>4. BG!Prove(svc.release)
    BY <2>1, <2>2 DEF BG!Prove, Back
  <2>5. QED
    BY <2>3, <2>4 DEF BG!Step
<1>7. CASE ~(WriteMarker \/ Flip \/ FlipBack \/ Commit \/ HealthBack \/ Recover \/ FirstPoll)
  <2>1. UNCHANGED <<current, marker, proven>>
    BY <1>7 DEF Next, UpdaterStep, vars, disk, history, Start, ReadTrigger, Preflight, Install,
       Restart, RestartReturns, Health, Finish, RestartBack, RestartBackReturns, Exit, Raises,
       Boot, Crash, Kill, Reboot
  <2>2. QED
    BY <2>1 DEF Back
<1>8. QED
  BY <1>1, <1>2, <1>3, <1>4, <1>5, <1>6, <1>7

\* Only a start turns blind, and it leaves the installation alone.
LEMMA Overruled ==
    ASSUME IInv, ~blind, blind', [Next]_vars
    PROVE  current \notin proven /\ UNCHANGED <<current, Back, proven>>
<1>1. Start
  BY DEF Next, UpdaterStep, vars, disk, run, job, history, ReadTrigger, Preflight, Install,
     WriteMarker, Flip, Restart, RestartReturns, Health, Commit, Finish, FlipBack, RestartBack,
     RestartBackReturns, HealthBack, Exit, Raises, Recover, Boot, FirstPoll, Crash, Kill, Reboot
<1>2. current \notin proven /\ UNCHANGED <<current, marker, proven>>
  BY <1>1 DEF Start, disk
<1>3. QED
  BY <1>2 DEF Back

\* The updater, the recovery hook and the watcher implement the promise of a
\* blue/green installation: every behaviour of theirs is one of BlueGreen.
THEOREM KeepsThePromise == ASSUME "late" \notin Faults PROVE Spec => BlueGreenPromise
<1>1. Init => BG!Init
  BY Bound DEF Init, BG!Init, Back, Releases
<1>2. IInv /\ IInv' /\ [Next]_vars => [BG!Next]_BG!vars
  <2> SUFFICES ASSUME IInv, IInv', [Next]_vars PROVE [BG!Next]_BG!vars
    OBVIOUS
  <2>1. CASE blind
    <3>1. blind'
      BY <2>1, BlindStays DEF IInv
    <3>2. current' \in Releases /\ Back' \in Releases \cup {None} /\ proven' \in SUBSET Releases
      BY DEF IInv, TypeOK, Back, Marker
    <3>3. BG!Unwatched
      BY <2>1, <3>1, <3>2 DEF BG!Unwatched
    <3>4. QED
      BY <3>3 DEF BG!Next
  <2>2. CASE ~blind /\ blind'
    BY <2>2, Overruled DEF BG!Next, BG!Overrule
  <2>3. CASE ~blind'
    <3>1. ~blind
      BY <2>3, BlindStays DEF IInv
    <3>2. BG!Step \/ UNCHANGED <<current, Back, proven>>
      BY <2>3, StepWatched
    <3>3. (~blind) = (~blind)'
      BY <2>3, <3>1 DEF IInv, TypeOK
    <3>4. CASE BG!Step
      BY <3>1, <3>3, <3>4 DEF BG!Next
    <3>5. CASE UNCHANGED <<current, Back, proven>>
      BY <3>3, <3>5 DEF BG!vars
    <3>6. QED
      BY <3>2, <3>4, <3>5
  <2>4. QED
    BY <2>1, <2>2, <2>3
<1>3. QED
  BY <1>1, <1>2, Inductive, PTL DEF Spec, BlueGreenPromise, BG!Spec
=============================================================================
