----------------------------- MODULE BlueGreen -----------------------------
(***************************************************************************)
(* What the blue/green updater promises of an installation, without saying *)
(* how: the release that will be started next is one that has proven       *)
(* itself, or there is a way back to one that has.  A release has proven   *)
(* itself once a service running it has reached an inverter.               *)
(*                                                                         *)
(* The promise is for installations that start every update from a proven  *)
(* release.  One that does not is no longer watched.                       *)
(***************************************************************************)
CONSTANTS
    Releases,   \* all releases that are ever installed
    None        \* no way back is recorded

VARIABLES
    current,    \* the release the symlink names
    back,       \* the release a boot would go back to, or None
    proven,     \* the releases that have proven themselves
    watched     \* every update so far was started from a proven release

vars == <<current, back, proven, watched>>

Safe == current \in proven \/ back \in proven

Init ==
    /\ current \in Releases
    /\ back = None
    /\ proven = {current}
    /\ watched = TRUE

\* A way back is recorded while the current release is still a proven one.
Arm ==
    /\ current \in proven
    /\ back' = current
    /\ UNCHANGED <<current, proven>>

\* Another release becomes the current one: a proven one, or one on trial,
\* which takes a way back.
Switch(r) ==
    /\ r \in proven \/ back \in proven
    /\ current' = r
    /\ UNCHANGED <<back, proven>>

\* A running service reaches an inverter; the way back may be given up once
\* the current release is proven.
Prove(r) ==
    /\ proven' = proven \cup {r}
    /\ back' = back \/ (back' = None /\ current \in proven')
    /\ UNCHANGED current

\* The trial is ended in favour of the current release.
Commit ==
    /\ current \in proven
    /\ back' = None
    /\ UNCHANGED <<current, proven>>

\* The installation goes back, and may forget that it could.
Revert ==
    /\ back \in proven
    /\ current' = back
    /\ back' \in {back, None}
    /\ UNCHANGED proven

Step ==
    \/ Arm
    \/ \E r \in Releases : Switch(r) \/ Prove(r)
    \/ Commit
    \/ Revert

\* An update is started although the current release has not proven itself:
\* from here on everything is possible.
Overrule ==
    /\ current \notin proven
    /\ watched' = FALSE
    /\ UNCHANGED <<current, back, proven>>

Unwatched ==
    /\ ~watched
    /\ watched' = FALSE
    /\ current' \in Releases
    /\ back' \in Releases \cup {None}
    /\ proven' \in SUBSET Releases

Next ==
    \/ watched /\ Step /\ UNCHANGED watched
    \/ watched /\ Overrule
    \/ Unwatched

Spec == Init /\ [][Next]_vars
=============================================================================
