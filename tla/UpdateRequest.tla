---------------------------- MODULE UpdateRequest ----------------------------
(***************************************************************************)
(* How an update is asked for and heard of: the handlers of the webapp     *)
(* (rate limit, guard, maintenance mode, trigger file), the path unit that *)
(* starts the updater, its reading of the trigger with the store of seen   *)
(* nonces, the status file and the broadcaster that tells the pages.       *)
(*                                                                         *)
(* What the updater does in between is UpdateRunner's; here it writes its  *)
(* phases, restarts the service or does not, and ends.  Time is what the   *)
(* rate limiter sees of it: a client is inside its window or is not.       *)
(***************************************************************************)
EXTENDS Naturals, Sequences, SequencesExt

CONSTANTS
    Clients,        \* the addresses requests come from
    MaxRequests,    \* bound: nonces issued in a behaviour
    MaxNonces,      \* entries the store of seen nonces keeps
    Faults,         \* the faults a run allows, out of AllFaults
    None            \* no trigger file

AllFaults ==
    {"disk",     \* the trigger or the store of nonces cannot be written
     "kill",     \* the updater gets a SIGKILL
     "reboot",
     "crash",    \* the main service ends by itself and is started again
     "clock"}    \* the wall clock is set back

ASSUME RequestAssumption ==
    /\ MaxRequests \in Nat /\ MaxNonces \in Nat \ {0}
    /\ Faults \subseteq AllFaults
    /\ None \notin [nonce : Nat, op : {"update", "rollback"}]

Nonces == 1 .. MaxRequests
Outcomes == {"done", "rollback_done", "rollback_failed"}
Trigger == [nonce : Nonces, op : {"update", "rollback"}]

VARIABLES
    \* the webapp
    req,            \* each client's request
    cool,           \* clients inside the window of the rate limiter
    maintenance,    \* app_ctx.maintenance_mode
    lastSeq,        \* _last_sequence + 1
    snap,           \* the entries _emit_new_entries() has yet to send
    \* files
    trigger,        \* update-trigger.json
    seen,           \* processed nonces, newest seen_at first
    hist,           \* history of update-status.json; current.phase is the last one's
    \* systemd and the updater
    event,          \* the path unit has a modification to report
    upd,            \* the updater: where it is, and the trigger it has read
    \* history
    issued,         \* nonces handed out
    own,            \* nonces handed out by the process now running
    begun,          \* how often an update was begun for each nonce
    told,           \* entries the process now running has sent to the pages
    cut             \* an updater was killed or rebooted away

web == <<req, cool, maintenance, lastSeq, snap, own, told>>
vars == <<req, cool, maintenance, lastSeq, snap, trigger, seen, hist, event, upd,
          issued, own, begun, told, cut>>

NoRequest == [at |-> "none", op |-> "update", nonce |-> 0]
Off == [at |-> "off", op |-> "update", nonce |-> 0]

Init ==
    /\ req = [c \in Clients |-> NoRequest] /\ cool = {}
    /\ maintenance = FALSE
    /\ lastSeq = 0 /\ snap = <<>>
    /\ trigger = None /\ seen = <<>> /\ hist = <<>>
    /\ event = FALSE /\ upd = Off
    /\ issued = 0 /\ own = {} /\ begun = [n \in Nonces |-> 0] /\ told = {}
    /\ cut = FALSE

Phase == IF hist = <<>> THEN "idle" ELSE Last(hist).phase

\* Mutant: `current is not None` instead of the phase.
RunningOnceCurrent == hist # <<>>

\* is_update_running()
Running == Phase \notin Outcomes \cup {"idle"}

-----------------------------------------------------------------------------
(* The handlers *)

\* RateLimiter.check() and is_update_running(): a request that is refused with
\* 409 has used up its window, too.
Passes(c) ==
    /\ req[c].at = "none" /\ c \notin cool
    /\ cool' = cool \cup {c}
    /\ ~Running

Refused(c) ==
    /\ req[c].at = "none" /\ c \notin cool /\ Running
    /\ cool' = cool \cup {c}
    /\ UNCHANGED <<req, maintenance, lastSeq, snap, trigger, seen, hist, event, upd,
                   issued, own, begun, told, cut>>

\* Mutant: maintenance mode is entered when the trigger has been written.
EnterLate(c, op) ==
    /\ issued < MaxRequests
    /\ issued' = issued + 1
    /\ own' = own \cup {issued'}
    /\ UNCHANGED maintenance
    /\ req' = [req EXCEPT ![c] = [at |-> "write", op |-> op, nonce |-> issued']]

\* From generate_nonce() to the await of broadcast_update_in_progress().
Enter(c, op) ==
    /\ issued < MaxRequests
    /\ issued' = issued + 1
    /\ own' = own \cup {issued'}
    /\ maintenance' = TRUE
    /\ req' = [req EXCEPT ![c] = [at |-> "write", op |-> op, nonce |-> issued']]

StartRequest(c) ==
    /\ Passes(c)
    /\ req' = [req EXCEPT ![c].at = "body"]
    /\ UNCHANGED <<maintenance, lastSeq, snap, trigger, seen, hist, event, upd,
                   issued, own, begun, told, cut>>

\* await request.json(): refused with 400, or valid.
StartBody(c) ==
    /\ req[c].at = "body"
    /\ \/ Enter(c, "update")
       \/ req' = [req EXCEPT ![c] = NoRequest] /\ UNCHANGED <<maintenance, issued, own>>
    /\ UNCHANGED <<cool, lastSeq, snap, trigger, seen, hist, event, upd, begun, told, cut>>

Rollback(c) ==
    /\ Passes(c)
    /\ Enter(c, "rollback")
    /\ UNCHANGED <<lastSeq, snap, trigger, seen, hist, event, upd, begun, told, cut>>

\* The path unit notices a modification; one made while the updater runs may
\* be lost, as the start job it causes is merged into the one that runs.
Notices == event' \in {TRUE} \cup {e \in {event} : upd.at # "off"}

\* write_trigger() and the answer: 202, or 500, which is also the answer when
\* the file was replaced and its mode could not be set.
WriteTrigger(c) ==
    /\ req[c].at = "write"
    /\ req' = [req EXCEPT ![c] = NoRequest]
    /\ \/ /\ trigger' = [nonce |-> req[c].nonce, op |-> req[c].op]
          /\ Notices
       \/ "disk" \in Faults /\ UNCHANGED <<trigger, event>>
    /\ UNCHANGED <<cool, maintenance, lastSeq, snap, seen, hist, upd, issued, own, begun, told, cut>>

WindowPasses(c) ==
    /\ c \in cool
    /\ cool' = cool \ {c}
    /\ UNCHANGED <<req, maintenance, lastSeq, snap, trigger, seen, hist, event, upd,
                   issued, own, begun, told, cut>>

-----------------------------------------------------------------------------
(* ProgressBroadcaster *)

\* Mutant: the loop reads the file only while an update runs.
PollWhileRunning ==
    /\ snap = <<>> /\ Len(hist) > lastSeq /\ Running
    /\ snap' = [i \in 1 .. Len(hist) - lastSeq |->
                    [nonce |-> hist[lastSeq + i].nonce, seq |-> lastSeq + i]]
    /\ UNCHANGED <<req, cool, maintenance, lastSeq, trigger, seen, hist, event, upd,
                   issued, own, begun, told, cut>>

Poll ==
    /\ snap = <<>> /\ Len(hist) > lastSeq
    /\ snap' = [i \in 1 .. Len(hist) - lastSeq |->
                    [nonce |-> hist[lastSeq + i].nonce, seq |-> lastSeq + i]]
    /\ UNCHANGED <<req, cool, maintenance, lastSeq, trigger, seen, hist, event, upd,
                   issued, own, begun, told, cut>>

Emit ==
    /\ snap # <<>>
    /\ lastSeq' = Head(snap).seq
    /\ told' = told \cup {Head(snap)}
    /\ snap' = Tail(snap)
    /\ UNCHANGED <<req, cool, maintenance, trigger, seen, hist, event, upd, issued, own, begun, cut>>

-----------------------------------------------------------------------------
(* The updater *)

\* Two events of one write may be reported one after the other.
Wake ==
    /\ event /\ upd.at = "off"
    /\ upd' = [upd EXCEPT !.at = "read"]
    /\ event' \in BOOLEAN
    /\ UNCHANGED <<web, trigger, seen, hist, issued, begun, cut>>

Exits == upd' = Off

Seen(n) == \E i \in DOMAIN seen : seen[i] = n

\* Mutant: the store is not cut.
MarkedUncut(n) == {InsertAt(seen, i, n) : i \in {1} \cup {j \in 1 .. Len(seen) + 1 : "clock" \in Faults}}

Cut(s) == IF Len(s) <= MaxNonces THEN s ELSE SubSeq(s, 1, MaxNonces)

\* mark_seen(): sorted by seen_at, newest first, and cut.
Marked(n) ==
    {Cut(InsertAt(seen, i, n)) : i \in {1} \cup {j \in 1 .. Len(seen) + 1 : "clock" \in Faults}}

\* Mutant: the nonce is looked up and not marked.
ReadTriggerUnmarked ==
    /\ upd.at = "read"
    /\ \/ ~Seen(trigger.nonce) /\ upd' = [at |-> "marked", op |-> trigger.op, nonce |-> trigger.nonce]
       \/ Seen(trigger.nonce) /\ Exits
    /\ UNCHANGED <<web, trigger, seen, hist, event, issued, begun, cut>>

\* read_and_validate_trigger(): a nonce that was seen, or cannot be marked,
\* ends the updater; the error may come when the store has been replaced.
ReadTrigger ==
    /\ upd.at = "read"
    /\ \/ /\ ~Seen(trigger.nonce)
          /\ seen' \in Marked(trigger.nonce)
          /\ upd' = [at |-> "marked", op |-> trigger.op, nonce |-> trigger.nonce]
       \/ Seen(trigger.nonce) /\ Exits /\ UNCHANGED seen
       \/ /\ "disk" \in Faults /\ ~Seen(trigger.nonce)
          /\ seen' \in {seen} \cup Marked(trigger.nonce)
          /\ Exits
    /\ UNCHANGED <<web, trigger, hist, event, issued, begun, cut>>

Entry(phase) == [nonce |-> upd.nonce, phase |-> phase]

\* StatusFileWriter.begin() starts a history of its own.
Begin ==
    /\ upd.at = "marked"
    /\ hist' = <<Entry("trigger_received")>>
    /\ begun' = [begun EXCEPT ![upd.nonce] = @ + 1]
    /\ upd' = [upd EXCEPT !.at = "installing"]
    /\ UNCHANGED <<web, trigger, seen, event, issued, cut>>

\* write_phase() of everything up to the restart; is_sha_on_main() knows no
\* commit called "previous", so a rollback gets no further.
Install ==
    /\ upd.at = "installing"
    /\ \/ /\ upd.op = "update" /\ Phase = "trigger_received"
          /\ hist' = Append(hist, Entry("backup"))
          /\ UNCHANGED upd
       \/ hist' = Append(hist, Entry("rollback_failed")) /\ upd' = [upd EXCEPT !.at = "exit"]
    /\ UNCHANGED <<web, trigger, seen, event, issued, begun, cut>>

\* A new process of the main service: everything in memory is as at its start.
NewProcess ==
    /\ req' = [c \in Clients |-> NoRequest] /\ cool' = {}
    /\ maintenance' = FALSE
    /\ lastSeq' = 0 /\ snap' = <<>>
    /\ own' = {} /\ told' = {}

Restart ==
    /\ upd.at = "installing" /\ Phase = "backup"
    /\ hist' = Append(hist, Entry("restarting"))
    /\ upd' = [upd EXCEPT !.at = "restarted"]
    /\ NewProcess
    /\ UNCHANGED <<trigger, seen, event, issued, begun, cut>>

\* The health check or the way back decides.
Finish ==
    /\ upd.at = "restarted"
    /\ \E outcome \in Outcomes : hist' = Append(hist, Entry(outcome))
    /\ upd' = [upd EXCEPT !.at = "exit"]
    /\ UNCHANGED <<web, trigger, seen, event, issued, begun, cut>>

Exit ==
    /\ upd.at = "exit"
    /\ Exits
    /\ UNCHANGED <<web, trigger, seen, hist, event, issued, begun, cut>>

UpdaterStep == Wake \/ ReadTrigger \/ Begin \/ Install \/ Restart \/ Finish \/ Exit

Kill ==
    /\ "kill" \in Faults /\ upd.at # "off"
    /\ Exits
    /\ cut' = TRUE
    /\ UNCHANGED <<web, trigger, seen, hist, event, issued, begun>>

Crash ==
    /\ "crash" \in Faults
    /\ NewProcess
    /\ UNCHANGED <<trigger, seen, hist, event, upd, issued, begun, cut>>

Reboot ==
    /\ "reboot" \in Faults
    /\ NewProcess /\ Exits
    /\ event' = FALSE
    /\ cut' = (cut \/ upd.at # "off")
    /\ UNCHANGED <<trigger, seen, hist, issued, begun>>

Next ==
    \/ \E c \in Clients :
          \/ StartRequest(c) \/ StartBody(c) \/ Rollback(c) \/ Refused(c)
          \/ WriteTrigger(c) \/ WindowPasses(c)
    \/ Poll \/ Emit
    \/ UpdaterStep
    \/ Kill \/ Crash \/ Reboot

Spec == Init /\ [][Next]_vars

\* The updater's calls return (each has a timeout), and the broadcaster's loop
\* goes on whatever a page does.
Fairness == WF_vars(UpdaterStep) /\ WF_vars(Poll) /\ WF_vars(Emit)
FairSpec == Spec /\ Fairness

-----------------------------------------------------------------------------
(* Properties *)

TypeOK ==
    /\ req \in [Clients -> [at : {"none", "body", "write"}, op : {"update", "rollback"},
                            nonce : 0 .. MaxRequests]]
    /\ cool \subseteq Clients /\ maintenance \in BOOLEAN
    /\ lastSeq \in 0 .. 4
    /\ snap \in Seq([nonce : Nonces, seq : 1 .. 4])
    /\ trigger \in Trigger \cup {None}
    /\ seen \in Seq(Nonces) /\ Len(seen) <= MaxNonces
    /\ hist \in Seq([nonce : Nonces, phase : Outcomes \cup {"trigger_received", "backup", "restarting"}])
    /\ event \in BOOLEAN
    /\ upd \in [at : {"off", "read", "marked", "installing", "restarted", "exit"},
                op : {"update", "rollback"}, nonce : 0 .. MaxRequests]
    /\ issued \in 0 .. MaxRequests /\ cut \in BOOLEAN
    /\ begun \in [Nonces -> Nat]

\* A request is worked on once at most, however often the path unit reports
\* the trigger, whatever is killed or rebooted, and although the store keeps
\* the newest nonces only.
AtMostOnce == \A n \in Nonces : begun[n] <= 1

\* From the moment the updater can read the request of a process on, writes of
\* Venus OS to that process are answered busy: nobody writes through a service
\* that is about to be replaced.
BusyBeforeUpdate == trigger # None /\ trigger.nonce \in own => maintenance

\* A refusal with 409 is temporary: the phase in the status file, which only
\* the updater writes, becomes one that starts are accepted in.  (An updater
\* that was cut off leaves its last phase there for good.)
RefusalEnds == Running ~> (~Running \/ cut)

\* The pages are told how an update ended, by whichever process of the service
\* is up by then, provided one stays up.  (An update that ends before the
\* restart, after another one the same process has told of, is the exception:
\* _last_sequence is not reset.)
OutcomeTold ==
    <>[][~NewProcess]_web
        => \A n \in Nonces :
              (Len(hist) = 4 /\ hist[4].nonce = n)
                 ~> ([nonce |-> n, seq |-> 4] \in told
                        \/ \A i \in DOMAIN hist : hist[i].nonce # n)
=============================================================================
