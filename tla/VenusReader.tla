---------------------------- MODULE VenusReader ----------------------------
(***************************************************************************)
(* venus_mqtt_loop() of venus_reader.py: one connection to the broker of   *)
(* Venus OS, read with a timeout of one second, pings and the look at the  *)
(* age of the last VE.Bus message only when a read times out, a new        *)
(* connection five seconds after a failure; before the first one the       *)
(* portal id is looked for on the broker if the config does not name it.   *)
(* What the rest of the program sees of it are venus_mqtt_connected and    *)
(* venus_settings.  Saving other settings cancels the task and starts a    *)
(* new one: this is the life of one task.                                  *)
(***************************************************************************)
EXTENDS Naturals

VARIABLES
    lan,        \* the broker can be reached
    vebus,      \* a Multi or Quattro reports to the broker
    sock,       \* "none", "open", "closed" by the broker, or "dead": no word of it
    reader,     \* "discovering", "sleeping" before the next connect, or "reading"
    connected,  \* venus_mqtt_connected
    age,        \* vebus_last_ts: "never", "recent", "old" (30 s ago)
    ess,        \* ess_available in the reader's state
    told        \* ess_available in venus_settings

vars == <<lan, vebus, sock, reader, connected, age, ess, told>>

\* The config names the portal or not; what a task before has shown stays.
Init ==
    /\ lan = TRUE /\ vebus = TRUE
    /\ sock = "none" /\ reader \in {"discovering", "sleeping"} /\ connected \in BOOLEAN
    /\ age = "never" /\ ess = FALSE /\ told \in BOOLEAN

\* A broker that goes takes its end of an open connection with it, or does not
\* come to say so.
LanDown ==
    /\ lan /\ lan' = FALSE
    /\ sock' \in IF sock = "open" THEN {"closed", "dead"} ELSE {sock}
    /\ UNCHANGED <<vebus, reader, connected, age, ess, told>>

LanUp ==
    /\ ~lan /\ lan' = TRUE
    /\ UNCHANGED <<vebus, sock, reader, connected, age, ess, told>>

\* No ping for 90 s, which happens when the traffic leaves no second of silence.
BrokerDrops ==
    /\ sock = "open" /\ sock' = "closed"
    /\ UNCHANGED <<lan, vebus, reader, connected, age, ess, told>>

VebusChanges ==
    /\ vebus' = ~vebus
    /\ UNCHANGED <<lan, sock, reader, connected, age, ess, told>>

VebusAges ==
    /\ age = "recent" /\ age' = "old"
    /\ UNCHANGED <<lan, vebus, sock, reader, connected, ess, told>>

Discover ==
    /\ reader = "discovering" /\ lan
    /\ reader' = "sleeping"
    /\ UNCHANGED <<lan, vebus, sock, connected, age, ess, told>>

\* No broker, or one that does not name its portal in time: again in 30 s.
DiscoverFails ==
    /\ reader = "discovering"
    /\ connected' = FALSE
    /\ UNCHANGED <<lan, vebus, sock, reader, age, ess, told>>

Connect ==
    /\ reader = "sleeping" /\ lan
    /\ reader' = "reading" /\ sock' = "open" /\ connected' = TRUE
    /\ UNCHANGED <<lan, vebus, age, ess, told>>

\* Mutant: the flag is cleared only when a connection that was there fails.
ConnectFailsSilently ==
    /\ reader = "sleeping" /\ ~lan
    /\ UNCHANGED vars

ConnectFails ==
    /\ reader = "sleeping" /\ ~lan
    /\ connected' = FALSE
    /\ UNCHANGED <<lan, vebus, sock, reader, age, ess, told>>

\* A packet, of VE.Bus or of something else.
Packet ==
    /\ reader = "reading" /\ sock = "open"
    /\ \/ vebus /\ age' = "recent" /\ ess' = TRUE
       \/ UNCHANGED <<age, ess>>

\* The settings are copied with it.
Receive ==
    /\ Packet
    /\ told' = ess'
    /\ UNCHANGED <<lan, vebus, sock, reader, connected>>

\* A value that is none comes out as an error: the settings are not copied, the
\* connection is given up.
ReceiveRaises ==
    /\ Packet
    /\ reader' = "sleeping" /\ sock' = "none" /\ connected' = FALSE
    /\ UNCHANGED <<lan, vebus, told>>

\* A second of silence: the age is looked at, the settings are not copied.
\* The ping on a dead connection leaves without an error.
Timeout ==
    /\ reader = "reading" /\ sock \in {"open", "dead"}
    /\ ess' = (ess /\ age # "old")
    /\ UNCHANGED <<lan, vebus, sock, reader, connected, age, told>>

\* Where the error comes out of recv() the flag is cleared; where recv() returns
\* nothing, or the ping fails, only the inner loop ends.
Leave ==
    /\ reader' = "sleeping" /\ sock' = "none"
    /\ connected' \in {connected, FALSE}
    /\ UNCHANGED <<lan, vebus, age, ess, told>>

\* The broker has closed the connection, or reset it.
Closed == reader = "reading" /\ sock = "closed" /\ Leave

\* The kernel gives a dead connection up.
GivesUp == reader = "reading" /\ sock = "dead" /\ Leave

Next ==
    \/ LanDown \/ LanUp \/ BrokerDrops \/ VebusChanges \/ VebusAges
    \/ Discover \/ DiscoverFails \/ Connect \/ ConnectFails
    \/ Receive \/ ReceiveRaises \/ Timeout \/ Closed \/ GivesUp

Spec == Init /\ [][Next]_vars

\* Sleeps and connects end, the kernel gives up a dead connection after a
\* quarter of an hour, thirty seconds pass, a broker that can be reached names
\* its portal and has something to say that is read without an error.
FairSpec ==
    /\ Spec
    /\ WF_vars(Discover) /\ WF_vars(DiscoverFails)
    /\ WF_vars(Connect) /\ WF_vars(ConnectFails)
    /\ WF_vars(Closed) /\ WF_vars(GivesUp) /\ WF_vars(VebusAges)
    /\ SF_vars(Receive)

TypeOK ==
    /\ lan \in BOOLEAN /\ vebus \in BOOLEAN /\ connected \in BOOLEAN
    /\ sock \in {"none", "open", "closed", "dead"}
    /\ reader \in {"discovering", "sleeping", "reading"}
    /\ age \in {"never", "recent", "old"}
    /\ ess \in BOOLEAN /\ told \in BOOLEAN

\* What the page shows of Venus OS follows it although the end of a connection
\* does not clear the flag and a silent second is the only time the age is looked
\* at: a broker that is gone for good is shown so in the end, whatever the task
\* before has left, one that stays is connected again and again, and a Multi that
\* went silent is taken off, over reconnects and packets that cannot be read, if
\* the traffic of the others has gaps.
PageFollows ==
    /\ <>[](~lan) => <>[](~connected)
    /\ <>[]lan => []<>(connected /\ sock = "open")
    /\ (<>[](~vebus /\ lan) /\ SF_vars(Timeout)) => <>[](~told)
=============================================================================
