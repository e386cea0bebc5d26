--------------------------- MODULE MqttPublisher ---------------------------
(***************************************************************************)
(* mqtt_publish_loop() of mqtt_publisher.py, the broadcasts of webapp.py   *)
(* that feed its bounded queue, and the broker that keeps retained         *)
(* messages.  A reading is a number that grows; a message is a reading of  *)
(* one topic key (a device, or the virtual inverter).  Its time stamp is   *)
(* left out: two messages of the same reading may differ by it, and those  *)
(* of the virtual inverter, stamped when they are sent, always do.         *)
(*                                                                         *)
(* The interval between publishes and the back-off between connects are    *)
(* the freedom of when these actions happen.  Nothing but an MqttError     *)
(* comes out of the client: the loop would end with anything else.         *)
(***************************************************************************)
EXTENDS Naturals, Sequences, FiniteSetsExt

CONSTANTS
    Keys,           \* topic keys
    Virtual,        \* the one of the virtual inverter
    Pollers,        \* devices whose broadcast of the total may be held up
    QueueSize,      \* maxsize of mqtt_pub_queue
    MaxReading,     \* bound: readings of a key
    MaxFaults,      \* bound: links that break, brokers and publishers that restart
    None            \* nothing

\* A queue holds something.
MqttConstants ==
    /\ Virtual \in Keys
    /\ QueueSize \in Nat \ {0} /\ MaxReading \in Nat /\ MaxFaults \in Nat
    /\ None \notin 0..MaxReading

Reading == 0..MaxReading
Message == [key : Keys, reading : Reading]
Nothing == [k \in Keys |-> None]

VARIABLES
    reading,    \* the latest reading of each key
    clients,    \* ws_clients is not empty
    held,       \* the total a poll's broadcast has read and not queued yet
    queue,      \* mqtt_pub_queue
    publisher,  \* "connecting", "waiting", "publishing"
    link,       \* "none", "up", or "dead": broken and not noticed yet
    pending,    \* pending: the latest message of each key to be sent
    last,       \* last_published
    retained,   \* what the broker keeps of each state topic
    faults      \* faults so far

vars == <<reading, clients, held, queue, publisher, link, pending, last, retained, faults>>

Init ==
    /\ reading = [k \in Keys |-> 0] /\ clients = FALSE
    /\ held = [p \in Pollers |-> None]
    /\ queue = <<>> /\ publisher = "connecting" /\ link = "none"
    /\ pending = Nothing /\ last = Nothing /\ retained = Nothing
    /\ faults = 0

NewReading(k) ==
    /\ reading[k] < MaxReading
    /\ reading' = [reading EXCEPT ![k] = @ + 1]
    /\ UNCHANGED <<clients, held, queue, publisher, link, pending, last, retained, faults>>

ClientsChange ==
    /\ clients' = ~clients
    /\ UNCHANGED <<reading, held, queue, publisher, link, pending, last, retained, faults>>

\* Mutant: the queue has no maximum.
OfferUnbounded(k, r) == queue' = Append(queue, [key |-> k, reading |-> r])

\* put_nowait(): what finds the queue full is dropped, the new message that is.
Offer(k, r) ==
    queue' = IF Len(queue) < QueueSize
             THEN Append(queue, [key |-> k, reading |-> r]) ELSE queue

\* After a poll, to the pages and from there to the queue: without a page
\* nothing is published.  The pages take it without making the poll wait; and
\* as the poll loop waits for the broadcast, the snapshot of a device is still
\* the same when they do not.
Broadcast(k) ==
    /\ clients
    /\ Offer(k, reading[k])
    /\ UNCHANGED <<reading, clients, held, publisher, link, pending, last, retained, faults>>

\* The total belongs to all devices: while one poll's broadcast of it waits for
\* a slow page, others change it, and queue theirs first.
HoldTotal(p) ==
    /\ clients /\ held[p] = None
    /\ held' = [held EXCEPT ![p] = reading[Virtual]]
    /\ UNCHANGED <<reading, clients, queue, publisher, link, pending, last, retained, faults>>

\* The page has taken it, or is gone.
QueueTotal(p) ==
    /\ held[p] # None
    /\ Offer(Virtual, held[p])
    /\ held' = [held EXCEPT ![p] = None]
    /\ UNCHANGED <<reading, clients, publisher, link, pending, last, retained, faults>>

\* The client has connected and said so.
Connect ==
    /\ publisher = "connecting"
    /\ publisher' = "waiting" /\ link' = "up"
    /\ UNCHANGED <<reading, clients, held, queue, pending, last, retained, faults>>

\* Where the queue holds messages of a key.
Places(k) == {n \in DOMAIN queue : queue[n].key = k}

\* get() and then get_nowait() until the queue is empty: one message per key stays.
Drain ==
    /\ publisher = "waiting" /\ queue # <<>>
    /\ pending' = [k \in Keys |-> IF Places(k) = {} THEN pending[k]
                                  ELSE queue[Max(Places(k))].reading]
    /\ queue' = <<>>
    /\ UNCHANGED <<reading, clients, held, publisher, link, last, retained, faults>>

\* The interval has passed.
BeginPublish ==
    /\ publisher = "waiting" /\ pending # Nothing
    /\ publisher' = "publishing"
    /\ UNCHANGED <<reading, clients, held, queue, link, pending, last, retained, faults>>

\* A message that is what was sent last is skipped, unless its time stamp makes
\* another one of it; on a link that is dead it goes nowhere.
SkipOrSend(k) ==
    \/ k # Virtual /\ last[k] = pending[k] /\ UNCHANGED retained
    \/ retained' = IF link = "up" THEN [retained EXCEPT ![k] = pending[k]] ELSE retained

\* Mutant: what is remembered is the reading of the moment, not the one sent.
PublishRemembersCurrent(k) ==
    /\ publisher = "publishing" /\ pending[k] # None
    /\ last' = [last EXCEPT ![k] = reading[k]]
    /\ SkipOrSend(k)
    /\ pending' = [pending EXCEPT ![k] = None]
    /\ publisher' = IF pending' = Nothing THEN "waiting" ELSE "publishing"
    /\ UNCHANGED <<reading, clients, held, queue, link, faults>>

\* One pending message: remembered, and sent if it is not skipped.
Publish(k) ==
    /\ publisher = "publishing" /\ pending[k] # None
    /\ last' = [last EXCEPT ![k] = pending[k]]
    /\ SkipOrSend(k)
    /\ pending' = [pending EXCEPT ![k] = None]
    /\ publisher' = IF pending' = Nothing THEN "waiting" ELSE "publishing"
    /\ UNCHANGED <<reading, clients, held, queue, link, faults>>

\* Mutant: what was published is remembered over connections.
ForgetPending == pending' = Nothing /\ UNCHANGED last

\* pending and last_published belong to one connection.
Forget == pending' = Nothing /\ last' = Nothing

\* An MqttError: it comes out of a publish only, once the keep-alive has found
\* the link dead.
Notice ==
    /\ publisher = "publishing" /\ link = "dead"
    /\ link' = "none" /\ publisher' = "connecting"
    /\ Forget
    /\ UNCHANGED <<reading, clients, held, queue, retained, faults>>

Breaks ==
    /\ link = "up" /\ faults < MaxFaults
    /\ link' = "dead" /\ faults' = faults + 1
    /\ UNCHANGED <<reading, clients, held, queue, publisher, pending, last, retained>>

\* A broker without persistence forgets what it retained.
BrokerRestarts ==
    /\ faults < MaxFaults /\ faults' = faults + 1
    /\ link' = IF link = "up" THEN "dead" ELSE link
    /\ retained' = Nothing
    /\ UNCHANGED <<reading, clients, held, queue, publisher, pending, last>>

\* The settings are saved: the task is cancelled and awaited, a new queue and
\* a new task take over.
Reload ==
    /\ faults < MaxFaults /\ faults' = faults + 1
    /\ queue' = <<>> /\ publisher' = "connecting" /\ link' = "none"
    /\ Forget
    /\ UNCHANGED <<reading, clients, held, retained>>

Send == \E k \in Keys : Publish(k)

\* Something is to be sent that is not what was sent last, whatever its stamp.
Fresh == \E k \in Keys : pending[k] # None /\ (k = Virtual \/ last[k] # pending[k])

NoticeFresh == Fresh /\ Notice

Next ==
    \/ \E k \in Keys : NewReading(k) \/ Broadcast(k)
    \/ \E p \in Pollers : HoldTotal(p) \/ QueueTotal(p)
    \/ ClientsChange
    \/ Connect \/ Drain \/ BeginPublish \/ Send \/ Notice
    \/ Breaks \/ BrokerRestarts \/ Reload

Spec == Init /\ [][Next]_vars

\* The back-off ends at 30 s, the interval ends, the loop goes on, and once the
\* keep-alive has found a link dead a publish on it fails.  Each device is polled
\* about once a second while one get() empties the queue: every key finds room
\* again and again.  A broadcast that is held up need never end.
FairSpec ==
    /\ Spec
    /\ WF_vars(Connect) /\ WF_vars(Drain) /\ WF_vars(BeginPublish) /\ WF_vars(Send)
    /\ SF_vars(NoticeFresh)
    /\ \A k \in Keys : SF_vars(Broadcast(k))

TypeOK ==
    /\ reading \in [Keys -> Reading] /\ clients \in BOOLEAN
    /\ held \in [Pollers -> Reading \cup {None}]
    /\ queue \in Seq(Message) /\ Len(queue) <= QueueSize
    /\ publisher \in {"connecting", "waiting", "publishing"}
    /\ link \in {"none", "up", "dead"}
    /\ pending \in [Keys -> Reading \cup {None}]
    /\ last \in [Keys -> Reading \cup {None}]
    /\ retained \in [Keys -> Reading \cup {None}]
    /\ faults \in 0..MaxFaults

\* A message is left out only if the broker has it: as long as the link is up,
\* what the publisher remembers as sent is what is retained, although it is
\* remembered before it is sent.
SkipIsRight ==
    link = "up" => \A k \in Keys : last[k] \in {None, retained[k]}

\* While a page is connected, the broker ends up with the latest reading of
\* every key: the messages dropped at a full queue, the totals overtaken by
\* later ones, the publishes lost on a dead link that nothing but a further
\* publish notices or given up half way, a broker that forgot and reloads are
\* all made good.
BrokerCatchesUp ==
    \A k \in Keys, r \in Reading :
        <>[](clients /\ reading[k] = r) => <>[](retained[k] = r)
=============================================================================
