------------------------ MODULE UpdateRequest_proofs ------------------------
(***************************************************************************)
(* A request is worked on once at most, for any number of clients and      *)
(* requests, however small the store of seen nonces is, whatever is        *)
(* killed, crashes or cannot be written, as long as the clock is not set   *)
(* back.  A small store is enough because a trigger that was replaced      *)
(* never returns: the nonce to look up is the newest one marked, or none.  *)
(***************************************************************************)
EXTENDS UpdateRequest, SequenceTheorems, TLAPS

Typed ==
    /\ req \in [Clients -> [at : {"none", "body", "write"}, op : {"update", "rollback"}, nonce : Nat]]
    /\ trigger \in Trigger \cup {None}
    /\ seen \in Seq(Nonces)
    /\ upd \in [at : {"off", "read", "marked", "installing", "restarted", "exit"},
                op : {"update", "rollback"}, nonce : Nat]
    /\ issued \in 0 .. MaxRequests
    /\ begun \in [Nonces -> Nat]

\* A nonce the updater works on, or has worked on.
Taken(n) == begun[n] > 0 \/ (upd.at = "marked" /\ upd.nonce = n)

\* Requests on their way to the trigger file have nonces of their own, which
\* nobody has taken and the file does not hold.
Pending ==
    \A c \in Clients : req[c].at = "write" =>
        /\ req[c].nonce \in 1 .. issued
        /\ ~Taken(req[c].nonce)
        /\ trigger \in Trigger => trigger.nonce # req[c].nonce
        /\ \A d \in Clients \ {c} : req[d].at = "write" => req[d].nonce # req[c].nonce

Written ==
    /\ event \/ upd.at = "read" => trigger \in Trigger
    /\ trigger \in Trigger =>
          /\ trigger.nonce <= issued
          /\ Taken(trigger.nonce) => Seen(trigger.nonce)

Once ==
    /\ \A n \in Nonces : begun[n] <= 1 /\ (Taken(n) => n <= issued)
    /\ upd.at = "marked" => upd.nonce \in Nonces /\ begun[upd.nonce] = 0

IInv == Typed /\ Pending /\ Written /\ Once

-----------------------------------------------------------------------------
LEMMA Bounds == MaxRequests \in Nat /\ MaxNonces \in Nat \ {0}
BY RequestAssumption

LEMMA NoneIsNone == None \notin Trigger
BY RequestAssumption DEF Trigger, Nonces

LEMMA Cutting ==
    ASSUME NEW S, NEW s \in Seq(S), NEW m \in Nat \ {0}, m <= Len(s)
    PROVE  /\ SubSeq(s, 1, m) \in Seq(S)
           /\ Len(SubSeq(s, 1, m)) = m /\ SubSeq(s, 1, m)[1] = s[1]
<1>1. \A i \in 1 .. m : s[i] \in S
  BY ElementOfSeq
<1>2. QED
  BY <1>1, SubSeqProperties

\* What was marked last is found, even in a store of one entry.
LEMMA MarkedIsSeen ==
    ASSUME "clock" \notin Faults, Typed, NEW n \in Nonces, seen' \in Marked(n)
    PROVE  seen' \in Seq(Nonces) /\ Seen(n)'
<1> DEFINE s == <<n>> \o seen
<1>1. s \in Seq(Nonces) /\ Len(s) = Len(seen) + 1 /\ s[1] = n /\ Len(seen) \in Nat
  BY ConcatProperties, LenProperties DEF Typed
<1>2. InsertAt(seen, 1, n) = s
  <2>1. SubSeq(seen, 1, 1 - 1) = <<>>
    BY SubSeqEmpty
  <2>2. SubSeq(seen, 1, Len(seen)) = seen
    BY SubSeqFull DEF Typed
  <2>3. <<>> \o <<n>> = <<n>>
    BY ConcatEmptySeq
  <2>4. QED
    BY <2>1, <2>2, <2>3 DEF InsertAt
<1>3. seen' = Cut(s)
  BY <1>2 DEF Marked
<1>4. CASE Len(s) <= MaxNonces
  BY <1>1, <1>3, <1>4 DEF Cut, Seen
<1>5. CASE ~(Len(s) <= MaxNonces)
  <2>1. seen' = SubSeq(s, 1, MaxNonces)
    BY <1>3, <1>5 DEF Cut
  <2>2. seen' \in Seq(Nonces) /\ Len(seen') = MaxNonces /\ seen'[1] = n
    BY <1>1, <1>5, <2>1, Bounds, Cutting
  <2>3. QED
    BY <2>2, Bounds DEF Seen
<1>6. QED
  BY <1>4, <1>5

Request == [at : {"none", "body", "write"}, op : {"update", "rollback"}, nonce : Nat]

\* Steps that put no request on its way and leave the updater where it is.
LEMMA NoNewRequest ==
    ASSUME IInv, UNCHANGED <<trigger, seen, event, upd, issued, begun>>, req' \in [Clients -> Request],
           \A c \in Clients : req'[c].at = "write" => req'[c] = req[c]
    PROVE  IInv'
<1>1. \A n : Taken(n)' <=> Taken(n)
  BY DEF Taken
<1>2. Pending'
  BY <1>1 DEF IInv, Pending
<1>3. Typed' /\ Written' /\ Once'
  BY <1>1 DEF IInv, Typed, Written, Once, Seen, Request
<1>4. QED
  BY <1>2, <1>3 DEF IInv

\* A nonce that is handed out is new.
LEMMA EnterStep ==
    ASSUME IInv, NEW c \in Clients, NEW op \in {"update", "rollback"}, Enter(c, op),
           UNCHANGED <<trigger, seen, event, upd, begun>>
    PROVE  IInv'
<1>1. /\ issued' = issued + 1 /\ issued' \in Nonces /\ issued \in Nat
      /\ req' = [req EXCEPT ![c] = [at |-> "write", op |-> op, nonce |-> issued']]
  BY Bounds DEF Enter, IInv, Typed, Nonces
<1>2. \A n : Taken(n)' <=> Taken(n)
  BY DEF Taken
<1>3. /\ req'[c].nonce = issued' /\ ~Taken(issued')
      /\ \A d \in Clients \ {c} : req'[d] = req[d]
  BY <1>1 DEF IInv, Typed, Once
<1>4. trigger \in Trigger => trigger.nonce < issued'
  <2>1. trigger \in Trigger => trigger.nonce \in Nat
    BY Bounds DEF Trigger, Nonces
  <2>2. QED
    BY <1>1, <2>1 DEF IInv, Written
<1>5. Pending'
  BY <1>1, <1>2, <1>3, <1>4 DEF IInv, Pending
<1>6. Typed'
  BY <1>1, Bounds DEF IInv, Typed, Nonces
<1>7. Written' /\ Once'
  <2>1. trigger \in Trigger => trigger.nonce \in Nat
    BY Bounds DEF Trigger, Nonces
  <2>2. Written'
    BY <1>1, <1>2, <2>1 DEF IInv, Written, Seen
  <2>3. Once'
    BY <1>1, <1>2, Bounds DEF IInv, Once, Nonces
  <2>4. QED
    BY <2>2, <2>3
<1>8. QED
  BY <1>5, <1>6, <1>7 DEF IInv

\* A trigger that is taken up was not taken before.
LEMMA ReadTriggerStep == ASSUME "clock" \notin Faults, IInv, ReadTrigger PROVE IInv'
<1>1. trigger \in Trigger /\ trigger.nonce \in Nonces /\ trigger.nonce <= issued
  BY DEF ReadTrigger, IInv, Written, Trigger
<1>2. UNCHANGED <<req, trigger, event, issued, begun>>
  BY DEF ReadTrigger, web
<1>3. CASE seen' \in Marked(trigger.nonce) /\ ~Seen(trigger.nonce)
  <2>1. seen' \in Seq(Nonces) /\ Seen(trigger.nonce)'
    BY <1>1, <1>2, <1>3, MarkedIsSeen DEF IInv
  <2>2. begun[trigger.nonce] = 0
    BY <1>1, <1>3 DEF IInv, Typed, Written, Taken
  <2>3. upd' \in {Off, [at |-> "marked", op |-> trigger.op, nonce |-> trigger.nonce]}
    BY <1>3 DEF ReadTrigger, Exits
  <2>4. \A n \in Nonces : Taken(n)' => Taken(n) \/ n = trigger.nonce
    BY <1>2, <2>3 DEF Taken, Off
  <2>5. Typed'
    BY <1>1, <1>2, <2>1, <2>3 DEF IInv, Typed, Off, Trigger, Nonces
  <2>6. Pending'
    BY <1>1, <1>2, <2>4, Bounds DEF IInv, Pending, Typed, Nonces
  <2>7. Written'
    BY <1>1, <1>2, <2>1 DEF IInv, Written
  <2>8. Once'
    BY <1>1, <1>2, <2>2, <2>3, <2>4 DEF IInv, Once, Off
  <2>9. QED
    BY <2>5, <2>6, <2>7, <2>8 DEF IInv
<1>4. CASE upd' = Off /\ seen' = seen
  <2>1. \A n \in Nonces : Taken(n)' => Taken(n)
    BY <1>2, <1>4 DEF Taken, Off
  <2>2. Seen(trigger.nonce)' <=> Seen(trigger.nonce)
    BY <1>2, <1>4 DEF Seen
  <2>3. Typed'
    BY <1>2, <1>4 DEF IInv, Typed, Off
  <2>4. Pending'
    BY <1>2, <2>1, Bounds DEF IInv, Pending, Typed, Nonces
  <2>5. Written'
    BY <1>1, <1>2, <2>1, <2>2 DEF IInv, Written
  <2>6. Once'
    BY <1>2, <1>4, <2>1 DEF IInv, Once, Off
  <2>7. QED
    BY <2>3, <2>4, <2>5, <2>6 DEF IInv
<1>5. QED
  BY <1>3, <1>4 DEF ReadTrigger, Exits

\* The update that is begun is the one that was taken.
LEMMA BeginStep == ASSUME IInv, Begin PROVE IInv'
<1>1. /\ upd.at = "marked" /\ upd.nonce \in Nonces /\ begun[upd.nonce] = 0
      /\ begun' = [begun EXCEPT ![upd.nonce] = 1]
      /\ upd' = [upd EXCEPT !.at = "installing"]
      /\ UNCHANGED <<req, trigger, seen, event, issued>>
  <2>1. upd.at = "marked" /\ upd.nonce \in Nonces /\ begun[upd.nonce] = 0
    BY DEF Begin, IInv, Once
  <2>2. begun' = [begun EXCEPT ![upd.nonce] = begun[upd.nonce] + 1]
    BY DEF Begin
  <2>3. begun[upd.nonce] + 1 = 1
    BY <2>1
  <2>4. upd' = [upd EXCEPT !.at = "installing"] /\ UNCHANGED <<req, trigger, seen, event, issued>>
    BY DEF Begin, web
  <2>5. QED
    BY <2>1, <2>2, <2>3, <2>4
<1>2. \A n \in Nonces : Taken(n)' <=> Taken(n)
  BY <1>1 DEF IInv, Typed, Taken
<1>3. Typed'
  BY <1>1 DEF IInv, Typed
<1>4. Pending'
  BY <1>1, <1>2, Bounds DEF IInv, Pending, Typed, Nonces
<1>5. Written'
  <2>1. Seen(trigger.nonce)' <=> Seen(trigger.nonce)
    BY <1>1 DEF Seen
  <2>2. trigger \in Trigger => trigger.nonce \in Nonces
    BY DEF Trigger
  <2>3. QED
    BY <1>1, <1>2, <2>1, <2>2 DEF IInv, Written, Typed
<1>6. Once'
  BY <1>1, <1>2 DEF IInv, Typed, Once
<1>7. QED
  BY <1>3, <1>4, <1>5, <1>6 DEF IInv

\* What is written into the trigger file has not been taken.
LEMMA WriteTriggerStep == ASSUME IInv, NEW c \in Clients, WriteTrigger(c) PROVE IInv'
<1>1. /\ req[c].at = "write" /\ req' = [req EXCEPT ![c] = NoRequest]
      /\ UNCHANGED <<seen, upd, issued, begun>>
  BY DEF WriteTrigger
<1>2. req' \in [Clients -> Request] /\ \A d \in Clients : req'[d].at = "write" => d # c /\ req'[d] = req[d]
  BY <1>1 DEF IInv, Typed, Request, NoRequest
<1>3. CASE UNCHANGED <<trigger, event>>
  BY <1>1, <1>2, <1>3, NoNewRequest
<1>4. CASE trigger' = [nonce |-> req[c].nonce, op |-> req[c].op]
  <2>1. \A n : (Taken(n)' <=> Taken(n)) /\ (Seen(n)' <=> Seen(n))
    BY <1>1 DEF Taken, Seen
  <2>2. /\ req[c].nonce \in 1 .. issued /\ ~Taken(req[c].nonce)
        /\ \A d \in Clients \ {c} : req[d].at = "write" => req[d].nonce # req[c].nonce
    BY <1>1 DEF IInv, Pending
  <2>3. trigger' \in Trigger /\ trigger'.nonce = req[c].nonce
    BY <1>4, <2>2, Bounds DEF IInv, Typed, Trigger, Nonces
  <2>4. Typed'
    BY <1>1, <1>2, <2>3 DEF IInv, Typed, Request, Trigger, Nonces
  <2>5. Pending'
    BY <1>1, <1>2, <2>1, <2>2, <2>3 DEF IInv, Pending
  <2>6. Written'
    BY <1>1, <2>1, <2>2, <2>3 DEF IInv, Written, Typed
  <2>7. Once'
    BY <1>1, <2>1 DEF IInv, Once
  <2>8. QED
    BY <2>4, <2>5, <2>6, <2>7 DEF IInv
<1>5. QED
  BY <1>3, <1>4 DEF WriteTrigger

LEMMA Inductive == ASSUME "clock" \notin Faults PROVE Spec => []IInv
<1>1. Init => IInv
  <2>1. Init => Typed
    BY Bounds DEF Init, Typed, NoRequest, Off, Nonces
  <2>2. Init => Pending /\ Written /\ Once
    BY NoneIsNone DEF Init, Pending, Written, Once, Taken, NoRequest, Off
  <2>3. QED
    BY <2>1, <2>2 DEF IInv
<1>2. IInv /\ [Next]_vars => IInv'
  <2> SUFFICES ASSUME IInv, [Next]_vars PROVE IInv'
    OBVIOUS
  <2>0. req \in [Clients -> Request] /\ NoRequest \in Request
    BY DEF IInv, Typed, Request, NoRequest
  <2>1. ASSUME NEW c \in Clients, StartRequest(c) PROVE IInv'
    <3>1. req' = [req EXCEPT ![c] = [req[c] EXCEPT !.at = "body"]]
      BY <2>1 DEF StartRequest
    <3>2. [req[c] EXCEPT !.at = "body"] \in Request /\ [req[c] EXCEPT !.at = "body"].at = "body"
      BY <2>0 DEF Request
    <3>3. UNCHANGED <<trigger, seen, event, upd, issued, begun>>
      BY <2>1 DEF StartRequest
    <3>4. QED
      BY <2>0, <3>1, <3>2, <3>3, NoNewRequest
  <2>2. ASSUME NEW c \in Clients, StartBody(c) PROVE IInv'
    <3>1. UNCHANGED <<trigger, seen, event, upd, begun>>
      BY <2>2 DEF StartBody
    <3>2. CASE Enter(c, "update")
      BY <3>1, <3>2, EnterStep
    <3>3. CASE req' = [req EXCEPT ![c] = NoRequest] /\ UNCHANGED issued
      BY <2>0, <3>1, <3>3, NoNewRequest DEF NoRequest
    <3>4. QED
      BY <2>2, <3>2, <3>3 DEF StartBody
  <2>3. ASSUME NEW c \in Clients, Rollback(c) PROVE IInv'
    BY <2>3, EnterStep DEF Rollback
  <2>4. ASSUME NEW c \in Clients, Refused(c) \/ WindowPasses(c) PROVE IInv'
    BY <2>0, <2>4, NoNewRequest DEF Refused, WindowPasses
  <2>5. ASSUME NEW c \in Clients, WriteTrigger(c) PROVE IInv'
    BY <2>5, WriteTriggerStep
  <2>6. CASE Poll \/ Emit \/ UNCHANGED vars
    BY <2>0, <2>6, NoNewRequest DEF Poll, Emit, vars
  <2>7. CASE Wake \/ Install \/ Finish \/ Exit \/ Kill
    BY <2>7 DEF Wake, Install, Finish, Exit, Kill, Exits, Off, web, IInv, Typed, Pending, Written,
                Once, Taken, Seen
  <2>8. CASE Crash
    BY <2>0, <2>8, NoNewRequest DEF Crash, NewProcess, NoRequest
  <2>9. CASE Restart \/ Reboot
    BY <2>9 DEF Restart, Reboot, NewProcess, NoRequest, Exits, Off, IInv, Typed, Pending, Written,
                Once, Taken, Seen
  <2>10. CASE ReadTrigger
    BY <2>10, ReadTriggerStep
  <2>11. CASE Begin
    BY <2>11, BeginStep
  <2>12. QED
    BY <2>1, <2>2, <2>3, <2>4, <2>5, <2>6, <2>7, <2>8, <2>9, <2>10, <2>11 DEF Next, UpdaterStep
<1>3. QED
  BY <1>1, <1>2, PTL DEF Spec

\* However often the path unit reports a trigger, and whatever happens to the
\* updater, the service or the machine: no request is worked on twice.
THEOREM AtMostOnceHolds == ASSUME "clock" \notin Faults PROVE Spec => []AtMostOnce
<1>1. IInv => AtMostOnce
  BY DEF IInv, Once, AtMostOnce
<1>2. QED
  BY <1>1, Inductive, PTL

-----------------------------------------------------------------------------
\* A process that has handed out a nonce is in maintenance mode until it ends.
HandedOut ==
    /\ own # {} => maintenance
    /\ \A c \in Clients : req[c].at = "write" => maintenance
    /\ req \in [Clients -> [at : {"none", "body", "write"}, op : {"update", "rollback"}, nonce : Nat]]
    /\ issued \in Nat

\* Writes of Venus OS are answered busy before the updater can read the request.
THEOREM BusyBeforeUpdateHolds == Spec => []BusyBeforeUpdate
<1>1. Init => HandedOut
  BY DEF Init, HandedOut, NoRequest
<1>2. HandedOut /\ [Next]_vars => HandedOut'
  <2> USE DEF HandedOut, NoRequest, NewProcess, web, Passes, Enter
  <2> SUFFICES ASSUME HandedOut, [Next]_vars PROVE HandedOut'
    OBVIOUS
  <2>1. ASSUME NEW c \in Clients, StartBody(c) \/ Rollback(c) PROVE HandedOut'
    <3>1. CASE maintenance' = TRUE /\ \E op \in {"update", "rollback"} : Enter(c, op)
      BY <3>1
    <3>2. CASE req' = [req EXCEPT ![c] = NoRequest] /\ UNCHANGED <<maintenance, issued, own>>
      BY <3>2
    <3>3. QED
      BY <2>1, <3>1, <3>2 DEF StartBody, Rollback
  <2>2. ASSUME NEW c \in Clients, StartRequest(c) \/ Refused(c) \/ WriteTrigger(c) \/ WindowPasses(c)
        PROVE  HandedOut'
    BY <2>2 DEF StartRequest, Refused, WriteTrigger, WindowPasses
  <2>3. CASE Restart \/ Crash \/ Reboot
    BY <2>3 DEF Restart, Crash, Reboot
  <2>4. CASE Poll \/ Emit \/ Wake \/ ReadTrigger \/ Begin \/ Install \/ Finish \/ Exit \/ Kill
             \/ UNCHANGED vars
    BY <2>4 DEF Poll, Emit, Wake, ReadTrigger, Begin, Install, Finish, Exit, Kill, vars
  <2>5. QED
    BY <2>1, <2>2, <2>3, <2>4 DEF Next, UpdaterStep
<1>3. HandedOut => BusyBeforeUpdate
  BY DEF HandedOut, BusyBeforeUpdate
<1>4. QED
  BY <1>1, <1>2, <1>3, PTL DEF Spec
-----------------------------------------------------------------------------
(***************************************************************************)
(* Types.  That an update's history has four entries at most, and that the *)
(* broadcaster never counts further, takes the place of the updater: what  *)
(* it has written when it is there.                                        *)
(***************************************************************************)

Phases == Outcomes \cup {"trigger_received", "backup", "restarting"}
HistEntry == [nonce : Nonces, phase : Phases]
Told == [nonce : Nonces, seq : 1 .. 4]
Job == [at : {"off", "read", "marked", "installing", "restarted", "exit"},
        op : {"update", "rollback"}, nonce : 0 .. MaxRequests]
Wish == [at : {"none", "body", "write"}, op : {"update", "rollback"}, nonce : 0 .. MaxRequests]

WebTypes ==
    /\ req \in [Clients -> Wish] /\ cool \subseteq Clients /\ maintenance \in BOOLEAN
    /\ issued \in 0 .. MaxRequests
    /\ \A c \in Clients : req[c].at = "write" => req[c].nonce \in Nonces

PageTypes == lastSeq \in 0 .. 4 /\ snap \in Seq(Told)

TriggerTypes ==
    /\ trigger \in Trigger \cup {None} /\ event \in BOOLEAN
    /\ event \/ upd.at = "read" => trigger \in Trigger

StoreTypes == seen \in Seq(Nonces) /\ Len(seen) <= MaxNonces

JobTypes ==
    /\ upd \in Job /\ cut \in BOOLEAN /\ begun \in [Nonces -> Nat]
    /\ upd.at \in {"marked", "installing", "restarted"} => upd.nonce \in Nonces

HistTypes ==
    /\ hist \in Seq(HistEntry) /\ Len(hist) <= 4
    /\ upd.at = "installing" =>
          /\ Len(hist) \in {1, 2}
          /\ hist[Len(hist)].phase = "trigger_received" <=> Len(hist) = 1
    /\ upd.at = "restarted" => Len(hist) = 3

Types == WebTypes /\ PageTypes /\ TriggerTypes /\ StoreTypes /\ JobTypes /\ HistTypes

LEMMA OffType == Off \in Job /\ NoRequest \in Wish
  BY Bounds DEF Off, Job, NoRequest, Wish

LEMMA NewProcessTypes == ASSUME Types, NewProcess, UNCHANGED issued PROVE WebTypes' /\ PageTypes'
<1>1. WebTypes'
  BY OffType DEF NewProcess, Types, WebTypes, NoRequest
<1>2. <<>> \in Seq(Told)
  BY EmptySeq
<1> QED BY <1>1, <1>2 DEF NewProcess, PageTypes

\* A store into which a nonce was marked, wherever it was put.
LEMMA MarkedTypes ==
    ASSUME StoreTypes, NEW n \in Nonces, NEW s \in Marked(n)
    PROVE  s \in Seq(Nonces) /\ Len(s) <= MaxNonces
<1>1. PICK i \in 1 .. Len(seen) + 1 : s = Cut(InsertAt(seen, i, n))
  BY LenProperties DEF Marked, StoreTypes
<1> DEFINE t == InsertAt(seen, i, n)
<1>2. t \in Seq(Nonces)
  <2>1. \A k \in 1 .. Len(seen) : seen[k] \in Nonces
    BY ElementOfSeq DEF StoreTypes
  <2>2. Len(seen) \in Nat /\ i \in Int /\ i - 1 \in Int /\ i - 1 <= Len(seen) /\ i >= 1
    BY LenProperties DEF StoreTypes
  <2>3. \A k \in 1 .. (i - 1) : seen[k] \in Nonces
    BY <2>1, <2>2
  <2>4. SubSeq(seen, 1, i - 1) \in Seq(Nonces)
    BY <2>2, <2>3, SubSeqProperties
  <2>5. \A k \in i .. Len(seen) : seen[k] \in Nonces
    BY <2>1, <2>2
  <2>6. SubSeq(seen, i, Len(seen)) \in Seq(Nonces)
    BY <2>2, <2>5, SubSeqProperties
  <2>7. <<n>> \in Seq(Nonces)
    OBVIOUS
  <2> QED BY <2>4, <2>6, <2>7, ConcatProperties DEF InsertAt
<1> HIDE DEF t
<1>3. s = Cut(t)
  BY <1>1 DEF t
<1>4. CASE Len(t) <= MaxNonces
  BY <1>2, <1>3, <1>4 DEF Cut
<1>5. CASE ~(Len(t) <= MaxNonces)
  <2>1. Len(t) \in Nat /\ MaxNonces <= Len(t)
    BY <1>2, <1>5, Bounds, LenProperties
  <2>2. s = SubSeq(t, 1, MaxNonces)
    BY <1>3, <1>5 DEF Cut
  <2>3. SubSeq(t, 1, MaxNonces) \in Seq(Nonces) /\ Len(SubSeq(t, 1, MaxNonces)) = MaxNonces
    BY <1>2, <2>1, Bounds, Cutting
  <2> QED BY <2>2, <2>3, Bounds
<1> QED BY <1>4, <1>5

\* What the updater appends is an entry of the request it works on.
LEMMA AppendTypes ==
    ASSUME Types, upd.nonce \in Nonces, NEW p \in Phases, hist' = Append(hist, Entry(p))
    PROVE  /\ hist' \in Seq(HistEntry) /\ Len(hist') = Len(hist) + 1 /\ Len(hist) \in Nat
           /\ hist'[Len(hist')].phase = p
<1> DEFINE e == Entry(p)
<1>1. e \in HistEntry /\ e.phase = p
  BY DEF Entry, HistEntry
<1>2. hist \in Seq(HistEntry) /\ hist' = Append(hist, e)
  BY DEF Types, HistTypes
<1> HIDE DEF e
<1>3. /\ Append(hist, e) \in Seq(HistEntry) /\ Len(Append(hist, e)) = Len(hist) + 1
      /\ Append(hist, e)[Len(hist) + 1] = e
  BY <1>1, <1>2, AppendProperties
<1> QED BY <1>1, <1>2, <1>3, LenProperties

\* The phase the file shows is that of the last entry.
LEMMA PhaseFacts ==
    ASSUME Types, upd.at = "installing"
    PROVE  Phase = hist[Len(hist)].phase
<1>1. hist # <<>>
  BY EmptySeq DEF Types, HistTypes
<1> QED BY <1>1 DEF Phase, Last

LEMMA WebSteps ==
    ASSUME Types, NEW c \in Clients,
           StartRequest(c) \/ StartBody(c) \/ Rollback(c) \/ Refused(c)
           \/ WriteTrigger(c) \/ WindowPasses(c)
    PROVE  Types'
<1>1. UNCHANGED <<lastSeq, snap, seen, hist, upd, begun, cut>>
  BY DEF StartRequest, StartBody, Rollback, Refused, WriteTrigger, WindowPasses
<1>2. PageTypes' /\ StoreTypes' /\ JobTypes' /\ HistTypes'
  BY <1>1 DEF Types, PageTypes, StoreTypes, JobTypes, HistTypes
<1>3. ASSUME NEW op \in {"update", "rollback"}, Enter(c, op), cool' \subseteq Clients
      PROVE  WebTypes'
  <2>1. issued' \in 0 .. MaxRequests /\ issued' \in Nonces
    BY <1>3, Bounds DEF Enter, Types, WebTypes, Nonces
  <2>2. req' = [req EXCEPT ![c] = [at |-> "write", op |-> op, nonce |-> issued']]
    BY <1>3 DEF Enter
  <2> DEFINE w == [at |-> "write", op |-> op, nonce |-> issued']
  <2>3. w \in Wish /\ w.nonce \in Nonces
    BY <2>1 DEF Wish
  <2>4. req' = [req EXCEPT ![c] = w]
    BY <2>2
  <2> HIDE DEF w
  <2>5. req' \in [Clients -> Wish] /\ \A d \in Clients : req'[d] = IF d = c THEN w ELSE req[d]
    BY <2>3, <2>4 DEF Types, WebTypes
  <2>6. maintenance' = TRUE
    BY <1>3 DEF Enter
  <2> QED BY <1>3, <2>1, <2>3, <2>5, <2>6 DEF Types, WebTypes
<1>4. ASSUME UNCHANGED <<maintenance, issued>>, cool' \subseteq Clients,
             NEW w \in Wish, w.at # "write" \/ w = req[c], req' = [req EXCEPT ![c] = w]
      PROVE  WebTypes'
  BY <1>4 DEF Types, WebTypes
<1>5. cool' \subseteq Clients
  BY DEF StartRequest, StartBody, Rollback, Refused, WriteTrigger, WindowPasses, Passes, Types, WebTypes
<1>6. CASE StartRequest(c)
  <2>1. [req[c] EXCEPT !.at = "body"] \in Wish
    BY DEF Types, WebTypes, Wish
  <2>2. [req[c] EXCEPT !.at = "body"].at = "body"
    BY DEF Types, WebTypes, Wish
  <2>3. req' = [req EXCEPT ![c] = [req[c] EXCEPT !.at = "body"]]
    BY <1>6 DEF StartRequest
  <2>4. WebTypes'
    BY <1>4, <1>5, <1>6, <2>1, <2>2, <2>3 DEF StartRequest
  <2>5. TriggerTypes'
    BY <1>6 DEF StartRequest, Types, TriggerTypes
  <2> QED BY <1>2, <2>4, <2>5 DEF Types
<1>7. CASE StartBody(c) \/ Rollback(c)
  <2>1. WebTypes'
    BY <1>3, <1>4, <1>5, <1>7, OffType DEF StartBody, Rollback, NoRequest
  <2>2. TriggerTypes'
    BY <1>7 DEF StartBody, Rollback, Types, TriggerTypes
  <2> QED BY <1>2, <2>1, <2>2 DEF Types
<1>8. CASE Refused(c) \/ WindowPasses(c)
  <2>1. WebTypes'
    BY <1>5, <1>8 DEF Refused, WindowPasses, Types, WebTypes
  <2>2. TriggerTypes'
    BY <1>8 DEF Refused, WindowPasses, Types, TriggerTypes
  <2> QED BY <1>2, <2>1, <2>2 DEF Types
<1>9. CASE WriteTrigger(c)
  <2>1. WebTypes'
    BY <1>4, <1>5, <1>9, OffType DEF WriteTrigger, NoRequest
  <2>2. TriggerTypes'
    <3>1. CASE UNCHANGED <<trigger, event>>
      BY <1>1, <3>1 DEF Types, TriggerTypes
    <3>2. CASE trigger' = [nonce |-> req[c].nonce, op |-> req[c].op] /\ Notices
      <4>1. trigger' \in Trigger
        BY <1>9, <3>2 DEF WriteTrigger, Types, WebTypes, Wish, Trigger
      <4>2. event' \in BOOLEAN
        BY <3>2 DEF Notices, Types, TriggerTypes
      <4> QED BY <4>1, <4>2 DEF TriggerTypes
    <3> QED BY <1>9, <3>1, <3>2 DEF WriteTrigger
  <2> QED BY <1>2, <2>1, <2>2 DEF Types
<1> QED BY <1>6, <1>7, <1>8, <1>9

\* What the pages are still to be told is read from the history, from where they are.
LEMMA PageSteps == ASSUME Types, Poll \/ Emit PROVE Types'
<1>1. UNCHANGED <<req, cool, maintenance, trigger, seen, hist, event, upd, issued, begun, cut>>
  BY DEF Poll, Emit
<1>2. WebTypes' /\ TriggerTypes' /\ StoreTypes' /\ JobTypes' /\ HistTypes'
  BY <1>1 DEF Types, WebTypes, TriggerTypes, StoreTypes, JobTypes, HistTypes
<1>3. PageTypes'
  <2>1. CASE Poll
    <3> DEFINE n == Len(hist) - lastSeq
               entry(i) == [nonce |-> hist[lastSeq + i].nonce, seq |-> lastSeq + i]
    <3>1. Len(hist) \in Nat /\ Len(hist) <= 4 /\ lastSeq \in 0 .. 4 /\ Len(hist) > lastSeq
      BY <2>1, LenProperties DEF Poll, Types, HistTypes, PageTypes
    <3>2. n \in Nat
      BY <3>1
    <3>3. ASSUME NEW i \in 1 .. n PROVE entry(i) \in Told
      <4>1. lastSeq + i \in 1 .. Len(hist) /\ lastSeq + i \in 1 .. 4
        BY <3>1
      <4>2. hist[lastSeq + i] \in HistEntry
        BY <4>1, ElementOfSeq DEF Types, HistTypes
      <4> QED BY <4>1, <4>2 DEF HistEntry, Told
    <3>4. snap' = [i \in 1 .. n |-> entry(i)] /\ lastSeq' = lastSeq
      BY <2>1 DEF Poll
    <3> HIDE DEF n, entry
    <3>5. snap' \in [1 .. n -> Told]
      BY <3>3, <3>4
    <3>6. snap' \in Seq(Told)
      BY <3>2, <3>5, SeqDef
    <3> QED BY <3>1, <3>4, <3>6 DEF PageTypes
  <2>2. CASE Emit
    <3>1. Head(snap) \in Told /\ Tail(snap) \in Seq(Told)
      BY <2>2, HeadTailProperties DEF Emit, Types, PageTypes
    <3>2. Head(snap).seq \in 0 .. 4
      BY <3>1 DEF Told
    <3> QED BY <2>2, <3>1, <3>2 DEF Emit, PageTypes
  <2> QED BY <2>1, <2>2
<1> QED BY <1>2, <1>3 DEF Types

LEMMA UpdaterTypes == ASSUME Types, UpdaterStep PROVE Types'
<1>1. ASSUME UNCHANGED <<web, issued>> PROVE WebTypes' /\ PageTypes'
  BY <1>1 DEF web, Types, WebTypes, PageTypes
<1>2. ASSUME UNCHANGED seen PROVE StoreTypes'
  BY <1>2 DEF Types, StoreTypes
<1>3. ASSUME UNCHANGED <<trigger, event>>, upd'.at # "read" PROVE TriggerTypes'
  BY <1>3 DEF Types, TriggerTypes
<1>4. CASE Wake
  <2>1. upd' = [upd EXCEPT !.at = "read"] /\ trigger \in Trigger
    BY <1>4 DEF Wake, Types, TriggerTypes
  <2>2. upd' \in Job /\ upd'.at = "read"
    BY <2>1 DEF Types, JobTypes, Job
  <2>3. TriggerTypes'
    BY <1>4, <2>1 DEF Wake, Types, TriggerTypes
  <2>4. JobTypes' /\ HistTypes'
    BY <1>4, <2>2 DEF Wake, Types, JobTypes, HistTypes
  <2> QED BY <1>1, <1>2, <1>4, <2>3, <2>4 DEF Wake, Types
<1>5. CASE ReadTrigger
  <2>1. trigger \in Trigger /\ trigger.nonce \in Nonces /\ trigger.nonce \in 0 .. MaxRequests
        /\ trigger.op \in {"update", "rollback"}
    BY <1>5, Bounds DEF ReadTrigger, Types, TriggerTypes, Trigger, Nonces
  <2>2. upd' \in {Off, [at |-> "marked", op |-> trigger.op, nonce |-> trigger.nonce]}
    BY <1>5 DEF ReadTrigger, Exits
  <2>3. upd' \in Job /\ upd'.at \in {"off", "marked"}
        /\ (upd'.at = "marked" => upd'.nonce \in Nonces)
    BY <2>1, <2>2, OffType DEF Off, Job
  <2>4. StoreTypes'
    BY <1>2, <1>5, <2>1, MarkedTypes DEF ReadTrigger, Types, StoreTypes
  <2>5. UNCHANGED <<web, trigger, hist, event, issued, begun, cut>>
    BY <1>5 DEF ReadTrigger
  <2>6. JobTypes' /\ HistTypes'
    BY <2>3, <2>5 DEF Types, JobTypes, HistTypes
  <2> QED BY <1>1, <1>3, <2>3, <2>4, <2>5, <2>6 DEF Types
<1>6. CASE Begin
  <2>1. upd.nonce \in Nonces /\ upd' = [upd EXCEPT !.at = "installing"]
        /\ UNCHANGED <<web, trigger, seen, event, issued, cut>>
    BY <1>6 DEF Begin, Types, JobTypes
  <2>2. upd' \in Job /\ upd'.at = "installing" /\ upd'.nonce = upd.nonce
    BY <2>1 DEF Types, JobTypes, Job
  <2>3. begun' = [begun EXCEPT ![upd.nonce] = begun[upd.nonce] + 1]
    BY <1>6 DEF Begin
  <2>4. begun' \in [Nonces -> Nat]
    BY <2>1, <2>3 DEF Types, JobTypes
  <2>5. JobTypes'
    BY <2>1, <2>2, <2>4 DEF Types, JobTypes
  <2>6. HistTypes'
    <3> DEFINE e == Entry("trigger_received")
    <3>1. e \in HistEntry /\ hist' = <<e>>
      BY <1>6, <2>1 DEF Begin, Entry, HistEntry, Phases
    <3> HIDE DEF e
    <3>2. hist' \in Seq(HistEntry) /\ Len(hist') = 1 /\ hist'[1] = e
      BY <3>1
    <3>3. e.phase = "trigger_received"
      BY DEF e, Entry
    <3> QED BY <2>2, <3>2, <3>3 DEF HistTypes
  <2> QED BY <1>1, <1>2, <1>3, <2>1, <2>2, <2>5, <2>6 DEF Types
<1>7. CASE Install
  <2>1. upd.at = "installing" /\ upd.nonce \in Nonces /\ upd \in Job
        /\ UNCHANGED <<web, trigger, seen, event, issued, begun, cut>>
    BY <1>7 DEF Install, Types, JobTypes
  <2>2. Len(hist) \in {1, 2} /\ (Phase = "trigger_received" => Len(hist) = 1)
    BY <2>1, PhaseFacts DEF Types, HistTypes
  <2>3. CASE Phase = "trigger_received" /\ hist' = Append(hist, Entry("backup")) /\ UNCHANGED upd
    <3>0. /\ hist' \in Seq(HistEntry) /\ Len(hist') = Len(hist) + 1
          /\ hist'[Len(hist')].phase = "backup"
      BY <2>1, <2>3, AppendTypes DEF Phases
    <3>1. Len(hist) = 1
      BY <2>2, <2>3, Zenon
    <3>2. Len(hist') = 2
      BY <3>0, <3>1
    <3>3. HistTypes' /\ JobTypes'
      BY <2>1, <2>3, <3>0, <3>2 DEF HistTypes, Types, JobTypes
    <3> QED BY <1>1, <1>2, <1>3, <2>1, <2>3, <3>3 DEF Types
  <2>4. CASE hist' = Append(hist, Entry("rollback_failed")) /\ upd' = [upd EXCEPT !.at = "exit"]
    <3>1. hist' \in Seq(HistEntry) /\ Len(hist') = Len(hist) + 1
      BY <2>1, <2>4, AppendTypes DEF Phases, Outcomes
    <3>2. upd' \in Job /\ upd'.at = "exit"
      BY <2>1, <2>4 DEF Job
    <3>3. Len(hist') <= 4
      <4>1. Len(hist) = 1 \/ Len(hist) = 2
        BY <2>2
      <4>2. CASE Len(hist) = 1
        BY <3>1, <4>2
      <4>3. CASE Len(hist) = 2
        BY <3>1, <4>3
      <4> QED BY <4>1, <4>2, <4>3
    <3>4. HistTypes'
      BY <3>1, <3>2, <3>3 DEF HistTypes
    <3>5. JobTypes'
      BY <2>1, <3>2 DEF Types, JobTypes
    <3> QED BY <1>1, <1>2, <1>3, <2>1, <3>2, <3>4, <3>5 DEF Types
  <2> QED BY <1>7, <2>3, <2>4 DEF Install
<1>8. CASE Restart
  <2>1. upd.at = "installing" /\ upd.nonce \in Nonces /\ upd \in Job /\ Phase = "backup"
        /\ UNCHANGED <<trigger, seen, event, issued, begun, cut>>
    BY <1>8 DEF Restart, Types, JobTypes
  <2>2. Len(hist) = 2
    BY <2>1, PhaseFacts DEF Types, HistTypes
  <2>3. hist' \in Seq(HistEntry) /\ Len(hist') = 3
    <3>1. hist' \in Seq(HistEntry) /\ Len(hist') = Len(hist) + 1
      BY <1>8, <2>1, AppendTypes DEF Restart, Phases
    <3> QED BY <2>2, <3>1
  <2>4. upd' \in Job /\ upd'.at = "restarted" /\ upd'.nonce = upd.nonce
    BY <1>8, <2>1 DEF Restart, Job
  <2>5. JobTypes'
    BY <2>1, <2>4 DEF Types, JobTypes
  <2>6. HistTypes'
    BY <2>3, <2>4 DEF HistTypes
  <2> QED BY <1>2, <1>3, <1>8, <2>1, <2>4, <2>5, <2>6, NewProcessTypes DEF Restart, Types
<1>9. CASE Finish
  <2>1. upd.at = "restarted" /\ upd.nonce \in Nonces /\ upd \in Job /\ Len(hist) = 3
        /\ UNCHANGED <<web, trigger, seen, event, issued, begun, cut>>
    BY <1>9 DEF Finish, Types, JobTypes, HistTypes
  <2>2. hist' \in Seq(HistEntry) /\ Len(hist') = 4
    BY <1>9, <2>1, AppendTypes DEF Finish, Phases
  <2>3. upd' \in Job /\ upd'.at = "exit"
    BY <1>9, <2>1 DEF Finish, Job
  <2>4. JobTypes' /\ HistTypes'
    BY <2>1, <2>2, <2>3 DEF Types, JobTypes, HistTypes
  <2> QED BY <1>1, <1>2, <1>3, <2>1, <2>3, <2>4 DEF Types
<1>10. CASE Exit
  <2>1. upd' \in Job /\ upd'.at = "off" /\ UNCHANGED <<web, trigger, seen, hist, event, issued, begun, cut>>
    BY <1>10, OffType DEF Exit, Exits, Off
  <2>2. JobTypes' /\ HistTypes'
    BY <2>1 DEF Types, JobTypes, HistTypes
  <2> QED BY <1>1, <1>2, <1>3, <2>1, <2>2 DEF Types
<1> QED BY <1>4, <1>5, <1>6, <1>7, <1>8, <1>9, <1>10 DEF UpdaterStep

LEMMA FaultTypes == ASSUME Types, Kill \/ Crash \/ Reboot PROVE Types'
<1>1. UNCHANGED <<trigger, seen, hist, issued, begun>> /\ event' \in {FALSE, event}
      /\ cut' \in BOOLEAN /\ (upd' = upd \/ upd' = Off)
  BY DEF Kill, Crash, Reboot, Exits, Types, JobTypes
<1>2. WebTypes' /\ PageTypes'
  <2>1. CASE NewProcess
    BY <1>1, <2>1, NewProcessTypes
  <2>2. CASE UNCHANGED web /\ issued' = issued
    BY <2>2 DEF web, Types, WebTypes, PageTypes
  <2> QED BY <1>1, <2>1, <2>2 DEF Kill, Crash, Reboot
<1>3. upd' \in Job /\ (upd'.at # "off" => upd' = upd)
  BY <1>1, OffType DEF Off, Types, JobTypes
<1>4. TriggerTypes' /\ StoreTypes'
  <2>1. event' \in BOOLEAN /\ (event' = TRUE => event = TRUE)
    BY <1>1 DEF Types, TriggerTypes
  <2>2. TriggerTypes'
    BY <1>1, <1>3, <2>1 DEF Types, TriggerTypes
  <2>3. StoreTypes'
    BY <1>1 DEF Types, StoreTypes
  <2> QED BY <2>2, <2>3
<1>5. JobTypes'
  BY <1>1, <1>3 DEF Types, JobTypes
<1>6. HistTypes'
  BY <1>1, <1>3 DEF Types, HistTypes
<1> QED BY <1>2, <1>4, <1>5, <1>6 DEF Types

LEMMA InitTypes == Init => Types
<1> SUFFICES ASSUME Init PROVE Types
  OBVIOUS
<1>1. WebTypes
  <2>1. req = [c \in Clients |-> NoRequest] /\ cool = {} /\ maintenance = FALSE /\ issued = 0
    BY DEF Init
  <2>2. req \in [Clients -> Wish] /\ \A c \in Clients : req[c].at # "write"
    BY <2>1, OffType DEF NoRequest
  <2>3. issued \in 0 .. MaxRequests
    BY <2>1, Bounds
  <2>4. cool \subseteq Clients /\ maintenance \in BOOLEAN
    BY <2>1, Zenon
  <2> QED BY <2>2, <2>3, <2>4 DEF WebTypes
<1>2. PageTypes
  <2>1. lastSeq = 0 /\ snap = <<>>
    BY DEF Init
  <2> QED BY <2>1, EmptySeq DEF PageTypes
<1>3. upd.at = "off"
  BY DEF Init, Off
<1>4. TriggerTypes
  BY <1>3 DEF Init, TriggerTypes
<1>5. StoreTypes /\ HistTypes
  <2>1. seen = <<>> /\ hist = <<>>
    BY DEF Init
  <2>2. seen \in Seq(Nonces) /\ Len(seen) = 0 /\ hist \in Seq(HistEntry) /\ Len(hist) = 0
    BY <2>1, EmptySeq
  <2> QED BY <1>3, <2>2, Bounds DEF StoreTypes, HistTypes
<1>6. JobTypes
  <2>1. upd = Off /\ cut = FALSE /\ begun = [n \in Nonces |-> 0]
    BY DEF Init
  <2>2. begun \in [Nonces -> Nat]
    BY <2>1
  <2> QED BY <1>3, <2>1, <2>2, OffType DEF JobTypes
<1> QED BY <1>1, <1>2, <1>4, <1>5, <1>6 DEF Types

\* The module's type invariant: whatever is killed, crashes or cannot be written, and
\* wherever a clock that was set back puts a nonce into the store.
THEOREM TypesCorrect == Spec => []TypeOK
<1>1. Types /\ [Next]_vars => Types'
  <2> SUFFICES ASSUME Types, [Next]_vars PROVE Types'
    OBVIOUS
  <2>1. CASE UNCHANGED vars
    BY <2>1 DEF vars, Types, WebTypes, PageTypes, TriggerTypes, StoreTypes, JobTypes, HistTypes
  <2> QED BY <2>1, WebSteps, PageSteps, UpdaterTypes, FaultTypes DEF Next
<1>2. Types => TypeOK
  <2> SUFFICES ASSUME Types PROVE TypeOK
    OBVIOUS
  <2>1. req \in [Clients -> Wish] /\ snap \in Seq(Told) /\ hist \in Seq(HistEntry) /\ upd \in Job
    BY DEF Types, WebTypes, PageTypes, HistTypes, JobTypes
  <2> QED BY <2>1 DEF Types, WebTypes, PageTypes, TriggerTypes, StoreTypes, JobTypes, HistTypes,
                      TypeOK, Wish, Told, HistEntry, Phases, Job
<1> QED BY <1>1, <1>2, InitTypes, PTL DEF Spec
=============================================================================
