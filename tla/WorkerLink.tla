----------------------------- MODULE WorkerLink -----------------------------
(***************************************************************************)
(* The windows of one browser share a workflow through a SharedWorker: its  *)
(* authority (app/src/shared-worker-authority.ts) orders their ops, and     *)
(* every window reaches it through a connection over a message port         *)
(* (app/src/shared-worker-connection.ts) that connectSharedWorkerSession    *)
(* opens and hands over to a shared session.                                *)
(*                                                                          *)
(* Ports keep the order of messages in each direction.  The worker serves   *)
(* one message at a time, at any speed; a window's timers fire on time      *)
(* unless the browser froze the window, and a crash is a freeze for ever.   *)
(* There is one session, since each worker is named after its session.      *)
(***************************************************************************)
EXTENDS Naturals, Sequences

CONSTANTS
  Ports,       \* connections: a window that returns opens a new one
  Replacing,   \* those opened with replaceAuthoritative
  Docs, None,  \* documents, and no document
  Heartbeat, Timeout, Lease,  \* HEARTBEAT_MS, REQUEST_TIMEOUT_MS, PORT_LEASE_MS
  MaxOps,      \* bound: no session posts when the log has that many ops
  Editing,     \* bound: the windows whose tab is edited while they join
  MaxEdits,    \* bound: how often
  Freezable    \* bound: the windows the browser may freeze, once each

\* The only relation of the three durations the protocol relies on.
ASSUME LinkAssumption ==
  /\ Replacing \subseteq Ports /\ None \notin Docs
  /\ Heartbeat \in Nat \ {0} /\ Timeout \in Nat \ {0} /\ Lease \in Nat
  /\ Heartbeat + Timeout <= Lease
  /\ MaxOps \in Nat /\ MaxEdits \in Nat /\ Editing \subseteq Ports /\ Freezable \subseteq Ports

VARIABLES
  \* The worker.
  session,       \* the AuthoritySession: its ports, first document and ops
  portSessions,  \* the ports the authority holds for open
  portSeen,      \* ticks since a message of the port was served
  opened,        \* history: in which life of the session a port was opened
  \* The two directions of every port.
  toWorker, toPort,
  \* The windows.
  link,  \* the connection: state, timers, outstanding requests
  join   \* what connectSharedWorkerSession, then the session, know

workerVars == <<session, portSessions, portSeen, opened>>
vars == <<workerVars, toWorker, toPort, link, join>>

(***************************************************************************)
(* The authority                                                            *)
(***************************************************************************)
DocAt(s, r) == IF r = 0 THEN s.initial ELSE s.ops[r].doc
Current(s) == DocAt(s, Len(s.ops))

\* The session is created by the first port that opens it and forgotten with
\* its last one.
Fresh(s, initial) == [life |-> s.life + 1, initial |-> initial, ops |-> <<>>, ports |-> {}]
Forgotten(s) == [life |-> s.life, initial |-> None, ops |-> <<>>, ports |-> {}]

\* Defect: a session without ports is kept.
DisconnectedKeepsEmpty(s, gone) == [s EXCEPT !.ports = @ \ gone]

Disconnected(s, gone) ==
  IF s.ports \subseteq gone THEN Forgotten(s) ELSE [s EXCEPT !.ports = @ \ gone]

\* Defect: a lease ends one tick early.
ExpiredEarly(p) == {q \in portSessions \ {p} : portSeen[q] >= Lease}

\* pruneExpiredPorts runs before every request and spares its sender.
Expired(p) == {q \in portSessions \ {p} : portSeen[q] > Lease}
Kept(p) == Disconnected(session, Expired(p))
\* Defect: pruning forgets portSessions.
KnownForEver(p) == portSessions

Known(p) == portSessions \ Expired(p)
Prune(p) == session' = Kept(p) /\ portSessions' = Known(p) /\ UNCHANGED opened

\* A closed port takes no message.
Delivered(q, m) == IF link[q].state = "closed" THEN <<>> ELSE Append(toPort[q], m)

Answer(p, result, rev, doc) ==
  [kind |-> Head(toWorker[p]).kind, result |-> result, rev |-> rev, doc |-> doc]

\* The head of the port's requests is being served.
Serving(p, kinds) ==
  /\ toWorker[p] # <<>> /\ Head(toWorker[p]).kind \in kinds
  /\ toWorker' = [toWorker EXCEPT ![p] = Tail(@)]
  /\ portSeen' = [portSeen EXCEPT ![p] = 0]
  /\ UNCHANGED <<link, join>>

Reply(p, result, rev, doc) ==
  toPort' = [toPort EXCEPT ![p] = Delivered(p, Answer(p, result, rev, doc))]

IsOpen(p) == p \in Known(p) /\ Kept(p).ports # {}

ServeOpen(p) ==
  /\ Serving(p, {"open"})
  /\ LET s == IF Kept(p).ports = {} THEN Fresh(session, Head(toWorker[p]).doc) ELSE Kept(p) IN
       /\ session' = [s EXCEPT !.ports = @ \cup {p}]
       /\ opened' = [opened EXCEPT ![p] = s.life]
       /\ Reply(p, "opened", Len(s.ops), Current(s))
  /\ portSessions' = Known(p) \cup {p}

\* 'connection is not open': the port lost its lease, or was closed.
RefuseUnknown(p) ==
  /\ ~IsOpen(p)
  /\ Serving(p, {"post", "adopt", "replace", "fetch-snapshot", "heartbeat", "close"})
  /\ Reply(p, "error", 0, None)
  /\ Prune(p)

\* Requests that only refresh the lease, or read.
ServeRead(p) ==
  /\ IsOpen(p)
  /\ Serving(p, {"fetch-snapshot", "heartbeat"})
  /\ Reply(p, "ok", Len(session.ops), Current(session))
  /\ Prune(p)

Ops == {"post", "adopt", "replace"}
\* Defect: adopt-exclusive does not look for peers.
ConflictsNever(p) == FALSE

Conflicts(p) == Head(toWorker[p]).kind = "adopt" /\ Kept(p).ports # {p}
IsStale(p) == Head(toWorker[p]).base # Len(session.ops)

ConflictOp(p) ==
  /\ Serving(p, Ops) /\ Prune(p)
  /\ IsOpen(p) /\ Conflicts(p)
  /\ Reply(p, "conflict", 0, None)

StaleOp(p) ==
  /\ Serving(p, Ops) /\ Prune(p)
  /\ IsOpen(p) /\ ~Conflicts(p) /\ IsStale(p)
  /\ Reply(p, "stale-base", Len(session.ops), None)

\* Defect: the broadcast does not leave out the sender.
AnnouncedToAll(p, s, doc) ==
  LET event == [kind |-> "op", result |-> "op", rev |-> Len(s.ops), doc |-> doc] IN
  [q \in Ports |->
     IF q = p THEN Append(Delivered(p, event), Answer(p, "accepted", Len(s.ops), doc))
     ELSE IF q \in s.ports THEN Delivered(q, event)
     ELSE toPort[q]]

\* The answer carries the op to its sender; the others get an event.
Announced(p, s, doc) ==
  LET event == [kind |-> "op", result |-> "op", rev |-> Len(s.ops), doc |-> doc] IN
  [q \in Ports |->
     IF q = p THEN Delivered(p, Answer(p, "accepted", Len(s.ops), doc))
     ELSE IF q \in s.ports THEN Delivered(q, event)
     ELSE toPort[q]]

AcceptOp(p) ==
  /\ Serving(p, Ops)
  /\ IsOpen(p) /\ ~Conflicts(p) /\ ~IsStale(p)
  /\ LET req == Head(toWorker[p])
         op == [from |-> p, kind |-> req.kind, doc |-> req.doc]
         s == [Kept(p) EXCEPT !.ops = Append(@, op)] IN
       /\ session' = s
       /\ toPort' = Announced(p, s, req.doc)
  /\ portSessions' = Known(p) /\ UNCHANGED opened

ServeClose(p) ==
  /\ IsOpen(p)
  /\ Serving(p, {"close"})
  /\ session' = Disconnected(Kept(p), {p}) /\ portSessions' = Known(p) \ {p}
  /\ Reply(p, "ok", 0, None)
  /\ UNCHANGED opened

Serve(p) ==
  \/ ServeOpen(p) \/ RefuseUnknown(p) \/ ServeRead(p)
  \/ ConflictOp(p) \/ StaleOp(p) \/ AcceptOp(p) \/ ServeClose(p)

(***************************************************************************)
(* The connection                                                           *)
(***************************************************************************)
\* "deciding" is the code between two awaits: nothing else of the window runs.
Runs(p) == link[p].window # "frozen" /\ join[p].stage # "deciding"
Waiting(p) == join[p].stage \in {"opening", "adopting", "replacing", "refetching"}
Listens(p) == link[p].state \in {"open", "closing"}

Asked(l, kind) == [l EXCEPT !.pending = Append(@, [kind |-> kind, age |-> 0])]
Sent(p, kind, base, doc) ==
  [toWorker EXCEPT ![p] = Append(@, [kind |-> kind, base |-> base, doc |-> doc])]

\* Answers come in the order of the requests, so the id of an answer is the
\* one of the oldest outstanding request.
Settled(l) == [l EXCEPT !.pending = Tail(@)]
Closing(l) == [Asked(l, "close") EXCEPT !.state = "closing"]
Disposed(l) == [l EXCEPT !.state = "closed", !.pending = <<>>, !.beat = 0]

\* The session's ordered ingress: what it has is skipped, the next is applied.
Ingest(j, m) == IF m.rev = j.rev + 1 THEN [j EXCEPT !.rev = m.rev, !.doc = m.doc] ELSE j

\* ms, one after the other; FoldLeft in a form the proofs can unfold.
IngestAll(j, ms) ==
  LET after[n \in 0 .. Len(ms)] == IF n = 0 THEN j ELSE Ingest(after[n - 1], ms[n])
  IN after[Len(ms)]

\* Events wait in bufferedEvents until the session listens.  Once it has left,
\* or was never made, nobody will.
Emit(j, m) ==
  CASE j.stage = "joined" -> Ingest(j, m)
    [] j.stage \in {"left", "failed"} -> j
    [] OTHER -> [j EXCEPT !.buffer = Append(@, m)]

\* What connectSharedWorkerSession knew is gone when it returns or throws.
Over(j, stage) ==
  [j EXCEPT !.stage = stage, !.buffer = <<>>,
            !.local = None, !.target = None, !.changed = FALSE, !.edits = 0]
Gone(j, stage) == [Over(j, stage) EXCEPT !.rev = 0, !.doc = None]

\* The head of what the worker sent is being handled.
Message(p) == Head(toPort[p])
Receiving(p, kind) ==
  /\ Runs(p) /\ Listens(p)
  /\ toPort[p] # <<>> /\ Message(p).kind = kind
  /\ UNCHANGED workerVars
  /\ toPort' = [toPort EXCEPT ![p] = IF kind = "close" THEN <<>> ELSE Tail(@)]

EventArrives(p) ==
  /\ Receiving(p, "op")
  /\ join' = [join EXCEPT ![p] = Emit(@, Message(p))]
  /\ UNCHANGED <<toWorker, link>>

\* An answer upon which nothing more is asked.
Answered(p, kind) ==
  /\ Receiving(p, kind)
  /\ link' = [link EXCEPT ![p] = Settled(@)]
  /\ UNCHANGED toWorker

HeartbeatAnswered(p) == Answered(p, "heartbeat") /\ UNCHANGED join

OpenAnswered(p) ==
  /\ Answered(p, "open")
  /\ join' = [join EXCEPT ![p].stage = "deciding",
                          ![p].rev = Message(p).rev, ![p].doc = Message(p).doc]

PostAnswered(p) ==
  /\ Answered(p, "post")
  /\ join' = IF Message(p).result = "accepted" /\ join[p].stage = "joined"
             THEN [join EXCEPT ![p] = Ingest(@, Message(p))] ELSE join

\* Defect: the snapshot keeps the revision it was fetched with.
AcceptedAtOldRevision(p, kind) ==
  /\ Answered(p, kind)
  /\ Message(p).result = "accepted"
  /\ join' = [join EXCEPT ![p].stage = "deciding", ![p].doc = join[p].target]

\* Defect: the answer marks whatever the tab now holds as adopted.
AcceptedForgetsEdits(p, kind) ==
  /\ Answered(p, kind)
  /\ Message(p).result = "accepted"
  /\ join' = [join EXCEPT ![p].stage = "deciding", ![p].changed = FALSE,
                          ![p].rev = Message(p).rev, ![p].doc = join[p].target]

\* adoptExclusive and replaceAuthoritative: the snapshot becomes what was sent.
Accepted(p, kind) ==
  /\ Answered(p, kind)
  /\ Message(p).result = "accepted"
  /\ join' = [join EXCEPT ![p].stage = "deciding",
                          ![p].rev = Message(p).rev, ![p].doc = join[p].target]

Fails(p) == join' = [join EXCEPT ![p] = Gone(@, "failed")]

\* Another window is there: this one closes its connection and gives up.
AdoptConflicts(p) ==
  /\ Receiving(p, "adopt")
  /\ Message(p).result = "conflict"
  /\ Fails(p)
  /\ link' = [link EXCEPT ![p] = Closing(Settled(@))]
  /\ toWorker' = Sent(p, "close", 0, None)

\* Whatever else comes back makes adoptExclusive throw, a stale base because
\* its answer has no op.  The caller lets go without closing the connection.
AdoptThrows(p) ==
  /\ Answered(p, "adopt")
  /\ Message(p).result \notin {"accepted", "conflict"}
  /\ Fails(p)

ReplaceIsStale(p) ==
  /\ Receiving(p, "replace")
  /\ Message(p).result = "stale-base"
  /\ join' = [join EXCEPT ![p].stage = "refetching"]
  /\ link' = [link EXCEPT ![p] = Asked(Settled(@), "fetch-snapshot")]
  /\ toWorker' = Sent(p, "fetch-snapshot", 0, None)

\* replaceAuthoritative goes round with the snapshot it fetched.
ReplaceAgain(p) ==
  /\ Receiving(p, "fetch-snapshot")
  /\ Message(p).result = "ok" /\ Message(p).doc # join[p].target
  /\ join' = [join EXCEPT ![p].stage = "replacing",
                          ![p].rev = Message(p).rev, ![p].doc = Message(p).doc]
  /\ link' = [link EXCEPT ![p] = Asked(Settled(@), "replace")]
  /\ toWorker' = Sent(p, "replace", Message(p).rev, join[p].target)

NothingToReplace(p) ==
  /\ Answered(p, "fetch-snapshot")
  /\ Message(p).result = "ok" /\ Message(p).doc = join[p].target
  /\ join' = [join EXCEPT ![p].stage = "deciding",
                          ![p].rev = Message(p).rev, ![p].doc = Message(p).doc]

ReplaceThrows(p) ==
  /\ Answered(p, "replace") \/ Answered(p, "fetch-snapshot")
  /\ Message(p).result = "error"
  /\ Fails(p)

CloseAnswered(p) ==
  /\ Receiving(p, "close")
  /\ link' = [link EXCEPT ![p] = Disposed(@)]
  /\ UNCHANGED <<toWorker, join>>

\* Defect: dispose rejects nobody.
TimeOutRejectsNobody(p) ==
  /\ Runs(p) /\ Listens(p)
  /\ \E i \in DOMAIN link[p].pending : link[p].pending[i].age >= Timeout
  /\ link' = [link EXCEPT ![p] = Disposed(@)]
  /\ toPort' = [toPort EXCEPT ![p] = <<>>]
  /\ UNCHANGED <<workerVars, toWorker, join>>

\* The 15 s of a request are over and no answer was handled: dispose rejects
\* every outstanding request, and whoever is joining throws.
TimeOut(p) ==
  /\ Runs(p) /\ Listens(p)
  /\ \E i \in DOMAIN link[p].pending : link[p].pending[i].age >= Timeout
  /\ link' = [link EXCEPT ![p] = Disposed(@)]
  /\ IF Waiting(p) THEN Fails(p) ELSE UNCHANGED join
  /\ toPort' = [toPort EXCEPT ![p] = <<>>]
  /\ UNCHANGED <<workerVars, toWorker>>

Beat(p) ==
  /\ Runs(p) /\ link[p].state = "open" /\ link[p].beat >= Heartbeat
  /\ link' = [link EXCEPT ![p] = [Asked(@, "heartbeat") EXCEPT !.beat = 0]]
  /\ toWorker' = Sent(p, "heartbeat", 0, None)
  /\ UNCHANGED <<workerVars, toPort, join>>

(***************************************************************************)
(* connectSharedWorkerSession and the session it hands over to              *)
(***************************************************************************)
Open(p, d) ==
  /\ join[p].stage = "none"
  /\ join' = [join EXCEPT ![p].stage = "opening", ![p].local = d, ![p].changed = p \in Replacing]
  /\ link' = [link EXCEPT ![p] = [Asked(@, "open") EXCEPT !.state = "open"]]
  /\ toWorker' = Sent(p, "open", 0, d)
  /\ UNCHANGED <<workerVars, toPort>>

\* The user edits the tab while it joins; latestInitial will return it.
LocalEdit(p, d) ==
  /\ Waiting(p) /\ link[p].window # "frozen"
  /\ p \in Editing /\ join[p].edits < MaxEdits /\ d # join[p].local
  /\ join' = [join EXCEPT ![p].local = d, ![p].changed = TRUE, ![p].edits = @ + 1]
  /\ UNCHANGED <<workerVars, toWorker, toPort, link>>

\* The loop of connectSharedWorkerSession finds the tab's document changed.
BringLocal(p) ==
  LET kind == IF p \in Replacing THEN "replace" ELSE "adopt"
      waits == IF p \in Replacing THEN "replacing" ELSE "adopting" IN
  /\ join[p].stage = "deciding" /\ join[p].changed
  /\ join[p].local # join[p].doc
  /\ join' = [join EXCEPT ![p].stage = waits, ![p].target = join[p].local, ![p].changed = FALSE]
  /\ link' = [link EXCEPT ![p] = Asked(@, kind)]
  /\ toWorker' = Sent(p, kind, join[p].rev, join[p].local)
  /\ UNCHANGED <<workerVars, toPort>>

\* Or finds it to be the shared one already: the patch is empty.
NothingToBring(p) ==
  /\ join[p].stage = "deciding" /\ join[p].changed
  /\ join[p].local = join[p].doc
  /\ join' = [join EXCEPT ![p].changed = FALSE]
  /\ UNCHANGED <<workerVars, toWorker, toPort, link>>

\* connectSharedSession takes the snapshot, subscribes and gets the buffer, none
\* of which is newer than the snapshot.
Join(p) ==
  /\ join[p].stage = "deciding" /\ ~join[p].changed
  /\ join' = [join EXCEPT ![p] = IngestAll(Over(@, "joined"), @.buffer)]
  /\ UNCHANGED <<workerVars, toWorker, toPort, link>>

\* The session submits one op at a time, on what it has confirmed.
Post(p, d) ==
  /\ Runs(p) /\ join[p].stage = "joined" /\ link[p].state = "open"
  /\ \A i \in DOMAIN link[p].pending : link[p].pending[i].kind # "post"
  /\ Len(session.ops) < MaxOps /\ d # join[p].doc
  /\ link' = [link EXCEPT ![p] = Asked(@, "post")]
  /\ toWorker' = Sent(p, "post", join[p].rev, d)
  /\ UNCHANGED <<workerVars, toPort, join>>

Close(p) ==
  /\ Runs(p) /\ join[p].stage = "joined"
  /\ join' = [join EXCEPT ![p] = Gone(@, "left")]
  /\ IF link[p].state = "open"
     THEN /\ link' = [link EXCEPT ![p] = Closing(@)]
          /\ toWorker' = Sent(p, "close", 0, None)
     ELSE UNCHANGED <<link, toWorker>>
  /\ UNCHANGED <<workerVars, toPort>>

(***************************************************************************)
(* The browser: frozen windows, and time                                    *)
(***************************************************************************)
Freeze(p) ==
  /\ p \in Freezable
  /\ Runs(p) /\ link[p].window = "attentive" /\ link[p].state = "open"
  /\ link' = [link EXCEPT ![p].window = "frozen"]
  /\ UNCHANGED <<workerVars, toWorker, toPort, join>>

\* What is overdue and what has arrived now compete.
Resume(p) ==
  /\ link[p].window = "frozen"
  /\ link' = [link EXCEPT ![p].window = "resumed"]
  /\ UNCHANGED <<workerVars, toWorker, toPort, join>>

Older(x, most) == IF x < most THEN x + 1 ELSE x

\* The timers of a connection a tick later.
Aged(l) ==
  [l EXCEPT
     !.beat = IF l.state = "open" THEN Older(l.beat, Heartbeat) ELSE 0,
     !.pending = [i \in DOMAIN l.pending |->
                    [l.pending[i] EXCEPT !.age = Older(l.pending[i].age, Timeout)]]]

\* Timers of windows that run are not overtaken by time.
OnTime(p) ==
  \/ link[p].window = "frozen"
  \/ /\ join[p].stage # "deciding"
     /\ link[p].state = "open" => link[p].beat < Heartbeat
     /\ \A i \in DOMAIN link[p].pending : link[p].pending[i].age < Timeout

Tick ==
  /\ \A p \in Ports : OnTime(p)
  /\ portSeen' = [p \in Ports |-> IF p \in portSessions THEN Older(portSeen[p], Lease + 1) ELSE 0]
  /\ link' = [p \in Ports |-> Aged(link[p])]
  /\ UNCHANGED <<session, portSessions, opened, toWorker, toPort, join>>

Handle(p) ==
  \/ EventArrives(p) \/ HeartbeatAnswered(p) \/ OpenAnswered(p) \/ PostAnswered(p)
  \/ Accepted(p, "adopt") \/ AdoptConflicts(p) \/ AdoptThrows(p)
  \/ Accepted(p, "replace") \/ ReplaceIsStale(p) \/ ReplaceAgain(p)
  \/ NothingToReplace(p) \/ ReplaceThrows(p) \/ CloseAnswered(p)
  \/ BringLocal(p) \/ NothingToBring(p) \/ Join(p)

User(p) ==
  \/ Close(p) \/ Freeze(p) \/ Resume(p)
  \/ \E d \in Docs : Open(p, d) \/ LocalEdit(p, d) \/ Post(p, d)

Init ==
  /\ session = [life |-> 0, initial |-> None, ops |-> <<>>, ports |-> {}]
  /\ portSessions = {} /\ portSeen = [p \in Ports |-> 0] /\ opened = [p \in Ports |-> 0]
  /\ toWorker = [p \in Ports |-> <<>>] /\ toPort = [p \in Ports |-> <<>>]
  /\ link = [p \in Ports |->
       [state |-> "none", window |-> "attentive", pending |-> <<>>, beat |-> 0]]
  /\ join = [p \in Ports |->
       [stage |-> "none", rev |-> 0, doc |-> None, local |-> None, target |-> None,
        changed |-> FALSE, edits |-> 0, buffer |-> <<>>]]

\* What the event loop of a window runs: messages, timers, continuations.
Window(p) == Handle(p) \/ TimeOut(p) \/ Beat(p)

Next ==
  \/ \E p \in Ports : Serve(p) \/ Window(p) \/ User(p)
  \/ Tick

Spec == Init /\ [][Next]_vars

\* The event loops of windows that are not frozen go on, and time does.
\* Nothing is assumed of the worker: it may stop answering.
FairSpec == Spec /\ WF_vars(Tick) /\ \A p \in Ports : WF_vars(Window(p))
=============================================================================
