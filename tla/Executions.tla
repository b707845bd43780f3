------------------------------ MODULE Executions ------------------------------
(***************************************************************************)
(* How a window follows the runs of one backend.  The events of the socket  *)
(* go through the normalizer (core/src/events/dinkster.ts) into the store   *)
(* of executions (client/src/execution-store.ts); every reconnect reads     *)
(* the jobs that are still open over HTTP and replays them into the same    *)
(* pipeline (client/src/dinkster-reconcile.ts, reconcile-track.ts).  The    *)
(* windows of a browser share one client id: all of them hear the socket,   *)
(* and each broadcasts what it heard to the others (app/src/app-state.ts).  *)
(*                                                                          *)
(* One window is modelled.  The others are a queue of late copies of what   *)
(* the server emitted, and of their registrations.  A run has one node.     *)
(***************************************************************************)
EXTENDS Naturals, Sequences, SequencesExt

CONSTANTS
  Jobs,
  Own,      \* those this window submits; the others are submitted by its peers
  Cached,   \* bound: runs whose node is cached, and that emit nothing about it
  Cap,      \* EXECUTION_ENTRY_CAP
  TombCap,  \* how many evicted keys are remembered: 2 * EXECUTION_ENTRY_CAP
  Env,      \* bound: which of "failed", "cancelled", "echo", "chatter", "view",
            \* "drop", "forget" and "read" happen
  MaxTrouble,       \* bound: how many of the last six
  MaxWire, MaxEcho  \* bounds: messages on their way

ASSUME ExecutionsAssumption ==
  /\ Own \subseteq Jobs /\ Cached \subseteq Jobs
  /\ Cap \in Nat /\ TombCap \in Nat /\ MaxTrouble \in Nat
  /\ MaxWire \in Nat /\ MaxEcho \in Nat

VARIABLES
  server,     \* the backend: state of every job, and of its node
  forgotten,  \* jobs the backend answers 404 for
  post,       \* submissions: on their way, answered
  socket, wire,   \* the event socket, and the messages it carries
  echo,           \* events and registrations broadcast by the other windows
  terminalJobs,   \* the normalizer: jobs with a terminal event behind them
  store,      \* the execution store, with the plans that hang on its runs
  rec,        \* the reconciliation pass
  hydrating,  \* jobs whose persisted outputs are being read
  trouble,    \* bound: what has happened of Env
  missed,     \* history: jobs the backend was without since the last connect
  due         \* history: runs the last connect found open and must settle

serverVars == <<server, forgotten, post>>
wireVars == <<socket, wire, echo>>
vars == <<serverVars, wireVars, terminalJobs, store, rec, hydrating, trouble, missed, due>>

(***************************************************************************)
(* The store                                                                *)
(***************************************************************************)
Terminal == {"completed", "error", "interrupted"}

NoEntry == [status |-> "absent", node |-> "none", hydrated |-> FALSE, artifact |-> FALSE]
Fresh == [NoEntry EXCEPT !.status = "queued"]

Has(s, j) == s.entry[j].status # "absent"

\* A terminal status that is not a provisional verdict of loss.
Authoritative(s, j) == s.entry[j].status \in Terminal /\ j \notin s.lost

\* The application hears of every change at once: the plan of a completed run
\* is applied, that of any other run that ended is dropped.
Published(s) ==
  LET over == {j \in s.plans : ~Has(s, j) \/ Authoritative(s, j)} IN
  [s EXCEPT !.plans = @ \ over,
            !.advanced = @ \cup {j \in over : s.entry[j].status = "completed"}]

Evictable(s, j) == j \notin s.pins /\ (Authoritative(s, j) \/ j \in s.unconfirmed)

\* The entries of seq that are in js, in their order; SelectSeq in a form the
\* proofs can unfold.
Among(seq, js) ==
  LET kept[n \in 0 .. Len(seq)] ==
        IF n = 0 THEN <<>>
        ELSE IF seq[n] \in js THEN Append(kept[n - 1], seq[n]) ELSE kept[n - 1]
  IN kept[Len(seq)]
Without(seq, js) == Among(seq, Jobs \ js)

\* The oldest evictable entries beyond the cap.
Evicted(s) ==
  LET old == Among(s.order, {j \in Jobs : Evictable(s, j)}) IN
  {old[i] : i \in {i \in DOMAIN old : i + Cap <= Len(s.order)}}

Newest(seq, n) == SubSeq(seq, IF Len(seq) > n THEN Len(seq) - n + 1 ELSE 1, Len(seq))

Evict(s) ==
  LET out == Evicted(s) IN
  Published([s EXCEPT
    !.order = Without(@, out),
    !.entry = [j \in Jobs |-> IF j \in out THEN NoEntry ELSE @[j]],
    !.lost = @ \ out,
    !.unconfirmed = @ \ out,
    !.tombs = Newest(@ \o Among(s.order, out), TombCap)])

Ensure(s, j) ==
  IF Has(s, j) THEN s
  ELSE [s EXCEPT !.order = Append(@, j), !.entry[j] = Fresh]

\* A start or a submission vouches for the run.
Vouched(s, j) == [s EXCEPT !.tombs = Without(@, {j}), !.unconfirmed = @ \ {j}]

\* Defect: the fetched record wins.
MergeTakesSnapshot(live, snapshot) == snapshot

\* mergeSnapshotNodes: a record fills gaps and ends nodes, no more.
Merge(live, snapshot) ==
  IF live = "none" \/ (live = "running" /\ snapshot = "done") THEN snapshot ELSE live

Restarted(s, j) == [s EXCEPT !.entry[j].status = "running", !.lost = @ \ {j}]

\* Defect: progress sets the run running, whatever its status.
ProgressedAnyway(s, j, node) == [Restarted(s, j) EXCEPT !.entry[j].node = node]

Progressed(s, j, node) ==
  LET t == IF j \in s.lost \/ s.entry[j].status = "queued" THEN Restarted(s, j) ELSE s IN
  [t EXCEPT !.entry[j].node = node]

Ended(s, j, status) == [s EXCEPT !.entry[j].status = status, !.lost = @ \ {j}]

\* What an event does to the entry it is about.
Changed(s, e) ==
  CASE e.kind = "started" -> IF Authoritative(s, e.job) THEN s ELSE Restarted(s, e.job)
    [] e.kind = "nodeStates" -> Progressed(s, e.job, e.node)
    [] e.kind = "snapshot" -> Progressed(s, e.job, Merge(s.entry[e.job].node, e.node))
    [] e.kind \in Terminal -> IF Authoritative(s, e.job) THEN s ELSE Ended(s, e.job, e.kind)
    [] OTHER -> s

\* Defect: only a new entry makes room.
ApplyKeepsOld(s, e) ==
  LET j == e.job
      seen == IF e.kind = "started" THEN Vouched(s, j)
              ELSE IF Has(s, j) THEN s ELSE [s EXCEPT !.unconfirmed = @ \cup {j}]
      t == Published(Changed(Ensure(seen, j), e)) IN
  IF e.kind # "started" /\ ~Has(s, j) /\ Contains(s.tombs, j) THEN s
  ELSE IF ~Has(s, j) THEN Evict(t) ELSE t

\* apply: chatter of a run evicted lately is discarded, that of another unknown
\* run makes an entry nobody vouches for.
Apply(s, e) ==
  LET j == e.job
      seen == IF e.kind = "started" THEN Vouched(s, j)
              ELSE IF Has(s, j) THEN s ELSE [s EXCEPT !.unconfirmed = @ \cup {j}]
      t == Published(Changed(Ensure(seen, j), e))
      ends == e.kind \in Terminal /\ ~Authoritative(s, j) IN
  IF e.kind # "started" /\ ~Has(s, j) /\ Contains(s.tombs, j) THEN s
  ELSE IF ~Has(s, j) \/ ends THEN Evict(t) ELSE t

\* Defect: a registration does not look for a tombstone.
RegisterUnderTombstone(s, j) ==
  LET t == [Ensure(s, j) EXCEPT !.entry[j].artifact = TRUE] IN
  IF Has(s, j) THEN Published(t) ELSE Evict(Published(t))

\* register: a run submitted here or by a peer; events may have come before.
Register(s, j) ==
  LET t == [Ensure(Vouched(s, j), j) EXCEPT !.entry[j].artifact = TRUE] IN
  IF Has(s, j) THEN Published(t)
  ELSE Evict(Published([t EXCEPT !.lost = @ \ {j}]))

\* Defect: the verdict is not provisional.
MarkLostForGood(s, j) ==
  IF Has(s, j) /\ s.entry[j].status \notin Terminal
  THEN Published([s EXCEPT !.entry[j].status = "interrupted"])
  ELSE s

MarkLost(s, j) ==
  IF Has(s, j) /\ s.entry[j].status \notin Terminal
  THEN Published([s EXCEPT !.entry[j].status = "interrupted", !.lost = @ \cup {j}])
  ELSE s

HydrateArtifacts(s, j) == IF Has(s, j) THEN [s EXCEPT !.entry[j].hydrated = TRUE] ELSE s

\* What a pass has to ask for, in the order of the map.
IsOpen(s, j) ==
  \/ s.entry[j].status \in {"queued", "running"}
  \/ s.entry[j].status = "completed" /\ ~s.entry[j].hydrated
OpenRuns(s) == Among(s.order, {j \in Jobs : IsOpen(s, j)})

\* The store moves on, and a run that left it is nobody's concern.
StoreIs(s) == store' = s /\ due' = {j \in due : Has(s, j)}

(***************************************************************************)
(* The backend and the ways from it                                         *)
(***************************************************************************)
\* What the state of a job means for its run, or none.
StatusOf(state) ==
  CASE state = "completed" -> "completed" [] state = "failed" -> "error"
    [] state = "cancelled" -> "interrupted" [] OTHER -> "none"

Event(j, kind) == [job |-> j, kind |-> kind, node |-> "none"]
NodeEvent(j, kind, node) == [job |-> j, kind |-> kind, node |-> node]

\* The normalizer knows two messages that a run has completed.
Normalized(m) == IF m.kind = "run_finished" THEN Event(m.job, "completed") ELSE m

Happens(what) == what \in Env /\ trouble < MaxTrouble /\ trouble' = trouble + 1

\* A peer may have heard it too, and tell some time.
Broadcast(e) ==
  \/ UNCHANGED <<echo, trouble>>
  \/ Happens("echo") /\ Len(echo) < MaxEcho /\ echo' = Append(echo, e)

Emit(m) ==
  /\ Len(wire) < MaxWire
  /\ wire' = IF socket = "up" THEN Append(wire, m) ELSE wire
  /\ Broadcast(Normalized(m))

Works(j, states) ==
  /\ server[j].state \in states /\ j \notin forgotten
  /\ UNCHANGED <<forgotten, post, socket, terminalJobs, store, rec, hydrating, missed, due>>

\* The backend runs one job at a time.
Start(j) ==
  /\ Works(j, {"queued"})
  /\ \A k \in Jobs : server[k].state \notin {"running", "finished"}
  /\ server' = [server EXCEPT ![j].state = "running"]
  /\ Emit(Event(j, "started"))

NodeStarts(j) ==
  /\ Works(j, {"running"}) /\ server[j].node = "none" /\ j \notin Cached
  /\ server' = [server EXCEPT ![j].node = "running"]
  /\ Emit(NodeEvent(j, "nodeStates", "running"))

NodeEnds(j) ==
  /\ Works(j, {"running"}) /\ server[j].node = "running"
  /\ server' = [server EXCEPT ![j].node = "done"]
  /\ Emit(NodeEvent(j, "nodeStates", "done"))

Finish(j) ==
  /\ Works(j, {"running"}) /\ (j \in Cached \/ server[j].node = "done")
  /\ server' = [server EXCEPT ![j].state = "finished", ![j].node = "done"]
  /\ Emit(Event(j, "run_finished"))

\* run_finished precedes the persistence of the results.
Persist(j) ==
  /\ Works(j, {"finished"})
  /\ server' = [server EXCEPT ![j].state = "completed"]
  /\ Emit(Event(j, "completed"))

Break(j, state) ==
  /\ Works(j, {"queued", "running"})
  /\ server' = [server EXCEPT ![j].state = state]
  /\ Emit(Event(j, StatusOf(state)))

\* Logs, previews, outputs.
Chatter(j) ==
  /\ Works(j, {"running"})
  /\ Happens("chatter") /\ Len(wire) < MaxWire
  /\ wire' = IF socket = "up" THEN Append(wire, Event(j, "output")) ELSE wire
  /\ UNCHANGED <<server, echo>>

\* The backend restarts, or its history has no room; it may come back with it.
Forget(j) ==
  /\ Happens("forget")
  /\ server[j].state # "none" /\ j \notin forgotten
  /\ forgotten' = forgotten \cup {j} /\ missed' = missed \cup {j}
  /\ UNCHANGED <<server, post, wireVars, terminalJobs, store, rec, hydrating, due>>

Recover(j) ==
  /\ j \in forgotten
  /\ forgotten' = forgotten \ {j}
  /\ UNCHANGED <<server, post, wireVars, terminalJobs, store, rec, hydrating, trouble, missed, due>>

\* A window posts a job; the backend accepts it before the answer arrives.
Submit(j) ==
  /\ post[j] = "none"
  /\ post' = [post EXCEPT ![j] = "sent"]
  /\ server' = [server EXCEPT ![j].state = "queued"]
  /\ UNCHANGED <<forgotten, wireVars, terminalJobs, store, rec, hydrating, trouble, missed, due>>

\* Defect: the plan comes after the registration.
InstallRunLate(j) ==
  /\ j \in Own /\ post[j] = "sent"
  /\ post' = [post EXCEPT ![j] = "answered"]
  /\ StoreIs([Register(store, j) EXCEPT !.plans = @ \cup {j}])
  /\ UNCHANGED <<server, forgotten, wireVars, terminalJobs, rec, hydrating, trouble, missed>>

\* installRun: the plan comes first.
InstallRun(j) ==
  /\ j \in Own /\ post[j] = "sent"
  /\ post' = [post EXCEPT ![j] = "answered"]
  /\ StoreIs(Register([store EXCEPT !.plans = @ \cup {j}], j))
  /\ UNCHANGED <<server, forgotten, wireVars, terminalJobs, rec, hydrating, trouble, missed>>

\* A peer broadcasts its registration.
PeerInstallsRun(j) ==
  /\ j \notin Own /\ post[j] = "sent"
  /\ Len(echo) < MaxEcho
  /\ post' = [post EXCEPT ![j] = "answered"]
  /\ echo' = Append(echo, Event(j, "register"))
  /\ UNCHANGED <<server, forgotten, socket, wire, terminalJobs, store, rec, hydrating, trouble, missed, due>>

(***************************************************************************)
(* The window                                                               *)
(***************************************************************************)
\* One terminal event of a job passes the normalizer.
Silenced(e) == e.kind \in Terminal /\ e.job \in terminalJobs
Passed(e) == IF e.kind \in Terminal THEN terminalJobs \cup {e.job} ELSE terminalJobs

\* A message of the socket; job_state completed also asks for what was persisted.
Deliver ==
  /\ wire # <<>>
  /\ wire' = Tail(wire)
  /\ LET m == Head(wire)
         e == Normalized(m) IN
       /\ StoreIs(IF Silenced(e) THEN store ELSE Apply(store, e))
       /\ terminalJobs' = Passed(e)
       /\ hydrating' = IF m.kind = "completed" THEN hydrating \cup {m.job} ELSE hydrating
  /\ UNCHANGED <<serverVars, socket, echo, rec, trouble, missed>>

DeliverEcho ==
  /\ echo # <<>>
  /\ echo' = Tail(echo)
  /\ LET e == Head(echo) IN
       StoreIs(IF e.kind = "register" THEN Register(store, e.job) ELSE Apply(store, e))
  /\ UNCHANGED <<serverVars, socket, wire, terminalJobs, rec, hydrating, trouble, missed>>

\* hydrateDinksterCompletedExecution: the record, or nothing.
HydrateCompleted(j) ==
  /\ j \in hydrating
  /\ hydrating' = hydrating \ {j}
  /\ IF j \in forgotten \/ server[j].state # "completed"
     THEN store' = store /\ due' = due \ {j}
     ELSE StoreIs(HydrateArtifacts(store, j))
  /\ UNCHANGED <<serverVars, wireVars, terminalJobs, rec, trouble, missed>>

\* Frozen views pin their run.
OpenView(j) ==
  /\ Happens("view")
  /\ store.entry[j].artifact /\ j \notin store.pins
  /\ StoreIs([store EXCEPT !.pins = @ \cup {j}])
  /\ UNCHANGED <<serverVars, wireVars, terminalJobs, rec, hydrating, missed>>

CloseView(j) ==
  /\ j \in store.pins
  /\ StoreIs(Evict([store EXCEPT !.pins = @ \ {j}]))
  /\ UNCHANGED <<serverVars, wireVars, terminalJobs, rec, hydrating, trouble, missed>>

(***************************************************************************)
(* Reconciliation                                                           *)
(***************************************************************************)
NoAnswer == [kind |-> "none", state |-> "none", node |-> "none"]
Idle == [stage |-> "idle", open |-> <<>>, answer |-> NoAnswer, current |-> TRUE]

\* A pass begins with the runs that are open, and ends at once if none is.
Pass(s) ==
  IF OpenRuns(s) = <<>> THEN Idle ELSE [Idle EXCEPT !.stage = "asked", !.open = OpenRuns(s)]

\* Defect: the pass asks once more than it has runs.
NextReadRunsOver(s) ==
  IF ~rec.current THEN Pass(s) ELSE [Idle EXCEPT !.stage = "asked", !.open = Tail(rec.open)]

\* Defect: a superseded pass is the last one.
NextReadIsLast(s) ==
  IF ~rec.current \/ Len(rec.open) = 1 THEN Idle
  ELSE [Idle EXCEPT !.stage = "asked", !.open = Tail(rec.open)]

\* After a read: a superseded pass is begun again.
NextRead(s) ==
  IF ~rec.current THEN Pass(s)
  ELSE IF Len(rec.open) = 1 THEN Idle
  ELSE [Idle EXCEPT !.stage = "asked", !.open = Tail(rec.open)]

Drop ==
  /\ Happens("drop")
  /\ socket = "up"
  /\ socket' = "down" /\ wire' = <<>>
  /\ UNCHANGED <<serverVars, echo, terminalJobs, store, rec, hydrating, missed, due>>

\* Every connect reconciles; one that finds a pass at work supersedes it.
Connect ==
  /\ socket = "down"
  /\ socket' = "up"
  /\ rec' = IF rec.stage = "idle" THEN Pass(store) ELSE [rec EXCEPT !.current = FALSE]
  /\ missed' = forgotten
  /\ due' = {j \in Jobs : IsOpen(store, j) /\ (j \in terminalJobs => store.entry[j].status = "completed")}
  /\ UNCHANGED <<serverVars, wire, echo, terminalJobs, store, hydrating, trouble>>

\* GET of the job.  Until its results are persisted it is still running.
RecordOf(j) ==
  [kind |-> "record", node |-> server[j].node,
   state |-> IF server[j].state = "finished" THEN "running" ELSE server[j].state]

AnswerRead ==
  /\ rec.stage = "asked"
  /\ LET j == Head(rec.open) IN
       \/ rec' = [rec EXCEPT !.stage = "answered",
             !.answer = IF j \in forgotten THEN [NoAnswer EXCEPT !.kind = "missing"] ELSE RecordOf(j)]
          /\ UNCHANGED trouble
       \/ Happens("read") /\ rec' = [rec EXCEPT !.stage = "answered", !.answer.kind = "failed"]
  /\ UNCHANGED <<serverVars, wireVars, terminalJobs, store, hydrating, missed, due>>

\* The continuation of the pass after its read.
Answered(kind) ==
  /\ rec.stage = "answered" /\ rec.answer.kind = kind
  /\ UNCHANGED <<serverVars, wireVars, hydrating, trouble, missed>>
GoOn == rec' = NextRead(store')

\* Nothing is settled and nothing reported; the pass goes on.
SkipFailedRead ==
  /\ Answered("failed")
  /\ store' = store
  /\ due' = IF rec.current THEN due \ {Head(rec.open)} ELSE due
  /\ terminalJobs' = terminalJobs
  /\ GoOn

\* Defect: a superseded pass commits its verdict.
ReadMissingStale ==
  LET j == Head(rec.open) IN
  /\ Answered("missing")
  /\ store' = MarkLost(store, j)
  /\ due' = IF rec.current THEN due \ {j} ELSE due
  /\ terminalJobs' = terminalJobs
  /\ GoOn

ReadMissing ==
  LET j == Head(rec.open) IN
  /\ Answered("missing")
  /\ store' = IF rec.current THEN MarkLost(store, j) ELSE store
  /\ due' = IF rec.current THEN due \ {j} ELSE due
  /\ terminalJobs' = terminalJobs
  /\ GoOn

\* replayJob: the nodes as a snapshot, the end through the normalizer.
ReplayJob ==
  LET j == Head(rec.open)
      a == rec.answer
      end == Event(j, StatusOf(a.state))
      s == IF a.node = "none" THEN store ELSE Apply(store, NodeEvent(j, "snapshot", a.node))
      t == IF end.kind = "none" \/ Silenced(end) THEN s ELSE Apply(s, end) IN
  /\ Answered("record")
  /\ StoreIs(IF a.state = "completed" THEN HydrateArtifacts(t, j) ELSE t)
  /\ terminalJobs' = Passed(end)
  /\ GoOn

Init ==
  /\ server = [j \in Jobs |-> [state |-> "none", node |-> "none"]]
  /\ forgotten = {} /\ post = [j \in Jobs |-> "none"]
  /\ socket = "down" /\ wire = <<>> /\ echo = <<>>
  /\ terminalJobs = {}
  /\ store = [order |-> <<>>, entry |-> [j \in Jobs |-> NoEntry], lost |-> {}, unconfirmed |-> {},
              tombs |-> <<>>, pins |-> {}, plans |-> {}, advanced |-> {}]
  /\ rec = Idle /\ hydrating = {} /\ trouble = 0 /\ missed = {} /\ due = {}

Backend(j) ==
  \/ Submit(j) \/ Start(j) \/ NodeStarts(j) \/ NodeEnds(j) \/ Finish(j) \/ Persist(j)
  \/ \E state \in Env \cap {"failed", "cancelled"} : Break(j, state)
  \/ Chatter(j) \/ Forget(j) \/ Recover(j)

Reconcile == AnswerRead \/ SkipFailedRead \/ ReadMissing \/ ReplayJob

Next ==
  \/ \E j \in Jobs :
       \/ Backend(j) \/ InstallRun(j) \/ PeerInstallsRun(j)
       \/ HydrateCompleted(j) \/ OpenView(j) \/ CloseView(j)
  \/ Deliver \/ DeliverEcho \/ Reconcile \/ Drop \/ Connect

Spec == Init /\ [][Next]_vars
=============================================================================
