# Verification of shared documents and run tracking

This directory models two parts of the front end. In the first, several
participants edit one workflow document at the same time: an optimistic session
per participant (`SharedSession`), an authority that orders their ops, and the
two transports between them, the one between the windows of a browser
(`WorkerLink`) and the event stream of a backend (`CollabStream`). In the second,
a window follows the runs of an execution backend through lost and late events
(`Executions`). The models are TLA+ modules, checked by TLC on small instances
and, where a theorem is listed, proved by TLAPS for every value of the constants.

File names below are relative to `src/packages/`; `session.ts` alone means
`core/src/commands/shared-session.ts`.

## Inventory of the system

| Part | State it keeps | Operations | Interacts through |
| --- | --- | --- | --- |
| Shared document session (`core/src/commands/shared-session.ts`) | confirmed document and revision, optimistic store, queue of pending intentions with their attempts, undo and redo stacks, status, sync target, resync flag, two single-flight promises | dispatch, undo, redo, pump, ordered ingress, rebase, catch-up, resync, publish, close | calls of the connection, events from it, signals and feeds to the application |
| Shared-worker authority (`app/src/shared-worker-authority.ts`) | per session: revision, snapshot, op list; per port: lease | open, postOp, fetchOps, fetchSnapshot, putSnapshot, replaceAuthoritative, heartbeat, disconnect, prune | messages on worker ports |
| Shared-worker connection (`app/src/shared-worker-connection.ts`) | outstanding requests, buffered events, port | open, request with timeout, adoptExclusive, dispose | messages on a port; the session's connection interface |
| Collaboration connection (`client/src/collab-connection.ts`) | event buffer, probe, suspension, denial | postOp, fetchSnapshot, fetchOps, putSnapshot, onEvent, suspend, retry | HTTP and a reconnecting socket |
| Reconnecting socket (`client/src/reconnecting-socket.ts`) | generation, backoff, status | connect, close, timers | browser WebSocket |
| Snapshot publication policy (`core/src/commands/snapshot-publication-policy.ts`) | last published revision, jitter deadline, retryAfterRevision, in-flight flag | decide, record | asked by the session after every ordered op |
| Workspace worker (`app/src/workspace-worker-authority.ts`) | tab set, watermarks, seen opIds, leases | open, apply, heartbeat, disconnect | messages on ports |
| Local store and session (`core/src/commands/{store,session}.ts`) | document, notification queue, history | dispatch, undo, redo, subscribe | synchronous callbacks |
| Image document session (`core/src/image-document/shared-session.ts`) | confirmed state, status | ingest, resync, submit | as the shared session |
| Execution store and reconciliation (`client/src/{execution-store,dinkster-reconcile,reconcile-track}.ts`) | executions in the order of their queueing, verdicts of loss, keys nobody vouches for, tombstones, pins; the generation of the pass at work | apply an event, register, markLost, hydrate, evict, pin; a pass of reads after every connect, superseded by the next | the normalizer of the backend socket, reads of jobs, the application's subscription |
| Dinkster connection and normalizer (`client/src/dinkster-connection.ts`, `core/src/events/dinkster.ts`) | listeners, jobs that have ended | submit, read and replay a job, normalize a message | backend socket and HTTP |
| Application, as far as it follows runs (`app/src/app-state.ts`) | advancement plans, frozen views, registrations of other windows | install a run, hear the store, broadcast to the other windows | the store, `BroadcastChannel` |
| Supervisor polling (`app/src/supervisor-poll.ts`) | timer, generation | start, cancel, probe | HTTP |
| Compiler, schema, replacement, format, life cycle planner (`core/src/{compile,schema,replace,format,lifecycle}`) | none (pure) | translations | calls |
| Extension host (`core/src/extensions`) | registrations | activate, dispose | calls |
| Application, canvas, widgets (`app/src`, `canvas/src`, `widgets/src`) | view state, caches by document revision | gestures, rendering | the sessions above |

The hard behaviour is concentrated in the sessions and their transports, and in
the tracking of runs. Every handler is
synchronous and runs to completion, but the session is spread over two loops
with awaits (submission and synchronisation), a stream of events that may
overtake or repeat what the loops receive, a publication that may be awaited by
the submission loop, and user commands at any moment. Posts are retried without
knowing whether they were committed. What makes the parts correct:

* session: the confirmed document is the authority's log at the confirmed
  revision; the optimistic one is that document plus the queue; an intention
  commits at most once, in order, and is never shown twice; no wakeup, head or
  resync request is lost; an ended session stays as it is; history records
  follow their intentions;
* authority: revisions are contiguous, an opId is answered idempotently, a
  window that runs keeps its lease, and a session that was forgotten is not
  written into by those who knew it;
* worker connection: every op reaches the session once and in order, a window
  joins with the document its tab holds, and joining ends;
* collaboration connection and socket: there is always exactly one way back to
  an open socket, nobody waits on a suspension that has ended, a listener is
  told of a loss and of every revision however late it came, and a deleted
  session is noticed;
* run tracking: an end is shown only if there was one, stays, and is not missed;
  a run is given up for lost only on a current answer; the store stays within its
  cap; a plan is applied once, to the run it was made for;
* publication: what is stored is the log at that revision;
* application: whatever is cached under a document's revision is about that
  document.

`PROJECT.json` lists the places where these are at risk, line by line, and the
property for each.

## Modules

| Module | Content |
| --- | --- |
| `CollabLog` | The abstract specification: intentions are issued, some are committed, once and in the order of their actor; every session holds the document of a prefix of the one history. |
| `SharedSession` | The session, one instance per member of `Actors`, with the authority and the transport. |
| `SharedSessionProperties` | Types and properties over its state. |
| `SharedSessionRefinement` | The view of `SharedSession` that `CollabLog` speaks about, and the statement that one implements the other. |
| `MCSharedSession` | Documents and commands of the instances TLC checks. |
| `WorkerLink` | The shared-worker authority, the ports, and per window the connection and `connectSharedWorkerSession`. |
| `WorkerLinkProperties` | Types and properties over its state. |
| `MCWorkerLink` | The symmetry of its instances. |
| `SharedSessionTypes` | Proof of type correctness. |
| `SharedSessionDocuments` | Proof that confirmed, optimistic and published documents are what they claim to be, and that the undo history is bounded and follows rebases. |
| `SharedSessionOrder` | Proof of exactly-once commit, in order, that nothing is shown twice, and that an opId names one content. |
| `SharedSessionControl` | Proof that a session rests only with nothing left to do, repays every step back, and ends for good. |
| `SharedSessionSimulation` | Proof that `SharedSession` implements `CollabLog`. |
| `WorkerLinkProofs` | Proof of the types, that a window only writes into a session it opened, that edits made while joining are kept, and of what a lease guarantees. |
| `CollabStream` | The collaboration connection, the reconnecting socket under it and the backend above it, with one listener. |
| `CollabStreamProperties`, `MCCollabStream` | Types and properties over its state; the instance TLC checks. |
| `CollabStreamProofs` | Proof of all its safety properties. |
| `Executions` | The runs of one backend as one window follows them: backend, socket, normalizer, store, reconciliation, broadcasts of the other windows. |
| `ExecutionsProperties`, `MCExecutions` | Types and properties over its state; the instance TLC checks. |
| `ExecutionsVerdicts` | Proof of all its properties: among them that what a window believes of the end of a run is true, and stays, and that no run is left open. |

### How `SharedSession` corresponds to the code

| Code | Model |
| --- | --- |
| `confirmed`, `confirmedRevision`, `store.doc` | `confirmed`, `rev`, `store` |
| `pending: PendingEntry[]` | `pending[a]`: a set of entries ordered by `n`, the number of the intention. `opId` is `<<a, n, gen>>`; a rebase that mints a new one adds 1 to `gen`. |
| `entry.predicted` | `val`, what the entry writes to the key of its command |
| `entry.attempts` | `attempts`: generation, base and value of every post |
| `undoStack`, `redoStack` | sets of records, the top being the one with the largest `at`; `id` survives the moves between the stacks as object identity does |
| `status`, `syncTarget`, `resyncRequested` | `status`, `target`, `resync` |
| `syncing` promise and where its loop stands | `sync[a].pc`: idle, loop, waiting for a snapshot, waiting for ops, within a page, delay, exit (the loop has ended, its finalizer has not run) |
| `pumpPromise` and where its loop stands | `pump[a]`: idle, start (installed, not yet run), loop, posting, delay, checkpoint (waits for a publication), exit |
| a publication in flight | `put[a]`: the pair that was captured |
| the authority's op list | `log`; an entry also carries the document after it |
| requests whose sender gave up | `late`: they may still be served |
| the event stream | `up`, `sent`: the stream delivers the log in order from the revision of its baseline; a disconnect loses what it had not delivered |

Actions carry the name of the method they model. `Busy(a)` keeps the other
handlers of an actor out while one of its loops runs synchronously, so that an
action per turn of the loop is still one handler. `CanSubmit`, `CatchingUp`
and `Alive` are the loop conditions and early returns.

A rebase executes the remaining intentions one after the other on the new
confirmed document. `IsReplay(conf, E, w)` says this without recursion: `w`
maps exactly the entries that commit a change to the value they write where
their turn comes. There is one such `w` for every `conf` and `E`.

Abstractions:

* A document is a function from keys to values, a command writes one key with a
  function of what it finds, and may demand that the key is present. A command
  thus re-executes, is refused, or changes nothing, which is all the rebase
  distinguishes. `transformForRebase` and `prepareForSharedReplay`, which
  rewrite the arguments of a few commands, are left out.
* The history keeps one key and its two values per record (a record of the code
  is a forward and an inverse patch).
* Presence, `adoptHistory` and `revisionOffset` are left out.
* The moment of publication is left open: any moment at which the session is
  live and connected. Every policy is a special case.
* Serving a PUT and the arrival of its answer are one step.
* The HTTP backend is not in the repository. What the session can observe of it
  is modelled from the connection and the authority: posts are answered as
  `postOp` does or refused for good (`PostDenied`, `ConnectRefused`), checkpoints may come from participants that are not modelled,
  ops below a checkpoint may no longer be served, and a post may demand a
  checkpoint first. `ForeignOp`, `ForeignCheckpoint` and `Compact` are marked
  external.
* Foreign ops write any other value to any key. Frames the ordered ingress
  rejects (unsound envelope, unexpected revision, ops that do not apply) are
  `RejectFrame` on the event stream and `PageRejected` within a catch-up.

### How `WorkerLink` corresponds to the code

`SharedSession` takes a transport that may do anything. `WorkerLink` is about
the transport within one browser: `app/src/shared-worker-authority.ts` and
`app/src/shared-worker-connection.ts`. A member of `Ports` is a connection and
the window that made it.

| Code | Model |
| --- | --- |
| `AuthoritySession` | `session`: its ports, the document it was opened with, its ops (each with the document after it); `life` counts the sessions the worker has made and forgotten |
| `portSessions`, `portSeen` | `portSessions`, the set of ports held for open; `portSeen`, the ticks since a port's last message was served |
| messages of a port | `toWorker`, `toPort`: sequences, since a port keeps the order |
| `pending` of the connection, with its timeouts | `link[p].pending`: kinds and ages in the order of the requests. The worker answers in that order, so the oldest is the one an answer settles |
| `closed`, `heartbeat` | `link[p].state` (closing: `close()` was called; closed: the port is), `link[p].beat` |
| `bufferedEvents` | `join[p].buffer` |
| where `connectSharedWorkerSession` stands | `join[p].stage`; `deciding` is the code between two awaits |
| `snapshot`, then the session's confirmed pair | `join[p].rev`, `join[p].doc` |
| `latestInitial()`, the document sent, whether `latest !== adopted` | `join[p].local`, `target`, `changed` |

`receive` is split by what the request is and how it is answered: `ServeOpen`,
`RefuseUnknown`, `ServeRead`, `ConflictOp`, `StaleOp`, `AcceptOp`, `ServeClose`;
each prunes the expired ports first, as the code does before every dispatch.
On the other side there is one action per answer the window handles and one per
timer. Abstractions:

* An op is the document after it. A replacement always applies, since its patch
  is computed from the snapshot at its base.
* One session, since a worker is named after it; no presence. `fetchOps` and
  `putSnapshot` equal a heartbeat to the authority and are not sent apart.
* The repeated opId of `postOp` is in `SharedSession`. Requests are well formed.
* The session above is reduced to its ordered ingress and to one post at a
  time; what it does with its answers is `SharedSession`.
* Time passes in ticks. A window that runs handles its timers before the next
  tick, a frozen one may be overtaken by any number of them; a crash is a freeze
  for ever. The only assumption on the durations is
  `Heartbeat + Timeout <= Lease`, which 15 s + 15 s and 90 s satisfy.
* `latestInitial` always finds the tab.

Two things became visible in modelling. Events buffered until the session
subscribes are never newer than the snapshot it starts from, since adoption and
replacement move the snapshot to what the worker had last; `StreamHasNoGap` says
that the two always fit. And a window whose lease
is lost is told nothing: it learns it by its next op.

### How `CollabStream` corresponds to the code

`CollabHttpConnection` owns a `ReconnectingSocket` and calls it from within its
own callbacks, which call back: a close suspends the connection, which
disconnects the socket, whose status the connection listens to. The state of
both is therefore one record, `link`, on which every method is an operator, and
an action is a callback that runs the operators one in the other, as the code
does.

| Code | Model |
| --- | --- |
| `ws` and the browser's socket behind it | `ws` (none, asked, up, down) and `wire`, what it has yet to hand over, its close included |
| `reconnectGeneration` | a timer or ticket is stale once `disconnect` has run; `timers` keeps those that could not be cancelled |
| `reconnectHandle`, `reconnectAttempts > 0`, `deliberateClose` | `handle`, `retrying`, `deliberate` |
| `resolveUrl` | a request of kind ticket, in connections that are `ticketed` |
| `fetchFn`, its loop and `waitForUserSession` | `requests`: sent, answered, or waiting for the user |
| `userSession`, `userSessionTimer`, `retryUserSession` | `suspended`, `retryTimer`, a request of kind retry |
| `authorizationError`, `closed` | `denied`, `closed` |
| `probing`, `cancelProbe` | `probe`: idle, asking, sleeping |
| `wsSend` | `send` |
| `buffered` | `buffered`, and `flushed` once it is undefined |
| the shared session that listens | `on`, `known` (the largest revision it was told), `connected`, `sessionOver` (it has closed) |

`told`, `blind` and `crowded` are history: the session's end was reported; the
listener came while the socket was lost; the buffer held nothing but what it must
not evict. Left out: presence, events emitted while the buffer is drained,
several listeners, one that throws, the bodies of requests, the delays.

### How `Executions` corresponds to the code

| Code | Model |
| --- | --- |
| `map`, in the order of `queuedAt` | `store.order`, `store.entry`: status, the node's state, whether artifacts are hydrated, whether there is an artifact |
| `provisionallyLost`, `unconfirmed`, `recentlyEvicted`, `retained` | `store.lost`, `unconfirmed`, `tombs`, `pins` |
| `executionsSignal` and the application's subscription to it | `Published`, applied wherever the code calls `set` |
| `advancementPlans`, and `applyAdvancement` | `store.plans`, `store.advanced` |
| `terminalJobs` of the normalizer | `terminalJobs` |
| a pass of `reconcileDinksterExecutions` | `rec`: the runs it has yet to read, whether its read is out or answered, and whether it is current |
| the promise of `hydrateDinksterCompletedExecution` | `hydrating` |
| a submission between its request and its answer | `post` |
| messages of the other windows | `echo` |

The statuses of a run, of its node and of the backend's job are those of the
code; what an event does to them is `Changed`, and `Apply` is `apply` around it,
down to which events evict. A run has one node, since the merge of a record is
done node by node. The backend is external: it runs one job at a time, tells the
socket what it does, announces `run_finished` before the results are persisted,
and may forget a job and have it again. The other windows hear the same socket
and broadcast late copies of what they heard; `BroadcastChannel` keeps the order
per window, and `echo` the order of all. Left out: regions, blocked and expanded
nodes, previews and their budget, outputs, logs and their backfill,
`restoreCompleted`, registrations that wait for their schema, the steps of an
advancement, and several backends in one store.

## Runs

The instances of `SharedSession` have one or two keys and two values plus absence. One key makes every intention conflict with every other; two keys are
needed where records of different keys must not disturb each other.
`FlipAndDrop` is a command that changes whatever present value it finds (so it
re-executes into something else after a rebase) and a removal (which refuses an
absent key): between them they reach the three outcomes of a rebase. Bounds:
`MaxIntents` per actor, `MaxForeign` ops of others, `MaxFaults` transport
faults of the kinds in `Environment`, `MaxUndo`, and `Window` ops after which
the server demands a checkpoint (9 where the demand is not wanted). Two
intentions and one foreign op are the least at which a queue behind a head is
rebased; two faults are needed for a lost answer followed by a resync.
`CHECK_DEADLOCK FALSE` in all of them: users, faults and other participants are
bounded and may simply stop; that nothing else gets stuck is `Settles`.

| Run | Checks | Shows |
| --- | --- | --- |
| `solo` | `TypeOK`, `ConfirmedIsServerPrefix`, `OptimisticIsReplay`, `NeverRestsBehind`, `NoStrandedWork`, `CheckpointIsPrefix`, `BacktrackIsRepaid`, `EndIsFinal` | Under one fault of any kind, with publications on their way while ops arrive and sessions that close or are denied, the documents are what they claim to be, no announced head or pending work is forgotten, and an ended session stays as it is. |
| `retry` | `CommitOrder`, `NeverShownTwice`, `OpIdNamesOneContent`, `ImplementsCollabLog` | Two faults around the posts: exactly-once commit, in order, although posts are repeated under new identities, and every step is one of `CollabLog` or none. |
| `history` | `HistoryBounded`, `HistoryFollowsRebase` | Undo and redo over two keys while foreign ops rebase them. |
| `settles` | `Settles` | Liveness under the fairness below. |

The passing runs have one modelled actor; the others are `ForeignOp` and
`ForeignCheckpoint`, which may do at any moment whatever another session can do
to the log. For several modelled sessions there are the theorems, which hold for
any set of actors.

The instances of `WorkerLink` have two windows. `Heartbeat`, `Timeout` and
`Lease` are 1, 1 and 2 ticks, the tightest the assumption admits, so that every
race of a timer with a message occurs. `Editing`, `MaxEdits`, `Freezable` and
`MaxOps` bound which windows are edited while they join, how often, which may
freeze, and how long the log may be when somebody posts. Time goes on for ever,
so deadlock is checked.

| Run | Checks | Shows |
| --- | --- | --- |
| `joins` | `TypeOK`, `StreamHasNoGap`, `HeldDocIsShared`, `NoEditLostByJoining`, `AdoptionExcludesPeers` | One window adopts, and is edited twice meanwhile, the other replaces, posts race with both (three documents, so that a replacement is refused and tried again). |
| `leases` | `HeldDocIsShared`, `OpsOfThisLife`, `AttentiveKeepsLease`, `NoEditLostByJoining` | One window, which replaces and is edited meanwhile, may be frozen past its lease while the session is forgotten and made anew. |
| `join_ends` | `JoinEnds` | Liveness of joining, below. |

| Run | Checks | Shows |
| --- | --- | --- |
| `stream` | `TypeOK`, `OneWayUp`, `NobodyWaitsInVain`, `SubscriberKnowsHead`, `DropIsTold`, `ComesBackOrTells` | The socket drops, requests fail, the user or the grant goes, the session is deleted, the listener comes late, and any two of these may meet. |
| `executions` | `TypeOK`, `VerdictIsTrue`, `SideSetsFollowMap`, `OverCapOnlyProtected`, `NothingLeftOpen`, `PlansFollowRuns`, `TerminalIsFinal`, `LossIsCurrent`, `ReadsNeverRegress` | Two runs, one of them of a peer, compete for one place in the store while the socket drops, reads fail, jobs are forgotten and copies come late. |

`stream` takes both kinds of connection, with tickets and without. `BufferCap` is
2, the descriptor and one op, and `MaxHead` 2, so that a replay before the first
listener overflows it by one, which is the case the code's comment is about. `Env`
names the faults and `MaxTrouble = 2` lets any two of them meet (a drop during a
suspension, a revocation while the probe is out). The connection may end, so
deadlock is not checked.

In `executions` the store has room for one entry and remembers one tombstone, so
that with two runs there is always one too many; two troubles are needed for a
drop within a pass that a drop began, and for an echo about a run that was
evicted. `MaxWire` and `MaxEcho` are 1: the order on the socket is kept anyway,
what matters is how late a message is against reads and registrations. One run is
cached, so that its end can precede the answer to its submission. Runs end, so
deadlock is not checked.

Three runs show statements of the source that the code does not keep. Each ends
in a counterexample; none makes two participants disagree about the shared
document.

| Run | Statement | Counterexample |
| --- | --- | --- |
| `stale_undo` | session.ts:555-557, undo "can never overwrite a foreign actor's edit" | Undo is dispatched and still pending; a foreign edit of the same key is ingested; the rebase re-executes the recorded value over it. The guard is only applied at dispatch. |
| `revision_cache` | docs/architecture.md:124, "monotonic counter for derived-state invalidation" | One foreign removal makes one pending edit drop: the document changes, +1 and -1 cancel out. Two pending edits that drop even lower the counter. |
| `adopt_answer` | shared-worker-connection.ts:118-121, the type asserted for the answer to `adopt-exclusive` | The only other window posts and closes before the adoption is served: the answer is `stale-base`, `adoptExclusive` reads an op it does not have, and the join is rejected with its connection left open. |

Further divergences were seen and are not runs. A first listener that subscribes
while the socket is lost is handed the buffered descriptor of the lost stream and
never the loss, which is not buffered (collab-connection.ts:656-659 calls it
"meaningless to a subscriber that was never connected"), so it trusts "a dead
pipe" (348-349) until the socket is back; `DropIsTold` excepts it as `blind`. A
denial is an event no session reacts to, so one that was connected stays so. In a
read pass a failed read is skipped without a report (dinkster-reconcile.ts:92),
while app-state.ts:4090-4091 says that "a failed reconcile must be visible, not
vanish", because "executions would silently stay 'running' forever". A late
broadcast of `started` clears the tombstone of a run that has ended and was
evicted (execution-store.ts:480-484) and shows it as running for good: a read of
its record does not end it, as the normalizer lets no second end of a job pass.
`NothingLeftOpen` is therefore about runs whose end this window has not seen. Of the sessions: a resync moves the
confirmed revision by more than one, so the `onOp` feed is not "contiguous"
(session.ts:41-42); and after a resync to a checkpoint older than a lost answer
an intention may be reported as dropped and then be confirmed by the log
(session.ts:135), or dissolve without a word (session.ts:24-25).

Every property of a passing run has a mutant in `PROJECT.json`: an operator
named after the definition it replaces, placed before it under the comment
"Defect", that describes a plausible slip in that code. Under it TLC finds the
property violated in the same run.

### Fairness

For `SharedSession`, `FairSpec` assumes weak fairness of the continuations that JavaScript owes the
session once they can run: the turns of the two loops and their finalizers,
timers (the retry delay), the socket's events, the end of a publication, and of
the authority's answer to what it is asked. Nothing is assumed of users, of
faults or of other participants. Weak fairness suffices because such a
continuation, once enabled, stays enabled until it runs or until another step
of the same actor takes its place. `settles` leaves out frames with an unsound
envelope: a session that is told of a head only by such a frame cannot know it,
and comes to rest behind it (session.ts:733-740; listed as a hazard).

For `WorkerLink`, `FairSpec` assumes that time passes and that the event loop of
a window goes on: its messages, timers and continuations. Nothing is assumed of
the worker, which may stop, nor of users, nor that a frozen window resumes:
`JoinEnds` rests on the request timeout alone.

For `CollabStream`, `FairSpec` assumes that a socket's events are handed over and
that it is accepted or refused, that reconnect timers, the sleep of the probe and
the retry timer end, and that every kind of request is answered. Faults are
bounded, so that from some moment on requests succeed; nothing is assumed of the
user, who may stay away, and `ComesBackOrTells` then promises nothing.

`Executions` states no fairness: `NothingLeftOpen` is the safety property that
when nothing is on its way any more, what a connect found open is settled.

## Proofs

Every theorem is about `Spec`, without fairness, and holds for every value of
the constants that the one assumption of its model admits: any number of actors,
keys, values, intentions and faults and any commands (`SessionAssumption`); any
windows and documents, and any three durations with `Heartbeat + Timeout <=
Lease` (`LinkAssumption`); any number of runs, any caps
(`ExecutionsAssumption`); any positive cap of the buffer
(`CollabStreamAssumption`). What the four assume beyond that is that numbers are
natural numbers, and that sets are of the right kind.

| Theorem | Module | States |
| --- | --- | --- |
| `TypeCorrect` | `SharedSessionTypes` | `[]TypeOK` |
| `ConfirmedCorrect` | `SharedSessionDocuments` | `[]ConfirmedIsServerPrefix` |
| `OptimisticCorrect` | `SharedSessionDocuments` | `[]OptimisticIsReplay` |
| `CheckpointCorrect` | `SharedSessionDocuments` | `[]CheckpointIsPrefix` |
| `HistoryStaysBounded` | `SharedSessionDocuments` | `[]HistoryBounded` |
| `HistoryKeepsUp` | `SharedSessionDocuments` | `[]HistoryFollowsRebase` |
| `RestsAtTarget` | `SharedSessionControl` | `[]NeverRestsBehind` |
| `WorkIsPumped` | `SharedSessionControl` | `[]NoStrandedWork` |
| `StepsBackAreRepaid` | `SharedSessionControl` | `BacktrackIsRepaid` |
| `EndsForGood` | `SharedSessionControl` | `EndIsFinal` |
| `CommitsInOrder` | `SharedSessionOrder` | `[]CommitOrder` |
| `ShownOnce` | `SharedSessionOrder` | `[]NeverShownTwice` |
| `OpIdsAreUnambiguous` | `SharedSessionOrder` | `[]OpIdNamesOneContent` |
| `Implements` | `SharedSessionSimulation` | `ImplementsCollabLog` |
| `OwnLifeOnly` | `WorkerLinkProofs` | `[]OpsOfThisLife` |
| `LinkTypes` | `WorkerLinkProofs` | `[]TypeOK` |
| `EditsAreKept` | `WorkerLinkProofs` | `[]NoEditLostByJoining` |
| `AttentiveStays` | `WorkerLinkProofs` | `[]AttentiveKeepsLease` |
| `AdoptsAlone` | `WorkerLinkProofs` | `AdoptionExcludesPeers` |
| `HeldDocsAreShared` | `WorkerLinkProofs` | `[]HeldDocIsShared` |
| `StreamsAreGapless` | `WorkerLinkProofs` | `[]StreamHasNoGap` |
| `StreamTypes` | `CollabStreamProofs` | `[]TypeOK` |
| `WaysAreOne` | `CollabStreamProofs` | `[]OneWayUp` |
| `WaitersAreServed` | `CollabStreamProofs` | `[]NobodyWaitsInVain` |
| `HeadIsKnown` | `CollabStreamProofs` | `[]SubscriberKnowsHead` |
| `LossIsHeard` | `CollabStreamProofs` | `[]DropIsTold` |
| `WindowTypes` | `ExecutionsVerdicts` | `[]TypeOK` |
| `VerdictsAreTrue` | `ExecutionsVerdicts` | `[]VerdictIsTrue` |
| `VerdictsStay` | `ExecutionsVerdicts` | `TerminalIsFinal` |
| `SideSetsFollow` | `ExecutionsVerdicts` | `[]SideSetsFollowMap` |
| `CapYieldsToProtection` | `ExecutionsVerdicts` | `[]OverCapOnlyProtected` |
| `PlansAreSeenTo` | `ExecutionsVerdicts` | `[]PlansFollowRuns` |
| `LossIsTimely` | `ExecutionsVerdicts` | `LossIsCurrent` |
| `NodesAreNotTakenBack` | `ExecutionsVerdicts` | `ReadsNeverRegress` |
| `NothingStaysOpen` | `ExecutionsVerdicts` | `[]NothingLeftOpen` |

Each module on `SharedSession` strengthens the invariant of the one before it:
`TypeOK`, then `DocsInv`, and from there `HistoryInv`, `RestInv`, and `OrderInv`
with `WireInv`; the simulation uses `OrderInv`. In `WorkerLinkProofs` `EditInv`,
`LeaseInv` and `ShareInv` strengthen `LinkInv`, which contains `LifeInv`; in `ExecutionsVerdicts`
`VerdictInv`, `KeptInv` and `DueInv` follow each other.

**Types.** `TypeOK` is inductive with the clauses it needs beyond the types: a
page of ops ends within the log, a snapshot is only answered by a snapshot, and
an accepted post names an op that the log has. The lemmas follow the code:
`Greatest` gives the witness of the CHOOSE in `Ground`, `GroundType` shows that
what a replay leaves is a document, `RemintType` and `RebaseType` carry this
through a rebase, `IngestType` through the three ways an op is ingested, and one
lemma per group of actions puts them together. `FrameType` stands for all the
state an action leaves alone while the log at most grows.

**Documents.** None of the three statements is inductive alone: a checkpoint is
adopted as the confirmed document, and the confirmed document is what is
published. `DocsInv` says all of them at once: the documents in the log follow
from its ops; every copy (the stored checkpoint, a publication in flight, an
answer to a snapshot request) is the log at its revision; and each session's
confirmed document is the log at `rev`, its optimistic one the replay of its
queue on that. `Ground(conf, E, w)` is defined by the last writer of each key;
`TopWriter`, `NoWriter` and `KeySame` read it, and `GroundAppend`,
`GroundMoved` and `GroundHead` say what the three things that happen to a queue
do to it: an intention is appended, its head is confirmed, it is replayed on
another document. The step is cut into what it does to the log, to the copies
and to a session; `SessionMoves` classifies every step of a session (nothing,
an op ingested, an intention executed, a document adopted), so that later
modules need not look at the actions again.

**History.** A record says what its intention changes, and a rebase may change
both of its values. `HistoryInv` says of every record, on either stack, that it
describes its author, if that is pending: the value the author writes, and the
value found by the replay of the entries before it on the confirmed document
(`Describes`). So the proof is again about `Ground`: `GroundBelow` shows that what
an entry finds depends on the entries before it alone. That the records of the
two stacks are distinct (`Apart`) and together within the limit (`Fits`) is part
of it, since an undo moves a record from one stack to the other and a new
intention clears the second.

**Control.** `NeverRestsBehind` and `NoStrandedWork` are inductive on top of
`DocsInv`: each clause of `RestInv` relates where the two loops stand to the
target, the resync flag and the queue. What needed care are the turns at which a
loop has ended and its finalizer has not run (`exit`): a head announced then
finds the promise still installed, and the finalizer has to look again. The two
action properties are read off the same step, `Moves`.

**Order.** That an actor's ops are in the log in the order of its intentions,
each once, needs to know what is still on its way. `OrderInv` adds, for an
actor: own ops up to a post's base are of earlier intentions; what is pending
is later than every own op up to `rev`; and an own op above `rev`, or a post
whose base is the head, is of an intention before the queue or an attempt its
entry has recorded. The last clause is the reason `entry.attempts` exists: a
rebase may give an entry a new opId, and it keeps exactly the attempts that may
still turn out to have committed. Without it the entry would not recognise its
own op, and would post it again. That only the head of the queue has attempts
makes the order follow.

**OpIds.** That two contents never go under one opId does not follow from the
log: a post whose answer was lost may still be served, after its intention was
rebased and posted again. `WireInv` is about all the contents the authority was
shown or may yet be shown (`Contents`): two of one opId are equal, and an entry
that has not been posted under its present opId finds nothing there
(`Untaken`), whence the next post is either the same again or has a new name.

**Simulation.** `CollabLog` sees who made each op of the log, which
intention it is and the document after it, and of each session what it has
issued, has open and has reported, and the prefix it holds. `Run` is
`Issue`, an accepted post `Commit`, `ForeignOp` `OutsideCommit`; an
acknowledgement, a confirmed pending op, a foreign op and an adopted checkpoint
are `See`; everything else stutters. `OrderInv` gives the guards of `Commit` and
`See`.

**Lives of the worker's session.** A forgotten session makes room for one whose
revisions start at 0 again, so a base revision alone does not tell the two
apart; what does is that a pruned port is unknown to the authority. `LifeInv`
says that the ports held for open are those of the session, were opened in its
life, and so was the port of every op. `DisconnectedLives` and `KeptLives` carry
it through the pruning that precedes every request.

**Types and turns of a connection.** That a window only handles an answer it has
asked for is a matter of counting: requests outstanding, requests the worker has
yet to serve, and answers on their way. `LinkInv` says so with a function that
counts the answers in the queue (`Owed`), so that appending one and removing the
head are steps of arithmetic; with it, which request the join waits for and
with which document (`InTurn`). `KeepsLink` and `Moves` split a step into its
window and the worker.

**Edits while joining.** `EditInv` adds per stage of the join how the tab's
document, the one that was sent and the one held are related: as long as the tab
is not edited again they are equal, and an edited tab does not pass a stage without
`changed`.

**Leases.** `AttentiveKeepsLease` is about the worker's clock and is made true by
the window's. `LeaseInv` bounds the first by the second (`Timely`): a port that has
nothing to be served was seen no longer ago than its last heartbeat was sent; one
that has, no longer than the oldest of those requests is old, and a heartbeat.
The request timeout bounds that age, so that `Heartbeat + Timeout <= Lease` is
all that is needed; nothing is assumed of the worker's speed, except that a request it
does not serve in time closes the connection. `AdoptsAlone` follows, since a window
that is in its session is counted.

**What a window holds.** The document of a window, its buffer and the messages
on their way to it are one line, and `ShareInv` is about that line. `Shown`: each
op and each snapshot in it shows the document the session had at its revision, and
so does the document held; this needs no lease, only that the session is the one
the port was opened in. `Continues` is for a port that is on the worker's list:
ops are in order (`Orderly`); after what is held come all the ops up to the head,
and after a snapshot all those it lacks (`Covers`), since it may become what is
held. An op the window posted comes as an answer and all others as events, so the
line has to be covered by both together. `Tidy` is what rules out the rest: a
port is opened by its first request, before which it is sent nothing, and posts
nothing before it has joined. The lemmas are about lines first: what
`Orderly` and `Covers` become when a message is appended, when the head is moved
into the buffer, dropped as already held, or becomes what is held; then one for
what the worker does to a line (`Announced` appends, a snapshot is the head of
the log, a pruned port gets nothing) and one per step of a window.
`HeldDocsAreShared` is `Shown`, `StreamsAreGapless` is `Continues`.

**The stream.** `StreamInv` says of the connection that it has one way to a socket
or none (`Way`), one look for the user exactly while it is suspended (`Look`), that
whoever waits does so for a reason that lasts (`Wait`, `Asking`); of the listener,
that it knows nothing that was not committed and is told of a loss (`Ears`,
`Drops`); and of the two together, that what is on the wire of an open socket ends
with the head, its descriptor comes first, and if it is empty the listener, or the
buffer that waits for one, has the head (`Wire`, `Told`). Between two methods of a
callback the invariant does not hold: `Between` is the state in which the last way
up is gone and the next not begun, and `ScheduleDoes` and `OpenDoes` lead out of it. So there
is a lemma for each method, with the part of the invariant it needs and the part it
gives. `EvictedOK` is about the buffer: what it lets go is an op unless it is full
of other events, and never the newest. A subscription replays the buffer by induction over its
length (`HeardAllDoes`).

**Verdicts on runs.** That a store shows true ends is inductive only together
with what is on its way to it. `VerdictInv` says that a message, a broadcast and
an answer that tell an end tell the one there was, however late they arrive; an
end of the backend is final (`Forward`), so they go on to. The operators of the
store are dealt with first, and apart from the invariant: `Follows(s, t, j, end)`
says that `t` is `s` after something that concerns the run `j` and may have told
the end `end`, with a lemma for each operator of the code, from `Published` and
`Evict` to `Apply` and `Register`. Both theorems are read off it. Its clause that
no other run appears makes two of them one step, which the replay of a record
needs.

**What is kept beside the runs.** `KeptInv` relates the verdicts of loss, the keys
nobody vouches for, the tombstones, the pins and the plans to the map, which every
operator of the store maintains between two of its steps only in parts. `Evict` is where they meet:
it removes the oldest runs that are not protected, which are those a filter finds.
A filter is the recursive function `Among`, and what it returns is proved by
induction over the length of the list (`AmongIs`, `KeepsMore`, `NewestIs`): the
least length at which a statement fails is a contradiction, which
needs the least element of a set of naturals and no induction theorem of the
library. `MissingIsCurrent` says that a "not found" of the pass at work is as old as
its connect at most, which is `LossIsCurrent`.

**Nothing left open.** `DueInv` names, for every run that was open at the connect
and has ended, what will settle it (`SettlingOf`): the pass will ask for it, or
has the answer; or its end is on the wire; or its outputs are being read. Each step
hands it from one to the next. A superseded pass counts, since it starts
again.

Some definitions were given a form the provers can unfold, with the same meaning: the
filters of `Executions` (`Among`), the replay of events in `WorkerLink` (`IngestAll`)
and `CollabStream` (`HeardAll`) are recursive functions and not folds, whose
definition the provers cannot use. One matter was a defect of the text: TLA+
leaves open which arm of a `CASE` with overlapping guards is taken, and TLC takes the
first; `Heard`, `ProbeArrives` and `RetryArrives` had such arms and now have none.
`StreamHasNoGap` was stated of the sequence that `SelectSeq` leaves, and now of the
positions it would keep: their revisions are exactly those above the document, and
they increase.

Every invariant and action property a passing run checks is a theorem.
Checked by TLC only: liveness (`Settles`, `JoinEnds`, `ComesBackOrTells`), which
is out of the prover's reach.

## Not modelled, and the order of what follows

1. `WorkerLink` and `SharedSession` together: what a session promises over a
   connection that loses its lease.
2. `SnapshotPolicy`: decide, in flight, back-off after a refusal; refinement of
   the open choice in `SharedSession`.
3. `CollabStream` under `SharedSession`: a session over a connection that is
   suspended or begins to listen late.
4. `Executions`: the preview budget; `restoreCompleted`.
5. `DocumentStore`: notification order under re-entrant commits, and dispatch
   from within a notification.
6. `WorkspaceTabs`, `ImageSharedSession`, `SupervisorPoll`, the share and join
   life cycle.
7. Pure operators of the compiler (liveness, bypass), if time permits.

Rendering, widgets, menus, search, formats and build tooling have no protocol
and are left out; each is listed in `PROJECT.json` with its reason.
