----------------------- MODULE SharedSessionProperties -----------------------
(***************************************************************************)
(* What SharedDocumentSession promises, over the state of SharedSession.    *)
(***************************************************************************)
EXTENDS SharedSession

-----------------------------------------------------------------------------
(* Types *)

Attempt == [gen : Nat, base : Nat, val : Val]

Entry == [n : Nat \ {0}, gen : Nat, cmd : Command, val : Val,
          origin : {"command", "undo", "redo"}, rec : Nat, found : Val \cup {None},
          attempts : SUBSET Attempt]

LogOp == [actor : Actors \cup {None}, n : Nat \ {0}, gen : Nat, base : Nat,
          key : Keys, val : Val, doc : Doc]

Post == [actor : Actors, n : Nat \ {0}, gen : Nat, base : Nat, key : Keys, val : Val]

Reply == [kind : {"accepted", "stale-base", "snapshot-required"}, rev : Nat]

\* A post on its way and the answer to it, once there is one.
Exchange == [req : Post, reply : Reply \cup {None}]

Checkpoint == [rev : Nat, doc : Doc]

SnapshotReply == [kind : {"snapshot"}, rev : Nat, doc : Doc]
OpsReply      == [kind : {"ops", "resync-required"}]

SyncState ==
  [pc : {"idle", "loop", "snapshot", "ops", "page", "delay", "exit"},
   reply : SnapshotReply \cup OpsReply \cup {None},
   next : Nat, last : Nat, progressed : BOOLEAN]

ServerTypeOK ==
  /\ log \in Seq(LogOp) /\ checkpoint \in Checkpoint /\ floor \in Nat
  /\ late \in SUBSET Post

DocTypeOK ==
  /\ confirmed \in [Actors -> Doc] /\ rev \in [Actors -> Nat]
  /\ store \in [Actors -> Doc] /\ pending \in [Actors -> SUBSET Entry]
  /\ undo \in [Actors -> SUBSET HistoryRecord] /\ redo \in [Actors -> SUBSET HistoryRecord]
  /\ surfaced \in [Actors -> SUBSET Nat] /\ retired \in [Actors -> SUBSET Nat]

\* A reply is of the kind its request asks for, and what it names is logged.
SyncTypeOK ==
  /\ status \in [Actors -> {"live", "catching-up", "closed", "error"}]
  /\ target \in [Actors -> Nat] /\ resync \in [Actors -> BOOLEAN]
  /\ sync \in [Actors -> SyncState]
  /\ \A a \in Actors :
       /\ sync[a].last <= Len(log)
       /\ sync[a].pc = "snapshot" => sync[a].reply \in SnapshotReply \cup {None}

PumpTypeOK ==
  /\ pump \in [Actors -> {"idle", "start", "loop", "posting", "delay", "checkpoint", "exit"}]
  /\ post \in [Actors -> Exchange \cup {None}]
  /\ \A a \in Actors : pump[a] = "posting" =>
       /\ post[a] \in Exchange
       /\ (post[a].reply # None /\ post[a].reply.kind = "accepted")
            => post[a].reply.rev \in 1 .. Len(log)

LinkTypeOK ==
  /\ minted \in [Actors -> Nat] /\ put \in [Actors -> Checkpoint \cup {None}]
  /\ up \in [Actors -> BOOLEAN] /\ sent \in [Actors -> Nat] /\ faults \in Nat

TypeOK == ServerTypeOK /\ DocTypeOK /\ SyncTypeOK /\ PumpTypeOK /\ LinkTypeOK

-----------------------------------------------------------------------------
(* Properties *)

\* "confirmed is the server-authoritative document at confirmedRevision:
\* exactly the server op log applied in server order" - also when an ack takes
\* the optimistic document over, and when the session steps back to a checkpoint.
ConfirmedIsServerPrefix ==
  \A a \in Actors : rev[a] <= Len(log) /\ confirmed[a] = DocAt(rev[a])

\* "The optimistic document is always confirmed + pending": no ingress, ack or
\* rebase leaves the document the user sees out of step with the queue.
OptimisticIsReplay ==
  \A a \in Actors :
    store[a] = Ground(confirmed[a], [e \in pending[a] |-> e.val], minted[a] + 1)

\* However often an intention is posted, reposted under new opIds, lost or
\* late, the server commits it at most once, and the intentions of one actor
\* commit in the order they were made.
CommitOrder ==
  \A i, j \in DOMAIN log :
    (i < j /\ log[i].actor = log[j].actor) => log[i].n < log[j].n

\* An intention that is part of the confirmed document is not pending: the
\* user never sees it applied twice.
NeverShownTwice ==
  \A a \in Actors : \A e \in pending[a] : \A i \in 1 .. rev[a] :
    ~(log[i].actor = a /\ log[i].n = e.n)

\* Everything the authority may be shown under an opId.
OnTheWire == late \cup {post[a].req : a \in {b \in Actors : pump[b] = "posting"}}

\* One opId never names two contents: the authority's idempotent replay is
\* never asked to answer for something else ("op id was already used for
\* different content").
OpIdNamesOneContent ==
  \A x \in OnTheWire :
    /\ \A y \in OnTheWire :
         (x.actor = y.actor /\ SameOp(x, y)) => x = y
    /\ \A i \in DOMAIN log :
         (x.actor = log[i].actor /\ SameOp(x, log[i])) =>
            x.base = log[i].base /\ x.val = log[i].val

\* A live session has reached every head it was told of and owes no resync:
\* no announcement made during a pass, or between a pass and its finalizer,
\* is lost.
NeverRestsBehind ==
  \A a \in Actors :
    status[a] = "live" => ~Syncing(a) /\ rev[a] >= target[a] /\ ~resync[a]

\* Pending work of a live session always has a pump: no wakeup is lost
\* between the end of a loop and its finalizer.
NoStrandedWork ==
  \A a \in Actors : CanSubmit(a) => pump[a] # "idle"

\* What publishers store is the log at that revision, free of optimistic
\* intentions, whichever ops arrive while the PUT is on its way.
CheckpointIsPrefix ==
  checkpoint.rev <= Len(log) /\ checkpoint.doc = DocAt(checkpoint.rev)

\* The target never drops, and a session that steps back to an older
\* checkpoint is bound to return to what it had confirmed.
BacktrackIsRepaid ==
  [][\A a \in Actors :
       /\ target'[a] >= target[a]
       /\ rev'[a] < rev[a] => target'[a] >= rev[a]]_vars

\* Nothing revives an ended session, and no answer still in flight changes
\* the documents it holds.
EndIsFinal ==
  [][\A a \in Actors : ~Alive(a) =>
       /\ status'[a] \in {status[a], "closed"}
       /\ <<confirmed[a], rev[a], store[a], pending[a]>>'
            = <<confirmed[a], rev[a], store[a], pending[a]>>]_vars

\* The history never outgrows maxUndo, although undo and redo push without a
\* cap, and no record is on the stacks twice.
HistoryBounded ==
  \A a \in Actors :
    LET size == Cardinality(undo[a]) + Cardinality(redo[a])
    IN  /\ size <= MaxUndo
        /\ Cardinality({r.id : r \in undo[a] \cup redo[a]}) = size

\* A record whose author is still pending describes what that author does
\* where it now stands: it rewrites with every rebase, mirrored for an undo.
HistoryFollowsRebase ==
  \A a \in Actors : \A r \in undo[a] \cup redo[a] : \A e \in pending[a] :
    LET found == Ground(confirmed[a], [x \in pending[a] |-> x.val], e.n)[r.key]
    IN  Author(e, r, pending[a]) =>
          IF e.origin = "undo" THEN r.old = e.val /\ r.new = found
                               ELSE r.new = e.val /\ r.old = found

\* Once the user and the faults are done, every session that has not ended
\* submits all it holds and reaches the head of the log.
Settles ==
  \A a \in Actors : <>[](Alive(a) => pending[a] = {} /\ rev[a] = Len(log))

-----------------------------------------------------------------------------
(* Statements of the source that the code does not keep *)

\* replayHistory: "undo can never overwrite a foreign actor's edit with our
\* stale recording": a pending replay executes where it finds the value its
\* record captured.
UndoNeverOverwrites ==
  \A a \in Actors : \A e \in pending[a] :
    e.origin # "command" =>
      Ground(confirmed[a], [x \in pending[a] |-> x.val], e.n)[e.cmd.key] = e.found

\* The revision getter, as its consumers see it.
Revision(a) == rev[a] + Cardinality(pending[a])

\* revision: an "ephemeral monotonic counter for derived-state invalidation
\* within a session".  Compile results and semantic hashes are cached under
\* it, so a document that changes changes it.
RevisionInvalidates ==
  [][\A a \in Actors : store'[a] # store[a] => Revision(a)' # Revision(a)]_vars
=============================================================================
