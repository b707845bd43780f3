---------------------------- MODULE SharedSession ----------------------------
(***************************************************************************)
(* SharedDocumentSession (core/src/commands/shared-session.ts): one actor's *)
(* optimistic copy of a document whose ops are ordered by an authority.     *)
(* Every actor runs the session's state machine; the authority and the      *)
(* transport between them are the environment, with the losses, delays and  *)
(* reconnects the session has code for.                                     *)
(*                                                                          *)
(* A document is a function from Keys to values.  A command writes one key; *)
(* what it writes is a function of the value it finds, and it may demand    *)
(* that the key is present.  That is all rebasing can tell apart: a command *)
(* re-executes, is refused, or changes nothing.                             *)
(*                                                                          *)
(* JavaScript handlers run to completion.  Where a handler contains a loop, *)
(* each iteration is an action and Busy(a) keeps every other handler of the *)
(* actor out until the loop ends.                                           *)
(***************************************************************************)
EXTENDS Naturals, Sequences, FiniteSets, FiniteSetsExt

CONSTANTS
  Actors,       \* participants whose session is modelled
  Keys, Values, \* the places of a document and what they can hold
  Absent,       \* the value of a key that is not in the document
  None,         \* no request, no reply
  InitialDoc,   \* the document the session starts from, at revision 0
  Commands,     \* the commands a user may dispatch
  Environment,  \* the optional environment behaviours a run allows
  MaxIntents,   \* bound: intentions each actor makes
  MaxForeign,   \* bound: ops committed by participants that are not modelled
  MaxFaults,    \* bound: transport faults in a behaviour
  MaxUndo,      \* the session's maxUndo option
  Window        \* ops past the checkpoint before the server demands a snapshot

Val == Values \cup {Absent}
Doc == [Keys -> Val]

\* A command: the key it writes, whether it refuses an absent key, and the
\* value it writes as a function of the value it finds.
Command == [key : Keys, needs : BOOLEAN, write : [Val -> Val]]

ASSUME SessionAssumption ==
  /\ Absent \notin Values
  /\ InitialDoc \in Doc
  /\ Commands \subseteq Command
  /\ MaxIntents \in Nat /\ MaxForeign \in Nat /\ MaxFaults \in Nat
  /\ MaxUndo \in Nat /\ Window \in Nat \ {0}
  /\ None \notin Actors

VARIABLES
  \* The authority.
  log,         \* the ops in server order; the index is the revision
  checkpoint,  \* the snapshot on the server: a revision and a document
  floor,       \* ops up to this revision are no longer served
  late,        \* posts whose sender gave up on them and that may still arrive
  \* The document side of each session.
  confirmed, rev,  \* confirmed and confirmedRevision
  store,           \* the optimistic document
  pending,         \* unacknowledged intentions, ordered by their number n
  minted,          \* how many intentions the session has made
  undo, redo,      \* the history stacks
  surfaced,        \* intentions reported through onConflict
  retired,         \* intentions whose op the session has seen committed
  \* The control side of each session.
  status, target, resync, sync, pump, post, put,
  \* The event stream of each session.
  up,          \* the stream is connected
  sent,        \* the last revision the stream has delivered or skipped
  faults       \* transport faults so far

serverVars  == <<log, checkpoint, floor, late>>
docVars     == <<confirmed, rev, store, pending, undo, redo, surfaced, retired>>
syncVars    == <<status, target, resync, sync>>
pumpVars    == <<pump, post>>
streamVars  == <<up, sent>>
vars == <<serverVars, docVars, minted, syncVars, pumpVars, put, streamVars, faults>>

-----------------------------------------------------------------------------
(* Documents and commands *)

\* An op or a request writes one key; an op also carries the document the
\* authority has after it.
DocAt(r) == IF r = 0 THEN InitialDoc ELSE log[r].doc

Write(doc, w) == [doc EXCEPT ![w.key] = w.val]

Refused(cmd, doc) == cmd.needs /\ doc[cmd.key] = Absent

Commits(cmd, doc) ==
  /\ ~Refused(cmd, doc)
  /\ cmd.write[doc[cmd.key]] # doc[cmd.key]

\* The session's internal command: replay of a recorded value.  Removing
\* needs something to remove.
SessionPatch(k, v) ==
  [key |-> k, needs |-> v = Absent, write |-> [x \in Val |-> v]]

\* The document that results from conf when the entries in DOMAIN w write
\* the values w gives them, in the order of their numbers; only the entries
\* before number n are applied.
Ground(conf, w, n) ==
  [k \in Keys |->
     LET writers == {e \in DOMAIN w : e.n < n /\ e.cmd.key = k}
     IN  IF writers = {} THEN conf[k]
         ELSE w[CHOOSE e \in writers : \A f \in writers : f.n <= e.n]]

\* w is what re-executing the entries of E in order on conf writes: an entry
\* is in DOMAIN w exactly when it commits a change where its turn comes.
IsReplay(conf, E, w) ==
  \A e \in E :
    LET ground == Ground(conf, w, e.n)
    IN  /\ e \in DOMAIN w <=> Commits(e.cmd, ground)
        /\ e \in DOMAIN w => w[e] = e.cmd.write[ground[e.cmd.key]]

-----------------------------------------------------------------------------
(* Session state *)

Alive(a)    == status[a] \in {"live", "catching-up"}
Syncing(a)  == sync[a].pc # "idle"
Busy(a)     == sync[a].pc \in {"loop", "page"} \/ pump[a] = "loop"

IsHead(a, e) == e \in pending[a] /\ \A f \in pending[a] : e.n <= f.n

\* The opId is <<actor, n, gen>>: the n-th intention under its gen-th identity.
SameOp(x, y) == x.n = y.n /\ x.gen = y.gen

Claims(e, op)  == \E t \in e.attempts : t.gen = op.gen /\ e.n = op.n

NoSync == [pc |-> "idle", reply |-> None, next |-> 0, last |-> 0, progressed |-> FALSE]
At(pc) == [NoSync EXCEPT !.pc = pc]

\* pump(): install the promise unless one is installed.
Woken(p) == IF p = "idle" THEN "start" ELSE p
WakePump(a) == pump' = [pump EXCEPT ![a] = Woken(@)]

RaiseTarget(a, r) == target' = [target EXCEPT ![a] = IF r > @ THEN r ELSE @]

StartSync(a) ==
  /\ sync'   = [sync EXCEPT ![a] = IF Syncing(a) THEN @ ELSE At("loop")]
  /\ status' = [status EXCEPT ![a] = IF Syncing(a) THEN @ ELSE "catching-up"]

RequestCatchUp(a, r) ==
  /\ RaiseTarget(a, r)
  /\ StartSync(a)
  /\ UNCHANGED resync

RequestResync(a, r) ==
  /\ RaiseTarget(a, r)
  /\ resync' = [resync EXCEPT ![a] = TRUE]
  /\ StartSync(a)

Fault(kind) ==
  /\ kind \in Environment
  /\ faults < MaxFaults
  /\ faults' = faults + 1

-----------------------------------------------------------------------------
(* History *)

\* A stack is a set of records: at is the number of the intention that pushed
\* the record, so the top is the youngest.  A record keeps its id when it
\* moves between the stacks.
HistoryRecord == [at : Nat, id : Nat, key : Keys, old : Val, new : Val]

IsTop(stack, r)    == r \in stack /\ \A s \in stack : s.at <= r.at
IsBottom(stack, r) == r \in stack /\ \A s \in stack : r.at <= s.at

Push(stack, r, n) == stack \cup {[r EXCEPT !.at = n]}

RecordsOf(E) == {e.rec : e \in E}

Author(x, r, E) == x \in E /\ x.rec = r.id /\ \A y \in E : y.rec = r.id => y.n <= x.n

\* Defect: the record of an undo is rewritten like any other.
RewrittenUnmirrored(r, conf, w) ==
  IF \E x \in DOMAIN w : Author(x, r, DOMAIN w)
  THEN LET e == CHOOSE x \in DOMAIN w : Author(x, r, DOMAIN w)
       IN  [r EXCEPT !.old = Ground(conf, w, e.n)[r.key], !.new = w[e]]
  ELSE r

\* A surviving entry rewrites its record with what it now reads and writes;
\* the record of an undo is mirrored.
Rewritten(r, conf, w) ==
  IF \E x \in DOMAIN w : Author(x, r, DOMAIN w)
  THEN LET e     == CHOOSE x \in DOMAIN w : Author(x, r, DOMAIN w)
           found == Ground(conf, w, e.n)[r.key]
       IN  IF e.origin = "undo" THEN [r EXCEPT !.new = found, !.old = w[e]]
           ELSE [r EXCEPT !.old = found, !.new = w[e]]
  ELSE r

\* removeRecord for every id in gone, then the rewrite of what is left.
Rebased(stack, gone, conf, w) ==
  {Rewritten(r, conf, w) : r \in {s \in stack : s.id \notin gone}}

-----------------------------------------------------------------------------
(* Rebase *)

\* Defects: the opId survives the rebase; the patch is not refreshed; the
\* attempts are forgotten; one of those that can still commit is.
RemintSameId(e, v, r)   == [e EXCEPT !.val = v, !.attempts = {t \in @ : t.base >= r}]
RemintStale(e, v, r)    == [e EXCEPT !.gen = @ + 1, !.attempts = {t \in @ : t.base >= r}]
RemintForgets(e, v, r)  == [e EXCEPT !.gen = @ + 1, !.val = v, !.attempts = {}]
RemintTooFew(e, v, r)   == [e EXCEPT !.gen = @ + 1, !.val = v, !.attempts = {t \in @ : t.base > r}]

Remint(e, v, r) ==
  [e EXCEPT !.gen = @ + 1, !.val = v, !.attempts = {t \in @ : t.base >= r}]

\* The session on conf at revision r, when the entries K of E survive and
\* write w: every survivor has a new opId, and the refused ones are reported
\* next to those already in reported.
Rebuilt(a, conf, r, E, K, w, reported, undoNow, redoNow) ==
  LET gone == RecordsOf(pending[a] \ K)
  IN  /\ confirmed' = [confirmed EXCEPT ![a] = conf]
      /\ rev'     = [rev EXCEPT ![a] = r]
      /\ store'   = [store EXCEPT ![a] = Ground(conf, w, minted[a] + 1)]
      /\ pending' = [pending EXCEPT ![a] = {Remint(e, w[e], r) : e \in K}]
      /\ undo'    = [undo EXCEPT ![a] = Rebased(undoNow, gone, conf, w)]
      /\ redo'    = [redo EXCEPT ![a] = Rebased(redoNow, gone, conf, w)]
      /\ surfaced' = [surfaced EXCEPT ![a] = @ \cup reported \cup
           {e.n : e \in {x \in E \ K : Refused(x.cmd, Ground(conf, w, x.n))}}]

\* Rebuild the optimistic document: re-execute the pending entries except the
\* skipped ones.
Rebase(a, conf, r, skipped, reported, undoNow, redoNow) ==
  LET E == pending[a] \ skipped
  IN  \E K \in SUBSET E : \E w \in [K -> Val] :
        /\ IsReplay(conf, E, w)
        /\ Rebuilt(a, conf, r, E, K, w, reported, undoNow, redoNow)

-----------------------------------------------------------------------------
(* Ordered ingress: the op at revision rev[a] + 1 *)

\* Defect: the optimistic document is taken over whatever else is pending.
AckTakesAll(a, op, r) ==
  \E h \in pending[a] :
    /\ IsHead(a, h)
    /\ op.actor = a /\ SameOp(h, op) /\ h.cmd.key = op.key /\ h.val = op.val
    /\ confirmed' = [confirmed EXCEPT ![a] = store[a]]
    /\ rev'     = [rev EXCEPT ![a] = r]
    /\ pending' = [pending EXCEPT ![a] = @ \ {h}]
    /\ retired' = [retired EXCEPT ![a] = @ \cup {h.n}]
    /\ UNCHANGED <<store, undo, redo, surfaced>>

\* The pending head is confirmed.  With nothing else pending the optimistic
\* document is taken over as the confirmed one.
Ack(a, op, r) ==
  \E h \in pending[a] :
    /\ IsHead(a, h)
    /\ op.actor = a /\ SameOp(h, op) /\ h.cmd.key = op.key /\ h.val = op.val
    /\ confirmed' = [confirmed EXCEPT ![a] =
                       IF pending[a] = {h} THEN store[a] ELSE Write(@, op)]
    /\ rev'     = [rev EXCEPT ![a] = r]
    /\ pending' = [pending EXCEPT ![a] = @ \ {h}]
    /\ retired' = [retired EXCEPT ![a] = @ \cup {h.n}]
    /\ UNCHANGED <<store, undo, redo, surfaced>>

IsHeadOp(a, op) == \E h \in pending[a] : IsHead(a, h) /\ SameOp(h, op)

\* Defect: the confirmed intention is re-executed with the others.
ConfirmPendingKeeps(a, op, r) ==
  /\ op.actor = a /\ ~IsHeadOp(a, op)
  /\ \E e \in pending[a] :
       /\ \E t \in e.attempts :
            /\ e.n = op.n /\ t.gen = op.gen /\ t.base = op.base
            /\ e.cmd.key = op.key /\ t.val = op.val
       /\ Rebase(a, Write(confirmed[a], op), r, {}, {}, undo[a], redo[a])
       /\ retired' = [retired EXCEPT ![a] = @ \cup {e.n}]

\* An older attempt of a pending intention is confirmed.
ConfirmPending(a, op, r) ==
  /\ op.actor = a /\ ~IsHeadOp(a, op)
  /\ \E e \in pending[a] :
       /\ \E t \in e.attempts :
            /\ e.n = op.n /\ t.gen = op.gen /\ t.base = op.base
            /\ e.cmd.key = op.key /\ t.val = op.val
       /\ Rebase(a, Write(confirmed[a], op), r, {e}, {}, undo[a], redo[a])
       /\ retired' = [retired EXCEPT ![a] = @ \cup {e.n}]

\* Another actor's op, or an own op no pending entry claims.
ApplyForeign(a, op, r) ==
  /\ op.actor = a => ~IsHeadOp(a, op) /\ \A e \in pending[a] : ~Claims(e, op)
  /\ Rebase(a, Write(confirmed[a], op), r, {}, {}, undo[a], redo[a])
  /\ UNCHANGED retired

IngestOrdered(a, r) ==
  /\ r = rev[a] + 1
  /\ \/ Ack(a, log[r], r)
     \/ ConfirmPending(a, log[r], r)
     \/ ApplyForeign(a, log[r], r)

\* handleServerOp for an op the stream or a post reply carries; the caller
\* says what becomes of the pump.
HandleServerOp(a, r) ==
  \/ r <= rev[a] /\ UNCHANGED <<docVars, syncVars>>
  \/ r > rev[a] + 1 /\ RequestCatchUp(a, r) /\ UNCHANGED docVars
  \/ IngestOrdered(a, r) /\ UNCHANGED syncVars

-----------------------------------------------------------------------------
(* Local execution *)

NewEntry(a, cmd, origin, rec, found) ==
  [n |-> minted[a] + 1, gen |-> 1, cmd |-> cmd,
   val |-> cmd.write[store[a][cmd.key]],
   origin |-> origin, rec |-> rec, found |-> found, attempts |-> {}]

\* run(): execute on the optimistic document, queue the intention, pump.
Run(a, cmd, origin, rec, found) ==
  /\ Alive(a)
  /\ minted[a] < MaxIntents
  /\ Commits(cmd, store[a])
  /\ LET e == NewEntry(a, cmd, origin, rec, found)
     IN  /\ pending' = [pending EXCEPT ![a] = @ \cup {e}]
         /\ store' = [store EXCEPT ![a] = Write(@, [key |-> cmd.key, val |-> e.val])]
  /\ minted' = [minted EXCEPT ![a] = @ + 1]
  /\ WakePump(a)

\* Defect: maxUndo is off by one.
CappedLate(stack) ==
  IF Cardinality(stack) > MaxUndo + 1 THEN {r \in stack : ~IsBottom(stack, r)} ELSE stack

\* A push onto the undo stack that honours maxUndo.
Capped(stack) ==
  IF Cardinality(stack) > MaxUndo THEN {r \in stack : ~IsBottom(stack, r)} ELSE stack

\* dispatch(): a command that is refused or changes nothing leaves no trace.
Dispatch(a, cmd) ==
  /\ Run(a, cmd, "command", minted[a] + 1, None)
  /\ LET n == minted[a] + 1
         r == [at |-> n, id |-> n, key |-> cmd.key, old |-> store[a][cmd.key],
               new |-> cmd.write[store[a][cmd.key]]]
     IN  undo' = [undo EXCEPT ![a] = Capped(Push(@, r, n))]
  /\ redo' = [redo EXCEPT ![a] = {}]
  /\ UNCHANGED <<confirmed, rev, surfaced, retired, serverVars, syncVars, post,
                 put, streamVars, faults>>

\* undo(): replay the inverse where the document still holds the value the
\* record wrote, as a session.patch that carries the record to the redo stack.
Undo(a) ==
  /\ \E r \in undo[a] :
       /\ IsTop(undo[a], r) /\ store[a][r.key] = r.new
       /\ Run(a, SessionPatch(r.key, r.old), "undo", r.id, r.new)
       /\ undo' = [undo EXCEPT ![a] = @ \ {r}]
       /\ redo' = [redo EXCEPT ![a] = Push(@, r, minted[a] + 1)]
  /\ UNCHANGED <<confirmed, rev, surfaced, retired, serverVars, syncVars, post,
                 put, streamVars, faults>>

Redo(a) ==
  /\ \E r \in redo[a] :
       /\ IsTop(redo[a], r) /\ store[a][r.key] = r.old
       /\ Run(a, SessionPatch(r.key, r.new), "redo", r.id, r.old)
       /\ redo' = [redo EXCEPT ![a] = @ \ {r}]
       /\ undo' = [undo EXCEPT ![a] = Push(@, r, minted[a] + 1)]
  /\ UNCHANGED <<confirmed, rev, surfaced, retired, serverVars, syncVars, post,
                 put, streamVars, faults>>

\* A record whose recorded value is gone is dropped, and so is one the
\* session can no longer run because it has ended.
DropStaleRecord(a) ==
  /\ \/ /\ \E r \in undo[a] :
             /\ IsTop(undo[a], r) /\ (Alive(a) => store[a][r.key] # r.new)
             /\ undo' = [undo EXCEPT ![a] = @ \ {r}]
        /\ UNCHANGED redo
     \/ /\ \E r \in redo[a] :
             /\ IsTop(redo[a], r) /\ (Alive(a) => store[a][r.key] # r.old)
             /\ redo' = [redo EXCEPT ![a] = @ \ {r}]
        /\ UNCHANGED undo
  /\ UNCHANGED <<confirmed, rev, store, pending, surfaced, retired, minted,
                 serverVars, syncVars, pumpVars, put, streamVars, faults>>

-----------------------------------------------------------------------------
(* Submission: pump and pumpLoop *)

CanSubmit(a) == pending[a] # {} /\ status[a] = "live" /\ ~Syncing(a)

Request(a, h) ==
  [actor |-> a, n |-> h.n, gen |-> h.gen, base |-> rev[a],
   key |-> h.cmd.key, val |-> h.val]

\* The attempt is recorded unless this opId was already posted.
Attempted(h, r) ==
  IF \E t \in h.attempts : t.gen = h.gen THEN h
  ELSE [h EXCEPT !.attempts = @ \cup {[gen |-> h.gen, base |-> r, val |-> h.val]}]

\* One turn of the while loop up to the await: post the head, or leave.
PumpLoop(a) ==
  /\ pump[a] \in {"start", "loop"}
  /\ \/ /\ CanSubmit(a)
        /\ \E h \in pending[a] :
             /\ IsHead(a, h)
             /\ pending' = [pending EXCEPT ![a] = (@ \ {h}) \cup {Attempted(h, rev[a])}]
             /\ post' = [post EXCEPT ![a] = [req |-> Request(a, h), reply |-> None]]
        /\ pump' = [pump EXCEPT ![a] = "posting"]
     \/ /\ ~CanSubmit(a)
        /\ pump' = [pump EXCEPT ![a] = "exit"]
        /\ UNCHANGED <<pending, post>>
  /\ UNCHANGED <<confirmed, rev, store, undo, redo, surfaced, retired, minted,
                 serverVars, syncVars, put, streamVars, faults>>

\* Defect: a pump() that raced the finalizer is lost.
PumpFinallyRests(a) ==
  /\ pump[a] = "exit" /\ ~Busy(a)
  /\ pump' = [pump EXCEPT ![a] = "idle"]
  /\ UNCHANGED <<docVars, minted, serverVars, syncVars, post, put, streamVars, faults>>

\* The promise's finalizer.
PumpFinally(a) ==
  /\ pump[a] = "exit" /\ ~Busy(a)
  /\ pump' = [pump EXCEPT ![a] = IF CanSubmit(a) THEN "start" ELSE "idle"]
  /\ UNCHANGED <<docVars, minted, serverVars, syncVars, post, put, streamVars, faults>>

Answered(a) == pump[a] = "posting" /\ post[a].reply # None /\ ~Busy(a)

\* The reply is used up and the loop goes to p.
PumpTo(a, p) ==
  /\ pump' = [pump EXCEPT ![a] = p]
  /\ post' = [post EXCEPT ![a] = None]

\* Any reply after the session left 'live' ends the loop.
ReplyTooLate(a) ==
  /\ Answered(a) /\ status[a] # "live"
  /\ PumpTo(a, "exit")
  /\ UNCHANGED <<docVars, minted, serverVars, syncVars, put, streamVars, faults>>

\* accepted: the op goes through the ordered ingress.
ReplyAccepted(a) ==
  /\ Answered(a) /\ status[a] = "live"
  /\ post[a].reply.kind = "accepted"
  /\ HandleServerOp(a, post[a].reply.rev)
  /\ PumpTo(a, "loop")
  /\ UNCHANGED <<minted, serverVars, put, streamVars, faults>>

\* accepted, but the op in the reply is not the one that was submitted.
ReplyMangled(a) ==
  /\ Answered(a) /\ status[a] = "live"
  /\ post[a].reply.kind = "accepted"
  /\ post[a].reply.rev > rev[a]
  /\ Fault("mangled")
  /\ RequestResync(a, post[a].reply.rev)
  /\ PumpTo(a, "exit")
  /\ UNCHANGED <<docVars, minted, serverVars, put, streamVars>>

\* stale-base: retry when the session has moved on, else catch up first.
ReplyStaleBase(a) ==
  /\ Answered(a) /\ status[a] = "live"
  /\ post[a].reply.kind = "stale-base"
  /\ IF rev[a] > post[a].req.base
     THEN PumpTo(a, "loop") /\ UNCHANGED syncVars
     ELSE PumpTo(a, "exit") /\ RequestCatchUp(a, post[a].reply.rev)
  /\ UNCHANGED <<docVars, minted, serverVars, put, streamVars, faults>>

\* Defect: the document the user sees is published.
OptimisticPair(a) == [rev |-> rev[a], doc |-> store[a]]

\* What a checkpoint holds: never the optimistic document.
ConfirmedPair(a) == [rev |-> rev[a], doc |-> confirmed[a]]

\* snapshot-required: publish, or join the publication in flight.
ReplySnapshotRequired(a) ==
  /\ Answered(a) /\ status[a] = "live"
  /\ post[a].reply.kind = "snapshot-required"
  /\ PumpTo(a, "checkpoint")
  /\ put' = [put EXCEPT ![a] =
               IF @ # None THEN @ ELSE ConfirmedPair(a)]
  /\ UNCHANGED <<docVars, minted, serverVars, syncVars, streamVars, faults>>

\* A definitive refusal (unsupported protocol, authorization) ends the session.
PostDenied(a) ==
  /\ pump[a] = "posting" /\ post[a].reply = None /\ ~Busy(a) /\ status[a] = "live"
  /\ Fault("denied")
  /\ status' = [status EXCEPT ![a] = "error"]
  /\ PumpTo(a, "exit")
  /\ UNCHANGED <<docVars, minted, serverVars, target, resync, sync, put, streamVars>>

\* The transport fails.  The request is lost, or still on its way, or it was
\* served and the answer is lost; the session cannot tell and retries.
PostFails(a) ==
  /\ pump[a] = "posting" /\ ~Busy(a)
  /\ Fault("error")
  /\ \/ post[a].reply = None /\ late' = late \cup {post[a].req}
     \/ UNCHANGED late
  /\ PumpTo(a, IF status[a] = "live" THEN "delay" ELSE "exit")
  /\ UNCHANGED <<docVars, minted, log, checkpoint, floor, syncVars, put, streamVars>>

\* Defect: the delay waits for an answer to a post it did not repeat.
RetryDelayEndsMute(a) ==
  /\ pump[a] = "delay" /\ ~Busy(a)
  /\ pump' = [pump EXCEPT ![a] = "posting"]
  /\ UNCHANGED <<docVars, minted, serverVars, syncVars, post, put, streamVars, faults>>

RetryDelayEnds(a) ==
  /\ pump[a] = "delay" /\ ~Busy(a)
  /\ pump' = [pump EXCEPT ![a] = "loop"]
  /\ UNCHANGED <<docVars, minted, serverVars, syncVars, post, put, streamVars, faults>>

-----------------------------------------------------------------------------
(* The sync loop *)

SyncTo(a, state) == sync' = [sync EXCEPT ![a] = state]

\* Defect: only the live session is told apart.
NotLive(a) == status[a] # "live"

CatchingUp(a) == status[a] = "catching-up"

\* The head of the while loop up to the next await.
SyncLoop(a) ==
  /\ sync[a].pc = "loop"
  /\ \/ /\ CatchingUp(a) /\ resync[a]
        /\ resync' = [resync EXCEPT ![a] = FALSE]
        /\ SyncTo(a, At("snapshot"))
     \/ /\ CatchingUp(a) /\ ~resync[a] /\ rev[a] < target[a]
        /\ SyncTo(a, [At("ops") EXCEPT !.next = rev[a] + 1])
        /\ UNCHANGED resync
     \/ /\ ~CatchingUp(a) \/ (~resync[a] /\ rev[a] >= target[a])
        /\ SyncTo(a, At("exit"))
        /\ UNCHANGED resync
  /\ UNCHANGED <<docVars, minted, serverVars, status, target, pumpVars, put,
                 streamVars, faults>>

Fetched(a, pc) == sync[a].pc = pc /\ sync[a].reply # None /\ ~Busy(a)

\* A session that ended while the fetch was in flight changes nothing more.
FetchTooLate(a) ==
  /\ Fetched(a, "snapshot") \/ Fetched(a, "ops")
  /\ ~CatchingUp(a)
  /\ SyncTo(a, At("exit"))
  /\ UNCHANGED <<docVars, minted, serverVars, status, target, resync, pumpVars,
                 put, streamVars, faults>>

Ambiguous(a, r) == {e \in pending[a] : \E t \in e.attempts : t.base < r}

\* Defect: the revision already confirmed is forgotten.
AdoptSnapshotForgets(a) ==
  /\ Fetched(a, "snapshot") /\ CatchingUp(a)
  /\ LET snap    == sync[a].reply
         dropped == Ambiguous(a, snap.rev)
     IN  /\ target' = [target EXCEPT ![a] = Max({@, snap.rev})]
         /\ Rebase(a, snap.doc, snap.rev, dropped, {e.n : e \in dropped}, {}, {})
  /\ SyncTo(a, At("loop"))
  /\ UNCHANGED <<retired, minted, serverVars, status, resync, pumpVars, put,
                 streamVars, faults>>

\* The resync snapshot arrives: adopt it, drop the history and the intentions
\* it may already contain, rebase the others.
AdoptSnapshot(a) ==
  /\ Fetched(a, "snapshot") /\ CatchingUp(a)
  /\ LET snap    == sync[a].reply
         dropped == Ambiguous(a, snap.rev)
     IN  /\ target' = [target EXCEPT ![a] = Max({@, rev[a], snap.rev})]
         /\ Rebase(a, snap.doc, snap.rev, dropped, {e.n : e \in dropped}, {}, {})
  /\ SyncTo(a, At("loop"))
  /\ UNCHANGED <<retired, minted, serverVars, status, resync, pumpVars, put,
                 streamVars, faults>>

\* The ops arrive: a divergence found during the fetch wins, a floor above
\* the session asks for a snapshot, a page is worked off op by op.
OpsArrive(a) ==
  /\ Fetched(a, "ops") /\ CatchingUp(a)
  /\ \/ /\ resync[a]
        /\ SyncTo(a, At("loop"))
        /\ UNCHANGED resync
     \/ /\ ~resync[a] /\ sync[a].reply.kind = "resync-required"
        /\ resync' = [resync EXCEPT ![a] = TRUE]
        /\ SyncTo(a, At("loop"))
     \/ /\ ~resync[a] /\ sync[a].reply.kind = "ops"
        /\ SyncTo(a, [sync[a] EXCEPT !.pc = "page"])
        /\ UNCHANGED resync
  /\ UNCHANGED <<docVars, minted, serverVars, status, target, pumpVars, put,
                 streamVars, faults>>

\* One op of the page, or the end of the page.
PageStep(a) ==
  /\ sync[a].pc = "page" /\ CatchingUp(a)
  /\ \/ /\ sync[a].next <= sync[a].last /\ sync[a].next <= rev[a]
        /\ SyncTo(a, [sync[a] EXCEPT !.next = @ + 1])
        /\ UNCHANGED docVars
     \/ /\ sync[a].next <= sync[a].last
        /\ IngestOrdered(a, sync[a].next)
        /\ SyncTo(a, [sync[a] EXCEPT !.next = @ + 1, !.progressed = TRUE])
     \/ /\ sync[a].next > sync[a].last
        /\ SyncTo(a, At(IF sync[a].progressed \/ rev[a] >= target[a]
                        THEN "loop" ELSE "delay"))
        /\ UNCHANGED docVars
  /\ UNCHANGED <<minted, serverVars, status, target, resync, pumpVars, put,
                 streamVars, faults>>

\* The session ended while the page was worked off.
PageCut(a) ==
  /\ sync[a].pc = "page" /\ ~CatchingUp(a)
  /\ SyncTo(a, At("exit"))
  /\ UNCHANGED <<docVars, minted, serverVars, status, target, resync, pumpVars,
                 put, streamVars, faults>>

\* An op of the page fails validation: its revision is still a head to reach
\* when the envelope was sound.
PageRejected(a) ==
  /\ sync[a].pc = "page" /\ CatchingUp(a)
  /\ sync[a].next <= sync[a].last
  /\ Fault("garbage")
  /\ resync' = [resync EXCEPT ![a] = TRUE]
  /\ UNCHANGED target \/ RaiseTarget(a, sync[a].next)
  /\ SyncTo(a, At("loop"))
  /\ UNCHANGED <<docVars, minted, serverVars, status, pumpVars, put, streamVars>>

SyncDelayEnds(a) ==
  /\ sync[a].pc = "delay" /\ ~Busy(a)
  /\ SyncTo(a, At("loop"))
  /\ UNCHANGED <<docVars, minted, serverVars, status, target, resync, pumpVars,
                 put, streamVars, faults>>

\* A fetch rejects, or its snapshot does not load: the session fails.
FetchFails(a) ==
  /\ sync[a].pc \in {"snapshot", "ops"} /\ ~Busy(a)
  /\ Fault("fetch")
  /\ status' = [status EXCEPT ![a] = IF Alive(a) THEN "error" ELSE @]
  /\ SyncTo(a, At("exit"))
  /\ UNCHANGED <<docVars, minted, serverVars, target, resync, pumpVars, put, streamVars>>

\* Defects: a request that raced the exit is lost; the pump is not woken.
SyncFinallyRests(a) ==
  /\ sync[a].pc = "exit" /\ ~Busy(a)
  /\ SyncTo(a, NoSync)
  /\ status' = [status EXCEPT ![a] = IF CatchingUp(a) THEN "live" ELSE @]
  /\ WakePump(a)
  /\ UNCHANGED <<docVars, minted, serverVars, target, resync, post, put,
                 streamVars, faults>>

SyncFinallyQuiet(a) ==
  /\ sync[a].pc = "exit" /\ ~Busy(a)
  /\ LET again == CatchingUp(a) /\ (resync[a] \/ rev[a] < target[a])
     IN  /\ SyncTo(a, At(IF again THEN "loop" ELSE "idle"))
         /\ status' = [status EXCEPT ![a] = IF CatchingUp(a) /\ ~again THEN "live" ELSE @]
  /\ UNCHANGED <<docVars, minted, serverVars, target, resync, pumpVars, put,
                 streamVars, faults>>

\* The loop's finalizer: back to live, unless a request raced the exit.
SyncFinally(a) ==
  /\ sync[a].pc = "exit" /\ ~Busy(a)
  /\ LET again == CatchingUp(a) /\ (resync[a] \/ rev[a] < target[a])
     IN  /\ SyncTo(a, At(IF again THEN "loop" ELSE "idle"))
         /\ status' = [status EXCEPT ![a] = IF CatchingUp(a) /\ ~again THEN "live" ELSE @]
         /\ pump' = [pump EXCEPT ![a] = IF again THEN @ ELSE Woken(@)]
  /\ UNCHANGED <<docVars, minted, serverVars, target, resync, post, put,
                 streamVars, faults>>

-----------------------------------------------------------------------------
(* Checkpoint publication and the end of a session *)

\* publishSnapshot: the confirmed pair, one publication at a time.  When the
\* policy publishes is left open.
Publish(a) ==
  /\ "publish" \in Environment
  /\ status[a] = "live" /\ up[a] /\ put[a] = None /\ ~Busy(a)
  /\ rev[a] > 0
  /\ put' = [put EXCEPT ![a] = ConfirmedPair(a)]
  /\ UNCHANGED <<docVars, minted, serverVars, syncVars, pumpVars, streamVars, faults>>

\* The publication ends: stored, or refused because a newer checkpoint won.
\* A pump that waited for it goes on, after a delay unless it was stored.
PutEnds(a) ==
  /\ put[a] # None /\ ~Busy(a)
  /\ LET stored == put[a].rev > checkpoint.rev
     IN  /\ checkpoint' = IF stored THEN put[a] ELSE checkpoint
         /\ pump' = [pump EXCEPT ![a] = IF @ # "checkpoint" THEN @
                       ELSE IF stored THEN "loop" ELSE "delay"]
  /\ put' = [put EXCEPT ![a] = None]
  /\ UNCHANGED <<docVars, minted, log, floor, late, syncVars, post, streamVars, faults>>

\* The publication fails on the way.
PutFails(a) ==
  /\ put[a] # None /\ ~Busy(a)
  /\ Fault("put")
  /\ put' = [put EXCEPT ![a] = None]
  /\ pump' = [pump EXCEPT ![a] = IF @ = "checkpoint" THEN "delay" ELSE @]
  /\ UNCHANGED <<docVars, minted, serverVars, syncVars, post, streamVars>>

\* close(): the subscription ends; a last checkpoint may be sent.
Close(a) ==
  /\ "close" \in Environment
  /\ status[a] # "closed"
  /\ status' = [status EXCEPT ![a] = "closed"]
  /\ \/ UNCHANGED put
     \/ /\ up[a] /\ Alive(a) /\ put[a] = None
        /\ put' = [put EXCEPT ![a] = ConfirmedPair(a)]
  /\ up' = [up EXCEPT ![a] = FALSE]
  /\ UNCHANGED <<docVars, minted, serverVars, target, resync, sync, pumpVars, sent, faults>>

-----------------------------------------------------------------------------
(* The event stream.  A terminal session ignores it. *)

Listening(a) == Alive(a) /\ ~Busy(a)

\* connected: the descriptor's revision is the baseline of the stream.
Connect(a) ==
  /\ Listening(a) /\ ~up[a]
  /\ up'   = [up EXCEPT ![a] = TRUE]
  /\ sent' = [sent EXCEPT ![a] = Len(log)]
  /\ IF Len(log) > rev[a] THEN RequestCatchUp(a, Len(log)) ELSE UNCHANGED syncVars
  /\ UNCHANGED <<docVars, minted, serverVars, pumpVars, put, faults>>

\* connected, with a descriptor of another session or protocol.
ConnectRefused(a) ==
  /\ Listening(a) /\ ~up[a]
  /\ Fault("denied")
  /\ status' = [status EXCEPT ![a] = "error"]
  /\ UNCHANGED <<docVars, minted, serverVars, target, resync, sync, pumpVars, put,
                 streamVars>>

\* disconnected: what the stream had not delivered is lost.
Disconnect(a) ==
  /\ Listening(a) /\ up[a]
  /\ Fault("disconnect")
  /\ up' = [up EXCEPT ![a] = FALSE]
  /\ UNCHANGED <<docVars, minted, serverVars, syncVars, pumpVars, put, sent>>

NextFrame(a) ==
  /\ Listening(a) /\ up[a] /\ sent[a] < Len(log)
  /\ sent' = [sent EXCEPT ![a] = @ + 1]

DeliverOp(a) ==
  /\ NextFrame(a)
  /\ HandleServerOp(a, sent[a] + 1)
  /\ IF rev' # rev THEN WakePump(a) ELSE UNCHANGED pump
  /\ UNCHANGED <<minted, serverVars, post, put, up, faults>>

\* The authority leaves the requester out of the broadcast of its own op.
SkipOwnOp(a) ==
  /\ NextFrame(a)
  /\ log[sent[a] + 1].actor = a
  /\ UNCHANGED <<docVars, minted, serverVars, syncVars, pumpVars, put, up, faults>>

\* A frame that fails validation, or that the ordered ingress refuses: an own
\* op that is not what was submitted, or one the document does not take.  With a
\* sound envelope and the next revision it announces a head all the same.
RejectFrame(a) ==
  /\ NextFrame(a)
  /\ Fault("garbage")
  /\ resync' = [resync EXCEPT ![a] = TRUE]
  /\ StartSync(a)
  /\ \/ UNCHANGED target
     \/ sent[a] = rev[a] /\ RaiseTarget(a, sent[a] + 1)
  /\ UNCHANGED <<docVars, minted, serverVars, pumpVars, put, up>>

-----------------------------------------------------------------------------
(* The authority *)

Duplicates(r) == {i \in DOMAIN log : log[i].actor = r.actor /\ SameOp(log[i], r)}

\* postOp: a known opId is answered again, a base other than the head is
\* stale, and what is left is accepted at the next revision.
Verdict(r) ==
  CASE Duplicates(r) # {} ->
         [kind |-> "accepted", rev |-> CHOOSE i \in Duplicates(r) : TRUE]
    [] Duplicates(r) = {} /\ r.base # Len(log) ->
         [kind |-> "stale-base", rev |-> Len(log)]
    [] Duplicates(r) = {} /\ r.base = Len(log) /\ Len(log) - checkpoint.rev >= Window ->
         [kind |-> "snapshot-required", rev |-> Len(log)]
    [] OTHER -> [kind |-> "accepted", rev |-> Len(log) + 1]

Logged(r) == Append(log,
  [actor |-> r.actor, n |-> r.n, gen |-> r.gen, base |-> r.base, key |-> r.key,
   val |-> r.val, doc |-> Write(DocAt(Len(log)), r)])

PostOp(r) ==
  log' = IF Verdict(r) = [kind |-> "accepted", rev |-> Len(log) + 1]
         THEN Logged(r) ELSE log

ServePost(a) ==
  /\ pump[a] = "posting" /\ post[a].reply = None
  /\ PostOp(post[a].req)
  /\ post' = [post EXCEPT ![a].reply = Verdict(post[a].req)]
  /\ UNCHANGED <<docVars, minted, checkpoint, floor, late, syncVars, pump, put,
                 streamVars, faults>>

\* A post whose sender gave up on it arrives after all.
ServeLate ==
  /\ \E r \in late : PostOp(r) /\ late' = late \ {r}
  /\ UNCHANGED <<docVars, minted, checkpoint, floor, syncVars, pumpVars, put,
                 streamVars, faults>>

ServeSnapshot(a) ==
  /\ sync[a].pc = "snapshot" /\ sync[a].reply = None
  /\ SyncTo(a, [sync[a] EXCEPT !.reply =
       [kind |-> "snapshot", rev |-> checkpoint.rev, doc |-> checkpoint.doc]])
  /\ UNCHANGED <<docVars, minted, serverVars, status, target, resync, pumpVars,
                 put, streamVars, faults>>

\* fetchOps(after) with after = next - 1.  A page may end before the head.
ServeOps(a) ==
  /\ sync[a].pc = "ops" /\ sync[a].reply = None
  /\ IF sync[a].next <= floor
     THEN /\ SyncTo(a, [sync[a] EXCEPT !.reply = [kind |-> "resync-required"]])
          /\ UNCHANGED faults
     ELSE \E last \in sync[a].next - 1 .. Len(log) :
            /\ SyncTo(a, [sync[a] EXCEPT !.reply = [kind |-> "ops"], !.last = last])
            /\ IF last = Len(log) THEN UNCHANGED faults ELSE Fault("short")
  /\ UNCHANGED <<docVars, minted, serverVars, status, target, resync, pumpVars,
                 put, streamVars>>

\* A participant that is not modelled commits an op.
ForeignOp(k, v) ==
  /\ Cardinality({i \in DOMAIN log : log[i].actor = None}) < MaxForeign
  /\ DocAt(Len(log))[k] # v
  /\ log' = Logged([actor |-> None, n |-> Len(log) + 1, gen |-> 1,
                    base |-> Len(log), key |-> k, val |-> v])
  /\ UNCHANGED <<docVars, minted, checkpoint, floor, late, syncVars, pumpVars,
                 put, streamVars, faults>>

\* A participant that is not modelled publishes a checkpoint.
ForeignCheckpoint ==
  /\ "checkpoint" \in Environment
  /\ checkpoint.rev < Len(log)
  /\ checkpoint' = [rev |-> Len(log), doc |-> DocAt(Len(log))]
  /\ UNCHANGED <<docVars, minted, log, floor, late, syncVars, pumpVars, put,
                 streamVars, faults>>

\* The server forgets the ops its checkpoint covers.
Compact ==
  /\ "compact" \in Environment
  /\ floor < checkpoint.rev
  /\ floor' = checkpoint.rev
  /\ UNCHANGED <<docVars, minted, log, checkpoint, late, syncVars, pumpVars, put,
                 streamVars, faults>>

-----------------------------------------------------------------------------
(* The specification *)

Init ==
  /\ log = <<>> /\ late = {} /\ floor = 0
  /\ checkpoint = [rev |-> 0, doc |-> InitialDoc]
  /\ confirmed = [a \in Actors |-> InitialDoc] /\ rev = [a \in Actors |-> 0]
  /\ store = [a \in Actors |-> InitialDoc]
  /\ pending = [a \in Actors |-> {}] /\ minted = [a \in Actors |-> 0]
  /\ undo = [a \in Actors |-> {}] /\ redo = [a \in Actors |-> {}]
  /\ surfaced = [a \in Actors |-> {}] /\ retired = [a \in Actors |-> {}]
  /\ status = [a \in Actors |-> "live"] /\ target = [a \in Actors |-> 0]
  /\ resync = [a \in Actors |-> FALSE] /\ sync = [a \in Actors |-> NoSync]
  /\ pump = [a \in Actors |-> "idle"] /\ post = [a \in Actors |-> None]
  /\ put = [a \in Actors |-> None]
  /\ up = [a \in Actors |-> FALSE] /\ sent = [a \in Actors |-> 0]
  /\ faults = 0

\* What the user does.
UserStep(a) ==
  \/ \E cmd \in Commands : Dispatch(a, cmd)
  \/ Undo(a) \/ Redo(a) \/ DropStaleRecord(a) \/ Close(a)

\* What the session does on its own, once it can.
PumpStep(a) ==
  \/ PumpLoop(a) \/ PumpFinally(a) \/ RetryDelayEnds(a)
  \/ ReplyTooLate(a) \/ ReplyAccepted(a) \/ ReplyStaleBase(a) \/ ReplySnapshotRequired(a)

SyncStep(a) ==
  \/ SyncLoop(a) \/ FetchTooLate(a) \/ AdoptSnapshot(a) \/ OpsArrive(a)
  \/ PageStep(a) \/ PageCut(a) \/ SyncDelayEnds(a) \/ SyncFinally(a)

StreamStep(a) == Connect(a) \/ DeliverOp(a)

\* What can go wrong.
FaultStep(a) ==
  \/ ReplyMangled(a) \/ PostDenied(a) \/ ConnectRefused(a) \/ PostFails(a)
  \/ FetchFails(a) \/ PageRejected(a) \/ RejectFrame(a) \/ Disconnect(a) \/ PutFails(a)

ServeStep(a) == ServePost(a) \/ ServeSnapshot(a) \/ ServeOps(a)

SessionStep(a) ==
  \/ UserStep(a) \/ PumpStep(a) \/ SyncStep(a) \/ StreamStep(a) \/ SkipOwnOp(a)
  \/ Publish(a) \/ PutEnds(a) \/ FaultStep(a) \/ ServeStep(a)

OutsideStep ==
  \/ ServeLate \/ ForeignCheckpoint \/ Compact
  \/ \E k \in Keys, v \in Val : ForeignOp(k, v)

Next == OutsideStep \/ \E a \in Actors : SessionStep(a)

Spec == Init /\ [][Next]_vars

\* Every continuation a promise, a timer or a socket owes is eventually run,
\* and the authority answers what it is asked.  Users, faults and other
\* participants owe nothing.
Fairness ==
  \A a \in Actors :
    /\ WF_vars(PumpStep(a)) /\ WF_vars(SyncStep(a)) /\ WF_vars(StreamStep(a))
    /\ WF_vars(ServeStep(a)) /\ WF_vars(PutEnds(a))

FairSpec == Spec /\ Fairness
=============================================================================
