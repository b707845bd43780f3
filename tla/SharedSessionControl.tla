------------------------- MODULE SharedSessionControl -------------------------
(***************************************************************************)
(* Proof that a session rests only when there is nothing left to do, repays *)
(* every step back and ends for good, for every value of the constants.     *)
(***************************************************************************)
EXTENDS SharedSessionDocuments

-----------------------------------------------------------------------------
(* Rest, and what a step does to the control state *)

\* A live session is behind nothing it was told of, and what it has pending
\* keeps its pump awake.
RestsDone(a) ==
  /\ status[a] = "live" => ~Syncing(a) /\ rev[a] >= target[a] /\ ~resync[a]
  /\ CanSubmit(a) => pump[a] # "idle"

RestInv == DocsInv /\ \A a \in Actors : RestsDone(a)

\* What a step does to the status and the target of a.
Repays(a) ==
  /\ target'[a] >= target[a]
  /\ rev'[a] < rev[a] => target'[a] >= rev[a]

StaysEnded(a) ==
  ~Alive(a) =>
    /\ status'[a] \in {status[a], "closed"}
    /\ <<confirmed[a], rev[a], store[a], pending[a]>>'
         = <<confirmed[a], rev[a], store[a], pending[a]>>

Moves(a) == RestsDone(a)' /\ Repays(a) /\ StaysEnded(a)

\* The control state of b stays as it is.
ControlKept(b) ==
  /\ status'[b] = status[b] /\ target'[b] = target[b] /\ resync'[b] = resync[b]
  /\ sync'[b] = sync[b] /\ pump'[b] = pump[b]

\* What the lemmas below conclude of a step of a.
StepOf(a) == Moves(a) /\ \A b \in Actors : b # a => ControlKept(b)

\* The types the lemmas need.
ControlTypes ==
  /\ status \in [Actors -> {"live", "catching-up", "closed", "error"}]
  /\ target \in [Actors -> Nat] /\ resync \in [Actors -> BOOLEAN]
  /\ sync \in [Actors -> SyncState]
  /\ pump \in [Actors -> {"idle", "start", "loop", "posting", "delay", "checkpoint", "exit"}]
  /\ rev \in [Actors -> Nat]

LEMMA TypesOfControl == TypeOK => ControlTypes
BY DEF TypeOK, SyncTypeOK, PumpTypeOK, DocTypeOK, ControlTypes

\* A session whose documents and control state are left alone.
LEMMA KeptMoves ==
  ASSUME ControlTypes, NEW b \in Actors, RestsDone(b), Kept(b), ControlKept(b)
  PROVE  Moves(b)
BY DEF ControlTypes, RestsDone, Kept, ControlKept, Moves, Repays, StaysEnded, Alive,
       CanSubmit, Syncing

\* A step that leaves the documents of a alone, and nothing behind.
LEMMA QuietMoves ==
  ASSUME ControlTypes, NEW a \in Actors, Kept(a),
         target'[a] = target[a], status'[a] = status[a] \/ status'[a] = "closed" \/ Alive(a),
         RestsDone(a)'
  PROVE  Moves(a)
BY DEF ControlTypes, Kept, Moves, Repays, StaysEnded

-----------------------------------------------------------------------------
(* The parts of the steps *)

\* A new intention wakes the pump.
LEMMA RunMoves ==
  ASSUME ControlTypes, NEW a \in Actors, RestsDone(a), NEW cmd, NEW origin, NEW rec, NEW found,
         Run(a, cmd, origin, rec, found), UNCHANGED <<rev, syncVars>>
  PROVE  StepOf(a)
<1>1. Alive(a) /\ pump' = [pump EXCEPT ![a] = Woken(pump[a])]
  BY DEF Run, WakePump
<1>2. pump'[a] # "idle" /\ \A b \in Actors : b # a => pump'[b] = pump[b]
  BY <1>1 DEF ControlTypes, Woken
<1>3. UNCHANGED <<status, target, resync, sync>>
  BY DEF syncVars
<1>4. RestsDone(a)'
  BY <1>2, <1>3 DEF RestsDone, Syncing
<1> QED
  BY <1>1, <1>2, <1>3, <1>4 DEF StepOf, Moves, Repays, StaysEnded, ControlKept, ControlTypes

\* An op that is ingested is the next one, and adds nothing to the queue.
LEMMA IngestMoves ==
  ASSUME TypeOK, NEW a \in Actors, NEW r, IngestOrdered(a, r)
  PROVE  /\ rev'[a] = rev[a] + 1
         /\ pending[a] = {} => pending'[a] = {}
<1>1. rev' = [rev EXCEPT ![a] = r] /\ r = rev[a] + 1
  BY DEF IngestOrdered, Ack, ConfirmPending, ApplyForeign, Rebase, Rebuilt
<1>2. rev \in [Actors -> Nat] /\ pending \in [Actors -> SUBSET Entry]
  BY DEF TypeOK, DocTypeOK
<1>3. ASSUME NEW conf, NEW skipped, pending[a] = {},
             Rebase(a, conf, r, skipped, {}, undo[a], redo[a])
      PROVE  pending'[a] = {}
  <2>1. PICK K \in SUBSET (pending[a] \ skipped) :
          \E w \in [K -> Val] :
            Rebuilt(a, conf, r, pending[a] \ skipped, K, w, {}, undo[a], redo[a])
    BY <1>3, Zenon DEF Rebase
  <2>2. PICK w \in [K -> Val] :
          Rebuilt(a, conf, r, pending[a] \ skipped, K, w, {}, undo[a], redo[a])
    BY <2>1
  <2>3. pending' = [pending EXCEPT ![a] = {Remint(e, w[e], r) : e \in K}] /\ K = {}
    BY <1>3, <2>2 DEF Rebuilt
  <2> QED BY <1>2, <2>3
<1>4. pending[a] = {} => pending'[a] = {}
  BY <1>2, <1>3 DEF IngestOrdered, Ack, ConfirmPending, ApplyForeign
<1> QED BY <1>1, <1>2, <1>4

\* With the session alive, an op that is ingested brings it nearer to its
\* target; the pump may be woken.
LEMMA IngestRests ==
  ASSUME TypeOK, NEW a \in Actors, RestsDone(a), Alive(a), NEW r, IngestOrdered(a, r),
         UNCHANGED <<status, target, resync>>,
         status[a] = "live" => Syncing(a)' = Syncing(a),
         status[a] = "live" /\ pump[a] # "idle" => pump'[a] # "idle"
  PROVE  Moves(a)
<1>1. ControlTypes
  BY TypesOfControl
<1>2. rev'[a] = rev[a] + 1 /\ (pending[a] = {} => pending'[a] = {})
  BY IngestMoves
<1>3. Repays(a) /\ StaysEnded(a)
  BY <1>1, <1>2 DEF ControlTypes, Repays, StaysEnded
<1>4. RestsDone(a)'
  BY <1>1, <1>2 DEF ControlTypes, RestsDone, CanSubmit
<1> QED BY <1>3, <1>4 DEF Moves

\* A request of a session that is alive raises the target and leaves 'live'.
LEMMA RequestMoves ==
  ASSUME TypeOK, NEW a \in Actors, RestsDone(a), Alive(a), NEW r \in Nat, Kept(a),
         target' = target \/ RaiseTarget(a, r), StartSync(a)
  PROVE  /\ Moves(a)
         /\ \A b \in Actors : b # a =>
              target'[b] = target[b] /\ status'[b] = status[b] /\ sync'[b] = sync[b]
<1>1. ControlTypes
  BY TypesOfControl
<1>2. At("loop").pc = "loop"
  BY DEF At, NoSync
<1>3. status'[a] = "catching-up"
  BY <1>1 DEF StartSync, RestsDone, Alive, ControlTypes
<1>4. target'[a] >= target[a] /\ \A b \in Actors : b # a => target'[b] = target[b]
  BY <1>1 DEF RaiseTarget, ControlTypes
<1>5. Moves(a)
  BY <1>1, <1>3, <1>4 DEF Moves, RestsDone, CanSubmit, Repays, StaysEnded, Kept, ControlTypes
<1> QED BY <1>1, <1>4, <1>5 DEF StartSync, ControlTypes

\* An op the stream or a reply carries, whatever becomes of the pump.
LEMMA HandleMoves ==
  ASSUME TypeOK, NEW a \in Actors, RestsDone(a), Alive(a), NEW r \in Nat,
         HandleServerOp(a, r), UNCHANGED minted,
         pump[a] # "idle" => pump'[a] # "idle"
  PROVE  /\ Moves(a)
         /\ \A b \in Actors : b # a =>
              /\ target'[b] = target[b] /\ status'[b] = status[b]
              /\ resync'[b] = resync[b] /\ sync'[b] = sync[b]
<1>1. ControlTypes
  BY TypesOfControl
<1>2. CASE UNCHANGED <<docVars, syncVars>>
  <2>1. Kept(a) /\ UNCHANGED <<status, target, resync, sync>>
    BY <1>2 DEF docVars, syncVars, Kept
  <2>2. RestsDone(a)'
    BY <2>1 DEF RestsDone, CanSubmit, Syncing, Kept
  <2> QED BY <1>1, <2>1, <2>2, QuietMoves DEF ControlTypes
<1>3. CASE RequestCatchUp(a, r) /\ UNCHANGED docVars
  <2>1. Kept(a)
    BY <1>3 DEF docVars, Kept
  <2>2. RaiseTarget(a, r) /\ StartSync(a) /\ UNCHANGED resync
    BY <1>3 DEF RequestCatchUp
  <2> QED BY <2>1, <2>2, RequestMoves
<1>4. CASE IngestOrdered(a, r) /\ UNCHANGED syncVars
  <2>1. UNCHANGED <<status, target, resync, sync>>
    BY <1>4 DEF syncVars
  <2>2. Syncing(a)' = Syncing(a)
    BY <2>1 DEF Syncing
  <2> QED BY <1>4, <2>1, <2>2, IngestRests
<1> QED BY <1>2, <1>3, <1>4 DEF HandleServerOp

-----------------------------------------------------------------------------
(* The steps *)

LEMMA UserMoves ==
  ASSUME TypeOK, NEW a \in Actors, RestsDone(a), UserStep(a)
  PROVE  StepOf(a)
<1>1. ControlTypes
  BY TypesOfControl
<1>2. ASSUME NEW cmd, Dispatch(a, cmd) PROVE StepOf(a)
  BY <1>1, <1>2, RunMoves DEF Dispatch
<1>3. CASE Undo(a) \/ Redo(a)
  BY <1>1, <1>3, RunMoves DEF Undo, Redo
<1>4. CASE DropStaleRecord(a)
  <2>1. Kept(a) /\ UNCHANGED <<status, target, resync, sync, pump>>
    BY <1>4 DEF DropStaleRecord, Kept, syncVars, pumpVars
  <2> QED BY <1>1, <2>1, KeptMoves DEF StepOf, ControlKept
<1>5. CASE Close(a)
  <2>1. Kept(a) /\ UNCHANGED <<target, resync, sync, pump>>
    BY <1>5 DEF Close, Kept, docVars, pumpVars
  <2>2. status' = [status EXCEPT ![a] = "closed"]
    BY <1>5 DEF Close
  <2>3. RestsDone(a)'
    BY <1>1, <2>2 DEF RestsDone, CanSubmit, ControlTypes
  <2> QED BY <1>1, <2>1, <2>2, <2>3, QuietMoves DEF StepOf, ControlKept, ControlTypes
<1> QED BY <1>2, <1>3, <1>4, <1>5 DEF UserStep

\* The pump rests only where there is nothing to submit.
LEMMA PumpMoves ==
  ASSUME TypeOK, NEW a \in Actors, RestsDone(a), PumpStep(a)
  PROVE  StepOf(a)
<1>1. ControlTypes
  BY TypesOfControl
<1>2. CASE PumpLoop(a)
  <2>1. pump'[a] # "idle" /\ \A b \in Actors : b # a => pump'[b] = pump[b]
    BY <1>1, <1>2 DEF PumpLoop, ControlTypes
  <2>2. UNCHANGED <<status, target, resync, sync, rev, confirmed, store>>
    BY <1>2 DEF PumpLoop, syncVars
  <2>3. ~Alive(a) => pending'[a] = pending[a]
    BY <1>2 DEF PumpLoop, CanSubmit, Alive
  <2>4. RestsDone(a)'
    BY <2>1, <2>2 DEF RestsDone, CanSubmit, Syncing
  <2> QED BY <1>1, <2>1, <2>2, <2>3, <2>4
          DEF StepOf, Moves, Repays, StaysEnded, ControlKept, ControlTypes
<1>3. CASE PumpFinally(a)
  <2>1. Kept(a) /\ UNCHANGED <<status, target, resync, sync, pending>>
    BY <1>3 DEF PumpFinally, Kept, docVars, syncVars
  <2>2. /\ CanSubmit(a) => pump'[a] # "idle"
        /\ \A b \in Actors : b # a => pump'[b] = pump[b]
    BY <1>1, <1>3 DEF PumpFinally, ControlTypes
  <2>3. RestsDone(a)'
    BY <2>1, <2>2 DEF RestsDone, CanSubmit, Syncing, Kept
  <2> QED BY <1>1, <2>1, <2>2, <2>3, QuietMoves DEF StepOf, ControlKept
<1>4. CASE RetryDelayEnds(a) \/ ReplyTooLate(a) \/ ReplySnapshotRequired(a)
  <2>1. Kept(a) /\ UNCHANGED <<status, target, resync, sync>>
    BY <1>4 DEF RetryDelayEnds, ReplyTooLate, ReplySnapshotRequired, Kept, docVars, syncVars
  <2>2. pump'[a] # "idle" /\ \A b \in Actors : b # a => pump'[b] = pump[b]
    BY <1>1, <1>4 DEF RetryDelayEnds, ReplyTooLate, ReplySnapshotRequired, PumpTo, ControlTypes
  <2>3. RestsDone(a)'
    BY <2>1, <2>2 DEF RestsDone, CanSubmit, Syncing, Kept
  <2> QED BY <1>1, <2>1, <2>2, <2>3, QuietMoves DEF StepOf, ControlKept
<1>5. CASE ReplyAccepted(a)
  <2>1. Alive(a) /\ HandleServerOp(a, post[a].reply.rev) /\ UNCHANGED minted
    BY <1>5 DEF ReplyAccepted, Alive
  <2>2. post[a].reply.rev \in Nat
    BY <1>5 DEF ReplyAccepted, Answered, TypeOK, PumpTypeOK, Exchange, Reply
  <2>3. pump'[a] # "idle" /\ \A b \in Actors : b # a => pump'[b] = pump[b]
    BY <1>1, <1>5 DEF ReplyAccepted, PumpTo, ControlTypes
  <2> QED BY <2>1, <2>2, <2>3, HandleMoves DEF StepOf, ControlKept
<1>6. CASE ReplyStaleBase(a)
  <2>1. Kept(a) /\ Alive(a)
    BY <1>6 DEF ReplyStaleBase, Kept, docVars, Alive
  <2>2. pump'[a] # "idle" /\ \A b \in Actors : b # a => pump'[b] = pump[b]
    BY <1>1, <1>6 DEF ReplyStaleBase, PumpTo, ControlTypes
  <2>3. CASE UNCHANGED syncVars
    <3>1. UNCHANGED <<status, target, resync, sync>>
      BY <2>3 DEF syncVars
    <3>2. RestsDone(a)'
      BY <2>1, <2>2, <3>1 DEF RestsDone, CanSubmit, Syncing, Kept
    <3> QED BY <1>1, <2>1, <2>2, <3>1, <3>2, QuietMoves DEF StepOf, ControlKept
  <2>4. CASE RequestCatchUp(a, post[a].reply.rev)
    <3>1. post[a].reply.rev \in Nat
      BY <1>6 DEF ReplyStaleBase, Answered, TypeOK, PumpTypeOK, Exchange, Reply
    <3>2. RaiseTarget(a, post[a].reply.rev) /\ StartSync(a) /\ UNCHANGED resync
      BY <2>4 DEF RequestCatchUp
    <3> QED BY <2>1, <2>2, <3>1, <3>2, RequestMoves DEF StepOf, ControlKept
  <2> QED BY <1>6, <2>3, <2>4 DEF ReplyStaleBase
<1> QED BY <1>2, <1>3, <1>4, <1>5, <1>6 DEF PumpStep

\* While the sync loop is at work the session is not live: nothing is promised
\* of its rest, whatever the loop does.
LEMMA LoopMoves ==
  ASSUME ControlTypes, NEW a \in Actors, RestsDone(a), Syncing(a), Kept(a),
         NEW s, SyncTo(a, s), UNCHANGED <<status, target, pump>>,
         \A b \in Actors : b # a => resync'[b] = resync[b]
  PROVE  StepOf(a)
<1>1. status[a] # "live"
  BY DEF RestsDone
<1>2. RestsDone(a)'
  BY <1>1 DEF RestsDone, CanSubmit
<1>3. \A b \in Actors : b # a => sync'[b] = sync[b]
  BY DEF SyncTo, ControlTypes
<1> QED BY <1>2, <1>3, QuietMoves DEF StepOf, ControlKept

\* Stepping back to a snapshot raises the target to what was confirmed.
LEMMA AdoptMoves ==
  ASSUME TypeOK, NEW a \in Actors, RestsDone(a), AdoptSnapshot(a)
  PROVE  StepOf(a)
<1>1. ControlTypes
  BY TypesOfControl
<1> DEFINE S == {target[a], rev[a], sync[a].reply.rev}
<1>2. target' = [target EXCEPT ![a] = Max(S)]
  BY DEF AdoptSnapshot
<1>3. sync[a].reply.rev \in Nat /\ target[a] \in Nat /\ rev[a] \in Nat
  BY <1>1 DEF AdoptSnapshot, Fetched, TypeOK, SyncTypeOK, SnapshotReply, ControlTypes
<1>4. \E x \in S : \A y \in S : x >= y
  BY <1>3
<1>5. Max(S) >= target[a] /\ Max(S) >= rev[a]
  BY <1>4 DEF Max
<1> HIDE DEF S
<1>6. target'[a] >= target[a] /\ target'[a] >= rev[a] /\ \A b \in Actors : b # a => target'[b] = target[b]
  BY <1>1, <1>2, <1>5 DEF ControlTypes
<1>7. Alive(a) /\ status[a] # "live" /\ UNCHANGED <<status, resync, pump>>
  BY DEF AdoptSnapshot, CatchingUp, Alive, pumpVars
<1>8. \A b \in Actors : b # a => sync'[b] = sync[b]
  BY <1>1 DEF AdoptSnapshot, SyncTo, ControlTypes
<1> QED BY <1>6, <1>7, <1>8
        DEF StepOf, Moves, RestsDone, CanSubmit, Repays, StaysEnded, ControlKept

\* The finalizer goes live only at rest, and wakes the pump.
LEMMA FinallyMoves ==
  ASSUME TypeOK, NEW a \in Actors, RestsDone(a), SyncFinally(a)
  PROVE  StepOf(a)
<1>1. ControlTypes
  BY TypesOfControl
<1> DEFINE again == CatchingUp(a) /\ (resync[a] \/ rev[a] < target[a])
<1>2. /\ Kept(a) /\ UNCHANGED <<target, resync, rev>>
      /\ sync' = [sync EXCEPT ![a] = At(IF again THEN "loop" ELSE "idle")]
      /\ status' = [status EXCEPT ![a] = IF CatchingUp(a) /\ ~again THEN "live" ELSE status[a]]
      /\ pump' = [pump EXCEPT ![a] = IF again THEN pump[a] ELSE Woken(pump[a])]
      /\ Syncing(a)
  BY DEF SyncFinally, SyncTo, Kept, docVars, Syncing
<1>3. At("idle").pc = "idle" /\ At("loop").pc = "loop"
  BY DEF At, NoSync
<1>4. status[a] # "live"
  BY <1>2 DEF RestsDone
<1>5. RestsDone(a)'
  <2>1. CASE again \/ ~CatchingUp(a)
    BY <1>1, <1>2, <1>4, <2>1 DEF RestsDone, CanSubmit, ControlTypes
  <2>2. CASE CatchingUp(a) /\ ~again
    <3>1. ~resync[a] /\ rev[a] >= target[a]
      BY <1>1, <2>2 DEF ControlTypes
    <3>2. sync'[a].pc = "idle" /\ pump'[a] = Woken(pump[a])
      BY <1>1, <1>2, <1>3, <2>2 DEF ControlTypes
    <3>3. Woken(pump[a]) # "idle"
      BY DEF Woken
    <3> QED BY <1>2, <3>1, <3>2, <3>3 DEF RestsDone, Syncing
  <2> QED BY <2>1, <2>2
<1>6. status'[a] = status[a] \/ Alive(a)
  BY <1>1, <1>2 DEF ControlTypes, CatchingUp, Alive
<1>7. Moves(a)
  BY <1>1, <1>2, <1>5, <1>6, QuietMoves
<1> HIDE DEF again
<1> QED BY <1>1, <1>2, <1>7 DEF StepOf, ControlKept, ControlTypes

LEMMA SyncMoves ==
  ASSUME TypeOK, NEW a \in Actors, RestsDone(a), SyncStep(a)
  PROVE  StepOf(a)
<1>1. ControlTypes
  BY TypesOfControl
<1>2. CASE SyncLoop(a) \/ FetchTooLate(a) \/ OpsArrive(a) \/ PageCut(a) \/ SyncDelayEnds(a)
  <2>1. Syncing(a) /\ Kept(a) /\ UNCHANGED <<status, target, pump>>
    BY <1>2 DEF SyncLoop, FetchTooLate, OpsArrive, PageCut, SyncDelayEnds, Fetched,
       Syncing, Kept, docVars, pumpVars
  <2>2. \E s : SyncTo(a, s)
    BY <1>2 DEF SyncLoop, FetchTooLate, OpsArrive, PageCut, SyncDelayEnds
  <2>3. \A b \in Actors : b # a => resync'[b] = resync[b]
    BY <1>1, <1>2 DEF SyncLoop, FetchTooLate, OpsArrive, PageCut, SyncDelayEnds, ControlTypes
  <2> QED BY <1>1, <2>1, <2>2, <2>3, LoopMoves
<1>3. CASE PageStep(a)
  <2>1. /\ Syncing(a) /\ Alive(a) /\ status[a] # "live"
        /\ UNCHANGED <<status, target, resync, pump, minted>>
    BY <1>3 DEF PageStep, Syncing, CatchingUp, Alive, pumpVars
  <2>2. PICK s : SyncTo(a, s)
    BY <1>3 DEF PageStep
  <2>3. CASE UNCHANGED docVars
    BY <1>1, <2>1, <2>2, <2>3, LoopMoves DEF docVars, Kept
  <2>4. CASE IngestOrdered(a, sync[a].next)
    <3>1. Moves(a)
      BY <2>1, <2>4, IngestRests
    <3> QED BY <1>1, <2>1, <2>2, <3>1 DEF StepOf, ControlKept, SyncTo, ControlTypes
  <2> QED BY <1>3, <2>3, <2>4 DEF PageStep
<1> QED BY <1>2, <1>3, AdoptMoves, FinallyMoves DEF SyncStep

LEMMA StreamMoves ==
  ASSUME TypeOK, NEW a \in Actors, RestsDone(a), StreamStep(a) \/ SkipOwnOp(a)
  PROVE  StepOf(a)
<1>1. ControlTypes
  BY TypesOfControl
<1>2. CASE Connect(a)
  <2>1. Alive(a) /\ Kept(a) /\ UNCHANGED pump
    BY <1>2 DEF Connect, Listening, Kept, docVars, pumpVars
  <2>2. CASE RequestCatchUp(a, Len(log))
    <3>1. Len(log) \in Nat
      BY LenProperties DEF TypeOK, ServerTypeOK
    <3>2. RaiseTarget(a, Len(log)) /\ StartSync(a) /\ UNCHANGED resync
      BY <2>2 DEF RequestCatchUp
    <3> QED BY <2>1, <3>1, <3>2, RequestMoves DEF StepOf, ControlKept
  <2>3. CASE UNCHANGED syncVars
    BY <1>1, <2>1, <2>3, KeptMoves DEF StepOf, ControlKept, syncVars
  <2> QED BY <1>2, <2>2, <2>3 DEF Connect
<1>3. CASE DeliverOp(a)
  <2>1. Alive(a) /\ HandleServerOp(a, sent[a] + 1) /\ UNCHANGED minted
    BY <1>3 DEF DeliverOp, NextFrame, Listening
  <2>2. sent[a] + 1 \in Nat
    BY DEF TypeOK, LinkTypeOK
  <2>3. /\ pump[a] # "idle" => pump'[a] # "idle"
        /\ \A b \in Actors : b # a => pump'[b] = pump[b]
    BY <1>1, <1>3 DEF DeliverOp, WakePump, Woken, ControlTypes
  <2> QED BY <2>1, <2>2, <2>3, HandleMoves DEF StepOf, ControlKept
<1>4. CASE SkipOwnOp(a)
  <2>1. Kept(a) /\ UNCHANGED <<status, target, resync, sync, pump>>
    BY <1>4 DEF SkipOwnOp, Kept, docVars, syncVars, pumpVars
  <2> QED BY <1>1, <2>1, KeptMoves DEF StepOf, ControlKept
<1> QED BY <1>2, <1>3, <1>4 DEF StreamStep

\* What goes wrong ends the session, wakes nothing, or makes it catch up.
LEMMA FaultMoves ==
  ASSUME TypeOK, NEW a \in Actors, RestsDone(a), FaultStep(a)
  PROVE  StepOf(a)
<1>1. ControlTypes
  BY TypesOfControl
<1>2. Kept(a)
  BY DEF FaultStep, ReplyMangled, PostDenied, ConnectRefused, PostFails, FetchFails,
     PageRejected, RejectFrame, Disconnect, PutFails, docVars, Kept
<1>3. CASE ReplyMangled(a)
  <2>1. Alive(a) /\ RequestResync(a, post[a].reply.rev)
    BY <1>3 DEF ReplyMangled, Alive
  <2>2. post[a].reply.rev \in Nat
    BY <1>3 DEF ReplyMangled, Answered, TypeOK, PumpTypeOK, Exchange, Reply
  <2>3. /\ \A b \in Actors : b # a => pump'[b] = pump[b]
        /\ \A b \in Actors : b # a => resync'[b] = resync[b]
    BY <1>1, <1>3, <2>1 DEF ReplyMangled, PumpTo, RequestResync, ControlTypes
  <2> QED BY <1>2, <2>1, <2>2, <2>3, RequestMoves DEF StepOf, ControlKept, RequestResync
<1>4. CASE PostDenied(a) \/ ConnectRefused(a)
  <2>1. /\ Alive(a) /\ UNCHANGED <<target, resync, sync>>
        /\ status' = [status EXCEPT ![a] = "error"]
    BY <1>4 DEF PostDenied, ConnectRefused, Listening, Alive
  <2>2. \A b \in Actors : b # a => pump'[b] = pump[b]
    BY <1>1, <1>4 DEF PostDenied, ConnectRefused, PumpTo, pumpVars, ControlTypes
  <2>3. RestsDone(a)'
    BY <1>1, <2>1 DEF RestsDone, CanSubmit, ControlTypes
  <2> QED BY <1>1, <1>2, <2>1, <2>2, <2>3, QuietMoves DEF StepOf, ControlKept, ControlTypes
<1>5. CASE PostFails(a) \/ PutFails(a) \/ Disconnect(a)
  <2>1. UNCHANGED <<status, target, resync, sync>>
    BY <1>5 DEF PostFails, PutFails, Disconnect, syncVars
  <2>2. /\ pump[a] # "idle" => pump'[a] # "idle"
        /\ \A b \in Actors : b # a => pump'[b] = pump[b]
    BY <1>1, <1>5 DEF PostFails, PutFails, Disconnect, PumpTo, pumpVars, ControlTypes
  <2>3. RestsDone(a)'
    BY <1>2, <2>1, <2>2 DEF RestsDone, CanSubmit, Syncing, Kept
  <2> QED BY <1>1, <1>2, <2>1, <2>2, <2>3, QuietMoves DEF StepOf, ControlKept
<1>6. CASE FetchFails(a)
  <2>1. /\ Syncing(a) /\ UNCHANGED <<target, resync, pump>>
        /\ status' = [status EXCEPT ![a] = IF Alive(a) THEN "error" ELSE status[a]]
        /\ SyncTo(a, At("exit"))
    BY <1>6 DEF FetchFails, Syncing, pumpVars
  <2>2. status[a] # "live" /\ status'[a] # "live" /\ (status'[a] = status[a] \/ Alive(a))
    BY <1>1, <2>1 DEF RestsDone, ControlTypes
  <2>3. RestsDone(a)'
    BY <2>2 DEF RestsDone, CanSubmit
  <2> QED BY <1>1, <1>2, <2>1, <2>2, <2>3, QuietMoves
          DEF StepOf, ControlKept, ControlTypes, SyncTo
<1>7. CASE PageRejected(a)
  <2>1. /\ Alive(a) /\ status[a] # "live" /\ UNCHANGED <<status, pump>>
        /\ resync' = [resync EXCEPT ![a] = TRUE] /\ SyncTo(a, At("loop"))
        /\ target' = target \/ RaiseTarget(a, sync[a].next)
    BY <1>7 DEF PageRejected, CatchingUp, Alive, pumpVars
  <2>2. sync[a].next \in Nat
    BY <1>1 DEF ControlTypes, SyncState
  <2>3. target'[a] >= target[a] /\ \A b \in Actors : b # a => target'[b] = target[b]
    BY <1>1, <2>1, <2>2 DEF RaiseTarget, ControlTypes
  <2>4. Moves(a)
    BY <1>1, <1>2, <2>1, <2>3
       DEF Moves, RestsDone, CanSubmit, Repays, StaysEnded, Kept, ControlTypes
  <2> QED BY <1>1, <2>1, <2>3, <2>4 DEF StepOf, ControlKept, ControlTypes, SyncTo
<1>8. CASE RejectFrame(a)
  <2>1. /\ Alive(a) /\ UNCHANGED pump /\ StartSync(a)
        /\ resync' = [resync EXCEPT ![a] = TRUE]
        /\ target' = target \/ RaiseTarget(a, sent[a] + 1)
    BY <1>8 DEF RejectFrame, NextFrame, Listening, pumpVars
  <2>2. sent[a] + 1 \in Nat
    BY DEF TypeOK, LinkTypeOK
  <2>3. \A b \in Actors : b # a => resync'[b] = resync[b]
    BY <1>1, <2>1 DEF ControlTypes
  <2> QED BY <1>2, <2>1, <2>2, <2>3, RequestMoves DEF StepOf, ControlKept
<1> QED BY <1>3, <1>4, <1>5, <1>6, <1>7, <1>8 DEF FaultStep

\* Publications, and answers of the authority.
LEMMA OtherMoves ==
  ASSUME TypeOK, NEW a \in Actors, RestsDone(a), Publish(a) \/ PutEnds(a) \/ ServeStep(a)
  PROVE  StepOf(a)
<1>1. ControlTypes
  BY TypesOfControl
<1>2. Kept(a) /\ UNCHANGED <<status, target, resync>>
  BY DEF Publish, PutEnds, ServeStep, ServePost, ServeSnapshot, ServeOps, Kept, docVars, syncVars
<1>3. CASE Publish(a) \/ PutEnds(a) \/ ServePost(a)
  <2>1. UNCHANGED sync
    BY <1>3 DEF Publish, PutEnds, ServePost, syncVars
  <2>2. /\ pump[a] # "idle" => pump'[a] # "idle"
        /\ \A b \in Actors : b # a => pump'[b] = pump[b]
    BY <1>1, <1>3 DEF Publish, PutEnds, ServePost, pumpVars, ControlTypes
  <2>3. RestsDone(a)'
    BY <1>2, <2>1, <2>2 DEF RestsDone, CanSubmit, Syncing, Kept
  <2> QED BY <1>1, <1>2, <2>1, <2>2, <2>3, QuietMoves DEF StepOf, ControlKept
<1>4. CASE ServeSnapshot(a) \/ ServeOps(a)
  <2>1. Syncing(a) /\ UNCHANGED pump /\ \E s : SyncTo(a, s)
    BY <1>4 DEF ServeSnapshot, ServeOps, Syncing, pumpVars
  <2> QED BY <1>1, <1>2, <2>1, LoopMoves
<1> QED BY <1>3, <1>4 DEF ServeStep

-----------------------------------------------------------------------------
(* The theorems *)

LEMMA SessionStepMoves ==
  ASSUME RestInv, NEW a \in Actors, SessionStep(a)
  PROVE  \A b \in Actors : Moves(b)
<1>1. TypeOK /\ ControlTypes /\ \A b \in Actors : RestsDone(b)
  BY TypesOfControl DEF RestInv, DocsInv
<1>2. StepOf(a)
  BY <1>1, UserMoves, PumpMoves, SyncMoves, StreamMoves, FaultMoves, OtherMoves DEF SessionStep
<1>3. \A b \in Actors : b # a => Kept(b)
  BY SessionStepDocs DEF RestInv
<1> QED BY <1>1, <1>2, <1>3, KeptMoves DEF StepOf

\* Every step of the system keeps the promise of rest, and does to every
\* session what Repays and StaysEnded allow.
LEMMA NextMoves ==
  ASSUME RestInv, [Next]_vars
  PROVE  RestInv' /\ \A b \in Actors : Moves(b)
<1>1. ControlTypes /\ \A b \in Actors : RestsDone(b)
  BY TypesOfControl DEF RestInv, DocsInv
<1>2. CASE OutsideStep \/ UNCHANGED vars
  <2>1. UNCHANGED <<docVars, minted, syncVars, pump>>
    BY <1>2 DEF OutsideStep, ServeLate, ForeignCheckpoint, Compact, ForeignOp, vars, pumpVars
  <2>2. \A b \in Actors : Kept(b) /\ ControlKept(b)
    BY <2>1 DEF Kept, ControlKept, docVars, syncVars
  <2> QED BY <1>1, <2>2, KeptMoves, NextDocs DEF RestInv, Moves
<1>3. ASSUME NEW a \in Actors, SessionStep(a) PROVE RestInv' /\ \A b \in Actors : Moves(b)
  BY <1>3, SessionStepMoves, NextDocs DEF RestInv, Moves
<1> QED BY <1>2, <1>3 DEF Next

LEMMA InitRests == Init => RestInv
<1>1. NoSync.pc = "idle"
  BY DEF NoSync
<1> QED BY <1>1, InitDocs DEF Init, RestInv, RestsDone, CanSubmit, Syncing

LEMMA RestHolds == Spec => []RestInv
<1>1. RestInv /\ [Next]_vars => RestInv'
  BY NextMoves
<1> QED BY <1>1, InitRests, PTL DEF Spec

\* A session that is live has reached every head it was told of and owes no
\* resync: no announcement is lost between a pass and its finalizer.
THEOREM RestsAtTarget == Spec => []NeverRestsBehind
<1>1. RestInv => NeverRestsBehind
  BY DEF RestInv, RestsDone, NeverRestsBehind
<1> QED BY <1>1, RestHolds, PTL

\* Pending work of a live session has a pump: no wakeup is lost.
THEOREM WorkIsPumped == Spec => []NoStrandedWork
<1>1. RestInv => NoStrandedWork
  BY DEF RestInv, RestsDone, NoStrandedWork
<1> QED BY <1>1, RestHolds, PTL

\* The target never drops, and stepping back to a checkpoint raises it to what
\* was confirmed.
THEOREM StepsBackAreRepaid == Spec => BacktrackIsRepaid
<1>1. RestInv /\ [Next]_vars =>
        [\A a \in Actors :
           /\ target'[a] >= target[a]
           /\ rev'[a] < rev[a] => target'[a] >= rev[a]]_vars
  BY NextMoves DEF Moves, Repays
<1> QED BY <1>1, RestHolds, PTL DEF Spec, BacktrackIsRepaid

\* Nothing revives a session that has ended, and no answer still in flight
\* changes the documents it holds.
THEOREM EndsForGood == Spec => EndIsFinal
<1>1. RestInv /\ [Next]_vars =>
        [\A a \in Actors : ~Alive(a) =>
           /\ status'[a] \in {status[a], "closed"}
           /\ <<confirmed[a], rev[a], store[a], pending[a]>>'
                = <<confirmed[a], rev[a], store[a], pending[a]>>]_vars
  BY NextMoves DEF Moves, StaysEnded
<1> QED BY <1>1, RestHolds, PTL DEF Spec, EndIsFinal
=============================================================================
