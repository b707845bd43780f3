----------------------- MODULE SharedSessionRefinement -----------------------
(***************************************************************************)
(* The sessions and their authority implement CollabLog.                    *)
(***************************************************************************)
EXTENDS SharedSessionProperties

\* What CollabLog's observer sees: of an op who made it, which intention it is
\* and the document after it; of the queue the numbers of its intentions.
Observed(op) == [actor |-> op.actor, n |-> op.n, doc |-> op.doc]

Observation(ops) == [i \in DOMAIN ops |-> Observed(ops[i])]

History == Observation(log)

Numbers(E) == {e.n : e \in E}

Open == [a \in Actors |-> Numbers(pending[a])]

Promise == INSTANCE CollabLog WITH
  Docs     <- Doc,
  Outsider <- None,
  history  <- History,
  issued   <- minted,
  open     <- Open,
  told     <- retired,
  seen     <- rev,
  copy     <- confirmed

\* Whatever is posted twice, lost, late, rebased or resynchronised, an
\* observer of the log and of the confirmed documents sees CollabLog: ack,
\* confirmPending and the adoption of a checkpoint are steps to a prefix of
\* the one history, and postOp commits an intention once and in order.
ImplementsCollabLog == Promise!Spec
=============================================================================
