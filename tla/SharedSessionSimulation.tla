------------------------ MODULE SharedSessionSimulation ------------------------
(***************************************************************************)
(* Proof that the sessions and their authority implement CollabLog, for     *)
(* every value of the constants.                                            *)
(***************************************************************************)
EXTENDS SharedSessionOrder, SharedSessionRefinement

-----------------------------------------------------------------------------
(* The history *)

ObservedOp == [actor : Actors \cup {None}, n : Nat \ {0}, doc : Doc]

\* An observation is as long as what it observes.
LEMMA ObservationFacts ==
  ASSUME NEW ops \in Seq(LogOp)
  PROVE  /\ Observation(ops) \in Seq(ObservedOp) /\ Len(Observation(ops)) = Len(ops)
         /\ Len(ops) \in Nat
         /\ \A i \in 1 .. Len(ops) : ops[i] \in LogOp /\ Observation(ops)[i] = Observed(ops[i])
<1>1. Len(ops) \in Nat /\ DOMAIN ops = 1 .. Len(ops)
      /\ \A i \in 1 .. Len(ops) : ops[i] \in LogOp
  BY LenProperties, ElementOfSeq
<1>2. \A op \in LogOp : Observed(op) \in ObservedOp
  BY DEF Observed, ObservedOp, LogOp
<1>3. Observation(ops) \in [1 .. Len(ops) -> ObservedOp]
  BY <1>1, <1>2 DEF Observation
<1>4. Observation(ops) \in Seq(ObservedOp) /\ Len(Observation(ops)) = Len(ops)
  <2>1. Observation(ops) \in Seq(ObservedOp)
    BY <1>1, <1>3, SeqDef
  <2> QED BY <1>1, <1>3, <2>1, LenProperties
<1>5. \A i \in 1 .. Len(ops) : Observation(ops)[i] = Observed(ops[i])
  BY <1>1 DEF Observation
<1> QED BY <1>1, <1>4, <1>5

\* The history is the log without what only the protocol needs.
LEMMA HistoryFacts ==
  ASSUME ServerTypeOK
  PROVE  /\ History \in Seq(ObservedOp) /\ Len(History) = Len(log) /\ Len(log) \in Nat
         /\ \A i \in 1 .. Len(log) : /\ History[i].actor = log[i].actor
                                     /\ History[i].n = log[i].n
                                     /\ History[i].doc = log[i].doc
<1>1. /\ History \in Seq(ObservedOp) /\ Len(History) = Len(log) /\ Len(log) \in Nat
      /\ \A i \in 1 .. Len(log) : History[i] = Observed(log[i])
  BY ObservationFacts DEF History, ServerTypeOK
<1>2. \A op : Observed(op).actor = op.actor /\ Observed(op).n = op.n /\ Observed(op).doc = op.doc
  BY DEF Observed
<1> QED BY <1>1, <1>2

\* The documents of the history are those of the log.
LEMMA HistoryDocs ==
  ASSUME ServerTypeOK, NEW r \in 0 .. Len(log)
  PROVE  Promise!DocAfter(r) = DocAt(r)
<1>1. CASE r = 0
  BY <1>1 DEF Promise!DocAfter, DocAt
<1>2. CASE r \in 1 .. Len(log)
  BY <1>2, HistoryFacts DEF Promise!DocAfter, DocAt
<1>3. Len(log) \in Nat
  BY HistoryFacts
<1> QED BY <1>1, <1>2, <1>3

\* What is committed of a is what a owns in the log.
LEMMA HistoryCommitted ==
  ASSUME ServerTypeOK, NEW a, NEW r \in 0 .. Len(log)
  PROVE  Promise!Committed(a, r) = {log[i].n : i \in {j \in Own(a) : j <= r}}
<1>1. \A j \in 1 .. r : j \in 1 .. Len(log) /\ History[j].actor = log[j].actor
                        /\ History[j].n = log[j].n
  BY HistoryFacts
<1>2. {j \in 1 .. r : History[j].actor = a} = {j \in Own(a) : j <= r}
  BY <1>1, HistoryFacts DEF Own
<1>3. {History[i].n : i \in {j \in 1 .. r : History[j].actor = a}}
        = {log[i].n : i \in {j \in 1 .. r : History[j].actor = a}}
  BY <1>1
<1> QED BY <1>2, <1>3 DEF Promise!Committed

\* Appending to the log appends to the history.
LEMMA HistoryAppend ==
  ASSUME ServerTypeOK, ServerTypeOK', NEW r, log' = Logged(r)
  PROVE  \E d \in Doc : /\ History' = Append(History, [actor |-> r.actor, n |-> r.n, doc |-> d])
                        /\ r.n \in Nat \ {0}
<1> DEFINE new == Len(log) + 1
<1>1. PICK op : op = [actor |-> r.actor, n |-> r.n, gen |-> r.gen, base |-> r.base,
                      key |-> r.key, val |-> r.val, doc |-> Write(DocAt(Len(log)), r)]
  OBVIOUS
<1>2. log' = Append(log, op) /\ op.actor = r.actor /\ op.n = r.n
  BY <1>1 DEF Logged
<1>3. /\ Len(log') = new /\ log'[new] = op /\ \A i \in 1 .. Len(log) : log'[i] = log[i]
      /\ Len(log) \in Nat
  BY <1>2, AppendProperties, HistoryFacts DEF ServerTypeOK
<1>4. /\ History' \in Seq(ObservedOp) /\ Len(History') = Len(log')
      /\ \A i \in 1 .. Len(log') : History'[i] = Observed(log'[i]) /\ log'[i] \in LogOp
  BY ObservationFacts DEF History, ServerTypeOK
<1>5. op \in LogOp
  BY <1>3, <1>4
<1>6. Observed(op) \in ObservedOp /\ op.doc \in Doc /\ op.n \in Nat \ {0}
      /\ Observed(op) = [actor |-> r.actor, n |-> r.n, doc |-> op.doc]
  BY <1>2, <1>5 DEF LogOp, Observed, ObservedOp
<1> DEFINE more == Append(History, Observed(op))
<1>7. /\ more \in Seq(ObservedOp) /\ Len(more) = new /\ more[new] = Observed(op)
      /\ \A i \in 1 .. Len(log) : more[i] = Observed(log[i])
  BY <1>6, AppendProperties, ObservationFacts DEF History, ServerTypeOK
<1> HIDE DEF more
<1>8. \A i \in 1 .. new : History'[i] = more[i]
  BY <1>3, <1>4, <1>7
<1>9. History' = more
  BY <1>3, <1>4, <1>7, <1>8, SeqEqual
<1> QED BY <1>2, <1>6, <1>9 DEF more

-----------------------------------------------------------------------------
(* Steps of the authority *)

\* What CollabLog says of a session.
Shown(b) == <<minted[b], Numbers(pending[b]), retired[b], rev[b], confirmed[b]>>

\* A step that changes neither the log nor what is shown is a stutter.
LEMMA Stutters ==
  ASSUME TypeOK, TypeOK', \A b \in Actors : Shown(b)' = Shown(b)
  PROVE  UNCHANGED <<minted, Open, retired, rev, confirmed>>
<1>1. \A b \in Actors :
        /\ minted'[b] = minted[b] /\ Numbers(pending'[b]) = Numbers(pending[b])
        /\ retired'[b] = retired[b] /\ rev'[b] = rev[b] /\ confirmed'[b] = confirmed[b]
  BY DEF Shown
<1>2. /\ minted \in [Actors -> Nat] /\ minted' \in [Actors -> Nat]
      /\ retired \in [Actors -> SUBSET Nat] /\ retired' \in [Actors -> SUBSET Nat]
      /\ rev \in [Actors -> Nat] /\ rev' \in [Actors -> Nat]
      /\ confirmed \in [Actors -> Doc] /\ confirmed' \in [Actors -> Doc]
  BY DEF TypeOK, DocTypeOK, LinkTypeOK
<1>3. minted' = minted /\ retired' = retired /\ rev' = rev /\ confirmed' = confirmed
  BY <1>1, <1>2
<1>4. Open' = Open
  BY <1>1 DEF Open
<1> QED BY <1>3, <1>4

\* Serving a post commits an intention, in order and once, or nothing.
LEMMA ServeSimulates ==
  ASSUME OrderInv, OrderInv', NEW a \in Actors, NEW x \in InFlight(a), PostOp(x),
         \A b \in Actors : Shown(b)' = Shown(b)
  PROVE  [Promise!Next]_(Promise!vars)
<1> USE DEF OrderInv, DocsInv, TypeOK
<1>1. UNCHANGED <<minted, Open, retired, rev, confirmed>>
  BY Stutters
<1>2. CASE log' = log
  BY <1>1, <1>2 DEF History, Promise!vars
<1>3. CASE log' = Logged(x) /\ x.base = Len(log)
  <2>1. PostOrder(a, x) /\ x.actor = a
    BY DEF SessionOrder, PostOrder
  <2>2. PICK d \in Doc : /\ History' = Append(History, [actor |-> a, n |-> x.n, doc |-> d])
                         /\ x.n \in Nat \ {0}
    BY <1>3, <2>1, HistoryAppend
  <2>3. x.n \in 1 .. minted[a]
    BY <2>1, <2>2 DEF PostOrder, LinkTypeOK
  <2>4. \A m \in Promise!Committed(a, Len(History)) : m < x.n
    <3>1. Len(History) = Len(log) /\ Len(log) \in 0 .. Len(log)
      BY HistoryFacts
    <3>2. Promise!Committed(a, Len(History)) = {log[i].n : i \in {j \in Own(a) : j <= Len(log)}}
      BY <3>1, HistoryCommitted
    <3> QED BY <1>3, <2>1, <3>2 DEF PostOrder
  <2>5. Promise!Commit(a, x.n, d)
    BY <1>1, <2>2, <2>3, <2>4 DEF Promise!Commit
  <2> QED BY <2>3, <2>5 DEF Promise!Next
<1> QED BY <1>2, <1>3, AcceptedAtHead

\* A foreign op is a commit of an outsider.
LEMMA ForeignSimulates ==
  ASSUME OrderInv, OrderInv', NEW k \in Keys, NEW v \in Val, ForeignOp(k, v)
  PROVE  Promise!Next
<1> USE DEF OrderInv, DocsInv, TypeOK
<1>1. UNCHANGED <<minted, Open, retired, rev, confirmed>>
  BY DEF ForeignOp, docVars, Open
<1>2. PICK r : /\ r = [actor |-> None, n |-> Len(log) + 1, gen |-> 1,
                       base |-> Len(log), key |-> k, val |-> v]
               /\ log' = Logged(r)
  BY DEF ForeignOp
<1>3. r.actor = None /\ r.n = Len(log) + 1
  BY <1>2
<1>4. PICK d \in Doc : History' = Append(History, [actor |-> None, n |-> r.n, doc |-> d])
  BY <1>2, <1>3, HistoryAppend
<1>5. r.n \in 1 .. Len(History) + 1
  BY <1>3, HistoryFacts
<1>6. Promise!OutsideCommit(d)
  BY <1>1, <1>4, <1>5 DEF Promise!OutsideCommit
<1> QED BY <1>6 DEF Promise!Next

-----------------------------------------------------------------------------
(* Steps of a session *)

\* The others show what they showed.
OthersShow(a) == \A b \in Actors : b # a => Shown(b)' = Shown(b)

\* a moves along the log, keeps some of its intentions, and reports those in T,
\* all its own and in the log, as committed.
Sees(a, T) ==
  /\ UNCHANGED <<log, minted>>
  /\ Numbers(pending'[a]) \subseteq Numbers(pending[a])
  /\ retired'[a] = retired[a] \cup T /\ T \subseteq Numbers(pending[a])
  /\ \A n \in T : \E i \in Own(a) : i <= rev'[a] /\ log[i].n = n

\* Whatever a session adopts, ingests or confirms, it moves to a prefix of the
\* history in which nothing is that it still holds as pending, and it reports
\* as committed only what the prefix has.
LEMMA SeeSimulates ==
  ASSUME OrderInv, OrderInv', NEW a \in Actors, OthersShow(a), NEW T, Sees(a, T)
  PROVE  Promise!Next
<1> USE DEF OrderInv, DocsInv, TypeOK, Sees
<1> DEFINE r == rev'[a]
<1>1. /\ r \in 0 .. Len(log) /\ confirmed'[a] = DocAt(r) /\ Own(a)' = Own(a)
      /\ Len(History) = Len(log)
  BY HistoryFacts DEF DocsOK, SessionDocs, DocAt, Own
<1>2. History' = History /\ minted' = minted
  BY DEF History
<1>3. \A b \in Actors : b # a =>
        /\ Numbers(pending'[b]) = Numbers(pending[b]) /\ retired'[b] = retired[b]
        /\ rev'[b] = rev[b] /\ confirmed'[b] = confirmed[b]
  BY DEF OthersShow, Shown
<1>4. rev' = [rev EXCEPT ![a] = r] /\ confirmed' = [confirmed EXCEPT ![a] = DocAt(r)]
  <2>1. /\ rev \in [Actors -> Nat] /\ rev' \in [Actors -> Nat]
        /\ confirmed \in [Actors -> Doc] /\ confirmed' \in [Actors -> Doc]
    BY DEF DocTypeOK
  <2> QED BY <1>1, <1>3, <2>1
<1>5. retired' = [retired EXCEPT ![a] = retired[a] \cup T]
  <2>1. retired \in [Actors -> SUBSET Nat] /\ retired' \in [Actors -> SUBSET Nat]
    BY DEF DocTypeOK
  <2> QED BY <1>3, <2>1
<1>6. Open' = [Open EXCEPT ![a] = Numbers(pending'[a])]
  BY <1>3 DEF Open
<1>7. Open[a] = Numbers(pending[a])
  BY DEF Open
<1>8. Promise!Committed(a, r) = {log[i].n : i \in {j \in Own(a) : j <= r}}
  BY <1>1, HistoryCommitted
<1>9. Numbers(pending'[a]) \in SUBSET (Open[a] \ Promise!Committed(a, r))
  <2>1. ASSUME NEW e \in pending'[a], NEW i \in Own(a), i <= r PROVE log[i].n # e.n
    <3>1. log[i].n < e.n
      BY <1>1, <2>1 DEF SessionOrder, EntryOrder
    <3>2. log[i].n \in Nat
      BY SessionNumbers
    <3> QED BY <3>1, <3>2
  <2> QED BY <1>7, <1>8, <2>1 DEF Numbers
<1>10. T \in SUBSET (Open[a] \cap Promise!Committed(a, r))
  BY <1>7, <1>8
<1>11. Promise!DocAfter(r) = DocAt(r)
  BY <1>1, HistoryDocs
<1> HIDE DEF r
<1>12. Promise!See(a, r)
  BY <1>2, <1>4, <1>5, <1>6, <1>9, <1>10, <1>11 DEF Promise!See
<1> QED BY <1>1, <1>12 DEF Promise!Next

\* What a rebase keeps was pending.
LEMMA RebaseKeeps ==
  ASSUME TypeOK, NEW a \in Actors, NEW conf, NEW r \in Nat, NEW skipped, NEW reported,
         NEW undoNow, NEW redoNow,
         Rebase(a, conf, r, skipped, reported, undoNow, redoNow)
  PROVE  Numbers(pending'[a]) \subseteq Numbers(pending[a]) /\ rev'[a] = r
<1> DEFINE E == pending[a] \ skipped
<1>1. PICK K \in SUBSET E :
        \E w \in [K -> Val] : Rebuilt(a, conf, r, E, K, w, reported, undoNow, redoNow)
  BY Zenon DEF Rebase
<1>2. PICK w \in [K -> Val] : Rebuilt(a, conf, r, E, K, w, reported, undoNow, redoNow)
  BY <1>1
<1>3. pending'[a] = {Remint(e, w[e], r) : e \in K} /\ rev'[a] = r
  BY <1>2 DEF Rebuilt, TypeOK, DocTypeOK
<1>4. ASSUME NEW e \in K PROVE Remint(e, w[e], r).n = e.n /\ e \in pending[a]
  <2>1. e \in Entry /\ w[e] \in Val /\ e \in pending[a]
    BY DEF TypeOK, DocTypeOK
  <2> QED BY <2>1, RemintType
<1> QED BY <1>3, <1>4 DEF Numbers

\* Ordered ingress is a step of the session along the history.
LEMMA IngestSimulates ==
  ASSUME OrderInv, OrderInv', NEW a \in Actors, Ingests(a), OthersShow(a)
  PROVE  Promise!Next
<1> USE DEF OrderInv, DocsInv, TypeOK
<1>1. PICK r \in 1 .. Len(log) : IngestOrdered(a, r)
  BY DEF Ingests
<1> DEFINE op == log[r]
<1>2. r \in Nat /\ (op.actor = a => r \in Own(a)) /\ UNCHANGED <<log, minted>>
  BY DEF Own, Ingests
<1>3. CASE Ack(a, op, r)
  <2>1. PICK h \in pending[a] :
          /\ op.actor = a /\ op.n = h.n /\ rev' = [rev EXCEPT ![a] = r]
          /\ pending' = [pending EXCEPT ![a] = pending[a] \ {h}]
          /\ retired' = [retired EXCEPT ![a] = retired[a] \cup {h.n}]
    BY <1>3 DEF Ack, SameOp
  <2>2. /\ rev'[a] = r /\ Numbers(pending'[a]) \subseteq Numbers(pending[a])
        /\ retired'[a] = retired[a] \cup {h.n} /\ {h.n} \subseteq Numbers(pending[a])
    BY <2>1 DEF DocTypeOK, Numbers
  <2>3. \A n \in {h.n} : \E i \in Own(a) : i <= rev'[a] /\ log[i].n = n
    BY <1>2, <2>1, <2>2
  <2>4. Sees(a, {h.n})
    BY <1>2, <2>2, <2>3 DEF Sees
  <2> QED BY <2>4, SeeSimulates
<1>4. CASE ConfirmPending(a, op, r)
  <2>1. PICK e \in pending[a] :
          /\ op.actor = a /\ op.n = e.n
          /\ Rebase(a, Write(confirmed[a], op), r, {e}, {}, undo[a], redo[a])
          /\ retired' = [retired EXCEPT ![a] = retired[a] \cup {e.n}]
    BY <1>4 DEF ConfirmPending
  <2>2. rev'[a] = r /\ Numbers(pending'[a]) \subseteq Numbers(pending[a])
    <3> HIDE DEF op
    <3> QED BY <1>2, <2>1, RebaseKeeps
  <2>3. retired'[a] = retired[a] \cup {e.n} /\ {e.n} \subseteq Numbers(pending[a])
    BY <2>1 DEF DocTypeOK, Numbers
  <2>4. \A n \in {e.n} : \E i \in Own(a) : i <= rev'[a] /\ log[i].n = n
    BY <1>2, <2>1, <2>2
  <2>5. Sees(a, {e.n})
    BY <1>2, <2>2, <2>3, <2>4 DEF Sees
  <2> QED BY <2>5, SeeSimulates
<1>5. CASE ApplyForeign(a, op, r)
  <2>1. /\ Rebase(a, Write(confirmed[a], op), r, {}, {}, undo[a], redo[a])
        /\ retired'[a] = retired[a] \cup {}
    BY <1>5 DEF ApplyForeign
  <2>2. Numbers(pending'[a]) \subseteq Numbers(pending[a])
    <3> HIDE DEF op
    <3> QED BY <1>2, <2>1, RebaseKeeps
  <2>3. Sees(a, {})
    BY <1>2, <2>1, <2>2 DEF Sees
  <2> QED BY <2>3, SeeSimulates
<1> QED BY <1>1, <1>3, <1>4, <1>5 DEF IngestOrdered

\* So is the adoption of a checkpoint.
LEMMA AdoptSimulates ==
  ASSUME OrderInv, OrderInv', NEW a \in Actors, AdoptSnapshot(a), OthersShow(a)
  PROVE  Promise!Next
<1> USE DEF OrderInv, DocsInv, TypeOK
<1>1. PICK snap, dropped, reported :
        Rebase(a, snap.doc, snap.rev, dropped, reported, {}, {}) /\ snap = sync[a].reply
  BY DEF AdoptSnapshot
<1>2. snap.rev \in Nat
  BY <1>1 DEF AdoptSnapshot, Fetched, SyncTypeOK, SnapshotReply
<1>3. Numbers(pending'[a]) \subseteq Numbers(pending[a])
  BY <1>1, <1>2, RebaseKeeps
<1>4. UNCHANGED <<log, minted>> /\ retired'[a] = retired[a] \cup {}
  BY DEF AdoptSnapshot, serverVars
<1>5. Sees(a, {})
  BY <1>3, <1>4 DEF Sees
<1> QED BY <1>5, SeeSimulates

\* A dispatched, undone or redone command is an intention that is issued.
LEMMA ExecuteSimulates ==
  ASSUME TypeOK, TypeOK', NEW a \in Actors, Executes(a), OthersShow(a)
  PROVE  Promise!Next
<1>1. PICK cmd, origin, rec, found : Run(a, cmd, origin, rec, found)
  BY DEF Executes
<1>2. PICK e : e = NewEntry(a, cmd, origin, rec, found)
  OBVIOUS
<1>3. /\ pending' = [pending EXCEPT ![a] = pending[a] \cup {e}] /\ e.n = minted[a] + 1
      /\ minted' = [minted EXCEPT ![a] = minted[a] + 1]
  BY <1>1, <1>2 DEF Run, NewEntry
<1>4. \A b \in Actors : Numbers(pending'[b]) =
        IF b = a THEN Numbers(pending[a]) \cup {minted[a] + 1} ELSE Numbers(pending[b])
  BY <1>3 DEF TypeOK, DocTypeOK, Numbers
<1>5. Open' = [Open EXCEPT ![a] = Open[a] \cup {minted[a] + 1}]
  BY <1>4 DEF Open
<1>6. UNCHANGED <<History, retired, rev, confirmed>>
  BY DEF Executes, History
<1>7. Promise!Issue(a)
  BY <1>3, <1>5, <1>6 DEF Promise!Issue
<1> QED BY <1>7 DEF Promise!Next

\* Posting shows nothing.
LEMMA PumpSimulates ==
  ASSUME TypeOK, TypeOK', NEW a \in Actors, PumpLoop(a), OthersShow(a)
  PROVE  UNCHANGED Promise!vars
<1>1. Numbers(pending'[a]) = Numbers(pending[a])
  <2>1. CASE UNCHANGED pending
    BY <2>1
  <2>2. ASSUME NEW h \in pending[a],
               pending' = [pending EXCEPT ![a] = (pending[a] \ {h}) \cup {Attempted(h, rev[a])}]
        PROVE  Numbers(pending'[a]) = Numbers(pending[a])
    <3>1. Attempted(h, rev[a]).n = h.n
      BY DEF Attempted, TypeOK, DocTypeOK, Entry
    <3>2. pending'[a] = (pending[a] \ {h}) \cup {Attempted(h, rev[a])}
      BY <2>2 DEF TypeOK, DocTypeOK
    <3> QED BY <3>1, <3>2 DEF Numbers
  <2> QED BY <2>1, <2>2 DEF PumpLoop
<1>2. UNCHANGED <<log, minted, retired, rev, confirmed>>
  BY DEF PumpLoop, serverVars
<1>3. \A b \in Actors : Shown(b)' = Shown(b)
  BY <1>1, <1>2 DEF OthersShow, Shown
<1>4. UNCHANGED <<minted, Open, retired, rev, confirmed>>
  BY <1>3, Stutters
<1> QED BY <1>2, <1>4 DEF Promise!vars, History

\* Every step of a session is one of CollabLog or shows nothing.
LEMMA SessionStepSimulates ==
  ASSUME OrderInv, OrderInv', NEW a \in Actors, SessionStep(a)
  PROVE  [Promise!Next]_(Promise!vars)
<1>1. TypeOK /\ TypeOK' /\ DocsInv
  BY DEF OrderInv, DocsInv
<1>2. \/ UNCHANGED retired /\ \A b \in Actors : Kept(b)
      \/ Executes(a) \/ PumpLoop(a) \/ Ingests(a) \/ AdoptSnapshot(a)
  BY <1>1, SessionMoves
<1>3. \A b \in Actors : b # a => Kept(b)
  BY <1>1, SessionStepDocs
<1>4. \A b \in Actors : Kept(b) /\ retired'[b] = retired[b] => Shown(b)' = Shown(b)
  BY DEF Kept, Shown
<1>5. OthersShow(a) \/ (UNCHANGED retired /\ \A b \in Actors : Kept(b))
  <2>1. ASSUME Executes(a) \/ PumpLoop(a) \/ AdoptSnapshot(a) PROVE UNCHANGED retired
    BY <2>1 DEF Executes, PumpLoop, AdoptSnapshot
  <2>2. ASSUME Ingests(a), NEW b \in Actors, b # a PROVE retired'[b] = retired[b]
    <3>1. UNCHANGED retired \/ \E n : retired' = [retired EXCEPT ![a] = retired[a] \cup {n}]
      BY <2>2 DEF Ingests, IngestOrdered, Ack, ConfirmPending, ApplyForeign
    <3> QED BY <1>1, <2>2, <3>1 DEF TypeOK, DocTypeOK
  <2> QED BY <1>2, <1>3, <1>4, <2>1, <2>2 DEF OthersShow
<1>6. CASE UNCHANGED retired /\ \A b \in Actors : Kept(b)
  <2>1. \A b \in Actors : Shown(b)' = Shown(b)
    BY <1>4, <1>6
  <2>2. CASE ServePost(a)
    <3>1. PostOp(post[a].req) /\ post[a].req \in InFlight(a)
      BY <2>2 DEF ServePost, InFlight
    <3> QED BY <2>1, <3>1, ServeSimulates
  <2>3. CASE ~ServePost(a)
    <3>1. UNCHANGED log
      BY <2>3, SessionLog
    <3>2. UNCHANGED <<minted, Open, retired, rev, confirmed>>
      BY <1>1, <2>1, Stutters
    <3> QED BY <3>1, <3>2 DEF Promise!vars, History
  <2> QED BY <2>2, <2>3
<1>7. CASE OthersShow(a) /\ Executes(a)
  BY <1>1, <1>7, ExecuteSimulates
<1>8. CASE OthersShow(a) /\ PumpLoop(a)
  BY <1>1, <1>8, PumpSimulates
<1>9. CASE OthersShow(a) /\ Ingests(a)
  BY <1>9, IngestSimulates
<1>10. CASE OthersShow(a) /\ AdoptSnapshot(a)
  BY <1>10, AdoptSimulates
<1> QED BY <1>2, <1>5, <1>6, <1>7, <1>8, <1>9, <1>10

-----------------------------------------------------------------------------
(* The theorem *)

LEMMA InitSimulates == Init => Promise!Init
<1> SUFFICES ASSUME Init PROVE Promise!Init
  OBVIOUS
<1>1. History = <<>>
  BY DEF Init, History, Observation
<1>2. \A a \in Actors : Numbers(pending[a]) = {}
  BY DEF Init, Numbers
<1>3. Open = [a \in Actors |-> {}]
  BY <1>2 DEF Open
<1> QED BY <1>1, <1>3 DEF Init, Promise!Init

LEMMA NextSimulates ==
  ASSUME OrderInv, OrderInv', [Next]_vars
  PROVE  [Promise!Next]_(Promise!vars)
<1>1. CASE UNCHANGED vars
  BY <1>1 DEF vars, serverVars, docVars, Promise!vars, History, Open
<1>2. CASE OutsideStep
  <2>1. CASE ServeLate
    <3>1. PICK x \in late : PostOp(x)
      BY <2>1 DEF ServeLate
    <3>2. x.actor \in Actors /\ x \in InFlight(x.actor)
      BY DEF InFlight, OrderInv, DocsInv, TypeOK, ServerTypeOK, Post
    <3>3. \A b \in Actors : Shown(b)' = Shown(b)
      BY <2>1 DEF ServeLate, docVars, Shown
    <3> QED BY <3>1, <3>2, <3>3, ServeSimulates
  <2>2. ASSUME NEW k \in Keys, NEW v \in Val, ForeignOp(k, v) PROVE Promise!Next
    BY <2>2, ForeignSimulates
  <2>3. CASE ForeignCheckpoint \/ Compact
    BY <2>3 DEF ForeignCheckpoint, Compact, docVars, Promise!vars, History, Open
  <2> QED BY <1>2, <2>1, <2>2, <2>3 DEF OutsideStep
<1>3. ASSUME NEW a \in Actors, SessionStep(a) PROVE [Promise!Next]_(Promise!vars)
  BY <1>3, SessionStepSimulates
<1> QED BY <1>1, <1>2, <1>3 DEF Next

\* An observer of the log and the confirmed documents sees intentions that are
\* issued, commit once and in order, and sessions on prefixes of one history.
THEOREM Implements == Spec => ImplementsCollabLog
<1>1. Init => OrderInv
  BY InitOrder
<1>2. OrderInv /\ [Next]_vars => OrderInv'
  BY NextOrder
<1>3. Init => Promise!Init
  BY InitSimulates
<1>4. OrderInv /\ OrderInv' /\ [Next]_vars => [Promise!Next]_(Promise!vars)
  BY NextSimulates
<1> QED BY <1>1, <1>2, <1>3, <1>4, PTL DEF Spec, ImplementsCollabLog, Promise!Spec
=============================================================================
