-------------------------- MODULE SharedSessionTypes --------------------------
(***************************************************************************)
(* Proof that TypeOK is an invariant of SharedSession, for every value of   *)
(* the constants.                                                           *)
(***************************************************************************)
EXTENDS SharedSessionProperties, SequenceTheorems, WellFoundedInduction, TLAPS

-----------------------------------------------------------------------------
(* Extrema of sets of natural numbers *)

Less == {ss \in Nat \X Nat : ss[1] < ss[2]}

\* Every non-empty set of naturals has a least element.
LEMMA Smallest ==
  ASSUME NEW S \in SUBSET Nat, S # {}
  PROVE  \E m \in S : \A x \in S : m <= x
<1>1. IsWellFoundedOn(Less, Nat)
  BY NatLessThanWellFounded DEF OpToRel, Less
<1>2. PICK m \in S : \A y \in S : ~(<<y, m>> \in Less)
  BY <1>1, WFMin
<1>3. \A x, y \in Nat : x < y => <<x, y>> \in Less
  BY DEF Less
<1>4. \A x \in S : m <= x
  <2> SUFFICES ASSUME NEW x \in S PROVE m <= x
    OBVIOUS
  <2>1. ~(x < m)
    BY <1>2, <1>3, Zenon
  <2> QED BY <2>1
<1> QED BY <1>4

\* A non-empty set of naturals with an upper bound has a greatest element:
\* what the CHOOSE of Ground relies on.
LEMMA Greatest ==
  ASSUME NEW S \in SUBSET Nat, S # {}, NEW b \in Nat, \A x \in S : x <= b
  PROVE  \E m \in S : \A x \in S : x <= m
<1> DEFINE T == {y \in Nat : \A x \in S : x <= y}
<1>1. PICK m \in T : \A y \in T : m <= y
  <2>1. b \in T
    OBVIOUS
  <2> HIDE DEF T
  <2>2. T # {}
    BY <2>1
  <2>3. T \in SUBSET Nat
    BY DEF T
  <2> QED BY <2>2, <2>3, Smallest
<1>2. m \in S
  <2> SUFFICES ASSUME m \notin S PROVE FALSE
    OBVIOUS
  <2>1. \A x \in S : x <= m - 1 /\ m - 1 \in Nat
    OBVIOUS
  <2>2. m - 1 \in T
    BY <2>1
  <2> QED BY <1>1, <2>2
<1> QED BY <1>2

-----------------------------------------------------------------------------
(* Documents and entries *)

\* What replaying writes gives is a document.
LEMMA GroundType ==
  ASSUME NEW conf \in Doc, NEW w, NEW n \in Nat, DOMAIN w \subseteq Entry,
         \A e \in DOMAIN w : w[e] \in Val
  PROVE  Ground(conf, w, n) \in Doc
<1> SUFFICES ASSUME NEW k \in Keys
             PROVE  Ground(conf, w, n)[k] \in Val
  BY DEF Ground, Doc
<1> DEFINE W == {e \in DOMAIN w : e.n < n /\ e.cmd.key = k}
<1>1. CASE W = {}
  BY <1>1 DEF Ground, Doc
<1>2. CASE W # {}
  <2> DEFINE N == {e.n : e \in W}
  <2>1. N \in SUBSET Nat /\ N # {} /\ \A x \in N : x <= n
    BY <1>2 DEF Entry
  <2>2. PICK m \in N : \A x \in N : x <= m
    <3> HIDE DEF N
    <3> QED BY <2>1, Greatest
  <2>3. \E e \in W : \A f \in W : f.n <= e.n
    BY <2>2
  <2>4. (CHOOSE e \in W : \A f \in W : f.n <= e.n) \in W
    BY <2>3
  <2>5. Ground(conf, w, n)[k] = w[CHOOSE e \in W : \A f \in W : f.n <= e.n]
    BY <1>2 DEF Ground
  <2> HIDE DEF W
  <2>6. W \subseteq DOMAIN w
    BY DEF W
  <2> QED BY <2>4, <2>5, <2>6
<1> QED BY <1>1, <1>2

\* A reminted entry is an entry: it keeps its number, changes its opId, and
\* loses the attempts whose slot is taken.
LEMMA RemintType ==
  ASSUME NEW e \in Entry, NEW v \in Val, NEW r \in Nat
  PROVE  /\ Remint(e, v, r) \in Entry
         /\ Remint(e, v, r).n = e.n /\ Remint(e, v, r).gen = e.gen + 1
         /\ Remint(e, v, r).attempts = {t \in e.attempts : t.base >= r}
         /\ Remint(e, v, r).val = v /\ Remint(e, v, r).cmd = e.cmd
<1> DEFINE left == {t \in e.attempts : t.base >= r}
<1>1. left \in SUBSET Attempt
  BY DEF Entry
<1>2. Remint(e, v, r) = [e EXCEPT !.gen = e.gen + 1, !.val = v, !.attempts = left]
  BY DEF Remint
<1>3. e.gen + 1 \in Nat
  BY DEF Entry
<1> HIDE DEF left
<1>4. Remint(e, v, r) \in Entry
  BY <1>1, <1>2, <1>3 DEF Entry
<1>5. /\ Remint(e, v, r).n = e.n /\ Remint(e, v, r).gen = e.gen + 1
      /\ Remint(e, v, r).attempts = left /\ Remint(e, v, r).val = v
      /\ Remint(e, v, r).cmd = e.cmd
  BY <1>1, <1>2, <1>3 DEF Entry
<1> QED BY <1>4, <1>5 DEF left

\* A rewritten record is a record.
LEMMA RewrittenType ==
  ASSUME NEW h \in HistoryRecord, NEW conf \in Doc, NEW w,
         DOMAIN w \subseteq Entry, \A e \in DOMAIN w : w[e] \in Val
  PROVE  Rewritten(h, conf, w) \in HistoryRecord
<1>1. CASE ~\E x \in DOMAIN w : Author(x, h, DOMAIN w)
  BY <1>1 DEF Rewritten
<1>2. CASE \E x \in DOMAIN w : Author(x, h, DOMAIN w)
  <2> DEFINE e == CHOOSE x \in DOMAIN w : Author(x, h, DOMAIN w)
             found == Ground(conf, w, e.n)[h.key]
  <2>1. e \in DOMAIN w
    BY <1>2
  <2>2. w[e] \in Val /\ e.n \in Nat
    BY <2>1 DEF Entry
  <2>3. found \in Val
    BY <2>2, GroundType DEF Doc, HistoryRecord
  <2>4. Rewritten(h, conf, w) = IF e.origin = "undo"
                                THEN [h EXCEPT !.new = found, !.old = w[e]]
                                ELSE [h EXCEPT !.old = found, !.new = w[e]]
    BY <1>2 DEF Rewritten
  <2> HIDE DEF e, found
  <2> QED BY <2>2, <2>3, <2>4 DEF HistoryRecord
<1> QED BY <1>1, <1>2

LEMMA RebasedType ==
  ASSUME NEW stack \in SUBSET HistoryRecord, NEW gone, NEW conf \in Doc, NEW w,
         DOMAIN w \subseteq Entry, \A e \in DOMAIN w : w[e] \in Val
  PROVE  Rebased(stack, gone, conf, w) \in SUBSET HistoryRecord
BY RewrittenType DEF Rebased

-----------------------------------------------------------------------------
(* The parts of the steps that change documents *)

\* A rebase keeps the types of the document side.
LEMMA RebaseType ==
  ASSUME DocTypeOK, minted \in [Actors -> Nat], NEW a \in Actors,
         NEW conf \in Doc, NEW r \in Nat, NEW skipped, NEW reported \in SUBSET Nat,
         NEW undoNow \in SUBSET HistoryRecord, NEW redoNow \in SUBSET HistoryRecord,
         Rebase(a, conf, r, skipped, reported, undoNow, redoNow),
         retired' \in [Actors -> SUBSET Nat]
  PROVE  DocTypeOK'
<1> DEFINE E == pending[a] \ skipped
<1>1. PICK K \in SUBSET E :
        \E w \in [K -> Val] : Rebuilt(a, conf, r, E, K, w, reported, undoNow, redoNow)
  BY Zenon DEF Rebase
<1>a. PICK w \in [K -> Val] : Rebuilt(a, conf, r, E, K, w, reported, undoNow, redoNow)
  BY <1>1
<1>2. pending[a] \in SUBSET Entry
  BY DEF DocTypeOK
<1>3. K \in SUBSET Entry /\ \A e \in K : w[e] \in Val
  BY <1>2
<1>4. DOMAIN w \subseteq Entry /\ \A e \in DOMAIN w : w[e] \in Val
  BY <1>3
<1>5. Ground(conf, w, minted[a] + 1) \in Doc
  BY <1>4, GroundType
<1>6. {Remint(e, w[e], r) : e \in K} \in SUBSET Entry
  BY <1>3, RemintType
<1>7. /\ Rebased(undoNow, RecordsOf(pending[a] \ K), conf, w) \in SUBSET HistoryRecord
      /\ Rebased(redoNow, RecordsOf(pending[a] \ K), conf, w) \in SUBSET HistoryRecord
  BY <1>4, RebasedType
<1>8. surfaced[a] \cup reported \cup
        {e.n : e \in {x \in E \ K : Refused(x.cmd, Ground(conf, w, x.n))}} \in SUBSET Nat
  <2>1. \A e \in E \ K : e.n \in Nat
    BY <1>2 DEF Entry
  <2>2. surfaced[a] \in SUBSET Nat
    BY DEF DocTypeOK
  <2> HIDE DEF E
  <2> QED BY <2>1, <2>2
<1> HIDE DEF E
<1> QED
  <2>1. confirmed' \in [Actors -> Doc] /\ rev' \in [Actors -> Nat] /\ store' \in [Actors -> Doc]
    BY <1>a, <1>5 DEF DocTypeOK, Rebuilt
  <2>2. pending' \in [Actors -> SUBSET Entry]
    BY <1>a, <1>6 DEF DocTypeOK, Rebuilt
  <2>3. undo' \in [Actors -> SUBSET HistoryRecord] /\ redo' \in [Actors -> SUBSET HistoryRecord]
    BY <1>a, <1>7 DEF DocTypeOK, Rebuilt
  <2>4. surfaced' \in [Actors -> SUBSET Nat]
    BY <1>a, <1>8 DEF DocTypeOK, Rebuilt
  <2> QED BY <2>1, <2>2, <2>3, <2>4 DEF DocTypeOK

\* Writing one key of a document.
LEMMA WriteType ==
  ASSUME NEW doc \in Doc, NEW w, w.val \in Val
  PROVE  Write(doc, w) \in Doc
BY DEF Write, Doc

\* Every op that is ingested keeps the types of the document side.
LEMMA IngestType ==
  ASSUME ServerTypeOK, DocTypeOK, minted \in [Actors -> Nat], NEW a \in Actors, NEW r,
         r \in DOMAIN log, IngestOrdered(a, r)
  PROVE  DocTypeOK'
<1> DEFINE op == log[r]
<1>1. op \in LogOp /\ r \in Nat
  BY ElementOfSeq DEF ServerTypeOK
<1>2. confirmed[a] \in Doc /\ Write(confirmed[a], op) \in Doc
  BY <1>1, WriteType DEF LogOp, DocTypeOK
<1> HIDE DEF op
<1>3. CASE Ack(a, op, r)
  <2>1. PICK h \in pending[a] :
          /\ confirmed' = [confirmed EXCEPT ![a] =
                             IF pending[a] = {h} THEN store[a] ELSE Write(confirmed[a], op)]
          /\ rev'     = [rev EXCEPT ![a] = r]
          /\ pending' = [pending EXCEPT ![a] = pending[a] \ {h}]
          /\ retired' = [retired EXCEPT ![a] = retired[a] \cup {h.n}]
          /\ UNCHANGED <<store, undo, redo, surfaced>>
    BY <1>3 DEF Ack
  <2>2. h.n \in Nat /\ retired[a] \in SUBSET Nat
    BY DEF DocTypeOK, Entry
  <2> QED BY <1>1, <1>2, <2>1, <2>2 DEF DocTypeOK
<1>4. CASE ConfirmPending(a, op, r)
  <2>1. PICK e \in pending[a] :
          /\ Rebase(a, Write(confirmed[a], op), r, {e}, {}, undo[a], redo[a])
          /\ retired' = [retired EXCEPT ![a] = retired[a] \cup {e.n}]
    BY <1>4 DEF ConfirmPending
  <2>2. retired' \in [Actors -> SUBSET Nat]
    BY <2>1 DEF DocTypeOK, Entry
  <2>3. undo[a] \in SUBSET HistoryRecord /\ redo[a] \in SUBSET HistoryRecord
    BY DEF DocTypeOK
  <2> QED BY <1>1, <1>2, <2>1, <2>2, <2>3, RebaseType
<1>5. CASE ApplyForeign(a, op, r)
  <2>1. Rebase(a, Write(confirmed[a], op), r, {}, {}, undo[a], redo[a]) /\ retired' = retired
    BY <1>5 DEF ApplyForeign
  <2>2. undo[a] \in SUBSET HistoryRecord /\ redo[a] \in SUBSET HistoryRecord
        /\ retired' \in [Actors -> SUBSET Nat]
    BY <2>1 DEF DocTypeOK
  <2> QED BY <1>1, <1>2, <2>1, <2>2, RebaseType
<1> QED BY <1>3, <1>4, <1>5 DEF IngestOrdered, op

-----------------------------------------------------------------------------
(* What a step leaves alone keeps its type *)

\* The log only grows.
LogGrows == Len(log') \in Nat /\ Len(log) <= Len(log')

LEMMA FrameType ==
  ASSUME TypeOK
  PROVE  /\ UNCHANGED serverVars => ServerTypeOK' /\ LogGrows
         /\ UNCHANGED docVars => DocTypeOK'
         /\ UNCHANGED syncVars /\ LogGrows => SyncTypeOK'
         /\ UNCHANGED pumpVars /\ LogGrows => PumpTypeOK'
         /\ UNCHANGED <<minted, put, streamVars, faults>> => LinkTypeOK'
<1>1. Len(log) \in Nat
  BY LenProperties DEF TypeOK, ServerTypeOK
<1>2. UNCHANGED serverVars => ServerTypeOK' /\ LogGrows
  BY <1>1 DEF TypeOK, ServerTypeOK, serverVars, LogGrows
<1>3. UNCHANGED docVars => DocTypeOK'
  BY DEF TypeOK, DocTypeOK, docVars
<1>4. UNCHANGED syncVars /\ LogGrows => SyncTypeOK'
  <2> SUFFICES ASSUME UNCHANGED syncVars, LogGrows PROVE SyncTypeOK'
    OBVIOUS
  <2>1. \A b \in Actors : sync[b].last \in Nat /\ sync[b].last <= Len(log)
    BY DEF TypeOK, SyncTypeOK, SyncState
  <2>2. \A b \in Actors : sync[b].last <= Len(log')
    BY <1>1, <2>1 DEF LogGrows
  <2> QED BY <2>2 DEF TypeOK, SyncTypeOK, syncVars
<1>5. UNCHANGED pumpVars /\ LogGrows => PumpTypeOK'
  <2> SUFFICES ASSUME UNCHANGED pumpVars, LogGrows PROVE PumpTypeOK'
    OBVIOUS
  <2> QED BY <1>1 DEF TypeOK, PumpTypeOK, pumpVars, LogGrows
<1>6. UNCHANGED <<minted, put, streamVars, faults>> => LinkTypeOK'
  BY DEF TypeOK, LinkTypeOK, streamVars
<1> QED BY <1>2, <1>3, <1>4, <1>5, <1>6

-----------------------------------------------------------------------------
(* The control state *)

Stage == {"idle", "loop", "snapshot", "ops", "page", "delay", "exit"}

\* A fresh state of the sync loop.
LEMMA AtType ==
  ASSUME NEW pc \in Stage
  PROVE  At(pc) \in SyncState /\ At(pc).pc = pc /\ At(pc).reply = None /\ At(pc).last = 0
BY DEF At, NoSync, SyncState, Stage

\* A sync state for one actor: its type is kept when the new state is sound.
LEMMA SyncToType ==
  ASSUME TypeOK, NEW a \in Actors, NEW s \in SyncState,
         s.last <= Len(log), s.pc = "snapshot" => s.reply \in SnapshotReply \cup {None},
         sync' = [sync EXCEPT ![a] = s], UNCHANGED serverVars,
         status' \in [Actors -> {"live", "catching-up", "closed", "error"}],
         target' \in [Actors -> Nat], resync' \in [Actors -> BOOLEAN]
  PROVE  SyncTypeOK'
<1>1. sync' \in [Actors -> SyncState]
  BY DEF TypeOK, SyncTypeOK
<1>2. ASSUME NEW b \in Actors
      PROVE  /\ sync'[b].last <= Len(log)
             /\ sync'[b].pc = "snapshot" => sync'[b].reply \in SnapshotReply \cup {None}
  <2>1. CASE b = a
    BY <2>1 DEF TypeOK, SyncTypeOK
  <2>2. CASE b # a
    BY <2>2 DEF TypeOK, SyncTypeOK
  <2> QED BY <2>1, <2>2
<1> QED BY <1>1, <1>2 DEF SyncTypeOK, serverVars

\* startSync keeps the types, whatever target and resync become.
LEMMA StartSyncType ==
  ASSUME TypeOK, NEW a \in Actors, StartSync(a), UNCHANGED serverVars,
         target' \in [Actors -> Nat], resync' \in [Actors -> BOOLEAN]
  PROVE  SyncTypeOK'
<1> DEFINE s == IF Syncing(a) THEN sync[a] ELSE At("loop")
<1>1. s \in SyncState /\ s.last <= Len(log)
      /\ (s.pc = "snapshot" => s.reply \in SnapshotReply \cup {None})
  <2>1. Len(log) \in Nat
    BY LenProperties DEF TypeOK, ServerTypeOK
  <2>2. At("loop") \in SyncState /\ At("loop").pc = "loop" /\ At("loop").last = 0
    BY AtType DEF Stage
  <2> QED BY <2>1, <2>2 DEF TypeOK, SyncTypeOK
<1>2. sync' = [sync EXCEPT ![a] = s]
  BY DEF StartSync
<1>3. status' \in [Actors -> {"live", "catching-up", "closed", "error"}]
  BY DEF StartSync, TypeOK, SyncTypeOK
<1> HIDE DEF s
<1> QED BY <1>1, <1>2, <1>3, SyncToType

LEMMA RequestType ==
  ASSUME TypeOK, NEW a \in Actors, NEW r \in Nat, UNCHANGED serverVars,
         RequestCatchUp(a, r) \/ RequestResync(a, r)
  PROVE  SyncTypeOK'
<1>1. target' \in [Actors -> Nat] /\ resync' \in [Actors -> BOOLEAN] /\ StartSync(a)
  BY DEF RequestCatchUp, RequestResync, RaiseTarget, TypeOK, SyncTypeOK
<1> QED BY <1>1, StartSyncType

\* The reply is used up.
LEMMA PumpToType ==
  ASSUME TypeOK, NEW a \in Actors, UNCHANGED log,
         NEW p \in {"idle", "start", "loop", "delay", "checkpoint", "exit"}, PumpTo(a, p)
  PROVE  PumpTypeOK'
<1>1. /\ pump' \in [Actors -> {"idle", "start", "loop", "posting", "delay", "checkpoint", "exit"}]
      /\ post' \in [Actors -> Exchange \cup {None}]
  BY DEF PumpTo, TypeOK, PumpTypeOK
<1>2. \A b \in Actors : pump'[b] = "posting" => b # a /\ pump[b] = "posting" /\ post'[b] = post[b]
  BY DEF PumpTo, TypeOK, PumpTypeOK
<1> QED BY <1>1, <1>2 DEF TypeOK, PumpTypeOK

\* The pump moves without touching the post, and not to "posting".
LEMMA PumpMovesType ==
  ASSUME TypeOK, NEW a \in Actors, LogGrows, UNCHANGED post,
         NEW p \in {"idle", "start", "loop", "delay", "checkpoint", "exit"},
         pump' = [pump EXCEPT ![a] = p] \/ pump' = pump
  PROVE  PumpTypeOK'
<1>1. pump' \in [Actors -> {"idle", "start", "loop", "posting", "delay", "checkpoint", "exit"}]
  BY DEF TypeOK, PumpTypeOK
<1>2. \A b \in Actors : pump'[b] = "posting" => pump[b] = "posting"
  BY DEF TypeOK, PumpTypeOK
<1>3. Len(log) \in Nat
  BY LenProperties DEF TypeOK, ServerTypeOK
<1> QED BY <1>1, <1>2, <1>3 DEF TypeOK, PumpTypeOK, LogGrows

LEMMA WakeType ==
  ASSUME TypeOK, NEW a \in Actors, LogGrows, UNCHANGED post, WakePump(a)
  PROVE  PumpTypeOK'
<1>1. CASE pump[a] = "idle"
  <2>1. pump' = [pump EXCEPT ![a] = "start"]
    BY <1>1 DEF WakePump, Woken
  <2> QED BY <2>1, PumpMovesType
<1>2. CASE pump[a] # "idle"
  <2>1. pump' = pump
    BY <1>2 DEF WakePump, Woken, TypeOK, PumpTypeOK
  <2> QED BY <2>1, PumpMovesType
<1> QED BY <1>1, <1>2

-----------------------------------------------------------------------------
(* The actions *)

\* Execution keeps the parts it changes well typed.
LEMMA RunType ==
  ASSUME TypeOK, NEW a \in Actors, NEW cmd \in Command,
         NEW origin \in {"command", "undo", "redo"}, NEW rec \in Nat,
         NEW found \in Val \cup {None}, Run(a, cmd, origin, rec, found),
         UNCHANGED <<serverVars, post>>
  PROVE  /\ store' \in [Actors -> Doc] /\ pending' \in [Actors -> SUBSET Entry]
         /\ minted' \in [Actors -> Nat] /\ PumpTypeOK'
<1> DEFINE e == NewEntry(a, cmd, origin, rec, found)
<1>1. store[a] \in Doc /\ store[a][cmd.key] \in Val /\ cmd.write[store[a][cmd.key]] \in Val
  BY DEF TypeOK, DocTypeOK, Doc, Command
<1>2. e \in Entry
  BY <1>1 DEF NewEntry, Entry, TypeOK, LinkTypeOK
<1>3. e.val \in Val
  BY <1>2 DEF Entry
<1> HIDE DEF e
<1>4. Write(store[a], [key |-> cmd.key, val |-> e.val]) \in Doc
  BY <1>1, <1>3, WriteType
<1>5. /\ pending' = [pending EXCEPT ![a] = pending[a] \cup {e}]
      /\ store' = [store EXCEPT ![a] = Write(store[a], [key |-> cmd.key, val |-> e.val])]
      /\ minted' = [minted EXCEPT ![a] = minted[a] + 1] /\ WakePump(a)
  BY DEF Run, e
<1>6. PumpTypeOK'
  BY <1>5, FrameType, WakeType
<1> QED BY <1>2, <1>4, <1>5, <1>6 DEF TypeOK, DocTypeOK, LinkTypeOK

LEMMA DispatchType ==
  ASSUME TypeOK, NEW a \in Actors, NEW cmd \in Commands, Dispatch(a, cmd)
  PROVE  TypeOK'
<1> DEFINE n == minted[a] + 1
           h == [at |-> n, id |-> n, key |-> cmd.key, old |-> store[a][cmd.key],
                 new |-> cmd.write[store[a][cmd.key]]]
<1>1. cmd \in Command /\ n \in Nat
  BY SessionAssumption DEF TypeOK, LinkTypeOK
<1>2. Run(a, cmd, "command", n, None) /\ UNCHANGED <<serverVars, post>>
  BY DEF Dispatch
<1>3. /\ store' \in [Actors -> Doc] /\ pending' \in [Actors -> SUBSET Entry]
      /\ minted' \in [Actors -> Nat] /\ PumpTypeOK'
  <2> HIDE DEF n
  <2> QED BY <1>1, <1>2, RunType
<1>4. h \in HistoryRecord
  BY <1>1 DEF HistoryRecord, Command, TypeOK, DocTypeOK, Doc
<1>5. Push(undo[a], h, n) \in SUBSET HistoryRecord
  <2>1. [h EXCEPT !.at = n] \in HistoryRecord
    BY <1>1, <1>4 DEF HistoryRecord
  <2> HIDE DEF h, n
  <2> QED BY <2>1 DEF Push, TypeOK, DocTypeOK
<1>6. Capped(Push(undo[a], h, n)) \in SUBSET HistoryRecord
  BY <1>5 DEF Capped
<1>7. undo' = [undo EXCEPT ![a] = Capped(Push(undo[a], h, n))] /\ redo' = [redo EXCEPT ![a] = {}]
  BY DEF Dispatch
<1> HIDE DEF h, n
<1>8. DocTypeOK'
  BY <1>3, <1>6, <1>7 DEF Dispatch, TypeOK, DocTypeOK
<1>9. LinkTypeOK'
  BY <1>3 DEF Dispatch, TypeOK, LinkTypeOK, streamVars
<1>10. ServerTypeOK' /\ SyncTypeOK'
  BY FrameType DEF Dispatch
<1> QED BY <1>3, <1>8, <1>9, <1>10 DEF TypeOK

\* The record an undo or a redo moves to the other stack.
LEMMA PushType ==
  ASSUME NEW stack \in SUBSET HistoryRecord, NEW h \in HistoryRecord, NEW n \in Nat
  PROVE  Push(stack, h, n) \in SUBSET HistoryRecord
BY DEF Push, HistoryRecord

LEMMA SessionPatchType ==
  ASSUME NEW k \in Keys, NEW v \in Val
  PROVE  SessionPatch(k, v) \in Command
BY DEF SessionPatch, Command

LEMMA UndoType ==
  ASSUME TypeOK, NEW a \in Actors, Undo(a) \/ Redo(a)
  PROVE  TypeOK'
<1>1. PICK h \in undo[a] \cup redo[a] :
        /\ \/ Run(a, SessionPatch(h.key, h.old), "undo", h.id, h.new)
           \/ Run(a, SessionPatch(h.key, h.new), "redo", h.id, h.old)
        /\ \/ /\ undo' = [undo EXCEPT ![a] = undo[a] \ {h}]
              /\ redo' = [redo EXCEPT ![a] = Push(redo[a], h, minted[a] + 1)]
           \/ /\ redo' = [redo EXCEPT ![a] = redo[a] \ {h}]
              /\ undo' = [undo EXCEPT ![a] = Push(undo[a], h, minted[a] + 1)]
  BY DEF Undo, Redo
<1>2. h \in HistoryRecord /\ minted[a] + 1 \in Nat
  BY DEF TypeOK, DocTypeOK, LinkTypeOK
<1>3. h.key \in Keys /\ h.old \in Val /\ h.new \in Val /\ h.id \in Nat
  BY <1>2 DEF HistoryRecord
<1>4. UNCHANGED <<confirmed, rev, surfaced, retired, serverVars, syncVars, post,
                  put, streamVars, faults>>
  BY DEF Undo, Redo
<1>5. SessionPatch(h.key, h.old) \in Command /\ SessionPatch(h.key, h.new) \in Command
  BY <1>3, SessionPatchType
<1>6. /\ store' \in [Actors -> Doc] /\ pending' \in [Actors -> SUBSET Entry]
      /\ minted' \in [Actors -> Nat] /\ PumpTypeOK'
  <2>1. CASE Run(a, SessionPatch(h.key, h.old), "undo", h.id, h.new)
    BY <2>1, <1>3, <1>4, <1>5, RunType
  <2>2. CASE Run(a, SessionPatch(h.key, h.new), "redo", h.id, h.old)
    BY <2>2, <1>3, <1>4, <1>5, RunType
  <2> QED BY <1>1, <2>1, <2>2
<1>7. undo' \in [Actors -> SUBSET HistoryRecord] /\ redo' \in [Actors -> SUBSET HistoryRecord]
  <2>1. undo[a] \in SUBSET HistoryRecord /\ redo[a] \in SUBSET HistoryRecord
    BY DEF TypeOK, DocTypeOK
  <2>2. /\ Push(redo[a], h, minted[a] + 1) \in SUBSET HistoryRecord
        /\ Push(undo[a], h, minted[a] + 1) \in SUBSET HistoryRecord
    BY <1>2, <2>1, PushType
  <2> QED BY <1>1, <2>1, <2>2 DEF TypeOK, DocTypeOK
<1>8. DocTypeOK'
  BY <1>4, <1>6, <1>7 DEF TypeOK, DocTypeOK
<1>9. LinkTypeOK'
  BY <1>4, <1>6 DEF TypeOK, LinkTypeOK, streamVars
<1>10. ServerTypeOK' /\ SyncTypeOK'
  BY <1>4, FrameType
<1> QED BY <1>6, <1>8, <1>9, <1>10 DEF TypeOK

\* The other steps a user takes.
LEMMA UserType ==
  ASSUME TypeOK, NEW a \in Actors, UserStep(a)
  PROVE  TypeOK'
<1>1. CASE DropStaleRecord(a)
  <2>1. DocTypeOK'
    BY <1>1 DEF DropStaleRecord, TypeOK, DocTypeOK
  <2>2. ServerTypeOK' /\ SyncTypeOK' /\ PumpTypeOK' /\ LinkTypeOK'
    BY <1>1, FrameType DEF DropStaleRecord
  <2> QED BY <2>1, <2>2 DEF TypeOK
<1>2. CASE Close(a)
  <2>1. ServerTypeOK' /\ DocTypeOK' /\ PumpTypeOK'
    BY <1>2, FrameType DEF Close
  <2>2. SyncTypeOK'
    BY <1>2 DEF Close, TypeOK, SyncTypeOK, serverVars
  <2>3. ConfirmedPair(a) \in Checkpoint
    BY DEF ConfirmedPair, Checkpoint, TypeOK, DocTypeOK
  <2>4. LinkTypeOK'
    BY <1>2, <2>3 DEF Close, TypeOK, LinkTypeOK
  <2> QED BY <2>1, <2>2, <2>4 DEF TypeOK
<1> QED BY <1>1, <1>2, DispatchType, UndoType DEF UserStep

\* An op handed to the ordered ingress, or answered with a catch-up.
LEMMA HandleType ==
  ASSUME TypeOK, NEW a \in Actors, NEW r \in 1 .. Len(log), HandleServerOp(a, r),
         UNCHANGED <<minted, serverVars>>
  PROVE  DocTypeOK' /\ SyncTypeOK'
<1>1. r \in Nat /\ r \in DOMAIN log
  BY LenProperties DEF TypeOK, ServerTypeOK
<1>2. CASE UNCHANGED <<docVars, syncVars>>
  BY <1>2, FrameType
<1>3. CASE RequestCatchUp(a, r) /\ UNCHANGED docVars
  BY <1>1, <1>3, FrameType, RequestType
<1>4. CASE IngestOrdered(a, r) /\ UNCHANGED syncVars
  <2>1. DocTypeOK'
    BY <1>1, <1>4, IngestType DEF TypeOK, LinkTypeOK
  <2> QED BY <1>4, <2>1, FrameType
<1> QED BY <1>2, <1>3, <1>4 DEF HandleServerOp

\* Posting the head.
LEMMA PumpLoopType ==
  ASSUME TypeOK, NEW a \in Actors, PumpLoop(a)
  PROVE  TypeOK'
<1>1. ServerTypeOK' /\ SyncTypeOK' /\ LinkTypeOK' /\ LogGrows
  BY FrameType DEF PumpLoop
<1>2. CASE pump' = [pump EXCEPT ![a] = "exit"] /\ UNCHANGED <<pending, post>>
  <2>1. DocTypeOK'
    BY <1>2 DEF PumpLoop, TypeOK, DocTypeOK
  <2>2. PumpTypeOK'
    BY <1>1, <1>2, PumpMovesType
  <2> QED BY <1>1, <2>1, <2>2 DEF TypeOK
<1>3. ASSUME NEW h \in pending[a],
             pending' = [pending EXCEPT ![a] = (pending[a] \ {h}) \cup {Attempted(h, rev[a])}],
             post' = [post EXCEPT ![a] = [req |-> Request(a, h), reply |-> None]],
             pump' = [pump EXCEPT ![a] = "posting"]
      PROVE  TypeOK'
  <2>1. h \in Entry /\ rev[a] \in Nat
    BY DEF TypeOK, DocTypeOK
  <2>2. Attempted(h, rev[a]) \in Entry
    <3> DEFINE more == h.attempts \cup {[gen |-> h.gen, base |-> rev[a], val |-> h.val]}
    <3>1. more \in SUBSET Attempt
      BY <2>1 DEF Entry, Attempt
    <3>2. Attempted(h, rev[a]) = h \/ Attempted(h, rev[a]) = [h EXCEPT !.attempts = more]
      BY DEF Attempted
    <3> HIDE DEF more
    <3> QED BY <2>1, <3>1, <3>2 DEF Entry
  <2>3. Request(a, h) \in Post
    BY <2>1 DEF Request, Post, Entry, Command
  <2> DEFINE p == [req |-> Request(a, h), reply |-> None]
  <2>4. p \in Exchange /\ p.reply = None
    BY <2>3 DEF Exchange
  <2> HIDE DEF p
  <2>5. ASSUME NEW b \in Actors, pump'[b] = "posting"
        PROVE  /\ post'[b] \in Exchange
               /\ (post'[b].reply # None /\ post'[b].reply.kind = "accepted")
                    => post'[b].reply.rev \in 1 .. Len(log)
    <3>1. CASE b = a
      BY <1>3, <2>4, <3>1 DEF TypeOK, PumpTypeOK, p
    <3>2. CASE b # a
      BY <1>3, <2>5, <3>2 DEF TypeOK, PumpTypeOK
    <3> QED BY <3>1, <3>2
  <2>6. PumpTypeOK'
    BY <1>3, <2>4, <2>5 DEF TypeOK, PumpTypeOK, PumpLoop, serverVars, p
  <2>7. DocTypeOK'
    BY <1>3, <2>2 DEF TypeOK, DocTypeOK, PumpLoop
  <2> QED BY <1>1, <2>6, <2>7 DEF TypeOK
<1> QED BY <1>2, <1>3 DEF PumpLoop

\* The pump's other steps.
LEMMA PumpStepType ==
  ASSUME TypeOK, NEW a \in Actors, PumpStep(a)
  PROVE  TypeOK'
<1> USE DEF TypeOK
<1>1. CASE PumpFinally(a)
  <2>1. PumpTypeOK'
    BY <1>1, FrameType, PumpMovesType DEF PumpFinally
  <2> QED BY <1>1, <2>1, FrameType DEF PumpFinally
<1>2. CASE RetryDelayEnds(a)
  <2>1. PumpTypeOK'
    BY <1>2, FrameType, PumpMovesType DEF RetryDelayEnds
  <2> QED BY <1>2, <2>1, FrameType DEF RetryDelayEnds
<1>3. CASE ReplyTooLate(a)
  <2>1. PumpTypeOK'
    BY <1>3, PumpToType DEF ReplyTooLate, serverVars
  <2> QED BY <1>3, <2>1, FrameType DEF ReplyTooLate
<1>4. CASE ReplyAccepted(a)
  <2>1. post[a].reply.rev \in 1 .. Len(log)
    BY <1>4 DEF ReplyAccepted, Answered, PumpTypeOK
  <2>2. DocTypeOK' /\ SyncTypeOK'
    BY <1>4, <2>1, HandleType DEF ReplyAccepted
  <2>3. PumpTypeOK'
    BY <1>4, PumpToType DEF ReplyAccepted, serverVars
  <2> QED BY <1>4, <2>2, <2>3, FrameType DEF ReplyAccepted
<1>5. CASE ReplyStaleBase(a)
  <2>1. post[a] \in Exchange /\ post[a].reply # None
    BY <1>5 DEF ReplyStaleBase, Answered, PumpTypeOK
  <2>2. post[a].reply.rev \in Nat
    BY <2>1 DEF Exchange, Reply
  <2>3. SyncTypeOK'
    BY <1>5, <2>2, FrameType, RequestType DEF ReplyStaleBase
  <2>4. PumpTypeOK'
    BY <1>5, PumpToType DEF ReplyStaleBase, serverVars
  <2> QED BY <1>5, <2>3, <2>4, FrameType DEF ReplyStaleBase
<1>6. CASE ReplySnapshotRequired(a)
  <2>1. [rev |-> rev[a], doc |-> confirmed[a]] \in Checkpoint
    BY DEF Checkpoint, DocTypeOK
  <2>2. LinkTypeOK'
    BY <1>6, <2>1 DEF ReplySnapshotRequired, ConfirmedPair, LinkTypeOK, streamVars
  <2>3. PumpTypeOK'
    BY <1>6, PumpToType DEF ReplySnapshotRequired, serverVars
  <2> QED BY <1>6, <2>2, <2>3, FrameType DEF ReplySnapshotRequired
<1>7. CASE PumpLoop(a)
  BY <1>7, PumpLoopType
<1> QED BY <1>1, <1>2, <1>3, <1>4, <1>5, <1>6, <1>7 DEF PumpStep

\* The resync snapshot.
LEMMA AdoptType ==
  ASSUME TypeOK, NEW a \in Actors, AdoptSnapshot(a)
  PROVE  TypeOK'
<1> USE DEF TypeOK
<1> DEFINE snap == sync[a].reply
           dropped == Ambiguous(a, snap.rev)
<1>1. snap \in SnapshotReply
  BY DEF AdoptSnapshot, Fetched, SyncTypeOK
<1>2. snap.rev \in Nat /\ snap.doc \in Doc
  BY <1>1 DEF SnapshotReply
<1>3. Rebase(a, snap.doc, snap.rev, dropped, {e.n : e \in dropped}, {}, {})
  BY DEF AdoptSnapshot
<1>4. {e.n : e \in dropped} \in SUBSET Nat
  BY DEF Ambiguous, DocTypeOK, Entry
<1>5. retired' \in [Actors -> SUBSET Nat] /\ minted \in [Actors -> Nat]
  BY DEF AdoptSnapshot, DocTypeOK, LinkTypeOK
<1>6. target' \in [Actors -> Nat]
  <2>1. target' = [target EXCEPT ![a] = Max({target[a], rev[a], snap.rev})]
    BY DEF AdoptSnapshot
  <2>2. target[a] \in Nat /\ rev[a] \in Nat
    BY DEF SyncTypeOK, DocTypeOK
  <2> HIDE DEF snap
  <2>3. \E x \in {target[a], rev[a], snap.rev} :
          \A y \in {target[a], rev[a], snap.rev} : x >= y
    BY <1>2, <2>2
  <2>4. Max({target[a], rev[a], snap.rev}) \in {target[a], rev[a], snap.rev}
    BY <2>3 DEF Max
  <2>5. Max({target[a], rev[a], snap.rev}) \in Nat
    BY <1>2, <2>2, <2>4
  <2> QED BY <2>1, <2>5 DEF SyncTypeOK
<1> HIDE DEF dropped, snap
<1>7. DocTypeOK'
  BY <1>2, <1>3, <1>4, <1>5, RebaseType
<1>8. SyncTypeOK'
  <2>1. At("loop") \in SyncState /\ At("loop").pc = "loop" /\ At("loop").last = 0
    BY AtType DEF Stage
  <2>2. 0 <= Len(log)
    BY LenProperties DEF ServerTypeOK
  <2>3. /\ sync' = [sync EXCEPT ![a] = At("loop")] /\ UNCHANGED serverVars
        /\ status' \in [Actors -> {"live", "catching-up", "closed", "error"}]
        /\ resync' \in [Actors -> BOOLEAN]
    BY DEF AdoptSnapshot, SyncTo, SyncTypeOK
  <2> QED BY <1>6, <2>1, <2>2, <2>3, SyncToType
<1>9. ServerTypeOK' /\ PumpTypeOK' /\ LinkTypeOK'
  BY FrameType DEF AdoptSnapshot
<1> QED BY <1>7, <1>8, <1>9

\* The loop is at pc, afresh.
LEMMA SyncAtType ==
  ASSUME TypeOK, NEW a \in Actors, NEW pc \in Stage, SyncTo(a, At(pc)),
         UNCHANGED serverVars,
         status' \in [Actors -> {"live", "catching-up", "closed", "error"}],
         target' \in [Actors -> Nat], resync' \in [Actors -> BOOLEAN]
  PROVE  SyncTypeOK'
<1>1. At(pc) \in SyncState /\ At(pc).reply = None /\ At(pc).last = 0
  BY AtType
<1>2. 0 <= Len(log)
  BY LenProperties DEF TypeOK, ServerTypeOK
<1>3. sync' = [sync EXCEPT ![a] = At(pc)]
  BY DEF SyncTo
<1> QED BY <1>1, <1>2, <1>3, SyncToType

\* A page is worked off op by op.
LEMMA PageStepType ==
  ASSUME TypeOK, NEW a \in Actors, PageStep(a)
  PROVE  TypeOK'
<1> USE DEF TypeOK
<1>1. /\ UNCHANGED serverVars /\ status' \in [Actors -> {"live", "catching-up", "closed", "error"}]
      /\ target' \in [Actors -> Nat] /\ resync' \in [Actors -> BOOLEAN]
  BY DEF PageStep, SyncTypeOK
<1>2. ServerTypeOK' /\ PumpTypeOK' /\ LinkTypeOK'
  BY FrameType DEF PageStep
<1>3. /\ sync[a] \in SyncState /\ sync[a].pc = "page" /\ sync[a].last <= Len(log)
      /\ sync[a].next \in Nat /\ sync[a].last \in Nat /\ Len(log) \in Nat
  BY LenProperties DEF PageStep, SyncTypeOK, SyncState, ServerTypeOK
<1>4. CASE /\ sync[a].next <= sync[a].last /\ UNCHANGED docVars
           /\ SyncTo(a, [sync[a] EXCEPT !.next = @ + 1])
  <2> DEFINE s == [sync[a] EXCEPT !.next = sync[a].next + 1]
  <2>1. s \in SyncState /\ s.last = sync[a].last /\ s.pc = "page"
    BY <1>3 DEF SyncState
  <2>2. sync' = [sync EXCEPT ![a] = s]
    BY <1>4 DEF SyncTo
  <2> HIDE DEF s
  <2>3. SyncTypeOK'
    BY <1>1, <1>3, <2>1, <2>2, SyncToType
  <2> QED BY <1>2, <1>4, <2>3, FrameType
<1>5. CASE /\ sync[a].next <= sync[a].last /\ IngestOrdered(a, sync[a].next)
           /\ SyncTo(a, [sync[a] EXCEPT !.next = @ + 1, !.progressed = TRUE])
  <2> DEFINE s == [sync[a] EXCEPT !.next = sync[a].next + 1, !.progressed = TRUE]
  <2> DEFINE t == [sync[a] EXCEPT !.progressed = TRUE]
  <2>0. t \in SyncState /\ t.last = sync[a].last /\ t.pc = "page" /\ t.next = sync[a].next
    BY <1>3 DEF SyncState
  <2>1. s \in SyncState /\ s.last = sync[a].last /\ s.pc = "page"
    <3>1. s = [t EXCEPT !.next = sync[a].next + 1]
      BY <1>3 DEF SyncState
    <3> HIDE DEF t, s
    <3> QED BY <1>3, <2>0, <3>1 DEF SyncState
  <2>2. sync' = [sync EXCEPT ![a] = s]
    BY <1>5 DEF SyncTo
  <2> HIDE DEF s
  <2>3. SyncTypeOK'
    BY <1>1, <1>3, <2>1, <2>2, SyncToType
  <2>4. sync[a].next \in DOMAIN log
    <3>1. sync[a].next = rev[a] + 1 /\ rev[a] \in Nat
      BY <1>5 DEF IngestOrdered, DocTypeOK
    <3>2. DOMAIN log = 1 .. Len(log)
      BY LenProperties DEF ServerTypeOK
    <3> QED BY <1>3, <1>5, <3>1, <3>2
  <2>5. DocTypeOK'
    BY <1>5, <2>4, IngestType DEF LinkTypeOK
  <2> QED BY <1>2, <2>3, <2>5
<1>6. CASE /\ UNCHANGED docVars
           /\ SyncTo(a, At(IF sync[a].progressed \/ rev[a] >= target[a] THEN "loop" ELSE "delay"))
  <2>1. SyncTypeOK'
    BY <1>1, <1>6, SyncAtType DEF Stage
  <2> QED BY <1>2, <1>6, <2>1, FrameType
<1> QED BY <1>4, <1>5, <1>6 DEF PageStep

\* The sync loop's other steps.
LEMMA SyncStepType ==
  ASSUME TypeOK, NEW a \in Actors, SyncStep(a)
  PROVE  TypeOK'
<1> USE DEF TypeOK
<1>0. TRUE \in BOOLEAN /\ FALSE \in BOOLEAN
  OBVIOUS
<1>1. CASE SyncLoop(a)
  <2>1. CASE SyncTo(a, [At("ops") EXCEPT !.next = rev[a] + 1]) /\ UNCHANGED resync
    <3> DEFINE s == [At("ops") EXCEPT !.next = rev[a] + 1]
    <3>1. rev[a] + 1 \in Nat /\ Len(log) \in Nat
      BY LenProperties DEF DocTypeOK, ServerTypeOK
    <3>2. s \in SyncState /\ s.last = 0 /\ s.pc = "ops"
      BY <3>1, AtType DEF Stage, SyncState
    <3>3. sync' = [sync EXCEPT ![a] = s]
      BY <2>1 DEF SyncTo
    <3> HIDE DEF s
    <3>4. /\ UNCHANGED serverVars /\ target' \in [Actors -> Nat]
          /\ status' \in [Actors -> {"live", "catching-up", "closed", "error"}]
          /\ resync' \in [Actors -> BOOLEAN]
      BY <1>1, <2>1 DEF SyncLoop, SyncTypeOK
    <3>5. s.last <= Len(log)
      BY <3>1, <3>2
    <3>6. SyncTypeOK'
      BY <3>2, <3>3, <3>4, <3>5, SyncToType
    <3> QED BY <1>1, <3>6, FrameType DEF SyncLoop
  <2>2. CASE SyncTo(a, At("snapshot")) /\ resync' = [resync EXCEPT ![a] = FALSE]
    <3>1. SyncTypeOK'
      BY <1>1, <2>2, SyncAtType DEF SyncLoop, SyncTypeOK, Stage
    <3> QED BY <1>1, <3>1, FrameType DEF SyncLoop
  <2>3. CASE SyncTo(a, At("exit")) /\ UNCHANGED resync
    <3>1. SyncTypeOK'
      BY <1>1, <2>3, SyncAtType DEF SyncLoop, SyncTypeOK, Stage
    <3> QED BY <1>1, <3>1, FrameType DEF SyncLoop
  <2> QED BY <1>1, <2>1, <2>2, <2>3 DEF SyncLoop
<1>2. CASE FetchTooLate(a) \/ PageCut(a)
  <2>1. SyncTypeOK'
    BY <1>2, SyncAtType DEF FetchTooLate, PageCut, SyncTypeOK, Stage
  <2> QED BY <1>2, <2>1, FrameType DEF FetchTooLate, PageCut
<1>3. CASE OpsArrive(a)
  <2>1. CASE SyncTo(a, [sync[a] EXCEPT !.pc = "page"]) /\ UNCHANGED resync
    <3> DEFINE s == [sync[a] EXCEPT !.pc = "page"]
    <3>1. s \in SyncState /\ s.last <= Len(log) /\ s.pc = "page"
      BY DEF SyncTypeOK, SyncState
    <3>2. sync' = [sync EXCEPT ![a] = s]
      BY <2>1 DEF SyncTo
    <3> HIDE DEF s
    <3>3. SyncTypeOK'
      BY <1>3, <2>1, <3>1, <3>2, SyncToType DEF OpsArrive, SyncTypeOK
    <3> QED BY <1>3, <3>3, FrameType DEF OpsArrive
  <2>2. CASE SyncTo(a, At("loop")) /\ (UNCHANGED resync \/ resync' = [resync EXCEPT ![a] = TRUE])
    <3>1. SyncTypeOK'
      BY <1>3, <2>2, SyncAtType DEF OpsArrive, SyncTypeOK, Stage
    <3> QED BY <1>3, <3>1, FrameType DEF OpsArrive
  <2> QED BY <1>3, <2>1, <2>2 DEF OpsArrive
<1>4. CASE SyncDelayEnds(a)
  <2>1. SyncTypeOK'
    BY <1>4, SyncAtType DEF SyncDelayEnds, SyncTypeOK, Stage
  <2> QED BY <1>4, <2>1, FrameType DEF SyncDelayEnds
<1>5. CASE SyncFinally(a)
  <2>1. SyncTypeOK'
    BY <1>5, SyncAtType DEF SyncFinally, SyncTypeOK, Stage
  <2>2. LogGrows
    BY <1>5, FrameType DEF SyncFinally
  <2>3. PumpTypeOK'
    <3>1. CASE UNCHANGED pump
      BY <1>5, <2>2, <3>1, FrameType DEF SyncFinally, pumpVars
    <3>2. CASE WakePump(a)
      BY <1>5, <2>2, <3>2, WakeType DEF SyncFinally
    <3>3. pump' = [pump EXCEPT ![a] = pump[a]] \/ WakePump(a)
      BY <1>5 DEF SyncFinally, WakePump
    <3> QED BY <3>1, <3>2, <3>3 DEF PumpTypeOK
  <2> QED BY <1>5, <2>1, <2>3, FrameType DEF SyncFinally
<1> QED BY <1>1, <1>2, <1>3, <1>4, <1>5, AdoptType, PageStepType DEF SyncStep

\* The event stream.
LEMMA StreamType ==
  ASSUME TypeOK, NEW a \in Actors, StreamStep(a) \/ SkipOwnOp(a)
  PROVE  TypeOK'
<1> USE DEF TypeOK
<1>1. Len(log) \in Nat /\ sent[a] \in Nat
  BY LenProperties DEF ServerTypeOK, LinkTypeOK
<1>2. CASE Connect(a)
  <2>1. LinkTypeOK'
    BY <1>1, <1>2 DEF Connect, LinkTypeOK
  <2>2. SyncTypeOK'
    BY <1>1, <1>2, FrameType, RequestType DEF Connect
  <2> QED BY <1>2, <2>1, <2>2, FrameType DEF Connect
<1>3. CASE SkipOwnOp(a)
  <2>1. LinkTypeOK'
    BY <1>1, <1>3 DEF SkipOwnOp, NextFrame, LinkTypeOK
  <2> QED BY <1>3, <2>1, FrameType DEF SkipOwnOp
<1>4. CASE DeliverOp(a)
  <2>1. LinkTypeOK'
    BY <1>1, <1>4 DEF DeliverOp, NextFrame, LinkTypeOK
  <2>2. sent[a] + 1 \in 1 .. Len(log)
    BY <1>1, <1>4 DEF DeliverOp, NextFrame
  <2>3. DocTypeOK' /\ SyncTypeOK'
    BY <1>4, <2>2, HandleType DEF DeliverOp
  <2>4. PumpTypeOK'
    <3>1. CASE WakePump(a)
      BY <1>4, <3>1, FrameType, WakeType DEF DeliverOp
    <3>2. CASE UNCHANGED pump
      BY <1>4, <3>2, FrameType DEF DeliverOp, pumpVars
    <3> QED BY <1>4, <3>1, <3>2 DEF DeliverOp
  <2> QED BY <1>4, <2>1, <2>3, <2>4, FrameType DEF DeliverOp
<1> QED BY <1>2, <1>3, <1>4 DEF StreamStep

-----------------------------------------------------------------------------
(* Checkpoints *)

LEMMA ConfirmedPairType ==
  ASSUME DocTypeOK, NEW a \in Actors
  PROVE  ConfirmedPair(a) \in Checkpoint
BY DEF ConfirmedPair, DocTypeOK, Checkpoint

LEMMA PublicationType ==
  ASSUME TypeOK, NEW a \in Actors, Publish(a) \/ PutEnds(a) \/ PutFails(a)
  PROVE  TypeOK'
<1> USE DEF TypeOK
<1>1. CASE Publish(a)
  <2>1. LinkTypeOK'
    BY <1>1, ConfirmedPairType DEF Publish, LinkTypeOK, streamVars
  <2> QED BY <1>1, <2>1, FrameType DEF Publish
<1>2. CASE PutEnds(a)
  <2>1. LinkTypeOK'
    BY <1>2 DEF PutEnds, LinkTypeOK, streamVars
  <2>2. ServerTypeOK' /\ LogGrows
    BY <1>2, LenProperties DEF PutEnds, ServerTypeOK, LinkTypeOK, LogGrows
  <2>3. PumpTypeOK'
    <3>1. \/ pump' = [pump EXCEPT ![a] = "loop"] \/ pump' = [pump EXCEPT ![a] = "delay"]
          \/ pump' = pump
      BY <1>2 DEF PutEnds, PumpTypeOK
    <3> QED BY <1>2, <2>2, <3>1, PumpMovesType DEF PutEnds
  <2> QED BY <1>2, <2>1, <2>2, <2>3, FrameType DEF PutEnds
<1>3. CASE PutFails(a)
  <2>1. LinkTypeOK'
    BY <1>3 DEF PutFails, Fault, LinkTypeOK, streamVars
  <2>2. PumpTypeOK'
    <3>1. pump' = [pump EXCEPT ![a] = "delay"] \/ pump' = pump
      BY <1>3 DEF PutFails, PumpTypeOK
    <3> QED BY <1>3, <3>1, FrameType, PumpMovesType DEF PutFails
  <2> QED BY <1>3, <2>1, <2>2, FrameType DEF PutFails
<1> QED BY <1>1, <1>2, <1>3

-----------------------------------------------------------------------------
(* Faults *)

LEMMA FaultType ==
  ASSUME TypeOK, NEW a \in Actors, FaultStep(a)
  PROVE  TypeOK'
<1> USE DEF TypeOK
<1>0. /\ Len(log) \in Nat /\ sent[a] \in Nat /\ faults + 1 \in Nat
      /\ 0 <= Len(log) /\ sent[a] + 1 \in Nat
  BY LenProperties DEF ServerTypeOK, LinkTypeOK
<1>1. CASE ReplyMangled(a)
  <2>1. post[a].reply.rev \in 1 .. Len(log)
    BY <1>1 DEF ReplyMangled, Answered, PumpTypeOK
  <2>2. SyncTypeOK'
    BY <1>1, <2>1, RequestType DEF ReplyMangled
  <2>3. PumpTypeOK'
    BY <1>1, PumpToType DEF ReplyMangled, serverVars
  <2>4. LinkTypeOK'
    BY <1>0, <1>1 DEF ReplyMangled, Fault, LinkTypeOK, streamVars
  <2> QED BY <1>1, <2>2, <2>3, <2>4, FrameType DEF ReplyMangled
<1>2. CASE PostDenied(a)
  <2>1. SyncTypeOK'
    BY <1>2 DEF PostDenied, SyncTypeOK, serverVars
  <2>2. PumpTypeOK'
    BY <1>2, PumpToType DEF PostDenied, serverVars
  <2>3. LinkTypeOK'
    BY <1>0, <1>2 DEF PostDenied, Fault, LinkTypeOK, streamVars
  <2> QED BY <1>2, <2>1, <2>2, <2>3, FrameType DEF PostDenied
<1>3. CASE PostFails(a)
  <2>1. post[a].req \in Post
    BY <1>3 DEF PostFails, PumpTypeOK, Exchange
  <2>2. ServerTypeOK' /\ LogGrows
    BY <1>0, <1>3, <2>1 DEF PostFails, ServerTypeOK, LogGrows
  <2>3. PumpTypeOK'
    BY <1>3, PumpToType DEF PostFails
  <2>4. LinkTypeOK'
    BY <1>0, <1>3 DEF PostFails, Fault, LinkTypeOK, streamVars
  <2> QED BY <1>3, <2>2, <2>3, <2>4, FrameType DEF PostFails
<1>4. CASE FetchFails(a) \/ PageRejected(a)
  <2>1. LinkTypeOK'
    BY <1>0, <1>4 DEF FetchFails, PageRejected, Fault, LinkTypeOK, streamVars
  <2>2. /\ UNCHANGED serverVars /\ resync' \in [Actors -> BOOLEAN]
        /\ status' \in [Actors -> {"live", "catching-up", "closed", "error"}]
    BY <1>4 DEF FetchFails, PageRejected, SyncTypeOK
  <2>3. target' \in [Actors -> Nat]
    BY <1>4 DEF FetchFails, PageRejected, RaiseTarget, SyncTypeOK, SyncState
  <2>4. SyncTypeOK'
    BY <1>4, <2>2, <2>3, SyncAtType DEF FetchFails, PageRejected, Stage
  <2> QED BY <1>4, <2>1, <2>4, FrameType DEF FetchFails, PageRejected
<1>5. CASE RejectFrame(a)
  <2>1. LinkTypeOK'
    BY <1>0, <1>5 DEF RejectFrame, NextFrame, Fault, LinkTypeOK
  <2>2. target' \in [Actors -> Nat] /\ resync' \in [Actors -> BOOLEAN]
    BY <1>0, <1>5 DEF RejectFrame, RaiseTarget, SyncTypeOK
  <2>3. SyncTypeOK'
    BY <1>5, <2>2, StartSyncType DEF RejectFrame
  <2> QED BY <1>5, <2>1, <2>3, FrameType DEF RejectFrame
<1>6. CASE Disconnect(a)
  <2>1. LinkTypeOK'
    BY <1>0, <1>6 DEF Disconnect, Fault, LinkTypeOK
  <2> QED BY <1>6, <2>1, FrameType DEF Disconnect
<1>7. CASE PutFails(a)
  BY <1>7, PublicationType
<1>8. CASE ConnectRefused(a)
  <2>1. SyncTypeOK'
    BY <1>8 DEF ConnectRefused, SyncTypeOK, serverVars
  <2>2. LinkTypeOK'
    BY <1>0, <1>8 DEF ConnectRefused, Fault, LinkTypeOK, streamVars
  <2> QED BY <1>8, <2>1, <2>2, FrameType DEF ConnectRefused
<1> QED BY <1>1, <1>2, <1>3, <1>4, <1>5, <1>6, <1>7, <1>8 DEF FaultStep

-----------------------------------------------------------------------------
(* The authority *)

LEMMA DocAtType ==
  ASSUME ServerTypeOK
  PROVE  DocAt(Len(log)) \in Doc
<1>1. CASE Len(log) = 0
  BY <1>1, SessionAssumption DEF DocAt
<1>2. CASE Len(log) # 0
  <2>1. Len(log) \in 1 .. Len(log)
    BY <1>2, LenProperties DEF ServerTypeOK
  <2>2. log[Len(log)] \in LogOp
    BY <2>1, ElementOfSeq DEF ServerTypeOK
  <2> QED BY <1>2, <2>2 DEF DocAt, LogOp
<1> QED BY <1>1, <1>2

\* What the authority appends is an op.
LEMMA LoggedType ==
  ASSUME ServerTypeOK, NEW r, r.actor \in Actors \cup {None}, r.n \in Nat \ {0}, r.gen \in Nat,
         r.base \in Nat, r.key \in Keys, r.val \in Val
  PROVE  Logged(r) \in Seq(LogOp) /\ Len(Logged(r)) = Len(log) + 1
<1>1. DocAt(Len(log)) \in Doc
  BY DocAtType
<1>2. Write(DocAt(Len(log)), r) \in Doc
  BY <1>1, WriteType
<1>3. [actor |-> r.actor, n |-> r.n, gen |-> r.gen, base |-> r.base, key |-> r.key,
       val |-> r.val, doc |-> Write(DocAt(Len(log)), r)] \in LogOp
  BY <1>2 DEF LogOp
<1> QED BY <1>3, AppendProperties DEF Logged, ServerTypeOK

\* The authority answers within its vocabulary, and an accepted post names a
\* revision of the log as it is then.
LEMMA PostOpType ==
  ASSUME ServerTypeOK, NEW r \in Post, PostOp(r)
  PROVE  /\ log' \in Seq(LogOp) /\ LogGrows
         /\ Verdict(r) \in Reply
         /\ Verdict(r).kind = "accepted" => Verdict(r).rev \in 1 .. Len(log')
<1>1. Len(log) \in Nat /\ DOMAIN log = 1 .. Len(log)
  BY LenProperties DEF ServerTypeOK
<1>2. Logged(r) \in Seq(LogOp) /\ Len(Logged(r)) = Len(log) + 1
  BY LoggedType DEF Post
<1>3. log' \in Seq(LogOp) /\ LogGrows
  BY <1>1, <1>2 DEF PostOp, ServerTypeOK, LogGrows
<1>4. CASE Duplicates(r) # {}
  <2> DEFINE i == CHOOSE i \in Duplicates(r) : TRUE
  <2>1. i \in 1 .. Len(log)
    BY <1>1, <1>4 DEF Duplicates
  <2>2. Verdict(r) = [kind |-> "accepted", rev |-> i]
    BY <1>4 DEF Verdict
  <2> HIDE DEF i
  <2> QED BY <1>1, <1>3, <2>1, <2>2 DEF Reply, LogGrows
<1>5. CASE Duplicates(r) = {}
  <2>1. \/ Verdict(r) = [kind |-> "stale-base", rev |-> Len(log)]
        \/ Verdict(r) = [kind |-> "snapshot-required", rev |-> Len(log)]
        \/ Verdict(r) = [kind |-> "accepted", rev |-> Len(log) + 1]
    BY <1>5 DEF Verdict
  <2>2. CASE Verdict(r) = [kind |-> "accepted", rev |-> Len(log) + 1]
    BY <1>1, <1>2, <1>3, <2>2 DEF PostOp, Reply
  <2> QED BY <1>1, <1>3, <2>1, <2>2 DEF Reply
<1> QED BY <1>3, <1>4, <1>5

LEMMA ServeType ==
  ASSUME TypeOK, NEW a \in Actors, ServeStep(a)
  PROVE  TypeOK'
<1> USE DEF TypeOK
<1>0. Len(log) \in Nat /\ 0 <= Len(log)
  BY LenProperties DEF ServerTypeOK
<1>1. CASE ServePost(a)
  <2> DEFINE req == post[a].req
  <2>1. post[a] \in Exchange /\ req \in Post /\ PostOp(req)
    BY <1>1 DEF ServePost, PumpTypeOK, Exchange
  <2>2. /\ log' \in Seq(LogOp) /\ LogGrows /\ Verdict(req) \in Reply
        /\ Verdict(req).kind = "accepted" => Verdict(req).rev \in 1 .. Len(log')
    BY <2>1, PostOpType
  <2>3. ServerTypeOK'
    BY <1>1, <2>2 DEF ServePost, ServerTypeOK
  <2> DEFINE x == [post[a] EXCEPT !.reply = Verdict(req)]
  <2>4. x \in Exchange /\ x.reply = Verdict(req) /\ post' = [post EXCEPT ![a] = x]
    BY <1>1, <2>1, <2>2 DEF ServePost, Exchange
  <2> HIDE DEF x, req
  <2>5. ASSUME NEW b \in Actors, pump'[b] = "posting"
        PROVE  /\ post'[b] \in Exchange
               /\ (post'[b].reply # None /\ post'[b].reply.kind = "accepted")
                    => post'[b].reply.rev \in 1 .. Len(log')
    <3>1. CASE b = a
      BY <2>2, <2>4, <3>1 DEF PumpTypeOK
    <3>2. CASE b # a
      <4>1. pump[b] = "posting" /\ post'[b] = post[b]
        BY <1>1, <2>4, <2>5, <3>2 DEF ServePost, PumpTypeOK
      <4> QED BY <1>0, <2>2, <4>1 DEF PumpTypeOK, LogGrows
    <3> QED BY <3>1, <3>2
  <2>6. PumpTypeOK'
    BY <1>1, <2>4, <2>5 DEF ServePost, PumpTypeOK
  <2> QED BY <1>1, <2>2, <2>3, <2>6, FrameType DEF ServePost
<1>2. CASE ServeSnapshot(a)
  <2> DEFINE r == [kind |-> "snapshot", rev |-> checkpoint.rev, doc |-> checkpoint.doc]
             s == [sync[a] EXCEPT !.reply = r]
  <2>1. r \in SnapshotReply
    BY DEF ServerTypeOK, Checkpoint, SnapshotReply
  <2>2. sync' = [sync EXCEPT ![a] = s]
    BY <1>2 DEF ServeSnapshot, SyncTo
  <2> HIDE DEF r
  <2>3. s \in SyncState /\ s.last <= Len(log) /\ s.reply \in SnapshotReply
    BY <2>1 DEF SyncTypeOK, SyncState
  <2> HIDE DEF s
  <2>4. SyncTypeOK'
    BY <1>2, <2>2, <2>3, SyncToType DEF ServeSnapshot, SyncTypeOK
  <2> QED BY <1>2, <2>4, FrameType DEF ServeSnapshot
<1>3. CASE ServeOps(a)
  <2>1. LinkTypeOK'
    <3>1. UNCHANGED faults \/ Fault("short")
      BY <1>3, Zenon DEF ServeOps
    <3>2. faults' \in Nat
      BY <3>1 DEF Fault, LinkTypeOK
    <3> QED BY <1>3, <3>2 DEF ServeOps, LinkTypeOK, streamVars
  <2>2. SyncTypeOK'
    <3>1. CASE SyncTo(a, [sync[a] EXCEPT !.reply = [kind |-> "resync-required"]])
      <4> DEFINE r == [kind |-> "resync-required"]
                 s == [sync[a] EXCEPT !.reply = r]
      <4>1. r \in OpsReply
        BY DEF OpsReply
      <4>2. sync' = [sync EXCEPT ![a] = s]
        BY <3>1 DEF SyncTo
      <4> HIDE DEF r
      <4>3. s \in SyncState /\ s.last <= Len(log) /\ s.pc = "ops"
        BY <1>3, <4>1 DEF ServeOps, SyncTypeOK, SyncState
      <4> HIDE DEF s
      <4> QED BY <1>3, <4>2, <4>3, SyncToType DEF ServeOps, SyncTypeOK
    <3>2. ASSUME NEW last \in sync[a].next - 1 .. Len(log), sync[a].next > floor,
                 SyncTo(a, [sync[a] EXCEPT !.reply = [kind |-> "ops"], !.last = last])
          PROVE  SyncTypeOK'
      <4> DEFINE r == [kind |-> "ops"]
                 s == [sync[a] EXCEPT !.reply = r, !.last = last]
      <4>1. r \in OpsReply
        BY DEF OpsReply
      <4>2. sync' = [sync EXCEPT ![a] = s]
        BY <3>2 DEF SyncTo
      <4>3. last \in Nat /\ last <= Len(log)
        BY <1>0, <3>2 DEF SyncTypeOK, SyncState, ServerTypeOK
      <4> HIDE DEF r
      <4>4. s \in SyncState /\ s.last <= Len(log) /\ s.pc = "ops"
        BY <1>3, <4>1, <4>3 DEF ServeOps, SyncTypeOK, SyncState
      <4> HIDE DEF s
      <4> QED BY <1>3, <4>2, <4>4, SyncToType DEF ServeOps, SyncTypeOK
    <3>3. sync[a].next \in Nat /\ floor \in Nat
      BY DEF SyncTypeOK, SyncState, ServerTypeOK
    <3>4. CASE sync[a].next <= floor
      BY <1>3, <3>1, <3>4, Zenon DEF ServeOps
    <3>5. CASE ~(sync[a].next <= floor)
      <4>1. sync[a].next > floor
        BY <3>3, <3>5
      <4>2. PICK last \in sync[a].next - 1 .. Len(log) :
              SyncTo(a, [sync[a] EXCEPT !.reply = [kind |-> "ops"], !.last = last])
        BY <1>3, <3>5, Zenon DEF ServeOps
      <4> QED BY <3>2, <4>1, <4>2
    <3> QED BY <3>4, <3>5
  <2> QED BY <1>3, <2>1, <2>2, FrameType DEF ServeOps
<1> QED BY <1>1, <1>2, <1>3 DEF ServeStep

LEMMA OutsideType ==
  ASSUME TypeOK, OutsideStep
  PROVE  TypeOK'
<1> USE DEF TypeOK
<1>0. Len(log) \in Nat /\ 0 <= Len(log)
  BY LenProperties DEF ServerTypeOK
<1>1. CASE ServeLate
  <2>1. PICK r \in late : PostOp(r) /\ late' = late \ {r}
    BY <1>1 DEF ServeLate
  <2>2. r \in Post
    BY DEF ServerTypeOK
  <2>3. log' \in Seq(LogOp) /\ LogGrows
    BY <2>1, <2>2, PostOpType
  <2>4. ServerTypeOK'
    BY <1>1, <2>1, <2>3 DEF ServeLate, ServerTypeOK
  <2> QED BY <1>1, <2>3, <2>4, FrameType DEF ServeLate
<1>2. CASE ForeignCheckpoint \/ Compact
  <2>1. CASE ForeignCheckpoint
    <3>1. DocAt(Len(log)) \in Doc
      BY DocAtType
    <3>2. checkpoint' \in Checkpoint
      BY <1>0, <2>1, <3>1 DEF ForeignCheckpoint, Checkpoint
    <3>3. ServerTypeOK' /\ LogGrows
      BY <1>0, <2>1, <3>2 DEF ForeignCheckpoint, ServerTypeOK, LogGrows
    <3> QED BY <2>1, <3>3, FrameType DEF ForeignCheckpoint
  <2>2. CASE Compact
    <3>1. ServerTypeOK' /\ LogGrows
      BY <1>0, <2>2 DEF Compact, ServerTypeOK, Checkpoint, LogGrows
    <3> QED BY <2>2, <3>1, FrameType DEF Compact
  <2> QED BY <1>2, <2>1, <2>2
<1>3. ASSUME NEW k \in Keys, NEW v \in Val, ForeignOp(k, v) PROVE TypeOK'
  <2> DEFINE r == [actor |-> None, n |-> Len(log) + 1, gen |-> 1,
                   base |-> Len(log), key |-> k, val |-> v]
  <2>1. /\ r.actor \in Actors \cup {None} /\ r.n \in Nat \ {0} /\ r.gen \in Nat
        /\ r.base \in Nat /\ r.key \in Keys /\ r.val \in Val
    BY <1>0
  <2>2. log' = Logged(r)
    BY <1>3 DEF ForeignOp
  <2> HIDE DEF r
  <2>3. Logged(r) \in Seq(LogOp) /\ Len(Logged(r)) = Len(log) + 1
    BY <2>1, LoggedType
  <2>4. ServerTypeOK' /\ LogGrows
    BY <1>0, <1>3, <2>2, <2>3 DEF ForeignOp, ServerTypeOK, LogGrows
  <2> QED BY <1>3, <2>4, FrameType DEF ForeignOp
<1> QED BY <1>1, <1>2, <1>3 DEF OutsideStep

-----------------------------------------------------------------------------
(* The theorem *)

LEMMA InitType == Init => TypeOK
<1> SUFFICES ASSUME Init PROVE TypeOK
  OBVIOUS
<1>1. ServerTypeOK
  BY SessionAssumption, EmptySeq DEF Init, ServerTypeOK, Checkpoint
<1>2. DocTypeOK
  BY SessionAssumption DEF Init, DocTypeOK
<1>3. SyncTypeOK
  <2>1. NoSync \in SyncState /\ NoSync.pc = "idle" /\ NoSync.last = 0
    BY DEF NoSync, SyncState
  <2>2. Len(log) = 0
    BY DEF Init
  <2> QED BY <2>1, <2>2 DEF Init, SyncTypeOK
<1>4. PumpTypeOK
  BY DEF Init, PumpTypeOK
<1>5. LinkTypeOK
  BY DEF Init, LinkTypeOK
<1> QED BY <1>1, <1>2, <1>3, <1>4, <1>5 DEF TypeOK

LEMMA NextType ==
  ASSUME TypeOK, [Next]_vars
  PROVE  TypeOK'
<1>1. CASE OutsideStep
  BY <1>1, OutsideType
<1>2. ASSUME NEW a \in Actors, SessionStep(a) PROVE TypeOK'
  <2>1. CASE PutEnds(a) \/ Publish(a)
    BY <2>1, PublicationType
  <2>2. CASE UserStep(a) \/ PumpStep(a) \/ SyncStep(a)
    BY <2>2, UserType, PumpStepType, SyncStepType
  <2>3. CASE StreamStep(a) \/ SkipOwnOp(a) \/ FaultStep(a) \/ ServeStep(a)
    BY <2>3, StreamType, FaultType, ServeType
  <2> QED BY <1>2, <2>1, <2>2, <2>3 DEF SessionStep
<1>3. CASE UNCHANGED vars
  BY <1>3, FrameType DEF vars, TypeOK
<1> QED BY <1>1, <1>2, <1>3 DEF Next

\* Whatever the actors, documents, commands, faults and bounds are: every
\* variable keeps its type, a page ends within the log, and an accepted post
\* names an op the log has.
THEOREM TypeCorrect == Spec => []TypeOK
<1>1. Init => TypeOK
  BY InitType
<1>2. TypeOK /\ [Next]_vars => TypeOK'
  BY NextType
<1> QED BY <1>1, <1>2, PTL DEF Spec
=============================================================================
