--------------------------- MODULE SharedSessionOrder ---------------------------
(***************************************************************************)
(* Proof that intentions commit at most once and in the order they were     *)
(* made, that none is shown twice, and that an opId never names two         *)
(* contents, for every value of the constants.                              *)
(***************************************************************************)
EXTENDS SharedSessionDocuments

-----------------------------------------------------------------------------
(* The inductive invariant *)

\* The revisions that ops of a occupy, and the posts of a that may still be
\* served.
Own(a) == {i \in 1 .. Len(log) : log[i].actor = a}

InFlight(a) ==
  {x \in late : x.actor = a} \cup (IF pump[a] = "posting" THEN {post[a].req} ELSE {})

\* What is committed is numbered in the order of the log.
LogOrder ==
  /\ \A i \in 1 .. Len(log) : log[i].actor = None => log[i].n = i
  /\ \A a \in Actors : \A i \in Own(a) :
       log[i].n <= minted[a] /\ \A j \in Own(a) : i < j => log[i].n < log[j].n

\* A post comes after the own ops its base has.
PostOrder(a, x) ==
  /\ x.actor = a /\ x.base <= Len(log) /\ x.n <= minted[a]
  /\ \A i \in Own(a) : i <= x.base => log[i].n < x.n

\* An attempt of e under the identity gen and on the revision base is on record.
Recorded(e, gen, base) == \E t \in e.attempts : t.gen = gen /\ t.base = base

\* An op or a post of intention n, made on the revision base, is earlier than
\* e or is one of its attempts.
Traced(e, n, gen, base) == n < e.n \/ (n = e.n /\ Recorded(e, gen, base))

\* A pending intention comes after everything confirmed, and what the session
\* has not seen yet, or the authority may still accept, is traced.
EntryOrder(a, e) ==
  /\ \A i \in Own(a) :
       IF i <= rev[a] THEN log[i].n < e.n ELSE Traced(e, log[i].n, log[i].gen, i - 1)
  /\ \A x \in InFlight(a) : x.base = Len(log) => Traced(e, x.n, x.gen, x.base)
  /\ \A t \in e.attempts : t.gen <= e.gen /\ (t.gen = e.gen => t.base = rev[a])
  /\ e.attempts # {} => \A f \in pending[a] : e.n <= f.n

SessionOrder(a) ==
  /\ \A x \in InFlight(a) : PostOrder(a, x)
  /\ \A e \in pending[a] : EntryOrder(a, e)

OrderInv == DocsInv /\ LogOrder /\ \A a \in Actors : SessionOrder(a)

-----------------------------------------------------------------------------
(* What the invariant says of types *)

\* The numbers of a session can be compared.
LEMMA SessionNumbers ==
  ASSUME DocsInv, NEW a \in Actors
  PROVE  /\ Len(log) \in Nat /\ rev[a] \in Nat /\ rev[a] <= Len(log) /\ minted[a] \in Nat
         /\ \A i \in 1 .. Len(log) : log[i].n \in Nat /\ log[i].gen \in Nat
         /\ \A i \in Own(a) : i \in Nat /\ log[i].n \in Nat
         /\ \A x \in InFlight(a) : x \in Post /\ x.n \in Nat /\ x.base \in Nat
         /\ \A e \in pending[a] : /\ e \in Entry /\ e.n \in Nat /\ e.gen \in Nat
                                  /\ e.n <= minted[a]
                                  /\ \A f \in pending[a] : f.n = e.n => f = e
<1> USE DEF DocsInv, TypeOK
<1>1. Len(log) \in Nat /\ \A i \in 1 .. Len(log) : log[i] \in LogOp
  BY LenProperties, ElementOfSeq DEF ServerTypeOK
<1>2. \A i \in 1 .. Len(log) : i \in Nat /\ log[i].n \in Nat /\ log[i].gen \in Nat
  BY <1>1 DEF LogOp
<1>3. \A x \in InFlight(a) : x \in Post
  BY DEF InFlight, ServerTypeOK, PumpTypeOK, Exchange
<1>4. rev[a] \in Nat /\ rev[a] <= Len(log) /\ minted[a] \in Nat
  BY <1>1 DEF DocsOK, SessionDocs, DocTypeOK, LinkTypeOK
<1>5. pending[a] \in SUBSET Entry /\ Numbered(pending[a], minted[a] + 1)
  BY DEF DocsOK, SessionDocs, DocTypeOK
<1>6. \A e \in pending[a] : /\ e \in Entry /\ e.n \in Nat /\ e.gen \in Nat
                            /\ e.n <= minted[a]
                            /\ \A f \in pending[a] : f.n = e.n => f = e
  BY <1>4, <1>5 DEF Numbered, Entry
<1>7. \A x \in InFlight(a) : x.n \in Nat /\ x.base \in Nat
  BY <1>3 DEF Post
<1> QED BY <1>1, <1>2, <1>3, <1>4, <1>6, <1>7 DEF Own

\* Attempts carry numbers as well.
LEMMA AttemptNumbers ==
  ASSUME NEW e \in Entry, NEW t \in e.attempts
  PROVE  t.gen \in Nat /\ t.base \in Nat
BY DEF Entry, Attempt

-----------------------------------------------------------------------------
(* Steps that leave the log alone *)

\* No post of b is new.
NoNewPost(b) == InFlight(b)' \subseteq InFlight(b)

\* More intentions do not disturb the log.
LEMMA LogOrderKept ==
  ASSUME DocsInv, LogOrder, UNCHANGED log,
         \A b \in Actors : minted'[b] \in Nat /\ minted[b] <= minted'[b]
  PROVE  LogOrder'
<1>1. \A b \in Actors : Own(b)' = Own(b)
  BY DEF Own
<1>2. \A b \in Actors : minted[b] \in Nat /\ \A i \in Own(b) : log[i].n \in Nat
  BY SessionNumbers
<1> QED BY <1>1, <1>2 DEF LogOrder

\* The posts of b stay in order.
LEMMA PostsKept ==
  ASSUME DocsInv, NEW b \in Actors, UNCHANGED log, NoNewPost(b), SessionOrder(b),
         minted'[b] \in Nat, minted[b] <= minted'[b]
  PROVE  \A x \in InFlight(b)' : PostOrder(b, x)'
<1> SUFFICES ASSUME NEW x \in InFlight(b)' PROVE PostOrder(b, x)'
  OBVIOUS
<1>1. x \in InFlight(b) /\ PostOrder(b, x) /\ Own(b)' = Own(b)
  BY DEF NoNewPost, SessionOrder, Own
<1>2. x.n \in Nat /\ minted[b] \in Nat
  BY <1>1, SessionNumbers
<1> QED BY <1>1, <1>2 DEF PostOrder

\* A session whose queue does not move.
LEMMA KeptOrder ==
  ASSUME DocsInv, NEW b \in Actors, UNCHANGED log, Kept(b), NoNewPost(b), SessionOrder(b)
  PROVE  SessionOrder(b)'
<1>1. minted[b] \in Nat
  BY SessionNumbers
<1>2. \A x \in InFlight(b)' : PostOrder(b, x)'
  BY <1>1, PostsKept DEF Kept
<1>3. ASSUME NEW e \in pending'[b] PROVE EntryOrder(b, e)'
  BY <1>3 DEF Kept, NoNewPost, SessionOrder, EntryOrder, Own
<1> QED BY <1>2, <1>3 DEF SessionOrder

\* A new intention is later than everything, and never posted.
LEMMA ExecutesOrder ==
  ASSUME DocsInv, NEW a \in Actors, LogOrder, SessionOrder(a), NoNewPost(a), Executes(a)
  PROVE  SessionOrder(a)' /\ minted'[a] = minted[a] + 1
<1>1. PICK cmd, origin, rec, found : Run(a, cmd, origin, rec, found)
  BY DEF Executes
<1>0. PICK e : e = NewEntry(a, cmd, origin, rec, found)
  OBVIOUS
<1>2. e.n = minted[a] + 1 /\ e.attempts = {}
  BY <1>0 DEF NewEntry
<1>3. pending'[a] = pending[a] \cup {e} /\ minted'[a] = minted[a] + 1
  BY <1>0, <1>1 DEF Run, DocsInv, TypeOK, DocTypeOK, LinkTypeOK
<1>4. rev'[a] = rev[a] /\ log' = log /\ Own(a)' = Own(a)
  BY DEF Executes, Own
<1>5. minted[a] \in Nat /\ (\A i \in Own(a) : log[i].n \in Nat)
      /\ (\A x \in InFlight(a) : x.n \in Nat)
  BY SessionNumbers
<1>6. \A x \in InFlight(a)' : PostOrder(a, x)'
  BY <1>3, <1>4, <1>5, PostsKept
<1>7. EntryOrder(a, e)'
  <2>1. \A i \in Own(a) : log[i].n < e.n
    BY <1>2, <1>5 DEF LogOrder
  <2>2. \A x \in InFlight(a) : x.n < e.n
    BY <1>2, <1>5 DEF SessionOrder, PostOrder
  <2> QED BY <1>2, <1>4, <2>1, <2>2 DEF EntryOrder, Traced, NoNewPost
<1>8. ASSUME NEW f \in pending[a] PROVE EntryOrder(a, f)'
  <2>1. f.n \in Nat /\ f.n <= minted[a] /\ f.n <= e.n
    BY <1>2, SessionNumbers
  <2>2. EntryOrder(a, f)
    BY DEF SessionOrder
  <2>3. f.attempts # {} => \A g \in pending'[a] : f.n <= g.n
    BY <1>3, <2>1, <2>2 DEF EntryOrder
  <2> QED BY <1>4, <2>2, <2>3 DEF EntryOrder, NoNewPost
<1> QED BY <1>3, <1>6, <1>7, <1>8 DEF SessionOrder

\* A rebase is safe when every intention it keeps is later than the own ops
\* of the revision it goes to: the attempts it keeps are those that can
\* still commit.
LEMMA RebaseOrder ==
  ASSUME DocsInv, NEW a \in Actors, SessionOrder(a), NoNewPost(a),
         UNCHANGED <<log, minted>>,
         NEW conf, NEW r \in 0 .. Len(log), NEW skipped, NEW reported, NEW undoNow, NEW redoNow,
         Rebase(a, conf, r, skipped, reported, undoNow, redoNow),
         \A e \in pending[a] \ skipped : \A i \in Own(a) : i <= r => log[i].n < e.n
  PROVE  SessionOrder(a)'
<1> DEFINE E == pending[a] \ skipped
<1>1. PICK K \in SUBSET E :
        \E w \in [K -> Val] : Rebuilt(a, conf, r, E, K, w, reported, undoNow, redoNow)
  BY Zenon DEF Rebase
<1>2. PICK w \in [K -> Val] : Rebuilt(a, conf, r, E, K, w, reported, undoNow, redoNow)
  BY <1>1
<1>3. pending'[a] = {Remint(e, w[e], r) : e \in K} /\ rev'[a] = r
  BY <1>2 DEF Rebuilt, DocsInv, TypeOK, DocTypeOK
<1>4. r \in Nat /\ minted[a] \in Nat /\ minted'[a] = minted[a] /\ Own(a)' = Own(a)
  BY SessionNumbers DEF Own
<1>5. \A x \in InFlight(a)' : PostOrder(a, x)'
  BY <1>4, PostsKept
<1>6. ASSUME NEW e \in K PROVE EntryOrder(a, Remint(e, w[e], r))'
  <2> DEFINE g == Remint(e, w[e], r)
  <2>1. e \in pending[a] /\ e \in Entry /\ w[e] \in Val /\ e \in pending[a] \ skipped
    BY SessionNumbers
  <2>2. g.n = e.n /\ g.gen = e.gen + 1 /\ g.attempts = {t \in e.attempts : t.base >= r}
    BY <1>4, <2>1, RemintType
  <2> HIDE DEF g
  <2>3. EntryOrder(a, e)
    BY <2>1 DEF SessionOrder
  <2>4. \A n, gen : \A base \in Nat : base >= r /\ Traced(e, n, gen, base)
                                        => Traced(g, n, gen, base)
    BY <2>2 DEF Traced, Recorded
  <2>5. ASSUME NEW i \in Own(a)
        PROVE  IF i <= r THEN log[i].n < g.n ELSE Traced(g, log[i].n, log[i].gen, i - 1)
    <3>1. i \in Nat /\ rev[a] \in Nat
      BY SessionNumbers
    <3>2. CASE i <= r
      BY <2>1, <2>2, <3>2
    <3>3. CASE r < i /\ i <= rev[a]
      BY <1>4, <2>2, <2>3, <3>1, <3>3 DEF EntryOrder, Traced
    <3>4. CASE r < i /\ rev[a] < i
      <4>1. Traced(e, log[i].n, log[i].gen, i - 1)
        BY <2>3, <3>1, <3>4 DEF EntryOrder
      <4>2. i - 1 \in Nat /\ i - 1 >= r
        BY <1>4, <3>1, <3>4
      <4> QED BY <1>4, <2>4, <3>1, <3>4, <4>1, <4>2
    <3> QED BY <1>4, <3>1, <3>2, <3>3, <3>4
  <2>6. ASSUME NEW x \in InFlight(a), x.base = Len(log) PROVE Traced(g, x.n, x.gen, x.base)
    <3>1. x.base \in Nat /\ x.base >= r
      BY <2>6, SessionNumbers
    <3> QED BY <2>3, <2>4, <2>6, <3>1 DEF EntryOrder
  <2>7. \A t \in g.attempts : t.gen <= g.gen /\ t.gen # g.gen
    <3>1. e.gen \in Nat /\ \A t \in e.attempts : t.gen \in Nat
      BY <2>1, SessionNumbers, AttemptNumbers
    <3> QED BY <2>2, <2>3, <3>1 DEF EntryOrder
  <2>8. g.attempts # {} => \A f \in pending'[a] : g.n <= f.n
    <3>1. ASSUME NEW f \in K PROVE Remint(f, w[f], r).n = f.n /\ f \in pending[a]
      <4>1. f \in Entry /\ w[f] \in Val /\ f \in pending[a]
        BY SessionNumbers
      <4> QED BY <1>4, <4>1, RemintType
    <3> QED BY <1>3, <2>2, <2>3, <3>1 DEF EntryOrder
  <2>9. EntryOrder(a, g)'
    BY <1>3, <1>4, <2>5, <2>6, <2>7, <2>8 DEF EntryOrder, NoNewPost
  <2> QED BY <2>9 DEF g
<1> QED BY <1>3, <1>5, <1>6 DEF SessionOrder

\* The three ways to ingest the next op.
LEMMA IngestOrder ==
  ASSUME DocsInv, NEW a \in Actors, SessionOrder(a), NoNewPost(a), Ingests(a)
  PROVE  SessionOrder(a)'
<1>1. PICK r \in 1 .. Len(log) : IngestOrdered(a, r)
  BY DEF Ingests
<1> DEFINE op == log[r]
<1>2. UNCHANGED <<log, minted>> /\ r = rev[a] + 1 /\ r \in 0 .. Len(log) /\ rev[a] \in Nat
      /\ Own(a)' = Own(a)
  BY <1>1, SessionNumbers DEF Ingests, IngestOrdered, Own
<1>3. op.actor = a => r \in Own(a)
  BY DEF Own
<1>4. \A i \in Own(a) : i <= r => i <= rev[a] \/ (i = r /\ op.actor = a)
  BY <1>2, SessionNumbers DEF Own
<1>5. \A e \in pending[a] : \A i \in Own(a) : i <= rev[a] => log[i].n < e.n
  BY DEF SessionOrder, EntryOrder
<1>6. CASE Ack(a, op, r)
  <2>1. PICK h \in pending[a] :
          /\ IsHead(a, h) /\ op.actor = a /\ op.n = h.n
          /\ rev' = [rev EXCEPT ![a] = r] /\ pending' = [pending EXCEPT ![a] = pending[a] \ {h}]
    BY <1>6 DEF Ack, SameOp
  <2>2. rev'[a] = r /\ pending'[a] = pending[a] \ {h}
    BY <2>1 DEF DocsInv, TypeOK, DocTypeOK
  <2>3. \A x \in InFlight(a)' : PostOrder(a, x)'
    BY <1>2, PostsKept, SessionNumbers
  <2>4. ASSUME NEW e \in pending[a] \ {h} PROVE EntryOrder(a, e)'
    <3>1. EntryOrder(a, e)
      BY DEF SessionOrder
    <3>2. h.n \in Nat /\ e.n \in Nat /\ h.n < e.n
      BY <2>1, SessionNumbers DEF IsHead
    <3>3. e.attempts = {}
      BY <3>1, <3>2 DEF EntryOrder
    <3>4. \A i \in Own(a) : IF i <= r THEN log[i].n < e.n
                            ELSE Traced(e, log[i].n, log[i].gen, i - 1)
      <4>1. \A i \in Own(a) : i \in Nat
        BY SessionNumbers
      <4> QED BY <1>2, <1>4, <1>5, <2>1, <3>1, <3>2, <4>1 DEF EntryOrder
    <3> QED BY <1>2, <2>2, <3>1, <3>3, <3>4 DEF EntryOrder, NoNewPost
  <2> QED BY <2>2, <2>3, <2>4 DEF SessionOrder
<1>7. CASE ConfirmPending(a, op, r)
  <2>1. PICK e \in pending[a] :
          /\ e.attempts # {} /\ op.n = e.n
          /\ Rebase(a, Write(confirmed[a], op), r, {e}, {}, undo[a], redo[a])
    BY <1>7 DEF ConfirmPending
  <2>2. \A f \in pending[a] \ {e} : op.n < f.n
    <3>1. \A f \in pending[a] : e.n <= f.n
      BY <2>1 DEF SessionOrder, EntryOrder
    <3> QED BY <2>1, <3>1, SessionNumbers
  <2>3. \A f \in pending[a] \ {e} : \A i \in Own(a) : i <= r => log[i].n < f.n
    BY <1>4, <1>5, <2>2
  <2> HIDE DEF op
  <2> QED BY <1>2, <2>1, <2>3, RebaseOrder
<1>8. CASE ApplyForeign(a, op, r)
  <2>1. /\ op.actor = a => \A e \in pending[a] : ~Claims(e, op)
        /\ Rebase(a, Write(confirmed[a], op), r, {}, {}, undo[a], redo[a])
    BY <1>8 DEF ApplyForeign
  <2>2. ASSUME NEW f \in pending[a], op.actor = a PROVE op.n < f.n
    <3>1. Traced(f, op.n, op.gen, r - 1)
      BY <1>2, <1>3, <2>2 DEF SessionOrder, EntryOrder
    <3>2. ~Claims(f, op)
      BY <2>1, <2>2
    <3> QED BY <3>1, <3>2 DEF Traced, Recorded, Claims
  <2>3. \A f \in pending[a] \ {} : \A i \in Own(a) : i <= r => log[i].n < f.n
    BY <1>4, <1>5, <2>2
  <2> HIDE DEF op
  <2> QED BY <1>2, <2>1, <2>3, RebaseOrder
<1> QED BY <1>1, <1>6, <1>7, <1>8 DEF IngestOrdered

\* Adopting a checkpoint: an intention that the checkpoint may contain was
\* posted on an earlier base, and is dropped.
LEMMA AdoptOrder ==
  ASSUME DocsInv, NEW a \in Actors, SessionOrder(a), NoNewPost(a), AdoptSnapshot(a)
  PROVE  SessionOrder(a)'
<1> DEFINE snap == sync[a].reply
           dropped == Ambiguous(a, snap.rev)
           reported == {e.n : e \in dropped}
<1>1. Rebase(a, snap.doc, snap.rev, dropped, reported, {}, {}) /\ UNCHANGED <<log, minted>>
  BY DEF AdoptSnapshot, serverVars
<1>2. snap.rev \in 0 .. Len(log)
  BY DEF AdoptSnapshot, Fetched, DocsInv, DocsOK, CopiesAreFaithful, Faithful
<1>3. ASSUME NEW e \in pending[a] \ dropped, NEW i \in Own(a), i <= snap.rev
      PROVE  log[i].n < e.n
  <2>1. EntryOrder(a, e) /\ i \in Nat /\ rev[a] \in Nat /\ e \in Entry
    BY SessionNumbers DEF SessionOrder
  <2>2. CASE i <= rev[a]
    BY <2>1, <2>2 DEF EntryOrder
  <2>3. CASE ~(i <= rev[a])
    <3>1. Traced(e, log[i].n, log[i].gen, i - 1)
      BY <2>1, <2>3 DEF EntryOrder
    <3>2. ~\E t \in e.attempts : t.base < snap.rev
      BY DEF Ambiguous
    <3>3. i - 1 < snap.rev
      BY <1>2, <1>3, <2>1
    <3> QED BY <3>1, <3>2, <3>3 DEF Traced, Recorded
  <2> QED BY <2>2, <2>3
<1> HIDE DEF snap, dropped, reported
<1> QED BY <1>1, <1>2, <1>3, RebaseOrder

\* Posting the head: the attempt is on record before the post is on its way.
LEMMA PumpOrder ==
  ASSUME DocsInv, NEW a \in Actors, SessionOrder(a), PumpLoop(a)
  PROVE  SessionOrder(a)'
<1>1. UNCHANGED <<log, late, rev, minted>> /\ Own(a)' = Own(a)
  BY DEF PumpLoop, serverVars, Own
<1>2. CASE UNCHANGED pending /\ pump' = [pump EXCEPT ![a] = "exit"]
  <2>1. NoNewPost(a) /\ Kept(a)
    BY <1>2 DEF NoNewPost, InFlight, PumpLoop, serverVars, Kept, DocsInv, TypeOK, PumpTypeOK
  <2> QED BY <1>1, <2>1, KeptOrder
<1>3. ASSUME NEW h \in pending[a], IsHead(a, h),
             pending' = [pending EXCEPT ![a] = (pending[a] \ {h}) \cup {Attempted(h, rev[a])}],
             post' = [post EXCEPT ![a] = [req |-> Request(a, h), reply |-> None]],
             pump' = [pump EXCEPT ![a] = "posting"]
      PROVE  SessionOrder(a)'
  <2>1. PICK g, x : g = Attempted(h, rev[a]) /\ x = Request(a, h)
    OBVIOUS
  <2>2. /\ pending'[a] = (pending[a] \ {h}) \cup {g}
        /\ InFlight(a)' = {y \in late : y.actor = a} \cup {x}
    BY <1>1, <1>3, <2>1 DEF InFlight, DocsInv, TypeOK, DocTypeOK, PumpTypeOK
  <2>3. \A y \in InFlight(a)' : y = x \/ y \in InFlight(a)
    BY <2>2 DEF InFlight
  <2>4. x.actor = a /\ x.n = h.n /\ x.gen = h.gen /\ x.base = rev[a]
    BY <2>1 DEF Request
  <2>5. EntryOrder(a, h) /\ h \in Entry /\ h.n \in Nat /\ h.gen \in Nat /\ h.n <= minted[a]
        /\ rev[a] \in Nat /\ rev[a] <= Len(log)
    BY SessionNumbers DEF SessionOrder
  <2>6. /\ g.n = h.n /\ g.gen = h.gen /\ h.attempts \subseteq g.attempts
        /\ \A t \in g.attempts : t \in h.attempts \/ (t.gen = h.gen /\ t.base = rev[a])
        /\ \E t \in g.attempts : t.gen = h.gen
    <3> DEFINE now  == [gen |-> h.gen, base |-> rev[a], val |-> h.val]
               more == h.attempts \cup {now}
    <3>1. CASE \E t \in h.attempts : t.gen = h.gen
      BY <2>1, <3>1 DEF Attempted
    <3>2. CASE ~\E t \in h.attempts : t.gen = h.gen
      <4>1. g = [h EXCEPT !.attempts = more]
        BY <2>1, <3>2 DEF Attempted
      <4>2. g.n = h.n /\ g.gen = h.gen /\ g.attempts = more
        BY <2>5, <4>1 DEF Entry
      <4>3. now.gen = h.gen /\ now.base = rev[a]
        OBVIOUS
      <4> HIDE DEF now
      <4> QED BY <4>2, <4>3
    <3> QED BY <3>1, <3>2
  <2>7. Recorded(g, h.gen, rev[a])
    BY <2>5, <2>6 DEF EntryOrder, Recorded
  <2>8. \A f \in pending[a] : f = h \/ (h.n < f.n /\ f.n \in Nat)
    BY <1>3, <2>5, SessionNumbers DEF IsHead
  <2>9. ASSUME NEW y \in InFlight(a)' PROVE PostOrder(a, y)'
    <3>1. CASE y = x
      <4>1. \A i \in Own(a) : i <= rev[a] => log[i].n < h.n
        BY <2>5 DEF EntryOrder
      <4>2. log' = log /\ minted'[a] = minted[a]
        BY <1>1
      <4> QED BY <1>1, <2>4, <2>5, <3>1, <4>1, <4>2 DEF PostOrder
    <3>2. CASE y \in InFlight(a)
      BY <1>1, <3>2 DEF SessionOrder, PostOrder
    <3> QED BY <2>3, <3>1, <3>2
  <2>10. ASSUME NEW e \in pending[a], e # h PROVE EntryOrder(a, e)'
    <3>1. EntryOrder(a, e) /\ h.n < e.n /\ e.n \in Nat
      BY <2>8, <2>10 DEF SessionOrder
    <3>2. e.attempts = {}
      BY <2>5, <3>1 DEF EntryOrder
    <3>3. Traced(e, x.n, x.gen, x.base)
      BY <2>4, <3>1 DEF Traced
    <3> QED BY <1>1, <2>3, <3>1, <3>2, <3>3 DEF EntryOrder
  <2>11. EntryOrder(a, g)'
    <3>1. \A n, gen, base : Traced(h, n, gen, base) => Traced(g, n, gen, base)
      BY <2>6 DEF Traced, Recorded
    <3>2. Traced(g, x.n, x.gen, x.base)
      BY <2>4, <2>6, <2>7 DEF Traced
    <3>3. \A f \in pending'[a] : g.n <= f.n
      BY <2>2, <2>5, <2>6, <2>8
    <3>4. \A t \in g.attempts : t.gen <= g.gen /\ (t.gen = g.gen => t.base = rev[a])
      BY <2>5, <2>6 DEF EntryOrder
    <3>5. \A i \in Own(a) : IF i <= rev[a] THEN log[i].n < g.n
                            ELSE Traced(g, log[i].n, log[i].gen, i - 1)
      BY <2>5, <2>6, <3>1 DEF EntryOrder
    <3> QED BY <1>1, <2>3, <2>5, <3>1, <3>2, <3>3, <3>4, <3>5 DEF EntryOrder
  <2> QED BY <2>2, <2>9, <2>10, <2>11 DEF SessionOrder
<1> QED BY <1>2, <1>3 DEF PumpLoop

-----------------------------------------------------------------------------
(* Which steps make a post *)

\* Only the pump posts; giving up on a post moves it.
LEMMA NoNewPosts ==
  ASSUME DocsInv, NEW a \in Actors, SessionOrder(a), SessionStep(a),
         NEW b \in Actors, b # a \/ ~PumpLoop(a)
  PROVE  NoNewPost(b)
<1> USE DEF DocsInv, TypeOK, PumpTypeOK
<1> DEFINE Still == UNCHANGED late /\ (pump'[b] = "posting" =>
                      pump[b] = "posting" /\ post'[b].req = post[b].req)
<1>1. Still => NoNewPost(b)
  BY DEF NoNewPost, InFlight
<1>2. UNCHANGED <<late, post>> /\ (UNCHANGED pump \/ WakePump(a)) => Still
  BY DEF WakePump, Woken
<1>3. ASSUME UNCHANGED late, UNCHANGED post \/ post' = [post EXCEPT ![a] = None],
             NEW p, pump' = [pump EXCEPT ![a] = p], p # "posting"
      PROVE  Still
  BY <1>3
<1>4. CASE UserStep(a)
  BY <1>1, <1>2, <1>4 DEF UserStep, Dispatch, Undo, Redo, DropStaleRecord, Close, Run,
     serverVars, pumpVars
<1>5. CASE PumpStep(a)
  <2>1. CASE PumpLoop(a)
    BY <1>1, <2>1 DEF PumpLoop, serverVars
  <2>2. CASE PumpFinally(a)
    BY <1>1, <1>3, <2>2 DEF PumpFinally, serverVars
  <2>3. CASE RetryDelayEnds(a)
    BY <1>1, <1>3, <2>3 DEF RetryDelayEnds, serverVars
  <2>4. CASE ReplyTooLate(a) \/ ReplyAccepted(a) \/ ReplyStaleBase(a) \/ ReplySnapshotRequired(a)
    BY <1>1, <1>3, <2>4 DEF ReplyTooLate, ReplyAccepted, ReplyStaleBase,
       ReplySnapshotRequired, PumpTo, serverVars
  <2> QED BY <1>5, <2>1, <2>2, <2>3, <2>4 DEF PumpStep
<1>6. CASE SyncStep(a)
  <2>1. CASE SyncFinally(a)
    <3>1. UNCHANGED <<late, post>> /\ (UNCHANGED pump \/ WakePump(a))
      BY <2>1 DEF SyncFinally, WakePump, serverVars
    <3> QED BY <1>1, <1>2, <3>1
  <2>2. CASE ~SyncFinally(a)
    BY <1>1, <1>2, <1>6, <2>2 DEF SyncStep, SyncLoop, FetchTooLate, AdoptSnapshot,
       OpsArrive, PageStep, PageCut, SyncDelayEnds, serverVars, pumpVars
  <2> QED BY <2>1, <2>2
<1>7. CASE StreamStep(a) \/ SkipOwnOp(a) \/ Publish(a)
  BY <1>1, <1>2, <1>7 DEF StreamStep, Connect, DeliverOp, SkipOwnOp, Publish, serverVars, pumpVars
<1>8. CASE PutEnds(a)
  BY <1>1, <1>8 DEF PutEnds
<1>9. CASE FaultStep(a)
  <2>1. CASE ReplyMangled(a) \/ PostDenied(a)
    BY <1>1, <1>3, <2>1 DEF ReplyMangled, PostDenied, PumpTo, serverVars
  <2>2. CASE PostFails(a)
    <3>1. /\ late' = late \cup {post[a].req} \/ UNCHANGED late
          /\ pump[a] = "posting" /\ post' = [post EXCEPT ![a] = None]
          /\ \E p \in {"delay", "exit"} : pump' = [pump EXCEPT ![a] = p]
      BY <2>2 DEF PostFails, PumpTo
    <3>2. post[a].req.actor = a /\ post[a].req \in InFlight(a)
      BY <3>1 DEF SessionOrder, PostOrder, InFlight
    <3> QED BY <3>1, <3>2 DEF NoNewPost, InFlight
  <2>3. CASE PutFails(a)
    BY <1>1, <2>3 DEF PutFails, serverVars
  <2>4. CASE ConnectRefused(a) \/ FetchFails(a) \/ PageRejected(a) \/ RejectFrame(a) \/ Disconnect(a)
    BY <1>1, <1>2, <2>4 DEF ConnectRefused, FetchFails, PageRejected, RejectFrame,
       Disconnect, serverVars, pumpVars
  <2> QED BY <1>9, <2>1, <2>2, <2>3, <2>4 DEF FaultStep
<1>10. CASE ServeStep(a)
  <2>1. CASE ServePost(a)
    BY <1>1, <2>1 DEF ServePost, Exchange
  <2>2. CASE ~ServePost(a)
    BY <1>1, <1>2, <1>10, <2>2 DEF ServeStep, ServeSnapshot, ServeOps, serverVars, pumpVars
  <2> QED BY <2>1, <2>2
<1> QED BY <1>4, <1>5, <1>6, <1>7, <1>8, <1>9, <1>10 DEF SessionStep

-----------------------------------------------------------------------------
(* Steps of the log *)

\* What the authority appends after the old log.
LEMMA Appended ==
  ASSUME DocsInv, NEW r, log' = Logged(r)
  PROVE  /\ Len(log') = Len(log) + 1
         /\ \A i \in 1 .. Len(log) : log'[i] = log[i]
         /\ LET op == log'[Len(log) + 1]
            IN  op.actor = r.actor /\ op.n = r.n /\ op.gen = r.gen
<1> DEFINE op == [actor |-> r.actor, n |-> r.n, gen |-> r.gen, base |-> r.base,
                  key |-> r.key, val |-> r.val, doc |-> Write(DocAt(Len(log)), r)]
<1>1. log' = Append(log, op)
  BY DEF Logged
<1>2. op.actor = r.actor /\ op.n = r.n /\ op.gen = r.gen
  OBVIOUS
<1> HIDE DEF op
<1>3. /\ Len(log') = Len(log) + 1 /\ log'[Len(log) + 1] = op
      /\ \A i \in 1 .. Len(log) : log'[i] = log[i]
  BY <1>1, AppendProperties DEF DocsInv, TypeOK, ServerTypeOK
<1> QED BY <1>2, <1>3

\* An accepted post had the head as its base.
LEMMA AcceptedAtHead ==
  ASSUME DocsInv, NEW x, PostOp(x)
  PROVE  log' = log \/ (log' = Logged(x) /\ x.base = Len(log))
<1>1. Len(log) \in Nat /\ DOMAIN log = 1 .. Len(log)
  BY LenProperties DEF DocsInv, TypeOK, ServerTypeOK
<1> SUFFICES ASSUME Verdict(x) = [kind |-> "accepted", rev |-> Len(log) + 1]
             PROVE  x.base = Len(log)
  BY DEF PostOp
<1>2. Verdict(x).kind = "accepted" /\ Verdict(x).rev = Len(log) + 1
  OBVIOUS
<1>3. CASE Duplicates(x) # {}
  <2>1. Verdict(x) = [kind |-> "accepted", rev |-> CHOOSE i \in Duplicates(x) : TRUE]
    BY <1>3 DEF Verdict
  <2>2. (CHOOSE i \in Duplicates(x) : TRUE) \in Duplicates(x)
    BY <1>3
  <2>3. Verdict(x).rev \in 1 .. Len(log)
    BY <1>1, <2>1, <2>2 DEF Duplicates
  <2> QED BY <1>1, <1>2, <2>3
<1>4. CASE Duplicates(x) = {} /\ x.base # Len(log)
  <2>1. Verdict(x) = [kind |-> "stale-base", rev |-> Len(log)]
    BY <1>4 DEF Verdict
  <2> QED BY <1>2, <2>1
<1> QED BY <1>3, <1>4

\* An op of somebody who is not modelled is nobody's own.
LEMMA ForeignOrder ==
  ASSUME DocsInv, LogOrder, NEW r, log' = Logged(r), r.actor = None, r.n = Len(log) + 1,
         NEW b \in Actors, SessionOrder(b), Kept(b), NoNewPost(b)
  PROVE  SessionOrder(b)'
<1>1. /\ Len(log) \in Nat /\ Len(log') = Len(log) + 1 /\ log'[Len(log) + 1].actor = None
      /\ \A i \in 1 .. Len(log) : log'[i] = log[i]
  BY Appended, SessionNumbers
<1>2. Own(b)' = Own(b) /\ Own(b) \subseteq 1 .. Len(log)
  BY <1>1, SessionAssumption DEF Own
<1>3. \A x \in InFlight(b)' : x \in InFlight(b) /\ x.base <= Len(log) /\ x.base \in Nat
  BY SessionNumbers DEF NoNewPost, SessionOrder, PostOrder
<1>4. ASSUME NEW x \in InFlight(b)' PROVE PostOrder(b, x)'
  BY <1>1, <1>2, <1>3, <1>4 DEF Kept, SessionOrder, PostOrder
<1>5. ASSUME NEW e \in pending'[b] PROVE EntryOrder(b, e)'
  BY <1>1, <1>2, <1>3, <1>5 DEF Kept, SessionOrder, EntryOrder
<1> QED BY <1>4, <1>5 DEF SessionOrder

\* A post that is accepted is later than everything of its actor in the log,
\* and traced by whatever is pending.
LEMMA AcceptOrder ==
  ASSUME DocsInv, LogOrder, NEW b \in Actors, SessionOrder(b), Kept(b), NoNewPost(b),
         NEW a \in Actors, NEW x \in InFlight(a), SessionOrder(a),
         log' = Logged(x), x.base = Len(log)
  PROVE  SessionOrder(b)'
<1> DEFINE new == Len(log) + 1
<1>1. /\ Len(log) \in Nat /\ Len(log') = new
      /\ log'[new].actor = x.actor /\ log'[new].n = x.n /\ log'[new].gen = x.gen
      /\ \A i \in 1 .. Len(log) : log'[i] = log[i]
  BY Appended, SessionNumbers
<1>2. x.actor = a /\ rev[b] \in Nat /\ rev[b] <= Len(log) /\ new - 1 = Len(log)
  BY <1>1, SessionNumbers DEF SessionOrder, PostOrder
<1>3. Own(b) \subseteq 1 .. Len(log) /\ \A i \in Own(b)' : i \in Own(b) \/ (i = new /\ a = b)
  BY <1>1, <1>2 DEF Own
<1>4. \A i \in Own(b) : log'[i] = log[i] /\ i \in Nat
  BY <1>1, <1>3
<1>5. \A y \in InFlight(b)' : y \in InFlight(b) /\ y.base <= Len(log) /\ y.base \in Nat
  BY SessionNumbers DEF NoNewPost, SessionOrder, PostOrder
<1>6. ASSUME NEW y \in InFlight(b)' PROVE PostOrder(b, y)'
  <2>1. y \in InFlight(b) /\ PostOrder(b, y) /\ y.base <= Len(log) /\ y.base \in Nat
    BY <1>5 DEF SessionOrder
  <2>2. \A i \in Own(b)' : i <= y.base => log'[i].n < y.n
    BY <1>1, <1>3, <1>4, <2>1 DEF PostOrder
  <2>3. y.base <= Len(log')
    BY <1>1, <2>1
  <2> QED BY <2>1, <2>2, <2>3 DEF PostOrder, Kept
<1>7. ASSUME NEW e \in pending'[b] PROVE EntryOrder(b, e)'
  <2>1. e \in pending[b] /\ EntryOrder(b, e) /\ rev'[b] = rev[b] /\ pending'[b] = pending[b]
    BY DEF Kept, SessionOrder
  <2>2. ASSUME NEW i \in Own(b)'
        PROVE  IF i <= rev'[b] THEN log'[i].n < e.n
               ELSE Traced(e, log'[i].n, log'[i].gen, i - 1)
    <3>1. CASE i \in Own(b)
      BY <1>4, <2>1, <3>1 DEF EntryOrder
    <3>2. CASE i = new /\ a = b
      <4>1. Traced(e, x.n, x.gen, x.base)
        BY <2>1, <3>2 DEF EntryOrder
      <4>2. ~(new <= rev[b])
        BY <1>1, <1>2
      <4> HIDE DEF new
      <4> QED BY <1>1, <1>2, <2>1, <3>2, <4>1, <4>2
    <3> QED BY <1>3, <3>1, <3>2
  <2>3. \A y \in InFlight(b)' : y.base # Len(log')
    BY <1>1, <1>5
  <2> QED BY <2>1, <2>2, <2>3 DEF EntryOrder
<1> QED BY <1>6, <1>7 DEF SessionOrder

\* The log stays in order when a post or a foreign op is appended.
LEMMA AppendOrder ==
  ASSUME DocsInv, LogOrder, NEW r, log' = Logged(r), UNCHANGED minted,
         \/ r.actor = None /\ r.n = Len(log) + 1
         \/ \E a \in Actors : r \in InFlight(a) /\ SessionOrder(a) /\ r.base = Len(log)
  PROVE  LogOrder'
<1> DEFINE new == Len(log) + 1
<1>1. /\ Len(log) \in Nat /\ Len(log') = new
      /\ log'[new].actor = r.actor /\ log'[new].n = r.n
      /\ \A i \in 1 .. Len(log) : log'[i] = log[i]
  <2>1. Len(log) \in Nat
    BY LenProperties DEF DocsInv, TypeOK, ServerTypeOK
  <2> QED BY <2>1, Appended
<1>2. \A b \in Actors : b = r.actor => r.n \in Nat /\ r.n <= minted[b]
                                       /\ \A i \in Own(b) : log[i].n < r.n
  <2> SUFFICES ASSUME NEW b \in Actors, b = r.actor
               PROVE  r.n \in Nat /\ r.n <= minted[b] /\ \A i \in Own(b) : log[i].n < r.n
    OBVIOUS
  <2>1. PICK a \in Actors : r \in InFlight(a) /\ SessionOrder(a) /\ r.base = Len(log)
    BY SessionAssumption
  <2>2. PostOrder(a, r) /\ a = b /\ r.n \in Nat
    BY <2>1, SessionNumbers DEF SessionOrder, PostOrder
  <2> QED BY <2>1, <2>2 DEF PostOrder, Own
<1>3. ASSUME NEW i \in 1 .. Len(log'), log'[i].actor = None PROVE log'[i].n = i
  <2>1. CASE i \in 1 .. Len(log)
    BY <1>1, <1>3, <2>1 DEF LogOrder
  <2>2. CASE i = new
    <3>1. r.actor = None
      BY <1>1, <1>3, <2>2
    <3>2. \A a \in Actors : \A x \in InFlight(a) : SessionOrder(a) => x.actor # None
      BY SessionAssumption DEF SessionOrder, PostOrder
    <3>3. r.n = new
      BY <3>1, <3>2
    <3> QED BY <1>1, <2>2, <3>3
  <2> QED BY <1>1, <2>1, <2>2
<1>4. ASSUME NEW b \in Actors, NEW i \in Own(b)'
      PROVE  log'[i].n <= minted'[b] /\ \A j \in Own(b)' : i < j => log'[i].n < log'[j].n
  <2>1. \A j \in Own(b)' : \/ j \in Own(b) /\ j \in 1 .. Len(log) /\ log'[j] = log[j]
                           \/ j = new /\ r.actor = b /\ log'[j].n = r.n
    BY <1>1 DEF Own
  <2>2. minted[b] \in Nat /\ \A j \in Own(b) : log[j].n \in Nat
    BY SessionNumbers
  <2>3. log'[i].n <= minted'[b]
    BY <1>2, <2>1, <2>2 DEF LogOrder
  <2>4. ASSUME NEW j \in Own(b)', i < j PROVE log'[i].n < log'[j].n
    <3>1. CASE i \in Own(b) /\ j \in Own(b)
      <4>1. log'[i] = log[i] /\ log'[j] = log[j]
        BY <1>1, <3>1 DEF Own
      <4> QED BY <2>4, <3>1, <4>1 DEF LogOrder
    <3>2. CASE i \in Own(b) /\ j = new /\ r.actor = b
      BY <1>1, <1>2, <2>1, <3>2 DEF Own
    <3>3. CASE i = new
      BY <1>1, <2>1, <2>4, <3>3
    <3> QED BY <2>1, <3>1, <3>2, <3>3
  <2> QED BY <2>3, <2>4
<1> QED BY <1>1, <1>3, <1>4 DEF LogOrder

\* Serving a post, in time or late.
LEMMA ServeOrder ==
  ASSUME OrderInv, NEW a \in Actors, NEW x \in InFlight(a), PostOp(x), UNCHANGED minted,
         \A b \in Actors : Kept(b) /\ NoNewPost(b)
  PROVE  LogOrder' /\ \A b \in Actors : SessionOrder(b)'
<1> USE DEF OrderInv
<1>1. CASE log' = log
  BY <1>1, LogOrderKept, KeptOrder, SessionNumbers
<1>2. CASE log' = Logged(x) /\ x.base = Len(log)
  BY <1>2, AppendOrder, AcceptOrder
<1> QED BY <1>1, <1>2, AcceptedAtHead

-----------------------------------------------------------------------------
(* The theorems *)

LEMMA InitOrder == Init => OrderInv
<1> SUFFICES ASSUME Init PROVE OrderInv
  OBVIOUS
<1>1. Len(log) = 0 /\ \A a \in Actors : Own(a) = {} /\ InFlight(a) = {} /\ pending[a] = {}
  BY DEF Init, Own, InFlight
<1> QED BY <1>1, InitDocs DEF OrderInv, LogOrder, SessionOrder

LEMMA OutsideStepOrder ==
  ASSUME OrderInv, OutsideStep
  PROVE  LogOrder' /\ \A b \in Actors : SessionOrder(b)'
<1> USE DEF OrderInv
<1>1. \A b \in Actors : Kept(b) /\ NoNewPost(b)
  BY DEF OutsideStep, ServeLate, ForeignCheckpoint, Compact, ForeignOp, docVars, pumpVars,
     Kept, NoNewPost, InFlight
<1>2. UNCHANGED minted
  BY DEF OutsideStep, ServeLate, ForeignCheckpoint, Compact, ForeignOp
<1>3. CASE ServeLate
  <2>1. PICK x \in late : PostOp(x)
    BY <1>3 DEF ServeLate
  <2>2. x.actor \in Actors /\ x \in InFlight(x.actor)
    BY DEF InFlight, DocsInv, TypeOK, ServerTypeOK, Post
  <2> QED BY <1>1, <1>2, <2>1, <2>2, ServeOrder
<1>4. ASSUME NEW k \in Keys, NEW v \in Val, ForeignOp(k, v)
      PROVE  LogOrder' /\ \A b \in Actors : SessionOrder(b)'
  <2>1. PICK r : /\ r = [actor |-> None, n |-> Len(log) + 1, gen |-> 1,
                         base |-> Len(log), key |-> k, val |-> v]
                 /\ log' = Logged(r)
    BY <1>4 DEF ForeignOp
  <2>2. r.actor = None /\ r.n = Len(log) + 1
    BY <2>1
  <2> QED BY <1>1, <1>2, <2>1, <2>2, AppendOrder, ForeignOrder
<1>5. CASE UNCHANGED log
  BY <1>1, <1>2, <1>5, LogOrderKept, KeptOrder, SessionNumbers
<1> QED BY <1>3, <1>4, <1>5 DEF OutsideStep, ForeignCheckpoint, Compact

LEMMA SessionStepOrder ==
  ASSUME OrderInv, NEW a \in Actors, SessionStep(a)
  PROVE  LogOrder' /\ \A b \in Actors : SessionOrder(b)'
<1> USE DEF OrderInv
<1> DEFINE Goal == LogOrder' /\ \A b \in Actors : SessionOrder(b)'
<1>1. \A b \in Actors : b # a \/ ~PumpLoop(a) => NoNewPost(b)
  BY NoNewPosts
<1>2. \A b \in Actors : b # a => Kept(b)
  BY SessionStepDocs
<1>3. ASSUME UNCHANGED log, SessionOrder(a)',
             minted'[a] \in Nat, minted[a] <= minted'[a]
      PROVE  Goal
  <2>1. \A b \in Actors : minted'[b] \in Nat /\ minted[b] <= minted'[b]
    BY <1>2, <1>3, SessionNumbers DEF Kept
  <2>2. \A b \in Actors : b # a => SessionOrder(b)'
    BY <1>1, <1>2, <1>3, KeptOrder
  <2> QED BY <1>3, <2>1, <2>2, LogOrderKept
<1>4. minted[a] \in Nat
  BY SessionNumbers
<1>5. CASE ServePost(a)
  <2>1. /\ PostOp(post[a].req) /\ UNCHANGED minted /\ post[a].req \in InFlight(a)
        /\ \A b \in Actors : Kept(b)
    BY <1>5 DEF ServePost, InFlight, docVars, Kept
  <2>2. \A b \in Actors : NoNewPost(b)
    BY <1>5 DEF ServePost, NoNewPost, InFlight, DocsInv, TypeOK, PumpTypeOK, Exchange
  <2> QED BY <2>1, <2>2, ServeOrder
<1>6. CASE ~ServePost(a)
  <2>1. UNCHANGED log
    BY <1>6, SessionLog
  <2>2. CASE PumpLoop(a)
    BY <1>3, <1>4, <2>1, <2>2, PumpOrder DEF PumpLoop
  <2>3. CASE ~PumpLoop(a) /\ \A b \in Actors : Kept(b)
    BY <1>1, <1>3, <1>4, <2>1, <2>3, KeptOrder DEF Kept
  <2>4. CASE ~PumpLoop(a) /\ Executes(a)
    BY <1>1, <1>3, <1>4, <2>1, <2>4, ExecutesOrder
  <2>5. CASE ~PumpLoop(a) /\ Ingests(a)
    BY <1>1, <1>3, <1>4, <2>1, <2>5, IngestOrder DEF Ingests
  <2>6. CASE ~PumpLoop(a) /\ AdoptSnapshot(a)
    <3>1. UNCHANGED minted
      BY <2>6 DEF AdoptSnapshot
    <3>2. SessionOrder(a)'
      BY <1>1, <2>6, AdoptOrder
    <3> QED BY <1>3, <1>4, <2>1, <3>1, <3>2
  <2>7. TypeOK
    BY DEF DocsInv
  <2>8. \/ UNCHANGED retired /\ \A b \in Actors : Kept(b)
        \/ Executes(a) \/ PumpLoop(a) \/ Ingests(a) \/ AdoptSnapshot(a)
    BY <2>7, SessionMoves
  <2> QED BY <2>2, <2>3, <2>4, <2>5, <2>6, <2>8
<1> QED BY <1>5, <1>6

LEMMA NextOrder ==
  ASSUME OrderInv, [Next]_vars
  PROVE  OrderInv'
<1>1. DocsInv'
  BY NextDocs DEF OrderInv
<1>2. CASE Next
  BY <1>1, <1>2, OutsideStepOrder, SessionStepOrder DEF Next, OrderInv
<1>3. CASE UNCHANGED vars
  <2>1. LogOrder'
    BY <1>3 DEF vars, serverVars, OrderInv, LogOrder, Own
  <2>2. ASSUME NEW b \in Actors PROVE SessionOrder(b)'
    BY <1>3 DEF vars, serverVars, docVars, pumpVars, OrderInv, SessionOrder, PostOrder,
       EntryOrder, Own, InFlight
  <2> QED BY <1>1, <2>1, <2>2 DEF OrderInv
<1> QED BY <1>2, <1>3

\* The two properties follow.
LEMMA OrderHolds ==
  ASSUME OrderInv
  PROVE  CommitOrder /\ NeverShownTwice
<1>1. Len(log) \in Nat /\ DOMAIN log = 1 .. Len(log)
      /\ \A i \in 1 .. Len(log) : log[i] \in LogOp
  BY LenProperties, ElementOfSeq DEF OrderInv, DocsInv, TypeOK, ServerTypeOK
<1>2. CommitOrder
  <2> SUFFICES ASSUME NEW i \in 1 .. Len(log), NEW j \in 1 .. Len(log), i < j,
                      log[i].actor = log[j].actor
               PROVE  log[i].n < log[j].n
    BY <1>1 DEF CommitOrder
  <2>1. CASE log[i].actor = None
    BY <1>1, <2>1 DEF OrderInv, LogOrder
  <2>2. CASE log[i].actor \in Actors
    BY <1>1, <2>2 DEF OrderInv, LogOrder, Own
  <2> QED BY <1>1, <2>1, <2>2 DEF LogOp
<1>3. NeverShownTwice
  <2> SUFFICES ASSUME NEW a \in Actors, NEW e \in pending[a], NEW i \in 1 .. rev[a],
                      log[i].actor = a, log[i].n = e.n
               PROVE  FALSE
    BY DEF NeverShownTwice
  <2>1. rev[a] \in Nat /\ rev[a] <= Len(log) /\ e.n \in Nat
    BY SessionNumbers DEF OrderInv
  <2>2. i \in Own(a) /\ i <= rev[a]
    BY <1>1, <2>1 DEF Own
  <2>3. log[i].n < e.n
    BY <2>2 DEF OrderInv, SessionOrder, EntryOrder
  <2> QED BY <2>1, <2>3
<1> QED BY <1>2, <1>3

\* However an intention is posted, reposted, lost or late, it is committed at
\* most once, and intentions of one actor in the order they were made.
THEOREM CommitsInOrder == Spec => []CommitOrder
<1>1. Init => OrderInv
  BY InitOrder
<1>2. OrderInv /\ [Next]_vars => OrderInv'
  BY NextOrder
<1>3. OrderInv => CommitOrder
  BY OrderHolds
<1> QED BY <1>1, <1>2, <1>3, PTL DEF Spec

\* An intention that is confirmed is no longer pending: the optimistic
\* document never holds it twice.
THEOREM ShownOnce == Spec => []NeverShownTwice
<1>1. Init => OrderInv
  BY InitOrder
<1>2. OrderInv /\ [Next]_vars => OrderInv'
  BY NextOrder
<1>3. OrderInv => NeverShownTwice
  BY OrderHolds
<1> QED BY <1>1, <1>2, <1>3, PTL DEF Spec

-----------------------------------------------------------------------------
(* What the authority is shown under an opId *)

Content(x) == [n |-> x.n, gen |-> x.gen, base |-> x.base, key |-> x.key, val |-> x.val]

\* What the authority was shown of a, or may be shown by a post on its way.
Contents(a) == {Content(x) : x \in InFlight(a)} \cup {Content(log[i]) : i \in Own(a)}

\* What was shown under an identity of e is older than e's present one, or is
\* what e is submitted as.
Untaken(a, e) ==
  \A x \in Contents(a) : x.n = e.n =>
    x.gen <= e.gen /\ (x.gen = e.gen => e.attempts # {} /\ x = Content(Request(a, e)))

WireOrder(a) ==
  /\ \A x, y \in Contents(a) : SameOp(x, y) => x = y
  /\ \A e \in pending[a] : Untaken(a, e)

WireInv == OrderInv /\ \A a \in Actors : WireOrder(a)

\* The parts of a content, and the numbers in it.
LEMMA ContentFields ==
  ASSUME NEW x
  PROVE  /\ Content(x).n = x.n /\ Content(x).gen = x.gen /\ Content(x).base = x.base
         /\ Content(x).key = x.key /\ Content(x).val = x.val
BY DEF Content

LEMMA ShownNumbers ==
  ASSUME OrderInv, NEW a \in Actors, NEW x \in Contents(a)
  PROVE  x.n \in Nat /\ x.gen \in Nat /\ x.n <= minted[a]
<1> USE DEF OrderInv
<1>1. CASE \E y \in InFlight(a) : x = Content(y)
  <2>1. PICK y \in InFlight(a) : x = Content(y)
    BY <1>1
  <2>2. y \in Post /\ y.n <= minted[a]
    BY SessionNumbers DEF SessionOrder, PostOrder
  <2> QED BY <2>1, <2>2, ContentFields DEF Post
<1>2. CASE \E i \in Own(a) : x = Content(log[i])
  <2>1. PICK i \in Own(a) : x = Content(log[i])
    BY <1>2
  <2>2. log[i].n \in Nat /\ log[i].gen \in Nat /\ log[i].n <= minted[a]
    BY SessionNumbers DEF LogOrder, Own
  <2> QED BY <2>1, <2>2, ContentFields
<1> QED BY <1>1, <1>2 DEF Contents

\* A session whose queue does not move, and that shows nothing new.
LEMMA KeptWire ==
  ASSUME NEW b \in Actors, Kept(b), Contents(b)' \subseteq Contents(b), WireOrder(b)
  PROVE  WireOrder(b)'
<1>1. \A e \in pending[b] : Request(b, e)' = Request(b, e)
  BY DEF Kept, Request
<1> QED BY <1>1 DEF Kept, WireOrder, Untaken

\* A new intention has a number of its own.
LEMMA ExecutesWire ==
  ASSUME OrderInv, NEW a \in Actors, WireOrder(a), Contents(a)' \subseteq Contents(a), Executes(a)
  PROVE  WireOrder(a)'
<1>1. PICK cmd, origin, rec, found : Run(a, cmd, origin, rec, found)
  BY DEF Executes
<1>0. PICK e : e = NewEntry(a, cmd, origin, rec, found)
  OBVIOUS
<1>2. e.n = minted[a] + 1
  BY <1>0 DEF NewEntry
<1>3. pending'[a] = pending[a] \cup {e} /\ rev' = rev
  BY <1>0, <1>1 DEF Run, Executes, OrderInv, DocsInv, TypeOK, DocTypeOK
<1>4. \A x \in Contents(a) : x.n # e.n
  BY <1>2, ShownNumbers, SessionNumbers DEF OrderInv
<1>5. \A f : Request(a, f)' = Request(a, f)
  BY <1>3 DEF Request
<1> QED BY <1>3, <1>4, <1>5 DEF WireOrder, Untaken

\* Every intention a rebase keeps has a new identity.
LEMMA RebaseWire ==
  ASSUME OrderInv, NEW a \in Actors, WireOrder(a), Contents(a)' \subseteq Contents(a),
         NEW conf, NEW r \in Nat, NEW skipped, NEW reported, NEW undoNow, NEW redoNow,
         Rebase(a, conf, r, skipped, reported, undoNow, redoNow)
  PROVE  WireOrder(a)'
<1> DEFINE E == pending[a] \ skipped
<1>1. PICK K \in SUBSET E :
        \E w \in [K -> Val] : Rebuilt(a, conf, r, E, K, w, reported, undoNow, redoNow)
  BY Zenon DEF Rebase
<1>2. PICK w \in [K -> Val] : Rebuilt(a, conf, r, E, K, w, reported, undoNow, redoNow)
  BY <1>1
<1>3. pending'[a] = {Remint(e, w[e], r) : e \in K}
  BY <1>2 DEF Rebuilt, OrderInv, DocsInv, TypeOK, DocTypeOK
<1>4. ASSUME NEW e \in K, NEW x \in Contents(a), x.n = e.n
      PROVE  x.gen < Remint(e, w[e], r).gen
  <2>1. e \in Entry /\ e \in pending[a] /\ w[e] \in Val /\ e.gen \in Nat
    BY SessionNumbers DEF OrderInv
  <2>2. Remint(e, w[e], r).gen = e.gen + 1
    BY <2>1, RemintType
  <2>3. x.gen \in Nat /\ x.gen <= e.gen
    BY <1>4, <2>1, ShownNumbers DEF WireOrder, Untaken
  <2> QED BY <2>1, <2>2, <2>3
<1>5. ASSUME NEW g \in pending'[a], NEW x \in Contents(a)', x.n = g.n
      PROVE  x.gen <= g.gen /\ x.gen # g.gen
  <2>1. PICK e \in K : g = Remint(e, w[e], r)
    BY <1>3
  <2>2. e \in Entry /\ e.gen \in Nat /\ w[e] \in Val
    BY SessionNumbers DEF OrderInv
  <2>3. g.n = e.n /\ g.gen \in Nat
    BY <2>1, <2>2, RemintType
  <2>4. x.gen < g.gen /\ x.gen \in Nat
    BY <1>4, <1>5, <2>1, <2>3, ShownNumbers
  <2> QED BY <2>3, <2>4
<1> QED BY <1>5 DEF WireOrder, Untaken

\* The three ways to ingest the next op.
LEMMA IngestWire ==
  ASSUME OrderInv, NEW a \in Actors, WireOrder(a), Contents(a)' \subseteq Contents(a), Ingests(a)
  PROVE  WireOrder(a)'
<1>1. PICK r \in 1 .. Len(log) : IngestOrdered(a, r)
  BY DEF Ingests
<1>2. CASE Ack(a, log[r], r)
  <2>1. PICK h \in pending[a] : IsHead(a, h) /\ pending' = [pending EXCEPT ![a] = pending[a] \ {h}]
    BY <1>2 DEF Ack
  <2>2. pending'[a] = pending[a] \ {h}
    BY <2>1 DEF OrderInv, DocsInv, TypeOK, DocTypeOK
  <2>3. ASSUME NEW e \in pending[a] \ {h} PROVE e.attempts = {}
    <3>1. h.n \in Nat /\ e.n \in Nat /\ h.n < e.n
      BY <2>1, SessionNumbers DEF OrderInv, IsHead
    <3> QED BY <3>1 DEF OrderInv, SessionOrder, EntryOrder
  <2> QED BY <2>2, <2>3 DEF WireOrder, Untaken
<1>3. CASE ConfirmPending(a, log[r], r) \/ ApplyForeign(a, log[r], r)
  <2>1. \E conf, skipped, undoNow, redoNow : Rebase(a, conf, r, skipped, {}, undoNow, redoNow)
    BY <1>3 DEF ConfirmPending, ApplyForeign
  <2>2. r \in Nat
    OBVIOUS
  <2> QED BY <2>1, <2>2, RebaseWire
<1> QED BY <1>1, <1>2, <1>3 DEF IngestOrdered

LEMMA AdoptWire ==
  ASSUME OrderInv, NEW a \in Actors, WireOrder(a), Contents(a)' \subseteq Contents(a),
         AdoptSnapshot(a)
  PROVE  WireOrder(a)'
<1> DEFINE snap == sync[a].reply
           dropped == Ambiguous(a, snap.rev)
           reported == {e.n : e \in dropped}
<1>1. Rebase(a, snap.doc, snap.rev, dropped, reported, {}, {})
  BY DEF AdoptSnapshot
<1>2. snap.rev \in Nat
  BY DEF AdoptSnapshot, Fetched, OrderInv, DocsInv, TypeOK, SyncTypeOK, SnapshotReply
<1> HIDE DEF snap, dropped, reported
<1> QED BY <1>1, <1>2, RebaseWire

\* The head goes out under an identity that was not shown, or that was shown
\* as what it still is.
LEMMA PumpWire ==
  ASSUME OrderInv, NEW a \in Actors, WireOrder(a), PumpLoop(a)
  PROVE  WireOrder(a)'
<1>1. UNCHANGED <<log, late, rev>> /\ Own(a)' = Own(a)
  BY DEF PumpLoop, serverVars, Own
<1>2. CASE UNCHANGED pending /\ pump' = [pump EXCEPT ![a] = "exit"]
  <2>1. Kept(a) /\ InFlight(a)' \subseteq InFlight(a)
    BY <1>2 DEF InFlight, PumpLoop, serverVars, Kept, OrderInv, DocsInv, TypeOK, PumpTypeOK
  <2>2. Contents(a)' \subseteq Contents(a)
    BY <1>1, <2>1 DEF Contents, Content
  <2> QED BY <2>1, <2>2, KeptWire
<1>3. ASSUME NEW h \in pending[a], IsHead(a, h),
             pending' = [pending EXCEPT ![a] = (pending[a] \ {h}) \cup {Attempted(h, rev[a])}],
             post' = [post EXCEPT ![a] = [req |-> Request(a, h), reply |-> None]],
             pump' = [pump EXCEPT ![a] = "posting"]
      PROVE  WireOrder(a)'
  <2>1. PICK g, c : g = Attempted(h, rev[a]) /\ c = Content(Request(a, h))
    OBVIOUS
  <2>2. pending'[a] = (pending[a] \ {h}) \cup {g}
    BY <1>3, <2>1 DEF OrderInv, DocsInv, TypeOK, DocTypeOK
  <2>3. \A x \in Contents(a)' : x = c \/ x \in Contents(a)
    <3>1. InFlight(a)' = {y \in late : y.actor = a} \cup {Request(a, h)}
      BY <1>1, <1>3 DEF InFlight, OrderInv, DocsInv, TypeOK, PumpTypeOK
    <3>2. \A y \in InFlight(a)' : y = Request(a, h) \/ y \in InFlight(a)
      BY <3>1 DEF InFlight
    <3>3. \A i \in Own(a) : log'[i] = log[i]
      BY <1>1
    <3> QED BY <1>1, <2>1, <3>2, <3>3 DEF Contents, Content
  <2>4. h \in Entry /\ h.n \in Nat /\ h.gen \in Nat
    BY SessionNumbers DEF OrderInv
  <2>5. c.n = h.n /\ c.gen = h.gen
    BY <2>1 DEF Content, Request
  <2>6. /\ g.n = h.n /\ g.gen = h.gen /\ g.cmd = h.cmd /\ g.val = h.val
        /\ g.attempts # {}
    <3> DEFINE more == h.attempts \cup {[gen |-> h.gen, base |-> rev[a], val |-> h.val]}
    <3>1. (g = h /\ h.attempts # {}) \/ g = [h EXCEPT !.attempts = more]
      BY <2>1 DEF Attempted
    <3>2. more # {}
      OBVIOUS
    <3> HIDE DEF more
    <3> QED BY <2>4, <3>1, <3>2 DEF Entry
  <2>7. Content(Request(a, g))' = c /\ \A e : Content(Request(a, e))' = Content(Request(a, e))
    BY <1>1, <2>1, <2>6 DEF Content, Request
  <2>8. \A x \in Contents(a) : SameOp(x, c) => x = c
    BY <2>1, <2>5 DEF SameOp, WireOrder, Untaken
  <2>9. \A x, y \in Contents(a)' : SameOp(x, y) => x = y
    BY <2>3, <2>8 DEF SameOp, WireOrder
  <2>10. ASSUME NEW e \in pending[a] \ {h} PROVE Untaken(a, e)'
    <3>1. c.n # e.n
      BY <2>5, SessionNumbers DEF OrderInv
    <3> QED BY <2>3, <2>7, <3>1 DEF WireOrder, Untaken
  <2>11. Untaken(a, g)'
    <3>1. \A x \in Contents(a) : x.n = g.n => x.gen <= g.gen /\ (x.gen = g.gen => x = c)
      BY <2>1, <2>6 DEF WireOrder, Untaken
    <3> QED BY <2>3, <2>4, <2>5, <2>6, <2>7, <3>1 DEF Untaken
  <2> QED BY <2>2, <2>9, <2>10, <2>11 DEF WireOrder
<1> QED BY <1>2, <1>3 DEF PumpLoop

-----------------------------------------------------------------------------
(* Steps that show nothing new *)

\* Where the log stays and nothing is posted, nothing new is shown.
LEMMA ShownKept ==
  ASSUME NEW b \in Actors, UNCHANGED log, NoNewPost(b)
  PROVE  Contents(b)' \subseteq Contents(b)
BY DEF NoNewPost, Contents, Own, Content

\* What a served post appends was on its way.
LEMMA ShownServed ==
  ASSUME OrderInv, NEW a \in Actors, NEW x \in InFlight(a), log' = Logged(x),
         NEW b \in Actors, NoNewPost(b)
  PROVE  Contents(b)' \subseteq Contents(b)
<1> DEFINE op == [actor |-> x.actor, n |-> x.n, gen |-> x.gen, base |-> x.base,
                  key |-> x.key, val |-> x.val, doc |-> Write(DocAt(Len(log)), x)]
<1>1. log' = Append(log, op)
  BY DEF Logged
<1>2. Content(op) = Content(x) /\ op.actor = x.actor
  BY DEF Content
<1> HIDE DEF op
<1>3. /\ Len(log') = Len(log) + 1 /\ log'[Len(log) + 1] = op /\ Len(log) \in Nat
      /\ \A i \in 1 .. Len(log) : log'[i] = log[i]
  BY <1>1, AppendProperties, LenProperties DEF OrderInv, DocsInv, TypeOK, ServerTypeOK
<1>4. x.actor = a
  BY DEF OrderInv, SessionOrder, PostOrder
<1>5. ASSUME NEW i \in Own(b)' PROVE Content(log'[i]) \in Contents(b)
  <2>1. CASE i \in 1 .. Len(log)
    <3>1. i \in Own(b) /\ log'[i] = log[i]
      BY <1>3, <1>5, <2>1 DEF Own
    <3> QED BY <3>1 DEF Contents
  <2>2. CASE i = Len(log) + 1
    <3>1. b = a /\ log'[i] = op
      BY <1>2, <1>3, <1>4, <1>5, <2>2 DEF Own
    <3> QED BY <1>2, <3>1 DEF Contents
  <2> QED BY <1>3, <2>1, <2>2 DEF Own
<1>6. \A y \in InFlight(b)' : Content(y) \in Contents(b)
  BY DEF NoNewPost, Contents
<1>7. Contents(b)' = {Content(y) : y \in InFlight(b)'} \cup {Content(log'[i]) : i \in Own(b)'}
  BY DEF Contents, Content
<1> QED BY <1>5, <1>6, <1>7

LEMMA ShownForeign ==
  ASSUME OrderInv, NEW r, log' = Logged(r), r.actor = None, NEW b \in Actors, NoNewPost(b)
  PROVE  Contents(b)' \subseteq Contents(b)
<1>1. /\ Len(log) \in Nat /\ Len(log') = Len(log) + 1 /\ log'[Len(log) + 1].actor = None
      /\ \A i \in 1 .. Len(log) : log'[i] = log[i]
  BY Appended, SessionNumbers DEF OrderInv
<1>2. Own(b)' = Own(b) /\ \A i \in Own(b) : log'[i] = log[i]
  BY <1>1, SessionAssumption DEF Own
<1> QED BY <1>2 DEF NoNewPost, Contents, Content
\* A post that is served shows nothing new.
LEMMA ServeWire ==
  ASSUME WireInv, NEW a \in Actors, NEW x \in InFlight(a), PostOp(x),
         \A b \in Actors : Kept(b) /\ NoNewPost(b)
  PROVE  \A b \in Actors : WireOrder(b)'
<1> USE DEF WireInv
<1>1. log' = log \/ log' = Logged(x)
  BY AcceptedAtHead DEF OrderInv
<1>2. \A b \in Actors : Contents(b)' \subseteq Contents(b)
  BY <1>1, ShownKept, ShownServed
<1> QED BY <1>2, KeptWire

LEMMA OutsideStepWire ==
  ASSUME WireInv, OutsideStep
  PROVE  \A b \in Actors : WireOrder(b)'
<1> USE DEF WireInv
<1>1. \A b \in Actors : Kept(b) /\ NoNewPost(b)
  BY DEF OutsideStep, ServeLate, ForeignCheckpoint, Compact, ForeignOp, docVars, pumpVars,
     Kept, NoNewPost, InFlight
<1>2. CASE ServeLate
  <2>1. PICK x \in late : PostOp(x)
    BY <1>2 DEF ServeLate
  <2>2. x.actor \in Actors /\ x \in InFlight(x.actor)
    BY DEF InFlight, OrderInv, DocsInv, TypeOK, ServerTypeOK, Post
  <2> QED BY <1>1, <2>1, <2>2, ServeWire
<1>3. ASSUME NEW k \in Keys, NEW v \in Val, ForeignOp(k, v)
      PROVE  \A b \in Actors : WireOrder(b)'
  <2>1. PICK r : /\ r = [actor |-> None, n |-> Len(log) + 1, gen |-> 1,
                         base |-> Len(log), key |-> k, val |-> v]
                 /\ log' = Logged(r)
    BY <1>3 DEF ForeignOp
  <2>2. r.actor = None
    BY <2>1
  <2> QED BY <1>1, <2>1, <2>2, ShownForeign, KeptWire
<1>4. CASE UNCHANGED log
  BY <1>1, <1>4, ShownKept, KeptWire
<1> QED BY <1>2, <1>3, <1>4 DEF OutsideStep, ForeignCheckpoint, Compact

LEMMA SessionStepWire ==
  ASSUME WireInv, NEW a \in Actors, SessionStep(a)
  PROVE  \A b \in Actors : WireOrder(b)'
<1> USE DEF WireInv, OrderInv
<1>1. \A b \in Actors : b # a \/ ~PumpLoop(a) => NoNewPost(b)
  BY NoNewPosts
<1>2. \A b \in Actors : b # a => Kept(b)
  BY SessionStepDocs
<1>3. CASE ServePost(a)
  <2>1. /\ PostOp(post[a].req) /\ post[a].req \in InFlight(a)
        /\ \A b \in Actors : Kept(b)
    BY <1>3 DEF ServePost, InFlight, docVars, Kept
  <2>2. \A b \in Actors : NoNewPost(b)
    BY <1>3 DEF ServePost, NoNewPost, InFlight, DocsInv, TypeOK, PumpTypeOK, Exchange
  <2> QED BY <2>1, <2>2, ServeWire
<1>4. CASE ~ServePost(a)
  <2>1. UNCHANGED log
    BY <1>4, SessionLog
  <2>2. \A b \in Actors : b # a => WireOrder(b)'
    BY <1>1, <1>2, <2>1, ShownKept, KeptWire
  <2>3. ~PumpLoop(a) => Contents(a)' \subseteq Contents(a)
    BY <1>1, <2>1, ShownKept
  <2>4. TypeOK
    BY DEF DocsInv
  <2>5. WireOrder(a)'
    BY <2>3, <2>4, SessionMoves, KeptWire, ExecutesWire, PumpWire, IngestWire, AdoptWire
  <2> QED BY <2>2, <2>5
<1> QED BY <1>3, <1>4

LEMMA NextWire ==
  ASSUME WireInv, [Next]_vars
  PROVE  WireInv'
<1>1. OrderInv'
  BY NextOrder DEF WireInv
<1>2. CASE Next
  BY <1>1, <1>2, OutsideStepWire, SessionStepWire DEF Next, WireInv
<1>3. CASE UNCHANGED vars
  <2>1. ASSUME NEW b \in Actors PROVE WireOrder(b)'
    <3>1. Kept(b) /\ UNCHANGED log /\ NoNewPost(b)
      BY <1>3 DEF vars, serverVars, docVars, pumpVars, Kept, NoNewPost, InFlight
    <3> QED BY <3>1, ShownKept, KeptWire DEF WireInv
  <2> QED BY <1>1, <2>1 DEF WireInv
<1> QED BY <1>2, <1>3

LEMMA InitWire == Init => WireInv
<1> SUFFICES ASSUME Init PROVE WireInv
  OBVIOUS
<1>1. \A a \in Actors : Own(a) = {} /\ InFlight(a) = {} /\ pending[a] = {}
  BY DEF Init, Own, InFlight
<1> QED BY <1>1, InitOrder DEF WireInv, WireOrder, Contents

\* Posts with the same content are the same.
LEMMA SameContent ==
  ASSUME NEW x \in Post, NEW y \in Post, x.actor = y.actor, Content(x) = Content(y)
  PROVE  x = y
<1>1. x.n = y.n /\ x.gen = y.gen /\ x.base = y.base /\ x.key = y.key /\ x.val = y.val
  BY ContentFields
<1> QED BY <1>1 DEF Post

LEMMA WireHolds ==
  ASSUME WireInv
  PROVE  OpIdNamesOneContent
<1> USE DEF WireInv
<1>1. ASSUME NEW x \in OnTheWire
      PROVE  x \in Post /\ x.actor \in Actors /\ x \in InFlight(x.actor)
  <2>1. CASE x \in late
    BY <2>1 DEF InFlight, OrderInv, DocsInv, TypeOK, ServerTypeOK, Post
  <2>2. CASE \E a \in Actors : pump[a] = "posting" /\ x = post[a].req
    <3>1. PICK a \in Actors : pump[a] = "posting" /\ x = post[a].req
      BY <2>2
    <3>2. x \in InFlight(a)
      BY <3>1 DEF InFlight
    <3>3. x.actor = a /\ x \in Post
      BY <3>2, SessionNumbers DEF OrderInv, SessionOrder, PostOrder
    <3> QED BY <3>2, <3>3
  <2> QED BY <1>1, <2>1, <2>2 DEF OnTheWire
<1>2. ASSUME NEW x \in OnTheWire, NEW y \in OnTheWire, x.actor = y.actor, SameOp(x, y)
      PROVE  x = y
  <2>1. Content(x) \in Contents(x.actor) /\ Content(y) \in Contents(x.actor)
    BY <1>1, <1>2 DEF Contents
  <2>2. SameOp(Content(x), Content(y))
    BY <1>2, ContentFields DEF SameOp
  <2>3. Content(x) = Content(y)
    BY <1>1, <2>1, <2>2 DEF WireOrder
  <2> QED BY <1>1, <1>2, <2>3, SameContent
<1>3. ASSUME NEW x \in OnTheWire, NEW i \in DOMAIN log, x.actor = log[i].actor, SameOp(x, log[i])
      PROVE  x.base = log[i].base /\ x.val = log[i].val
  <2>1. DOMAIN log = 1 .. Len(log)
    BY LenProperties DEF OrderInv, DocsInv, TypeOK, ServerTypeOK
  <2>2. Content(x) \in Contents(x.actor) /\ Content(log[i]) \in Contents(x.actor)
    BY <1>1, <1>3, <2>1 DEF Contents, Own
  <2>3. SameOp(Content(x), Content(log[i]))
    BY <1>3, ContentFields DEF SameOp
  <2>4. Content(x) = Content(log[i])
    BY <1>1, <2>2, <2>3 DEF WireOrder
  <2> QED BY <2>4, ContentFields
<1> QED BY <1>2, <1>3 DEF OpIdNamesOneContent

\* One opId never names two contents: what is posted under an identity that
\* was posted before, or is in the log, is what it was then.
THEOREM OpIdsAreUnambiguous == Spec => []OpIdNamesOneContent
<1>1. WireInv /\ [Next]_vars => WireInv'
  BY NextWire
<1>2. WireInv => OpIdNamesOneContent
  BY WireHolds
<1> QED BY <1>1, <1>2, InitWire, PTL DEF Spec
=============================================================================
