------------------------ MODULE SharedSessionDocuments ------------------------
(***************************************************************************)
(* Proof that the confirmed documents are prefixes of the log, that the     *)
(* optimistic ones are the replay of the queue, that checkpoints hold       *)
(* documents of the log, and that the history is bounded and follows every  *)
(* rebase, for every value of the constants.                                *)
(***************************************************************************)
EXTENDS SharedSessionTypes, FiniteSetTheorems

-----------------------------------------------------------------------------
(* The inductive invariant *)

\* Every entry of the log carries the document its op makes of the one before.
LogIsSound ==
  \A i \in 1 .. Len(log) : log[i].doc = Write(DocAt(i - 1), log[i])

\* A revision with its document, as checkpoints, publications and snapshot
\* replies hold them, is one of the log.
Faithful(c) == c.rev \in 0 .. Len(log) /\ c.doc = DocAt(c.rev)

CopiesAreFaithful ==
  /\ Faithful(checkpoint)
  /\ \A a \in Actors :
       /\ put[a] # None => Faithful(put[a])
       /\ (sync[a].pc = "snapshot" /\ sync[a].reply # None) => Faithful(sync[a].reply)

\* The numbers of E are below n and tell its entries apart.
Numbered(E, n) ==
  \A e \in E : e.n < n /\ \A f \in E : f.n = e.n => f = e

Writes(E) == [e \in E |-> e.val]

\* The documents of one session.
SessionDocs(a) ==
  /\ rev[a] \in 0 .. Len(log) /\ confirmed[a] = DocAt(rev[a])
  /\ Numbered(pending[a], minted[a] + 1)
  /\ store[a] = Ground(confirmed[a], Writes(pending[a]), minted[a] + 1)

DocsOK == LogIsSound /\ CopiesAreFaithful /\ \A a \in Actors : SessionDocs(a)

DocsInv == TypeOK /\ DocsOK

-----------------------------------------------------------------------------
(* What replaying writes gives *)

\* Entries with numbers that tell them apart.
Distinct(E) == \A x \in E : x.n \in Nat /\ \A y \in E : y.n = x.n => y = x

\* e is the last entry of E below n that writes k.
LastWriter(e, E, n, k) ==
  /\ e \in E /\ e.n < n /\ e.cmd.key = k
  /\ \A x \in E : (x.n < n /\ x.cmd.key = k) => x.n <= e.n

\* The writers of k in v below m are, but for the entries' identities, those
\* in w below n.
SameWriters(v, m, w, n, k) ==
  /\ \A x \in DOMAIN v : (x.n < m /\ x.cmd.key = k) =>
       \E y \in DOMAIN w : y.n < n /\ y.cmd.key = k /\ y.n = x.n /\ w[y] = v[x]
  /\ \A y \in DOMAIN w : (y.n < n /\ y.cmd.key = k) =>
       \E x \in DOMAIN v : x.n < m /\ x.cmd.key = k /\ x.n = y.n

\* The last of the writers of a key decides.
LEMMA TopWriter ==
  ASSUME NEW conf, NEW w, NEW n, NEW k \in Keys, Distinct(DOMAIN w),
         NEW e, LastWriter(e, DOMAIN w, n, k)
  PROVE  Ground(conf, w, n)[k] = w[e]
<1> DEFINE W == {x \in DOMAIN w : x.n < n /\ x.cmd.key = k}
           top == CHOOSE x \in W : \A y \in W : y.n <= x.n
<1>1. e \in W /\ \A y \in W : y.n <= e.n
  BY DEF LastWriter
<1>2. top \in W /\ \A y \in W : y.n <= top.n
  BY <1>1
<1>3. top.n \in Nat /\ e.n \in Nat
  BY <1>1, <1>2 DEF Distinct
<1>4. top.n <= e.n /\ e.n <= top.n
  BY <1>1, <1>2
<1>5. top = e
  BY <1>1, <1>2, <1>3, <1>4 DEF Distinct
<1>6. Ground(conf, w, n)[k] = w[top]
  BY <1>1 DEF Ground
<1> QED BY <1>5, <1>6

\* A key nobody writes keeps its value.
LEMMA NoWriter ==
  ASSUME NEW conf, NEW w, NEW n, NEW k \in Keys,
         \A x \in DOMAIN w : ~(x.n < n /\ x.cmd.key = k)
  PROVE  Ground(conf, w, n)[k] = conf[k]
BY DEF Ground

\* A key somebody writes has a last writer.
LEMMA HasTopWriter ==
  ASSUME NEW E, NEW n \in Nat, NEW k, Distinct(E),
         NEW f \in E, f.n < n, f.cmd.key = k
  PROVE  \E e : LastWriter(e, E, n, k)
<1> DEFINE N == {x.n : x \in {y \in E : y.n < n /\ y.cmd.key = k}}
<1>1. N \in SUBSET Nat /\ N # {} /\ \A m \in N : m <= n
  BY DEF Distinct
<1> HIDE DEF N
<1>2. PICK m \in N : \A x \in N : x <= m
  BY <1>1, Greatest
<1> QED BY <1>2 DEF N, LastWriter

\* Where the writers of a key agree in numbers and values, so do the documents.
LEMMA KeySame ==
  ASSUME NEW c, NEW d, NEW v, NEW w, NEW m \in Nat, NEW n \in Nat, NEW k \in Keys,
         c[k] = d[k], Distinct(DOMAIN v), Distinct(DOMAIN w),
         SameWriters(v, m, w, n, k)
  PROVE  Ground(c, v, m)[k] = Ground(d, w, n)[k]
<1>1. CASE \A x \in DOMAIN v : ~(x.n < m /\ x.cmd.key = k)
  <2>1. \A y \in DOMAIN w : ~(y.n < n /\ y.cmd.key = k)
    BY <1>1 DEF SameWriters
  <2> QED BY <1>1, <2>1, NoWriter
<1>2. ASSUME NEW x \in DOMAIN v, x.n < m, x.cmd.key = k
      PROVE  Ground(c, v, m)[k] = Ground(d, w, n)[k]
  <2>1. PICK e : LastWriter(e, DOMAIN v, m, k)
    BY <1>2, HasTopWriter
  <2>2. PICK f \in DOMAIN w : f.n < n /\ f.cmd.key = k /\ f.n = e.n /\ w[f] = v[e]
    BY <2>1 DEF SameWriters, LastWriter
  <2>3. LastWriter(f, DOMAIN w, n, k)
    BY <2>1, <2>2 DEF SameWriters, LastWriter
  <2>4. Ground(c, v, m)[k] = v[e]
    BY <2>1, TopWriter
  <2>5. Ground(d, w, n)[k] = w[f]
    BY <2>3, TopWriter
  <2> QED BY <2>2, <2>4, <2>5
<1> QED BY <1>1, <1>2

\* Documents that agree in every key are equal.
LEMMA GroundExtensional ==
  ASSUME NEW c, NEW d, NEW v, NEW w, NEW m, NEW n,
         \A k \in Keys : Ground(c, v, m)[k] = Ground(d, w, n)[k]
  PROVE  Ground(c, v, m) = Ground(d, w, n)
BY DEF Ground

\* A replay is a function on the keys.
LEMMA GroundFunction ==
  ASSUME NEW c, NEW v, NEW m
  PROVE  Ground(c, v, m) = [k \in Keys |-> Ground(c, v, m)[k]]
BY DEF Ground

\* The document that has the value written in its key, and agrees elsewhere, is
\* the written one.
LEMMA WriteExtensional ==
  ASSUME NEW g, NEW h, NEW key, NEW val,
         g = [k \in Keys |-> g[k]], h = [k \in Keys |-> h[k]],
         key \in Keys, h[key] = val, \A k \in Keys : k # key => h[k] = g[k]
  PROVE  h = Write(g, [key |-> key, val |-> val])
<1> DEFINE w == Write(g, [key |-> key, val |-> val])
<1>1. w = [g EXCEPT ![key] = val]
  BY DEF Write
<1>2. DOMAIN g = Keys /\ DOMAIN h = Keys
  OBVIOUS
<1>3. w = [k \in Keys |-> IF k = key THEN val ELSE g[k]]
  BY <1>1, <1>2
<1>4. h = [k \in Keys |-> IF k = key THEN val ELSE g[k]]
  OBVIOUS
<1> QED BY <1>3, <1>4

\* A new intention writes on what the others leave.
LEMMA GroundAppend ==
  ASSUME NEW conf \in Doc, NEW E \in SUBSET Entry, NEW n \in Nat, Numbered(E, n),
         NEW e \in Entry, e.n = n
  PROVE  /\ Numbered(E \cup {e}, n + 1)
         /\ Ground(conf, Writes(E \cup {e}), n + 1)
              = Write(Ground(conf, Writes(E), n), [key |-> e.cmd.key, val |-> e.val])
<1> DEFINE v == Writes(E)
           w == Writes(E \cup {e})
<1>1. /\ DOMAIN v = E /\ \A x \in E : v[x] = x.val
      /\ DOMAIN w = E \cup {e} /\ \A x \in E \cup {e} : w[x] = x.val
  BY DEF Writes
<1>2. \A x \in E \cup {e} : x.n \in Nat
  BY DEF Entry
<1>3. \A x \in E : x.n < n /\ \A y \in E : y.n = x.n => y = x
  BY DEF Numbered
<1>4. Numbered(E \cup {e}, n + 1)
  BY <1>2, <1>3 DEF Numbered
<1>5. Distinct(E) /\ Distinct(E \cup {e})
  BY <1>2, <1>3, <1>4 DEF Numbered, Distinct
<1> HIDE DEF v, w
<1>6. Ground(conf, w, n + 1)[e.cmd.key] = e.val
  <2>1. LastWriter(e, DOMAIN w, n + 1, e.cmd.key)
    BY <1>1, <1>2 DEF LastWriter
  <2>2. e.cmd.key \in Keys
    BY DEF Entry, Command
  <2>3. Ground(conf, w, n + 1)[e.cmd.key] = w[e]
    BY <1>1, <1>5, <2>1, <2>2, TopWriter
  <2> QED BY <1>1, <2>3
<1>7. ASSUME NEW k \in Keys, k # e.cmd.key
      PROVE  Ground(conf, v, n)[k] = Ground(conf, w, n + 1)[k]
  <2>1. SameWriters(v, n, w, n + 1, k)
    BY <1>1, <1>2, <1>3, <1>7 DEF SameWriters
  <2> QED BY <1>1, <1>5, <2>1, KeySame
<1>8. Ground(conf, w, n + 1)
        = Write(Ground(conf, v, n), [key |-> e.cmd.key, val |-> e.val])
  <2> DEFINE g == Ground(conf, v, n)
             h == Ground(conf, w, n + 1)
  <2>1. g = [k \in Keys |-> g[k]] /\ h = [k \in Keys |-> h[k]]
    BY GroundFunction
  <2>2. h[e.cmd.key] = e.val /\ \A k \in Keys : k # e.cmd.key => h[k] = g[k]
    BY <1>6, <1>7
  <2> HIDE DEF g, h
  <2>3. e.cmd.key \in Keys
    BY DEF Entry, Command
  <2>4. h = Write(g, [key |-> e.cmd.key, val |-> e.val])
    BY <2>1, <2>2, <2>3, WriteExtensional
  <2> QED BY <2>4 DEF g, h
<1> QED BY <1>4, <1>8 DEF v, w

\* Entries that become others of the same number, key and value leave the
\* document as it is.
LEMMA GroundMoved ==
  ASSUME NEW conf \in Doc, NEW v, NEW E \in SUBSET Entry, NEW n \in Nat,
         DOMAIN v \in SUBSET Entry, Numbered(DOMAIN v, n), Numbered(E, n),
         \A x \in DOMAIN v : \E y \in E : y.n = x.n /\ y.cmd = x.cmd /\ y.val = v[x],
         \A y \in E : \E x \in DOMAIN v : y.n = x.n /\ y.cmd = x.cmd
  PROVE  Ground(conf, v, n) = Ground(conf, Writes(E), n)
<1> DEFINE w == Writes(E)
<1>1. DOMAIN w = E /\ \A x \in E : w[x] = x.val
  BY DEF Writes
<1> HIDE DEF w
<1>2. Distinct(DOMAIN v) /\ Distinct(DOMAIN w)
  BY <1>1 DEF Numbered, Distinct, Entry
<1>3. ASSUME NEW k \in Keys PROVE Ground(conf, v, n)[k] = Ground(conf, w, n)[k]
  <2>1. SameWriters(v, n, w, n, k)
    BY <1>1 DEF SameWriters
  <2> QED BY <1>2, <2>1, KeySame
<1> QED BY <1>3 DEF Ground, w

\* With no entry the document is the one it starts from.
LEMMA GroundEmpty ==
  ASSUME NEW conf \in Doc, NEW n
  PROVE  Ground(conf, Writes({}), n) = conf
<1>1. DOMAIN Writes({}) = {}
  BY DEF Writes
<1> QED BY <1>1 DEF Ground, Doc

\* The head may write before or after it leaves the queue.
LEMMA GroundHead ==
  ASSUME NEW conf \in Doc, NEW E \in SUBSET Entry, NEW n \in Nat, Numbered(E, n),
         NEW h \in E, \A x \in E : h.n <= x.n,
         NEW op, op.key = h.cmd.key, op.val = h.val
  PROVE  /\ Numbered(E \ {h}, n)
         /\ Ground(Write(conf, op), Writes(E \ {h}), n) = Ground(conf, Writes(E), n)
<1> DEFINE v == Writes(E \ {h})
           w == Writes(E)
           c == Write(conf, op)
<1>1. /\ DOMAIN v = E \ {h} /\ \A x \in E \ {h} : v[x] = x.val
      /\ DOMAIN w = E /\ \A x \in E : w[x] = x.val
  BY DEF Writes
<1>2. h.cmd.key \in Keys /\ h.n < n /\ \A x \in E : x.n \in Nat
  BY DEF Entry, Command, Numbered
<1>3. c[h.cmd.key] = h.val /\ \A k \in Keys : k # h.cmd.key => c[k] = conf[k]
  BY <1>2 DEF Write, Doc
<1>4. Distinct(E) /\ Distinct(E \ {h}) /\ Numbered(E \ {h}, n)
  BY <1>2 DEF Numbered, Distinct
<1> HIDE DEF v, w, c
<1>5. ASSUME NEW k \in Keys, k # h.cmd.key PROVE Ground(c, v, n)[k] = Ground(conf, w, n)[k]
  <2>1. SameWriters(v, n, w, n, k)
    BY <1>1, <1>5 DEF SameWriters
  <2> QED BY <1>1, <1>3, <1>4, <1>5, <2>1, KeySame
<1>6. Ground(c, v, n)[h.cmd.key] = Ground(conf, w, n)[h.cmd.key]
  <2> DEFINE k == h.cmd.key
  <2>1. CASE \A x \in DOMAIN v : ~(x.n < n /\ x.cmd.key = k)
    <3>1. LastWriter(h, DOMAIN w, n, k)
      BY <1>1, <1>2, <2>1 DEF LastWriter
    <3>2. Ground(conf, w, n)[k] = h.val
      BY <1>1, <1>2, <1>4, <3>1, TopWriter
    <3>3. Ground(c, v, n)[k] = c[k]
      <4>1. k \in Keys
        BY <1>2
      <4> HIDE DEF k
      <4> QED BY <2>1, <4>1, NoWriter
    <3> QED BY <1>3, <3>2, <3>3
  <2>2. ASSUME NEW f \in DOMAIN v, f.n < n, f.cmd.key = k
        PROVE  Ground(c, v, n)[k] = Ground(conf, w, n)[k]
    <3>1. PICK e : LastWriter(e, DOMAIN v, n, k)
      BY <1>1, <1>4, <2>2, HasTopWriter
    <3>2. LastWriter(e, DOMAIN w, n, k)
      BY <1>1, <1>2, <3>1 DEF LastWriter
    <3>3. Ground(c, v, n)[k] = v[e] /\ Ground(conf, w, n)[k] = w[e]
      BY <1>1, <1>2, <1>4, <3>1, <3>2, TopWriter
    <3> QED BY <1>1, <3>1, <3>3 DEF LastWriter
  <2> QED BY <2>1, <2>2
<1>7. \A k \in Keys : Ground(c, v, n)[k] = Ground(conf, w, n)[k]
  BY <1>5, <1>6
<1>8. Ground(c, v, n) = Ground(conf, w, n)
  BY <1>7, GroundExtensional
<1> QED BY <1>4, <1>8 DEF v, w, c

-----------------------------------------------------------------------------
(* Steps of the log *)

\* The log keeps what it has, and its documents follow from its ops.
LogExtends ==
  /\ Len(log') \in Nat /\ Len(log) <= Len(log')
  /\ \A i \in 0 .. Len(log) : DocAt(i)' = DocAt(i)
  /\ LogIsSound'

LEMMA Extends ==
  ASSUME ServerTypeOK, LogIsSound, NEW r, log' = log \/ log' = Logged(r)
  PROVE  LogExtends
<1>1. Len(log) \in Nat
  BY LenProperties DEF ServerTypeOK
<1>2. CASE log' = log
  BY <1>1, <1>2 DEF LogExtends, LogIsSound, DocAt
<1>3. CASE log' = Logged(r)
  <2> DEFINE op == [actor |-> r.actor, n |-> r.n, gen |-> r.gen, base |-> r.base,
                    key |-> r.key, val |-> r.val, doc |-> Write(DocAt(Len(log)), r)]
  <2>1. op.key = r.key /\ op.val = r.val /\ op.doc = Write(DocAt(Len(log)), r)
    OBVIOUS
  <2>2. log' = Append(log, op)
    BY <1>3 DEF Logged
  <2> HIDE DEF op
  <2>3. /\ Len(log') = Len(log) + 1 /\ log'[Len(log) + 1] = op
        /\ \A i \in 1 .. Len(log) : log'[i] = log[i]
    BY <2>2, AppendProperties DEF ServerTypeOK
  <2>4. \A i \in 0 .. Len(log) : DocAt(i)' = DocAt(i)
    BY <1>1, <2>3 DEF DocAt
  <2>5. ASSUME NEW i \in 1 .. Len(log') PROVE log'[i].doc = Write(DocAt(i - 1)', log'[i])
    <3>1. CASE i \in 1 .. Len(log)
      <4>1. i - 1 \in 0 .. Len(log)
        BY <1>1, <3>1
      <4> QED BY <2>3, <2>4, <3>1, <4>1 DEF LogIsSound
    <3>2. CASE i = Len(log) + 1
      <4>1. DocAt(i - 1)' = DocAt(Len(log))
        BY <1>1, <2>4, <3>2
      <4> QED BY <2>1, <2>3, <3>2, <4>1 DEF Write
    <3> QED BY <1>1, <2>3, <3>1, <3>2
  <2> QED BY <1>1, <2>3, <2>4, <2>5 DEF LogExtends, LogIsSound
<1> QED BY <1>2, <1>3

-----------------------------------------------------------------------------
(* Steps of one session *)

\* The documents of b stay as they are.
Kept(b) ==
  /\ confirmed'[b] = confirmed[b] /\ rev'[b] = rev[b] /\ store'[b] = store[b]
  /\ pending'[b] = pending[b] /\ minted'[b] = minted[b]

LEMMA KeptDocs ==
  ASSUME TypeOK, LogExtends, NEW b \in Actors, SessionDocs(b), Kept(b)
  PROVE  SessionDocs(b)'
<1>1. Len(log) \in Nat
  BY LenProperties DEF TypeOK, ServerTypeOK
<1>2. rev'[b] \in 0 .. Len(log') /\ DocAt(rev[b])' = DocAt(rev[b])
  BY <1>1 DEF LogExtends, SessionDocs, Kept
<1>3. confirmed'[b] = DocAt(rev[b])'
  BY <1>2 DEF SessionDocs, Kept
<1> QED BY <1>2, <1>3 DEF SessionDocs, Kept

\* Whatever a rebase starts from, the optimistic document is its replay.
LEMMA RebaseDocs ==
  ASSUME TypeOK, NEW a \in Actors, SessionDocs(a), UNCHANGED <<log, minted>>,
         NEW conf \in Doc, NEW r \in 0 .. Len(log), conf = DocAt(r),
         NEW skipped, NEW reported, NEW undoNow, NEW redoNow,
         Rebase(a, conf, r, skipped, reported, undoNow, redoNow)
  PROVE  SessionDocs(a)' /\ \A b \in Actors : b # a => Kept(b)
<1> DEFINE E == pending[a] \ skipped
           n == minted[a] + 1
<1>1. PICK K \in SUBSET E :
        \E w \in [K -> Val] : Rebuilt(a, conf, r, E, K, w, reported, undoNow, redoNow)
  BY Zenon DEF Rebase
<1>2. PICK w \in [K -> Val] : Rebuilt(a, conf, r, E, K, w, reported, undoNow, redoNow)
  BY <1>1
<1> DEFINE P == {Remint(e, w[e], r) : e \in K}
<1>3. K \in SUBSET Entry /\ (\A e \in K : w[e] \in Val) /\ r \in Nat /\ n \in Nat
  BY DEF TypeOK, DocTypeOK, LinkTypeOK
<1>4. /\ confirmed' = [confirmed EXCEPT ![a] = conf] /\ rev' = [rev EXCEPT ![a] = r]
      /\ store' = [store EXCEPT ![a] = Ground(conf, w, n)]
      /\ pending' = [pending EXCEPT ![a] = P]
  BY <1>2 DEF Rebuilt
<1>5. Numbered(K, n)
  BY DEF SessionDocs, Numbered
<1>6. /\ P \in SUBSET Entry
      /\ \A e \in K : \E y \in P : y.n = e.n /\ y.cmd = e.cmd /\ y.val = w[e]
      /\ \A y \in P : \E e \in K : y = Remint(e, w[e], r) /\ y.n = e.n /\ y.cmd = e.cmd
  BY <1>3, RemintType
<1>7. Numbered(P, n)
  <2> SUFFICES ASSUME NEW x \in P, NEW y \in P PROVE x.n < n /\ (y.n = x.n => y = x)
    BY DEF Numbered
  <2>1. PICK e \in K : x = Remint(e, w[e], r) /\ x.n = e.n
    BY <1>6
  <2>2. PICK f \in K : y = Remint(f, w[f], r) /\ y.n = f.n
    BY <1>6
  <2> QED BY <1>5, <2>1, <2>2 DEF Numbered
<1>8. Ground(conf, w, n) = Ground(conf, Writes(P), n)
  <2>1. DOMAIN w = K
    OBVIOUS
  <2> HIDE DEF P, n
  <2> QED BY <1>3, <1>5, <1>6, <1>7, <2>1, GroundMoved
<1> HIDE DEF P, E, n
<1>9. /\ confirmed'[a] = conf /\ rev'[a] = r /\ store'[a] = Ground(conf, Writes(P), n)
      /\ pending'[a] = P /\ minted'[a] + 1 = n /\ DocAt(r)' = DocAt(r)
  BY <1>4, <1>8 DEF TypeOK, DocTypeOK, n, DocAt
<1>10. SessionDocs(a)'
  BY <1>7, <1>9 DEF SessionDocs
<1>11. \A b \in Actors : b # a => Kept(b)
  BY <1>4 DEF TypeOK, DocTypeOK, Kept
<1> QED BY <1>10, <1>11

\* Ordered ingress: the confirmed document takes the next op of the log.
LEMMA IngestDocs ==
  ASSUME TypeOK, LogIsSound, NEW a \in Actors, SessionDocs(a), UNCHANGED <<log, minted>>,
         NEW r \in 1 .. Len(log), IngestOrdered(a, r)
  PROVE  SessionDocs(a)' /\ \A b \in Actors : b # a => Kept(b)
<1> DEFINE op == log[r]
           next == Write(confirmed[a], op)
<1>1. op \in LogOp /\ Len(log) \in Nat
  BY ElementOfSeq, LenProperties DEF TypeOK, ServerTypeOK
<1>2. r = rev[a] + 1 /\ r \in 0 .. Len(log) /\ rev[a] \in Nat
  BY <1>1 DEF IngestOrdered, TypeOK, DocTypeOK
<1>3. next = DocAt(r)
  <2>1. DocAt(r) = op.doc /\ op.doc = Write(DocAt(r - 1), op)
    BY <1>1, <1>2 DEF DocAt, LogIsSound
  <2> QED BY <1>2, <2>1 DEF SessionDocs
<1>4. next \in Doc
  BY <1>1, WriteType DEF TypeOK, DocTypeOK, LogOp
<1> HIDE DEF next
<1>5. CASE Ack(a, op, r)
  <2> DEFINE n == minted[a] + 1
  <2>1. PICK h \in pending[a] :
          /\ \A f \in pending[a] : h.n <= f.n
          /\ h.cmd.key = op.key /\ h.val = op.val
          /\ confirmed' = [confirmed EXCEPT ![a] =
                             IF pending[a] = {h} THEN store[a] ELSE next]
          /\ rev'     = [rev EXCEPT ![a] = r]
          /\ pending' = [pending EXCEPT ![a] = pending[a] \ {h}]
          /\ UNCHANGED store
    BY <1>5 DEF Ack, IsHead, next
  <2>2. pending[a] \in SUBSET Entry /\ n \in Nat /\ Numbered(pending[a], n)
        /\ confirmed[a] \in Doc
    BY DEF SessionDocs, TypeOK, DocTypeOK, LinkTypeOK
  <2>3. /\ Numbered(pending[a] \ {h}, n)
        /\ Ground(next, Writes(pending[a] \ {h}), n) = store[a]
    <3> HIDE DEF op
    <3>1. store[a] = Ground(confirmed[a], Writes(pending[a]), n)
      BY DEF SessionDocs
    <3> HIDE DEF n
    <3> QED BY <2>1, <2>2, <3>1, GroundHead DEF next
  <2>4. confirmed'[a] = next
    <3>1. CASE pending[a] = {h}
      <4>1. pending[a] \ {h} = {}
        BY <3>1
      <4>2. Ground(next, Writes({}), n) = next
        BY <1>4, GroundEmpty
      <4>3. store[a] = next
        BY <2>3, <4>1, <4>2
      <4> QED BY <2>1, <3>1, <4>3 DEF TypeOK, DocTypeOK
    <3>2. CASE pending[a] # {h}
      BY <2>1, <3>2 DEF TypeOK, DocTypeOK
    <3> QED BY <3>1, <3>2
  <2>5. /\ rev'[a] = r /\ pending'[a] = pending[a] \ {h} /\ store'[a] = store[a]
        /\ minted'[a] + 1 = n /\ DocAt(r)' = DocAt(r)
    BY <2>1 DEF TypeOK, DocTypeOK, DocAt
  <2> HIDE DEF n, op
  <2>6. SessionDocs(a)'
    BY <1>2, <1>3, <2>3, <2>4, <2>5 DEF SessionDocs
  <2>7. \A b \in Actors : b # a => Kept(b)
    BY <2>1 DEF TypeOK, DocTypeOK, Kept
  <2> QED BY <2>6, <2>7
<1>6. CASE ConfirmPending(a, op, r)
  <2>1. PICK e \in pending[a] : Rebase(a, next, r, {e}, {}, undo[a], redo[a])
    BY <1>6 DEF ConfirmPending, next
  <2> QED BY <1>2, <1>3, <1>4, <2>1, RebaseDocs
<1>7. CASE ApplyForeign(a, op, r)
  <2>1. Rebase(a, next, r, {}, {}, undo[a], redo[a])
    BY <1>7 DEF ApplyForeign, next
  <2> QED BY <1>2, <1>3, <1>4, <2>1, RebaseDocs
<1> QED BY <1>5, <1>6, <1>7 DEF IngestOrdered

\* A dispatched, undone or redone command writes on the optimistic document
\* and joins the queue.
LEMMA RunDocs ==
  ASSUME TypeOK, NEW a \in Actors, SessionDocs(a), NEW cmd \in Command,
         NEW origin \in {"command", "undo", "redo"}, NEW rec \in Nat,
         NEW found \in Val \cup {None}, Run(a, cmd, origin, rec, found),
         UNCHANGED <<log, confirmed, rev>>
  PROVE  SessionDocs(a)' /\ \A b \in Actors : b # a => Kept(b)
<1> DEFINE e == NewEntry(a, cmd, origin, rec, found)
           n == minted[a] + 1
           w == [key |-> cmd.key, val |-> e.val]
<1>1. cmd.write[store[a][cmd.key]] \in Val /\ n \in Nat /\ n = minted[a] + 1
  BY DEF TypeOK, DocTypeOK, Doc, Command, LinkTypeOK
<1>2. e \in Entry /\ e.n = n /\ e.cmd = cmd
  BY <1>1 DEF NewEntry, Entry, TypeOK, LinkTypeOK
<1>3. /\ pending' = [pending EXCEPT ![a] = pending[a] \cup {e}]
      /\ store' = [store EXCEPT ![a] = Write(store[a], w)]
      /\ minted' = [minted EXCEPT ![a] = n]
  BY DEF Run
<1> HIDE DEF e, n
<1>4. /\ confirmed[a] \in Doc /\ pending[a] \in SUBSET Entry /\ Numbered(pending[a], n)
      /\ store[a] = Ground(confirmed[a], Writes(pending[a]), n)
  BY DEF SessionDocs, TypeOK, DocTypeOK, n
<1>5. /\ Numbered(pending[a] \cup {e}, n + 1)
      /\ Ground(confirmed[a], Writes(pending[a] \cup {e}), n + 1) = Write(store[a], w)
  BY <1>1, <1>2, <1>4, GroundAppend
<1>6. /\ pending'[a] = pending[a] \cup {e} /\ store'[a] = Write(store[a], w)
      /\ minted'[a] = n /\ confirmed'[a] = confirmed[a] /\ rev'[a] = rev[a]
      /\ DocAt(rev[a])' = DocAt(rev[a])
  BY <1>3 DEF TypeOK, DocTypeOK, LinkTypeOK, DocAt
<1> HIDE DEF w
<1>7. SessionDocs(a)'
  BY <1>5, <1>6 DEF SessionDocs
<1>8. \A b \in Actors : b # a => Kept(b)
  BY <1>3 DEF TypeOK, DocTypeOK, LinkTypeOK, Kept
<1> QED BY <1>7, <1>8

\* Posting the head records the attempt and changes nothing the replay reads.
LEMMA PumpLoopDocs ==
  ASSUME TypeOK, NEW a \in Actors, SessionDocs(a), PumpLoop(a)
  PROVE  (SessionDocs(a)' \/ Kept(a)) /\ \A b \in Actors : b # a => Kept(b)
<1>1. CASE UNCHANGED pending
  BY <1>1 DEF PumpLoop, Kept
<1>2. ASSUME NEW h \in pending[a],
             pending' = [pending EXCEPT ![a] = (pending[a] \ {h}) \cup {Attempted(h, rev[a])}]
      PROVE  SessionDocs(a)' /\ \A b \in Actors : b # a => Kept(b)
  <2> DEFINE n == minted[a] + 1
             g == Attempted(h, rev[a])
             P == (pending[a] \ {h}) \cup {g}
             v == Writes(pending[a])
  <2>1. /\ confirmed[a] \in Doc /\ pending[a] \in SUBSET Entry /\ n \in Nat
        /\ Numbered(pending[a], n) /\ h \in Entry /\ rev[a] \in Nat
    BY DEF SessionDocs, TypeOK, DocTypeOK, LinkTypeOK
  <2>2. g \in Entry /\ g.n = h.n /\ g.cmd = h.cmd /\ g.val = h.val
    <3> DEFINE more == h.attempts \cup {[gen |-> h.gen, base |-> rev[a], val |-> h.val]}
    <3>1. more \in SUBSET Attempt
      BY <2>1 DEF Entry, Attempt
    <3>2. g = h \/ g = [h EXCEPT !.attempts = more]
      BY DEF Attempted
    <3> HIDE DEF more, g
    <3> QED BY <2>1, <3>1, <3>2 DEF Entry
  <2>3. DOMAIN v = pending[a] /\ \A x \in pending[a] : v[x] = x.val
    BY DEF Writes
  <2> HIDE DEF g, v, n
  <2>4. P \in SUBSET Entry /\ Numbered(P, n)
    BY <2>1, <2>2 DEF Numbered
  <2>5. /\ \A x \in pending[a] : \E y \in P : y.n = x.n /\ y.cmd = x.cmd /\ y.val = v[x]
        /\ \A y \in P : \E x \in pending[a] : y.n = x.n /\ y.cmd = x.cmd
    <3>1. \A x \in pending[a] : x = h \/ x \in P
      OBVIOUS
    <3>2. g \in P /\ \A y \in P : y = g \/ y \in pending[a]
      OBVIOUS
    <3> QED BY <2>2, <2>3, <3>1, <3>2
  <2> HIDE DEF P
  <2>6. Ground(confirmed[a], v, n) = Ground(confirmed[a], Writes(P), n)
    BY <2>1, <2>3, <2>4, <2>5, GroundMoved
  <2>7. /\ confirmed'[a] = confirmed[a] /\ rev'[a] = rev[a] /\ store'[a] = store[a]
        /\ pending'[a] = P /\ minted'[a] + 1 = n /\ log' = log
    BY <1>2 DEF PumpLoop, serverVars, TypeOK, DocTypeOK, P, n, g
  <2>8. SessionDocs(a)'
    BY <2>4, <2>6, <2>7 DEF SessionDocs, DocAt, n, v
  <2>9. \A b \in Actors : b # a => Kept(b)
    BY <1>2 DEF PumpLoop, TypeOK, DocTypeOK, Kept
  <2> QED BY <2>8, <2>9
<1> QED BY <1>1, <1>2 DEF PumpLoop

\* Adopting a checkpoint makes its document the confirmed one.
LEMMA AdoptDocs ==
  ASSUME TypeOK, CopiesAreFaithful, NEW a \in Actors, SessionDocs(a), AdoptSnapshot(a)
  PROVE  SessionDocs(a)' /\ \A b \in Actors : b # a => Kept(b)
<1> DEFINE snap == sync[a].reply
           dropped == Ambiguous(a, snap.rev)
           reported == {e.n : e \in dropped}
<1>1. Rebase(a, snap.doc, snap.rev, dropped, reported, {}, {}) /\ UNCHANGED <<log, minted>>
  BY DEF AdoptSnapshot, serverVars
<1>2. snap \in SnapshotReply /\ Faithful(snap)
  BY DEF AdoptSnapshot, Fetched, TypeOK, SyncTypeOK, CopiesAreFaithful
<1>3. snap.doc \in Doc /\ snap.rev \in 0 .. Len(log) /\ snap.doc = DocAt(snap.rev)
  BY <1>2 DEF Faithful, SnapshotReply
<1> HIDE DEF snap, dropped, reported
<1> QED BY <1>1, <1>3, RebaseDocs

\* Ordered ingress takes the next op of the log.
Ingests(a) ==
  /\ \E r \in 1 .. Len(log) : IngestOrdered(a, r)
  /\ UNCHANGED <<log, minted>>

\* A command is executed locally.
Executes(a) ==
  /\ \E cmd \in Command, origin \in {"command", "undo", "redo"}, rec \in Nat,
        found \in Val \cup {None} : Run(a, cmd, origin, rec, found)
  /\ UNCHANGED <<log, confirmed, rev, retired>>

\* The ways in which a step the user does not make moves the documents of a
\* session and its history.
LEMMA SessionWays ==
  ASSUME TypeOK, NEW a \in Actors, SessionStep(a), ~UserStep(a)
  PROVE  \/ UNCHANGED <<docVars, minted>>
         \/ PumpLoop(a) \/ Ingests(a) \/ AdoptSnapshot(a)
<1> DEFINE Goal == \/ UNCHANGED <<docVars, minted>>
                   \/ PumpLoop(a) \/ Ingests(a) \/ AdoptSnapshot(a)
<1>1. UNCHANGED <<docVars, minted>> => Goal
  OBVIOUS
<1>2. Len(log) \in Nat
  BY LenProperties DEF TypeOK, ServerTypeOK
<1>3. ASSUME NEW r \in 1 .. Len(log), HandleServerOp(a, r), UNCHANGED <<log, minted>>
      PROVE  Goal
  BY <1>1, <1>3 DEF HandleServerOp, Ingests
<1>4. CASE PumpStep(a)
  <2>1. CASE ReplyAccepted(a)
    <3>1. post[a].reply.rev \in 1 .. Len(log)
      BY <2>1 DEF ReplyAccepted, Answered, TypeOK, PumpTypeOK
    <3> QED BY <1>3, <2>1, <3>1 DEF ReplyAccepted, serverVars
  <2>2. CASE ~PumpLoop(a) /\ ~ReplyAccepted(a)
    BY <1>1, <1>4, <2>2 DEF PumpStep, PumpFinally, RetryDelayEnds, ReplyTooLate,
       ReplyStaleBase, ReplySnapshotRequired
  <2> QED BY <2>1, <2>2
<1>5. CASE SyncStep(a)
  <2>1. CASE PageStep(a)
    <3>1. CASE UNCHANGED docVars
      BY <1>1, <2>1, <3>1 DEF PageStep
    <3>2. CASE sync[a].next <= sync[a].last /\ IngestOrdered(a, sync[a].next)
      <4>1. sync[a].next \in 1 .. Len(log)
        BY <1>2, <3>2 DEF IngestOrdered, TypeOK, SyncTypeOK, SyncState, DocTypeOK
      <4> QED BY <2>1, <3>2, <4>1 DEF PageStep, serverVars, Ingests
    <3> QED BY <2>1, <3>1, <3>2 DEF PageStep
  <2>2. CASE ~AdoptSnapshot(a) /\ ~PageStep(a)
    BY <1>1, <1>5, <2>2 DEF SyncStep, SyncLoop, FetchTooLate, OpsArrive, PageCut,
       SyncDelayEnds, SyncFinally
  <2> QED BY <2>1, <2>2
<1>6. CASE StreamStep(a)
  <2>1. CASE DeliverOp(a)
    <3>1. sent[a] + 1 \in 1 .. Len(log)
      BY <1>2, <2>1 DEF DeliverOp, NextFrame, TypeOK, LinkTypeOK
    <3> QED BY <1>3, <2>1, <3>1 DEF DeliverOp, serverVars
  <2>2. CASE Connect(a)
    BY <1>1, <2>2 DEF Connect
  <2> QED BY <1>6, <2>1, <2>2 DEF StreamStep
<1>7. CASE SkipOwnOp(a) \/ Publish(a) \/ PutEnds(a) \/ ServeStep(a)
  BY <1>1, <1>7 DEF SkipOwnOp, Publish, PutEnds, ServeStep, ServePost, ServeSnapshot, ServeOps
<1>8. CASE FaultStep(a)
  BY <1>1, <1>8 DEF FaultStep, ReplyMangled, PostDenied, ConnectRefused, PostFails,
     FetchFails, PageRejected, RejectFrame, Disconnect, PutFails
<1> QED BY <1>4, <1>5, <1>6, <1>7, <1>8 DEF SessionStep

\* The ways in which a step of a session moves its documents.
LEMMA SessionMoves ==
  ASSUME TypeOK, NEW a \in Actors, SessionStep(a)
  PROVE  \/ UNCHANGED retired /\ \A b \in Actors : Kept(b)
         \/ Executes(a) \/ PumpLoop(a) \/ Ingests(a) \/ AdoptSnapshot(a)
<1> DEFINE Goal == \/ UNCHANGED retired /\ \A b \in Actors : Kept(b)
                   \/ Executes(a) \/ PumpLoop(a) \/ Ingests(a) \/ AdoptSnapshot(a)
<1>1. UNCHANGED <<docVars, minted>> => Goal
  BY DEF docVars, Kept
<1>2. CASE UserStep(a)
  <2>1. ASSUME NEW cmd \in Commands, Dispatch(a, cmd) PROVE Goal
    <3>1. cmd \in Command /\ minted[a] + 1 \in Nat
      BY SessionAssumption DEF TypeOK, LinkTypeOK
    <3>2. Run(a, cmd, "command", minted[a] + 1, None) /\ UNCHANGED <<log, confirmed, rev, retired>>
      BY <2>1 DEF Dispatch, serverVars
    <3> QED BY <3>1, <3>2 DEF Executes
  <2>2. ASSUME Undo(a) \/ Redo(a) PROVE Goal
    <3>1. PICK h \in undo[a] \cup redo[a] :
            \/ Run(a, SessionPatch(h.key, h.old), "undo", h.id, h.new)
            \/ Run(a, SessionPatch(h.key, h.new), "redo", h.id, h.old)
      BY <2>2 DEF Undo, Redo
    <3>2. h.key \in Keys /\ h.old \in Val /\ h.new \in Val /\ h.id \in Nat
      BY DEF TypeOK, DocTypeOK, HistoryRecord
    <3>3. SessionPatch(h.key, h.old) \in Command /\ SessionPatch(h.key, h.new) \in Command
      BY <3>2, SessionPatchType
    <3>4. UNCHANGED <<log, confirmed, rev, retired>>
      BY <2>2 DEF Undo, Redo, serverVars
    <3> QED BY <3>1, <3>2, <3>3, <3>4 DEF Executes
  <2>3. CASE DropStaleRecord(a)
    BY <2>3 DEF DropStaleRecord, Kept
  <2>4. CASE Close(a)
    BY <1>1, <2>4 DEF Close
  <2> QED BY <1>2, <2>1, <2>2, <2>3, <2>4 DEF UserStep
<1> QED BY <1>1, <1>2, SessionWays

\* A step of a session moves its documents along the log or leaves them.
LEMMA SessionStepDocs ==
  ASSUME DocsInv, NEW a \in Actors, SessionStep(a)
  PROVE  (SessionDocs(a)' \/ Kept(a)) /\ \A b \in Actors : b # a => Kept(b)
<1> USE DEF DocsInv, DocsOK
<1>1. CASE Executes(a)
  BY <1>1, RunDocs DEF Executes
<1>2. CASE PumpLoop(a)
  BY <1>2, PumpLoopDocs
<1>3. CASE Ingests(a)
  BY <1>3, IngestDocs DEF Ingests
<1>4. CASE AdoptSnapshot(a)
  BY <1>4, AdoptDocs
<1> QED BY <1>1, <1>2, <1>3, <1>4, SessionMoves

\* The authority appends what is posted, and no other step of a session
\* touches the log.
LEMMA SessionLog ==
  ASSUME NEW a \in Actors, SessionStep(a), ~ServePost(a)
  PROVE  UNCHANGED log
<1>1. CASE UserStep(a)
  BY <1>1 DEF UserStep, Dispatch, Undo, Redo, DropStaleRecord, Close, serverVars
<1>2. CASE PumpStep(a)
  BY <1>2 DEF PumpStep, PumpLoop, PumpFinally, RetryDelayEnds, ReplyTooLate,
     ReplyAccepted, ReplyStaleBase, ReplySnapshotRequired, serverVars
<1>3. CASE SyncStep(a)
  BY <1>3 DEF SyncStep, SyncLoop, FetchTooLate, AdoptSnapshot, OpsArrive,
     PageStep, PageCut, SyncDelayEnds, SyncFinally, serverVars
<1>4. CASE StreamStep(a) \/ SkipOwnOp(a) \/ Publish(a) \/ PutEnds(a)
  BY <1>4 DEF StreamStep, Connect, DeliverOp, SkipOwnOp, Publish, PutEnds, serverVars
<1>5. CASE FaultStep(a)
  BY <1>5 DEF FaultStep, ReplyMangled, PostDenied, ConnectRefused, PostFails,
     FetchFails, PageRejected, RejectFrame, Disconnect, PutFails, serverVars
<1>6. CASE ServeSnapshot(a) \/ ServeOps(a)
  BY <1>6 DEF ServeSnapshot, ServeOps, serverVars
<1> QED BY <1>1, <1>2, <1>3, <1>4, <1>5, <1>6 DEF SessionStep, ServeStep

\* Only the authority changes the log, and only at its end.
LEMMA LogStep ==
  ASSUME DocsInv, Next
  PROVE  LogExtends
<1> USE DEF DocsInv, DocsOK, TypeOK
<1>1. ASSUME NEW r, PostOp(r) PROVE LogExtends
  BY <1>1, Extends DEF PostOp
<1>2. CASE OutsideStep
  <2>1. CASE ServeLate
    BY <1>1, <2>1 DEF ServeLate
  <2>2. ASSUME NEW k \in Keys, NEW v \in Val, ForeignOp(k, v) PROVE LogExtends
    BY <2>2, Extends DEF ForeignOp
  <2>3. CASE ForeignCheckpoint \/ Compact
    BY <2>3, Extends DEF ForeignCheckpoint, Compact
  <2> QED BY <1>2, <2>1, <2>2, <2>3 DEF OutsideStep
<1>3. ASSUME NEW a \in Actors, SessionStep(a) PROVE LogExtends
  <2>1. CASE ServePost(a)
    BY <1>1, <2>1 DEF ServePost
  <2>2. CASE ~ServePost(a)
    BY <1>3, <2>2, SessionLog, Extends
  <2> QED BY <2>1, <2>2
<1> QED BY <1>2, <1>3 DEF Next

-----------------------------------------------------------------------------
(* Steps of the copies of a document outside the session *)

\* b waits for no snapshot, waits still, or has the same one.
NoNewReply(b) ==
  (sync'[b].pc = "snapshot" /\ sync'[b].reply # None) => sync'[b] = sync[b]

\* Every copy after the step is one of the log before it.
CopiesMove ==
  /\ Faithful(checkpoint')
  /\ \A b \in Actors :
       /\ put'[b] # None => Faithful(put'[b])
       /\ (sync'[b].pc = "snapshot" /\ sync'[b].reply # None) => Faithful(sync'[b].reply)

LEMMA CopiesKept ==
  ASSUME CopiesAreFaithful, UNCHANGED <<checkpoint, put>>,
         \A b \in Actors : NoNewReply(b)
  PROVE  CopiesMove
BY DEF CopiesAreFaithful, CopiesMove, NoNewReply

\* A state of the loop that is not an answered snapshot fetch.
LEMMA SyncToKept ==
  ASSUME TypeOK, NEW a \in Actors, NEW s, SyncTo(a, s),
         s.pc # "snapshot" \/ s.reply = None
  PROVE  \A b \in Actors : NoNewReply(b)
BY DEF SyncTo, NoNewReply, TypeOK, SyncTypeOK

LEMMA StartSyncKept ==
  ASSUME TypeOK, NEW a \in Actors, StartSync(a)
  PROVE  \A b \in Actors : NoNewReply(b)
<1>1. At("loop").pc = "loop"
  BY DEF At, NoSync
<1> QED BY <1>1 DEF StartSync, NoNewReply, TypeOK, SyncTypeOK

\* What is published is the confirmed pair, what is stored is what was
\* published, and what a resync is served is what is stored.
LEMMA SessionStepCopies ==
  ASSUME DocsInv, NEW a \in Actors, SessionStep(a)
  PROVE  CopiesMove
<1> USE DEF DocsInv, DocsOK
<1> DEFINE Still == UNCHANGED <<checkpoint, put>>
           Silent == \A b \in Actors : NoNewReply(b)
<1>1. Still /\ Silent => CopiesMove
  BY CopiesKept
<1>2. UNCHANGED sync => Silent
  BY DEF NoNewReply
<1>3. \A pc \in Stage : SyncTo(a, At(pc)) => Silent
  BY AtType, SyncToKept
<1>4. Faithful(ConfirmedPair(a))
  BY DEF ConfirmedPair, Faithful, SessionDocs
<1>5. \A r : RequestCatchUp(a, r) \/ RequestResync(a, r) => Silent
  BY StartSyncKept DEF RequestCatchUp, RequestResync
<1>6. ASSUME UNCHANGED <<checkpoint, sync>>,
             put' = [put EXCEPT ![a] = ConfirmedPair(a)] \/ put' = [put EXCEPT ![a] = None]
      PROVE  CopiesMove
  BY <1>4, <1>6 DEF CopiesAreFaithful, CopiesMove, TypeOK, LinkTypeOK
<1>7. CASE UserStep(a)
  <2>1. CASE Close(a)
    <3>1. CASE UNCHANGED put
      BY <1>1, <1>2, <2>1, <3>1 DEF Close, serverVars
    <3>2. CASE ~UNCHANGED put
      BY <1>6, <2>1, <3>2 DEF Close, serverVars
    <3> QED BY <3>1, <3>2
  <2>2. CASE ~Close(a)
    <3>1. Still /\ UNCHANGED sync
      BY <1>7, <2>2 DEF UserStep, Dispatch, Undo, Redo, DropStaleRecord, serverVars, syncVars
    <3> QED BY <1>1, <1>2, <3>1
  <2> QED BY <2>1, <2>2
<1>8. CASE PumpStep(a)
  <2>1. CASE ReplySnapshotRequired(a)
    <3>1. CASE UNCHANGED put
      BY <1>1, <1>2, <2>1, <3>1 DEF ReplySnapshotRequired, serverVars, syncVars
    <3>2. CASE put' = [put EXCEPT ![a] = ConfirmedPair(a)]
      BY <1>6, <2>1, <3>2 DEF ReplySnapshotRequired, serverVars, syncVars
    <3>3. put \in [Actors -> Checkpoint \cup {None}]
      BY DEF TypeOK, LinkTypeOK
    <3> QED BY <2>1, <3>1, <3>2, <3>3 DEF ReplySnapshotRequired
  <2>2. CASE ReplyAccepted(a)
    <3>1. Still /\ (UNCHANGED syncVars \/ \E r : RequestCatchUp(a, r))
      BY <2>2 DEF ReplyAccepted, HandleServerOp, serverVars
    <3> QED BY <1>1, <1>2, <1>5, <3>1 DEF syncVars
  <2>3. CASE ReplyStaleBase(a)
    <3>1. Still /\ (UNCHANGED syncVars \/ \E r : RequestCatchUp(a, r))
      BY <2>3 DEF ReplyStaleBase, serverVars
    <3> QED BY <1>1, <1>2, <1>5, <3>1 DEF syncVars
  <2>4. CASE PumpLoop(a) \/ PumpFinally(a) \/ RetryDelayEnds(a) \/ ReplyTooLate(a)
    <3>1. Still /\ UNCHANGED sync
      BY <2>4 DEF PumpLoop, PumpFinally, RetryDelayEnds, ReplyTooLate, serverVars, syncVars
    <3> QED BY <1>1, <1>2, <3>1
  <2> QED BY <1>8, <2>1, <2>2, <2>3, <2>4 DEF PumpStep
<1>9. CASE SyncStep(a)
  <2>1. Still
    BY <1>9 DEF SyncStep, SyncLoop, FetchTooLate, AdoptSnapshot, OpsArrive, PageStep,
       PageCut, SyncDelayEnds, SyncFinally, serverVars
  <2>2. CASE SyncLoop(a)
    <3>1. CASE SyncTo(a, [At("ops") EXCEPT !.next = rev[a] + 1])
      <4>1. [At("ops") EXCEPT !.next = rev[a] + 1].pc = "ops"
        BY DEF At, NoSync
      <4> QED BY <1>1, <2>1, <3>1, <4>1, SyncToKept
    <3>2. CASE SyncTo(a, At("snapshot")) \/ SyncTo(a, At("exit"))
      BY <1>1, <1>3, <2>1, <3>2 DEF Stage
    <3> QED BY <2>2, <3>1, <3>2 DEF SyncLoop
  <2>3. CASE FetchTooLate(a) \/ AdoptSnapshot(a) \/ PageCut(a) \/ SyncDelayEnds(a)
    BY <1>1, <1>3, <2>1, <2>3 DEF FetchTooLate, AdoptSnapshot, PageCut, SyncDelayEnds, Stage
  <2>4. CASE SyncFinally(a)
    BY <1>1, <1>3, <2>1, <2>4 DEF SyncFinally, Stage
  <2>5. CASE OpsArrive(a)
    <3>1. CASE SyncTo(a, [sync[a] EXCEPT !.pc = "page"])
      <4>1. [sync[a] EXCEPT !.pc = "page"].pc = "page"
        BY DEF TypeOK, SyncTypeOK, SyncState
      <4> QED BY <1>1, <2>1, <3>1, <4>1, SyncToKept
    <3>2. CASE SyncTo(a, At("loop"))
      BY <1>1, <1>3, <2>1, <3>2 DEF Stage
    <3> QED BY <2>5, <3>1, <3>2 DEF OpsArrive
  <2>6. CASE PageStep(a)
    <3>1. CASE SyncTo(a, At(IF sync[a].progressed \/ rev[a] >= target[a] THEN "loop" ELSE "delay"))
      BY <1>1, <1>3, <2>1, <3>1 DEF Stage
    <3>2. ASSUME NEW s, SyncTo(a, s), s.pc = "page" PROVE CopiesMove
      BY <1>1, <2>1, <3>2, SyncToKept
    <3>3. /\ [sync[a] EXCEPT !.next = @ + 1].pc = "page"
          /\ [sync[a] EXCEPT !.next = @ + 1, !.progressed = TRUE].pc = "page"
      BY <2>6 DEF PageStep, TypeOK, SyncTypeOK, SyncState
    <3> QED BY <2>6, <3>1, <3>2, <3>3 DEF PageStep
  <2> QED BY <1>9, <2>2, <2>3, <2>4, <2>5, <2>6 DEF SyncStep
<1>10. CASE StreamStep(a) \/ SkipOwnOp(a)
  <2>1. Still /\ (UNCHANGED syncVars \/ \E r : RequestCatchUp(a, r))
    BY <1>10 DEF StreamStep, Connect, DeliverOp, HandleServerOp, SkipOwnOp, serverVars
  <2> QED BY <1>1, <1>2, <1>5, <2>1 DEF syncVars
<1>11. CASE Publish(a)
  BY <1>6, <1>11 DEF Publish, serverVars, syncVars
<1>12. CASE PutEnds(a)
  <2>1. /\ checkpoint' = checkpoint \/ checkpoint' = put[a]
        /\ put' = [put EXCEPT ![a] = None] /\ put[a] # None /\ UNCHANGED sync
    BY <1>12 DEF PutEnds, syncVars
  <2> QED BY <2>1 DEF CopiesAreFaithful, CopiesMove, TypeOK, LinkTypeOK
<1>13. CASE ServeStep(a)
  <2>1. CASE ServePost(a)
    BY <1>1, <1>2, <2>1 DEF ServePost, syncVars
  <2>2. CASE ServeSnapshot(a)
    <3> DEFINE snap == [kind |-> "snapshot", rev |-> checkpoint.rev, doc |-> checkpoint.doc]
               s == [sync[a] EXCEPT !.reply = snap]
    <3>1. Still /\ sync' = [sync EXCEPT ![a] = s]
      BY <2>2 DEF ServeSnapshot, SyncTo, serverVars
    <3>2. s.reply = snap
      BY DEF TypeOK, SyncTypeOK, SyncState
    <3>3. Faithful(snap)
      BY DEF Faithful, CopiesAreFaithful
    <3> HIDE DEF snap, s
    <3> QED BY <3>1, <3>2, <3>3 DEF CopiesAreFaithful, CopiesMove, TypeOK, SyncTypeOK
  <2>3. CASE ServeOps(a)
    <3>1. Still /\ sync[a] \in SyncState /\ sync[a].pc = "ops"
      BY <2>3 DEF ServeOps, serverVars, TypeOK, SyncTypeOK
    <3>2. PICK s : SyncTo(a, s) /\ s.pc = "ops"
      <4>1. \A x, y : /\ [sync[a] EXCEPT !.reply = x].pc = "ops"
                      /\ [sync[a] EXCEPT !.reply = x, !.last = y].pc = "ops"
        BY <3>1 DEF SyncState
      <4>2. CASE sync[a].next <= floor
        BY <2>3, <4>1, <4>2, Zenon DEF ServeOps
      <4>3. CASE ~(sync[a].next <= floor)
        <5>1. PICK last \in sync[a].next - 1 .. Len(log) :
                SyncTo(a, [sync[a] EXCEPT !.reply = [kind |-> "ops"], !.last = last])
          BY <2>3, <4>3, Zenon DEF ServeOps
        <5> QED BY <4>1, <5>1
      <4> QED BY <4>2, <4>3
    <3> QED BY <1>1, <3>1, <3>2, SyncToKept
  <2> QED BY <1>13, <2>1, <2>2, <2>3 DEF ServeStep
<1>14. CASE FaultStep(a)
  <2>1. CASE ReplyMangled(a)
    <3>1. Still /\ \E r : RequestResync(a, r)
      BY <2>1 DEF ReplyMangled, serverVars
    <3> QED BY <1>1, <1>5, <3>1
  <2>2. CASE PostDenied(a) \/ ConnectRefused(a) \/ PostFails(a) \/ Disconnect(a)
    <3>1. Still /\ UNCHANGED sync
      BY <2>2 DEF PostDenied, ConnectRefused, PostFails, Disconnect, serverVars, syncVars
    <3> QED BY <1>1, <1>2, <3>1
  <2>3. CASE FetchFails(a) \/ PageRejected(a)
    <3>1. Still /\ (SyncTo(a, At("exit")) \/ SyncTo(a, At("loop")))
      BY <2>3 DEF FetchFails, PageRejected, serverVars
    <3> QED BY <1>1, <1>3, <3>1 DEF Stage
  <2>4. CASE RejectFrame(a)
    <3>1. Still /\ StartSync(a)
      BY <2>4 DEF RejectFrame, serverVars
    <3> QED BY <1>1, <3>1, StartSyncKept
  <2>5. CASE PutFails(a)
    BY <1>6, <2>5 DEF PutFails, serverVars, syncVars
  <2> QED BY <1>14, <2>1, <2>2, <2>3, <2>4, <2>5 DEF FaultStep
<1> QED BY <1>7, <1>8, <1>9, <1>10, <1>11, <1>12, <1>13, <1>14 DEF SessionStep

LEMMA OutsideStepCopies ==
  ASSUME DocsInv, OutsideStep
  PROVE  CopiesMove
<1> USE DEF DocsInv, DocsOK
<1>1. CASE ForeignCheckpoint
  <2>1. Len(log) \in Nat
    BY LenProperties DEF TypeOK, ServerTypeOK
  <2>2. Faithful(checkpoint')
    BY <1>1, <2>1 DEF ForeignCheckpoint, Faithful
  <2> QED BY <1>1, <2>2 DEF ForeignCheckpoint, CopiesAreFaithful, CopiesMove, syncVars
<1>2. CASE ~ForeignCheckpoint
  <2>1. UNCHANGED <<checkpoint, put, sync>>
    BY <1>2 DEF OutsideStep, ServeLate, Compact, ForeignOp, syncVars
  <2> QED BY <2>1, CopiesKept DEF NoNewReply
<1> QED BY <1>1, <1>2

-----------------------------------------------------------------------------
(* The theorems *)

LEMMA InitDocs == Init => DocsInv
<1> SUFFICES ASSUME Init PROVE DocsInv
  OBVIOUS
<1>1. Len(log) = 0 /\ DocAt(0) = InitialDoc
  BY DEF Init, DocAt
<1>2. LogIsSound
  BY <1>1 DEF LogIsSound
<1>3. CopiesAreFaithful
  BY <1>1 DEF Init, CopiesAreFaithful, Faithful, NoSync
<1>4. ASSUME NEW a \in Actors PROVE SessionDocs(a)
  <2>1. Ground(InitialDoc, Writes({}), 0 + 1) = InitialDoc
    BY SessionAssumption, GroundEmpty
  <2> QED BY <1>1, <2>1 DEF Init, SessionDocs, Numbered
<1> QED BY <1>2, <1>3, <1>4, InitType DEF DocsInv, DocsOK

\* The three parts of a step put together.
LEMMA NextDocs ==
  ASSUME DocsInv, [Next]_vars
  PROVE  DocsInv'
<1> USE DEF DocsInv
<1>1. TypeOK'
  BY NextType
<1>2. CASE Next
  <2>1. LogExtends
    BY <1>2, LogStep
  <2>2. LogIsSound'
    BY <2>1 DEF LogExtends
  <2>3. CopiesMove
    BY <1>2, OutsideStepCopies, SessionStepCopies DEF Next
  <2>4. \A c : Faithful(c) => c.rev \in 0 .. Len(log') /\ c.doc = DocAt(c.rev)'
    <3>1. Len(log) \in Nat
      BY LenProperties DEF TypeOK, ServerTypeOK
    <3> QED BY <2>1, <3>1 DEF LogExtends, Faithful
  <2>5. CopiesAreFaithful'
    <3>1. Faithful(checkpoint)'
      BY <2>3, <2>4 DEF CopiesMove, Faithful
    <3>2. ASSUME NEW b \in Actors, put'[b] # None PROVE Faithful(put[b])'
      BY <2>3, <2>4, <3>2 DEF CopiesMove, Faithful
    <3>3. ASSUME NEW b \in Actors, sync'[b].pc = "snapshot", sync'[b].reply # None
          PROVE  Faithful(sync[b].reply)'
      BY <2>3, <2>4, <3>3 DEF CopiesMove, Faithful
    <3> QED BY <3>1, <3>2, <3>3 DEF CopiesAreFaithful
  <2>6. ASSUME NEW b \in Actors PROVE SessionDocs(b)' \/ Kept(b)
    <3>1. CASE OutsideStep
      BY <3>1 DEF OutsideStep, ServeLate, ForeignCheckpoint, Compact, ForeignOp, docVars, Kept
    <3>2. ASSUME NEW a \in Actors, SessionStep(a) PROVE SessionDocs(b)' \/ Kept(b)
      BY <3>2, SessionStepDocs
    <3> QED BY <1>2, <3>1, <3>2 DEF Next
  <2>7. \A b \in Actors : SessionDocs(b)'
    BY <2>1, <2>6, KeptDocs DEF DocsOK
  <2> QED BY <1>1, <2>2, <2>5, <2>7 DEF DocsOK
<1>3. CASE UNCHANGED vars
  BY <1>1, <1>3 DEF DocsOK, vars, serverVars, docVars, syncVars, LogIsSound,
     CopiesAreFaithful, Faithful, SessionDocs, DocAt
<1> QED BY <1>2, <1>3

\* The three properties are parts of the invariant.
LEMMA DocsHold ==
  ASSUME DocsInv
  PROVE  ConfirmedIsServerPrefix /\ OptimisticIsReplay /\ CheckpointIsPrefix
<1>1. checkpoint.rev \in 0 .. Len(log)
  BY DEF DocsInv, DocsOK, CopiesAreFaithful, Faithful
<1>2. ConfirmedIsServerPrefix
  BY DEF DocsInv, DocsOK, SessionDocs, ConfirmedIsServerPrefix
<1>3. OptimisticIsReplay
  BY DEF DocsInv, DocsOK, SessionDocs, Writes, OptimisticIsReplay
<1>4. CheckpointIsPrefix
  BY <1>1 DEF DocsInv, DocsOK, CopiesAreFaithful, Faithful, CheckpointIsPrefix
<1> QED BY <1>2, <1>3, <1>4

\* The confirmed document of every session is exactly the server's op log
\* applied in server order, up to the confirmed revision.
THEOREM ConfirmedCorrect == Spec => []ConfirmedIsServerPrefix
<1>1. Init => DocsInv
  BY InitDocs
<1>2. DocsInv /\ [Next]_vars => DocsInv'
  BY NextDocs
<1>3. DocsInv => ConfirmedIsServerPrefix
  BY DocsHold
<1> QED BY <1>1, <1>2, <1>3, PTL DEF Spec

\* The optimistic document is always confirmed + pending.
THEOREM OptimisticCorrect == Spec => []OptimisticIsReplay
<1>1. Init => DocsInv
  BY InitDocs
<1>2. DocsInv /\ [Next]_vars => DocsInv'
  BY NextDocs
<1>3. DocsInv => OptimisticIsReplay
  BY DocsHold
<1> QED BY <1>1, <1>2, <1>3, PTL DEF Spec

\* No checkpoint a session or anybody else puts holds an optimistic intention.
THEOREM CheckpointCorrect == Spec => []CheckpointIsPrefix
<1>1. Init => DocsInv
  BY InitDocs
<1>2. DocsInv /\ [Next]_vars => DocsInv'
  BY NextDocs
<1>3. DocsInv => CheckpointIsPrefix
  BY DocsHold
<1> QED BY <1>1, <1>2, <1>3, PTL DEF Spec

-----------------------------------------------------------------------------
(* The history: the inductive invariant *)

\* The record r says what its author in E does on the document c.
Describes(r, c, E) ==
  \A e \in E : Author(e, r, E) =>
    LET found == Ground(c, Writes(E), e.n)[r.key]
    IN  IF e.origin = "undo" THEN r.old = e.val /\ r.new = found
                             ELSE r.new = e.val /\ r.old = found

\* The records on two stacks have ids of their own, of intentions made.
Apart(u, v, n) ==
  /\ u \cap v = {}
  /\ \A r \in u \cup v : r.id <= n /\ \A s \in u \cup v : s.id = r.id => s = r

Fits(u, v) ==
  /\ IsFiniteSet(u) /\ IsFiniteSet(v)
  /\ Cardinality(u) + Cardinality(v) <= MaxUndo

HistoryOK(a) ==
  /\ Fits(undo[a], redo[a]) /\ Apart(undo[a], redo[a], minted[a])
  /\ \A r \in undo[a] \cup redo[a] : Describes(r, confirmed[a], pending[a])

HistoryInv == DocsInv /\ \A a \in Actors : HistoryOK(a)

-----------------------------------------------------------------------------
(* What the steps of the queue do to what a record describes *)

\* What is read below m is read from the entries below m.
LEMMA GroundBelow ==
  ASSUME NEW c, NEW E \in SUBSET Entry, Distinct(E), NEW m \in Nat
  PROVE  Ground(c, Writes(E), m) = Ground(c, Writes({x \in E : x.n < m}), m)
<1> DEFINE F == {x \in E : x.n < m}
           v == Writes(E)
           w == Writes(F)
<1>1. /\ DOMAIN v = E /\ \A x \in E : v[x] = x.val
      /\ DOMAIN w = F /\ \A x \in F : w[x] = x.val
  BY DEF Writes
<1>2. Distinct(F)
  BY DEF Distinct
<1> HIDE DEF v, w
<1>3. ASSUME NEW k \in Keys PROVE Ground(c, v, m)[k] = Ground(c, w, m)[k]
  <2>1. SameWriters(v, m, w, m, k)
    BY <1>1 DEF SameWriters
  <2> QED BY <1>1, <1>2, <2>1, KeySame
<1> HIDE DEF F
<1>4. Ground(c, v, m) = Ground(c, w, m)
  BY <1>3, GroundExtensional
<1> QED BY <1>4 DEF v, w, F

\* Numbered entries are told apart.
LEMMA NumberedDistinct ==
  ASSUME NEW E \in SUBSET Entry, NEW n, Numbered(E, n)
  PROVE  Distinct(E)
BY DEF Numbered, Distinct, Entry

\* The head is confirmed: who stays reads what it read.
LEMMA DescribesAck ==
  ASSUME NEW c \in Doc, NEW E \in SUBSET Entry, NEW n \in Nat, Numbered(E, n),
         NEW h \in E, \A x \in E : h.n <= x.n,
         NEW op, op.key = h.cmd.key, op.val = h.val,
         NEW r, Describes(r, c, E)
  PROVE  Describes(r, Write(c, op), E \ {h})
<1> SUFFICES ASSUME NEW e \in E \ {h}, Author(e, r, E \ {h})
             PROVE  /\ Author(e, r, E)
                    /\ Ground(Write(c, op), Writes(E \ {h}), e.n) = Ground(c, Writes(E), e.n)
  BY DEF Describes
<1>1. e.n \in Nat /\ h.n \in Nat /\ h.n < e.n
  BY DEF Entry, Numbered
<1>2. Author(e, r, E)
  BY <1>1 DEF Author
<1> DEFINE F == {x \in E : x.n < e.n}
<1>3. F \in SUBSET Entry /\ Numbered(F, e.n) /\ h \in F /\ \A x \in F : h.n <= x.n
  BY <1>1 DEF Numbered
<1>4. F \ {h} = {x \in E \ {h} : x.n < e.n}
  OBVIOUS
<1>5. Ground(c, Writes(E), e.n) = Ground(c, Writes(F), e.n)
  BY <1>1, NumberedDistinct, GroundBelow
<1>6. Distinct(E \ {h}) /\ E \ {h} \in SUBSET Entry
  BY NumberedDistinct DEF Distinct
<1>7. Ground(Write(c, op), Writes(E \ {h}), e.n) = Ground(Write(c, op), Writes(F \ {h}), e.n)
  BY <1>1, <1>4, <1>6, GroundBelow
<1> HIDE DEF F
<1>8. Ground(Write(c, op), Writes(F \ {h}), e.n) = Ground(c, Writes(F), e.n)
  BY <1>1, <1>3, GroundHead
<1> QED BY <1>2, <1>5, <1>7, <1>8

\* An attempt is recorded: nobody reads or writes anything else.
LEMMA DescribesAttempt ==
  ASSUME NEW c \in Doc, NEW E \in SUBSET Entry, NEW n \in Nat, Numbered(E, n),
         NEW h \in E, NEW g \in Entry, g.n = h.n, g.cmd = h.cmd, g.val = h.val,
         g.origin = h.origin, g.rec = h.rec,
         NEW r \in HistoryRecord, Describes(r, c, E)
  PROVE  Describes(r, c, (E \ {h}) \cup {g})
<1> DEFINE P == (E \ {h}) \cup {g}
           v == Writes(E)
           w == Writes(P)
<1>1. /\ DOMAIN v = E /\ \A x \in E : v[x] = x.val
      /\ DOMAIN w = P /\ \A x \in P : w[x] = x.val
  BY DEF Writes
<1>2. Distinct(E) /\ Distinct(P)
  BY DEF Numbered, Distinct, Entry
<1> HIDE DEF v, w
<1> SUFFICES ASSUME NEW e \in P, Author(e, r, P)
             PROVE  LET found == Ground(c, w, e.n)[r.key]
                    IN  IF e.origin = "undo" THEN r.old = e.val /\ r.new = found
                                             ELSE r.new = e.val /\ r.old = found
  BY DEF Describes, w
<1>3. PICK f \in E : /\ f.n = e.n /\ f.val = e.val /\ f.origin = e.origin /\ f.rec = e.rec
  <2>1. e = g \/ e \in E
    OBVIOUS
  <2> QED BY <2>1
<1>4. Author(f, r, E)
  <2> SUFFICES ASSUME NEW y \in E, y.rec = r.id PROVE y.n <= f.n
    BY <1>3 DEF Author
  <2>1. CASE y = h
    <3>1. g \in P /\ g.rec = r.id
      BY <2>1
    <3> QED BY <1>3, <2>1, <3>1 DEF Author
  <2>2. CASE y # h
    BY <1>3, <2>2 DEF Author
  <2> QED BY <2>1, <2>2
<1>5. Ground(c, v, f.n)[r.key] = Ground(c, w, e.n)[r.key]
  <2>1. r.key \in Keys /\ e.n \in Nat
    BY DEF HistoryRecord, Entry
  <2>2. SameWriters(v, f.n, w, e.n, r.key)
    <3>1. \A x \in E : x = h \/ x \in P
      OBVIOUS
    <3>2. g \in P /\ \A y \in P : y = g \/ y \in E
      OBVIOUS
    <3> HIDE DEF P
    <3> QED BY <1>1, <1>3, <3>1, <3>2 DEF SameWriters
  <2> QED BY <1>1, <1>2, <1>3, <2>1, <2>2, KeySame
<1> HIDE DEF P
<1> QED BY <1>3, <1>4, <1>5 DEF Describes, v

\* A new entry that is not the author of r changes nothing r describes.
LEMMA DescribesOther ==
  ASSUME NEW c \in Doc, NEW E \in SUBSET Entry, NEW n \in Nat, Numbered(E, n),
         NEW e \in Entry, e.n = n, NEW r, e.rec # r.id, Describes(r, c, E)
  PROVE  Describes(r, c, E \cup {e})
<1> SUFFICES ASSUME NEW x \in E \cup {e}, Author(x, r, E \cup {e})
             PROVE  /\ x \in E /\ Author(x, r, E)
                    /\ Ground(c, Writes(E \cup {e}), x.n) = Ground(c, Writes(E), x.n)
  BY DEF Describes
<1>1. x \in E /\ Author(x, r, E)
  BY DEF Author
<1>2. x.n \in Nat /\ x.n < n
  BY <1>1 DEF Entry, Numbered
<1>3. {y \in E \cup {e} : y.n < x.n} = {y \in E : y.n < x.n}
  BY <1>2
<1>4. Distinct(E) /\ Distinct(E \cup {e}) /\ E \cup {e} \in SUBSET Entry
  BY DEF Numbered, Distinct, Entry
<1>5. /\ Ground(c, Writes(E), x.n) = Ground(c, Writes({y \in E : y.n < x.n}), x.n)
      /\ Ground(c, Writes(E \cup {e}), x.n)
           = Ground(c, Writes({y \in E \cup {e} : y.n < x.n}), x.n)
  BY <1>2, <1>4, GroundBelow
<1> QED BY <1>1, <1>3, <1>5

\* The record a new entry carries describes it.
LEMMA DescribesNew ==
  ASSUME NEW c \in Doc, NEW E \in SUBSET Entry, NEW n \in Nat, Numbered(E, n),
         NEW e \in Entry, e.n = n, NEW r, e.rec = r.id,
         LET found == Ground(c, Writes(E), n)[r.key]
         IN  IF e.origin = "undo" THEN r.old = e.val /\ r.new = found
                                  ELSE r.new = e.val /\ r.old = found
  PROVE  Describes(r, c, E \cup {e})
<1> SUFFICES ASSUME NEW x \in E \cup {e}, Author(x, r, E \cup {e})
             PROVE  x = e /\ Ground(c, Writes(E \cup {e}), n) = Ground(c, Writes(E), n)
  BY DEF Describes
<1>1. x = e
  BY DEF Author, Numbered, Entry
<1>2. {y \in E \cup {e} : y.n < n} = {y \in E : y.n < n}
  OBVIOUS
<1>3. Distinct(E) /\ Distinct(E \cup {e}) /\ E \cup {e} \in SUBSET Entry
  BY DEF Numbered, Distinct, Entry
<1>4. /\ Ground(c, Writes(E), n) = Ground(c, Writes({y \in E : y.n < n}), n)
      /\ Ground(c, Writes(E \cup {e}), n) = Ground(c, Writes({y \in E \cup {e} : y.n < n}), n)
  BY <1>3, GroundBelow
<1> QED BY <1>1, <1>2, <1>4
-----------------------------------------------------------------------------
(* What a rebase makes of the history *)

\* A record is rewritten to what its surviving author reads and writes, and
\* keeps its identity.
LEMMA RewrittenFacts ==
  ASSUME NEW s \in HistoryRecord, NEW conf \in Doc, NEW w,
         DOMAIN w \subseteq Entry, \A e \in DOMAIN w : w[e] \in Val
  PROVE  /\ Rewritten(s, conf, w).id = s.id /\ Rewritten(s, conf, w).key = s.key
         /\ \A e \in DOMAIN w : (Author(e, s, DOMAIN w) /\ Distinct(DOMAIN w)) =>
              LET found == Ground(conf, w, e.n)[s.key]
                  r     == Rewritten(s, conf, w)
              IN  IF e.origin = "undo" THEN r.old = w[e] /\ r.new = found
                                       ELSE r.new = w[e] /\ r.old = found
<1>1. CASE ~\E x \in DOMAIN w : Author(x, s, DOMAIN w)
  BY <1>1 DEF Rewritten
<1>2. CASE \E x \in DOMAIN w : Author(x, s, DOMAIN w)
  <2> DEFINE e == CHOOSE x \in DOMAIN w : Author(x, s, DOMAIN w)
             found == Ground(conf, w, e.n)[s.key]
             r == Rewritten(s, conf, w)
  <2>1. e \in DOMAIN w /\ Author(e, s, DOMAIN w)
    BY <1>2
  <2>2. r = IF e.origin = "undo" THEN [s EXCEPT !.new = found, !.old = w[e]]
                                 ELSE [s EXCEPT !.old = found, !.new = w[e]]
    BY <1>2 DEF Rewritten
  <2>3. \A f \in DOMAIN w : (Author(f, s, DOMAIN w) /\ Distinct(DOMAIN w)) => f = e
    <3> HIDE DEF e
    <3> SUFFICES ASSUME NEW f \in DOMAIN w, Author(f, s, DOMAIN w), Distinct(DOMAIN w)
                 PROVE  f = e
      OBVIOUS
    <3>1. f.n <= e.n /\ e.n <= f.n /\ e.n \in Nat /\ f.n \in Nat
      BY <2>1 DEF Author, Distinct
    <3> QED BY <2>1, <3>1 DEF Distinct
  <2> HIDE DEF e, r
  <2>4. /\ r.id = s.id /\ r.key = s.key
        /\ IF e.origin = "undo" THEN r.old = w[e] /\ r.new = found
                                ELSE r.new = w[e] /\ r.old = found
    BY <2>2 DEF HistoryRecord
  <2> QED BY <2>3, <2>4 DEF r
<1> QED BY <1>1, <1>2

\* A rebased record describes its surviving author.
LEMMA DescribesRebuilt ==
  ASSUME NEW conf \in Doc, NEW K \in SUBSET Entry, NEW n, Numbered(K, n),
         NEW w \in [K -> Val], NEW q \in Nat, NEW s \in HistoryRecord
  PROVE  Describes(Rewritten(s, conf, w), conf, {Remint(e, w[e], q) : e \in K})
<1> DEFINE P == {Remint(e, w[e], q) : e \in K}
           r == Rewritten(s, conf, w)
           v == Writes(P)
<1>1. DOMAIN w = K /\ \A e \in K : w[e] \in Val
  OBVIOUS
<1>2. /\ P \in SUBSET Entry
      /\ \A e \in K : /\ Remint(e, w[e], q) \in P /\ Remint(e, w[e], q).n = e.n
                      /\ Remint(e, w[e], q).cmd = e.cmd /\ Remint(e, w[e], q).val = w[e]
                      /\ Remint(e, w[e], q).rec = e.rec
                      /\ Remint(e, w[e], q).origin = e.origin
      /\ \A y \in P : \E e \in K : y = Remint(e, w[e], q)
  <2>1. \A e \in K : /\ Remint(e, w[e], q).rec = e.rec
                     /\ Remint(e, w[e], q).origin = e.origin
    BY DEF Remint, Entry
  <2> QED BY <2>1, RemintType
<1>3. DOMAIN v = P /\ \A y \in P : v[y] = y.val
  BY DEF Writes
<1>4. Distinct(K) /\ Distinct(P)
  <2>1. Distinct(K)
    BY NumberedDistinct
  <2> HIDE DEF P
  <2> QED BY <1>2, <2>1 DEF Distinct
<1>5. r.id = s.id /\ r.key = s.key /\ r.key \in Keys
  BY <1>1, RewrittenFacts DEF HistoryRecord
<1> HIDE DEF P, r, v
<1> SUFFICES ASSUME NEW y \in P, Author(y, r, P)
             PROVE  LET found == Ground(conf, v, y.n)[r.key]
                    IN  IF y.origin = "undo" THEN r.old = y.val /\ r.new = found
                                             ELSE r.new = y.val /\ r.old = found
  BY DEF Describes, v, P, r
<1>6. PICK e \in K : y = Remint(e, w[e], q)
  BY <1>2
<1>7. y.n = e.n /\ y.val = w[e] /\ y.rec = e.rec /\ y.origin = e.origin /\ e.n \in Nat
  BY <1>2, <1>6 DEF Entry
<1>8. Author(e, s, K)
  BY <1>2, <1>5, <1>7 DEF Author
<1>9. IF e.origin = "undo" THEN r.old = w[e] /\ r.new = Ground(conf, w, e.n)[s.key]
                           ELSE r.new = w[e] /\ r.old = Ground(conf, w, e.n)[s.key]
  BY <1>1, <1>4, <1>8, RewrittenFacts DEF r
<1>10. Ground(conf, w, e.n)[r.key] = Ground(conf, v, y.n)[r.key]
  <2>1. SameWriters(w, e.n, v, y.n, r.key)
    BY <1>1, <1>2, <1>3, <1>7 DEF SameWriters
  <2> QED BY <1>1, <1>3, <1>4, <1>5, <1>7, <2>1, KeySame
<1> QED BY <1>5, <1>7, <1>9, <1>10

\* A rebased stack holds the rewritten records whose intention stays, and no
\* more than before.
LEMMA RebasedStack ==
  ASSUME NEW stack \in SUBSET HistoryRecord, IsFiniteSet(stack), NEW gone,
         NEW conf \in Doc, NEW w
  PROVE  LET now == Rebased(stack, gone, conf, w)
         IN  /\ IsFiniteSet(now) /\ Cardinality(now) <= Cardinality(stack)
             /\ \A r \in now : \E s \in stack : r = Rewritten(s, conf, w)
<1> DEFINE S == {s \in stack : s.id \notin gone}
           now == Rebased(stack, gone, conf, w)
           f == [s \in S |-> Rewritten(s, conf, w)]
<1>1. IsFiniteSet(S) /\ Cardinality(S) <= Cardinality(stack)
  <2>1. S \in SUBSET stack
    OBVIOUS
  <2> HIDE DEF S
  <2> QED BY <2>1, FS_Subset
<1>2. now = {Rewritten(s, conf, w) : s \in S}
  BY DEF Rebased
<1>3. f \in Surjection(S, now)
  BY <1>2 DEF Surjection
<1>4. \A r \in now : \E s \in stack : r = Rewritten(s, conf, w)
  BY <1>2
<1> HIDE DEF S, now, f
<1>5. IsFiniteSet(now) /\ Cardinality(now) <= Cardinality(S)
  BY <1>1, <1>3, FS_Surjection
<1>6. Cardinality(now) \in Nat /\ Cardinality(S) \in Nat /\ Cardinality(stack) \in Nat
  BY <1>1, <1>5, FS_CardinalityType
<1> QED BY <1>1, <1>4, <1>5, <1>6 DEF now

\* Stacks with fewer records, or with the same records rewritten, fit.
LEMMA FitsLess ==
  ASSUME NEW u, NEW v, Fits(u, v), NEW x, NEW y, IsFiniteSet(x), IsFiniteSet(y),
         Cardinality(x) <= Cardinality(u), Cardinality(y) <= Cardinality(v)
  PROVE  Fits(x, y)
<1>1. /\ Cardinality(u) \in Nat /\ Cardinality(v) \in Nat
      /\ Cardinality(x) \in Nat /\ Cardinality(y) \in Nat
  BY FS_CardinalityType DEF Fits
<1> QED BY <1>1, SessionAssumption DEF Fits

LEMMA FitsSubset ==
  ASSUME NEW u, NEW v, Fits(u, v), NEW x \in SUBSET u, NEW y \in SUBSET v
  PROVE  Fits(x, y)
BY FS_Subset, FitsLess DEF Fits

\* Whatever a rebase starts from, the history follows it.
LEMMA RebaseHistory ==
  ASSUME TypeOK, NEW a \in Actors, SessionDocs(a), HistoryOK(a), UNCHANGED minted,
         NEW conf \in Doc, NEW q \in Nat, NEW skipped, NEW reported,
         NEW undoNow \in SUBSET undo[a], NEW redoNow \in SUBSET redo[a],
         Rebase(a, conf, q, skipped, reported, undoNow, redoNow)
  PROVE  HistoryOK(a)' /\ \A b \in Actors : b # a => undo'[b] = undo[b] /\ redo'[b] = redo[b]
<1> DEFINE E == pending[a] \ skipped
<1>1. PICK K \in SUBSET E :
        \E w \in [K -> Val] : Rebuilt(a, conf, q, E, K, w, reported, undoNow, redoNow)
  BY Zenon DEF Rebase
<1>2. PICK w \in [K -> Val] : Rebuilt(a, conf, q, E, K, w, reported, undoNow, redoNow)
  BY <1>1
<1> DEFINE P == {Remint(e, w[e], q) : e \in K}
           gone == RecordsOf(pending[a] \ K)
           U == Rebased(undoNow, gone, conf, w)
           R == Rebased(redoNow, gone, conf, w)
<1>3. /\ confirmed'[a] = conf /\ pending'[a] = P /\ undo'[a] = U /\ redo'[a] = R
      /\ minted'[a] = minted[a]
      /\ \A b \in Actors : b # a => undo'[b] = undo[b] /\ redo'[b] = redo[b]
  BY <1>2 DEF Rebuilt, TypeOK, DocTypeOK
<1>4. K \in SUBSET Entry /\ Numbered(K, minted[a] + 1)
  BY DEF TypeOK, DocTypeOK, SessionDocs, Numbered
<1>5. undoNow \in SUBSET HistoryRecord /\ redoNow \in SUBSET HistoryRecord
  BY DEF TypeOK, DocTypeOK
<1>6. IsFiniteSet(undoNow) /\ IsFiniteSet(redoNow) /\ Fits(undoNow, redoNow)
  BY FitsSubset DEF HistoryOK, Fits
<1>7. DOMAIN w \subseteq Entry /\ \A e \in DOMAIN w : w[e] \in Val
  BY <1>4
<1> HIDE DEF E
<1>8. \A r \in U : \E s \in undoNow : r = Rewritten(s, conf, w)
  BY <1>5, <1>6, RebasedStack
<1>9. \A r \in R : \E s \in redoNow : r = Rewritten(s, conf, w)
  BY <1>5, <1>6, RebasedStack
<1>10. Fits(U, R)
  <2>1. /\ IsFiniteSet(U) /\ Cardinality(U) <= Cardinality(undoNow)
        /\ IsFiniteSet(R) /\ Cardinality(R) <= Cardinality(redoNow)
    BY <1>5, <1>6, RebasedStack
  <2> HIDE DEF U, R
  <2> QED BY <1>6, <2>1, FitsLess
<1> HIDE DEF U, R, gone
<1>11. \A s \in undoNow \cup redoNow : Rewritten(s, conf, w).id = s.id
  BY <1>5, <1>7, RewrittenFacts
<1>12. Apart(U, R, minted[a])
  <2>1. Apart(undoNow, redoNow, minted[a])
    BY DEF HistoryOK, Apart
  <2> QED BY <1>8, <1>9, <1>11, <2>1 DEF Apart
<1>13. \A r \in U \cup R : Describes(r, conf, P)
  <2>1. \A r \in U \cup R : \E s \in HistoryRecord : r = Rewritten(s, conf, w)
    BY <1>5, <1>8, <1>9
  <2> QED BY <1>4, <2>1, DescribesRebuilt
<1> HIDE DEF P
<1> QED BY <1>3, <1>10, <1>12, <1>13 DEF HistoryOK
-----------------------------------------------------------------------------
(* The steps of one session *)

\* The documents of b stay, and its history may lose records.
Sheds(b) == Kept(b) /\ undo'[b] \in SUBSET undo[b] /\ redo'[b] \in SUBSET redo[b]

LEMMA ShedsHistory ==
  ASSUME NEW b \in Actors, HistoryOK(b), Sheds(b)
  PROVE  HistoryOK(b)'
<1>1. Fits(undo'[b], redo'[b])
  BY FitsSubset DEF HistoryOK, Sheds
<1>2. Apart(undo'[b], redo'[b], minted'[b])
  BY DEF HistoryOK, Sheds, Kept, Apart
<1>3. \A r \in undo'[b] \cup redo'[b] : Describes(r, confirmed'[b], pending'[b])
  BY DEF HistoryOK, Sheds, Kept
<1> QED BY <1>1, <1>2, <1>3 DEF HistoryOK

\* What the lemmas below conclude of a step of a.
HistoryStepOf(a) == HistoryOK(a)' /\ \A b \in Actors : b # a => Sheds(b)

LEMMA IngestHistory ==
  ASSUME TypeOK, LogIsSound, NEW a \in Actors, SessionDocs(a), HistoryOK(a), Ingests(a)
  PROVE  HistoryStepOf(a)
<1>1. PICK r \in 1 .. Len(log) : IngestOrdered(a, r) /\ UNCHANGED <<log, minted>>
  BY DEF Ingests
<1>2. \A b \in Actors : b # a => Kept(b)
  BY <1>1, IngestDocs
<1>3. log[r] \in LogOp /\ Len(log) \in Nat
  BY ElementOfSeq, LenProperties DEF TypeOK, ServerTypeOK
<1> DEFINE op == log[r]
           next == Write(confirmed[a], op)
<1>4. next \in Doc /\ r \in Nat
  BY <1>3, WriteType DEF TypeOK, DocTypeOK, LogOp
<1>5. CASE Ack(a, op, r)
  <2>1. PICK h \in pending[a] :
          /\ \A f \in pending[a] : h.n <= f.n
          /\ h.cmd.key = op.key /\ h.val = op.val
          /\ rev'     = [rev EXCEPT ![a] = r]
          /\ pending' = [pending EXCEPT ![a] = pending[a] \ {h}]
          /\ UNCHANGED <<undo, redo>>
    BY <1>5 DEF Ack, IsHead
  <2>2. rev'[a] = r /\ pending'[a] = pending[a] \ {h} /\ minted'[a] = minted[a]
    BY <1>1, <2>1 DEF TypeOK, DocTypeOK
  <2>3. confirmed'[a] = next
    <3>1. SessionDocs(a)'
      BY <1>1, IngestDocs
    <3>2. r = rev[a] + 1 /\ rev[a] \in Nat
      BY <1>1 DEF IngestOrdered, TypeOK, DocTypeOK
    <3>3. DocAt(r) = op.doc /\ op.doc = Write(DocAt(r - 1), op)
      BY <1>3, <3>2 DEF DocAt, LogIsSound
    <3>4. confirmed[a] = DocAt(r - 1)
      BY <3>2 DEF SessionDocs
    <3>5. confirmed'[a] = DocAt(r)' /\ DocAt(r)' = DocAt(r)
      BY <1>1, <2>2, <3>1 DEF SessionDocs, DocAt
    <3> QED BY <3>3, <3>4, <3>5
  <2>4. /\ confirmed[a] \in Doc /\ pending[a] \in SUBSET Entry
        /\ minted[a] + 1 \in Nat /\ Numbered(pending[a], minted[a] + 1)
    BY DEF TypeOK, DocTypeOK, LinkTypeOK, SessionDocs
  <2>5. \A s \in undo[a] \cup redo[a] : Describes(s, next, pending[a] \ {h})
    <3> HIDE DEF op
    <3> QED BY <2>1, <2>4, DescribesAck DEF HistoryOK
  <2> HIDE DEF next
  <2>6. HistoryOK(a)'
    BY <2>1, <2>2, <2>3, <2>5 DEF HistoryOK
  <2> QED BY <1>2, <2>1, <2>6 DEF HistoryStepOf, Sheds
<1>6. CASE ConfirmPending(a, op, r) \/ ApplyForeign(a, op, r)
  <2>1. \E skipped : Rebase(a, next, r, skipped, {}, undo[a], redo[a])
    BY <1>6 DEF ConfirmPending, ApplyForeign
  <2> HIDE DEF next
  <2>2. HistoryOK(a)' /\ \A b \in Actors : b # a => undo'[b] = undo[b] /\ redo'[b] = redo[b]
    BY <1>1, <1>4, <2>1, RebaseHistory
  <2> QED BY <1>2, <2>2 DEF HistoryStepOf, Sheds
<1> QED BY <1>1, <1>5, <1>6 DEF IngestOrdered

LEMMA AdoptHistory ==
  ASSUME TypeOK, CopiesAreFaithful, NEW a \in Actors, SessionDocs(a), HistoryOK(a),
         AdoptSnapshot(a)
  PROVE  HistoryStepOf(a)
<1> DEFINE snap == sync[a].reply
           dropped == Ambiguous(a, snap.rev)
           reported == {e.n : e \in dropped}
<1>1. Rebase(a, snap.doc, snap.rev, dropped, reported, {}, {}) /\ UNCHANGED minted
  BY DEF AdoptSnapshot
<1>2. snap \in SnapshotReply
  BY DEF AdoptSnapshot, Fetched, TypeOK, SyncTypeOK
<1>3. snap.doc \in Doc /\ snap.rev \in Nat
  BY <1>2 DEF SnapshotReply
<1>4. \A b \in Actors : b # a => Kept(b)
  BY AdoptDocs
<1> HIDE DEF snap, dropped, reported
<1>5. HistoryOK(a)' /\ \A b \in Actors : b # a => undo'[b] = undo[b] /\ redo'[b] = redo[b]
  BY <1>1, <1>3, RebaseHistory
<1> QED BY <1>4, <1>5 DEF HistoryStepOf, Sheds

LEMMA PumpLoopHistory ==
  ASSUME TypeOK, NEW a \in Actors, SessionDocs(a), HistoryOK(a), PumpLoop(a)
  PROVE  HistoryStepOf(a)
<1>1. \A b \in Actors : b # a => Sheds(b)
  BY PumpLoopDocs DEF PumpLoop, Sheds
<1>2. CASE UNCHANGED pending
  <2>1. Sheds(a)
    BY <1>2 DEF PumpLoop, Sheds, Kept
  <2> QED BY <1>1, <2>1, ShedsHistory DEF HistoryStepOf
<1>3. ASSUME NEW h \in pending[a],
             pending' = [pending EXCEPT ![a] = (pending[a] \ {h}) \cup {Attempted(h, rev[a])}]
      PROVE  HistoryStepOf(a)
  <2> DEFINE g == Attempted(h, rev[a])
             n == minted[a] + 1
  <2>1. /\ confirmed[a] \in Doc /\ pending[a] \in SUBSET Entry /\ n \in Nat
        /\ Numbered(pending[a], n) /\ h \in Entry /\ rev[a] \in Nat
    BY DEF SessionDocs, TypeOK, DocTypeOK, LinkTypeOK
  <2>2. /\ g \in Entry /\ g.n = h.n /\ g.cmd = h.cmd /\ g.val = h.val
        /\ g.origin = h.origin /\ g.rec = h.rec
    <3> DEFINE more == h.attempts \cup {[gen |-> h.gen, base |-> rev[a], val |-> h.val]}
    <3>1. more \in SUBSET Attempt
      BY <2>1 DEF Entry, Attempt
    <3>2. g = h \/ g = [h EXCEPT !.attempts = more]
      BY DEF Attempted
    <3> HIDE DEF more, g
    <3> QED BY <2>1, <3>1, <3>2 DEF Entry
  <2>3. /\ pending'[a] = (pending[a] \ {h}) \cup {g} /\ confirmed'[a] = confirmed[a]
        /\ undo'[a] = undo[a] /\ redo'[a] = redo[a] /\ minted'[a] = minted[a]
    BY <1>3 DEF PumpLoop, TypeOK, DocTypeOK
  <2> HIDE DEF g, n
  <2>4. \A s \in undo[a] \cup redo[a] : Describes(s, confirmed[a], (pending[a] \ {h}) \cup {g})
    <3>1. undo[a] \cup redo[a] \in SUBSET HistoryRecord
      BY DEF TypeOK, DocTypeOK
    <3> QED BY <2>1, <2>2, <3>1, DescribesAttempt DEF HistoryOK
  <2>5. HistoryOK(a)'
    BY <2>3, <2>4 DEF HistoryOK
  <2> QED BY <1>1, <2>5 DEF HistoryStepOf
<1> QED BY <1>2, <1>3 DEF PumpLoop

-----------------------------------------------------------------------------
(* The steps the user makes *)

\* A command is run: the records of other intentions stay, and so does one
\* that says what the new intention does.
LEMMA RunHistory ==
  ASSUME TypeOK, NEW a \in Actors, SessionDocs(a), NEW cmd \in Command,
         NEW origin \in {"command", "undo", "redo"}, NEW rec \in Nat,
         NEW found \in Val \cup {None}, Run(a, cmd, origin, rec, found),
         UNCHANGED <<log, confirmed, rev>>
  PROVE  LET val == cmd.write[store[a][cmd.key]]
             was == store[a][cmd.key]
         IN  /\ val \in Val /\ was \in Val /\ minted'[a] = minted[a] + 1
             /\ \A s \in HistoryRecord :
                  (s.id # rec /\ Describes(s, confirmed[a], pending[a]))
                     => Describes(s, confirmed'[a], pending'[a])
             /\ \A s \in HistoryRecord :
                  (/\ s.id = rec /\ s.key = cmd.key
                   /\ IF origin = "undo" THEN s.old = val /\ s.new = was
                                         ELSE s.new = val /\ s.old = was)
                     => Describes(s, confirmed'[a], pending'[a])
             /\ \A b \in Actors : b # a => Kept(b)
<1> DEFINE e == NewEntry(a, cmd, origin, rec, found)
           n == minted[a] + 1
           val == cmd.write[store[a][cmd.key]]
           was == store[a][cmd.key]
<1>1. /\ val \in Val /\ was \in Val /\ n \in Nat /\ n = minted[a] + 1
      /\ confirmed[a] \in Doc /\ pending[a] \in SUBSET Entry /\ Numbered(pending[a], n)
      /\ store[a] = Ground(confirmed[a], Writes(pending[a]), n)
  BY DEF TypeOK, DocTypeOK, Doc, Command, LinkTypeOK, SessionDocs
<1>2. e \in Entry /\ e.n = n /\ e.val = val /\ e.origin = origin /\ e.rec = rec
  BY <1>1 DEF NewEntry, Entry, TypeOK, LinkTypeOK
<1>3. pending'[a] = pending[a] \cup {e} /\ confirmed'[a] = confirmed[a] /\ minted'[a] = n
  BY DEF Run, TypeOK, DocTypeOK, LinkTypeOK
<1>4. \A b \in Actors : b # a => Kept(b)
  BY RunDocs
<1> HIDE DEF e, n
<1>5. \A s \in HistoryRecord :
        (s.id # rec /\ Describes(s, confirmed[a], pending[a]))
           => Describes(s, confirmed[a], pending[a] \cup {e})
  BY <1>1, <1>2, DescribesOther
<1>6. ASSUME NEW s \in HistoryRecord, s.id = rec, s.key = cmd.key,
             IF origin = "undo" THEN s.old = val /\ s.new = was
                                ELSE s.new = val /\ s.old = was
      PROVE  Describes(s, confirmed[a], pending[a] \cup {e})
  <2>1. was = Ground(confirmed[a], Writes(pending[a]), n)[s.key]
    BY <1>1, <1>6
  <2> HIDE DEF was, val
  <2> QED BY <1>1, <1>2, <1>6, <2>1, DescribesNew
<1> QED BY <1>1, <1>3, <1>4, <1>5, <1>6

\* A capped stack has at most maxUndo records of the stack.
LEMMA CappedFits ==
  ASSUME NEW stack \in SUBSET HistoryRecord, IsFiniteSet(stack),
         Cardinality(stack) <= MaxUndo + 1
  PROVE  Capped(stack) \in SUBSET stack /\ Fits(Capped(stack), {})
<1>1. Cardinality(stack) \in Nat /\ IsFiniteSet({}) /\ Cardinality({}) = 0 /\ MaxUndo \in Nat
  BY FS_CardinalityType, FS_EmptySet, SessionAssumption
<1>2. CASE Cardinality(stack) <= MaxUndo
  <2>1. Capped(stack) = stack
    BY <1>1, <1>2 DEF Capped
  <2> QED BY <1>1, <1>2, <2>1 DEF Fits
<1>3. CASE Cardinality(stack) > MaxUndo
  <2> DEFINE rest == {r \in stack : ~IsBottom(stack, r)}
             ats == {r.at : r \in stack}
  <2>1. Capped(stack) = rest /\ rest \in SUBSET stack
    BY <1>3 DEF Capped
  <2>2. stack # {}
    BY <1>1, <1>3
  <2>3. ats \in SUBSET Nat /\ ats # {}
    BY <2>2 DEF HistoryRecord
  <2> HIDE DEF ats
  <2>4. PICK m \in ats : \A x \in ats : m <= x
    BY <2>3, Smallest
  <2>5. PICK r \in stack : IsBottom(stack, r)
    BY <2>4 DEF ats, IsBottom
  <2>6. rest # stack
    BY <2>5
  <2> HIDE DEF rest
  <2>7. /\ IsFiniteSet(rest) /\ Cardinality(rest) <= Cardinality(stack)
        /\ Cardinality(rest) # Cardinality(stack)
    BY <2>1, <2>6, FS_Subset
  <2>8. Cardinality(rest) \in Nat
    BY <2>7, FS_CardinalityType
  <2>9. Cardinality(rest) <= MaxUndo
    BY <1>1, <2>7, <2>8
  <2> QED BY <1>1, <2>1, <2>7, <2>8, <2>9 DEF Fits
<1> QED BY <1>1, <1>2, <1>3

LEMMA DispatchHistory ==
  ASSUME TypeOK, NEW a \in Actors, SessionDocs(a), HistoryOK(a),
         NEW cmd \in Commands, Dispatch(a, cmd)
  PROVE  HistoryStepOf(a)
<1> DEFINE n == minted[a] + 1
           r == [at |-> n, id |-> n, key |-> cmd.key, old |-> store[a][cmd.key],
                 new |-> cmd.write[store[a][cmd.key]]]
           stack == undo[a] \cup {r}
<1>1. cmd \in Command /\ n \in Nat /\ minted[a] \in Nat /\ n = minted[a] + 1
  BY SessionAssumption DEF TypeOK, LinkTypeOK
<1>2. Run(a, cmd, "command", n, None) /\ UNCHANGED <<log, confirmed, rev>>
  BY DEF Dispatch, serverVars
<1>3. undo' = [undo EXCEPT ![a] = Capped(stack)] /\ redo' = [redo EXCEPT ![a] = {}]
  <2>1. Push(undo[a], r, n) = stack
    BY DEF Push
  <2> QED BY <2>1 DEF Dispatch
<1>4. undo'[a] = Capped(stack) /\ redo'[a] = {}
      /\ \A b \in Actors : b # a => undo'[b] = undo[b] /\ redo'[b] = redo[b]
  BY <1>3 DEF TypeOK, DocTypeOK
<1>5. /\ cmd.write[store[a][cmd.key]] \in Val /\ store[a][cmd.key] \in Val
      /\ minted'[a] = n /\ \A b \in Actors : b # a => Kept(b)
  BY <1>1, <1>2, RunHistory
<1>6. /\ r \in HistoryRecord /\ undo[a] \in SUBSET HistoryRecord /\ r.id = n
      /\ r.key = cmd.key /\ r.old = store[a][cmd.key] /\ r.new = cmd.write[store[a][cmd.key]]
  BY <1>1, <1>5 DEF HistoryRecord, Command, TypeOK, DocTypeOK
<1> HIDE DEF r, n
<1>7. Capped(stack) \in SUBSET stack /\ Fits(Capped(stack), {})
  <2>1. /\ IsFiniteSet(undo[a]) /\ Cardinality(undo[a]) \in Nat
        /\ Cardinality(redo[a]) \in Nat /\ MaxUndo \in Nat
        /\ Cardinality(undo[a]) + Cardinality(redo[a]) <= MaxUndo
    BY FS_CardinalityType, SessionAssumption DEF HistoryOK, Fits
  <2>2. IsFiniteSet(stack) /\ Cardinality(stack) <= Cardinality(undo[a]) + 1
    <3>1. /\ IsFiniteSet(undo[a] \cup {r})
          /\ Cardinality(undo[a] \cup {r})
               = IF r \in undo[a] THEN Cardinality(undo[a]) ELSE Cardinality(undo[a]) + 1
      BY <2>1, FS_AddElement, Zenon
    <3> QED BY <2>1, <3>1
  <2>3. Cardinality(stack) <= MaxUndo + 1 /\ stack \in SUBSET HistoryRecord
    BY <1>6, <2>1, <2>2, FS_CardinalityType
  <2> HIDE DEF stack
  <2> QED BY <2>2, <2>3, CappedFits
<1>8. Apart(stack, {}, n)
  BY <1>1, <1>6 DEF HistoryOK, Apart, TypeOK, DocTypeOK, HistoryRecord
<1>9. \A s \in stack : Describes(s, confirmed'[a], pending'[a])
  <2>1. Describes(r, confirmed'[a], pending'[a])
    BY <1>1, <1>2, <1>6, RunHistory
  <2>2. \A s \in undo[a] : s.id # n
    BY <1>1, <1>6 DEF HistoryOK, Apart, HistoryRecord
  <2>3. \A s \in undo[a] : Describes(s, confirmed'[a], pending'[a])
    BY <1>1, <1>2, <1>6, <2>2, RunHistory DEF HistoryOK
  <2> QED BY <2>1, <2>3
<1>10. Apart(Capped(stack), {}, n)
  BY <1>7, <1>8 DEF Apart
<1>11. HistoryOK(a)'
  BY <1>4, <1>5, <1>7, <1>9, <1>10 DEF HistoryOK
<1> QED BY <1>4, <1>5, <1>11 DEF HistoryStepOf, Sheds
\* The record r goes from the stack u to the stack v, where it is s.
MovesTo(u, v, r, s, n, m) ==
  /\ Push(v, r, n) = v \cup {s} /\ s \in HistoryRecord
  /\ s.id = r.id /\ s.key = r.key /\ s.old = r.old /\ s.new = r.new
  /\ Fits(u \ {r}, Push(v, r, n)) /\ Apart(u \ {r}, Push(v, r, n), m)
  /\ \A x \in (u \ {r}) \cup v : x.id # r.id

\* A record that moves to the other stack keeps its id and gets a new place.
LEMMA MovedFits ==
  ASSUME NEW u \in SUBSET HistoryRecord, NEW v \in SUBSET HistoryRecord, Fits(u, v),
         NEW m \in Nat, Apart(u, v, m), NEW r \in u, NEW n \in Nat
  PROVE  MovesTo(u, v, r, [r EXCEPT !.at = n], n, m)
<1> DEFINE s == [r EXCEPT !.at = n]
<1>1. /\ s \in HistoryRecord /\ s.id = r.id /\ s.key = r.key /\ s.old = r.old /\ s.new = r.new
  BY DEF HistoryRecord
<1>2. Push(v, r, n) = v \cup {s}
  BY DEF Push
<1> HIDE DEF s
<1>3. /\ IsFiniteSet(u) /\ IsFiniteSet(v) /\ Cardinality(u) \in Nat /\ Cardinality(v) \in Nat
      /\ Cardinality(u) + Cardinality(v) <= MaxUndo /\ MaxUndo \in Nat
  BY FS_CardinalityType, SessionAssumption DEF Fits
<1>4. \A x \in (u \ {r}) \cup v : x.id # r.id
  BY DEF Apart
<1>5. /\ IsFiniteSet(u \ {r}) /\ Cardinality(u \ {r}) = Cardinality(u) - 1
  BY <1>3, FS_RemoveElement
<1>6. /\ IsFiniteSet(v \cup {s}) /\ Cardinality(v \cup {s}) = Cardinality(v) + 1
  <2>1. s \notin v
    BY <1>1, <1>4
  <2> QED BY <1>3, <2>1, FS_AddElement
<1>7. Fits(u \ {r}, v \cup {s})
  BY <1>3, <1>5, <1>6 DEF Fits
<1>8. Apart(u \ {r}, v \cup {s}, m)
  BY <1>1, <1>4 DEF Apart
<1> QED BY <1>1, <1>2, <1>4, <1>7, <1>8 DEF s, MovesTo

LEMMA ApartLater ==
  ASSUME NEW u \in SUBSET HistoryRecord, NEW v \in SUBSET HistoryRecord, NEW m \in Nat,
         Apart(u, v, m)
  PROVE  Apart(u, v, m + 1)
BY DEF Apart, HistoryRecord

\* The order of the stacks does not matter.
LEMMA Swapped ==
  ASSUME NEW u, NEW v
  PROVE  (Fits(u, v) => Fits(v, u)) /\ \A m : Apart(u, v, m) => Apart(v, u, m)
<1>1. Fits(u, v) => Fits(v, u)
  BY FS_CardinalityType DEF Fits
<1>2. \A m : Apart(u, v, m) => Apart(v, u, m)
  BY DEF Apart
<1> QED BY <1>1, <1>2

LEMMA UndoHistory ==
  ASSUME TypeOK, NEW a \in Actors, SessionDocs(a), HistoryOK(a), Undo(a) \/ Redo(a)
  PROVE  HistoryStepOf(a)
<1> DEFINE n == minted[a] + 1
<1>1. /\ undo[a] \in SUBSET HistoryRecord /\ redo[a] \in SUBSET HistoryRecord
      /\ minted[a] \in Nat /\ n \in Nat /\ n = minted[a] + 1
      /\ UNCHANGED <<log, confirmed, rev>>
  BY DEF TypeOK, DocTypeOK, LinkTypeOK, Undo, Redo, serverVars
<1> HIDE DEF n
<1>2. CASE Undo(a)
  <2>1. PICK r \in undo[a] :
          /\ store[a][r.key] = r.new
          /\ Run(a, SessionPatch(r.key, r.old), "undo", r.id, r.new)
          /\ undo' = [undo EXCEPT ![a] = undo[a] \ {r}]
          /\ redo' = [redo EXCEPT ![a] = Push(redo[a], r, n)]
    BY <1>2 DEF Undo, n
  <2> DEFINE s == [r EXCEPT !.at = n]
             cmd == SessionPatch(r.key, r.old)
  <2>2. MovesTo(undo[a], redo[a], r, s, n, minted[a])
    BY <1>1, MovedFits DEF HistoryOK
  <2>3. /\ r \in HistoryRecord /\ cmd \in Command /\ r.id \in Nat /\ r.new \in Val
        /\ cmd.key = r.key /\ cmd.write[store[a][r.key]] = r.old
    <3>1. r.key \in Keys /\ r.old \in Val /\ r.id \in Nat /\ r.new \in Val
      BY <1>1 DEF HistoryRecord
    <3>2. store[a][r.key] \in Val
      BY <3>1 DEF TypeOK, DocTypeOK, Doc
    <3> QED BY <1>1, <3>1, <3>2, SessionPatchType DEF SessionPatch
  <2>4. /\ undo'[a] = undo[a] \ {r} /\ redo'[a] = redo[a] \cup {s}
        /\ \A b \in Actors : b # a => undo'[b] = undo[b] /\ redo'[b] = redo[b]
    BY <2>1, <2>2 DEF MovesTo, TypeOK, DocTypeOK
  <2> HIDE DEF s, cmd
  <2>5. Run(a, cmd, "undo", r.id, r.new)
    BY <2>1 DEF cmd
  <2>6. /\ minted'[a] = n /\ \A b \in Actors : b # a => Kept(b)
        /\ Describes(s, confirmed'[a], pending'[a])
    BY <1>1, <2>1, <2>2, <2>3, <2>5, RunHistory DEF MovesTo
  <2>7. \A x \in (undo[a] \ {r}) \cup redo[a] : Describes(x, confirmed'[a], pending'[a])
    BY <1>1, <2>2, <2>3, <2>5, RunHistory DEF MovesTo, HistoryOK
  <2>8. Apart(undo'[a], redo'[a], minted'[a]) /\ Fits(undo'[a], redo'[a])
    <3>1. undo'[a] \in SUBSET HistoryRecord /\ redo'[a] \in SUBSET HistoryRecord
      BY <1>1, <2>2, <2>4 DEF MovesTo
    <3>2. Apart(undo'[a], redo'[a], minted[a]) /\ Fits(undo'[a], redo'[a])
      BY <2>2, <2>4 DEF MovesTo
    <3> QED BY <1>1, <2>6, <3>1, <3>2, ApartLater
  <2>9. HistoryOK(a)'
    BY <2>4, <2>6, <2>7, <2>8 DEF HistoryOK
  <2> QED BY <2>4, <2>6, <2>9 DEF HistoryStepOf, Sheds
<1>3. CASE Redo(a)
  <2>1. PICK r \in redo[a] :
          /\ store[a][r.key] = r.old
          /\ Run(a, SessionPatch(r.key, r.new), "redo", r.id, r.old)
          /\ redo' = [redo EXCEPT ![a] = redo[a] \ {r}]
          /\ undo' = [undo EXCEPT ![a] = Push(undo[a], r, n)]
    BY <1>3 DEF Redo, n
  <2> DEFINE s == [r EXCEPT !.at = n]
             cmd == SessionPatch(r.key, r.new)
  <2>2. MovesTo(redo[a], undo[a], r, s, n, minted[a])
    <3>1. Fits(redo[a], undo[a]) /\ Apart(redo[a], undo[a], minted[a])
      BY Swapped DEF HistoryOK
    <3> QED BY <1>1, <3>1, MovedFits
  <2>3. /\ r \in HistoryRecord /\ cmd \in Command /\ r.id \in Nat /\ r.old \in Val
        /\ cmd.key = r.key /\ cmd.write[store[a][r.key]] = r.new
    <3>1. r.key \in Keys /\ r.old \in Val /\ r.id \in Nat /\ r.new \in Val
      BY <1>1 DEF HistoryRecord
    <3>2. store[a][r.key] \in Val
      BY <3>1 DEF TypeOK, DocTypeOK, Doc
    <3> QED BY <1>1, <3>1, <3>2, SessionPatchType DEF SessionPatch
  <2>4. /\ redo'[a] = redo[a] \ {r} /\ undo'[a] = undo[a] \cup {s}
        /\ \A b \in Actors : b # a => undo'[b] = undo[b] /\ redo'[b] = redo[b]
    BY <2>1, <2>2 DEF MovesTo, TypeOK, DocTypeOK
  <2> HIDE DEF s, cmd
  <2>5. Run(a, cmd, "redo", r.id, r.old)
    BY <2>1 DEF cmd
  <2>6. /\ minted'[a] = n /\ \A b \in Actors : b # a => Kept(b)
        /\ Describes(s, confirmed'[a], pending'[a])
    BY <1>1, <2>1, <2>2, <2>3, <2>5, RunHistory DEF MovesTo
  <2>7. \A x \in (redo[a] \ {r}) \cup undo[a] : Describes(x, confirmed'[a], pending'[a])
    BY <1>1, <2>2, <2>3, <2>5, RunHistory DEF MovesTo, HistoryOK
  <2>8. Apart(undo'[a], redo'[a], minted'[a]) /\ Fits(undo'[a], redo'[a])
    <3>1. undo'[a] \in SUBSET HistoryRecord /\ redo'[a] \in SUBSET HistoryRecord
      BY <1>1, <2>2, <2>4 DEF MovesTo
    <3>2. Apart(redo'[a], undo'[a], minted[a]) /\ Fits(redo'[a], undo'[a])
      BY <2>2, <2>4 DEF MovesTo
    <3> QED BY <1>1, <2>6, <3>1, <3>2, ApartLater, Swapped
  <2>9. HistoryOK(a)'
    BY <2>4, <2>6, <2>7, <2>8 DEF HistoryOK
  <2> QED BY <2>4, <2>6, <2>9 DEF HistoryStepOf, Sheds
<1> QED BY <1>2, <1>3

LEMMA UserHistory ==
  ASSUME TypeOK, NEW a \in Actors, SessionDocs(a), HistoryOK(a), UserStep(a)
  PROVE  HistoryStepOf(a)
<1>1. ASSUME \A b \in Actors : Sheds(b) PROVE HistoryStepOf(a)
  BY <1>1, ShedsHistory DEF HistoryStepOf
<1>2. CASE DropStaleRecord(a)
  <2>1. \A b \in Actors : Kept(b)
    BY <1>2 DEF DropStaleRecord, Kept
  <2>2. \A b \in Actors : undo'[b] \in SUBSET undo[b] /\ redo'[b] \in SUBSET redo[b]
    BY <1>2 DEF DropStaleRecord, TypeOK, DocTypeOK
  <2> QED BY <1>1, <2>1, <2>2 DEF Sheds
<1>3. CASE Close(a)
  BY <1>1, <1>3 DEF Close, Sheds, Kept, docVars
<1> QED BY <1>2, <1>3, DispatchHistory, UndoHistory DEF UserStep

-----------------------------------------------------------------------------
(* The theorems about the history *)

LEMMA SessionStepHistory ==
  ASSUME HistoryInv, NEW a \in Actors, SessionStep(a)
  PROVE  HistoryStepOf(a)
<1> USE DEF HistoryInv, DocsInv, DocsOK
<1>1. CASE UserStep(a)
  BY <1>1, UserHistory
<1>2. CASE UNCHANGED <<docVars, minted>>
  BY <1>2, ShedsHistory DEF docVars, Kept, Sheds, HistoryStepOf
<1>3. CASE PumpLoop(a)
  BY <1>3, PumpLoopHistory
<1>4. CASE Ingests(a)
  BY <1>4, IngestHistory
<1>5. CASE AdoptSnapshot(a)
  BY <1>5, AdoptHistory
<1> QED BY <1>1, <1>2, <1>3, <1>4, <1>5, SessionWays

LEMMA NextHistory ==
  ASSUME HistoryInv, [Next]_vars
  PROVE  HistoryInv'
<1>1. DocsInv'
  BY NextDocs DEF HistoryInv
<1>2. CASE OutsideStep \/ UNCHANGED vars
  <2>1. UNCHANGED <<docVars, minted>>
    BY <1>2 DEF OutsideStep, ServeLate, ForeignCheckpoint, Compact, ForeignOp, vars
  <2>2. \A b \in Actors : Sheds(b)
    BY <2>1 DEF Kept, Sheds, docVars
  <2> QED BY <1>1, <2>2, ShedsHistory DEF HistoryInv
<1>3. ASSUME NEW a \in Actors, SessionStep(a) PROVE HistoryInv'
  <2>1. HistoryOK(a)' /\ \A b \in Actors : b # a => Sheds(b)
    BY <1>3, SessionStepHistory DEF HistoryStepOf
  <2>2. \A b \in Actors : HistoryOK(b)'
    BY <2>1, ShedsHistory DEF HistoryInv
  <2> QED BY <1>1, <2>2 DEF HistoryInv
<1> QED BY <1>2, <1>3 DEF Next

LEMMA InitHistory == Init => HistoryInv
<1> SUFFICES ASSUME Init PROVE HistoryInv
  OBVIOUS
<1>1. ASSUME NEW a \in Actors PROVE HistoryOK(a)
  <2>1. undo[a] = {} /\ redo[a] = {}
    BY DEF Init
  <2> QED BY <2>1, FS_EmptySet, SessionAssumption DEF HistoryOK, Fits, Apart
<1> QED BY <1>1, InitDocs DEF HistoryInv

LEMMA HistoryHolds == Spec => []HistoryInv
<1>1. HistoryInv /\ [Next]_vars => HistoryInv'
  BY NextHistory
<1> QED BY <1>1, InitHistory, PTL DEF Spec

\* Ids tell the records of both stacks apart.
LEMMA IdsCount ==
  ASSUME NEW u, NEW v, Fits(u, v), NEW n, Apart(u, v, n)
  PROVE  Cardinality({r.id : r \in u \cup v}) = Cardinality(u) + Cardinality(v)
<1> DEFINE S == u \cup v
           T == {r.id : r \in S}
           f == [r \in S |-> r.id]
<1>1. f \in Bijection(S, T)
  BY DEF Bijection, Injection, IsInjective, Surjection, Apart
<1>2. u \cap v = {} /\ IsFiniteSet(u) /\ IsFiniteSet(v)
  BY DEF Apart, Fits
<1>3. IsFiniteSet(S) /\ Cardinality(S) = Cardinality(u) + Cardinality(v)
  <2>1. /\ IsFiniteSet(u \cup v)
        /\ Cardinality(u \cup v) = Cardinality(u) + Cardinality(v) - Cardinality(u \cap v)
    BY <1>2, FS_Union
  <2>2. /\ Cardinality(u \cap v) = 0
        /\ Cardinality(u) \in Nat /\ Cardinality(v) \in Nat
    <3>1. Cardinality(u \cap v) = 0
      BY <1>2, FS_EmptySet, Zenon
    <3> QED BY <1>2, <3>1, FS_CardinalityType
  <2> QED BY <2>1, <2>2
<1> HIDE DEF S, T, f
<1>4. Cardinality(T) = Cardinality(S)
  BY <1>1, <1>3, FS_Bijection DEF ExistsBijection
<1> QED BY <1>3, <1>4 DEF S, T

\* The history never outgrows maxUndo, although undo and redo push without a
\* cap, and no record is on the stacks twice.
THEOREM HistoryStaysBounded == Spec => []HistoryBounded
<1>1. HistoryInv => HistoryBounded
  <2> SUFFICES ASSUME HistoryInv, NEW a \in Actors
               PROVE  /\ Cardinality(undo[a]) + Cardinality(redo[a]) <= MaxUndo
                      /\ Cardinality({r.id : r \in undo[a] \cup redo[a]})
                           = Cardinality(undo[a]) + Cardinality(redo[a])
    BY DEF HistoryBounded
  <2>1. Fits(undo[a], redo[a]) /\ Apart(undo[a], redo[a], minted[a])
    BY DEF HistoryInv, HistoryOK
  <2> QED BY <2>1, IdsCount DEF Fits
<1> QED BY <1>1, HistoryHolds, PTL

\* A record whose author is still pending rewrites with every rebase, mirrored
\* for an undo.
THEOREM HistoryKeepsUp == Spec => []HistoryFollowsRebase
<1>1. HistoryInv => HistoryFollowsRebase
  BY DEF HistoryInv, HistoryOK, Describes, Writes, HistoryFollowsRebase
<1> QED BY <1>1, HistoryHolds, PTL
=============================================================================
