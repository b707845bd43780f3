-------------------------- MODULE ExecutionsVerdicts --------------------------
(***************************************************************************)
(* Proofs about what a window believes of the runs it follows: an end that  *)
(* is shown is the one there was and stays shown; the map of executions,    *)
(* what is kept beside it and the plans go together; a verdict of loss is   *)
(* timely, a node that ended stays ended; and nothing that was open at a    *)
(* connect is left open once it has ended.                                  *)
(***************************************************************************)
EXTENDS ExecutionsProperties, FiniteSetTheorems, SequenceTheorems, TLAPS

-----------------------------------------------------------------------------
(* Lists: what is filtered from one, by induction on its length.  The       *)
(* library's induction theorems take an operator; the existence of minimal  *)
(* elements takes a set.                                                    *)

\* The least number of a set of numbers.
LEMMA Least ==
  ASSUME NEW T, T \subseteq Nat, T # {}
  PROVE  \E m \in T : \A n \in T : m <= n
<1>1. PICK x \in T : TRUE
  OBVIOUS
<1> DEFINE U == {0 .. n : n \in {n \in T : n <= x}}
           R == StrictSubsetOrdering(0 .. x)
           F == FiniteSubsetsOf(0 .. x)
<1>2. IsWellFoundedOn(R, F)
  BY FS_StrictSubsetOrderingWellFounded
<1>3. U \subseteq F
  <2>1. ASSUME NEW n \in T, n <= x PROVE 0 .. n \in F
    <3>1. IsFiniteSet(0 .. n)
      BY FS_Interval
    <3>2. 0 .. n \subseteq 0 .. x
      BY <2>1
    <3> QED
      BY <3>1, <3>2 DEF FiniteSubsetsOf
  <2> HIDE DEF F
  <2> QED
    BY <2>1
<1>4. 0 .. x \in U
  OBVIOUS
<1> HIDE DEF R, F, U
<1>5. PICK u \in U : \A w \in U : ~(<<w, u>> \in R)
  BY <1>2, <1>3, <1>4, WFMin
<1>6. PICK m \in T : m <= x /\ u = 0 .. m
  BY DEF U
<1>7. ASSUME NEW n \in T, n < m PROVE FALSE
  <2>1. n <= x /\ 0 .. n \in U
    BY <1>6, <1>7 DEF U
  <2>2. 0 .. n \subseteq 0 .. m /\ 0 .. n # 0 .. m /\ 0 .. m \subseteq 0 .. x
    <3>1. m \in 0 .. m /\ m \notin 0 .. n
      BY <1>7
    <3> QED
      BY <3>1, <1>6, <1>7
  <2>3. <<0 .. n, u>> \in R
    BY <1>6, <2>2 DEF R, StrictSubsetOrdering
  <2> QED
    BY <1>5, <2>1, <2>3
<1> QED
  BY <1>6, <1>7

\* The function that Among is a value of.
Filters(seq, js, n, f) ==
  f = [i \in 0 .. n |-> IF i = 0 THEN <<>>
        ELSE IF seq[i] \in js THEN Append(f[i - 1], seq[i]) ELSE f[i - 1]]

LEMMA FiltersExist ==
  ASSUME NEW seq, NEW js, NEW N \in Nat
  PROVE  \E f : Filters(seq, js, N, f)
<1> DEFINE T == {n \in Nat : ~ \E f : Filters(seq, js, n, f)}
<1>1. CASE T = {}
  BY <1>1
<1>2. CASE T # {}
  <2>1. PICK m \in T : \A n \in T : m <= n
    <3> HIDE DEF T
    <3>1. T \subseteq Nat
      BY DEF T
    <3> QED
      BY <1>2, <3>1, Least
  <2>2. CASE m = 0
    <3>1. Filters(seq, js, 0, [i \in 0 .. 0 |-> <<>>])
      BY DEF Filters
    <3> QED
      BY <2>1, <2>2, <3>1
  <2>3. CASE m > 0
    <3>1. m - 1 \in Nat /\ m - 1 \notin T
      BY <2>1, <2>3
    <3>2. PICK f : Filters(seq, js, m - 1, f)
      BY <3>1
    <3> DEFINE x == IF seq[m] \in js THEN Append(f[m - 1], seq[m]) ELSE f[m - 1]
               g == [i \in 0 .. m |-> IF i = m THEN x ELSE f[i]]
    <3>3. \A i \in 0 .. m - 1 : f[i] = IF i = 0 THEN <<>>
            ELSE IF seq[i] \in js THEN Append(f[i - 1], seq[i]) ELSE f[i - 1]
      BY <3>2, Zenon DEF Filters
    <3>4. \A i \in 0 .. m : g[i] = IF i = 0 THEN <<>>
            ELSE IF seq[i] \in js THEN Append(g[i - 1], seq[i]) ELSE g[i - 1]
      BY <2>3, <3>3
    <3> HIDE DEF x
    <3>5. Filters(seq, js, m, g)
      BY <3>4 DEF Filters
    <3> QED
      BY <2>1, <3>5
  <2> QED
    BY <2>1, <2>2, <2>3
<1> QED
  BY <1>1, <1>2

LEMMA AmongIs ==
  ASSUME NEW S, NEW seq \in Seq(S), NEW js
  PROVE  \E f : Filters(seq, js, Len(seq), f) /\ Among(seq, js) = f[Len(seq)]
<1>1. \E f : Filters(seq, js, Len(seq), f)
  <2>1. Len(seq) \in Nat
    OBVIOUS
  <2> QED
    BY <2>1, FiltersExist
<1> QED
  BY <1>1 DEF Among, Filters

Distinct(seq) == \A i, k \in 1 .. Len(seq) : seq[i] = seq[k] => i = k

\* t is what js keeps of the first n entries of seq.
Keeps(seq, js, n, t) ==
  /\ \A i \in 1 .. n : seq[i] \in js => \E k \in 1 .. Len(t) : t[k] = seq[i]
  /\ \A k \in 1 .. Len(t) : t[k] \in js /\ \E i \in 1 .. n : t[k] = seq[i]
  /\ Distinct(seq) => Distinct(t)

LEMMA KeepsMore ==
  ASSUME NEW S, NEW seq \in Seq(S), NEW js, NEW m \in 1 .. Len(seq),
         NEW t \in Seq(S), Len(t) <= m - 1, Keeps(seq, js, m - 1, t)
  PROVE  /\ seq[m] \in js => /\ Append(t, seq[m]) \in Seq(S)
                             /\ Len(Append(t, seq[m])) <= m
                             /\ Keeps(seq, js, m, Append(t, seq[m]))
         /\ seq[m] \notin js => Keeps(seq, js, m, t)
<1>1. CASE seq[m] \in js
  <2> DEFINE u == Append(t, seq[m])
  <2>1. /\ u \in Seq(S) /\ Len(u) = Len(t) + 1 /\ u[Len(t) + 1] = seq[m]
        /\ \A k \in 1 .. Len(t) : u[k] = t[k]
    BY AppendProperties, ElementOfSeq
  <2> HIDE DEF u
  <2>2. \A i \in 1 .. m : seq[i] \in js => \E k \in 1 .. Len(u) : u[k] = seq[i]
    <3> SUFFICES ASSUME NEW i \in 1 .. m, seq[i] \in js PROVE \E k \in 1 .. Len(u) : u[k] = seq[i]
      OBVIOUS
    <3>1. CASE i = m
      BY <2>1, <3>1
    <3>2. CASE i # m
      <4>1. PICK k \in 1 .. Len(t) : t[k] = seq[i]
        BY <3>2 DEF Keeps
      <4> QED
        BY <2>1, <4>1
    <3> QED
      BY <3>1, <3>2
  <2>3. \A k \in 1 .. Len(u) : u[k] \in js /\ \E i \in 1 .. m : u[k] = seq[i]
    <3> SUFFICES ASSUME NEW k \in 1 .. Len(u) PROVE u[k] \in js /\ \E i \in 1 .. m : u[k] = seq[i]
      OBVIOUS
    <3>1. CASE k = Len(t) + 1
      BY <1>1, <2>1, <3>1
    <3>2. CASE k # Len(t) + 1
      <4>1. k \in 1 .. Len(t) /\ u[k] = t[k]
        BY <2>1, <3>2
      <4>2. PICK i \in 1 .. m - 1 : t[k] = seq[i]
        BY <4>1 DEF Keeps
      <4> QED
        BY <4>1, <4>2 DEF Keeps
    <3> QED
      BY <3>1, <3>2
  <2>4. ASSUME Distinct(seq), NEW i \in 1 .. Len(u), NEW k \in 1 .. Len(u), u[i] = u[k], i < k
        PROVE  FALSE
    <3>1. i \in 1 .. Len(t) /\ u[i] = t[i]
      BY <2>1, <2>4
    <3>2. PICK a \in 1 .. m - 1 : t[i] = seq[a]
      BY <3>1 DEF Keeps
    <3>3. CASE k \in 1 .. Len(t)
      <4>1. Distinct(t)
        BY <2>4 DEF Keeps
      <4>2. t[i] = t[k]
        BY <2>1, <2>4, <3>1, <3>3
      <4>3. i = k
        BY <3>1, <3>3, <4>1, <4>2 DEF Distinct
      <4> QED
        BY <2>4, <4>3
    <3>4. CASE k = Len(t) + 1
      <4>0. a \in 1 .. Len(seq) /\ a # m
        OBVIOUS
      <4>2. u[k] = seq[m]
        BY <2>1, <3>4
      <4>1. seq[a] = seq[m] /\ a \in 1 .. Len(seq) /\ a # m
        BY <2>4, <3>1, <3>2, <4>0, <4>2
      <4> QED
        BY <2>4, <4>1 DEF Distinct
    <3> QED
      BY <2>1, <3>3, <3>4
  <2>5. Distinct(seq) => Distinct(u)
    BY <2>1, <2>4 DEF Distinct
  <2>6. Keeps(seq, js, m, u) /\ Len(u) <= m
    BY <2>1, <2>2, <2>3, <2>5 DEF Keeps
  <2> QED
    BY <1>1, <2>1, <2>6 DEF u
<1>2. CASE seq[m] \notin js
  <2>1. \A i \in 1 .. m : seq[i] \in js => i \in 1 .. m - 1
    BY <1>2
  <2>2. 1 .. m - 1 \subseteq 1 .. m
    OBVIOUS
  <2> QED
    BY <1>2, <2>1, <2>2 DEF Keeps
<1> QED
  BY <1>1, <1>2

\* Filtering keeps the entries in js, once each if they were there once.
LEMMA AmongKeeps ==
  ASSUME NEW S, NEW seq \in Seq(S), NEW js
  PROVE  /\ Among(seq, js) \in Seq(S) /\ Len(Among(seq, js)) <= Len(seq)
         /\ Keeps(seq, js, Len(seq), Among(seq, js))
<1>1. PICK f : Filters(seq, js, Len(seq), f) /\ Among(seq, js) = f[Len(seq)]
  BY AmongIs
<1> DEFINE N == Len(seq)
           Good(n) == f[n] \in Seq(S) /\ Len(f[n]) <= n /\ Keeps(seq, js, n, f[n])
           T == {n \in 0 .. N : ~Good(n)}
<1>2. N \in Nat
  OBVIOUS
<1>3. f[0] = <<>> /\ \A i \in 1 .. N : f[i] = IF seq[i] \in js THEN Append(f[i - 1], seq[i]) ELSE f[i - 1]
  <2>1. \A i \in 0 .. N : f[i] = IF i = 0 THEN <<>>
            ELSE IF seq[i] \in js THEN Append(f[i - 1], seq[i]) ELSE f[i - 1]
    BY <1>1, Zenon DEF Filters
  <2> QED
    BY <1>2, <2>1
<1>4. Good(0)
  <2>1. <<>> \in Seq(S) /\ Len(<<>>) = 0
    OBVIOUS
  <2> QED
    BY <1>3, <2>1 DEF Keeps, Distinct
<1>5. ASSUME NEW m \in 1 .. N, Good(m - 1) PROVE Good(m)
  <2>1. f[m] = IF seq[m] \in js THEN Append(f[m - 1], seq[m]) ELSE f[m - 1]
    BY <1>3
  <2>2. Len(f[m - 1]) \in Nat
    BY <1>5
  <2> QED
    BY <1>5, <2>1, <2>2, KeepsMore
<1> HIDE DEF Good
<1>6. T = {}
  <2> SUFFICES ASSUME T # {} PROVE FALSE
    OBVIOUS
  <2>1. PICK m \in T : \A n \in T : m <= n
    <3> HIDE DEF T
    <3>1. T \subseteq Nat
      BY <1>2 DEF T
    <3> QED
      BY <3>1, Least
  <2>2. m \in 1 .. N
    BY <1>2, <1>4, <2>1
  <2>3. m - 1 \in 0 .. N /\ m - 1 \notin T
    BY <1>2, <2>1, <2>2
  <2> QED
    BY <1>5, <2>1, <2>2, <2>3
<1>7. Good(N)
  BY <1>2, <1>6
<1> QED
  BY <1>1, <1>7 DEF Good

LEMMA NewestIs ==
  ASSUME NEW S, NEW seq \in Seq(S), NEW n \in Nat
  PROVE  /\ Newest(seq, n) \in Seq(S) /\ Len(Newest(seq, n)) <= n
         /\ \A k \in 1 .. Len(Newest(seq, n)) :
              \E i \in 1 .. Len(seq) : Newest(seq, n)[k] = seq[i]
<1> DEFINE m == IF Len(seq) > n THEN Len(seq) - n + 1 ELSE 1
           t == SubSeq(seq, m, Len(seq))
<1>1. Newest(seq, n) = t
  BY DEF Newest
<1>2. m \in 1 .. Len(seq) + 1 /\ Len(seq) - m + 1 <= n
  OBVIOUS
<1> HIDE DEF m
<1>3. /\ t \in Seq(S)
      /\ Len(t) = IF m <= Len(seq) THEN Len(seq) - m + 1 ELSE 0
      /\ \A i \in 1 .. Len(seq) - m + 1 : t[i] = seq[m + i - 1]
  BY <1>2, SubSeqProperties
<1> HIDE DEF t
<1>4. Len(t) <= n
  BY <1>2, <1>3
<1>5. ASSUME NEW k \in 1 .. Len(t) PROVE \E i \in 1 .. Len(seq) : t[k] = seq[i]
  <2>1. k \in 1 .. Len(seq) - m + 1
    BY <1>2, <1>3, <1>5
  <2>2. m + k - 1 \in 1 .. Len(seq) /\ t[k] = seq[m + k - 1]
    BY <1>2, <1>3, <2>1
  <2> QED
    BY <2>2
<1> QED
  BY <1>1, <1>3, <1>4, <1>5

LEMMA ContainsAmong ==
  ASSUME NEW S, NEW seq \in Seq(S), NEW js, NEW x
  PROVE  Contains(Among(seq, js), x) <=> x \in js /\ Contains(seq, x)
<1> DEFINE t == Among(seq, js)
<1>1. Keeps(seq, js, Len(seq), t)
  BY AmongKeeps
<1> HIDE DEF t
<1>2. /\ \A i \in 1 .. Len(seq) : seq[i] \in js => \E k \in 1 .. Len(t) : t[k] = seq[i]
      /\ \A k \in 1 .. Len(t) : t[k] \in js /\ \E i \in 1 .. Len(seq) : t[k] = seq[i]
  BY <1>1 DEF Keeps
<1>3. ASSUME Contains(t, x) PROVE x \in js /\ Contains(seq, x)
  BY <1>2, <1>3 DEF Contains
<1>4. ASSUME x \in js, Contains(seq, x) PROVE Contains(t, x)
  BY <1>2, <1>4 DEF Contains
<1> QED
  BY <1>3, <1>4 DEF t

LEMMA ContainsNewest ==
  ASSUME NEW S, NEW seq \in Seq(S), NEW n \in Nat, NEW x, Contains(Newest(seq, n), x)
  PROVE  Contains(seq, x)
BY NewestIs DEF Contains

LEMMA ContainsAppend ==
  ASSUME NEW S, NEW seq \in Seq(S), NEW y \in S, NEW x
  PROVE  Contains(Append(seq, y), x) <=> x = y \/ Contains(seq, x)
<1> DEFINE t == Append(seq, y)
<1>1. /\ Len(t) = Len(seq) + 1 /\ t[Len(seq) + 1] = y
      /\ \A i \in 1 .. Len(seq) : t[i] = seq[i]
  BY AppendProperties
<1>2. Len(seq) \in Nat
  OBVIOUS
<1> HIDE DEF t
<1>3. Contains(t, x) => x = y \/ Contains(seq, x)
  <2> SUFFICES ASSUME NEW i \in 1 .. Len(t), t[i] = x, x # y PROVE Contains(seq, x)
    BY DEF Contains
  <2>1. i \in 1 .. Len(seq)
    BY <1>1, <1>2
  <2> QED
    BY <1>1, <2>1 DEF Contains
<1>4. x = y => Contains(t, x)
  <2>1. Len(seq) + 1 \in 1 .. Len(t)
    BY <1>1, <1>2
  <2> QED
    BY <1>1, <2>1 DEF Contains
<1>5. Contains(seq, x) => Contains(t, x)
  <2> SUFFICES ASSUME NEW i \in 1 .. Len(seq), seq[i] = x PROVE Contains(t, x)
    BY DEF Contains
  <2>1. i \in 1 .. Len(t)
    BY <1>1, <1>2
  <2> QED
    BY <1>1, <2>1 DEF Contains
<1> QED
  BY <1>3, <1>4, <1>5 DEF t

LEMMA ContainsConcat ==
  ASSUME NEW S, NEW seq \in Seq(S), NEW more \in Seq(S), NEW x, Contains(seq \o more, x)
  PROVE  Contains(seq, x) \/ Contains(more, x)
<1> DEFINE t == seq \o more
<1>1. /\ Len(t) = Len(seq) + Len(more)
      /\ \A i \in 1 .. Len(t) : t[i] = IF i <= Len(seq) THEN seq[i] ELSE more[i - Len(seq)]
  BY ConcatProperties
<1>2. Len(seq) \in Nat /\ Len(more) \in Nat
  OBVIOUS
<1>3. PICK i \in 1 .. Len(t) : t[i] = x
  BY DEF Contains
<1> HIDE DEF t
<1>4. CASE i <= Len(seq)
  <2>1. i \in 1 .. Len(seq) /\ seq[i] = x
    BY <1>1, <1>2, <1>3, <1>4
  <2> QED
    BY <2>1 DEF Contains
<1>5. CASE ~(i <= Len(seq))
  <2>1. i - Len(seq) \in 1 .. Len(more) /\ more[i - Len(seq)] = x
    BY <1>1, <1>2, <1>3, <1>5
  <2> QED
    BY <2>1 DEF Contains
<1> QED
  BY <1>4, <1>5

LEMMA DistinctAppend ==
  ASSUME NEW S, NEW seq \in Seq(S), Distinct(seq), NEW y \in S, ~Contains(seq, y)
  PROVE  Distinct(Append(seq, y))
<1> DEFINE t == Append(seq, y)
<1>1. /\ Len(t) = Len(seq) + 1 /\ t[Len(seq) + 1] = y
      /\ \A i \in 1 .. Len(seq) : t[i] = seq[i]
  BY AppendProperties
<1>2. Len(seq) \in Nat
  OBVIOUS
<1> HIDE DEF t
<1>3. ASSUME NEW i \in 1 .. Len(t), NEW k \in 1 .. Len(t), t[i] = t[k], i < k PROVE FALSE
  <2>1. i \in 1 .. Len(seq)
    BY <1>1, <1>2, <1>3
  <2>2. CASE k \in 1 .. Len(seq)
    BY <1>1, <1>3, <2>1, <2>2 DEF Distinct
  <2>3. CASE k = Len(seq) + 1
    BY <1>1, <1>3, <2>1, <2>3 DEF Contains
  <2> QED
    BY <1>1, <1>2, <2>2, <2>3
<1>4. Distinct(t)
  <2>1. Len(t) \in Nat
    BY <1>1, <1>2
  <2> QED
    BY <1>3, <2>1 DEF Distinct
<1> QED
  BY <1>4 DEF t

Firsts(seq, n) == {seq[i] : i \in 1 .. n}

\* As many values as places, in a list without repetition and its beginnings.
LEMMA DistinctCount ==
  ASSUME NEW S, NEW seq \in Seq(S), Distinct(seq), NEW n \in 0 .. Len(seq)
  PROVE  IsFiniteSet(Firsts(seq, n)) /\ Cardinality(Firsts(seq, n)) = n
<1> DEFINE T == Firsts(seq, n)
           f == [i \in 1 .. n |-> seq[i]]
<1>1. f \in [1 .. n -> T] /\ \A i \in 1 .. n : f[i] = seq[i]
  BY DEF Firsts
<1>2. \A a, b \in 1 .. n : f[a] = f[b] => a = b
  BY <1>1 DEF Distinct
<1>3. \A t \in T : \E i \in 1 .. n : f[i] = t
  BY <1>1 DEF Firsts
<1> HIDE DEF f, T
<1>4. f \in Bijection(1 .. n, T)
  BY <1>1, <1>2, <1>3 DEF Bijection, Injection, IsInjective, Surjection
<1>5. IsFiniteSet(1 .. n) /\ Cardinality(1 .. n) = n
  BY FS_Interval
<1> QED
  BY <1>4, <1>5, FS_Bijection DEF ExistsBijection, T

-----------------------------------------------------------------------------
(* What the operators of the store do to verdicts *)

Same(s, t, k) == t.entry[k].status = s.entry[k].status

\* t is s after something that concerns job j and may have told its end.
Follows(s, t, j, end) ==
  /\ t \in Store
  /\ \A k \in Jobs :
       /\ Authoritative(t, k) =>
            (Authoritative(s, k) /\ Same(s, t, k)) \/ (k = j /\ t.entry[k].status = end)
       /\ t.entry[k].hydrated => s.entry[k].hydrated
       /\ Authoritative(s, k) /\ Has(t, k) => Authoritative(t, k) /\ Same(s, t, k)
       /\ k # j /\ Has(t, k) => Has(s, k)

LEMMA EntryFields ==
  ASSUME NEW s, s \in Store, NEW k \in Jobs
  PROVE  /\ s.entry[k] = [status |-> s.entry[k].status, node |-> s.entry[k].node,
                          hydrated |-> s.entry[k].hydrated, artifact |-> s.entry[k].artifact]
         /\ s.entry[k].status \in Statuses /\ s.entry[k].node \in Nodes
         /\ s.entry[k].hydrated \in BOOLEAN /\ s.entry[k].artifact \in BOOLEAN
BY DEF Store, Entry

\* The runs whose plan is to be applied or dropped.
PlansOver(s) == {j \in s.plans : ~Has(s, j) \/ Authoritative(s, j)}

LEMMA PublishedIs ==
  ASSUME NEW s, s \in Store
  PROVE  /\ Published(s) \in Store
         /\ Published(s).order = s.order /\ Published(s).entry = s.entry
         /\ Published(s).lost = s.lost /\ Published(s).unconfirmed = s.unconfirmed
         /\ Published(s).tombs = s.tombs /\ Published(s).pins = s.pins
         /\ Published(s).plans = s.plans \ PlansOver(s)
         /\ Published(s).advanced = s.advanced \cup {j \in PlansOver(s) : s.entry[j].status = "completed"}
<1> DEFINE more == {j \in PlansOver(s) : s.entry[j].status = "completed"}
<1>1. Published(s) = [s EXCEPT !.plans = s.plans \ PlansOver(s), !.advanced = s.advanced \cup more]
  BY DEF Published, PlansOver
<1>2. more \in SUBSET Jobs
  BY DEF Store, PlansOver
<1> HIDE DEF more
<1>3. Published(s) \in Store
  BY <1>1, <1>2 DEF Store
<1>4. /\ Published(s).order = s.order /\ Published(s).entry = s.entry
      /\ Published(s).lost = s.lost /\ Published(s).unconfirmed = s.unconfirmed
      /\ Published(s).tombs = s.tombs /\ Published(s).pins = s.pins
      /\ Published(s).plans = s.plans \ PlansOver(s)
      /\ Published(s).advanced = s.advanced \cup more
  BY <1>1 DEF Store
<1> QED
  BY <1>3, <1>4 DEF more

\* The store without the runs in out, before the application hears of it.
Cleared(s, out) ==
  [s EXCEPT
    !.order = Without(@, out),
    !.entry = [j \in Jobs |-> IF j \in out THEN NoEntry ELSE @[j]],
    !.lost = @ \ out,
    !.unconfirmed = @ \ out,
    !.tombs = Newest(@ \o Among(s.order, out), TombCap)]

LEMMA ClearedIs ==
  ASSUME NEW s, s \in Store, NEW out
  PROVE  /\ Cleared(s, out) \in Store
         /\ \A k \in Jobs : Cleared(s, out).entry[k] = IF k \in out THEN NoEntry ELSE s.entry[k]
         /\ Cleared(s, out).lost = s.lost \ out
         /\ Cleared(s, out).unconfirmed = s.unconfirmed \ out
         /\ Cleared(s, out).pins = s.pins
         /\ Cleared(s, out).plans = s.plans /\ Cleared(s, out).advanced = s.advanced
<1> DEFINE kept == [j \in Jobs |-> IF j \in out THEN NoEntry ELSE s.entry[j]]
           order == Without(s.order, out)
           gone == Among(s.order, out)
           tombs == Newest(s.tombs \o gone, TombCap)
<1>1. Cleared(s, out) =
        [s EXCEPT !.order = order, !.entry = kept, !.lost = s.lost \ out,
                  !.unconfirmed = s.unconfirmed \ out, !.tombs = tombs]
  BY DEF Cleared
<1>2. kept \in [Jobs -> Entry]
  BY DEF Store, NoEntry, Entry, Statuses, Nodes
<1>3. \A k \in Jobs : kept[k] = IF k \in out THEN NoEntry ELSE s.entry[k]
  OBVIOUS
<1>4. order \in Seq(Jobs) /\ gone \in Seq(Jobs)
  BY AmongKeeps DEF Store, Without
<1>5. tombs \in Seq(Jobs)
  <2> HIDE DEF gone
  <2>1. s.tombs \o gone \in Seq(Jobs)
    BY <1>4 DEF Store
  <2> QED
    BY <2>1, NewestIs, ExecutionsAssumption
<1> HIDE DEF kept, order, tombs
<1>7. Cleared(s, out) \in Store
  BY <1>1, <1>2, <1>4, <1>5 DEF Store
<1>8. /\ Cleared(s, out).entry = kept
      /\ Cleared(s, out).lost = s.lost \ out
      /\ Cleared(s, out).unconfirmed = s.unconfirmed \ out
      /\ Cleared(s, out).pins = s.pins
      /\ Cleared(s, out).plans = s.plans /\ Cleared(s, out).advanced = s.advanced
  BY <1>1 DEF Store
<1> QED
  BY <1>3, <1>7, <1>8

LEMMA ClearedLists ==
  ASSUME NEW s, s \in Store, NEW out
  PROVE  /\ Cleared(s, out).order = Among(s.order, Jobs \ out)
         /\ Cleared(s, out).tombs = Newest(s.tombs \o Among(s.order, out), TombCap)
BY DEF Cleared, Store, Without

LEMMA EvictIs ==
  ASSUME NEW s
  PROVE  Evict(s) = Published(Cleared(s, Evicted(s)))
BY DEF Evict, Cleared

LEMMA PublishedFollows ==
  ASSUME NEW s, s \in Store
  PROVE  /\ Published(s) \in Store
         /\ Published(s).entry = s.entry /\ Published(s).lost = s.lost
BY PublishedIs

LEMMA EvictFollows ==
  ASSUME NEW s, s \in Store
  PROVE  /\ Evict(s) \in Store
         /\ \A k \in Jobs :
              \/ Evict(s).entry[k] = NoEntry
              \/ Evict(s).entry[k] = s.entry[k] /\ (k \in Evict(s).lost <=> k \in s.lost)
<1> SUFFICES ASSUME NEW out, Evict(s) = Published(Cleared(s, out))
             PROVE  /\ Evict(s) \in Store
                    /\ \A k \in Jobs :
                         \/ Evict(s).entry[k] = NoEntry
                         \/ Evict(s).entry[k] = s.entry[k] /\ (k \in Evict(s).lost <=> k \in s.lost)
  BY EvictIs
<1> DEFINE t == Cleared(s, out)
<1>1. t \in Store /\ t.lost = s.lost \ out
  BY ClearedIs
<1>2. \A k \in Jobs : t.entry[k] = IF k \in out THEN NoEntry ELSE s.entry[k]
  BY ClearedIs
<1> HIDE DEF t
<1>3. Evict(s) = Published(t)
  BY DEF t
<1> QED
  BY <1>1, <1>2, <1>3, PublishedIs

LEMMA EvictIsQuiet ==
  ASSUME NEW s, s \in Store, NEW j, NEW end
  PROVE  Follows(s, Evict(s), j, end) /\ \A k \in Jobs : Has(Evict(s), k) => Has(s, k)
BY EvictFollows DEF Follows, Authoritative, Has, Same, NoEntry, Terminal

LEMMA FollowsCompose ==
  ASSUME NEW s, NEW t, NEW u, NEW j, NEW end,
         Follows(s, t, j, end), Follows(t, u, j, end),
         Authoritative(s, j) /\ Has(u, j) => Has(t, j)
  PROVE  Follows(s, u, j, end)
BY DEF Follows, Same

LEMMA EnsureFollows ==
  ASSUME NEW s, s \in Store, NEW j \in Jobs, NEW end
  PROVE  /\ Follows(s, Ensure(s, j), j, end) /\ Has(Ensure(s, j), j)
         /\ Ensure(s, j).lost = s.lost
         /\ \A k \in Jobs : k # j => Ensure(s, j).entry[k] = s.entry[k]
<1>1. CASE Has(s, j)
  BY <1>1 DEF Ensure, Follows, Same
<1>2. CASE ~Has(s, j)
  <2> DEFINE order == Append(s.order, j)
             t == [s EXCEPT !.order = order, !.entry = [s.entry EXCEPT ![j] = Fresh]]
  <2>1. Ensure(s, j) = t
    BY <1>2 DEF Ensure
  <2>2. Fresh \in Entry /\ Fresh.status = "queued" /\ ~Fresh.hydrated
    BY DEF Fresh, NoEntry, Entry, Statuses, Nodes
  <2>5. order \in Seq(Jobs)
    BY DEF Store
  <2> HIDE DEF order
  <2>3. t \in Store /\ t.lost = s.lost
    BY <2>2, <2>5 DEF Store
  <2>4. \A k \in Jobs : t.entry[k] = IF k = j THEN Fresh ELSE s.entry[k]
    BY DEF Store
  <2> HIDE DEF t
  <2> QED
    BY <1>2, <2>1, <2>2, <2>3, <2>4 DEF Follows, Authoritative, Has, Same, Terminal
<1> QED
  BY <1>1, <1>2

LEMMA RestartedFollows ==
  ASSUME NEW s, s \in Store, NEW j \in Jobs, NEW end, ~Authoritative(s, j)
  PROVE  /\ Follows(s, Restarted(s, j), j, end) /\ Has(Restarted(s, j), j)
         /\ ~Authoritative(Restarted(s, j), j)
<1> DEFINE x == [s.entry[j] EXCEPT !.status = "running"]
           t == [s EXCEPT !.entry = [s.entry EXCEPT ![j] = x], !.lost = s.lost \ {j}]
<1>1. Restarted(s, j) = t
  BY DEF Restarted
<1>2. x \in Entry /\ x.status = "running" /\ x.hydrated = s.entry[j].hydrated
  BY DEF Store, Entry, Statuses
<1> HIDE DEF x
<1>3. t \in Store /\ t.lost = s.lost \ {j}
  BY <1>2 DEF Store
<1>4. \A k \in Jobs : t.entry[k] = IF k = j THEN x ELSE s.entry[k]
  BY DEF Store
<1> HIDE DEF t
<1> QED
  BY <1>1, <1>2, <1>3, <1>4 DEF Follows, Authoritative, Has, Same, Terminal

LEMMA EndedFollows ==
  ASSUME NEW s, s \in Store, NEW j \in Jobs, NEW end \in Terminal, ~Authoritative(s, j)
  PROVE  Follows(s, Ended(s, j, end), j, end) /\ Has(Ended(s, j, end), j)
<1> DEFINE x == [s.entry[j] EXCEPT !.status = end]
           t == [s EXCEPT !.entry = [s.entry EXCEPT ![j] = x], !.lost = s.lost \ {j}]
<1>1. Ended(s, j, end) = t
  BY DEF Ended
<1>2. x \in Entry /\ x.status = end /\ x.hydrated = s.entry[j].hydrated
  BY DEF Store, Entry, Statuses
<1> HIDE DEF x
<1>3. t \in Store /\ t.lost = s.lost \ {j}
  BY <1>2 DEF Store
<1>4. \A k \in Jobs : t.entry[k] = IF k = j THEN x ELSE s.entry[k]
  BY DEF Store
<1> HIDE DEF t
<1> QED
  BY <1>1, <1>2, <1>3, <1>4 DEF Follows, Authoritative, Has, Same, Terminal

LEMMA ProgressedFollows ==
  ASSUME NEW s, s \in Store, NEW j \in Jobs, NEW node \in Nodes, NEW end, Has(s, j)
  PROVE  Follows(s, Progressed(s, j, node), j, end) /\ Has(Progressed(s, j, node), j)
<1> DEFINE t == IF j \in s.lost \/ s.entry[j].status = "queued" THEN Restarted(s, j) ELSE s
           x == [t.entry[j] EXCEPT !.node = node]
           u == [t EXCEPT !.entry = [t.entry EXCEPT ![j] = x]]
<1>1. Progressed(s, j, node) = u
  BY DEF Progressed
<1>2. Follows(s, t, j, end) /\ Has(t, j)
  <2>1. CASE j \in s.lost \/ s.entry[j].status = "queued"
    BY <2>1, RestartedFollows DEF Authoritative, Terminal
  <2>2. CASE ~(j \in s.lost \/ s.entry[j].status = "queued")
    BY <2>2 DEF Follows, Same
  <2> QED
    BY <2>1, <2>2
<1> HIDE DEF t
<1>3. t \in Store
  BY <1>2 DEF Follows
<1>4. x \in Entry /\ x.status = t.entry[j].status /\ x.hydrated = t.entry[j].hydrated
  <2>1. t.entry[j] \in Entry
    BY <1>3 DEF Store
  <2> QED
    BY <2>1 DEF Entry
<1> HIDE DEF x
<1>5. u \in Store /\ u.lost = t.lost
  BY <1>3, <1>4 DEF Store
<1>6. \A k \in Jobs : u.entry[k] = IF k = j THEN x ELSE t.entry[k]
  BY <1>3 DEF Store
<1> HIDE DEF u
<1>7. Follows(t, u, j, end) /\ Has(u, j)
  BY <1>2, <1>4, <1>5, <1>6 DEF Follows, Authoritative, Has, Same
<1> QED
  BY <1>1, <1>2, <1>7, FollowsCompose

\* What an event does to the entry it is about.
LEMMA ChangedFollows ==
  ASSUME NEW s, s \in Store, NEW e, e.job \in Jobs, e.node \in Nodes, Has(s, e.job)
  PROVE  Follows(s, Changed(s, e), e.job, e.kind) /\ Has(Changed(s, e), e.job)
<1>1. Follows(s, s, e.job, e.kind)
  BY DEF Follows, Same
<1>2. CASE e.kind = "started"
  <2>1. Changed(s, e) = IF Authoritative(s, e.job) THEN s ELSE Restarted(s, e.job)
    BY <1>2 DEF Changed, Terminal
  <2> QED
    BY <1>1, <2>1, RestartedFollows
<1>3. CASE e.kind = "nodeStates"
  <2>1. Changed(s, e) = Progressed(s, e.job, e.node)
    BY <1>3 DEF Changed, Terminal
  <2> QED
    BY <2>1, ProgressedFollows
<1>4. CASE e.kind = "snapshot"
  <2> DEFINE node == Merge(s.entry[e.job].node, e.node)
  <2>1. Changed(s, e) = Progressed(s, e.job, node)
    BY <1>4 DEF Changed, Terminal
  <2>2. node \in Nodes
    BY EntryFields DEF Merge
  <2> HIDE DEF node
  <2> QED
    BY <2>1, <2>2, ProgressedFollows
<1>5. CASE e.kind \in Terminal
  <2>1. Changed(s, e) = IF Authoritative(s, e.job) THEN s ELSE Ended(s, e.job, e.kind)
    BY <1>5 DEF Changed, Terminal
  <2> QED
    BY <1>1, <1>5, <2>1, EndedFollows
<1>6. CASE e.kind \notin Terminal \cup {"started", "nodeStates", "snapshot"}
  <2>1. Changed(s, e) = s
    BY <1>6 DEF Changed
  <2> QED
    BY <1>1, <2>1
<1> QED
  BY <1>2, <1>3, <1>4, <1>5, <1>6

LEMMA VouchedFollows ==
  ASSUME NEW s, s \in Store, NEW j
  PROVE  /\ Vouched(s, j) \in Store
         /\ Vouched(s, j).order = s.order /\ Vouched(s, j).entry = s.entry
         /\ Vouched(s, j).lost = s.lost /\ Vouched(s, j).unconfirmed = s.unconfirmed \ {j}
         /\ Vouched(s, j).tombs = Among(s.tombs, Jobs \ {j}) /\ Vouched(s, j).pins = s.pins
         /\ Vouched(s, j).plans = s.plans /\ Vouched(s, j).advanced = s.advanced
<1> DEFINE tombs == Without(s.tombs, {j})
<1>1. Vouched(s, j) = [s EXCEPT !.tombs = tombs, !.unconfirmed = s.unconfirmed \ {j}]
  BY DEF Vouched
<1>2. tombs \in Seq(Jobs) /\ tombs = Among(s.tombs, Jobs \ {j})
  BY AmongKeeps DEF Store, Without
<1> HIDE DEF tombs
<1> QED
  BY <1>1, <1>2 DEF Store

\* An event can tell the end of the run it is about, and of no other.
LEMMA ApplyFollows ==
  ASSUME NEW s, s \in Store, NEW e, e.job \in Jobs, e.node \in Nodes
  PROVE  /\ Follows(s, Apply(s, e), e.job, e.kind)
         /\ Has(s, e.job) /\ e.kind \notin Terminal => Has(Apply(s, e), e.job)
<1> DEFINE j == e.job
           seen == IF e.kind = "started" THEN Vouched(s, j)
                   ELSE IF Has(s, j) THEN s
                   ELSE [s EXCEPT !.unconfirmed = s.unconfirmed \cup {j}]
           there == Ensure(seen, j)
           told == Changed(there, e)
           t == Published(told)
<1>1. seen \in Store /\ seen.entry = s.entry /\ seen.lost = s.lost
  BY VouchedFollows DEF Store
<1>2. \/ Apply(s, e) = s
      \/ Apply(s, e) = t
      \/ Apply(s, e) = Evict(t) /\ ~(Has(s, j) /\ e.kind \notin Terminal)
  BY DEF Apply
<1> HIDE DEF seen
<1>3. Follows(seen, there, j, e.kind) /\ Has(there, j) /\ there \in Store
  <2>1. Follows(seen, there, j, e.kind) /\ Has(there, j)
    BY <1>1, EnsureFollows
  <2> HIDE DEF there
  <2> QED
    BY <2>1 DEF Follows
<1> HIDE DEF there
<1>4. Follows(there, told, j, e.kind) /\ Has(told, j) /\ told \in Store
  BY <1>3, ChangedFollows DEF Follows
<1> HIDE DEF told
<1>5. Follows(seen, told, j, e.kind)
  BY <1>3, <1>4, FollowsCompose
<1>6. Follows(s, told, j, e.kind)
  BY <1>1, <1>5 DEF Follows, Authoritative, Has, Same
<1>7. Follows(s, t, j, e.kind) /\ Has(t, j) /\ t \in Store
  BY <1>4, <1>6, PublishedFollows DEF Follows, Authoritative, Has, Same
<1> HIDE DEF t
<1>8. Follows(s, Evict(t), j, e.kind)
  BY <1>7, EvictIsQuiet, FollowsCompose
<1>9. Follows(s, s, j, e.kind)
  BY DEF Follows, Same
<1> QED
  BY <1>2, <1>7, <1>8, <1>9

LEMMA RegisterFollows ==
  ASSUME NEW s, s \in Store, NEW j \in Jobs, NEW end
  PROVE  Follows(s, Register(s, j), j, end)
<1> DEFINE seen == Vouched(s, j)
           there == Ensure(seen, j)
           x == [there.entry[j] EXCEPT !.artifact = TRUE]
           t == [there EXCEPT !.entry = [there.entry EXCEPT ![j] = x]]
           u == [t EXCEPT !.lost = t.lost \ {j}]
<1>1. Register(s, j) = IF Has(s, j) THEN Published(t) ELSE Evict(Published(u))
  BY DEF Register
<1>2. seen \in Store /\ seen.entry = s.entry /\ seen.lost = s.lost
  BY VouchedFollows
<1> HIDE DEF seen
<1>3. Follows(seen, there, j, end) /\ Has(there, j) /\ there \in Store
  <2>1. Follows(seen, there, j, end) /\ Has(there, j)
    BY <1>2, EnsureFollows
  <2> HIDE DEF there
  <2> QED
    BY <2>1 DEF Follows
<1>4. ~Has(s, j) => there.entry[j] = Fresh
  BY <1>2 DEF Ensure, Has, Store
<1> HIDE DEF there
<1>5. x \in Entry /\ x.status = there.entry[j].status /\ x.hydrated = there.entry[j].hydrated
  <2>1. there.entry[j] \in Entry
    BY <1>3 DEF Store
  <2> QED
    BY <2>1 DEF Entry
<1> HIDE DEF x
<1>6. t \in Store /\ t.lost = there.lost
      /\ \A k \in Jobs : t.entry[k] = IF k = j THEN x ELSE there.entry[k]
  BY <1>3, <1>5 DEF Store
<1> HIDE DEF t
<1>7. Follows(s, t, j, end) /\ Has(t, j)
  BY <1>2, <1>3, <1>5, <1>6 DEF Follows, Authoritative, Has, Same
<1>8. CASE Has(s, j)
  BY <1>1, <1>6, <1>7, <1>8, PublishedFollows DEF Follows, Authoritative, Has, Same
<1>9. CASE ~Has(s, j)
  <2>1. u \in Store /\ u.entry = t.entry /\ u.lost = t.lost \ {j}
    BY <1>6 DEF Store
  <2>2. t.entry[j].status = "queued"
    BY <1>4, <1>5, <1>6, <1>9 DEF Fresh, NoEntry
  <2> HIDE DEF u
  <2>3. Follows(s, u, j, end)
    BY <1>7, <2>1, <2>2 DEF Follows, Authoritative, Has, Same, Terminal
  <2> DEFINE v == Published(u)
  <2>4. Follows(s, v, j, end) /\ v \in Store
    BY <2>1, <2>3, PublishedFollows DEF Follows, Authoritative, Has, Same
  <2> HIDE DEF v
  <2>5. Follows(v, Evict(v), j, end) /\ (Has(Evict(v), j) => Has(v, j))
    BY <2>4, EvictIsQuiet
  <2>6. Follows(s, Evict(v), j, end)
    BY <2>4, <2>5, FollowsCompose
  <2> QED
    BY <1>1, <1>9, <2>6 DEF v
<1> QED
  BY <1>8, <1>9

LEMMA MarkLostFollows ==
  ASSUME NEW s, s \in Store, NEW j \in Jobs, NEW end
  PROVE  Follows(s, MarkLost(s, j), j, end)
<1> DEFINE x == [s.entry[j] EXCEPT !.status = "interrupted"]
           t == [s EXCEPT !.entry = [s.entry EXCEPT ![j] = x], !.lost = s.lost \cup {j}]
<1>1. MarkLost(s, j) = IF Has(s, j) /\ s.entry[j].status \notin Terminal THEN Published(t) ELSE s
  BY DEF MarkLost
<1>2. x \in Entry /\ x.status = "interrupted" /\ x.hydrated = s.entry[j].hydrated
  BY DEF Store, Entry, Statuses, Terminal
<1> HIDE DEF x
<1>3. t \in Store /\ t.lost = s.lost \cup {j}
      /\ \A k \in Jobs : t.entry[k] = IF k = j THEN x ELSE s.entry[k]
  BY <1>2 DEF Store
<1> HIDE DEF t
<1>4. Follows(s, s, j, end)
  BY DEF Follows, Same
<1>5. Has(s, j) /\ s.entry[j].status \notin Terminal => Follows(s, t, j, end)
  BY <1>2, <1>3 DEF Follows, Authoritative, Has, Same, Terminal
<1> QED
  BY <1>1, <1>3, <1>4, <1>5, PublishedFollows DEF Follows, Authoritative, Has, Same

LEMMA HydrateFollows ==
  ASSUME NEW s, s \in Store, NEW j \in Jobs
  PROVE  /\ HydrateArtifacts(s, j) \in Store /\ HydrateArtifacts(s, j).lost = s.lost
         /\ \A k \in Jobs :
              /\ HydrateArtifacts(s, j).entry[k].status = s.entry[k].status
              /\ k # j => HydrateArtifacts(s, j).entry[k].hydrated = s.entry[k].hydrated
<1> DEFINE x == [s.entry[j] EXCEPT !.hydrated = TRUE]
           t == [s EXCEPT !.entry = [s.entry EXCEPT ![j] = x]]
<1>1. HydrateArtifacts(s, j) = IF Has(s, j) THEN t ELSE s
  BY DEF HydrateArtifacts
<1>2. x \in Entry /\ x.status = s.entry[j].status
  BY DEF Store, Entry
<1> HIDE DEF x
<1>3. t \in Store /\ t.lost = s.lost
      /\ \A k \in Jobs : t.entry[k] = IF k = j THEN x ELSE s.entry[k]
  BY <1>2 DEF Store
<1> HIDE DEF t
<1> QED
  BY <1>1, <1>2, <1>3

-----------------------------------------------------------------------------
(* The invariant *)

OutcomeIn(sv, j) == IF sv[j].state = "finished" THEN "completed" ELSE StatusOf(sv[j].state)

\* What a store shows is how the runs ended on the backend sv.
Trusted(sv, s) ==
  /\ s \in Store
  /\ \A j \in Jobs :
       /\ Authoritative(s, j) => s.entry[j].status = OutcomeIn(sv, j)
       /\ s.entry[j].hydrated => sv[j].state = "completed"

\* A message that tells an end tells the one there was.
Honest(sv, m) ==
  Normalized(m).kind \in Terminal => Normalized(m).kind = OutcomeIn(sv, m.job)
HonestWay(sv, w) == w \in Seq(Message) /\ \A i \in 1 .. Len(w) : Honest(sv, w[i])

\* And so does an answer, however long it has been on its way.
HonestAnswer(sv, r) ==
  /\ r \in [stage : {"idle", "asked", "answered"}, open : Seq(Jobs), answer : Answer, current : BOOLEAN]
  /\ (r.stage = "idle") <=> (r.open = <<>>)
  /\ r.stage = "answered" /\ r.answer.kind = "record"
       /\ r.answer.state \in {"completed", "failed", "cancelled"} =>
         sv[Head(r.open)].state = r.answer.state

Server == [Jobs -> [state : States, node : Nodes]]

VerdictInv ==
  /\ server \in Server
  /\ \A j \in Jobs : post[j] = "none" => server[j].state = "none"
  /\ post \in [Jobs -> {"none", "sent", "answered"}]
  /\ Trusted(server, store)
  /\ HonestWay(server, wire) /\ HonestWay(server, echo)
  /\ HonestAnswer(server, rec)

\* An end stays what it was.
Final(s, t) ==
  \A k \in Jobs : Authoritative(s, k) /\ Has(t, k) => Authoritative(t, k) /\ Same(s, t, k)

\* The backend goes on from sv to tv.
Forward(sv, tv) ==
  \A j \in Jobs :
    /\ OutcomeIn(sv, j) \in Terminal => OutcomeIn(tv, j) = OutcomeIn(sv, j)
    /\ sv[j].state \in {"completed", "failed", "cancelled"} => tv[j].state = sv[j].state

LEMMA FollowsTrusted ==
  ASSUME NEW sv, NEW s, Trusted(sv, s), NEW t, NEW j, NEW end,
         Follows(s, t, j, end), j \in Jobs /\ end \in Terminal => end = OutcomeIn(sv, j)
  PROVE  Trusted(sv, t) /\ Final(s, t)
BY DEF Trusted, Follows, Final, Authoritative, Same

LEMMA ForwardTrusted ==
  ASSUME NEW sv, NEW tv, Forward(sv, tv), NEW s, Trusted(sv, s)
  PROVE  Trusted(tv, s)
BY DEF Trusted, Forward, Authoritative

LEMMA ForwardWay ==
  ASSUME NEW sv, NEW tv, Forward(sv, tv), NEW w, HonestWay(sv, w)
  PROVE  HonestWay(tv, w)
<1> SUFFICES ASSUME NEW i \in 1 .. Len(w) PROVE Honest(tv, w[i])
  BY DEF HonestWay
<1>1. w[i] \in Message /\ Honest(sv, w[i])
  BY DEF HonestWay
<1>2. w[i].job \in Jobs /\ Normalized(w[i]) \in Message /\ Normalized(w[i]).job = w[i].job
  BY <1>1 DEF Message, Normalized, Event, Kinds, Terminal, Nodes
<1> QED
  BY <1>1, <1>2 DEF Honest, Forward

LEMMA ForwardAnswer ==
  ASSUME NEW sv, NEW tv, Forward(sv, tv), NEW r, HonestAnswer(sv, r)
  PROVE  HonestAnswer(tv, r)
BY DEF HonestAnswer, Forward

LEMMA AppendWay ==
  ASSUME NEW sv, NEW w, HonestWay(sv, w), NEW m \in Message, Honest(sv, m)
  PROVE  HonestWay(sv, Append(w, m))
<1>1. Append(w, m) \in Seq(Message) /\ Len(Append(w, m)) = Len(w) + 1 /\ Len(w) \in Nat
  BY DEF HonestWay
<1>2. \A i \in 1 .. Len(w) : Append(w, m)[i] = w[i]
  BY DEF HonestWay
<1>3. Append(w, m)[Len(w) + 1] = m
  BY DEF HonestWay
<1> QED
  BY <1>1, <1>2, <1>3 DEF HonestWay

LEMMA TailWay ==
  ASSUME NEW sv, NEW w, HonestWay(sv, w), w # <<>>
  PROVE  HonestWay(sv, Tail(w)) /\ Head(w) \in Message /\ Honest(sv, Head(w))
<1>1. Tail(w) \in Seq(Message) /\ Len(Tail(w)) = Len(w) - 1 /\ Len(w) \in Nat \ {0}
  BY DEF HonestWay
<1>2. \A i \in 1 .. Len(Tail(w)) : Tail(w)[i] = w[i + 1]
  BY DEF HonestWay
<1>3. Head(w) = w[1] /\ w[1] \in Message
  BY DEF HonestWay
<1> QED
  BY <1>1, <1>2, <1>3 DEF HonestWay

-----------------------------------------------------------------------------
(* The steps of the backend *)

LEMMA EmitHonest ==
  ASSUME NEW sv, HonestWay(sv, wire), HonestWay(sv, echo),
         NEW m \in Message, Honest(sv, m), Emit(m)
  PROVE  HonestWay(sv, wire') /\ HonestWay(sv, echo')
<1>1. Normalized(m) \in Message /\ Honest(sv, Normalized(m))
  BY DEF Message, Normalized, Event, Kinds, Terminal, Nodes, Honest
<1>2. wire' = Append(wire, m) \/ wire' = wire
  BY DEF Emit
<1>3. echo' = echo \/ echo' = Append(echo, Normalized(m))
  BY DEF Emit, Broadcast
<1> QED
  BY <1>1, <1>2, <1>3, AppendWay

GoesTo(j, state) ==
  /\ server' \in Server
  /\ server'[j].state = state
  /\ \A k \in Jobs : k # j => server'[k] = server[k]

\* No submission is answered in the step.
Answers == \A k \in Jobs : (post'[k] = "answered") <=> (post[k] = "answered")

\* A step of a run: where it may go from where it is, and what it tells.
LEMMA RunStep ==
  ASSUME VerdictInv, NEW j \in Jobs, NEW state, NEW m \in Message, GoesTo(j, state),
         \/ server[j].state \in {"queued", "running"}
         \/ server[j].state = "finished" /\ state = "completed",
         Normalized(m).kind \in Terminal => m.job = j /\ Normalized(m).kind = OutcomeIn(server', j),
         Emit(m), UNCHANGED <<post, store, rec>>
  PROVE  VerdictInv' /\ store' = store /\ Forward(server, server') /\ Answers
<1>1. server \in Server
  BY DEF VerdictInv
<1>2. Forward(server, server')
  BY <1>1 DEF GoesTo, Server, Forward, OutcomeIn, StatusOf, Terminal
<1>3. HonestWay(server', wire) /\ HonestWay(server', echo)
      /\ Trusted(server', store) /\ HonestAnswer(server', rec)
  BY <1>2, ForwardWay, ForwardTrusted, ForwardAnswer DEF VerdictInv
<1>4. Honest(server', m)
  BY DEF Honest
<1>5. HonestWay(server', wire') /\ HonestWay(server', echo')
  BY <1>3, <1>4, EmitHonest
<1>6. \A k \in Jobs : post'[k] = "none" => server'[k].state = "none"
  BY <1>1 DEF GoesTo, VerdictInv
<1> QED
  BY <1>2, <1>3, <1>5, <1>6 DEF GoesTo, VerdictInv, Answers

LEMMA BackendStep ==
  ASSUME VerdictInv, NEW j \in Jobs, Backend(j)
  PROVE  VerdictInv' /\ store' = store /\ Forward(server, server') /\ Answers
<1>1. /\ server \in Server
      /\ server[j] = [state |-> server[j].state, node |-> server[j].node]
      /\ server[j].state \in States /\ server[j].node \in Nodes
  BY DEF Server, VerdictInv
<1>2. CASE Start(j)
  <2>1. GoesTo(j, "running")
    BY <1>1, <1>2 DEF Start, GoesTo, Server, States, Nodes
  <2>2. Event(j, "started") \in Message /\ Normalized(Event(j, "started")).kind \notin Terminal
    BY DEF Event, Message, Kinds, Nodes, Normalized, Terminal
  <2>3. "running" \in States /\ server[j].state = "queued" /\ Emit(Event(j, "started"))
        /\ UNCHANGED <<post, store, rec>>
    BY <1>2 DEF Start, Works, States
  <2> QED
    BY <1>1, RunStep, <2>1, <2>2, <2>3
<1>3. CASE NodeStarts(j) \/ NodeEnds(j)
  <2>1. PICK node \in {"running", "done"} :
          /\ server' = [server EXCEPT ![j].node = node]
          /\ Emit(NodeEvent(j, "nodeStates", node))
    BY <1>3 DEF NodeStarts, NodeEnds
  <2>2. GoesTo(j, server[j].state)
    BY <1>1, <2>1 DEF GoesTo, Server, Nodes
  <2>3. /\ NodeEvent(j, "nodeStates", node) \in Message
        /\ Normalized(NodeEvent(j, "nodeStates", node)).kind \notin Terminal
    BY DEF NodeEvent, Message, Kinds, Nodes, Normalized, Terminal
  <2>4. node \in Nodes /\ server[j].state = "running" /\ UNCHANGED <<post, store, rec>>
    BY <1>3 DEF NodeStarts, NodeEnds, Works, Nodes
  <2> QED
    BY <1>1, RunStep, <2>1, <2>2, <2>3, <2>4
<1>4. CASE Finish(j)
  <2>1. GoesTo(j, "finished")
    BY <1>1, <1>4 DEF Finish, GoesTo, Server, States, Nodes
  <2>2. /\ Event(j, "run_finished") \in Message /\ Event(j, "run_finished").job = j
        /\ Normalized(Event(j, "run_finished")).kind = "completed"
    BY DEF Event, Message, Kinds, Nodes, Normalized
  <2>3. OutcomeIn(server', j) = "completed"
    BY <2>1 DEF OutcomeIn, GoesTo
  <2>4. "finished" \in States /\ "done" \in Nodes /\ server[j].state = "running"
        /\ Emit(Event(j, "run_finished")) /\ UNCHANGED <<post, store, rec>>
    BY <1>4 DEF Finish, Works, States, Nodes
  <2> QED
    BY RunStep, <2>1, <2>2, <2>3, <2>4
<1>5. CASE Persist(j)
  <2>1. GoesTo(j, "completed")
    BY <1>1, <1>5 DEF Persist, GoesTo, Server, States, Nodes
  <2>2. /\ Event(j, "completed") \in Message /\ Event(j, "completed").job = j
        /\ Normalized(Event(j, "completed")).kind = "completed"
    BY DEF Event, Message, Kinds, Terminal, Nodes, Normalized
  <2>3. OutcomeIn(server', j) = "completed"
    BY <2>1 DEF OutcomeIn, StatusOf, GoesTo
  <2>4. "completed" \in States /\ server[j].state = "finished"
        /\ Emit(Event(j, "completed")) /\ UNCHANGED <<post, store, rec>>
    BY <1>5 DEF Persist, Works, States
  <2> QED
    BY <1>1, RunStep, <2>1, <2>2, <2>3, <2>4
<1>6. ASSUME NEW state \in {"failed", "cancelled"}, Break(j, state)
      PROVE  VerdictInv' /\ store' = store /\ Forward(server, server') /\ Answers
  <2>1. GoesTo(j, state)
    BY <1>1, <1>6 DEF Break, GoesTo, Server, States, Nodes
  <2>2. /\ Event(j, StatusOf(state)) \in Message /\ Event(j, StatusOf(state)).job = j
        /\ Normalized(Event(j, StatusOf(state))).kind = StatusOf(state)
    BY DEF Event, StatusOf, Message, Kinds, Terminal, Nodes, Normalized
  <2>3. OutcomeIn(server', j) = StatusOf(state)
    BY <2>1 DEF OutcomeIn, GoesTo
  <2>4. state \in States /\ server[j].state \in {"queued", "running"}
        /\ Emit(Event(j, StatusOf(state))) /\ UNCHANGED <<post, store, rec>>
    BY <1>6 DEF Break, Works, States
  <2> QED
    BY <1>1, RunStep, <2>1, <2>2, <2>3, <2>4
<1>7. CASE Chatter(j)
  <2>1. Event(j, "output") \in Message /\ Honest(server, Event(j, "output"))
    BY DEF Event, Message, Kinds, Nodes, Honest, Normalized, Terminal
  <2>2. HonestWay(server, wire')
    BY <1>7, <2>1, AppendWay DEF Chatter, VerdictInv
  <2> QED
    BY <1>7, <2>2 DEF Chatter, Works, VerdictInv, Forward, Answers
<1>8. CASE Forget(j)
  BY <1>8 DEF Forget, wireVars, VerdictInv, Forward, Answers
<1>9. CASE Recover(j)
  BY <1>9 DEF Recover, wireVars, VerdictInv, Forward, Answers
<1>10. CASE Submit(j)
  <2>1. server[j].state = "none"
    BY <1>10 DEF Submit, VerdictInv
  <2>2. GoesTo(j, "queued")
    BY <1>1, <1>10 DEF Submit, GoesTo, Server, States, Nodes
  <2>3. Forward(server, server')
    BY <1>1, <2>1, <2>2 DEF GoesTo, Forward, OutcomeIn, StatusOf, Terminal
  <2>4. /\ HonestWay(server', wire) /\ HonestWay(server', echo)
        /\ Trusted(server', store) /\ HonestAnswer(server', rec)
    BY <2>3, ForwardWay, ForwardTrusted, ForwardAnswer DEF VerdictInv
  <2>5. /\ post' \in [Jobs -> {"none", "sent", "answered"}]
        /\ \A k \in Jobs : post'[k] = "none" => server'[k].state = "none"
    BY <1>10, <2>2 DEF GoesTo, Submit, VerdictInv
  <2>6. Answers
    BY <1>10 DEF Submit, Answers, VerdictInv
  <2> QED
    BY <1>10, <2>2, <2>3, <2>4, <2>5, <2>6 DEF GoesTo, Submit, wireVars, VerdictInv
<1> QED
  BY <1>2, <1>3, <1>4, <1>5, <1>6, <1>7, <1>8, <1>9, <1>10 DEF Backend

-----------------------------------------------------------------------------
(* The steps of the window *)

LEMMA SameVerdicts ==
  ASSUME NEW sv, NEW s, Trusted(sv, s), NEW t, t \in Store, t.entry = s.entry, t.lost = s.lost
  PROVE  Trusted(sv, t) /\ Final(s, t)
BY DEF Trusted, Final, Authoritative, Same

LEMMA AppliedTrusted ==
  ASSUME NEW sv, NEW s, Trusted(sv, s), NEW e, e.job \in Jobs, e.node \in Nodes,
         e.kind \in Terminal => e.kind = OutcomeIn(sv, e.job)
  PROVE  Trusted(sv, Apply(s, e)) /\ Final(s, Apply(s, e))
<1>1. Follows(s, Apply(s, e), e.job, e.kind)
  BY ApplyFollows DEF Trusted
<1> QED
  BY <1>1, FollowsTrusted

LEMMA RegisteredTrusted ==
  ASSUME NEW sv, NEW s, Trusted(sv, s), NEW j \in Jobs
  PROVE  Trusted(sv, Register(s, j)) /\ Final(s, Register(s, j))
<1>1. Follows(s, Register(s, j), j, "none")
  BY RegisterFollows DEF Trusted
<1> QED
  BY <1>1, FollowsTrusted DEF Terminal

LEMMA HydratedTrusted ==
  ASSUME NEW sv, NEW s, Trusted(sv, s), NEW j \in Jobs, sv[j].state = "completed"
  PROVE  Trusted(sv, HydrateArtifacts(s, j)) /\ Final(s, HydrateArtifacts(s, j))
<1> DEFINE t == HydrateArtifacts(s, j)
<1>1. /\ t \in Store /\ t.lost = s.lost
      /\ \A k \in Jobs : /\ t.entry[k].status = s.entry[k].status
                         /\ k # j => t.entry[k].hydrated = s.entry[k].hydrated
  BY HydrateFollows DEF Trusted
<1> HIDE DEF t
<1> QED
  BY <1>1 DEF t, Trusted, Final, Authoritative, Same

\* A read that is yet to be answered says nothing.
LEMMA AskedAgain ==
  ASSUME NEW sv, HonestAnswer(sv, rec), NEW s, s \in Store
  PROVE  HonestAnswer(sv, Pass(s)) /\ (rec.stage # "idle" => HonestAnswer(sv, NextRead(s)))
<1>1. NoAnswer \in Answer /\ <<>> \in Seq(Jobs)
  BY DEF NoAnswer, Answer, States, Nodes
<1>2. HonestAnswer(sv, Idle)
  BY <1>1 DEF HonestAnswer, Idle
<1>3. ASSUME NEW open \in Seq(Jobs), open # <<>>
      PROVE  HonestAnswer(sv, [Idle EXCEPT !.stage = "asked", !.open = open])
  BY <1>1, <1>3 DEF HonestAnswer, Idle
<1>4. HonestAnswer(sv, Pass(s))
  <2>1. OpenRuns(s) \in Seq(Jobs)
    BY AmongKeeps DEF OpenRuns, Store
  <2> QED
    BY <1>2, <1>3, <2>1 DEF Pass
<1>5. ASSUME rec.stage # "idle" PROVE HonestAnswer(sv, NextRead(s))
  <2>1. rec.open \in Seq(Jobs) /\ rec.open # <<>>
    BY <1>5 DEF HonestAnswer
  <2>2. Len(rec.open) # 1 => Tail(rec.open) \in Seq(Jobs) /\ Tail(rec.open) # <<>>
    <3>1. Tail(rec.open) \in Seq(Jobs) /\ Len(Tail(rec.open)) = Len(rec.open) - 1
      BY <2>1, HeadTailProperties
    <3>2. Len(rec.open) # 1 => Len(Tail(rec.open)) # 0
      BY <3>1, <2>1
    <3> QED
      BY <3>1, <3>2, EmptySeq
  <2> QED
    BY <1>2, <1>3, <1>4, <2>2 DEF NextRead
<1> QED
  BY <1>4, <1>5

\* The run that is being asked about.
LEMMA AskedRun ==
  ASSUME NEW sv, NEW r, HonestAnswer(sv, r), r.stage # "idle"
  PROVE  Head(r.open) \in Jobs /\ r.open \in Seq(Jobs) /\ r.open # <<>>
BY DEF HonestAnswer

LEMMA InstallStep ==
  ASSUME VerdictInv, NEW j \in Jobs, InstallRun(j)
  PROVE  VerdictInv' /\ Final(store, store')
<1> DEFINE s == [store EXCEPT !.plans = store.plans \cup {j}]
<1>1. store' = Register(s, j)
  BY DEF InstallRun, StoreIs
<1>2. s \in Store /\ s.entry = store.entry /\ s.lost = store.lost
  BY DEF Store, VerdictInv, Trusted
<1> HIDE DEF s
<1>3. Trusted(server, s) /\ Final(store, s)
  BY <1>2, SameVerdicts DEF VerdictInv
<1>4. Trusted(server, store') /\ Final(s, store')
  BY <1>1, <1>3, RegisteredTrusted
<1>5. Final(store, store')
  BY <1>2, <1>4 DEF Final, Authoritative, Same
<1>6. /\ post' \in [Jobs -> {"none", "sent", "answered"}]
      /\ \A k \in Jobs : post'[k] = "none" => server[k].state = "none"
  BY DEF InstallRun, VerdictInv
<1> QED
  BY <1>4, <1>5, <1>6 DEF InstallRun, wireVars, VerdictInv

LEMMA PeerStep ==
  ASSUME VerdictInv, NEW j \in Jobs, PeerInstallsRun(j)
  PROVE  VerdictInv' /\ Final(store, store')
<1>1. Event(j, "register") \in Message /\ Honest(server, Event(j, "register"))
  BY DEF Event, Message, Kinds, Nodes, Honest, Normalized, Terminal
<1>2. HonestWay(server, echo')
  BY <1>1, AppendWay DEF PeerInstallsRun, VerdictInv
<1>3. /\ post' \in [Jobs -> {"none", "sent", "answered"}]
      /\ \A k \in Jobs : post'[k] = "none" => server[k].state = "none"
  BY DEF PeerInstallsRun, VerdictInv
<1> QED
  BY <1>2, <1>3 DEF PeerInstallsRun, VerdictInv, Final, Same

LEMMA DeliverStep ==
  ASSUME VerdictInv, Deliver
  PROVE  VerdictInv' /\ Final(store, store')
<1> DEFINE e == Normalized(Head(wire))
<1>1. HonestWay(server, wire') /\ Head(wire) \in Message /\ Honest(server, Head(wire))
  BY TailWay DEF Deliver, VerdictInv
<1>2. e.job \in Jobs /\ e.node \in Nodes /\ (e.kind \in Terminal => e.kind = OutcomeIn(server, e.job))
  BY <1>1 DEF Message, Normalized, Event, Nodes, Honest
<1>3. store' = store \/ store' = Apply(store, e)
  BY DEF Deliver, StoreIs
<1> HIDE DEF e
<1>4. Trusted(server, store') /\ Final(store, store')
  BY <1>2, <1>3, AppliedTrusted DEF VerdictInv, Final, Same
<1> QED
  BY <1>1, <1>4 DEF Deliver, serverVars, VerdictInv

LEMMA DeliverEchoStep ==
  ASSUME VerdictInv, DeliverEcho
  PROVE  VerdictInv' /\ Final(store, store')
<1> DEFINE e == Head(echo)
<1>1. HonestWay(server, echo') /\ e \in Message /\ Honest(server, e)
  BY TailWay DEF DeliverEcho, VerdictInv
<1>2. e.job \in Jobs /\ e.node \in Nodes /\ (e.kind \in Terminal => e.kind = OutcomeIn(server, e.job))
  BY <1>1 DEF Message, Normalized, Honest, Terminal
<1>3. store' = Register(store, e.job) \/ store' = Apply(store, e)
  BY DEF DeliverEcho, StoreIs
<1> HIDE DEF e
<1>4. Trusted(server, store') /\ Final(store, store')
  BY <1>2, <1>3, AppliedTrusted, RegisteredTrusted DEF VerdictInv
<1> QED
  BY <1>1, <1>4 DEF DeliverEcho, serverVars, VerdictInv

LEMMA HydrateStep ==
  ASSUME VerdictInv, NEW j \in Jobs, HydrateCompleted(j)
  PROVE  VerdictInv' /\ Final(store, store')
<1>1. store' = store \/ (server[j].state = "completed" /\ store' = HydrateArtifacts(store, j))
  BY DEF HydrateCompleted, StoreIs
<1>2. Trusted(server, store') /\ Final(store, store')
  BY <1>1, HydratedTrusted DEF VerdictInv, Final, Same
<1> QED
  BY <1>2 DEF HydrateCompleted, serverVars, wireVars, VerdictInv

LEMMA ViewStep ==
  ASSUME VerdictInv, NEW j \in Jobs, OpenView(j) \/ CloseView(j)
  PROVE  VerdictInv' /\ Final(store, store')
<1>1. PICK pins \in SUBSET Jobs :
        LET s == [store EXCEPT !.pins = pins] IN store' = s \/ store' = Evict(s)
  <2>1. store.pins \cup {j} \in SUBSET Jobs /\ store.pins \ {j} \in SUBSET Jobs
    BY DEF Store, VerdictInv, Trusted
  <2> QED
    BY <2>1 DEF OpenView, CloseView, StoreIs
<1> DEFINE s == [store EXCEPT !.pins = pins]
<1>2. store' = s \/ store' = Evict(s)
  BY <1>1
<1>3. s \in Store /\ s.entry = store.entry /\ s.lost = store.lost
  BY DEF Store, VerdictInv, Trusted
<1> HIDE DEF s
<1>4. Trusted(server, s) /\ Final(store, s)
  BY <1>3, SameVerdicts DEF VerdictInv
<1>5. Follows(s, Evict(s), j, "none")
  BY <1>3, EvictIsQuiet
<1>6. Trusted(server, Evict(s)) /\ Final(s, Evict(s))
  BY <1>4, <1>5, FollowsTrusted DEF Terminal
<1>7. Trusted(server, store') /\ Final(store, store')
  BY <1>2, <1>3, <1>4, <1>6 DEF Final, Authoritative, Same
<1> QED
  BY <1>7 DEF OpenView, CloseView, serverVars, wireVars, VerdictInv

LEMMA SocketStep ==
  ASSUME VerdictInv, Drop \/ Connect
  PROVE  VerdictInv' /\ Final(store, store')
<1>1. HonestWay(server, wire')
  <2>1. <<>> \in Seq(Message) /\ Len(<<>>) = 0
    OBVIOUS
  <2>2. HonestWay(server, <<>>)
    BY <2>1 DEF HonestWay
  <2>3. wire' = wire \/ wire' = <<>>
    BY DEF Drop, Connect
  <2> QED
    BY <2>2, <2>3 DEF VerdictInv
<1>2. HonestAnswer(server, [rec EXCEPT !.current = FALSE])
  BY DEF HonestAnswer, VerdictInv
<1>4. HonestAnswer(server, Pass(store))
  BY AskedAgain DEF VerdictInv, Trusted
<1>3. HonestAnswer(server, rec')
  BY <1>2, <1>4 DEF Drop, Connect, VerdictInv
<1> QED
  BY <1>1, <1>3 DEF Drop, Connect, serverVars, VerdictInv, Final, Same

LEMMA ReadStep ==
  ASSUME VerdictInv, AnswerRead
  PROVE  VerdictInv' /\ Final(store, store')
<1> DEFINE j == Head(rec.open)
<1>1. j \in Jobs /\ rec.stage = "asked"
  BY AskedRun DEF AnswerRead, VerdictInv
<1>2. CASE rec' = [rec EXCEPT !.stage = "answered", !.answer.kind = "failed"]
  <2>1. rec.answer \in Answer
    BY DEF HonestAnswer, VerdictInv
  <2>2. [rec.answer EXCEPT !.kind = "failed"] \in Answer /\ [rec.answer EXCEPT !.kind = "failed"].kind = "failed"
    BY <2>1 DEF Answer
  <2>3. rec' = [rec EXCEPT !.stage = "answered", !.answer = [rec.answer EXCEPT !.kind = "failed"]]
    BY <1>2 DEF HonestAnswer, VerdictInv
  <2>4. HonestAnswer(server, rec')
    BY <1>1, <2>2, <2>3 DEF HonestAnswer, VerdictInv
  <2> QED
    BY <2>4 DEF AnswerRead, serverVars, wireVars, VerdictInv, Final, Same
<1>3. ASSUME NEW a, rec' = [rec EXCEPT !.stage = "answered", !.answer = a],
             a = [NoAnswer EXCEPT !.kind = "missing"] \/ a = RecordOf(j)
      PROVE  HonestAnswer(server, rec')
  <2>1. a \in Answer
    BY <1>1, <1>3 DEF NoAnswer, RecordOf, Answer, Server, States, Nodes, VerdictInv
  <2>2. a.kind = "record" /\ a.state \in {"completed", "failed", "cancelled"} => server[j].state = a.state
    BY <1>3 DEF NoAnswer, RecordOf
  <2> QED
    BY <1>1, <1>3, <2>1, <2>2 DEF HonestAnswer, VerdictInv
<1>4. HonestAnswer(server, rec') \/ rec' = [rec EXCEPT !.stage = "answered", !.answer.kind = "failed"]
  BY <1>3 DEF AnswerRead
<1> QED
  BY <1>2, <1>4 DEF AnswerRead, serverVars, wireVars, VerdictInv, Final, Same

LEMMA MissingStep ==
  ASSUME VerdictInv, SkipFailedRead \/ ReadMissing
  PROVE  VerdictInv' /\ Final(store, store')
<1> DEFINE j == Head(rec.open)
<1>1. store' = store \/ store' = MarkLost(store, j)
  BY DEF SkipFailedRead, ReadMissing
<1>2. j \in Jobs /\ rec.stage # "idle"
  BY AskedRun DEF SkipFailedRead, ReadMissing, Answered, VerdictInv
<1> HIDE DEF j
<1>3. Trusted(server, MarkLost(store, j)) /\ Final(store, MarkLost(store, j))
  <2>1. Follows(store, MarkLost(store, j), j, "none")
    BY <1>2, MarkLostFollows DEF VerdictInv, Trusted
  <2> QED
    BY <2>1, FollowsTrusted DEF VerdictInv, Terminal
<1>4. Trusted(server, store') /\ Final(store, store')
  BY <1>1, <1>3 DEF VerdictInv, Final, Same
<1>5. HonestAnswer(server, rec')
  BY <1>2, <1>4, AskedAgain DEF SkipFailedRead, ReadMissing, GoOn, VerdictInv, Trusted
<1> QED
  BY <1>4, <1>5 DEF SkipFailedRead, ReadMissing, Answered, serverVars, wireVars, VerdictInv

\* A record that was read is replayed: its node, its end, its artifacts.
LEMMA ReplayStep ==
  ASSUME VerdictInv, ReplayJob
  PROVE  VerdictInv' /\ Final(store, store')
<1> DEFINE j == Head(rec.open)
           a == rec.answer
           node == NodeEvent(j, "snapshot", a.node)
           end == Event(j, StatusOf(a.state))
           s == IF a.node = "none" THEN store ELSE Apply(store, node)
           t == IF end.kind = "none" \/ Silenced(end) THEN s ELSE Apply(s, end)
<1>1. store' = t \/ (a.state = "completed" /\ store' = HydrateArtifacts(t, j))
  BY DEF ReplayJob, StoreIs
<1>2. /\ node.job = j /\ node.kind = "snapshot" /\ node.node = a.node
      /\ end.job = j /\ end.kind = StatusOf(a.state) /\ end.node = "none"
  BY DEF NodeEvent, Event
<1>3. rec.stage = "answered" /\ rec.answer.kind = "record" /\ a \in Answer /\ j \in Jobs
  BY AskedRun DEF ReplayJob, Answered, HonestAnswer, VerdictInv
<1>4. s = store \/ s = Apply(store, node)
  OBVIOUS
<1>5. t = s \/ t = Apply(s, end)
  OBVIOUS
<1> HIDE DEF node, end, s, t
<1>6. /\ a.node \in Nodes
      /\ end.kind \in Terminal => end.kind = OutcomeIn(server, j)
      /\ a.state = "completed" => server[j].state = "completed"
  BY <1>2, <1>3 DEF HonestAnswer, VerdictInv, StatusOf, OutcomeIn, Terminal, Answer
<1>7. Trusted(server, s) /\ Final(store, s)
  BY <1>2, <1>3, <1>4, <1>6, AppliedTrusted DEF VerdictInv, Final, Same, Terminal
<1>8. Has(store, j) => Has(s, j)
  BY <1>2, <1>3, <1>4, <1>6, ApplyFollows DEF VerdictInv, Trusted, Terminal
<1>9. Trusted(server, t) /\ Final(s, t)
  BY <1>2, <1>3, <1>5, <1>6, <1>7, AppliedTrusted DEF Final, Same, Nodes
<1>10. \A k \in Jobs : k # j /\ Has(t, k) => Has(s, k)
  BY <1>2, <1>3, <1>5, <1>7, ApplyFollows DEF Trusted, Follows, Nodes
<1>11. Final(store, t)
  BY <1>7, <1>8, <1>9, <1>10 DEF Final, Same, Authoritative, Has, Terminal
<1>12. a.state = "completed" =>
          Trusted(server, HydrateArtifacts(t, j)) /\ Final(t, HydrateArtifacts(t, j))
  BY <1>3, <1>6, <1>9, HydratedTrusted
<1>13. \A k \in Jobs : Has(HydrateArtifacts(t, j), k) => Has(t, k)
  BY <1>3, <1>9, HydrateFollows DEF Trusted, Has
<1>14. Trusted(server, store') /\ Final(store, store')
  BY <1>1, <1>9, <1>11, <1>12, <1>13 DEF Final, Same
<1>15. HonestAnswer(server, rec')
  BY <1>3, <1>14, AskedAgain DEF ReplayJob, GoOn, VerdictInv, Trusted
<1> QED
  BY <1>14, <1>15 DEF ReplayJob, Answered, serverVars, wireVars, VerdictInv

-----------------------------------------------------------------------------
(* The theorems *)

LEMMA InitVerdict ==
  ASSUME Init PROVE VerdictInv
<1>1. NoEntry \in Entry /\ NoEntry.status = "absent" /\ ~NoEntry.hydrated
  BY DEF NoEntry, Entry, Statuses, Nodes
<1>2. Trusted(server, store)
  BY <1>1 DEF Init, Trusted, Store, Authoritative, Terminal
<1>3. \A w : w = <<>> => HonestWay(server, w)
  BY DEF HonestWay
<1>4. HonestAnswer(server, rec)
  <2>1. <<>> \in Seq(Jobs) /\ NoAnswer \in Answer
    BY DEF NoAnswer, Answer, States, Nodes
  <2> QED
    BY <2>1 DEF Init, Idle, NoAnswer, HonestAnswer
<1>5. server \in Server /\ post \in [Jobs -> {"none", "sent", "answered"}]
      /\ \A j \in Jobs : server[j].state = "none"
  BY DEF Init, Server, States, Nodes
<1> QED
  BY <1>2, <1>3, <1>4, <1>5 DEF Init, VerdictInv

LEMMA NextVerdict ==
  ASSUME VerdictInv, [Next]_vars
  PROVE  VerdictInv' /\ Final(store, store')
<1>1. CASE UNCHANGED vars
  BY <1>1 DEF vars, serverVars, wireVars, VerdictInv, Final, Same
<1>2. ASSUME NEW j \in Jobs, Backend(j)
      PROVE  VerdictInv' /\ Final(store, store')
  BY <1>2, BackendStep DEF Final, Same
<1>3. ASSUME NEW j \in Jobs,
             \/ InstallRun(j) \/ PeerInstallsRun(j) \/ HydrateCompleted(j)
             \/ OpenView(j) \/ CloseView(j)
      PROVE  VerdictInv' /\ Final(store, store')
  BY <1>3, InstallStep, PeerStep, HydrateStep, ViewStep
<1>4. CASE Deliver \/ DeliverEcho \/ Drop \/ Connect
  BY <1>4, DeliverStep, DeliverEchoStep, SocketStep
<1>5. CASE Reconcile
  BY <1>5, ReadStep, MissingStep, ReplayStep DEF Reconcile
<1> QED
  BY <1>1, <1>2, <1>3, <1>4, <1>5 DEF Next

\* Whatever is lost, late, replayed or guessed, a run is shown to have ended
\* only as it did, and with artifacts only once they were persisted.
THEOREM VerdictsAreTrue == Spec => []VerdictIsTrue
<1>1. VerdictInv => VerdictIsTrue
  BY DEF VerdictInv, Trusted, VerdictIsTrue, OutcomeIn, Outcome
<1>2. Init => VerdictInv
  BY InitVerdict
<1>3. VerdictInv /\ [Next]_vars => VerdictInv'
  BY NextVerdict
<1> QED
  BY <1>1, <1>2, <1>3, PTL DEF Spec

\* No event, read, registration or eviction takes an observed end back from a
\* run the store still has.
THEOREM VerdictsStay == Spec => TerminalIsFinal
<1>1. VerdictInv /\ [Next]_vars =>
        [\A j \in Jobs :
           Authoritative(store, j) /\ Has(store', j) =>
             Authoritative(store', j) /\ store'.entry[j].status = store.entry[j].status]_vars
  BY NextVerdict DEF Final, Same
<1>2. Init => VerdictInv
  BY InitVerdict
<1>3. VerdictInv /\ [Next]_vars => VerdictInv'
  BY NextVerdict
<1> QED
  BY <1>1, <1>2, <1>3, PTL DEF Spec, TerminalIsFinal

-----------------------------------------------------------------------------
(* How the map of executions, the sets beside it and the plans keep together *)

Sound(s) ==
  /\ s \in Store /\ Distinct(s.order) /\ Len(s.tombs) <= TombCap
  /\ \A j \in Jobs :
       /\ Has(s, j) <=> Contains(s.order, j)
       /\ Has(s, j) => ~Contains(s.tombs, j)
       /\ ~Has(s, j) => s.entry[j] = NoEntry /\ j \notin s.unconfirmed /\ j \notin s.pins
       /\ j \in s.lost => s.entry[j].status = "interrupted"

\* No plan is both to come and applied, and none hangs on a run nobody
\* vouches for: such a run can be evicted before it ends.
Waiting(s) == s.plans \cap s.advanced = {} /\ s.plans \cap s.unconfirmed = {}
Planned(s) == Waiting(s) /\ \A j \in s.plans : Has(s, j) /\ ~Authoritative(s, j)

Roomy(s) == Len(s.order) > Cap => \A j \in Jobs : Has(s, j) => ~Evictable(s, j)

LEMMA PublishedSound ==
  ASSUME NEW s, Sound(s)
  PROVE  /\ Sound(Published(s))
         /\ Waiting(s) => Planned(Published(s))
         /\ Roomy(s) => Roomy(Published(s))
<1> DEFINE t == Published(s)
<1>1. /\ t \in Store /\ t.order = s.order /\ t.entry = s.entry /\ t.lost = s.lost
      /\ t.unconfirmed = s.unconfirmed /\ t.tombs = s.tombs /\ t.pins = s.pins
      /\ t.plans = s.plans \ PlansOver(s)
      /\ t.advanced = s.advanced \cup {j \in PlansOver(s) : s.entry[j].status = "completed"}
  BY PublishedIs DEF Sound
<1> HIDE DEF t
<1>2. Sound(t)
  BY <1>1 DEF Sound, Has
<1>3. Waiting(s) => Planned(t)
  BY <1>1 DEF Waiting, Planned, PlansOver, Has, Authoritative
<1>4. Roomy(s) => Roomy(t)
  BY <1>1 DEF Roomy, Has, Evictable, Authoritative
<1> QED
  BY <1>2, <1>3, <1>4 DEF t

\* What goes is in the store and may go; and while the store is over its cap
\* nothing stays that may go.
LEMMA EvictedIs ==
  ASSUME NEW s, Sound(s)
  PROVE  /\ \A j \in Evicted(s) : j \in Jobs /\ Has(s, j) /\ Evictable(s, j)
         /\ Len(Among(s.order, Jobs \ Evicted(s))) > Cap =>
              \A j \in Jobs : Has(s, j) /\ Evictable(s, j) => j \in Evicted(s)
<1> DEFINE may == {j \in Jobs : Evictable(s, j)}
           old == Among(s.order, may)
           out == Evicted(s)
           n == Len(s.order)
           kept == Among(s.order, Jobs \ out)
<1>1. s.order \in Seq(Jobs) /\ Distinct(s.order) /\ n \in Nat /\ Cap \in Nat
  BY ExecutionsAssumption DEF Sound, Store
<1>2. out = {old[i] : i \in {i \in DOMAIN old : i + Cap <= n}}
  BY DEF Evicted
<1> HIDE DEF may, out
<1>3. /\ old \in Seq(Jobs) /\ Keeps(s.order, may, n, old)
      /\ kept \in Seq(Jobs) /\ Len(kept) <= n /\ Keeps(s.order, Jobs \ out, n, kept)
  BY <1>1, AmongKeeps
<1> HIDE DEF old, kept
<1>4. DOMAIN old = 1 .. Len(old) /\ Len(old) \in Nat /\ Len(kept) \in Nat
  BY <1>3
<1>5. Distinct(old) /\ Distinct(kept)
  BY <1>1, <1>3 DEF Keeps
<1>6. ASSUME NEW j \in out PROVE j \in Jobs /\ Has(s, j) /\ Evictable(s, j)
  <2>1. PICK i \in 1 .. Len(old) : old[i] = j
    BY <1>2, <1>4, <1>6
  <2>2. j \in may /\ \E k \in 1 .. n : j = s.order[k]
    BY <1>3, <2>1 DEF Keeps
  <2>3. Contains(s.order, j)
    BY <2>2 DEF Contains
  <2> QED
    BY <2>2, <2>3 DEF may, Sound
<1>7. ASSUME Len(kept) > Cap, NEW j \in Jobs, Has(s, j), Evictable(s, j), j \notin out PROVE FALSE
  <2>1. Contains(s.order, j) /\ j \in may
    BY <1>7 DEF Sound, may
  <2>2. PICK i \in 1 .. Len(old) : old[i] = j
    BY <1>3, <2>1 DEF Keeps, Contains
  <2>3. n - Cap \in 1 .. Len(old)
    <3>1. i + Cap > n
      BY <1>1, <1>2, <1>4, <1>7, <2>2
    <3>2. n > Cap
      BY <1>1, <1>3, <1>4, <1>7
    <3> QED
      BY <1>1, <1>4, <2>2, <3>1, <3>2
  <2> DEFINE first == Firsts(old, n - Cap)
             all == Firsts(s.order, n)
             rest == Firsts(kept, Len(kept))
  <2>12. n - Cap \in 0 .. Len(old) /\ n \in 0 .. n /\ Len(kept) \in 0 .. Len(kept)
    BY <1>1, <1>4, <2>3
  <2>4. IsFiniteSet(first) /\ Cardinality(first) = n - Cap
    BY <1>3, <1>5, <2>12, DistinctCount
  <2>5. IsFiniteSet(all) /\ Cardinality(all) = n
    BY <1>1, <2>12, DistinctCount
  <2>6. IsFiniteSet(rest) /\ Cardinality(rest) = Len(kept)
    BY <1>3, <1>5, <2>12, DistinctCount
  <2>7. first \subseteq all
    <3> SUFFICES ASSUME NEW k \in 1 .. n - Cap PROVE old[k] \in all
      BY DEF Firsts
    <3>1. k \in 1 .. Len(old)
      BY <1>4, <2>3, <1>1
    <3> QED
      BY <1>3, <3>1 DEF Keeps, Firsts
  <2>8. first \subseteq out
    <3> SUFFICES ASSUME NEW k \in 1 .. n - Cap PROVE old[k] \in out
      BY DEF Firsts
    <3>1. k \in 1 .. Len(old) /\ k + Cap <= n
      BY <1>1, <1>4, <2>3
    <3> QED
      BY <1>2, <1>4, <3>1
  <2>9. rest \subseteq all \ first
    <3> SUFFICES ASSUME NEW k \in 1 .. Len(kept) PROVE kept[k] \in all /\ kept[k] \notin first
      BY DEF Firsts
    <3>1. kept[k] \notin out /\ \E m \in 1 .. n : kept[k] = s.order[m]
      BY <1>3 DEF Keeps
    <3> QED
      BY <2>8, <3>1 DEF Firsts
  <2> HIDE DEF first, all, rest
  <2>10. IsFiniteSet(all \ first) /\ Cardinality(all \ first) = n - (n - Cap)
    <3>1. all \cap first = first
      BY <2>7
    <3>2. /\ IsFiniteSet(all \ first)
          /\ Cardinality(all \ first) = Cardinality(all) - Cardinality(all \cap first)
      BY <2>5, FS_Difference
    <3> QED
      BY <2>4, <2>5, <3>1, <3>2
  <2>11. Len(kept) <= n - (n - Cap)
    BY <2>6, <2>9, <2>10, FS_Subset
  <2> QED
    BY <1>1, <1>4, <1>7, <2>11
<1> QED
  BY <1>6, <1>7 DEF kept, out

LEMMA EvictSound ==
  ASSUME NEW s, Sound(s), Waiting(s)
  PROVE  /\ Sound(Evict(s)) /\ Planned(Evict(s)) /\ Roomy(Evict(s))
         /\ Planned(s) => Evict(s).plans = s.plans /\ Evict(s).advanced = s.advanced
         /\ Evict(s).lost \subseteq s.lost
<1> DEFINE out == Evicted(s)
           t == Cleared(s, out)
<1>1. /\ \A j \in out : j \in Jobs /\ Has(s, j) /\ Evictable(s, j)
      /\ Len(Among(s.order, Jobs \ out)) > Cap =>
           \A j \in Jobs : Has(s, j) /\ Evictable(s, j) => j \in out
  BY EvictedIs
<1>2. Evict(s) = Published(t)
  BY EvictIs
<1>3. s \in Store /\ s.order \in Seq(Jobs) /\ s.tombs \in Seq(Jobs) /\ TombCap \in Nat
  BY ExecutionsAssumption DEF Sound, Store
<1> HIDE DEF out
<1>4. /\ t \in Store /\ t.lost = s.lost \ out /\ t.unconfirmed = s.unconfirmed \ out
      /\ t.pins = s.pins /\ t.plans = s.plans /\ t.advanced = s.advanced
      /\ \A k \in Jobs : t.entry[k] = IF k \in out THEN NoEntry ELSE s.entry[k]
  BY <1>3, ClearedIs
<1>5. /\ t.order = Among(s.order, Jobs \ out)
      /\ t.tombs = Newest(s.tombs \o Among(s.order, out), TombCap)
  BY <1>3, ClearedLists
<1>6. Distinct(t.order)
  BY <1>3, <1>5, AmongKeeps DEF Keeps, Sound
<1>7. \A j \in Jobs : Contains(t.order, j) <=> j \notin out /\ Contains(s.order, j)
  BY <1>3, <1>5, ContainsAmong
<1>8. Among(s.order, out) \in Seq(Jobs)
  BY <1>3, AmongKeeps
<1>9. Len(t.tombs) <= TombCap /\ \A j \in Jobs : Contains(t.tombs, j) => Contains(s.tombs, j) \/ j \in out
  <2> DEFINE gone == Among(s.order, out)
  <2>1. \A j : Contains(gone, j) => j \in out
    BY <1>3, ContainsAmong
  <2> HIDE DEF gone
  <2>2. gone \in Seq(Jobs) /\ t.tombs = Newest(s.tombs \o gone, TombCap)
    BY <1>5, <1>8 DEF gone
  <2>3. s.tombs \o gone \in Seq(Jobs)
    BY <1>3, <2>2
  <2>4. ASSUME NEW j, Contains(t.tombs, j) PROVE Contains(s.tombs, j) \/ j \in out
    <3>1. Contains(s.tombs \o gone, j)
      BY <1>3, <2>2, <2>3, <2>4, ContainsNewest
    <3> QED
      BY <1>3, <2>1, <2>2, <3>1, ContainsConcat
  <2> QED
    BY <1>3, <2>2, <2>3, <2>4, NewestIs
<1> HIDE DEF t
<1>10. Sound(t)
  <2>1. \A j \in Jobs : Has(t, j) <=> j \notin out /\ Has(s, j)
    BY <1>4 DEF Has, NoEntry
  <2>2. ASSUME NEW j \in Jobs
        PROVE  /\ Has(t, j) <=> Contains(t.order, j)
               /\ Has(t, j) => ~Contains(t.tombs, j)
               /\ ~Has(t, j) => t.entry[j] = NoEntry /\ j \notin t.unconfirmed /\ j \notin t.pins
               /\ j \in t.lost => t.entry[j].status = "interrupted"
    <3>1. Has(t, j) <=> Contains(t.order, j)
      BY <1>7, <2>1 DEF Sound
    <3>2. Has(t, j) => ~Contains(t.tombs, j)
      BY <1>9, <2>1 DEF Sound
    <3>3. ~Has(t, j) => t.entry[j] = NoEntry /\ j \notin t.unconfirmed /\ j \notin t.pins
      BY <1>1, <1>4, <2>1 DEF Sound, Evictable
    <3>4. j \in t.lost => t.entry[j].status = "interrupted"
      BY <1>4 DEF Sound
    <3> QED
      BY <3>1, <3>2, <3>3, <3>4
  <2> QED
    BY <1>4, <1>6, <1>9, <2>2 DEF Sound
<1>11. Waiting(t)
  BY <1>4 DEF Waiting
<1>12. Roomy(t)
  BY <1>1, <1>4, <1>5 DEF Roomy, Has, Evictable, Authoritative, NoEntry
<1>13. Planned(s) => PlansOver(t) = {}
  BY <1>1, <1>4 DEF Planned, Waiting, PlansOver, Has, Authoritative, Evictable, Store
<1>14. /\ Published(t).plans = t.plans \ PlansOver(t)
       /\ Published(t).advanced = t.advanced \cup {j \in PlansOver(t) : t.entry[j].status = "completed"}
       /\ Published(t).lost = t.lost
  BY <1>4, PublishedIs
<1>15. Planned(s) => Published(t).plans = s.plans /\ Published(t).advanced = s.advanced
  BY <1>4, <1>13, <1>14
<1> QED
  BY <1>2, <1>4, <1>10, <1>11, <1>12, <1>14, <1>15, PublishedSound

\* How a store goes on when it hears of job j: what is persisted stays so, and
\* a plan is over only with an end that is told.
Onward(s, t, j, end) ==
  /\ \A k \in Jobs : Has(t, k) /\ s.entry[k].hydrated => t.entry[k].hydrated
  /\ t.lost \subseteq s.lost
  /\ t.plans \subseteq s.plans /\ s.advanced \subseteq t.advanced
  /\ \A k \in s.plans \ t.plans : k = j /\ end \in Terminal /\ (end = "completed" => k \in t.advanced)
  /\ \A k \in t.advanced \ s.advanced : k = j /\ end = "completed" /\ k \in s.plans

\* What is persisted stays so, and a live node that has ended stays ended.
ArtifactsStay(s, t) == \A k \in Jobs : Has(t, k) /\ s.entry[k].hydrated => t.entry[k].hydrated
NodesStay(s, t) == \A k \in Jobs : Has(t, k) /\ s.entry[k].node = "done" => t.entry[k].node = "done"

\* A run that is heard of for the first time, or once more.
LEMMA EnsureSound ==
  ASSUME NEW s, Sound(s), NEW j \in Jobs, NEW u, u \in Store,
         u.order = s.order, u.entry = s.entry, u.lost = s.lost, u.pins = s.pins,
         Len(u.tombs) <= TombCap, \A k \in Jobs : Contains(u.tombs, k) => Contains(s.tombs, k),
         ~Contains(u.tombs, j),
         \A k \in Jobs : k \in u.unconfirmed => k \in s.unconfirmed \/ k = j
  PROVE  /\ Sound(Ensure(u, j)) /\ Has(Ensure(u, j), j)
         /\ Ensure(u, j).lost = s.lost /\ Ensure(u, j).unconfirmed = u.unconfirmed
         /\ Ensure(u, j).plans = u.plans /\ Ensure(u, j).advanced = u.advanced
         /\ Ensure(u, j).pins = s.pins
         /\ Has(s, j) => Ensure(u, j).order = s.order
         /\ \A k \in Jobs : Ensure(u, j).entry[k] = IF k = j /\ ~Has(s, j) THEN Fresh ELSE s.entry[k]
<1>1. Has(u, j) <=> Has(s, j)
  BY DEF Has
<1>2. CASE Has(s, j)
  <2>1. Ensure(u, j) = u
    BY <1>1, <1>2 DEF Ensure
  <2>2. Sound(u)
    BY <1>2 DEF Sound, Has
  <2> QED
    BY <1>1, <1>2, <2>1, <2>2
<1>3. CASE ~Has(s, j)
  <2> DEFINE order == Append(u.order, j)
             t == [u EXCEPT !.order = order, !.entry = [u.entry EXCEPT ![j] = Fresh]]
  <2>1. Ensure(u, j) = t
    BY <1>1, <1>3 DEF Ensure
  <2>2. Fresh \in Entry /\ Fresh.status = "queued"
    BY DEF Fresh, NoEntry, Entry, Statuses, Nodes
  <2>3. u.order \in Seq(Jobs) /\ ~Contains(u.order, j) /\ Distinct(u.order)
    BY <1>3 DEF Store, Sound
  <2>4. /\ order \in Seq(Jobs) /\ Distinct(order)
        /\ \A k \in Jobs : Contains(order, k) <=> k = j \/ Contains(s.order, k)
    BY <2>3, ContainsAppend, DistinctAppend
  <2> HIDE DEF order
  <2>5. /\ t \in Store /\ t.order = order /\ t.lost = s.lost /\ t.unconfirmed = u.unconfirmed
        /\ t.plans = u.plans /\ t.advanced = u.advanced /\ t.pins = s.pins /\ t.tombs = u.tombs
    BY <2>2, <2>4 DEF Store
  <2>6. \A k \in Jobs : t.entry[k] = IF k = j THEN Fresh ELSE s.entry[k]
    BY DEF Store
  <2> HIDE DEF t
  <2>7. ASSUME NEW k \in Jobs
        PROVE  /\ Has(t, k) <=> Contains(t.order, k)
               /\ Has(t, k) => ~Contains(t.tombs, k)
               /\ ~Has(t, k) => t.entry[k] = NoEntry /\ k \notin t.unconfirmed /\ k \notin t.pins
               /\ k \in t.lost => t.entry[k].status = "interrupted"
    <3>1. CASE k = j
      <4>1. Has(t, k) /\ k \notin s.lost
        BY <1>3, <2>2, <2>6, <3>1 DEF Has, Sound
      <4> QED
        BY <2>4, <2>5, <3>1, <4>1
    <3>2. CASE k # j
      <4>1. t.entry[k] = s.entry[k] /\ (Has(t, k) <=> Has(s, k))
        BY <2>6, <3>2 DEF Has
      <4> QED
        BY <2>4, <2>5, <3>2, <4>1 DEF Sound
    <3> QED
      BY <3>1, <3>2
  <2>8. Sound(t)
    BY <2>4, <2>5, <2>7 DEF Sound
  <2>9. Has(t, j)
    BY <2>2, <2>6 DEF Has
  <2> QED
    BY <1>3, <2>1, <2>5, <2>6, <2>8, <2>9
<1> QED
  BY <1>2, <1>3

\* t is s but for what it has and knows of job j.
Within(s, t, j) ==
  /\ t.order = s.order /\ t.unconfirmed = s.unconfirmed /\ t.tombs = s.tombs /\ t.pins = s.pins
  /\ t.plans = s.plans /\ t.advanced = s.advanced
  /\ \A k \in Jobs : k # j => t.entry[k] = s.entry[k] /\ (k \in t.lost <=> k \in s.lost)

LEMMA WithinSound ==
  ASSUME NEW s, Sound(s), NEW j \in Jobs, Has(s, j),
         NEW t, t \in Store, Within(s, t, j), Has(t, j),
         j \in t.lost => t.entry[j].status = "interrupted"
  PROVE  Sound(t)
<1>1. \A k \in Jobs : Has(t, k) <=> Has(s, k)
  BY DEF Has, Within
<1> QED
  BY <1>1 DEF Sound, Within

LEMMA EntryOf ==
  ASSUME NEW s, s \in Store, NEW j \in Jobs
  PROVE  s.entry[j] \in Entry
BY DEF Store

LEMMA RestartedSound ==
  ASSUME NEW s, Sound(s), NEW j \in Jobs, Has(s, j)
  PROVE  /\ Sound(Restarted(s, j)) /\ Within(s, Restarted(s, j), j) /\ Has(Restarted(s, j), j)
         /\ Restarted(s, j).entry[j] = [s.entry[j] EXCEPT !.status = "running"]
         /\ Restarted(s, j).lost = s.lost \ {j}
<1> DEFINE x == [s.entry[j] EXCEPT !.status = "running"]
           lost == s.lost \ {j}
           t == [s EXCEPT !.entry = [s.entry EXCEPT ![j] = x], !.lost = lost]
<1>1. Restarted(s, j) = t
  BY DEF Restarted
<1>2. x \in Entry /\ x.status = "running"
  BY EntryOf DEF Sound, Entry, Statuses
<1>3. lost \in SUBSET Jobs
  BY DEF Sound, Store
<1>4. lost = s.lost \ {j}
  OBVIOUS
<1> HIDE DEF x, lost
<1>5. /\ t \in Store /\ t.order = s.order /\ t.unconfirmed = s.unconfirmed /\ t.tombs = s.tombs
      /\ t.pins = s.pins /\ t.plans = s.plans /\ t.advanced = s.advanced /\ t.lost = lost
      /\ \A k \in Jobs : t.entry[k] = IF k = j THEN x ELSE s.entry[k]
  BY <1>2, <1>3 DEF Sound, Store
<1> HIDE DEF t
<1>7. Within(s, t, j) /\ Has(t, j) /\ t.entry[j] = x
  BY <1>2, <1>4, <1>5 DEF Within, Has
<1>6. Sound(t) /\ Within(s, t, j) /\ Has(t, j) /\ t.entry[j] = x /\ t.lost = lost
  BY <1>4, <1>5, <1>7, WithinSound
<1> QED
  BY <1>1, <1>4, <1>6 DEF x

LEMMA EndedSound ==
  ASSUME NEW s, Sound(s), NEW j \in Jobs, Has(s, j), NEW end \in Terminal
  PROVE  /\ Sound(Ended(s, j, end)) /\ Within(s, Ended(s, j, end), j) /\ Has(Ended(s, j, end), j)
         /\ Ended(s, j, end).entry[j] = [s.entry[j] EXCEPT !.status = end]
         /\ Ended(s, j, end).lost = s.lost \ {j}
<1> DEFINE x == [s.entry[j] EXCEPT !.status = end]
           lost == s.lost \ {j}
           t == [s EXCEPT !.entry = [s.entry EXCEPT ![j] = x], !.lost = lost]
<1>1. Ended(s, j, end) = t
  BY DEF Ended
<1>2. x \in Entry /\ x.status # "absent"
  BY EntryOf DEF Sound, Entry, Statuses, Terminal
<1>3. lost \in SUBSET Jobs
  BY DEF Sound, Store
<1>4. lost = s.lost \ {j}
  OBVIOUS
<1> HIDE DEF x, lost
<1>5. /\ t \in Store /\ t.order = s.order /\ t.unconfirmed = s.unconfirmed /\ t.tombs = s.tombs
      /\ t.pins = s.pins /\ t.plans = s.plans /\ t.advanced = s.advanced /\ t.lost = lost
      /\ \A k \in Jobs : t.entry[k] = IF k = j THEN x ELSE s.entry[k]
  BY <1>2, <1>3 DEF Sound, Store
<1> HIDE DEF t
<1>7. Within(s, t, j) /\ Has(t, j) /\ t.entry[j] = x
  BY <1>2, <1>4, <1>5 DEF Within, Has
<1>6. Sound(t) /\ Within(s, t, j) /\ Has(t, j) /\ t.entry[j] = x /\ t.lost = lost
  BY <1>4, <1>5, <1>7, WithinSound
<1> QED
  BY <1>1, <1>4, <1>6 DEF x

LEMMA ProgressedSound ==
  ASSUME NEW s, Sound(s), NEW j \in Jobs, Has(s, j), NEW node \in Nodes
  PROVE  /\ Sound(Progressed(s, j, node)) /\ Within(s, Progressed(s, j, node), j)
         /\ Has(Progressed(s, j, node), j)
         /\ Progressed(s, j, node).entry[j].node = node
         /\ Progressed(s, j, node).entry[j].hydrated = s.entry[j].hydrated
         /\ Progressed(s, j, node).entry[j].artifact = s.entry[j].artifact
         /\ Progressed(s, j, node).lost \subseteq s.lost
<1> DEFINE t == IF j \in s.lost \/ s.entry[j].status = "queued" THEN Restarted(s, j) ELSE s
           x == [t.entry[j] EXCEPT !.node = node]
           u == [t EXCEPT !.entry = [t.entry EXCEPT ![j] = x]]
<1>1. Progressed(s, j, node) = u
  BY DEF Progressed
<1>2. /\ Sound(t) /\ Within(s, t, j) /\ Has(t, j) /\ t.lost \subseteq s.lost
      /\ t.entry[j].hydrated = s.entry[j].hydrated /\ t.entry[j].artifact = s.entry[j].artifact
  <2>1. s.entry[j] \in Entry
    BY EntryOf DEF Sound
  <2>2. /\ [s.entry[j] EXCEPT !.status = "running"].hydrated = s.entry[j].hydrated
        /\ [s.entry[j] EXCEPT !.status = "running"].artifact = s.entry[j].artifact
    BY <2>1 DEF Entry
  <2>3. CASE t = s
    BY <2>3 DEF Within
  <2>4. CASE t = Restarted(s, j)
    <3> DEFINE v == Restarted(s, j)
    <3>1. /\ Sound(v) /\ Within(s, v, j) /\ Has(v, j)
          /\ v.entry[j] = [s.entry[j] EXCEPT !.status = "running"] /\ v.lost = s.lost \ {j}
      BY RestartedSound
    <3> HIDE DEF v, t
    <3> QED
      BY <2>2, <2>4, <3>1 DEF v
  <2> QED
    BY <2>3, <2>4
<1> HIDE DEF t
<1>3. x \in Entry /\ x.node = node /\ x.status = t.entry[j].status
      /\ x.hydrated = t.entry[j].hydrated /\ x.artifact = t.entry[j].artifact
  <2>1. t.entry[j] \in Entry
    BY <1>2, EntryOf DEF Sound
  <2> QED
    BY <2>1 DEF Entry
<1> HIDE DEF x
<1>4. /\ u \in Store /\ u.order = t.order /\ u.unconfirmed = t.unconfirmed /\ u.tombs = t.tombs
      /\ u.pins = t.pins /\ u.plans = t.plans /\ u.advanced = t.advanced /\ u.lost = t.lost
      /\ \A k \in Jobs : u.entry[k] = IF k = j THEN x ELSE t.entry[k]
  BY <1>2, <1>3 DEF Sound, Store
<1> HIDE DEF u
<1>5. x.status # "absent" /\ (j \in t.lost => x.status = "interrupted")
  BY <1>2, <1>3 DEF Sound, Has
<1>8. Within(t, u, j) /\ Has(u, j) /\ u.entry[j] = x
  BY <1>4, <1>5 DEF Within, Has
<1>6. Sound(u) /\ Within(t, u, j) /\ Has(u, j) /\ u.entry[j] = x /\ u.lost = t.lost
  BY <1>2, <1>4, <1>5, <1>8, WithinSound
<1>7. Within(s, u, j)
  BY <1>2, <1>6 DEF Within
<1> QED
  BY <1>1, <1>2, <1>3, <1>6, <1>7

LEMMA ChangedSound ==
  ASSUME NEW s, Sound(s), NEW e, e.job \in Jobs, e.node \in Nodes, Has(s, e.job)
  PROVE  /\ Sound(Changed(s, e)) /\ Within(s, Changed(s, e), e.job) /\ Has(Changed(s, e), e.job)
         /\ Changed(s, e).entry[e.job].hydrated = s.entry[e.job].hydrated
         /\ Changed(s, e).entry[e.job].artifact = s.entry[e.job].artifact
         /\ Changed(s, e).lost \subseteq s.lost
         /\ e.kind # "nodeStates" /\ s.entry[e.job].node = "done" =>
              Changed(s, e).entry[e.job].node = "done"
         /\ e.kind \in Terminal => Authoritative(Changed(s, e), e.job)
<1> DEFINE j == e.job
           Good(t) ==
             /\ Sound(t) /\ Within(s, t, j) /\ Has(t, j)
             /\ t.entry[j].hydrated = s.entry[j].hydrated /\ t.entry[j].artifact = s.entry[j].artifact
             /\ t.lost \subseteq s.lost
             /\ e.kind # "nodeStates" /\ s.entry[j].node = "done" => t.entry[j].node = "done"
             /\ e.kind \in Terminal => Authoritative(t, j)
<1>1. e.kind \in Terminal => Authoritative(s, j) \/ Good(Ended(s, j, e.kind))
  <2> SUFFICES ASSUME e.kind \in Terminal PROVE Good(Ended(s, j, e.kind))
    OBVIOUS
  <2> DEFINE t == Ended(s, j, e.kind)
             x == [s.entry[j] EXCEPT !.status = e.kind]
  <2>1. Sound(t) /\ Within(s, t, j) /\ Has(t, j) /\ t.entry[j] = x /\ t.lost = s.lost \ {j}
    BY EndedSound
  <2>2. x.status = e.kind /\ x.hydrated = s.entry[j].hydrated /\ x.artifact = s.entry[j].artifact
        /\ x.node = s.entry[j].node
    BY EntryOf DEF Sound, Entry
  <2> HIDE DEF t, x
  <2> QED
    BY <2>1, <2>2 DEF t, Authoritative
<1>2. e.kind \notin Terminal \cup {"nodeStates"} => Good(Restarted(s, j))
  <2> SUFFICES ASSUME e.kind \notin Terminal \cup {"nodeStates"} PROVE Good(Restarted(s, j))
    OBVIOUS
  <2> DEFINE t == Restarted(s, j)
             x == [s.entry[j] EXCEPT !.status = "running"]
  <2>1. Sound(t) /\ Within(s, t, j) /\ Has(t, j) /\ t.entry[j] = x /\ t.lost = s.lost \ {j}
    BY RestartedSound
  <2>2. x.hydrated = s.entry[j].hydrated /\ x.artifact = s.entry[j].artifact
        /\ x.node = s.entry[j].node
    BY EntryOf DEF Sound, Entry
  <2> HIDE DEF t, x
  <2> QED
    BY <2>1, <2>2 DEF t
<1>3. ASSUME NEW node \in Nodes, e.kind \notin Terminal,
             e.kind # "nodeStates" /\ s.entry[j].node = "done" => node = "done"
      PROVE  Good(Progressed(s, j, node))
  <2> DEFINE t == Progressed(s, j, node)
  <2>1. /\ Sound(t) /\ Within(s, t, j) /\ Has(t, j) /\ t.entry[j].node = node
        /\ t.entry[j].hydrated = s.entry[j].hydrated /\ t.entry[j].artifact = s.entry[j].artifact
        /\ t.lost \subseteq s.lost
    BY ProgressedSound
  <2> HIDE DEF t
  <2> QED
    BY <1>3, <2>1 DEF t
<1>4. ~(e.kind \in Terminal /\ ~Authoritative(s, j)) => Good(s)
  BY DEF Within
<1>5. Merge(s.entry[j].node, e.node) \in Nodes
      /\ (s.entry[j].node = "done" => Merge(s.entry[j].node, e.node) = "done")
  BY EntryOf DEF Sound, Entry, Merge
<1> HIDE DEF Good
<1>6. Good(Changed(s, e))
  <2>1. CASE e.kind = "started"
    <3>1. Changed(s, e) = IF Authoritative(s, j) THEN s ELSE Restarted(s, j)
      BY <2>1 DEF Changed, Terminal
    <3> QED
      BY <1>2, <1>4, <2>1, <3>1 DEF Terminal
  <2>2. CASE e.kind = "nodeStates"
    <3>1. Changed(s, e) = Progressed(s, j, e.node)
      BY <2>2 DEF Changed, Terminal
    <3> QED
      BY <1>3, <2>2, <3>1 DEF Terminal
  <2>3. CASE e.kind = "snapshot"
    <3>1. Changed(s, e) = Progressed(s, j, Merge(s.entry[j].node, e.node))
      BY <2>3 DEF Changed, Terminal
    <3> QED
      BY <1>3, <1>5, <2>3, <3>1 DEF Terminal
  <2>4. CASE e.kind \in Terminal
    <3>1. Changed(s, e) = IF Authoritative(s, j) THEN s ELSE Ended(s, j, e.kind)
      BY <2>4 DEF Changed, Terminal
    <3> QED
      BY <1>1, <1>4, <2>4, <3>1
  <2>5. CASE e.kind \notin Terminal \cup {"started", "nodeStates", "snapshot"}
    <3>1. Changed(s, e) = s
      BY <2>5 DEF Changed
    <3> QED
      BY <1>4, <2>5, <3>1
  <2> QED
    BY <2>1, <2>2, <2>3, <2>4, <2>5
<1> QED
  BY <1>6 DEF Good

\* What can have happened to a store before the application hears of it: job j
\* was heard of and may have ended.
Told(s, t, j, end) ==
  /\ Sound(t) /\ Waiting(t) /\ Has(t, j) /\ t.lost \subseteq s.lost
  /\ t.plans = s.plans /\ t.advanced = s.advanced
  /\ \A k \in Jobs : k # j => t.entry[k] = s.entry[k] /\ (k \in t.lost <=> k \in s.lost)
  /\ s.entry[j].hydrated => t.entry[j].hydrated
  /\ Authoritative(t, j) /\ j \in s.plans => t.entry[j].status = end
  /\ \A k \in s.plans : k # j => Has(s, k) /\ ~Authoritative(s, k)

LEMMA PublishedOnward ==
  ASSUME NEW s, Sound(s), NEW j \in Jobs, NEW end, NEW t, Told(s, t, j, end)
  PROVE  Onward(s, Published(t), j, end) /\ Sound(Published(t)) /\ Planned(Published(t))
<1> DEFINE u == Published(t)
<1>1. /\ u.entry = t.entry /\ u.lost = t.lost
      /\ u.plans = t.plans \ PlansOver(t)
      /\ u.advanced = t.advanced \cup {k \in PlansOver(t) : t.entry[k].status = "completed"}
  BY PublishedIs DEF Told, Sound
<1>2. Sound(u) /\ Planned(u)
  BY PublishedSound DEF Told
<1>3. ASSUME NEW k \in PlansOver(t)
      PROVE  k = j /\ t.entry[k].status = end /\ end \in Terminal
  <2>1. k \in s.plans /\ k \in Jobs /\ (k # j => Has(s, k) /\ ~Authoritative(s, k))
    BY <1>3 DEF PlansOver, Told, Sound, Store
  <2>2. Has(t, k)
    BY <2>1 DEF Told, Has
  <2>3. Authoritative(t, k)
    BY <1>3, <2>2 DEF PlansOver
  <2>4. k = j
    BY <2>1, <2>3 DEF Told, Authoritative
  <2> QED
    BY <2>1, <2>3, <2>4 DEF Told, Authoritative
<1>4. \A k \in Jobs : Has(u, k) /\ s.entry[k].hydrated => u.entry[k].hydrated
  BY <1>1 DEF Told
<1> HIDE DEF u
<1>5. Onward(s, u, j, end)
  <2>1. t.plans = s.plans /\ t.advanced = s.advanced /\ t.lost \subseteq s.lost
    BY DEF Told
  <2>2. \A k \in s.plans \ u.plans : k \in PlansOver(t)
    BY <1>1, <2>1
  <2>3. \A k \in PlansOver(t) : end = "completed" => k \in u.advanced
    BY <1>1, <1>3
  <2>4. \A k \in u.advanced \ s.advanced :
          k \in PlansOver(t) /\ k \in s.plans /\ t.entry[k].status = "completed"
    BY <1>1, <2>1 DEF PlansOver
  <2> QED
    BY <1>1, <1>3, <1>4, <2>1, <2>2, <2>3, <2>4 DEF Onward
<1> QED
  BY <1>2, <1>5 DEF u

LEMMA EvictOnward ==
  ASSUME NEW s, NEW j, NEW end, NEW t, Onward(s, t, j, end), Sound(t), Planned(t)
  PROVE  Onward(s, Evict(t), j, end)
<1> DEFINE u == Evict(t)
<1>1. u.plans = t.plans /\ u.advanced = t.advanced /\ u.lost \subseteq t.lost
  BY EvictSound DEF Planned
<1>2. \A k \in Jobs : u.entry[k] = NoEntry \/ u.entry[k] = t.entry[k]
  BY EvictFollows DEF Sound
<1> HIDE DEF u
<1>3. \A k \in Jobs : Has(u, k) /\ s.entry[k].hydrated => u.entry[k].hydrated
  BY <1>2 DEF Onward, Has, NoEntry
<1> QED
  BY <1>1, <1>3 DEF Onward, u

\* An event leaves the store as it should be.
LEMMA ApplySound ==
  ASSUME NEW s, Sound(s), Planned(s), Roomy(s), NEW e, e.job \in Jobs, e.node \in Nodes
  PROVE  /\ Sound(Apply(s, e)) /\ Planned(Apply(s, e)) /\ Roomy(Apply(s, e))
         /\ Onward(s, Apply(s, e), e.job, e.kind)
         /\ e.kind # "nodeStates" => NodesStay(s, Apply(s, e))
         /\ e.kind \in Terminal /\ Has(Apply(s, e), e.job) => Authoritative(Apply(s, e), e.job)
<1> DEFINE j == e.job
           seen == IF e.kind = "started" THEN Vouched(s, j)
                   ELSE IF Has(s, j) THEN s
                   ELSE [s EXCEPT !.unconfirmed = s.unconfirmed \cup {j}]
           there == Ensure(seen, j)
           told == Changed(there, e)
           t == Published(told)
           ends == e.kind \in Terminal /\ ~Authoritative(s, j)
           silent == e.kind # "started" /\ ~Has(s, j) /\ Contains(s.tombs, j)
<1>1. Apply(s, e) = IF silent THEN s ELSE IF ~Has(s, j) \/ ends THEN Evict(t) ELSE t
  BY DEF Apply
<1>2. s \in Store
  BY DEF Sound
<1>3. CASE silent
  BY <1>1, <1>3 DEF Onward, NodesStay
<1>4. CASE ~silent
  <2>1. /\ seen \in Store /\ seen.order = s.order /\ seen.entry = s.entry /\ seen.lost = s.lost
        /\ seen.pins = s.pins /\ seen.plans = s.plans /\ seen.advanced = s.advanced
    <3>1. CASE e.kind = "started"
      BY <1>2, <3>1, VouchedFollows
    <3>2. CASE e.kind # "started" /\ Has(s, j)
      BY <1>2, <3>2
    <3>3. CASE e.kind # "started" /\ ~Has(s, j)
      <4>1. s.unconfirmed \cup {j} \in SUBSET Jobs
        BY <1>2 DEF Store
      <4>2. seen = [s EXCEPT !.unconfirmed = s.unconfirmed \cup {j}]
        BY <3>3
      <4> HIDE DEF seen
      <4> QED
        BY <1>2, <4>1, <4>2 DEF Store
    <3> QED
      BY <3>1, <3>2, <3>3
  <2>2. /\ \A k \in Jobs : Contains(seen.tombs, k) => Contains(s.tombs, k)
        /\ ~Contains(seen.tombs, j) /\ Len(seen.tombs) <= TombCap
    <3>1. CASE e.kind = "started"
      <4>1. seen.tombs = Among(s.tombs, Jobs \ {j})
        <5>1. seen = Vouched(s, j)
          BY <3>1
        <5> HIDE DEF seen, j
        <5> QED
          BY <1>2, <5>1, VouchedFollows
      <4>2. s.tombs \in Seq(Jobs) /\ Len(s.tombs) <= TombCap /\ TombCap \in Nat
        BY ExecutionsAssumption DEF Sound, Store
      <4>3. \A k \in Jobs : Contains(seen.tombs, k) <=> k # j /\ Contains(s.tombs, k)
        BY <4>1, <4>2, ContainsAmong
      <4>4. seen.tombs \in Seq(Jobs) /\ Len(seen.tombs) <= Len(s.tombs)
        BY <4>1, <4>2, AmongKeeps
      <4> HIDE DEF seen
      <4>5. Len(seen.tombs) <= TombCap
        BY <4>2, <4>4
      <4> QED
        BY <4>3, <4>5
    <3>2. CASE e.kind # "started"
      <4>1. seen.tombs = s.tombs
        BY <1>2, <3>2 DEF Store
      <4>2. ~Contains(s.tombs, j)
        BY <1>4, <3>2 DEF Sound
      <4> QED
        BY <4>1, <4>2 DEF Sound
    <3> QED
      BY <3>1, <3>2
  <2>3. \A k \in Jobs : k \in seen.unconfirmed => k \in s.unconfirmed \/ (k = j /\ ~Has(s, j))
    <3>1. CASE e.kind = "started"
      BY <1>2, <3>1, VouchedFollows
    <3>2. CASE e.kind # "started" /\ Has(s, j)
      BY <3>2
    <3>3. CASE e.kind # "started" /\ ~Has(s, j)
      <4>1. seen.unconfirmed = s.unconfirmed \cup {j}
        BY <1>2, <3>3 DEF Store
      <4> QED
        BY <3>3, <4>1
    <3> QED
      BY <3>1, <3>2, <3>3
  <2> HIDE DEF seen
  <2>4. /\ Sound(there) /\ Has(there, j) /\ there.lost = s.lost
        /\ there.unconfirmed = seen.unconfirmed /\ there.pins = s.pins
        /\ there.plans = s.plans /\ there.advanced = s.advanced
        /\ Has(s, j) => there.order = s.order
    BY <2>1, <2>2, <2>3, EnsureSound
  <2>5. \A k \in Jobs : there.entry[k] = IF k = j /\ ~Has(s, j) THEN Fresh ELSE s.entry[k]
    BY <2>1, <2>2, <2>3, EnsureSound
  <2> HIDE DEF there
  <2>6. /\ Sound(told) /\ Within(there, told, j) /\ Has(told, j)
        /\ told.entry[j].hydrated = there.entry[j].hydrated
        /\ told.lost \subseteq there.lost
        /\ e.kind # "nodeStates" /\ there.entry[j].node = "done" => told.entry[j].node = "done"
        /\ e.kind \in Terminal => Authoritative(told, j)
    BY <2>4, ChangedSound
  <2>7. Authoritative(told, j) => Authoritative(there, j) \/ told.entry[j].status = e.kind
    <3>1. Follows(there, told, j, e.kind)
      BY <2>4, ChangedFollows DEF Sound
    <3> QED
      BY <3>1 DEF Follows
  <2> HIDE DEF told
  <2>8. ~Has(s, j) => s.entry[j] = NoEntry
    BY DEF Sound
  <2>9. Told(s, told, j, e.kind)
    <3>1. Waiting(told)
      BY <2>3, <2>4, <2>6 DEF Waiting, Within, Planned, Sound, Store
    <3>2. \A k \in Jobs : k # j => told.entry[k] = s.entry[k] /\ (k \in told.lost <=> k \in s.lost)
      BY <2>4, <2>5, <2>6 DEF Within
    <3>3. s.entry[j].hydrated => told.entry[j].hydrated
      BY <2>5, <2>6, <2>8 DEF NoEntry
    <3>4. Authoritative(there, j) => Authoritative(s, j)
      BY <2>4, <2>5 DEF Authoritative, Fresh, NoEntry, Terminal
    <3> QED
      BY <2>4, <2>6, <2>7, <3>1, <3>2, <3>3, <3>4 DEF Told, Within, Planned
  <2>10. Onward(s, t, j, e.kind) /\ Sound(t) /\ Planned(t)
    BY <2>9, PublishedOnward
  <2>11. t.entry = told.entry /\ t.lost = told.lost /\ t.order = told.order
         /\ t.unconfirmed = told.unconfirmed /\ t.pins = told.pins
    BY <2>6, PublishedIs DEF Sound
  <2>12. e.kind # "nodeStates" => NodesStay(s, t)
    BY <2>5, <2>6, <2>8, <2>11 DEF NodesStay, Within, NoEntry
  <2>13. e.kind \in Terminal => Authoritative(t, j)
    BY <2>6, <2>11 DEF Authoritative
  <2>14. CASE Has(s, j) /\ ~ends
    <3>1. \A k \in Jobs : k # j => (Has(t, k) <=> Has(s, k)) /\ (Evictable(t, k) => Evictable(s, k))
      BY <2>3, <2>4, <2>5, <2>6, <2>11 DEF Within, Has, Evictable, Authoritative
    <3>2. Authoritative(t, j) => Authoritative(s, j)
      BY <2>4, <2>5, <2>6, <2>7, <2>11, <2>14 DEF Authoritative
    <3>3. Evictable(t, j) => Evictable(s, j)
      BY <2>3, <2>4, <2>6, <2>11, <2>14, <3>2 DEF Within, Evictable
    <3>4. Roomy(t)
      BY <2>4, <2>6, <2>11, <2>14, <3>1, <3>3 DEF Roomy, Within
    <3> QED
      BY <1>1, <1>4, <2>10, <2>12, <2>13, <2>14, <3>4
  <2>15. CASE ~(Has(s, j) /\ ~ends)
    <3> HIDE DEF t
    <3>1. Sound(Evict(t)) /\ Planned(Evict(t)) /\ Roomy(Evict(t))
      BY <2>10, EvictSound DEF Planned
    <3>2. Onward(s, Evict(t), j, e.kind)
      BY <2>10, EvictOnward
    <3>3. \A k \in Jobs :
            \/ Evict(t).entry[k] = NoEntry
            \/ Evict(t).entry[k] = t.entry[k] /\ (k \in Evict(t).lost <=> k \in t.lost)
      BY <2>10, EvictFollows DEF Sound
    <3>4. e.kind # "nodeStates" => NodesStay(s, Evict(t))
      BY <2>12, <3>3 DEF NodesStay, Has, NoEntry
    <3>5. e.kind \in Terminal /\ Has(Evict(t), j) => Authoritative(Evict(t), j)
      BY <2>13, <3>3 DEF Has, Authoritative, NoEntry
    <3>6. Apply(s, e) = Evict(t)
      BY <1>1, <1>4, <2>15 DEF t
    <3> QED
      BY <3>1, <3>2, <3>4, <3>5, <3>6
  <2> QED
    BY <2>14, <2>15
<1> QED
  BY <1>3, <1>4

\* The end a store shows, or none.
EndIn(s, j) == IF Authoritative(s, j) THEN s.entry[j].status ELSE "none"

\* A registration too, with the plan that was put there before it; the end it
\* may find is the one the events have told.
LEMMA RegisterSound ==
  ASSUME NEW s, Sound(s), Roomy(s), NEW j \in Jobs,
         s.plans \cap s.advanced = {}, (s.plans \ {j}) \cap s.unconfirmed = {},
         \A k \in s.plans : k # j => Has(s, k) /\ ~Authoritative(s, k)
  PROVE  /\ Sound(Register(s, j)) /\ Planned(Register(s, j)) /\ Roomy(Register(s, j))
         /\ Onward(s, Register(s, j), j, EndIn(s, j))
         /\ NodesStay(s, Register(s, j))
<1> DEFINE seen == Vouched(s, j)
           there == Ensure(seen, j)
           x == [there.entry[j] EXCEPT !.artifact = TRUE]
           t == [there EXCEPT !.entry = [there.entry EXCEPT ![j] = x]]
           u == [t EXCEPT !.lost = t.lost \ {j}]
<1>1. Register(s, j) = IF Has(s, j) THEN Published(t) ELSE Evict(Published(u))
  BY DEF Register
<1>2. s \in Store /\ s.tombs \in Seq(Jobs) /\ Len(s.tombs) <= TombCap /\ TombCap \in Nat
  BY ExecutionsAssumption DEF Sound, Store
<1>3. /\ seen \in Store /\ seen.order = s.order /\ seen.entry = s.entry /\ seen.lost = s.lost
      /\ seen.pins = s.pins /\ seen.plans = s.plans /\ seen.advanced = s.advanced
      /\ seen.unconfirmed = s.unconfirmed \ {j} /\ seen.tombs = Among(s.tombs, Jobs \ {j})
  BY <1>2, VouchedFollows
<1>4. /\ \A k \in Jobs : Contains(seen.tombs, k) <=> k # j /\ Contains(s.tombs, k)
      /\ Len(seen.tombs) <= TombCap
  <2>1. \A k \in Jobs : Contains(seen.tombs, k) <=> k # j /\ Contains(s.tombs, k)
    BY <1>2, <1>3, ContainsAmong
  <2>2. seen.tombs \in Seq(Jobs) /\ Len(seen.tombs) <= Len(s.tombs)
    BY <1>2, <1>3, AmongKeeps
  <2> HIDE DEF seen
  <2> QED
    BY <1>2, <2>1, <2>2
<1> HIDE DEF seen
<1>3a. /\ seen \in Store /\ seen.order = s.order /\ seen.entry = s.entry /\ seen.lost = s.lost
       /\ seen.pins = s.pins /\ seen.plans = s.plans /\ seen.advanced = s.advanced
  BY <1>3
<1>4a. /\ Len(seen.tombs) <= TombCap /\ ~Contains(seen.tombs, j)
       /\ \A k \in Jobs : Contains(seen.tombs, k) => Contains(s.tombs, k)
       /\ \A k \in Jobs : k \in seen.unconfirmed => k \in s.unconfirmed \/ k = j
  BY <1>3, <1>4
<1>5. /\ Sound(there) /\ Has(there, j) /\ there.lost = s.lost
      /\ there.unconfirmed = seen.unconfirmed /\ there.pins = s.pins
      /\ there.plans = s.plans /\ there.advanced = s.advanced
      /\ Has(s, j) => there.order = s.order
  BY <1>4a, <1>3a, EnsureSound
<1>6. \A k \in Jobs : there.entry[k] = IF k = j /\ ~Has(s, j) THEN Fresh ELSE s.entry[k]
  BY <1>4a, <1>3a, EnsureSound
<1> HIDE DEF there
<1>7. /\ x \in Entry /\ x.status = there.entry[j].status
      /\ x.hydrated = there.entry[j].hydrated /\ x.node = there.entry[j].node
  <2>1. there.entry[j] \in Entry
    BY <1>5, EntryOf DEF Sound
  <2> QED
    BY <2>1 DEF Entry
<1> HIDE DEF x
<1>8. /\ t \in Store /\ t.order = there.order /\ t.unconfirmed = there.unconfirmed
      /\ t.tombs = there.tombs /\ t.pins = there.pins /\ t.plans = there.plans
      /\ t.advanced = there.advanced /\ t.lost = there.lost
      /\ \A k \in Jobs : t.entry[k] = IF k = j THEN x ELSE there.entry[k]
  BY <1>5, <1>7 DEF Sound, Store
<1>9. Within(there, t, j) /\ Has(t, j) /\ t.entry[j] = x
  BY <1>5, <1>7, <1>8 DEF Within, Has
<1>10. Sound(t)
  <2>1. j \in t.lost => t.entry[j].status = "interrupted"
    BY <1>5, <1>7, <1>8, <1>9 DEF Sound
  <2> QED
    BY <1>5, <1>8, <1>9, <2>1, WithinSound
<1>11. ~Has(s, j) => s.entry[j] = NoEntry /\ j \notin s.lost
  BY DEF Sound, Has, NoEntry
<1> HIDE DEF t
<1>12. u = t \/ Has(s, j)
  <2> DEFINE lost == t.lost \ {j}
  <2>1. u = [t EXCEPT !.lost = lost]
    OBVIOUS
  <2>2. lost = t.lost \/ Has(s, j)
    BY <1>5, <1>8, <1>11
  <2> HIDE DEF lost
  <2> QED
    BY <1>8, <2>1, <2>2 DEF Store
<1> HIDE DEF u
<1>13. Told(s, t, j, EndIn(s, j))
  <2>1. Waiting(t)
    BY <1>3, <1>5, <1>8 DEF Waiting
  <2>2. \A k \in Jobs : k # j => t.entry[k] = s.entry[k] /\ (k \in t.lost <=> k \in s.lost)
    BY <1>5, <1>6, <1>8
  <2>3. s.entry[j].hydrated => t.entry[j].hydrated
    BY <1>6, <1>7, <1>9, <1>11 DEF NoEntry
  <2>4. Authoritative(t, j) => t.entry[j].status = EndIn(s, j)
    BY <1>5, <1>6, <1>7, <1>8, <1>9 DEF Authoritative, EndIn, Fresh, NoEntry, Terminal
  <2> QED
    BY <1>5, <1>8, <1>9, <1>10, <2>1, <2>2, <2>3, <2>4 DEF Told
<1> DEFINE v == Published(t)
<1>14. Onward(s, v, j, EndIn(s, j)) /\ Sound(v) /\ Planned(v)
  BY <1>13, PublishedOnward
<1>15. v.entry = t.entry /\ v.lost = t.lost /\ v.order = t.order
       /\ v.unconfirmed = t.unconfirmed /\ v.pins = t.pins
  BY <1>10, PublishedIs DEF Sound
<1> HIDE DEF v
<1>16. NodesStay(s, v)
  BY <1>6, <1>7, <1>8, <1>9, <1>11, <1>15 DEF NodesStay, NoEntry
<1>17. CASE Has(s, j)
  <2>1. \A k \in Jobs : (Has(v, k) <=> Has(s, k)) /\ (Evictable(v, k) => Evictable(s, k))
    <3>1. \A k \in Jobs : v.entry[k].status = s.entry[k].status
      BY <1>6, <1>7, <1>8, <1>15, <1>17
    <3> QED
      BY <1>3, <1>5, <1>8, <1>15, <3>1 DEF Has, Evictable, Authoritative
  <2>2. Roomy(v)
    BY <1>5, <1>8, <1>15, <1>17, <2>1 DEF Roomy
  <2> QED
    BY <1>1, <1>14, <1>16, <1>17, <2>2 DEF v
<1>18. CASE ~Has(s, j)
  <2>1. Register(s, j) = Evict(v)
    BY <1>1, <1>12, <1>18 DEF v
  <2>2. Sound(Evict(v)) /\ Planned(Evict(v)) /\ Roomy(Evict(v))
    BY <1>14, EvictSound DEF Planned
  <2>3. Onward(s, Evict(v), j, EndIn(s, j))
    BY <1>14, EvictOnward
  <2>4. \A k \in Jobs : Evict(v).entry[k] = NoEntry \/ Evict(v).entry[k] = v.entry[k]
    BY <1>14, EvictFollows DEF Sound
  <2>5. NodesStay(s, Evict(v))
    BY <1>16, <2>4 DEF NodesStay, Has, NoEntry
  <2> QED
    BY <2>1, <2>2, <2>3, <2>5
<1> QED
  BY <1>17, <1>18

LEMMA MarkLostSound ==
  ASSUME NEW s, Sound(s), Planned(s), Roomy(s), NEW j \in Jobs
  PROVE  /\ Sound(MarkLost(s, j)) /\ Planned(MarkLost(s, j)) /\ Roomy(MarkLost(s, j))
         /\ MarkLost(s, j).lost \subseteq s.lost \cup {j}
         /\ MarkLost(s, j).plans = s.plans /\ MarkLost(s, j).advanced = s.advanced
         /\ \A k \in Jobs :
              /\ Has(MarkLost(s, j), k) <=> Has(s, k)
              /\ MarkLost(s, j).entry[k].hydrated = s.entry[k].hydrated
              /\ MarkLost(s, j).entry[k].node = s.entry[k].node
              /\ k # j => MarkLost(s, j).entry[k] = s.entry[k]
<1> DEFINE x == [s.entry[j] EXCEPT !.status = "interrupted"]
           t == [s EXCEPT !.entry = [s.entry EXCEPT ![j] = x], !.lost = s.lost \cup {j}]
<1>1. MarkLost(s, j) = IF Has(s, j) /\ s.entry[j].status \notin Terminal THEN Published(t) ELSE s
  BY DEF MarkLost
<1>2. CASE ~(Has(s, j) /\ s.entry[j].status \notin Terminal)
  BY <1>1, <1>2
<1>3. CASE Has(s, j) /\ s.entry[j].status \notin Terminal
  <2>1. /\ x \in Entry /\ x.status = "interrupted"
        /\ x.hydrated = s.entry[j].hydrated /\ x.node = s.entry[j].node
    BY EntryOf DEF Sound, Entry, Statuses, Terminal
  <2> HIDE DEF x
  <2>2. /\ t \in Store /\ t.order = s.order /\ t.unconfirmed = s.unconfirmed /\ t.tombs = s.tombs
        /\ t.pins = s.pins /\ t.plans = s.plans /\ t.advanced = s.advanced
        /\ t.lost = s.lost \cup {j}
        /\ \A k \in Jobs : t.entry[k] = IF k = j THEN x ELSE s.entry[k]
    BY <2>1 DEF Sound, Store
  <2> HIDE DEF t
  <2>3. Within(s, t, j) /\ Has(t, j)
    BY <2>1, <2>2 DEF Within, Has
  <2>4. Sound(t)
    BY <1>3, <2>1, <2>2, <2>3, WithinSound
  <2>5. \A k \in Jobs : (Has(t, k) <=> Has(s, k)) /\ (Authoritative(t, k) <=> Authoritative(s, k))
    BY <1>3, <2>1, <2>2 DEF Has, Authoritative
  <2>6. Waiting(t) /\ Roomy(t)
    BY <2>2, <2>5 DEF Waiting, Planned, Roomy, Evictable
  <2>7. PlansOver(t) = {}
    BY <2>2, <2>5 DEF PlansOver, Planned, Sound, Store
  <2>8. Sound(Published(t)) /\ Planned(Published(t)) /\ Roomy(Published(t))
    BY <2>4, <2>6, PublishedSound
  <2>9. /\ Published(t).entry = t.entry /\ Published(t).lost = t.lost
        /\ Published(t).plans = t.plans \ PlansOver(t)
        /\ Published(t).advanced = t.advanced \cup {k \in PlansOver(t) : t.entry[k].status = "completed"}
    BY <2>4, PublishedIs DEF Sound
  <2>10. Published(t).plans = s.plans /\ Published(t).advanced = s.advanced
    BY <2>2, <2>7, <2>9
  <2> QED
    BY <1>1, <1>3, <2>1, <2>2, <2>5, <2>8, <2>9, <2>10 DEF Has
<1> QED
  BY <1>2, <1>3

LEMMA HydrateSound ==
  ASSUME NEW s, Sound(s), Planned(s), Roomy(s), NEW j \in Jobs
  PROVE  /\ Sound(HydrateArtifacts(s, j)) /\ Planned(HydrateArtifacts(s, j))
         /\ Roomy(HydrateArtifacts(s, j))
         /\ HydrateArtifacts(s, j).lost = s.lost
         /\ HydrateArtifacts(s, j).plans = s.plans /\ HydrateArtifacts(s, j).advanced = s.advanced
         /\ \A k \in Jobs :
              /\ HydrateArtifacts(s, j).entry[k].status = s.entry[k].status
              /\ s.entry[k].hydrated => HydrateArtifacts(s, j).entry[k].hydrated
              /\ HydrateArtifacts(s, j).entry[k].node = s.entry[k].node
         /\ Has(s, j) => HydrateArtifacts(s, j).entry[j].hydrated
<1> DEFINE x == [s.entry[j] EXCEPT !.hydrated = TRUE]
           t == [s EXCEPT !.entry = [s.entry EXCEPT ![j] = x]]
<1>1. HydrateArtifacts(s, j) = IF Has(s, j) THEN t ELSE s
  BY DEF HydrateArtifacts
<1>2. CASE ~Has(s, j)
  BY <1>1, <1>2
<1>3. CASE Has(s, j)
  <2>1. x \in Entry /\ x.status = s.entry[j].status /\ x.hydrated /\ x.node = s.entry[j].node
    BY EntryOf DEF Sound, Entry
  <2> HIDE DEF x
  <2>2. /\ t \in Store /\ t.order = s.order /\ t.unconfirmed = s.unconfirmed /\ t.tombs = s.tombs
        /\ t.pins = s.pins /\ t.plans = s.plans /\ t.advanced = s.advanced /\ t.lost = s.lost
        /\ \A k \in Jobs : t.entry[k] = IF k = j THEN x ELSE s.entry[k]
    BY <2>1 DEF Sound, Store
  <2> HIDE DEF t
  <2>3. \A k \in Jobs : t.entry[k].status = s.entry[k].status
    BY <2>1, <2>2
  <2>4. Within(s, t, j) /\ Has(t, j) /\ (j \in t.lost => t.entry[j].status = "interrupted")
    BY <1>3, <2>2, <2>3 DEF Within, Has, Sound
  <2>5. Sound(t)
    BY <1>3, <2>2, <2>4, WithinSound
  <2>6. \A k \in Jobs : (Has(t, k) <=> Has(s, k)) /\ (Authoritative(t, k) <=> Authoritative(s, k))
    BY <2>2, <2>3 DEF Has, Authoritative
  <2>7. Planned(t) /\ Roomy(t)
    BY <2>2, <2>6 DEF Waiting, Planned, Roomy, Evictable, Sound, Store
  <2> QED
    BY <1>1, <1>3, <2>1, <2>2, <2>3, <2>5, <2>7
<1> QED
  BY <1>2, <1>3

\* The store as it should be while the backend is at sv and the submissions at
\* ps: a plan is there from the answer on until its run is known to have ended.
Kept(sv, ps, s) ==
  /\ Sound(s) /\ Planned(s) /\ Roomy(s)
  /\ \A j \in s.plans \cup s.advanced : ps[j] = "answered"
  /\ \A j \in s.advanced : OutcomeIn(sv, j) = "completed"
  /\ \A j \in Own : ps[j] = "answered" =>
       j \in s.plans \/ j \in s.advanced \/ OutcomeIn(sv, j) \in {"error", "interrupted"}

LEMMA ForwardKept ==
  ASSUME NEW sv, NEW tv, Forward(sv, tv), NEW ps, NEW qs, NEW s, Kept(sv, ps, s),
         \A k \in Jobs : (qs[k] = "answered") <=> (ps[k] = "answered")
  PROVE  Kept(tv, qs, s)
<1>1. s.plans \cup s.advanced \subseteq Jobs /\ Own \subseteq Jobs
  BY ExecutionsAssumption DEF Kept, Sound, Store
<1> QED
  BY <1>1 DEF Kept, Forward, Terminal

LEMMA OnwardKept ==
  ASSUME NEW sv, NEW ps, NEW s, Kept(sv, ps, s), NEW t, NEW j \in Jobs, NEW end,
         Sound(t), Planned(t), Roomy(t), Onward(s, t, j, end),
         end \in Terminal => end = OutcomeIn(sv, j)
  PROVE  Kept(sv, ps, t)
<1>1. \A k \in t.plans \cup t.advanced : ps[k] = "answered"
  BY DEF Kept, Onward
<1>2. \A k \in t.advanced : OutcomeIn(sv, k) = "completed"
  BY DEF Kept, Onward, Terminal
<1>3. ASSUME NEW k \in Own, ps[k] = "answered", k \notin t.plans, k \notin t.advanced
      PROVE  OutcomeIn(sv, k) \in {"error", "interrupted"}
  <2>1. CASE k \in s.plans
    BY <1>3, <2>1 DEF Onward, Terminal
  <2>2. CASE k \notin s.plans
    BY <1>3, <2>2 DEF Onward, Kept
  <2> QED
    BY <2>1, <2>2
<1> QED
  BY <1>1, <1>2, <1>3 DEF Kept

LEMMA SamePlansKept ==
  ASSUME NEW sv, NEW ps, NEW s, Kept(sv, ps, s), NEW t, Sound(t), Planned(t), Roomy(t),
         t.plans = s.plans, t.advanced = s.advanced
  PROVE  Kept(sv, ps, t)
BY DEF Kept

LEMMA AppliedKept ==
  ASSUME NEW sv, NEW ps, NEW s, Kept(sv, ps, s), NEW e, e.job \in Jobs, e.node \in Nodes,
         e.kind \in Terminal => e.kind = OutcomeIn(sv, e.job)
  PROVE  /\ Kept(sv, ps, Apply(s, e)) /\ Apply(s, e).lost \subseteq s.lost
         /\ ArtifactsStay(s, Apply(s, e))
<1> DEFINE t == Apply(s, e)
<1>1. Sound(t) /\ Planned(t) /\ Roomy(t) /\ Onward(s, t, e.job, e.kind)
  BY ApplySound DEF Kept
<1> HIDE DEF t
<1>2. Kept(sv, ps, t)
  BY <1>1, OnwardKept
<1> QED
  BY <1>1, <1>2 DEF t, Onward, ArtifactsStay

LEMMA RegisteredKept ==
  ASSUME NEW sv, NEW ps, NEW s, Kept(sv, ps, s), Trusted(sv, s), NEW j \in Jobs
  PROVE  /\ Kept(sv, ps, Register(s, j)) /\ Register(s, j).lost \subseteq s.lost
         /\ ArtifactsStay(s, Register(s, j))
<1> DEFINE t == Register(s, j)
<1>1. /\ s.plans \cap s.advanced = {} /\ (s.plans \ {j}) \cap s.unconfirmed = {}
      /\ \A k \in s.plans : k # j => Has(s, k) /\ ~Authoritative(s, k)
  BY DEF Kept, Planned, Waiting
<1>2. Sound(t) /\ Planned(t) /\ Roomy(t) /\ Onward(s, t, j, EndIn(s, j))
  BY <1>1, RegisterSound DEF Kept
<1> HIDE DEF t
<1>3. EndIn(s, j) \in Terminal => EndIn(s, j) = OutcomeIn(sv, j)
  BY DEF EndIn, Trusted, Terminal
<1>4. Kept(sv, ps, t)
  BY <1>2, <1>3, OnwardKept
<1> QED
  BY <1>2, <1>4 DEF t, Onward, ArtifactsStay

LEMMA HydratedKept ==
  ASSUME NEW sv, NEW ps, NEW s, Kept(sv, ps, s), NEW j \in Jobs
  PROVE  /\ Kept(sv, ps, HydrateArtifacts(s, j)) /\ HydrateArtifacts(s, j).lost = s.lost
         /\ ArtifactsStay(s, HydrateArtifacts(s, j))
BY HydrateSound, SamePlansKept DEF Kept, ArtifactsStay

LEMMA LostKept ==
  ASSUME NEW sv, NEW ps, NEW s, Kept(sv, ps, s), NEW j \in Jobs
  PROVE  /\ Kept(sv, ps, MarkLost(s, j)) /\ MarkLost(s, j).lost \subseteq s.lost \cup {j}
         /\ ArtifactsStay(s, MarkLost(s, j))
BY MarkLostSound, SamePlansKept DEF Kept, ArtifactsStay

Simple ==
  /\ forgotten \in SUBSET Jobs /\ socket \in {"up", "down"} /\ terminalJobs \in SUBSET Jobs
  /\ hydrating \in SUBSET Jobs /\ trouble \in 0 .. MaxTrouble
  /\ missed \in SUBSET Jobs /\ due \in SUBSET Jobs

\* A read of the current pass that found nothing found it since the connect.
MissingIsCurrent ==
  /\ forgotten \subseteq missed
  /\ rec.stage = "answered" /\ rec.answer.kind = "missing" /\ rec.current =>
       Head(rec.open) \in missed

KeptInv == VerdictInv /\ Kept(server, post, store) /\ Simple /\ MissingIsCurrent

\* What a step leaves, and what it may do.
Goes ==
  /\ Kept(server', post', store') /\ Simple' /\ MissingIsCurrent'
  /\ \A k \in store'.lost \ store.lost : k \in missed' /\ k \notin due'
  /\ ArtifactsStay(store, store')
  /\ wire' = wire /\ echo' = echo => NodesStay(store, store')

LEMMA BackendGoes ==
  ASSUME KeptInv, NEW j \in Jobs, Backend(j)
  PROVE  Goes
<1>1. store' = store /\ Forward(server, server') /\ Answers
  BY BackendStep DEF KeptInv
<1>2. Kept(server', post', store')
  BY <1>1, ForwardKept DEF KeptInv, Answers
<1>3. Simple' /\ MissingIsCurrent'
  <2>1. trouble' \in 0 .. MaxTrouble
    BY ExecutionsAssumption DEF KeptInv, Simple, Backend, Submit, Start, NodeStarts, NodeEnds, Finish,
         Persist, Break, Chatter, Forget, Recover, Emit, Broadcast, Happens
  <2>2. UNCHANGED <<socket, rec, terminalJobs, hydrating, due>>
        /\ \/ UNCHANGED <<forgotten, missed>>
           \/ forgotten' = forgotten \cup {j} /\ missed' = missed \cup {j}
           \/ forgotten' = forgotten \ {j} /\ missed' = missed
    BY DEF Backend, Submit, Start, NodeStarts, NodeEnds, Finish, Persist, Break, Chatter, Forget,
         Recover, Works, wireVars
  <2> QED
    BY <2>1, <2>2 DEF KeptInv, Simple, MissingIsCurrent
<1> QED
  BY <1>1, <1>2, <1>3 DEF Goes, NodesStay, ArtifactsStay

LEMMA InstallGoes ==
  ASSUME KeptInv, NEW j \in Jobs, InstallRun(j) \/ PeerInstallsRun(j)
  PROVE  Goes
<1>1. Simple' /\ MissingIsCurrent'
  BY DEF KeptInv, Simple, MissingIsCurrent, InstallRun, PeerInstallsRun, StoreIs, wireVars
<1>2. CASE InstallRun(j)
  <2> DEFINE s == [store EXCEPT !.plans = store.plans \cup {j}]
             t == Register(s, j)
  <2>1. store' = t
    BY <1>2 DEF InstallRun, StoreIs
  <2>2. /\ s \in Store /\ s.order = store.order /\ s.entry = store.entry /\ s.lost = store.lost
        /\ s.unconfirmed = store.unconfirmed /\ s.tombs = store.tombs /\ s.pins = store.pins
        /\ s.plans = store.plans \cup {j} /\ s.advanced = store.advanced
    BY DEF KeptInv, Kept, Sound, Store
  <2> HIDE DEF s
  <2>3. j \notin store.plans /\ j \notin store.advanced
    BY <1>2 DEF InstallRun, KeptInv, Kept
  <2>4. Sound(s) /\ Roomy(s)
    BY <2>2 DEF KeptInv, Kept, Sound, Roomy, Has, Evictable, Authoritative
  <2>5. /\ s.plans \cap s.advanced = {} /\ (s.plans \ {j}) \cap s.unconfirmed = {}
        /\ \A k \in s.plans : k # j => Has(s, k) /\ ~Authoritative(s, k)
    BY <2>2, <2>3 DEF KeptInv, Kept, Planned, Waiting, Has, Authoritative
  <2>6. Sound(t) /\ Planned(t) /\ Roomy(t) /\ Onward(s, t, j, EndIn(s, j)) /\ NodesStay(s, t)
    BY <2>4, <2>5, RegisterSound
  <2> HIDE DEF t
  <2>7. EndIn(s, j) \in Terminal => EndIn(s, j) = OutcomeIn(server, j)
    BY <2>2 DEF KeptInv, VerdictInv, Trusted, EndIn, Authoritative, Terminal
  <2>8. /\ \A k \in Jobs : (post'[k] = "answered") <=> (post[k] = "answered" \/ k = j)
        /\ server' = server
    BY <1>2 DEF InstallRun, KeptInv, VerdictInv
  <2>10. Kept(server, post', t)
    <3>1. Own \subseteq Jobs /\ store.plans \cup store.advanced \subseteq Jobs
      BY ExecutionsAssumption DEF KeptInv, Kept, Sound, Store
    <3>2. \A k \in t.plans \cup t.advanced : k \in s.plans \cup s.advanced
      BY <2>6 DEF Onward
    <3>3. \A k \in t.plans \cup t.advanced : post'[k] = "answered"
      BY <2>2, <2>8, <3>1, <3>2 DEF KeptInv, Kept
    <3>4. \A k \in t.advanced : OutcomeIn(server, k) = "completed"
      BY <2>2, <2>6, <2>7 DEF KeptInv, Kept, Onward, Terminal
    <3>5. ASSUME NEW k \in Own, post'[k] = "answered", k \notin t.plans, k \notin t.advanced
          PROVE  OutcomeIn(server, k) \in {"error", "interrupted"}
      <4>1. CASE k \in s.plans
        BY <2>6, <2>7, <3>5, <4>1 DEF Onward, Terminal
      <4>2. CASE k \notin s.plans
        <5>1. k # j /\ k \notin store.plans /\ k \notin store.advanced /\ k \in Jobs
          BY <2>2, <2>6, <3>1, <3>5, <4>2 DEF Onward
        <5> QED
          BY <2>8, <3>5, <5>1 DEF KeptInv, Kept
      <4> QED
        BY <4>1, <4>2
    <3> QED
      BY <2>6, <3>3, <3>4, <3>5 DEF Kept
  <2>11. t.lost \subseteq store.lost /\ NodesStay(store, t) /\ ArtifactsStay(store, t)
    BY <2>2, <2>6 DEF Onward, NodesStay, ArtifactsStay
  <2> QED
    BY <1>1, <2>1, <2>8, <2>10, <2>11 DEF Goes
<1>3. CASE PeerInstallsRun(j)
  <2>1. server' = server /\ store' = store
    BY <1>3 DEF PeerInstallsRun
  <2>2. j \notin Own /\ \A k \in Jobs : k # j => post'[k] = post[k]
    BY <1>3 DEF PeerInstallsRun, KeptInv, VerdictInv
  <2>3. post'[j] = "answered"
    BY <1>3 DEF PeerInstallsRun, KeptInv, VerdictInv
  <2>4. Kept(server, post', store)
    <3>1. Own \subseteq Jobs /\ store.plans \cup store.advanced \subseteq Jobs
      BY ExecutionsAssumption DEF KeptInv, Kept, Sound, Store
    <3> QED
      BY <2>2, <2>3, <3>1 DEF KeptInv, Kept
  <2> QED
    BY <1>1, <2>1, <2>4 DEF Goes, NodesStay, ArtifactsStay
<1> QED
  BY <1>2, <1>3


LEMMA DeliverGoes ==
  ASSUME KeptInv, Deliver
  PROVE  Goes
<1> DEFINE m == Head(wire)
           e == Normalized(m)
<1>1. m \in Message /\ Honest(server, m)
  BY TailWay DEF Deliver, KeptInv, VerdictInv
<1>2. /\ e.job \in Jobs /\ e.node \in Nodes /\ m.job \in Jobs
      /\ e.kind \in Terminal => e.kind = OutcomeIn(server, e.job)
  BY <1>1 DEF Message, Normalized, Event, Nodes, Honest
<1>3. /\ store' = store \/ store' = Apply(store, e)
      /\ due' \subseteq due /\ terminalJobs' = Passed(e)
      /\ hydrating' = hydrating \/ hydrating' = hydrating \cup {m.job}
      /\ wire' # wire
  <2>1. wire \in Seq(Message) /\ wire # <<>> /\ wire' = Tail(wire)
    BY DEF Deliver, KeptInv, VerdictInv, HonestWay
  <2>2. wire' # wire
    BY <2>1, HeadTailProperties
  <2> QED
    BY <2>2 DEF Deliver, StoreIs
<1> HIDE DEF e, m
<1>4. Kept(server, post, store') /\ store'.lost \subseteq store.lost /\ ArtifactsStay(store, store')
  BY <1>2, <1>3, AppliedKept DEF KeptInv, ArtifactsStay
<1>5. Simple' /\ MissingIsCurrent'
  BY <1>2, <1>3 DEF Deliver, KeptInv, Simple, MissingIsCurrent, Passed, serverVars
<1> QED
  BY <1>3, <1>4, <1>5 DEF Deliver, serverVars, Goes

LEMMA DeliverEchoGoes ==
  ASSUME KeptInv, DeliverEcho
  PROVE  Goes
<1> DEFINE e == Head(echo)
<1>1. e \in Message /\ Honest(server, e)
  BY TailWay DEF DeliverEcho, KeptInv, VerdictInv
<1>2. /\ e.job \in Jobs /\ e.node \in Nodes
      /\ e.kind \in Terminal => e.kind = OutcomeIn(server, e.job)
  BY <1>1 DEF Message, Normalized, Honest, Terminal
<1>3. /\ store' = Register(store, e.job) \/ store' = Apply(store, e)
      /\ due' \subseteq due /\ echo' # echo
  <2>1. echo \in Seq(Message) /\ echo # <<>> /\ echo' = Tail(echo)
    BY DEF DeliverEcho, KeptInv, VerdictInv, HonestWay
  <2>2. echo' # echo
    BY <2>1, HeadTailProperties
  <2> QED
    BY <2>2 DEF DeliverEcho, StoreIs
<1> HIDE DEF e
<1>4. Kept(server, post, store') /\ store'.lost \subseteq store.lost /\ ArtifactsStay(store, store')
  BY <1>2, <1>3, AppliedKept, RegisteredKept DEF KeptInv, VerdictInv
<1>5. Simple' /\ MissingIsCurrent'
  BY <1>3 DEF DeliverEcho, KeptInv, Simple, MissingIsCurrent, serverVars
<1> QED
  BY <1>3, <1>4, <1>5 DEF DeliverEcho, serverVars, Goes

LEMMA HydrateGoes ==
  ASSUME KeptInv, NEW j \in Jobs, HydrateCompleted(j)
  PROVE  Goes
<1>1. /\ store' = store \/ store' = HydrateArtifacts(store, j)
      /\ due' \subseteq due
  BY DEF HydrateCompleted, StoreIs
<1>2. Kept(server, post, store') /\ store'.lost = store.lost /\ ArtifactsStay(store, store')
  BY <1>1, HydratedKept DEF KeptInv, ArtifactsStay
<1>3. NodesStay(store, store')
  BY <1>1, HydrateSound DEF KeptInv, Kept, NodesStay
<1>4. Simple' /\ MissingIsCurrent'
  BY <1>1 DEF HydrateCompleted, KeptInv, Simple, MissingIsCurrent, serverVars, wireVars
<1> QED
  BY <1>2, <1>3, <1>4 DEF HydrateCompleted, serverVars, Goes

LEMMA ViewGoes ==
  ASSUME KeptInv, NEW j \in Jobs, OpenView(j) \/ CloseView(j)
  PROVE  Goes
<1>1. Simple' /\ MissingIsCurrent'
  BY ExecutionsAssumption DEF OpenView, CloseView, Happens, StoreIs, KeptInv, Simple, MissingIsCurrent,
     serverVars, wireVars
<1>2. ASSUME NEW pins \in SUBSET Jobs, NEW s, s = [store EXCEPT !.pins = pins],
             \A k \in pins : k \in store.pins \/ Has(store, k)
      PROVE  /\ Sound(s) /\ Planned(s) /\ s.plans = store.plans /\ s.advanced = store.advanced
             /\ s.entry = store.entry /\ s.lost = store.lost
             /\ store.pins \subseteq pins => Roomy(s)
  <2>1. /\ s \in Store /\ s.order = store.order /\ s.entry = store.entry /\ s.lost = store.lost
        /\ s.unconfirmed = store.unconfirmed /\ s.tombs = store.tombs /\ s.pins = pins
        /\ s.plans = store.plans /\ s.advanced = store.advanced
    BY <1>2 DEF KeptInv, Kept, Sound, Store
  <2>2. Sound(s)
    BY <1>2, <2>1 DEF KeptInv, Kept, Sound, Has
  <2>3. Planned(s)
    BY <2>1 DEF KeptInv, Kept, Planned, Waiting, Has, Authoritative
  <2>4. store.pins \subseteq pins => Roomy(s)
    BY <2>1 DEF KeptInv, Kept, Roomy, Has, Evictable, Authoritative
  <2> QED
    BY <2>1, <2>2, <2>3, <2>4
<1>3. CASE OpenView(j)
  <2> DEFINE pins == store.pins \cup {j}
  <2>1. store' = [store EXCEPT !.pins = pins]
    BY <1>3 DEF OpenView, StoreIs
  <2>2. Has(store, j)
    BY <1>3 DEF OpenView, KeptInv, Kept, Sound, NoEntry
  <2>3. pins \in SUBSET Jobs /\ store.pins \subseteq pins /\ \A k \in pins : k \in store.pins \/ Has(store, k)
    BY <2>2 DEF KeptInv, Kept, Sound, Store
  <2> HIDE DEF pins
  <2>4. /\ Sound(store') /\ Planned(store') /\ Roomy(store')
        /\ store'.plans = store.plans /\ store'.advanced = store.advanced
        /\ store'.entry = store.entry /\ store'.lost = store.lost
    BY <1>2, <2>1, <2>3
  <2>5. Kept(server, post, store')
    BY <2>4, SamePlansKept DEF KeptInv
  <2> QED
    BY <1>1, <1>3, <2>4, <2>5 DEF OpenView, serverVars, Goes, NodesStay, ArtifactsStay
<1>4. CASE CloseView(j)
  <2> DEFINE pins == store.pins \ {j}
             s == [store EXCEPT !.pins = pins]
             t == Evict(s)
  <2>1. store' = t
    BY <1>4 DEF CloseView, StoreIs
  <2>2. pins \in SUBSET Jobs /\ \A k \in pins : k \in store.pins
    BY DEF KeptInv, Kept, Sound, Store
  <2> HIDE DEF pins
  <2>3. /\ Sound(s) /\ Planned(s) /\ s.plans = store.plans /\ s.advanced = store.advanced
        /\ s.entry = store.entry /\ s.lost = store.lost
    BY <1>2, <2>2
  <2> HIDE DEF s
  <2>4. /\ Sound(t) /\ Planned(t) /\ Roomy(t)
        /\ t.plans = s.plans /\ t.advanced = s.advanced /\ t.lost \subseteq s.lost
    BY <2>3, EvictSound DEF Planned
  <2>5. \A k \in Jobs : t.entry[k] = NoEntry \/ t.entry[k] = s.entry[k]
    BY <2>3, EvictFollows DEF Sound
  <2> HIDE DEF t
  <2>6. NodesStay(store, t) /\ ArtifactsStay(store, t)
    BY <2>3, <2>5 DEF NodesStay, ArtifactsStay, Has, NoEntry
  <2>7. Kept(server, post, t)
    BY <2>3, <2>4, SamePlansKept DEF KeptInv
  <2> QED
    BY <1>1, <1>4, <2>1, <2>3, <2>4, <2>6, <2>7 DEF CloseView, serverVars, Goes
<1> QED
  BY <1>3, <1>4

LEMMA SocketGoes ==
  ASSUME KeptInv, Drop \/ Connect
  PROVE  Goes
<1>1. Simple' /\ MissingIsCurrent'
  <2>1. CASE Drop
    BY <2>1, ExecutionsAssumption DEF Drop, Happens, KeptInv, Simple, MissingIsCurrent, serverVars
  <2>2. CASE Connect
    <3>1. Pass(store).stage # "answered"
      BY DEF Pass, Idle
    <3>2. rec'.stage # "answered" \/ ~rec'.current
      BY <2>2, <3>1 DEF Connect, KeptInv, VerdictInv, HonestAnswer
    <3> QED
      BY <2>2, <3>2 DEF Connect, KeptInv, Simple, MissingIsCurrent, serverVars
  <2> QED
    BY <2>1, <2>2
<1> QED
  BY <1>1 DEF Drop, Connect, serverVars, KeptInv, Goes, NodesStay, ArtifactsStay

LEMMA ReadGoes ==
  ASSUME KeptInv, AnswerRead
  PROVE  Goes
<1> DEFINE j == Head(rec.open)
<1>1. UNCHANGED <<server, forgotten, post, wire, echo, terminalJobs, store, hydrating, missed, due, socket>>
      /\ trouble' \in 0 .. MaxTrouble
  BY ExecutionsAssumption DEF AnswerRead, Happens, serverVars, wireVars, KeptInv, Simple
<1>2. rec'.open = rec.open
      /\ (rec'.answer.kind = "missing" => j \in forgotten)
  <2>1. rec.answer \in Answer /\ rec = [stage |-> rec.stage, open |-> rec.open, answer |-> rec.answer, current |-> rec.current]
    BY DEF KeptInv, VerdictInv, HonestAnswer
  <2>2. CASE Happens("read") /\ rec' = [rec EXCEPT !.stage = "answered", !.answer.kind = "failed"]
    BY <2>1, <2>2 DEF Answer
  <2>3. ASSUME NEW a, a = IF j \in forgotten THEN [NoAnswer EXCEPT !.kind = "missing"] ELSE RecordOf(j),
               rec' = [rec EXCEPT !.stage = "answered", !.answer = a]
        PROVE  rec'.open = rec.open /\ (rec'.answer.kind = "missing" => j \in forgotten)
    BY <2>1, <2>3 DEF RecordOf
  <2> QED
    BY <2>2, <2>3 DEF AnswerRead
<1>3. Simple' /\ MissingIsCurrent'
  BY <1>1, <1>2 DEF KeptInv, Simple, MissingIsCurrent
<1> QED
  BY <1>1, <1>3 DEF KeptInv, Goes, NodesStay, ArtifactsStay

LEMMA NotAnswered ==
  ASSUME NEW s
  PROVE  Pass(s).stage # "answered" /\ NextRead(s).stage # "answered"
BY DEF Pass, NextRead, Idle

LEMMA MissingGoes ==
  ASSUME KeptInv, SkipFailedRead \/ ReadMissing
  PROVE  Goes
<1> DEFINE j == Head(rec.open)
<1>1. /\ store' = store \/ (store' = MarkLost(store, j) /\ j \in missed /\ j \notin due')
      /\ due' \subseteq due /\ terminalJobs' = terminalJobs
      /\ UNCHANGED <<serverVars, wireVars, hydrating, trouble, missed>>
      /\ rec' = NextRead(store')
  BY DEF SkipFailedRead, ReadMissing, Answered, GoOn, KeptInv, MissingIsCurrent
<1>2. j \in Jobs
  BY AskedRun DEF SkipFailedRead, ReadMissing, Answered, KeptInv, VerdictInv
<1> HIDE DEF j
<1>3. /\ Kept(server, post, store')
      /\ \A k \in store'.lost \ store.lost : k \in missed /\ k \notin due'
      /\ NodesStay(store, store') /\ ArtifactsStay(store, store')
  <2>1. /\ Kept(server, post, MarkLost(store, j)) /\ MarkLost(store, j).lost \subseteq store.lost \cup {j}
        /\ ArtifactsStay(store, MarkLost(store, j))
    BY <1>2, LostKept DEF KeptInv
  <2>2. NodesStay(store, MarkLost(store, j))
    BY <1>2, MarkLostSound DEF KeptInv, Kept, NodesStay
  <2> QED
    BY <1>1, <2>1, <2>2 DEF KeptInv, NodesStay, ArtifactsStay
<1>4. Simple' /\ MissingIsCurrent'
  BY <1>1, NotAnswered DEF KeptInv, Simple, MissingIsCurrent, serverVars, wireVars
<1> QED
  BY <1>1, <1>3, <1>4 DEF serverVars, wireVars, Goes

LEMMA ReplayGoes ==
  ASSUME KeptInv, ReplayJob
  PROVE  Goes
<1> DEFINE j == Head(rec.open)
           a == rec.answer
           node == NodeEvent(j, "snapshot", a.node)
           end == Event(j, StatusOf(a.state))
           s == IF a.node = "none" THEN store ELSE Apply(store, node)
           t == IF end.kind = "none" \/ Silenced(end) THEN s ELSE Apply(s, end)
           u == IF a.state = "completed" THEN HydrateArtifacts(t, j) ELSE t
<1>1. /\ store' = u /\ due' \subseteq due /\ terminalJobs' = Passed(end)
      /\ UNCHANGED <<serverVars, wireVars, hydrating, trouble, missed>>
      /\ rec' = NextRead(store')
  BY DEF ReplayJob, Answered, StoreIs, GoOn
<1>2. /\ node.job = j /\ node.kind = "snapshot" /\ node.node = a.node
      /\ end.job = j /\ end.kind = StatusOf(a.state) /\ end.node = "none"
  BY DEF NodeEvent, Event
<1>3. rec.stage = "answered" /\ rec.answer.kind = "record" /\ a \in Answer /\ j \in Jobs
  BY AskedRun DEF ReplayJob, Answered, HonestAnswer, KeptInv, VerdictInv
<1>4. s = store \/ s = Apply(store, node)
  OBVIOUS
<1>5. t = s \/ (t = Apply(s, end) /\ end.kind # "none")
  OBVIOUS
<1>6. u = t \/ u = HydrateArtifacts(t, j)
  OBVIOUS
<1> HIDE DEF node, end, s, t, u
<1>7. /\ a.node \in Nodes
      /\ end.kind \in Terminal => end.kind = OutcomeIn(server, j)
  BY <1>2, <1>3 DEF HonestAnswer, KeptInv, VerdictInv, StatusOf, OutcomeIn, Terminal, Answer
<1>8. end.kind \in Terminal \cup {"none"}
  BY <1>2 DEF StatusOf, Terminal
<1>9. Kept(server, post, s) /\ s.lost \subseteq store.lost /\ NodesStay(store, s) /\ ArtifactsStay(store, s)
  <2>1. CASE s = store
    BY <2>1 DEF KeptInv, NodesStay, ArtifactsStay
  <2>2. CASE s = Apply(store, node)
    <3>1. Kept(server, post, s) /\ s.lost \subseteq store.lost /\ ArtifactsStay(store, s)
      BY <1>2, <1>3, <1>7, <2>2, AppliedKept DEF KeptInv, Terminal
    <3>2. NodesStay(store, s)
      BY <1>2, <1>3, <1>7, <2>2, ApplySound DEF KeptInv, Kept
    <3> QED
      BY <3>1, <3>2
  <2> QED
    BY <1>4, <2>1, <2>2
<1>10. Has(store, j) => Has(s, j)
  BY <1>2, <1>3, <1>4, <1>7, ApplyFollows DEF KeptInv, VerdictInv, Trusted, Terminal
<1>11. ~Has(store, j) => store.entry[j].node # "done" /\ ~store.entry[j].hydrated
  BY <1>3 DEF KeptInv, Kept, Sound, NoEntry
<1>12. /\ Kept(server, post, t) /\ t.lost \subseteq s.lost /\ NodesStay(s, t) /\ ArtifactsStay(s, t)
       /\ \A k \in Jobs : k # j /\ Has(t, k) => Has(s, k)
  <2>1. CASE t = s
    BY <1>9, <2>1 DEF NodesStay, ArtifactsStay
  <2>2. CASE t = Apply(s, end) /\ end.kind # "none"
    <3>1. Kept(server, post, t) /\ t.lost \subseteq s.lost /\ ArtifactsStay(s, t)
      BY <1>2, <1>3, <1>7, <1>9, <2>2, AppliedKept DEF Nodes
    <3>2. NodesStay(s, t)
      BY <1>2, <1>3, <1>8, <1>9, <2>2, ApplySound DEF Kept, Nodes, Terminal
    <3>3. \A k \in Jobs : k # j /\ Has(t, k) => Has(s, k)
      BY <1>2, <1>3, <1>9, <2>2, ApplyFollows DEF Kept, Sound, Follows, Nodes
    <3> QED
      BY <3>1, <3>2, <3>3
  <2> QED
    BY <1>5, <2>1, <2>2
<1>13. NodesStay(store, t) /\ ArtifactsStay(store, t)
  BY <1>9, <1>10, <1>11, <1>12 DEF NodesStay, ArtifactsStay
<1>14. Kept(server, post, u) /\ u.lost = t.lost /\ NodesStay(store, u) /\ ArtifactsStay(store, u)
  <2>1. /\ Kept(server, post, HydrateArtifacts(t, j)) /\ HydrateArtifacts(t, j).lost = t.lost
        /\ ArtifactsStay(t, HydrateArtifacts(t, j))
    BY <1>3, <1>12, HydratedKept
  <2>2. NodesStay(store, HydrateArtifacts(t, j)) /\ ArtifactsStay(store, HydrateArtifacts(t, j))
    <3>1. \A k \in Jobs : /\ HydrateArtifacts(t, j).entry[k].status = t.entry[k].status
                          /\ HydrateArtifacts(t, j).entry[k].node = t.entry[k].node
      BY <1>3, <1>12, HydrateSound DEF Kept
    <3> QED
      BY <1>13, <2>1, <3>1 DEF NodesStay, ArtifactsStay, Has
  <2> QED
    BY <1>6, <1>12, <1>13, <2>1, <2>2
<1>15. Simple' /\ MissingIsCurrent'
  BY <1>1, <1>2, <1>3, NotAnswered DEF KeptInv, Simple, MissingIsCurrent, Passed, serverVars, wireVars
<1> QED
  BY <1>1, <1>9, <1>12, <1>14, <1>15 DEF serverVars, wireVars, Goes

LEMMA NextGoes ==
  ASSUME KeptInv, [Next]_vars
  PROVE  Goes
<1>1. CASE UNCHANGED vars
  BY <1>1 DEF vars, serverVars, wireVars, KeptInv, Simple, MissingIsCurrent, Goes, NodesStay, ArtifactsStay
<1>2. ASSUME NEW j \in Jobs,
             \/ Backend(j) \/ InstallRun(j) \/ PeerInstallsRun(j) \/ HydrateCompleted(j)
             \/ OpenView(j) \/ CloseView(j)
      PROVE  Goes
  BY <1>2, BackendGoes, InstallGoes, HydrateGoes, ViewGoes
<1>3. CASE Deliver \/ DeliverEcho \/ Drop \/ Connect
  BY <1>3, DeliverGoes, DeliverEchoGoes, SocketGoes
<1>4. CASE Reconcile
  BY <1>4, ReadGoes, MissingGoes, ReplayGoes DEF Reconcile
<1> QED
  BY <1>1, <1>2, <1>3, <1>4 DEF Next

LEMMA NextKept ==
  ASSUME KeptInv, [Next]_vars
  PROVE  KeptInv'
BY NextVerdict, NextGoes DEF KeptInv, Goes

LEMMA InitKept ==
  ASSUME Init
  PROVE  KeptInv
<1>1. VerdictInv
  BY InitVerdict
<1>2. /\ store.order = <<>> /\ store.tombs = <<>> /\ store.lost = {} /\ store.plans = {}
      /\ store.advanced = {} /\ store.unconfirmed = {} /\ store.pins = {}
      /\ \A j \in Jobs : store.entry[j] = NoEntry
  BY DEF Init
<1>3. Len(<<>>) = 0 /\ \A x : ~Contains(<<>>, x)
  BY DEF Contains
<1>4. Distinct(<<>>)
  BY DEF Distinct
<1>5. Sound(store)
  BY <1>1, <1>2, <1>3, <1>4, ExecutionsAssumption DEF VerdictInv, Trusted, Sound, Has, NoEntry
<1>6. Planned(store) /\ Roomy(store)
  BY <1>2, <1>3, ExecutionsAssumption DEF Planned, Waiting, Roomy
<1>7. \A j \in Own : post[j] # "answered"
  BY ExecutionsAssumption DEF Init
<1>8. Simple /\ MissingIsCurrent
  BY ExecutionsAssumption DEF Init, Idle, Simple, MissingIsCurrent
<1> QED
  BY <1>1, <1>2, <1>5, <1>6, <1>7, <1>8 DEF KeptInv, Kept

LEMMA KeptAlways == Spec => []KeptInv
<1>1. Init => KeptInv
  BY InitKept
<1>2. KeptInv /\ [Next]_vars => KeptInv'
  BY NextKept
<1> QED
  BY <1>1, <1>2, PTL DEF Spec

-----------------------------------------------------------------------------
(* What follows from it *)

\* Every variable has its type through every step of the program, and a pass
\* at work has a run to ask for.
THEOREM WindowTypes == Spec => []TypeOK
<1>1. KeptInv => TypeOK
  <2> SUFFICES ASSUME KeptInv PROVE TypeOK
    OBVIOUS
  <2>1. /\ server \in [Jobs -> [state : States, node : Nodes]] /\ post \in [Jobs -> {"none", "sent", "answered"}]
        /\ wire \in Seq(Message) /\ echo \in Seq(Message) /\ store \in Store
    BY DEF KeptInv, VerdictInv, Server, Trusted, HonestWay
  <2>2. /\ rec \in [stage : {"idle", "asked", "answered"}, open : Seq(Jobs), answer : Answer, current : BOOLEAN]
        /\ (rec.stage = "idle") <=> (rec.open = <<>>)
    BY DEF KeptInv, VerdictInv, HonestAnswer
  <2> QED
    BY <2>1, <2>2 DEF TypeOK, KeptInv, Simple
<1> QED
  BY <1>1, KeptAlways, PTL

\* Through eviction, registration and revival, the order, the verdicts of
\* loss, the doubtful runs, the pins and the tombstones are those of the runs
\* the store has.
THEOREM SideSetsFollow == Spec => []SideSetsFollowMap
<1>1. KeptInv => SideSetsFollowMap
  <2> SUFFICES ASSUME KeptInv PROVE SideSetsFollowMap
    OBVIOUS
  <2> DEFINE keys == {j \in Jobs : Has(store, j)}
             order == store.order
  <2>1. Sound(store) /\ store \in Store /\ order \in Seq(Jobs) /\ store.tombs \in Seq(Jobs)
    BY DEF KeptInv, Kept, Sound, Store
  <2>2. ToSet(order) = keys
    <3>1. ToSet(order) = Firsts(order, Len(order))
      BY <2>1 DEF ToSet, Firsts
    <3>2. Firsts(order, Len(order)) = {x \in Jobs : Contains(order, x)}
      BY <2>1 DEF Firsts, Contains
    <3> QED
      BY <2>1, <3>1, <3>2 DEF Sound
  <2>3. Len(order) = Cardinality(keys)
    <3>1. ToSet(order) = Firsts(order, Len(order))
      BY <2>1 DEF ToSet, Firsts
    <3>2. Distinct(order) /\ Len(order) \in 0 .. Len(order)
      BY <2>1 DEF Sound
    <3>3. Cardinality(Firsts(order, Len(order))) = Len(order)
      BY <2>1, <3>2, DistinctCount
    <3> QED
      BY <2>2, <3>1, <3>3
  <2>4. \A j \in store.lost : store.entry[j].status = "interrupted"
    BY <2>1 DEF Sound, Store
  <2>5. store.unconfirmed \subseteq keys /\ store.pins \subseteq keys
    BY <2>1 DEF Sound, Store
  <2>6. ToSet(store.tombs) \cap keys = {}
    <3> SUFFICES ASSUME NEW j \in keys, j \in ToSet(store.tombs) PROVE FALSE
      OBVIOUS
    <3>1. Contains(store.tombs, j)
      BY <2>1 DEF ToSet, Contains
    <3> QED
      BY <2>1, <3>1 DEF Sound
  <2>7. Len(store.tombs) <= TombCap
    BY <2>1 DEF Sound
  <2> HIDE DEF keys
  <2>8. keys = {j \in Jobs : Has(store, j)}
    BY DEF keys
  <2> QED
    BY <2>2, <2>3, <2>4, <2>5, <2>6, <2>7, <2>8 DEF SideSetsFollowMap
<1> QED
  BY <1>1, KeptAlways, PTL

\* Only pinned runs, runs without an observed end and runs somebody vouches
\* for are kept beyond the cap.
THEOREM CapYieldsToProtection == Spec => []OverCapOnlyProtected
<1>1. KeptInv => OverCapOnlyProtected
  BY DEF KeptInv, Kept, Roomy, OverCapOnlyProtected
<1> QED
  BY <1>1, KeptAlways, PTL

\* A plan waits for a run that may still complete, is applied at most once and
\* only to a run that completed, and is applied when such a run is shown.
THEOREM PlansAreSeenTo == Spec => []PlansFollowRuns
<1>1. KeptInv => PlansFollowRuns
  <2> SUFFICES ASSUME KeptInv PROVE PlansFollowRuns
    OBVIOUS
  <2>1. Own \subseteq Jobs
    BY ExecutionsAssumption
  <2>2. ASSUME NEW j \in Own, post[j] = "answered", store.entry[j].status = "completed"
        PROVE  j \in store.advanced
    <3>1. Has(store, j) /\ j \notin store.lost
      BY <2>1, <2>2 DEF KeptInv, Kept, Sound, Has
    <3>2. Authoritative(store, j)
      BY <2>2, <3>1 DEF Authoritative, Terminal
    <3>3. OutcomeIn(server, j) = "completed" /\ j \notin store.plans
      BY <2>1, <2>2, <3>2 DEF KeptInv, VerdictInv, Trusted, Kept, Planned
    <3> QED
      BY <2>2, <3>3 DEF KeptInv, Kept
  <2> QED
    BY <2>2 DEF KeptInv, Kept, Planned, Waiting, PlansFollowRuns, OutcomeIn, Outcome
<1> QED
  BY <1>1, KeptAlways, PTL

\* A run is given up for lost only on an answer that was asked for since the
\* last connect.
THEOREM LossIsTimely == Spec => LossIsCurrent
<1>1. KeptInv /\ [Next]_vars => [\A j \in store'.lost \ store.lost : j \in missed']_vars
  BY NextGoes DEF Goes
<1> QED
  BY <1>1, KeptAlways, PTL DEF Spec, LossIsCurrent

\* Reads, registrations, views and evictions leave a node that has ended as it
\* is; only a message of the backend starts it again.
THEOREM NodesAreNotTakenBack == Spec => ReadsNeverRegress
<1>1. KeptInv /\ [Next]_vars =>
        [wire' = wire /\ echo' = echo =>
           \A j \in Jobs : store.entry[j].node = "done" /\ Has(store', j) =>
                             store'.entry[j].node = "done"]_vars
  BY NextGoes DEF Goes, NodesStay, ArtifactsStay
<1> QED
  BY <1>1, KeptAlways, PTL DEF Spec, ReadsNeverRegress

-----------------------------------------------------------------------------
(* Why nothing is left open: a run that the connect found open and that has *)
(* ended meanwhile is still to be asked for, or its end is on the wire, or  *)
(* its persisted outputs are being read.                                    *)

IsSettled(state) == state \in {"completed", "failed", "cancelled"}

\* The pass will ask for j, or has asked and was told the end.  A superseded
\* pass begins again with what is open then.
Asks(r, j) ==
  /\ r.stage # "idle"
  /\ \/ ~r.current
     \/ \E i \in 1 .. Len(r.open) :
          /\ r.open[i] = j
          /\ i = 1 /\ r.stage = "answered" /\ r.answer.kind = "record" => IsSettled(r.answer.state)

Tells(w, j) == \E i \in 1 .. Len(w) : w[i].job = j /\ w[i].kind \in Terminal

\* A due run is there, and an end that has passed the normalizer shows.
StillThere ==
  \A j \in due :
    /\ Has(store, j) /\ j \notin store.lost
    /\ j \in terminalJobs => store.entry[j].status \in Terminal

SettlingOf(j) == Asks(rec, j) \/ Tells(wire, j) \/ j \in hydrating
Settling ==
  \A j \in due : socket = "up" /\ IsOpen(store, j) /\ IsSettled(server[j].state) => SettlingOf(j)

DueInv == KeptInv /\ hydrating \subseteq terminalJobs /\ StillThere /\ Settling

\* Only a connect makes runs due, and they are open.
LEMMA DueIs ==
  ASSUME KeptInv, StillThere, [Next]_vars
  PROVE  /\ \A j \in due' : Has(store', j) /\ j \notin store'.lost
         /\ Connect \/ due' \subseteq due
<1>1. /\ \A k \in store'.lost \ store.lost : k \notin due'
      /\ Kept(server', post', store')
  BY NextGoes DEF Goes
<1>2. ASSUME StoreIs(store') PROVE due' \subseteq due /\ \A j \in due' : Has(store', j)
  BY <1>2 DEF StoreIs
<1>3. ASSUME store' = store, due' \subseteq due PROVE \A j \in due' : Has(store', j)
  BY <1>3 DEF StillThere
<1>4. \/ StoreIs(store') \/ (store' = store /\ due' \subseteq due)
      \/ ReadMissing \/ Connect
  <2>1. CASE UNCHANGED vars
    BY <2>1 DEF vars
  <2>2. ASSUME NEW j \in Jobs, Backend(j) PROVE store' = store /\ due' = due
    BY <2>2 DEF Backend, Submit, Start, NodeStarts, NodeEnds, Finish, Persist, Break, Chatter, Forget,
         Recover, Works
  <2>3. ASSUME NEW j \in Jobs, InstallRun(j) PROVE StoreIs(store')
    BY <2>3 DEF InstallRun, StoreIs
  <2>4. ASSUME NEW j \in Jobs, PeerInstallsRun(j) PROVE store' = store /\ due' = due
    BY <2>4 DEF PeerInstallsRun
  <2>5. ASSUME NEW j \in Jobs, HydrateCompleted(j)
        PROVE  StoreIs(store') \/ (store' = store /\ due' \subseteq due)
    BY <2>5 DEF HydrateCompleted, StoreIs
  <2>6. ASSUME NEW j \in Jobs, OpenView(j) \/ CloseView(j) PROVE StoreIs(store')
    BY <2>6 DEF OpenView, CloseView, StoreIs
  <2>7. CASE Deliver \/ DeliverEcho
    BY <2>7 DEF Deliver, DeliverEcho, StoreIs
  <2>8. CASE Drop \/ AnswerRead \/ SkipFailedRead
    BY <2>8 DEF Drop, AnswerRead, SkipFailedRead
  <2>9. CASE ReplayJob
    BY <2>9 DEF ReplayJob, StoreIs
  <2> QED
    BY <2>1, <2>2, <2>3, <2>4, <2>5, <2>6, <2>7, <2>8, <2>9 DEF Next, Reconcile
<1>5. CASE ReadMissing
  <2>1. Head(rec.open) \in Jobs
    BY <1>5, AskedRun DEF ReadMissing, Answered, KeptInv, VerdictInv
  <2>2. due' \subseteq due /\ due \subseteq Jobs
        /\ (store' = store \/ store' = MarkLost(store, Head(rec.open)))
    BY <1>5 DEF ReadMissing, KeptInv, Simple
  <2>3. \A k \in Jobs : Has(MarkLost(store, Head(rec.open)), k) <=> Has(store, k)
    BY <2>1, MarkLostSound DEF KeptInv, Kept
  <2>4. \A j \in due' : Has(store', j)
    BY <2>2, <2>3 DEF StillThere
  <2> QED
    BY <1>1, <2>2, <2>4 DEF StillThere
<1>6. CASE Connect
  <2>1. store' = store /\ \A j \in due' : j \in Jobs /\ IsOpen(store, j)
    BY <1>6 DEF Connect
  <2> QED
    BY <1>6, <2>1 DEF IsOpen, Has, KeptInv, Kept, Sound
<1>7. CASE StoreIs(store') \/ (store' = store /\ due' \subseteq due)
  BY <1>1, <1>2, <1>3, <1>7 DEF StillThere
<1> QED
  BY <1>4, <1>5, <1>6, <1>7

\* A due run that shows an end keeps it, and one that was not open stays so.
LEMMA DueStays ==
  ASSUME KeptInv, StillThere, [Next]_vars, NEW j \in due', j \in due
  PROVE  /\ IsOpen(store', j) => IsOpen(store, j)
         /\ store.entry[j].status \in Terminal => store'.entry[j].status = store.entry[j].status
<1>1. j \in Jobs /\ Has(store, j) /\ j \notin store.lost /\ Has(store', j)
  BY DueIs DEF KeptInv, Simple, StillThere
<1>2. Final(store, store') /\ ArtifactsStay(store, store')
  BY NextVerdict, NextGoes DEF KeptInv, Goes
<1>3. store.entry[j].status \in Terminal => store'.entry[j].status = store.entry[j].status
  BY <1>1, <1>2 DEF Final, Authoritative, Same
<1>4. store.entry[j].hydrated => store'.entry[j].hydrated
  BY <1>1, <1>2 DEF ArtifactsStay
<1>5. store.entry[j].status \in Terminal \cup {"queued", "running"}
  <2>1. store.entry[j] \in Entry
    BY <1>1, EntryOf DEF KeptInv, Kept, Sound
  <2> QED
    BY <1>1, <2>1 DEF Entry, Statuses, Has
<1> QED
  BY <1>3, <1>4, <1>5 DEF IsOpen, Terminal

\* A pass that begins asks for every run that is open.
LEMMA PassAsks ==
  ASSUME NEW s, Sound(s), NEW j \in Jobs, IsOpen(s, j)
  PROVE  Asks(Pass(s), j)
<1> DEFINE open == OpenRuns(s)
<1>1. Contains(s.order, j) /\ s.order \in Seq(Jobs)
  BY DEF Sound, Store, IsOpen, Has
<1>2. Contains(open, j)
  BY <1>1, ContainsAmong DEF OpenRuns
<1>3. open \in Seq(Jobs)
  BY <1>1, AmongKeeps DEF OpenRuns
<1> HIDE DEF open
<1>4. PICK i \in 1 .. Len(open) : open[i] = j
  BY <1>2 DEF Contains
<1>5. open # <<>>
  BY <1>3, <1>4
<1>6. Pass(s) = [Idle EXCEPT !.stage = "asked", !.open = open]
  BY <1>5 DEF Pass, open
<1>7. Pass(s).stage = "asked" /\ Pass(s).open = open /\ Pass(s).current
  BY <1>6 DEF Idle
<1> QED
  BY <1>4, <1>7 DEF Asks

\* After a read the pass asks for the rest, or begins again.
LEMMA NextAsks ==
  ASSUME NEW sv, HonestAnswer(sv, rec), rec.stage # "idle", NEW s, Sound(s), NEW j \in Jobs, IsOpen(s, j),
         rec.current => \E i \in 2 .. Len(rec.open) : rec.open[i] = j
  PROVE  Asks(NextRead(s), j)
<1>1. CASE ~rec.current
  BY <1>1, PassAsks DEF NextRead
<1>2. CASE rec.current
  <2>1. rec.open \in Seq(Jobs) /\ rec.open # <<>>
    BY DEF HonestAnswer
  <2>2. PICK i \in 2 .. Len(rec.open) : rec.open[i] = j
    BY <1>2
  <2>4. /\ Tail(rec.open) \in Seq(Jobs) /\ Len(Tail(rec.open)) = Len(rec.open) - 1
        /\ \A k \in 1 .. Len(Tail(rec.open)) : Tail(rec.open)[k] = rec.open[k + 1]
    BY <2>1
  <2>5. i - 1 \in 1 .. Len(Tail(rec.open)) /\ Tail(rec.open)[i - 1] = j /\ Len(rec.open) # 1
    BY <2>1, <2>2, <2>4
  <2>6. NextRead(s) = [Idle EXCEPT !.stage = "asked", !.open = Tail(rec.open)]
    BY <1>2, <2>5 DEF NextRead
  <2>7. NextRead(s).stage = "asked" /\ NextRead(s).open = Tail(rec.open)
    BY <2>6 DEF Idle
  <2> QED
    BY <2>5, <2>7 DEF Asks
<1> QED
  BY <1>1, <1>2

LEMMA TellsMore ==
  ASSUME NEW w \in Seq(Message), NEW m \in Message
  PROVE  /\ \A k : Tells(w, k) => Tells(Append(w, m), k)
         /\ m.kind \in Terminal => Tells(Append(w, m), m.job)
<1> DEFINE t == Append(w, m)
<1>1. /\ Len(t) = Len(w) + 1 /\ t[Len(w) + 1] = m /\ Len(w) \in Nat
      /\ \A i \in 1 .. Len(w) : t[i] = w[i]
  BY AppendProperties
<1> HIDE DEF t
<1>2. Len(w) + 1 \in 1 .. Len(t) /\ 1 .. Len(w) \subseteq 1 .. Len(t)
  BY <1>1
<1>3. ASSUME NEW k, Tells(w, k) PROVE Tells(t, k)
  BY <1>1, <1>2, <1>3 DEF Tells
<1>4. m.kind \in Terminal => Tells(t, m.job)
  BY <1>1, <1>2 DEF Tells
<1> QED
  BY <1>3, <1>4 DEF t

\* While the socket is up, an end is told when it comes.
LEMMA BackendTells ==
  ASSUME KeptInv, NEW j \in Jobs, Backend(j)
  PROVE  /\ UNCHANGED <<socket, rec, hydrating, store, due, terminalJobs>>
         /\ \A k \in Jobs : Tells(wire, k) => Tells(wire', k)
         /\ \A k \in Jobs : socket = "up" /\ IsSettled(server'[k].state) =>
              IsSettled(server[k].state) \/ Tells(wire', k)
<1>1. server \in Server /\ wire \in Seq(Message)
  BY DEF KeptInv, VerdictInv, HonestWay
<1>2. UNCHANGED <<socket, rec, hydrating, store, due, terminalJobs>>
  BY DEF Backend, Submit, Start, NodeStarts, NodeEnds, Finish, Persist, Break, Chatter, Forget,
       Recover, Works, wireVars
<1>3. \A k \in Jobs : k # j => server'[k] = server[k]
  BY <1>1 DEF Backend, Submit, Start, NodeStarts, NodeEnds, Finish, Persist, Break, Chatter, Forget,
       Recover, Server
<1>4. ASSUME NEW m \in Message, wire' = wire \/ wire' = Append(wire, m)
      PROVE  \A k \in Jobs : Tells(wire, k) => Tells(wire', k)
  BY <1>1, <1>4, TellsMore
<1>5. ASSUME NEW kind \in Terminal, Emit(Event(j, kind)), IsSettled(server'[j].state)
      PROVE  /\ \A k \in Jobs : Tells(wire, k) => Tells(wire', k)
             /\ \A k \in Jobs : socket = "up" /\ IsSettled(server'[k].state) =>
                  IsSettled(server[k].state) \/ Tells(wire', k)
  <2>1. Event(j, kind) \in Message /\ Event(j, kind).job = j /\ Event(j, kind).kind = kind
    BY DEF Event, Message, Kinds, Nodes
  <2>2. wire' = wire \/ wire' = Append(wire, Event(j, kind))
    BY <1>5 DEF Emit
  <2>3. socket = "up" => Tells(wire', j)
    BY <1>1, <1>5, <2>1, TellsMore DEF Emit
  <2> QED
    BY <1>3, <1>4, <2>1, <2>2, <2>3
<1>6. CASE Persist(j)
  <2>1. Emit(Event(j, "completed")) /\ IsSettled(server'[j].state)
    BY <1>1, <1>6 DEF Persist, Server, IsSettled
  <2> QED
    BY <1>2, <1>5, <2>1 DEF Terminal
<1>7. ASSUME NEW state \in {"failed", "cancelled"}, Break(j, state)
      PROVE  /\ \A k \in Jobs : Tells(wire, k) => Tells(wire', k)
             /\ \A k \in Jobs : socket = "up" /\ IsSettled(server'[k].state) =>
                  IsSettled(server[k].state) \/ Tells(wire', k)
  <2>1. Emit(Event(j, StatusOf(state))) /\ IsSettled(server'[j].state) /\ StatusOf(state) \in Terminal
    BY <1>1, <1>7 DEF Break, Server, IsSettled, StatusOf, Terminal
  <2> QED
    BY <1>5, <2>1
<1>8. CASE \/ Submit(j) \/ Start(j) \/ NodeStarts(j) \/ NodeEnds(j) \/ Finish(j)
           \/ Chatter(j) \/ Forget(j) \/ Recover(j)
  <2>1. IsSettled(server'[j].state) => IsSettled(server[j].state)
    BY <1>1, <1>8 DEF Submit, Start, NodeStarts, NodeEnds, Finish, Chatter, Forget, Recover,
         Server, IsSettled
  <2>2. PICK m \in Message : wire' = wire \/ wire' = Append(wire, m)
    <3>1. /\ Event(j, "started") \in Message /\ Event(j, "run_finished") \in Message
          /\ Event(j, "output") \in Message /\ NodeEvent(j, "nodeStates", "running") \in Message
          /\ NodeEvent(j, "nodeStates", "done") \in Message
      BY DEF Event, NodeEvent, Message, Kinds, Nodes
    <3>2. CASE Submit(j) \/ Forget(j) \/ Recover(j)
      BY <3>1, <3>2 DEF Submit, Forget, Recover, wireVars
    <3>3. CASE Start(j)
      BY <3>1, <3>3 DEF Start, Emit
    <3>4. CASE NodeStarts(j)
      BY <3>1, <3>4 DEF NodeStarts, Emit
    <3>5. CASE NodeEnds(j)
      BY <3>1, <3>5 DEF NodeEnds, Emit
    <3>6. CASE Finish(j)
      BY <3>1, <3>6 DEF Finish, Emit
    <3>7. CASE Chatter(j)
      BY <3>1, <3>7 DEF Chatter
    <3> QED
      BY <1>8, <3>2, <3>3, <3>4, <3>5, <3>6, <3>7
  <2> QED
    BY <1>2, <1>3, <1>4, <2>1, <2>2
<1> QED
  BY <1>2, <1>6, <1>7, <1>8 DEF Backend


\* Which terminal events pass the normalizer, and what they do.
LEMMA PassedShows ==
  ASSUME KeptInv, [Next]_vars
  PROVE  /\ terminalJobs \subseteq terminalJobs'
         /\ ~Connect => \A j \in terminalJobs' \ terminalJobs :
              j \in Jobs /\ (Has(store', j) => store'.entry[j].status \in Terminal)
         /\ Connect => terminalJobs' = terminalJobs
<1>1. CASE Deliver
  <2> DEFINE e == Normalized(Head(wire))
  <2>1. Head(wire) \in Message
    BY <1>1, TailWay DEF Deliver, KeptInv, VerdictInv
  <2>2. e.job \in Jobs /\ e.node \in Nodes
    BY <2>1 DEF Message, Normalized, Event, Nodes
  <2>3. terminalJobs' = Passed(e) /\ (~Silenced(e) => store' = Apply(store, e))
    BY <1>1 DEF Deliver, StoreIs
  <2> HIDE DEF e
  <2>4. e.kind \in Terminal /\ Has(Apply(store, e), e.job) => Authoritative(Apply(store, e), e.job)
    BY <2>2, ApplySound DEF KeptInv, Kept
  <2>5. \A j \in terminalJobs' \ terminalJobs : j = e.job /\ e.kind \in Terminal /\ ~Silenced(e)
    BY <2>3 DEF Passed, Silenced
  <2>6. terminalJobs \subseteq terminalJobs'
    BY <2>3 DEF Passed
  <2>7. \A j \in terminalJobs' \ terminalJobs :
          j \in Jobs /\ (Has(store', j) => store'.entry[j].status \in Terminal)
    BY <2>2, <2>3, <2>4, <2>5 DEF Authoritative
  <2> QED
    BY <1>1, <2>6, <2>7 DEF Deliver, Connect
<1>2. CASE ReplayJob
  <2> DEFINE j == Head(rec.open)
             a == rec.answer
             node == NodeEvent(j, "snapshot", a.node)
             end == Event(j, StatusOf(a.state))
             s == IF a.node = "none" THEN store ELSE Apply(store, node)
             t == IF end.kind = "none" \/ Silenced(end) THEN s ELSE Apply(s, end)
             u == IF a.state = "completed" THEN HydrateArtifacts(t, j) ELSE t
  <2>1. store' = u /\ terminalJobs' = Passed(end)
    BY <1>2 DEF ReplayJob, StoreIs
  <2>2. /\ node.job = j /\ node.kind = "snapshot" /\ node.node = a.node
        /\ end.job = j /\ end.kind = StatusOf(a.state) /\ end.node = "none"
    BY DEF NodeEvent, Event
  <2>3. a \in Answer /\ j \in Jobs
    BY <1>2, AskedRun DEF ReplayJob, Answered, HonestAnswer, KeptInv, VerdictInv
  <2>4. s = store \/ s = Apply(store, node)
    OBVIOUS
  <2>5. ~(end.kind = "none" \/ Silenced(end)) => t = Apply(s, end)
    OBVIOUS
  <2>6. u = t \/ u = HydrateArtifacts(t, j)
    OBVIOUS
  <2>14. t = s \/ t = Apply(s, end)
    OBVIOUS
  <2> HIDE DEF node, end, s, t, u
  <2>7. Sound(s) /\ Planned(s) /\ Roomy(s)
    BY <2>2, <2>3, <2>4, ApplySound DEF KeptInv, Kept, Answer
  <2>8. /\ Sound(Apply(s, end)) /\ Planned(Apply(s, end)) /\ Roomy(Apply(s, end))
        /\ end.kind \in Terminal /\ Has(Apply(s, end), j) => Authoritative(Apply(s, end), j)
    BY <2>2, <2>3, <2>7, ApplySound DEF Nodes
  <2>9. ASSUME end.kind \in Terminal, ~Silenced(end), Has(u, j) PROVE u.entry[j].status \in Terminal
    <3>1. t = Apply(s, end)
      BY <2>5, <2>9 DEF Terminal
    <3>2. HydrateArtifacts(t, j).entry[j].status = t.entry[j].status
      BY <2>3, <2>8, <3>1, HydrateSound
    <3>3. u.entry[j].status = t.entry[j].status
      BY <2>6, <3>2
    <3> QED
      BY <2>8, <2>9, <3>1, <3>3 DEF Has, Authoritative
  <2>10. \A k \in terminalJobs' \ terminalJobs : k = j /\ end.kind \in Terminal /\ ~Silenced(end)
    BY <2>1, <2>2 DEF Passed, Silenced
  <2>11. terminalJobs \subseteq terminalJobs'
    BY <2>1 DEF Passed
  <2>12. \A k \in terminalJobs' \ terminalJobs :
           k \in Jobs /\ (Has(store', k) => store'.entry[k].status \in Terminal)
    BY <2>1, <2>3, <2>9, <2>10
  <2>13. ~Connect \/ terminalJobs' = terminalJobs
    BY DEF Connect
  <2> QED
    BY <2>11, <2>12, <2>13
<1>3. CASE ~(Deliver \/ ReplayJob)
  <2>1. terminalJobs' = terminalJobs
    <3>1. ASSUME NEW j \in Jobs, Backend(j) PROVE terminalJobs' = terminalJobs
      BY <3>1, BackendTells DEF KeptInv
    <3> QED
      BY <1>3, <3>1 DEF Next, InstallRun, PeerInstallsRun, HydrateCompleted, OpenView, CloseView,
         DeliverEcho, Reconcile, AnswerRead, SkipFailedRead, ReadMissing, Drop, Connect, vars
  <2> QED
    BY <2>1
<1> QED
  BY <1>1, <1>2, <1>3

LEMMA ShownStays ==
  ASSUME DueInv, [Next]_vars
  PROVE  StillThere' /\ hydrating' \subseteq terminalJobs'
<1>1. /\ \A j \in due' : Has(store', j) /\ j \notin store'.lost
      /\ Connect \/ due' \subseteq due
  BY DueIs DEF DueInv
<1>2. ASSUME NEW j \in due', j \in terminalJobs' PROVE store'.entry[j].status \in Terminal
  <2>1. CASE Connect
    BY <1>2, <2>1, PassedShows DEF Connect, DueInv, Terminal
  <2>2. CASE ~Connect /\ j \in terminalJobs
    <3>1. store.entry[j].status \in Terminal /\ j \in due
      BY <1>1, <1>2, <2>2 DEF DueInv, StillThere
    <3> QED
      BY <3>1, DueStays DEF DueInv
  <2>3. CASE ~Connect /\ j \notin terminalJobs
    BY <1>1, <1>2, <2>3, PassedShows DEF DueInv
  <2> QED
    BY <2>1, <2>2, <2>3
<1>3. hydrating' \subseteq terminalJobs'
  <2>1. terminalJobs \subseteq terminalJobs'
    BY PassedShows DEF DueInv
  <2>2. hydrating' \subseteq hydrating \/ Deliver
    <3>1. ASSUME NEW j \in Jobs, Backend(j) PROVE hydrating' = hydrating
      BY <3>1, BackendTells DEF DueInv
    <3> QED
      BY <3>1 DEF Next, InstallRun, PeerInstallsRun, HydrateCompleted, OpenView, CloseView,
         DeliverEcho, Reconcile, AnswerRead, SkipFailedRead, ReadMissing, ReplayJob, Answered, Drop,
         Connect, vars
  <2>3. CASE Deliver
    <3> DEFINE m == Head(wire)
    <3>1. /\ terminalJobs' = Passed(Normalized(m))
          /\ hydrating' = IF m.kind = "completed" THEN hydrating \cup {m.job} ELSE hydrating
      BY <2>3 DEF Deliver
    <3>2. m.kind = "completed" => Passed(Normalized(m)) = terminalJobs \cup {m.job}
      BY DEF Normalized, Passed, Terminal
    <3> HIDE DEF m
    <3> QED
      BY <2>1, <3>1, <3>2 DEF DueInv
  <2> QED
    BY <2>1, <2>2, <2>3 DEF DueInv
<1> QED
  BY <1>1, <1>2, <1>3 DEF StillThere

\* A due run that is open, once the normalizer has passed its end, completed
\* and waits for its outputs.
LEMMA OpenAfterEnd ==
  ASSUME DueInv, [Next]_vars, NEW j \in due', j \in terminalJobs', IsOpen(store', j)
  PROVE  /\ store'.entry[j].status = "completed" /\ ~store'.entry[j].hydrated
         /\ OutcomeIn(server', j) = "completed"
<1>1. j \in Jobs /\ j \notin store'.lost /\ store'.entry[j].status \in Terminal
  BY ShownStays, NextGoes DEF DueInv, StillThere, Goes, Simple
<1>2. store'.entry[j].status = "completed" /\ ~store'.entry[j].hydrated
  BY <1>1 DEF IsOpen, Terminal
<1>3. Authoritative(store', j)
  BY <1>1 DEF Authoritative
<1>4. Trusted(server', store')
  BY NextVerdict DEF DueInv, KeptInv, VerdictInv
<1> QED
  BY <1>1, <1>2, <1>3, <1>4 DEF Trusted

\* A run that is still due and open after a step.
OpenDue(j) == j \in due' /\ socket' = "up" /\ IsOpen(store', j) /\ IsSettled(server'[j].state)

LEMMA WasSettling ==
  ASSUME DueInv, [Next]_vars, ~Connect, NEW j, OpenDue(j), server' = server, socket' = socket
  PROVE  j \in Jobs /\ SettlingOf(j) /\ IsSettled(server[j].state)
<1>1. j \in due /\ j \in due'
  BY DueIs DEF DueInv, OpenDue
<1>2. IsOpen(store, j) /\ j \in Jobs
  BY <1>1, DueStays DEF DueInv, KeptInv, Simple, OpenDue
<1> QED
  BY <1>1, <1>2 DEF DueInv, Settling, OpenDue

LEMMA DeliverSettles ==
  ASSUME DueInv, [Next]_vars, Deliver, NEW j, OpenDue(j)
  PROVE  SettlingOf(j)'
<1> DEFINE m == Head(wire)
<1>1. j \in Jobs /\ SettlingOf(j) /\ IsSettled(server[j].state) /\ server' = server /\ rec' = rec
  BY WasSettling DEF Deliver, Connect, serverVars
<1>2. wire \in Seq(Message) /\ wire # <<>> /\ m \in Message /\ Honest(server, m)
  BY TailWay DEF Deliver, DueInv, KeptInv, VerdictInv, HonestWay
<1>3. hydrating \subseteq hydrating' /\ (m.kind = "completed" => m.job \in hydrating')
  BY DEF Deliver
<1>4. terminalJobs' = Passed(Normalized(m))
  BY DEF Deliver
<1>5. CASE Asks(rec, j) \/ j \in hydrating
  BY <1>1, <1>3, <1>5 DEF SettlingOf
<1>6. CASE Tells(wire, j)
  <2>1. PICK i \in 1 .. Len(wire) : wire[i].job = j /\ wire[i].kind \in Terminal
    BY <1>6 DEF Tells
  <2>2. /\ wire' = Tail(wire) /\ Len(wire') = Len(wire) - 1 /\ Len(wire) \in Nat /\ m = wire[1]
        /\ \A k \in 1 .. Len(wire') : wire'[k] = wire[k + 1]
    BY <1>2 DEF Deliver
  <2>3. CASE i # 1
    <3>1. i - 1 \in 1 .. Len(wire') /\ wire'[i - 1] = wire[i]
      BY <2>2, <2>3
    <3> QED
      BY <2>1, <3>1 DEF SettlingOf, Tells
  <2>4. CASE i = 1
    <3>1. m.job = j /\ m.kind \in Terminal
      BY <2>1, <2>2, <2>4
    <3> HIDE DEF m
    <3>2. Normalized(m) = m
      BY <3>1 DEF Normalized, Terminal
    <3>3. j \in terminalJobs'
      BY <1>4, <3>1, <3>2 DEF Passed
    <3>4. OutcomeIn(server', j) = "completed"
      BY <3>3, OpenAfterEnd DEF OpenDue
    <3>5. m.kind = OutcomeIn(server, j)
      BY <1>2, <3>1, <3>2 DEF Honest
    <3>6. j \in hydrating'
      BY <1>1, <1>3, <3>1, <3>4, <3>5
    <3> QED
      BY <3>6 DEF SettlingOf
  <2> QED
    BY <2>3, <2>4
<1> QED
  BY <1>1, <1>5, <1>6 DEF SettlingOf

LEMMA HydrateSettles ==
  ASSUME DueInv, [Next]_vars, NEW h \in Jobs, HydrateCompleted(h), NEW j, OpenDue(j)
  PROVE  SettlingOf(j)'
<1>1. /\ j \in Jobs /\ SettlingOf(j) /\ rec' = rec /\ wire' = wire
      /\ hydrating' = hydrating \ {h} /\ h \in hydrating
  BY WasSettling DEF HydrateCompleted, Connect, serverVars, wireVars
<1>2. CASE j # h
  BY <1>1, <1>2 DEF SettlingOf
<1>3. CASE j = h
  <2>1. j \in due' /\ IsOpen(store', j) /\ j \in terminalJobs'
    <3>1. terminalJobs' = terminalJobs
      BY DEF HydrateCompleted
    <3> QED
      BY <1>1, <1>3, <3>1 DEF DueInv, OpenDue
  <2>2. ~store'.entry[j].hydrated /\ Has(store', j)
    BY <2>1, OpenAfterEnd DEF Has
  <2>3. store' = HydrateArtifacts(store, j)
    BY <1>3, <2>1 DEF HydrateCompleted, StoreIs
  <2>4. Has(store, j) => HydrateArtifacts(store, j).entry[j].hydrated
    BY <1>1, HydrateSound DEF DueInv, KeptInv, Kept
  <2>5. Has(store', j) => Has(store, j)
    BY <1>1, <2>3, HydrateFollows DEF DueInv, KeptInv, VerdictInv, Trusted, Has
  <2> QED
    BY <2>2, <2>3, <2>4, <2>5
<1> QED
  BY <1>2, <1>3

LEMMA ReadSettles ==
  ASSUME DueInv, [Next]_vars, AnswerRead, NEW j, OpenDue(j)
  PROVE  SettlingOf(j)'
<1>1. /\ j \in Jobs /\ SettlingOf(j) /\ IsSettled(server[j].state)
      /\ server' = server /\ wire' = wire /\ hydrating' = hydrating
  BY WasSettling DEF AnswerRead, Connect, serverVars, wireVars
<1>2. CASE Tells(wire, j) \/ j \in hydrating
  BY <1>1, <1>2 DEF SettlingOf
<1>3. CASE Asks(rec, j)
  <2>1. /\ rec.answer \in Answer /\ rec.open \in Seq(Jobs) /\ rec.open # <<>>
        /\ rec = [stage |-> rec.stage, open |-> rec.open, answer |-> rec.answer, current |-> rec.current]
    BY <1>3 DEF DueInv, KeptInv, VerdictInv, HonestAnswer, Asks
  <2>2. ASSUME NEW a, rec' = [rec EXCEPT !.stage = "answered", !.answer = a],
               Head(rec.open) = j /\ a.kind = "record" => IsSettled(a.state)
        PROVE  Asks(rec', j)
    <3>1. rec'.stage = "answered" /\ rec'.open = rec.open /\ rec'.answer = a /\ rec'.current = rec.current
      BY <2>1, <2>2
    <3>2. rec.open[1] = Head(rec.open)
      BY <2>1
    <3> QED
      BY <1>3, <2>2, <3>1, <3>2 DEF Asks
  <2>3. ASSUME rec' = [rec EXCEPT !.stage = "answered", !.answer.kind = "failed"]
        PROVE  Asks(rec', j)
    <3> DEFINE a == [rec.answer EXCEPT !.kind = "failed"]
    <3>1. rec' = [rec EXCEPT !.stage = "answered", !.answer = a] /\ a.kind = "failed"
      BY <2>1, <2>3 DEF Answer
    <3> QED
      BY <2>2, <3>1
  <2>4. ASSUME NEW a, rec' = [rec EXCEPT !.stage = "answered", !.answer = a],
               a = [NoAnswer EXCEPT !.kind = "missing"] \/ a = RecordOf(Head(rec.open))
        PROVE  Asks(rec', j)
    <3>1. Head(rec.open) = j /\ a.kind = "record" => IsSettled(a.state)
      BY <1>1, <2>4 DEF NoAnswer, RecordOf, IsSettled
    <3> QED
      BY <2>2, <2>4, <3>1
  <2>5. Asks(rec', j)
    BY <2>3, <2>4 DEF AnswerRead
  <2> QED
    BY <2>5 DEF SettlingOf
<1> QED
  BY <1>1, <1>2, <1>3 DEF SettlingOf

\* The run that was asked for is settled, given up for missing or excepted; the
\* others are asked for as before.
LEMMA PassSettles ==
  ASSUME DueInv, [Next]_vars, SkipFailedRead \/ ReadMissing \/ ReplayJob, NEW j, OpenDue(j)
  PROVE  SettlingOf(j)'
<1>1. /\ j \in Jobs /\ SettlingOf(j) /\ IsSettled(server[j].state)
      /\ server' = server /\ wire' = wire /\ hydrating' = hydrating
      /\ rec' = NextRead(store') /\ rec.stage = "answered"
  BY WasSettling DEF SkipFailedRead, ReadMissing, ReplayJob, Answered, GoOn, Connect, serverVars, wireVars
<1>2. CASE Tells(wire, j) \/ j \in hydrating
  BY <1>1, <1>2 DEF SettlingOf
<1>3. CASE Asks(rec, j)
  <2>1. rec.current => \E i \in 2 .. Len(rec.open) : rec.open[i] = j
    <3> SUFFICES ASSUME rec.current PROVE \E i \in 2 .. Len(rec.open) : rec.open[i] = j
      OBVIOUS
    <3>1. rec.open \in Seq(Jobs) /\ rec.open # <<>>
      BY <1>1 DEF DueInv, KeptInv, VerdictInv, HonestAnswer
    <3>2. PICK i \in 1 .. Len(rec.open) :
            /\ rec.open[i] = j
            /\ i = 1 /\ rec.answer.kind = "record" => IsSettled(rec.answer.state)
      BY <1>1, <1>3 DEF Asks
    <3>3. CASE i = 1
      <4>1. Head(rec.open) = j
        BY <3>1, <3>2, <3>3
      <4>2. ReplayJob
        BY <4>1 DEF SkipFailedRead, ReadMissing, OpenDue
      <4> DEFINE a == rec.answer
                 end == Event(j, StatusOf(a.state))
                 s == IF a.node = "none" THEN store ELSE Apply(store, NodeEvent(j, "snapshot", a.node))
                 t == IF end.kind = "none" \/ Silenced(end) THEN s ELSE Apply(s, end)
      <4>3. a.kind = "record" /\ IsSettled(a.state) /\ server[j].state = a.state
        <5>1. a.kind = "record"
          BY <4>2 DEF ReplayJob, Answered
        <5>2. IsSettled(a.state)
          BY <3>2, <3>3, <5>1
        <5> QED
          BY <1>1, <4>1, <5>1, <5>2 DEF DueInv, KeptInv, VerdictInv, HonestAnswer, IsSettled
      <4>4. store' = (IF a.state = "completed" THEN HydrateArtifacts(t, j) ELSE t)
            /\ terminalJobs' = Passed(end)
        BY <4>1, <4>2 DEF ReplayJob, StoreIs
      <4>5. end.kind \in Terminal /\ end.job = j
        BY <4>3 DEF Event, StatusOf, IsSettled, Terminal
      <4>6. t \in Store
        <5>1. Sound(store) /\ Planned(store) /\ Roomy(store) /\ a.node \in Nodes
          BY DEF DueInv, KeptInv, Kept, VerdictInv, HonestAnswer, Answer
        <5>2. s \in Store
          <6> DEFINE e == NodeEvent(j, "snapshot", a.node)
          <6>1. e.job \in Jobs /\ e.node \in Nodes
            BY <1>1, <5>1 DEF NodeEvent
          <6> HIDE DEF e
          <6>2. Apply(store, e) \in Store
            BY <5>1, <6>1, ApplySound DEF Sound
          <6> QED
            BY <5>1, <6>2 DEF e, Sound
        <5> HIDE DEF s
        <5>3. end.job \in Jobs /\ end.node \in Nodes
          BY <1>1 DEF Event, Nodes
        <5> HIDE DEF end
        <5>4. Apply(s, end) \in Store
          BY <5>2, <5>3, ApplyFollows DEF Follows
        <5> QED
          BY <5>2, <5>4
      <4> HIDE DEF end, s, t
      <4>7. j \in terminalJobs'
        BY <4>4, <4>5 DEF Passed
      <4>8. ~store'.entry[j].hydrated /\ OutcomeIn(server', j) = "completed" /\ Has(store', j)
        BY <4>7, OpenAfterEnd DEF OpenDue, Has
      <4>9. a.state = "completed"
        BY <1>1, <4>3, <4>8 DEF OutcomeIn, StatusOf, IsSettled
      <4>10. HydrateArtifacts(t, j).entry[j].status = t.entry[j].status
        BY <1>1, <4>6, HydrateFollows
      <4>11. store' = HydrateArtifacts(t, j) /\ Has(t, j)
        BY <4>4, <4>8, <4>9, <4>10 DEF Has
      <4>12. HydrateArtifacts(t, j).entry[j].hydrated
        BY <1>1, <4>6, <4>11 DEF HydrateArtifacts, Store, Entry
      <4> QED
        BY <4>8, <4>11, <4>12
    <3>4. CASE i # 1
      BY <3>1, <3>2, <3>4
    <3> QED
      BY <3>3, <3>4
  <2>2. Sound(store') /\ IsOpen(store', j)
    BY NextGoes DEF DueInv, Goes, Kept, OpenDue
  <2>3. HonestAnswer(server, rec)
    BY DEF DueInv, KeptInv, VerdictInv
  <2>4. Asks(NextRead(store'), j)
    BY <1>1, <2>1, <2>2, <2>3, NextAsks
  <2> QED
    BY <1>1, <2>4 DEF SettlingOf
<1> QED
  BY <1>1, <1>2, <1>3 DEF SettlingOf

LEMMA NextSettles ==
  ASSUME DueInv, [Next]_vars
  PROVE  Settling'
<1> SUFFICES ASSUME NEW j, OpenDue(j) PROVE SettlingOf(j)'
  BY DEF Settling, OpenDue
<1>1. ASSUME UNCHANGED <<server, socket, wire, hydrating, rec>>, ~Connect PROVE SettlingOf(j)'
  <2>1. SettlingOf(j)
    BY <1>1, WasSettling
  <2> QED
    BY <1>1, <2>1 DEF SettlingOf
<1>2. CASE UNCHANGED vars \/ DeliverEcho
  <2>1. UNCHANGED <<server, socket, wire, hydrating, rec>>
    BY <1>2 DEF vars, serverVars, wireVars, DeliverEcho
  <2>2. CASE ~Connect
    BY <1>1, <2>1, <2>2
  <2>3. CASE Connect
    BY <2>1, <2>3 DEF Connect
  <2> QED
    BY <2>2, <2>3
<1>3. ASSUME NEW k \in Jobs, InstallRun(k) \/ PeerInstallsRun(k) \/ OpenView(k) \/ CloseView(k)
      PROVE  SettlingOf(j)'
  <2>1. UNCHANGED <<server, socket, wire, hydrating, rec>>
    BY <1>3 DEF InstallRun, PeerInstallsRun, OpenView, CloseView, serverVars, wireVars
  <2> QED
    BY <1>1, <2>1 DEF Connect
<1>4. ASSUME NEW k \in Jobs, Backend(k) PROVE SettlingOf(j)'
  <2>1. /\ UNCHANGED <<socket, rec, hydrating, store, due, terminalJobs>>
        /\ \A i \in Jobs : Tells(wire, i) => Tells(wire', i)
        /\ \A i \in Jobs : socket = "up" /\ IsSettled(server'[i].state) =>
              IsSettled(server[i].state) \/ Tells(wire', i)
    BY <1>4, BackendTells DEF DueInv
  <2>2. j \in due /\ j \in Jobs /\ IsOpen(store, j) /\ socket = "up" /\ IsSettled(server'[j].state)
    BY <2>1 DEF OpenDue, DueInv, KeptInv, Simple
  <2>3. CASE Tells(wire', j)
    BY <2>3 DEF SettlingOf
  <2>4. CASE IsSettled(server[j].state)
    <3>1. SettlingOf(j)
      BY <2>2, <2>4 DEF DueInv, Settling
    <3> QED
      BY <2>1, <2>2, <3>1 DEF SettlingOf
  <2> QED
    BY <2>1, <2>2, <2>3, <2>4
<1>5. CASE Connect
  <2>1. IsOpen(store, j) /\ j \in Jobs /\ Sound(store)
    BY <1>5 DEF OpenDue, Connect, DueInv, KeptInv, Kept
  <2>2. rec' = IF rec.stage = "idle" THEN Pass(store) ELSE [rec EXCEPT !.current = FALSE]
    BY <1>5 DEF Connect
  <2>3. CASE rec.stage = "idle"
    BY <2>1, <2>2, <2>3, PassAsks DEF SettlingOf
  <2>4. CASE rec.stage # "idle"
    <3>1. rec'.stage # "idle" /\ ~rec'.current
      BY <2>2, <2>4 DEF DueInv, KeptInv, VerdictInv, HonestAnswer
    <3> QED
      BY <3>1 DEF SettlingOf, Asks
  <2> QED
    BY <2>3, <2>4
<1>6. CASE Drop
  BY <1>6 DEF Drop, OpenDue
<1>7. CASE Deliver
  BY <1>7, DeliverSettles
<1>8. ASSUME NEW k \in Jobs, HydrateCompleted(k) PROVE SettlingOf(j)'
  BY <1>8, HydrateSettles
<1>9. CASE Reconcile
  BY <1>9, ReadSettles, PassSettles DEF Reconcile
<1> QED
  BY <1>2, <1>3, <1>4, <1>5, <1>6, <1>7, <1>8, <1>9 DEF Next

\* When everything on its way has arrived, a run that was open at the connect
\* and has ended is shown with its end and its outputs.
THEOREM NothingStaysOpen == Spec => []NothingLeftOpen
<1>1. Init => DueInv
  BY InitKept DEF Init, DueInv, StillThere, Settling
<1>2. DueInv /\ [Next]_vars => DueInv'
  BY NextKept, ShownStays, NextSettles DEF DueInv
<1>3. DueInv => NothingLeftOpen
  BY DEF DueInv, KeptInv, VerdictInv, HonestAnswer, Settling, SettlingOf, Asks, Tells, IsSettled,
     NothingLeftOpen, Quiet, Over
<1> QED
  BY <1>1, <1>2, <1>3, PTL DEF Spec
=============================================================================
